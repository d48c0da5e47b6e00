------------------------ MODULE DomainMemory_proofs ------------------------
(***************************************************************************)
(* What a domain's conversation memory keeps through failing batches,      *)
(* restarts and sweeps, for any scenes, graphs, names and bounds.          *)
(***************************************************************************)
EXTENDS DomainMemory, Extrema

SceneRec == [anchor : Graphs \cup {Nil}, turnSeq : 0..MaxTurnSeq, used : 0..MaxStamp]

\* The records are functions of their keys.
RecType ==
    /\ scenes \in [DOMAIN scenes -> SceneRec] /\ DOMAIN scenes \subseteq SceneIds
    /\ topics \in [DOMAIN topics -> TopicSlot] /\ DOMAIN topics \subseteq Turns
    /\ archives \in [DOMAIN archives -> Kinds] /\ DOMAIN archives \subseteq Turns \X (1..MaxSeq)
    /\ planned \subseteq Turns /\ nodes \subseteq SceneIds

MemType ==
    /\ scene \in SceneIds \cup {Nil} /\ turn \in Turns \cup {Nil}
    /\ stamp \in 0..MaxStamp /\ clock \in Nat /\ trouble \in Nat
    /\ issued \subseteq SceneIds /\ after \subseteq SceneIds \X SceneIds
    /\ minted \in [Turns -> Nat] /\ gone \subseteq Turns

MergeSteps  == {"mergeWrite", "mergeDelete", "mergeAnchor"}
DeleteSteps == {"delPlans", "delRecords", "delNode"}

\* The call in flight, by the batch it is at.
OpenOp == op \in [at : {"open"}, scene : SceneIds, stamp : 0..MaxStamp]
MergeOp == op \in [at : MergeSteps, primary : SceneIds, from : SUBSET SceneIds, anchor : Graphs \cup {Nil}]
DeleteOp == op \in [at : DeleteSteps, topics : SUBSET Turns, scene : SceneIds \cup {Nil}]
AppendOp ==
    /\ op = [at |-> "append", cells |-> op.cells, settle |-> op.settle]
    /\ op.settle \in BOOLEAN /\ turn # Nil
    /\ op.cells \in [DOMAIN op.cells -> Kinds] /\ DOMAIN op.cells \subseteq {turn} \X (1..MaxSeq)

OpType ==
    \/ Ready
    \/ op = [at |-> "settle"]
    \/ At("open") /\ OpenOp
    \/ At("append") /\ AppendOp
    \/ op.at \in MergeSteps /\ MergeOp
    \/ op.at \in DeleteSteps /\ DeleteOp

\* What the earlier batches of the call have established.
OpInv ==
    /\ At("open") => /\ op.stamp = stamp
                     /\ op.scene \in DOMAIN scenes => scenes[op.scene].turnSeq < MaxTurnSeq
    /\ op.at \in MergeSteps => op.primary \in DOMAIN scenes /\ op.primary \notin op.from
    /\ op.at \in {"delPlans", "delRecords"} =>
          /\ op.topics \subseteq DOMAIN topics
          /\ op.scene # Nil => \A t \in op.topics : topics[t].scene = op.scene
          /\ \A k \in DOMAIN archives : k[1] \notin op.topics
    /\ At("delRecords") => planned \cap op.topics = {}
    /\ At("delNode") => op.scene # Nil

\* The scene that a turn id names was issued, and if it still exists its counter
\* has reached the turn.
Counted(t) == t[1] \in issued /\ (t[1] \in DOMAIN scenes => t[2] <= scenes[t[1]].turnSeq)

CountInv ==
    /\ DOMAIN scenes \subseteq issued
    /\ \A t \in DOMAIN topics \cup gone : Counted(t)
    /\ turn # Nil => Counted(turn)
    /\ \A t \in Turns : minted[t] > 0 => Counted(t)
    /\ \A t \in Turns : minted[t] <= 1

\* The content index is the content records, at every batch.
ContentInv == l4 = archives

Base == RecType /\ MemType /\ OpType /\ OpInv /\ CountInv /\ ContentInv

\* Stamps order the scenes as the host used them, and the next one lies above.
StampInv ==
    /\ \A s \in DOMAIN scenes : scenes[s].used <= stamp \/ scenes[s].used < clock
    /\ At("open") => \A s \in DOMAIN scenes \ {op.scene} : scenes[s].used < stamp
    /\ \A a, b \in DOMAIN scenes :
          a # b => /\ scenes[a].used # scenes[b].used
                   /\ <<a, b>> \in after <=> scenes[a].used > scenes[b].used

\* The topic records after a merge of S into p.
Retargeted(recs, S, p) ==
    [t \in DOMAIN recs |-> IF recs[t].scene \in S THEN [recs[t] EXCEPT !.scene = p] ELSE recs[t]]

Moving == op.at \in {"mergeDelete", "mergeAnchor"}

\* The mirrors, between two batches: the topic mirror has a row for each record
\* and is built from its rows, and the row of a turn no refused merge left behind
\* is its record, or becomes it by the retarget that ends the merge under way.
\* A cached tree without plan nodes belongs to a cascade, under way or cut.
MirrorInv ==
    /\ meta = BuildL2Meta(meta.rows)
    /\ meta.rows \in [DOMAIN topics -> TopicSlot]
    /\ \A t \in DOMAIN topics \ behind :
          topics[t] = IF Moving THEN Retargeted(meta.rows, op.from, op.primary)[t] ELSE meta.rows[t]
    /\ planned \subseteq plans
    /\ plans \ planned \subseteq cut \cup (IF At("delRecords") THEN op.topics ELSE {})

\* The scene and the turn the context remembers, also inside the calls that
\* remove them and after those that were refused.
LiveInv ==
    /\ scene # Nil => \/ scene \in DOMAIN scenes \cup LeftScenes
                      \/ At("delNode") /\ scene = op.scene
                      \/ At("mergeAnchor") /\ scene \in op.from
    /\ turn # Nil => scene # Nil /\ turn[1] = scene
    /\ turn # Nil /\ turn \in DOMAIN topics =>
          \/ topics[turn].scene = scene \/ turn \in LeftTurns
          \/ op.at \in {"mergeDelete", "mergeAnchor"} /\ scene \in op.from
    /\ turn # Nil /\ turn \in gone \ DOMAIN topics =>
          \/ turn \in LeftTurns
          \/ At("delNode") /\ scene = op.scene
    /\ DeletedTopicsOwnNothing

-----------------------------------------------------------------------------
(* Record tables. *)

\* A table with one record written.
LEMMA PutFacts ==
    ASSUME NEW f, NEW k, NEW v
    PROVE  /\ DOMAIN Put(f, k, v) = DOMAIN f \cup {k}
           /\ Put(f, k, v)[k] = v
           /\ \A x \in DOMAIN f : x # k => Put(f, k, v)[x] = f[x]
  BY DEF Put

\* It keeps the type of its records.
LEMMA PutType ==
    ASSUME NEW V, NEW f, f \in [DOMAIN f -> V], NEW k, NEW v \in V
    PROVE  Put(f, k, v) \in [DOMAIN Put(f, k, v) -> V]
  BY DEF Put

\* A table with the records of K deleted.
LEMMA DropFacts ==
    ASSUME NEW f, NEW K
    PROVE  /\ DOMAIN Drop(f, K) = DOMAIN f \ K
           /\ \A x \in DOMAIN f \ K : Drop(f, K)[x] = f[x]
  BY DEF Drop

\* It keeps the type of its records.
LEMMA DropType ==
    ASSUME NEW V, NEW f, f \in [DOMAIN f -> V], NEW K
    PROVE  Drop(f, K) \in [DOMAIN Drop(f, K) -> V]
  BY DEF Drop

\* A table with a batch of records written over it.
LEMMA OverlayFacts ==
    ASSUME NEW f, NEW g
    PROVE  DOMAIN Overlay(f, g) = DOMAIN f \cup DOMAIN g
  BY DEF Overlay

\* It keeps the type of its records.
LEMMA OverlayType ==
    ASSUME NEW V, NEW f, f \in [DOMAIN f -> V], NEW g, g \in [DOMAIN g -> V]
    PROVE  Overlay(f, g) \in [DOMAIN Overlay(f, g) -> V]
  BY DEF Overlay

(* The mirror of the topic records. *)

\* Writing one topic's row is what rebuilding the mirror from the records with
\* that topic written gives.
LEMMA MetaOfPut ==
    ASSUME NEW recs, recs \in [DOMAIN recs -> TopicSlot], NEW t, NEW row \in TopicSlot
    PROVE  L2MetaUpdate(BuildL2Meta(recs), t, row) = BuildL2Meta(Put(recs, t, row))
<1> DEFINE new == Put(recs, t, row)
           old == {<<recs[x].scene, x>> : x \in DOMAIN recs}
<1>1. DOMAIN new = DOMAIN recs \cup {t} /\ new[t] = row /\ \A x \in DOMAIN recs : x # t => new[x] = recs[x]
  BY DEF Put
<1> HIDE DEF new
<1>2. {p \in old : t \notin DOMAIN recs \/ p # <<recs[t].scene, t>>} \cup {<<row.scene, t>>}
        = {<<new[x].scene, x>> : x \in DOMAIN new}
  BY <1>1
<1>3. QED  BY <1>2 DEF L2MetaUpdate, BuildL2Meta, new

\* So does dropping the rows of topics that are deleted.
LEMMA MetaOfDrop ==
    ASSUME NEW recs, NEW T
    PROVE  RemoveTopicsFromIndices(BuildL2Meta(recs), T) = BuildL2Meta(Drop(recs, T))
<1> DEFINE new == Drop(recs, T)
           old == {<<recs[x].scene, x>> : x \in DOMAIN recs}
<1>1. DOMAIN new = DOMAIN recs \ T /\ \A x \in DOMAIN recs \ T : new[x] = recs[x]
  BY DropFacts
<1> HIDE DEF new
<1>2. {p \in old : p[2] \notin T} = {<<new[x].scene, x>> : x \in DOMAIN new}
  BY <1>1
<1>3. QED  BY <1>2 DEF RemoveTopicsFromIndices, BuildL2Meta, new

\* The same topics, each with its scene replaced if the merge removes it.
LEMMA RetargetedFacts ==
    ASSUME NEW recs, recs \in [DOMAIN recs -> TopicSlot], NEW S, NEW p \in SceneIds
    PROVE  /\ DOMAIN Retargeted(recs, S, p) = DOMAIN recs
           /\ Retargeted(recs, S, p) \in [DOMAIN recs -> TopicSlot]
           /\ \A t \in DOMAIN recs : Retargeted(recs, S, p)[t].scene =
                 IF recs[t].scene \in S THEN p ELSE recs[t].scene
  BY DEF Retargeted, TopicSlot

\* RetargetL2Meta does to the mirror what the merge did to the records.
LEMMA MetaOfRetarget ==
    ASSUME NEW recs, recs \in [DOMAIN recs -> TopicSlot], NEW S, NEW p \in SceneIds
    PROVE  RetargetL2Meta(BuildL2Meta(recs), S, p) = BuildL2Meta(Retargeted(recs, S, p))
<1> DEFINE new == Retargeted(recs, S, p)
           old == {<<recs[x].scene, x>> : x \in DOMAIN recs}
<1>1. DOMAIN new = DOMAIN recs
      /\ \A t \in DOMAIN recs : new[t].scene = IF recs[t].scene \in S THEN p ELSE recs[t].scene
  BY RetargetedFacts
<1> HIDE DEF new
<1> DEFINE Led(q) == IF q[1] \in S THEN <<p, q[2]>> ELSE q
<1>a. \A x \in DOMAIN recs : Led(<<recs[x].scene, x>>) = <<new[x].scene, x>>
  BY <1>1
<1> HIDE DEF Led
<1>b. {Led(q) : q \in old} = {<<new[x].scene, x>> : x \in DOMAIN new}
  BY <1>1, <1>a
<1>2. {IF q[1] \in S THEN <<p, q[2]>> ELSE q : q \in old} = {<<new[x].scene, x>> : x \in DOMAIN new}
  BY <1>b DEF Led
<1>3. \A t \in DOMAIN recs : (\E s \in S : <<s, t>> \in old) <=> recs[t].scene \in S
  OBVIOUS
<1>4. [t \in DOMAIN recs |-> IF \E s \in S : <<s, t>> \in old THEN [recs[t] EXCEPT !.scene = p]
                                                               ELSE recs[t]] = new
  BY <1>3 DEF new, Retargeted
<1> DEFINE m == BuildL2Meta(recs)
<1>5. m.rows = recs /\ m.byScene = old
  BY DEF BuildL2Meta
<1>6. BuildL2Meta(new) = [rows |-> new, byScene |-> {<<new[x].scene, x>> : x \in DOMAIN new}]
  BY DEF BuildL2Meta
<1> HIDE DEF m, old
<1>7. RetargetL2Meta(m, S, p) =
        [rows |-> [t \in DOMAIN m.rows |->
                     IF \E s \in S : <<s, t>> \in m.byScene THEN [m.rows[t] EXCEPT !.scene = p]
                                                            ELSE m.rows[t]],
         byScene |-> {IF q[1] \in S THEN <<p, q[2]>> ELSE q : q \in m.byScene}]
  BY Zenon DEF RetargetL2Meta
<1>8. QED  BY <1>2, <1>4, <1>5, <1>6, <1>7 DEF m, new
(* The scene a domain resumes and the slot an append gets. *)

\* Some scene is later than all others, so CurrentScene finds one.
LEMMA CurrentSceneIsLatest ==
    ASSUME RecType, DOMAIN scenes # {}
    PROVE  /\ CurrentScene \in DOMAIN scenes
           /\ \A b \in DOMAIN scenes \ {CurrentScene} : Later(CurrentScene, b)
<1> USE ConstantsOK
<1>1. \A s \in DOMAIN scenes : /\ s \in Nat
                               /\ scenes[s].used \in Nat /\ scenes[s].used <= MaxStamp
                               /\ scenes[s].turnSeq \in Nat /\ scenes[s].turnSeq <= MaxTurnSeq
  BY DEF RecType, SceneRec
<1>2. PICK a \in DOMAIN scenes : \A s \in DOMAIN scenes : scenes[s].used <= scenes[a].used
  <2> DEFINE U == {scenes[s].used : s \in DOMAIN scenes}
  <2>1. U \in SUBSET Nat /\ U # {} /\ \A x \in U : x <= MaxStamp
    BY <1>1
  <2>2. PICK m \in U : \A x \in U : x <= m
    <3> HIDE DEF U
    <3> QED  BY <2>1, BoundedSetHasMax
  <2>3. QED  BY <2>2
<1> DEFINE A == {s \in DOMAIN scenes : scenes[s].used = scenes[a].used}
<1>3. PICK b \in A : \A s \in A : scenes[s].turnSeq <= scenes[b].turnSeq
  <2> DEFINE V == {scenes[s].turnSeq : s \in A}
  <2>1. V \in SUBSET Nat /\ V # {} /\ \A x \in V : x <= MaxTurnSeq
    BY <1>1
  <2>2. PICK m \in V : \A x \in V : x <= m
    <3> HIDE DEF V
    <3> QED  BY <2>1, BoundedSetHasMax
  <2>3. QED  BY <2>2
<1> DEFINE B == {s \in A : scenes[s].turnSeq = scenes[b].turnSeq}
<1>4. PICK c \in B : \A s \in B : c <= s
  <2>1. B \in SUBSET Nat /\ B # {}
    BY <1>1
  <2> HIDE DEF B
  <2>2. QED  BY <2>1, NatSetHasMin
<1>5. ASSUME NEW s \in DOMAIN scenes \ {c} PROVE Later(c, s)
  <2>1. scenes[s].used <= scenes[c].used
    BY <1>2
  <2>2. scenes[s].used = scenes[c].used => scenes[s].turnSeq <= scenes[c].turnSeq
    BY <1>3, <1>4
  <2>3. scenes[s].used = scenes[c].used /\ scenes[s].turnSeq = scenes[c].turnSeq => c < s
    BY <1>1, <1>4
  <2>4. QED  BY <1>1, <2>1, <2>2, <2>3 DEF Later
<1>6. \E x \in DOMAIN scenes : \A y \in DOMAIN scenes \ {x} : Later(x, y)
  BY <1>5
<1> DEFINE L(x) == \A y \in DOMAIN scenes \ {x} : Later(x, y)
<1>7. CurrentScene = CHOOSE x \in DOMAIN scenes : L(x)
  BY DEF CurrentScene
<1>8. \E x \in DOMAIN scenes : L(x)
  BY <1>6
<1> HIDE DEF L
<1>9. CurrentScene \in DOMAIN scenes /\ L(CurrentScene)
  BY <1>7, <1>8
<1>10. QED  BY <1>9 DEF L

\* The scene a query without a scene goes to: the remembered one, or the one
\* CurrentScene finds.
LEMMA EnsureSceneType ==
    ASSUME RecType, MemType
    PROVE  /\ EnsureScene \in SceneIds \cup {Nil}
           /\ EnsureScene # Nil /\ scene = Nil => EnsureScene \in DOMAIN scenes
           /\ scene # Nil => EnsureScene = scene
<1>1. CASE scene # Nil
  BY <1>1 DEF EnsureScene, MemType
<1>2. CASE scene = Nil /\ DOMAIN scenes = {}
  BY <1>2 DEF EnsureScene, CurrentScene
<1>3. CASE scene = Nil /\ DOMAIN scenes # {}
  BY <1>3, CurrentSceneIsLatest DEF EnsureScene, RecType
<1>4. QED  BY <1>1, <1>2, <1>3

\* A slot allocated for an append lies behind the two dialogue slots and behind
\* every slot the turn has.
LEMMA NextSeqType ==
    ASSUME RecType, ContentInv, NEW t
    PROVE  /\ NextSeq(t) \in Nat /\ NextSeq(t) > LastUtteranceSeq
           /\ \A k \in DOMAIN archives : k[1] = t => k[2] < NextSeq(t)
<1> USE ConstantsOK
<1> DEFINE S == {0} \cup {k[2] : k \in {x \in DOMAIN l4 : x[1] = t}}
<1>1. S \in SUBSET Nat /\ S # {} /\ \A x \in S : x <= MaxSeq
  BY DEF RecType, ContentInv
<1>2. \A k \in DOMAIN archives : k[1] = t => k[2] \in S
  BY DEF ContentInv
<1>3. Max(S) \in Nat /\ \A x \in S : x <= Max(S)
  <2> HIDE DEF S
  <2> QED  BY <1>1, MaxOfBounded
<1>4. L4MaxSeq(t) = Max(S)
  BY DEF L4MaxSeq
<1> HIDE DEF S
<1>5. NextSeq(t) = (IF Max(S) >= 2 THEN Max(S) ELSE 2) + 1
  BY <1>3, <1>4, MaxOfTwo DEF NextSeq, LastUtteranceSeq
<1>6. QED  BY <1>1, <1>2, <1>3, <1>5 DEF LastUtteranceSeq

\* The cells of one append are cells of the open turn.
LEMMA CellsType ==
    ASSUME NEW pairs \in SUBSET ((1..MaxSeq) \X Kinds)
    PROVE  /\ Cells(pairs) \in [DOMAIN Cells(pairs) -> Kinds]
           /\ DOMAIN Cells(pairs) \subseteq {turn} \X (1..MaxSeq)
<1> DEFINE K == {<<turn, p[1]>> : p \in pairs}
           v(k) == (CHOOSE p \in pairs : p[1] = k[2])[2]
<1>1. Cells(pairs) = [k \in K |-> v(k)]
  BY DEF Cells
<1>2. ASSUME NEW k \in K PROVE v(k) \in Kinds
  <2>1. \E p \in pairs : p[1] = k[2]
    OBVIOUS
  <2>2. (CHOOSE p \in pairs : p[1] = k[2]) \in pairs
    BY <2>1
  <2>3. QED  BY <2>2
<1>3. K \subseteq {turn} \X (1..MaxSeq)
  OBVIOUS
<1> HIDE DEF K, v
<1>4. QED  BY <1>1, <1>2, <1>3

-----------------------------------------------------------------------------
(* Steps and the part of the invariant that holds whatever fails. *)

\* The scene records with one turn counter bumped.
LEMMA BumpFacts ==
    ASSUME RecType, NEW s \in DOMAIN scenes, scenes[s].turnSeq < MaxTurnSeq, NEW t \in 0..MaxStamp
    PROVE  /\ DOMAIN BumpTurn(s, t) = DOMAIN scenes
           /\ BumpTurn(s, t) \in [DOMAIN scenes -> SceneRec]
           /\ BumpTurn(s, t)[s].turnSeq = scenes[s].turnSeq + 1
           /\ BumpTurn(s, t)[s].used = t
           /\ \A x \in DOMAIN scenes : x # s => BumpTurn(s, t)[x] = scenes[x]
<1> USE ConstantsOK
<1> DEFINE r == [scenes[s] EXCEPT !.turnSeq = scenes[s].turnSeq + 1]
           b == [scenes EXCEPT ![s] = r]
           q == [r EXCEPT !.used = t]
<1>1. scenes[s] \in SceneRec /\ scenes[s].turnSeq \in 0..MaxTurnSeq
  BY DEF RecType, SceneRec
<1>2. r \in SceneRec /\ r.turnSeq = scenes[s].turnSeq + 1
  BY <1>1 DEF SceneRec
<1> HIDE DEF r
<1>3. q \in SceneRec /\ q.turnSeq = scenes[s].turnSeq + 1 /\ q.used = t
  BY <1>2 DEF SceneRec
<1>4. b \in [DOMAIN scenes -> SceneRec] /\ b[s] = r /\ \A x \in DOMAIN scenes : x # s => b[x] = scenes[x]
  BY <1>2 DEF RecType
<1>5. BumpTurn(s, t) = [b EXCEPT ![s] = [b[s] EXCEPT !.used = t]]
  BY Zenon DEF BumpTurn, r
<1> HIDE DEF b, q
<1>6. [b[s] EXCEPT !.used = t] = q
  BY <1>4 DEF q
<1>7. BumpTurn(s, t) = [b EXCEPT ![s] = q]
  BY <1>5, <1>6
<1>8. QED  BY <1>3, <1>4, <1>7

\* A call that ends, or breaks off at a refused batch, without another effect.
LEMMA CallEnds ==
    ASSUME Base, op' = Idle, UNCHANGED <<records, mirrors, memory, clock, uses, minted, gone>>,
           trouble' \in Nat
    PROVE  Base'
<1> USE DEF Base, records, mirrors, memory, history, uses
<1>1. (RecType /\ MemType /\ ContentInv)'
  BY DEF RecType, MemType, ContentInv
<1>2. op'.at = "idle"
  BY DEF Idle
<1>3. (OpType /\ OpInv)'
  BY <1>2 DEF OpType, OpInv, Ready, At, MergeSteps
<1>4. CountInv'
  BY DEF CountInv, Counted
<1>5. QED  BY <1>1, <1>3, <1>4

\* A new scene has a fresh id and a counter at zero.
LEMMA SearchBase ==
    ASSUME Base, NEW q \in Queries, NEW now \in Nat, Search(q, now)
    PROVE  Base'
<1> USE ConstantsOK DEF Base
<1> DEFINE s  == NextUsedStamp(now)
           to == IF q.scene # Nil THEN q.scene ELSE EnsureScene
<1>0. /\ Ready /\ s <= MaxStamp /\ clock' = now /\ stamp' = s /\ scene' = RestoredScene(q)
      /\ UNCHANGED <<topics, archives, planned, nodes, mirrors, turn, minted, gone>>
  BY DEF Search
<1>1. s \in 0..MaxStamp
  BY <1>0 DEF NextUsedStamp, MemType
<1>2. scene' \in SceneIds \cup {Nil}
  BY <1>0, EnsureSceneType DEF RestoredScene, MemType
<1>3. ContentInv'
  BY <1>0 DEF ContentInv, mirrors
<1> HIDE DEF s, to
<1>4. CASE UNCHANGED <<scenes, uses, op, trouble>>
  <2>1. (RecType /\ MemType)'
    BY <1>0, <1>1, <1>2, <1>4 DEF RecType, MemType, uses
  <2>2. (OpType /\ OpInv)'
    BY <1>0, <1>4 DEF OpType, OpInv, Ready, At, MergeSteps, Idle
  <2>3. CountInv'
    BY <1>0, <1>4 DEF CountInv, Counted, uses
  <2>4. QED  BY <1>3, <2>1, <2>2, <2>3
<1>5. CASE Creates(q) /\ CreateScene(q.anchor, s) /\ UNCHANGED trouble
  <2>1. PICK id \in SceneIds \ (issued \cup DOMAIN scenes) :
           /\ scenes' = Put(scenes, id, [anchor |-> q.anchor, turnSeq |-> 0, used |-> s])
           /\ Touch(id)
           /\ op' = [at |-> "open", scene |-> id, stamp |-> s]
    BY <1>5 DEF CreateScene
  <2>2. [anchor |-> q.anchor, turnSeq |-> 0, used |-> s] \in SceneRec
    BY <1>1 DEF SceneRec, Queries
  <2>3. /\ DOMAIN scenes' = DOMAIN scenes \cup {id} /\ scenes' \in [DOMAIN scenes' -> SceneRec]
        /\ scenes'[id].turnSeq = 0 /\ \A x \in DOMAIN scenes : scenes'[x] = scenes[x]
    <3> DEFINE r == [anchor |-> q.anchor, turnSeq |-> 0, used |-> s]
    <3>1. r.turnSeq = 0 /\ r \in SceneRec /\ scenes' = Put(scenes, id, r)
      BY <2>1, <2>2
    <3> HIDE DEF r
    <3>2. QED  BY <2>1, <3>1 DEF RecType, Put
  <2>4. (RecType /\ MemType)'
    BY <1>0, <1>1, <1>2, <1>5, <2>1, <2>3 DEF RecType, MemType, Touch
  <2>5. (OpType /\ OpInv)'
    BY <1>0, <1>1, <2>1, <2>3 DEF OpType, OpInv, OpenOp, At, MergeSteps
  <2>6. CountInv'
    BY <1>0, <2>1, <2>3 DEF CountInv, Counted, Touch
  <2>7. QED  BY <1>3, <2>4, <2>5, <2>6
<1>6. CASE Fails("create") /\ UNCHANGED <<scenes, uses>>
  <2>1. (RecType /\ MemType)'
    BY <1>0, <1>1, <1>2, <1>6 DEF RecType, MemType, uses, Fails
  <2>2. (OpType /\ OpInv)'
    BY <1>6 DEF OpType, OpInv, Ready, At, MergeSteps, Idle, Fails
  <2>3. CountInv'
    BY <1>0, <1>6 DEF CountInv, Counted, uses
  <2>4. QED  BY <1>3, <2>1, <2>2, <2>3
<1>7. CASE /\ ~ Refused(q) /\ ~ Creates(q)
           /\ to \in DOMAIN scenes => scenes[to].turnSeq < MaxTurnSeq
           /\ op' = [at |-> "open", scene |-> to, stamp |-> s]
           /\ UNCHANGED <<scenes, uses, trouble>>
  <2>1. to \in SceneIds
    BY <1>7, EnsureSceneType DEF Refused, Creates, RecType, to
  <2>2. (RecType /\ MemType)'
    BY <1>0, <1>1, <1>2, <1>7 DEF RecType, MemType, uses
  <2>3. (OpType /\ OpInv)'
    BY <1>0, <1>1, <1>7, <2>1 DEF OpType, OpInv, OpenOp, At, MergeSteps
  <2>4. CountInv'
    BY <1>0, <1>7 DEF CountInv, Counted, uses
  <2>5. QED  BY <1>3, <2>2, <2>3, <2>4
<1>8. QED  BY <1>4, <1>5, <1>6, <1>7 DEF Search, s, to
\* A turn id is a scene and a count.
LEMMA TurnsArePairs == Turns = SceneIds \X (1..MaxTurnSeq)
  BY DEF Turns, ComputeTurnTopicID

\* Bumping the counter keeps every counted turn counted, and the turn it opens
\* was never handed out.
LEMMA BumpCounts ==
    ASSUME Base, At("open"), op.scene \in DOMAIN scenes,
           scenes' = BumpTurn(op.scene, op.stamp), Touch(op.scene)
    PROVE  /\ DOMAIN scenes' = DOMAIN scenes /\ scenes' \in [DOMAIN scenes -> SceneRec]
           /\ scenes'[op.scene].turnSeq = scenes[op.scene].turnSeq + 1
           /\ scenes'[op.scene].used = stamp
           /\ \A x \in DOMAIN scenes : x # op.scene => scenes'[x] = scenes[x]
           /\ \A t \in Turns : Counted(t) => Counted(t)'
           /\ OpenedTurn(op.scene) \in Turns
           /\ \A t \in Turns : t = OpenedTurn(op.scene) => Counted(t)'
           /\ ~Counted(OpenedTurn(op.scene))
           /\ issued' \subseteq SceneIds /\ DOMAIN scenes' \subseteq issued'
           /\ after' \subseteq SceneIds \X SceneIds
<1> USE ConstantsOK DEF Base
<1>0. op.scene \in SceneIds /\ op.stamp \in 0..MaxStamp /\ op.stamp = stamp
      /\ scenes[op.scene].turnSeq < MaxTurnSeq
  BY DEF OpType, OpInv, At, Ready, Idle, OpenOp, MergeSteps, DeleteSteps
<1>1. /\ DOMAIN scenes' = DOMAIN scenes /\ scenes' \in [DOMAIN scenes -> SceneRec]
      /\ scenes'[op.scene].turnSeq = scenes[op.scene].turnSeq + 1
      /\ scenes'[op.scene].used = stamp
      /\ \A x \in DOMAIN scenes : x # op.scene => scenes'[x] = scenes[x]
  BY <1>0, BumpFacts
<1>2. \A x \in DOMAIN scenes : scenes[x].turnSeq \in 0..MaxTurnSeq
  BY DEF RecType, SceneRec
<1>3. issued' = issued \cup {op.scene} /\ issued' \subseteq SceneIds /\ DOMAIN scenes' \subseteq issued'
  BY <1>0, <1>1 DEF Touch, MemType, CountInv
<1>4. after' \subseteq SceneIds \X SceneIds
  BY <1>0 DEF Touch, MemType
<1>5. ASSUME NEW t \in Turns, Counted(t) PROVE Counted(t)'
  <2>1. t[2] \in Nat
    BY DEF Turns, ComputeTurnTopicID
  <2>2. QED  BY <1>1, <1>2, <1>3, <1>5, <2>1 DEF Counted
<1>6. OpenedTurn(op.scene) = <<op.scene, scenes[op.scene].turnSeq + 1>>
  BY DEF OpenedTurn, ComputeTurnTopicID
<1>7. OpenedTurn(op.scene) \in Turns
  BY <1>0, <1>2, <1>6, TurnsArePairs
<1>8. ~Counted(OpenedTurn(op.scene))
  BY <1>2, <1>6 DEF Counted
<1>9. ASSUME NEW t \in Turns, t = OpenedTurn(op.scene) PROVE Counted(t)'
  BY <1>1, <1>2, <1>3, <1>6, <1>9 DEF Counted
<1>10. QED  BY <1>1, <1>3, <1>4, <1>5, <1>7, <1>8, <1>9

\* A turn is opened: the counter is written and the context remembers the turn.
LEMMA OpenSceneTurnBase ==
    ASSUME Base, OpenSceneTurn
    PROVE  Base'
<1> USE ConstantsOK DEF Base, OpenSceneTurn, mirrors, uses
<1>0. PICK t : t = OpenedTurn(op.scene)
  OBVIOUS
<1>1. /\ DOMAIN scenes' = DOMAIN scenes /\ scenes' \in [DOMAIN scenes -> SceneRec]
      /\ \A u \in Turns : Counted(u) => Counted(u)'
      /\ t \in Turns /\ Counted(t)' /\ ~Counted(t)
      /\ issued' \subseteq SceneIds /\ DOMAIN scenes' \subseteq issued'
      /\ after' \subseteq SceneIds \X SceneIds
  BY <1>0, BumpCounts
<1>2. op' = Idle /\ op'.at = "idle" /\ turn' = t /\ minted' = [minted EXCEPT ![t] = @ + 1]
  BY <1>0 DEF Idle
<1>3. scene' \in SceneIds
  BY DEF RecType
<1> HIDE DEF OpenSceneTurn
<1>4. UNCHANGED <<topics, archives, planned, nodes, meta, l4, plans, stamp, clock, gone, trouble>>
  BY DEF OpenSceneTurn
<1>5. (RecType /\ ContentInv)'
  BY <1>1, <1>4 DEF RecType, ContentInv
<1>6. MemType'
  BY <1>1, <1>2, <1>3, <1>4 DEF MemType
<1>7. (OpType /\ OpInv)'
  BY <1>2 DEF OpType, OpInv, Ready, At, MergeSteps
<1>8. minted[t] = 0
  BY <1>1 DEF CountInv, MemType
<1>9. \A u \in Turns : minted'[u] = IF u = t THEN 1 ELSE minted[u]
  BY <1>1, <1>2, <1>8 DEF MemType
<1>10. CountInv'
  <2>1. \A u \in DOMAIN topics \cup gone : Counted(u)'
    BY <1>1 DEF CountInv, RecType, MemType
  <2>2. \A u \in Turns : minted'[u] > 0 => Counted(u)'
    BY <1>1, <1>9 DEF CountInv
  <2>3. \A u \in Turns : minted'[u] <= 1
    BY <1>9 DEF CountInv
  <2>4. QED  BY <1>1, <1>2, <1>4, <2>1, <2>2, <2>3 DEF CountInv, Counted
<1>11. QED  BY <1>5, <1>6, <1>7, <1>10

\* The counter is written and the profile does not read.
LEMMA ReadProfileFailsBase ==
    ASSUME Base, ReadProfileFails
    PROVE  Base'
<1> USE ConstantsOK DEF Base, ReadProfileFails, Fails, mirrors, memory
<1>1. /\ DOMAIN scenes' = DOMAIN scenes /\ scenes' \in [DOMAIN scenes -> SceneRec]
      /\ \A u \in Turns : Counted(u) => Counted(u)'
      /\ issued' \subseteq SceneIds /\ DOMAIN scenes' \subseteq issued'
      /\ after' \subseteq SceneIds \X SceneIds
  BY BumpCounts
<1>2. op' = Idle /\ op'.at = "idle"
  BY DEF Idle
<1>3. (RecType /\ MemType /\ ContentInv)'
  BY <1>1 DEF RecType, MemType, ContentInv
<1>4. (OpType /\ OpInv)'
  BY <1>2 DEF OpType, OpInv, Ready, At, MergeSteps
<1>5. CountInv'
  <2>1. \A u \in DOMAIN topics \cup gone : Counted(u)'
    BY <1>1 DEF CountInv, RecType, MemType
  <2>2. turn # Nil => Counted(turn)'
    BY <1>1 DEF CountInv, MemType, Counted
  <2>3. \A u \in Turns : minted[u] > 0 => Counted(u)'
    BY <1>1 DEF CountInv
  <2>4. QED  BY <1>1, <2>1, <2>2, <2>3 DEF CountInv, Counted
<1>6. QED  BY <1>3, <1>4, <1>5

\* The other ways a call ends without another effect.
LEMMA EndingsBase ==
    ASSUME Base,
           \/ OpenSceneTurnFails \/ AppendArchiveBatchFails \/ SettleRefused
           \/ CreateTurnTopicFails \/ MergeBatchFails \/ CascadeFails
    PROVE  Base'
<1>1. trouble \in Nat
  BY DEF Base, MemType
<1>2. /\ op' = Idle /\ UNCHANGED <<records, mirrors, memory, clock, uses, minted, gone>>
      /\ trouble' \in Nat
  BY <1>1 DEF history, OpenSceneTurnFails, AppendArchiveBatchFails, SettleRefused, CreateTurnTopicFails,
              MergeBatchFails, CascadeFails, Fails
<1>3. QED  BY <1>2, CallEnds

\* A read restores the current scene.
LEMMA SceneContextBase ==
    ASSUME Base, SceneContext
    PROVE  Base'
<1> USE DEF Base, SceneContext, records, mirrors, history, uses
<1>1. scene' \in SceneIds \cup {Nil}
  BY EnsureSceneType
<1>2. (RecType /\ MemType /\ ContentInv)'
  BY <1>1 DEF RecType, MemType, ContentInv
<1>3. (OpType /\ OpInv)'
  BY DEF OpType, OpInv, Ready, At, MergeSteps, Idle
<1>4. CountInv'
  BY DEF CountInv, Counted
<1>5. QED  BY <1>2, <1>3, <1>4

\* The cells of an append or a turn's end are gathered.
LEMMA AppendStarts ==
    ASSUME Base, Ready, turn # Nil, NEW pairs \in SUBSET ((1..MaxSeq) \X Kinds), NEW b \in BOOLEAN,
           op' = [at |-> "append", cells |-> Cells(pairs), settle |-> b],
           UNCHANGED <<records, mirrors, memory, clock, history, trouble>>
    PROVE  Base'
<1> USE DEF Base, records, mirrors, memory, history, uses
<1>1. (RecType /\ MemType /\ ContentInv)'
  BY DEF RecType, MemType, ContentInv
<1>2. PICK c : c = Cells(pairs)
  OBVIOUS
<1>3. c \in [DOMAIN c -> Kinds] /\ DOMAIN c \subseteq {turn} \X (1..MaxSeq)
  BY <1>2, CellsType
<1>4. op' = [at |-> "append", cells |-> c, settle |-> b]
  BY <1>2
<1>5. op'.at = "append" /\ op'.cells = c /\ op'.settle = b
  BY <1>4
<1>6. AppendOp'
  BY <1>3, <1>4, <1>5 DEF AppendOp
<1>7. (OpType /\ OpInv)'
  BY <1>5, <1>6 DEF OpType, OpInv, At, MergeSteps
<1>8. CountInv'
  BY DEF CountInv, Counted
<1>9. QED  BY <1>1, <1>7, <1>8

\* One host append gathers one cell.
LEMMA AppendArchiveBase ==
    ASSUME Base, NEW a \in Appends, AppendArchive(a[1], a[2])
    PROVE  Base'
<1> USE ConstantsOK
<1> DEFINE slot == IF a[2] = 0 THEN NextSeq(turn) ELSE a[2]
<1>1. a[1] \in Kinds /\ a[2] \in 0..MaxSeq
  BY DEF Kinds
<1>2. slot <= MaxSeq
  BY DEF AppendArchive
<1>3. slot \in 1..MaxSeq
  BY <1>1, <1>2, NextSeqType DEF Base, LastUtteranceSeq
<1>4. {<<slot, a[1]>>} \in SUBSET ((1..MaxSeq) \X Kinds)
  BY <1>1, <1>3
<1>5. op' = [at |-> "append", cells |-> Cells({<<slot, a[1]>>}), settle |-> FALSE]
  BY DEF AppendArchive
<1> HIDE DEF slot
<1>6. QED  BY <1>4, <1>5, AppendStarts DEF AppendArchive

\* The end of a turn gathers its utterances and its outcome.
LEMMA UpdateBase ==
    ASSUME Base, NEW ends \in Ends, Update(ends)
    PROVE  Base'
<1> USE ConstantsOK
<1>1. TurnEndRecords(ends) \in SUBSET ((1..MaxSeq) \X Kinds)
  BY NextSeqType DEF TurnEndRecords, Kinds, Update, Base, LastUtteranceSeq
<1>2. QED  BY <1>1, AppendStarts DEF Update

\* The batch of content is written to records and index alike.
LEMMA AppendArchiveBatchBase ==
    ASSUME Base, AppendArchiveBatch
    PROVE  Base'
<1> USE DEF Base, AppendArchiveBatch, memory, history, uses
<1>0. /\ turn \in Turns /\ DOMAIN op.cells \subseteq {turn} \X (1..MaxSeq)
      /\ op.cells \in [DOMAIN op.cells -> Kinds] /\ op.settle \in BOOLEAN
  BY DEF OpType, AppendOp, At, Ready, Idle, MergeSteps, DeleteSteps, MemType
<1>1. ContentInv'
  BY DEF ContentInv
<1>2. RecType'
  <2>1. DOMAIN archives' = DOMAIN archives \cup DOMAIN op.cells
    BY OverlayFacts
  <2>2. archives' \in [DOMAIN archives' -> Kinds]
    BY <1>0, OverlayType DEF RecType
  <2>3. QED  BY <1>0, <2>1, <2>2 DEF RecType
<1>3. MemType'
  BY DEF MemType
<1>4. op' = Idle \/ op' = [at |-> "settle"]
  OBVIOUS
<1>5. (OpType /\ OpInv)'
  BY <1>4 DEF OpType, OpInv, Ready, At, MergeSteps, Idle
<1>6. CountInv'
  BY DEF CountInv, Counted
<1>7. QED  BY <1>1, <1>2, <1>3, <1>5, <1>6

\* A turn becomes a topic of the scene that counted it.
LEMMA CreateTurnTopicBase ==
    ASSUME Base, CreateTurnTopic
    PROVE  Base'
<1> USE ConstantsOK DEF Base, CreateTurnTopic, Settles, memory, history, uses
<1>0. scene \in DOMAIN scenes /\ scene \in SceneIds /\ scenes[scene].turnSeq \in 0..MaxTurnSeq
  BY DEF RecType, SceneRec
<1>1. PICK n \in 1..scenes[scene].turnSeq : turn = <<scene, n>>
  BY DEF SettleTarget, ComputeTurnTopicID
<1>2. turn \in Turns /\ Counted(turn)
  BY <1>0, <1>1, TurnsArePairs DEF Counted, CountInv
<1>3. TurnTopic(scene, turn) \in TopicSlot
  BY <1>0 DEF TurnTopic, TopicSlot, RecType
<1>4. RecType'
  <2>1. DOMAIN topics' = DOMAIN topics \cup {turn} /\ topics' \in [DOMAIN topics' -> TopicSlot]
    BY <1>3, PutFacts, PutType DEF RecType
  <2>2. QED  BY <1>2, <2>1 DEF RecType
<1>5. (MemType /\ ContentInv)'
  BY DEF MemType, ContentInv
<1>6. (OpType /\ OpInv)'
  BY DEF OpType, OpInv, Ready, At, MergeSteps, Idle
<1>7. CountInv'
  <2>1. DOMAIN topics' = DOMAIN topics \cup {turn}
    BY PutFacts
  <2>2. QED  BY <1>2, <2>1 DEF CountInv, Counted
<1>8. QED  BY <1>4, <1>5, <1>6, <1>7

\* A plan node of the open turn is written.
LEMMA PlanNodeAddBase ==
    ASSUME Base, PlanNodeAdd
    PROVE  Base'
<1> USE DEF Base, PlanNodeAdd, memory, history, uses
<1>1. (RecType /\ MemType /\ ContentInv)'
  BY DEF RecType, MemType, ContentInv
<1>2. (OpType /\ OpInv)'
  BY DEF OpType, OpInv, Ready, At, MergeSteps, Idle
<1>3. CountInv'
  BY DEF CountInv, Counted
<1>4. QED  BY <1>1, <1>2, <1>3

\* The records after a rename.
LEMMA RenamedFacts ==
    ASSUME RecType, NEW t \in DOMAIN topics, NEW name \in Names,
           topics' = [topics EXCEPT ![t].name = name]
    PROVE  /\ DOMAIN topics' = DOMAIN topics /\ topics' \in [DOMAIN topics -> TopicSlot]
           /\ topics' = Put(topics, t, topics'[t]) /\ topics'[t] \in TopicSlot
           /\ \A x \in DOMAIN topics : topics'[x].scene = topics[x].scene
<1> DEFINE r == [topics[t] EXCEPT !.name = name]
<1>1. topics[t] \in TopicSlot /\ topics \in [DOMAIN topics -> TopicSlot]
  BY DEF RecType
<1>2. r \in TopicSlot /\ r.scene = topics[t].scene
  BY <1>1 DEF TopicSlot
<1>3. topics' = [topics EXCEPT ![t] = r]
  OBVIOUS
<1> HIDE DEF r
<1>4. QED  BY <1>1, <1>2, <1>3, ZenonT(30) DEF Put

\* A topic gets a host name.
LEMMA RenameTopicBase ==
    ASSUME Base, NEW t \in Turns, NEW name \in Names, RenameTopic(t, name)
    PROVE  Base'
<1> USE DEF Base, memory, history, uses
<1>0. t \in DOMAIN topics /\ topics' = [topics EXCEPT ![t].name = name] /\ Ready
      /\ UNCHANGED <<scenes, archives, planned, nodes, l4, plans, memory, clock, op, uses, minted, gone, trouble>>
  BY DEF RenameTopic
<1>1. DOMAIN topics' = DOMAIN topics /\ topics' \in [DOMAIN topics -> TopicSlot]
  BY <1>0, RenamedFacts
<1>2. (RecType /\ MemType /\ ContentInv)'
  BY <1>0, <1>1 DEF RecType, MemType, ContentInv
<1>3. (OpType /\ OpInv)'
  BY <1>0 DEF OpType, OpInv, Ready, At, MergeSteps, Idle
<1>4. CountInv'
  BY <1>0, <1>1 DEF CountInv, Counted
<1>5. QED  BY <1>2, <1>3, <1>4
\* A merge begins: the secondaries' L1 nodes go.
LEMMA MergeScenesBase ==
    ASSUME Base, NEW p \in SceneIds, NEW S \in SUBSET SceneIds, MergeScenes(p, S)
    PROVE  Base'
<1> USE DEF Base, MergeScenes, mirrors, memory, history, uses
<1>0. MergedAnchor(p, S) \in Graphs \cup {Nil}
  <2>1. Anchors(S) \subseteq Graphs
    BY DEF Anchors, RecType, SceneRec
  <2>2. QED  BY <2>1 DEF MergedAnchor
<1>1. nodes' \subseteq nodes
  OBVIOUS
<1>2. (RecType /\ ContentInv /\ CountInv)'
  BY <1>1 DEF RecType, ContentInv, CountInv, Counted
<1>3. MemType'
  BY DEF MemType, Fails
<1>4. (OpType /\ OpInv)'
  <2>1. CASE op' = Idle
    BY <2>1 DEF OpType, OpInv, Ready, At, MergeSteps, Idle
  <2>2. CASE op' = [at |-> "mergeWrite", primary |-> p, from |-> S, anchor |-> MergedAnchor(p, S)]
    <3>1. PICK g \in Graphs \cup {Nil} : g = MergedAnchor(p, S)
      BY <1>0
    <3>2. op' = [at |-> "mergeWrite", primary |-> p, from |-> S, anchor |-> g]
      BY <2>2, <3>1
    <3>3. op'.at = "mergeWrite" /\ op'.primary = p /\ op'.from = S
      BY <3>2
    <3>4. MergeOp'
      BY <3>2 DEF MergeOp, MergeSteps
    <3>5. QED  BY <3>3, <3>4 DEF OpType, OpInv, At, MergeSteps
  <2>3. QED  BY <2>1, <2>2 DEF Fails
<1>5. QED  BY <1>2, <1>3, <1>4

\* What a merge in flight carries.
LEMMA MergeOpFacts ==
    ASSUME Base, op.at \in MergeSteps
    PROVE  /\ MergeOp /\ op.primary \in SceneIds /\ op.from \subseteq SceneIds
           /\ op.primary \in DOMAIN scenes /\ op.primary \notin op.from
           /\ op.anchor \in Graphs \cup {Nil}
  BY DEF Base, OpType, OpInv, MergeOp, At, Ready, Idle, MergeSteps, DeleteSteps

\* The topics of the secondaries move to the survivor.
LEMMA MergeTopicsBase ==
    ASSUME Base, MergeTopics
    PROVE  Base'
<1> USE DEF Base, MergeTopics, mirrors, memory, history, uses
<1>0. MergeOp /\ op.primary \in SceneIds /\ op.primary \in DOMAIN scenes /\ op.primary \notin op.from
  BY MergeOpFacts DEF At, MergeSteps
<1>1. topics' = Retargeted(topics, op.from, op.primary)
  BY DEF Retargeted, Moved
<1>2. DOMAIN topics' = DOMAIN topics /\ topics' \in [DOMAIN topics -> TopicSlot]
  BY <1>0, <1>1, RetargetedFacts DEF RecType
<1> HIDE DEF MergeTopics
<1>3. /\ op' = [op EXCEPT !.at = "mergeDelete"]
      /\ UNCHANGED <<scenes, archives, planned, nodes, mirrors, memory, clock, history, trouble>>
  BY DEF MergeTopics
<1>4. (RecType /\ MemType /\ ContentInv)'
  BY <1>2, <1>3 DEF RecType, MemType, ContentInv
<1>5. CountInv'
  BY <1>2, <1>3 DEF CountInv, Counted
<1>6. op'.at = "mergeDelete" /\ op'.primary = op.primary /\ op'.from = op.from /\ MergeOp'
  BY <1>0, <1>3 DEF MergeOp, MergeSteps
<1>7. (OpType /\ OpInv)'
  BY <1>0, <1>3, <1>6 DEF OpType, OpInv, At, MergeSteps
<1>8. QED  BY <1>4, <1>5, <1>7

\* The context's memory after a merge.
LEMMA MergeMirrorsType ==
    ASSUME Base, op.at \in MergeSteps, MergeMirrors
    PROVE  /\ scene' \in SceneIds \cup {Nil} /\ turn' \in {turn, Nil}
           /\ op' = Idle /\ op'.at = "idle"
  BY MergeOpFacts DEF Base, MergeMirrors, MemType, Idle

\* The secondaries' records go.
LEMMA MergeDeleteScenesBase ==
    ASSUME Base, MergeDeleteScenes
    PROVE  Base'
<1> USE DEF Base, history, uses
<1>0. /\ At("mergeDelete") /\ scenes' = Drop(scenes, op.from)
      /\ UNCHANGED <<topics, archives, planned, nodes, l4, plans, stamp, clock, history, trouble>>
  BY DEF MergeDeleteScenes
<1>1. /\ MergeOp /\ op.primary \in SceneIds /\ op.primary \in DOMAIN scenes
      /\ op.primary \notin op.from
  BY <1>0, MergeOpFacts DEF At, MergeSteps
<1>2. /\ DOMAIN scenes' = DOMAIN scenes \ op.from /\ scenes' \in [DOMAIN scenes' -> SceneRec]
      /\ \A x \in DOMAIN scenes' : scenes'[x] = scenes[x]
  BY <1>0 DEF RecType, Drop
<1>3. (RecType /\ ContentInv)'
  BY <1>0, <1>2 DEF RecType, ContentInv
<1>4. \A t : Counted(t) => Counted(t)'
  BY <1>0, <1>2 DEF Counted
<1>5. scene' \in SceneIds \cup {Nil} /\ turn' \in {turn, Nil}
  BY <1>0, MergeMirrorsType DEF MergeDeleteScenes, At, MergeSteps, MemType
<1>6. MemType'
  BY <1>0, <1>5 DEF MemType
<1>7. CountInv'
  <2>1. turn' # Nil => Counted(turn)'
    BY <1>0, <1>2, <1>5 DEF CountInv, Counted
  <2>2. QED  BY <1>0, <1>2, <1>4, <2>1 DEF CountInv
<1>8. (OpType /\ OpInv)'
  <2>1. CASE op' = Idle
    BY <2>1 DEF OpType, OpInv, Ready, At, MergeSteps, Idle
  <2>2. CASE op' = [op EXCEPT !.at = "mergeAnchor"]
    <3>1. op'.at = "mergeAnchor" /\ op'.primary = op.primary /\ op'.from = op.from /\ MergeOp'
      BY <1>1, <2>2 DEF MergeOp, MergeSteps
    <3>2. QED  BY <1>1, <1>2, <3>1 DEF OpType, OpInv, At, MergeSteps
  <2>3. QED  BY <2>1, <2>2 DEF MergeDeleteScenes, MergeMirrors
<1>9. QED  BY <1>3, <1>6, <1>7, <1>8

\* The scene records after the survivor's anchor is written.
LEMMA AnchoredFacts ==
    ASSUME RecType, NEW p \in DOMAIN scenes, NEW g \in Graphs \cup {Nil},
           scenes' = [scenes EXCEPT ![p].anchor = g]
    PROVE  /\ DOMAIN scenes' = DOMAIN scenes /\ scenes' \in [DOMAIN scenes -> SceneRec]
           /\ \A x \in DOMAIN scenes : /\ scenes'[x].turnSeq = scenes[x].turnSeq
                                       /\ scenes'[x].used = scenes[x].used
<1> DEFINE r == [scenes[p] EXCEPT !.anchor = g]
<1>1. scenes[p] \in SceneRec /\ scenes \in [DOMAIN scenes -> SceneRec]
  BY DEF RecType
<1>2. r \in SceneRec /\ r.turnSeq = scenes[p].turnSeq /\ r.used = scenes[p].used
  BY <1>1 DEF SceneRec
<1>3. scenes' = [scenes EXCEPT ![p] = r]
  OBVIOUS
<1> HIDE DEF r
<1>4. QED  BY <1>1, <1>2, <1>3

\* The survivor takes the anchor over and the merge ends.
LEMMA MergeAnchorBase ==
    ASSUME Base, MergeAnchor
    PROVE  Base'
<1> USE DEF Base, history, uses
<1>0. /\ At("mergeAnchor") /\ scenes' = [scenes EXCEPT ![op.primary].anchor = op.anchor]
      /\ MergeMirrors
      /\ UNCHANGED <<topics, archives, planned, nodes, l4, plans, stamp, clock, history, trouble>>
  BY DEF MergeAnchor
<1>1. op.primary \in DOMAIN scenes /\ op.anchor \in Graphs \cup {Nil}
  BY <1>0, MergeOpFacts DEF At, MergeSteps
<1>2. /\ DOMAIN scenes' = DOMAIN scenes /\ scenes' \in [DOMAIN scenes -> SceneRec]
      /\ \A x \in DOMAIN scenes : scenes'[x].turnSeq = scenes[x].turnSeq
  BY <1>0, <1>1, AnchoredFacts
<1>3. scene' \in SceneIds \cup {Nil} /\ turn' \in {turn, Nil} /\ op' = Idle /\ op'.at = "idle"
  BY <1>0, MergeMirrorsType DEF At, MergeSteps
<1>4. (RecType /\ MemType /\ ContentInv)'
  BY <1>0, <1>2, <1>3 DEF RecType, MemType, ContentInv
<1>5. CountInv'
  BY <1>0, <1>2, <1>3 DEF CountInv, Counted
<1>6. (OpType /\ OpInv)'
  BY <1>3 DEF OpType, OpInv, Ready, At, MergeSteps
<1>7. QED  BY <1>4, <1>5, <1>6

\* A cascade begins: the content goes first, with the index.
LEMMA DeleteTopicArchivesBase ==
    ASSUME Base, NEW T \in SUBSET DOMAIN topics, NEW s \in SceneIds \cup {Nil},
           s # Nil => \A t \in T : topics[t].scene = s, DeleteTopicArchives(T, s)
    PROVE  Base'
<1> USE DEF Base, memory, history, uses
<1> DEFINE doomed == {k \in DOMAIN l4 : k[1] \in T}
<1>0. /\ Ready /\ archives' = Drop(archives, doomed) /\ l4' = Drop(l4, doomed)
      /\ op' = [at |-> "delPlans", topics |-> T, scene |-> s]
      /\ UNCHANGED <<scenes, topics, planned, nodes, meta, plans, memory, clock, history, trouble>>
  BY DEF DeleteTopicArchives
<1>1. ContentInv'
  BY <1>0 DEF ContentInv
<1>2. DOMAIN archives' = DOMAIN archives \ doomed /\ archives' \in [DOMAIN archives' -> Kinds]
  BY <1>0, DropFacts, DropType DEF RecType
<1>3. RecType'
  BY <1>0, <1>2 DEF RecType
<1>4. (MemType /\ CountInv)'
  BY <1>0 DEF MemType, CountInv, Counted
<1>5. T \in SUBSET Turns
  BY DEF RecType
<1>6. op'.at = "delPlans" /\ op'.topics = T /\ op'.scene = s /\ DeleteOp'
  BY <1>0, <1>5 DEF DeleteOp, DeleteSteps
<1>7. \A k \in DOMAIN archives' : k[1] \notin T
  BY <1>2 DEF ContentInv
<1>8. (OpType /\ OpInv)'
  BY <1>0, <1>6, <1>7 DEF OpType, OpInv, At, MergeSteps, DeleteSteps
<1>9. QED  BY <1>1, <1>3, <1>4, <1>8

\* The cascade of one topic begins.
LEMMA DeleteTopicBase ==
    ASSUME Base, NEW t \in Turns, DeleteTopic(t)
    PROVE  Base'
  BY DeleteTopicArchivesBase DEF DeleteTopic

\* The cascade of a scene begins with all its topics.
LEMMA DeleteSceneBase ==
    ASSUME Base, NEW s \in SceneIds, DeleteScene(s)
    PROVE  Base'
<1>1. TopicIDsByScene(s) \in SUBSET DOMAIN topics /\ \A t \in TopicIDsByScene(s) : topics[t].scene = s
  BY DEF TopicIDsByScene
<1>2. QED  BY <1>1, DeleteTopicArchivesBase DEF DeleteScene

\* What a cascade in flight carries.
LEMMA DeleteOpFacts ==
    ASSUME Base, op.at \in DeleteSteps
    PROVE  DeleteOp /\ op.topics \in SUBSET Turns /\ op.scene \in SceneIds \cup {Nil}
  BY DEF Base, OpType, DeleteOp, At, Ready, Idle, MergeSteps, DeleteSteps

\* The plan nodes of the cascade's topics go.
LEMMA DeletePlanNodesBase ==
    ASSUME Base, DeletePlanNodes
    PROVE  Base'
<1> USE DEF Base, DeletePlanNodes, mirrors, memory, history, uses
<1>1. (RecType /\ MemType /\ ContentInv /\ CountInv)'
  BY DEF RecType, MemType, ContentInv, CountInv, Counted
<1>2. op'.at = "delRecords" /\ op'.topics = op.topics /\ op'.scene = op.scene /\ DeleteOp'
  BY DeleteOpFacts DEF DeleteOp, DeleteSteps, At
<1>3. (OpType /\ OpInv)'
  BY <1>2 DEF OpType, OpInv, At, MergeSteps, DeleteSteps
<1>4. QED  BY <1>1, <1>3

\* The topic records go, with the scene's in a scene's cascade.
LEMMA DeleteL2RecordsBase ==
    ASSUME Base, DeleteL2Records
    PROVE  Base'
<1> USE DEF Base, uses
<1>0. /\ At("delRecords")
      /\ topics' = Drop(topics, op.topics) /\ scenes' = Drop(scenes, {op.scene})
      /\ gone' = gone \cup op.topics
      /\ turn' = IF op.scene = Nil /\ turn \in op.topics THEN Nil ELSE turn
      /\ op' = IF op.scene = Nil THEN Idle ELSE [op EXCEPT !.at = "delNode"]
      /\ UNCHANGED <<archives, planned, nodes, l4, scene, stamp, clock, uses, minted, trouble>>
  BY DEF DeleteL2Records
<1>a. DeleteOp /\ op.topics \in SUBSET Turns /\ op.scene \in SceneIds \cup {Nil}
  BY <1>0, DeleteOpFacts DEF At, DeleteSteps
<1>1. /\ DOMAIN topics' = DOMAIN topics \ op.topics /\ topics' \in [DOMAIN topics' -> TopicSlot]
  BY <1>0, DropFacts, DropType DEF RecType
<1>2. /\ DOMAIN scenes' = DOMAIN scenes \ {op.scene} /\ scenes' \in [DOMAIN scenes' -> SceneRec]
      /\ \A x \in DOMAIN scenes' : scenes'[x] = scenes[x]
  BY <1>0 DEF RecType, Drop
<1>3. (RecType /\ ContentInv)'
  BY <1>0, <1>1, <1>2 DEF RecType, ContentInv
<1>4. MemType'
  BY <1>0, <1>a DEF MemType
<1>5. \A t : Counted(t) => Counted(t)'
  BY <1>0, <1>2 DEF Counted
<1>6. CountInv'
  <2>1. op.topics \subseteq DOMAIN topics
    BY <1>0 DEF OpInv, At
  <2>2. turn' # Nil => Counted(turn)'
    BY <1>0, <1>2 DEF CountInv, Counted
  <2>3. QED  BY <1>0, <1>1, <1>2, <1>5, <2>1, <2>2 DEF CountInv
<1>7. (OpType /\ OpInv)'
  <2>1. CASE op.scene = Nil
    BY <1>0, <2>1 DEF OpType, OpInv, Ready, At, MergeSteps, Idle
  <2>2. CASE op.scene # Nil
    <3>1. op'.at = "delNode" /\ op'.scene = op.scene /\ DeleteOp'
      BY <1>0, <1>a, <2>2 DEF DeleteOp, DeleteSteps
    <3>2. QED  BY <2>2, <3>1 DEF OpType, OpInv, At, MergeSteps, DeleteSteps
  <2>3. QED  BY <2>1, <2>2
<1>8. QED  BY <1>3, <1>4, <1>6, <1>7

\* The L1 node of a deleted scene goes and the context forgets the scene.
LEMMA DeleteSceneNodeBase ==
    ASSUME Base, DeleteSceneNode
    PROVE  Base'
<1> USE DEF Base, DeleteSceneNode, mirrors, history, uses
<1>1. (RecType /\ MemType /\ ContentInv /\ CountInv)'
  BY DEF RecType, MemType, ContentInv, CountInv, Counted
<1>2. (OpType /\ OpInv)'
  BY DEF OpType, OpInv, Ready, At, MergeSteps, Idle
<1>3. QED  BY <1>1, <1>2

\* A Dream gives the scenes their L1 nodes.
LEMMA SyncL1NodesBase ==
    ASSUME Base, SyncL1Nodes
    PROVE  Base'
<1> USE DEF Base, SyncL1Nodes, mirrors, memory, history, uses
<1>0. \A t \in DOMAIN topics : topics[t].scene \in SceneIds
  BY DEF RecType, TopicSlot
<1>1. (RecType /\ MemType /\ ContentInv /\ CountInv)'
  BY <1>0 DEF RecType, MemType, ContentInv, CountInv, Counted
<1>2. (OpType /\ OpInv)'
  BY DEF OpType, OpInv, Ready, At, MergeSteps, Idle
<1>3. QED  BY <1>1, <1>2

\* The clock a rebuilt context reads.
LEMMA NewClock ==
    ASSUME MemType, RebuildContext
    PROVE  clock' \in Nat /\ (~ClockStepsBack => clock' >= clock /\ clock' > stamp)
<1>1. clock \in Nat /\ stamp \in Nat /\ stamp + 1 \in Nat
  BY DEF MemType
<1>2. Max({clock, stamp + 1}) = IF clock >= stamp + 1 THEN clock ELSE stamp + 1
  BY <1>1, MaxOfTwo
<1>3. clock' \in IF ClockStepsBack THEN 1..MaxStamp ELSE {Max({clock, stamp + 1})}
  BY DEF RebuildContext
<1>4. QED  BY <1>1, <1>2, <1>3

\* A context is rebuilt from records of which some may be gone.
LEMMA RebuiltBase ==
    ASSUME Base, RebuildContext, RecType', DOMAIN topics' \subseteq DOMAIN topics,
           DOMAIN scenes' \subseteq DOMAIN scenes, \A x \in DOMAIN scenes' : scenes'[x] = scenes[x],
           gone' \subseteq gone \cup DOMAIN topics
    PROVE  Base'
<1> USE ConstantsOK DEF Base
<1>0. /\ trouble' = trouble + 1 /\ l4' = archives' /\ scene' = Nil /\ turn' = Nil /\ stamp' = 0
      /\ op' = Idle /\ UNCHANGED <<uses, minted>>
  BY DEF RebuildContext
<1>1. clock' \in Nat
  BY NewClock
<1>2. (MemType /\ ContentInv)'
  BY <1>0, <1>1 DEF MemType, ContentInv, RecType, uses
<1>3. \A t : Counted(t) => Counted(t)'
  BY <1>0 DEF Counted, uses
<1>4. CountInv'
  BY <1>0, <1>3 DEF CountInv, uses
<1>5. (OpType /\ OpInv)'
  BY <1>0 DEF OpType, OpInv, Ready, At, MergeSteps, Idle
<1>6. QED  BY <1>2, <1>4, <1>5

\* The process restarts or the idle sweep took the context.
LEMMA NewContextBase ==
    ASSUME Base, NewContext
    PROVE  Base'
<1>1. RebuildContext /\ UNCHANGED <<records, gone>>
  BY DEF NewContext
<1>2. RecType'
  BY <1>1 DEF Base, RecType, records
<1>3. QED  BY <1>1, <1>2, RebuiltBase DEF records

\* What is left of a batch that power failed in: records of the right shape,
\* no scene written, and nothing deleted that was not to be.
LEMMA TornRecords ==
    ASSUME Base, CrashInBatch
    PROVE  /\ RecType' /\ DOMAIN topics' \subseteq DOMAIN topics
           /\ DOMAIN scenes' \subseteq DOMAIN scenes /\ \A x \in DOMAIN scenes' : scenes'[x] = scenes[x]
           /\ gone' \subseteq gone \cup DOMAIN topics
<1> USE DEF Base
<1>0. nodes' = nodes
  BY DEF CrashInBatch
<1>1. CASE TornAppend
  <2>1. PICK K \in SUBSET DOMAIN op.cells : archives' = Overlay(archives, [k \in K |-> op.cells[k]])
    BY <1>1 DEF TornAppend
  <2>2. /\ turn \in Turns /\ DOMAIN op.cells \subseteq {turn} \X (1..MaxSeq)
        /\ op.cells \in [DOMAIN op.cells -> Kinds]
    BY <1>1 DEF TornAppend, OpType, AppendOp, At, Ready, Idle, MergeSteps, DeleteSteps, MemType
  <2>3. PICK part : part = [k \in K |-> op.cells[k]]
    OBVIOUS
  <2>4. DOMAIN part = K /\ part \in [DOMAIN part -> Kinds]
    BY <2>2, <2>3
  <2>5. DOMAIN archives' = DOMAIN archives \cup K /\ archives' \in [DOMAIN archives' -> Kinds]
    BY <2>1, <2>3, <2>4, OverlayFacts, OverlayType DEF RecType
  <2>6. QED  BY <1>0, <1>1, <2>2, <2>5 DEF TornAppend, RecType
<1>2. CASE TornMerge
  <2>1. CASE At("mergeWrite")
    <3>1. PICK T \in SUBSET DOMAIN topics : topics' = Moved(T)
      BY <1>2, <2>1 DEF TornMerge, At
    <3>2. op.primary \in SceneIds
      BY <2>1, MergeOpFacts DEF At, MergeSteps
    <3>3. DOMAIN topics' = DOMAIN topics /\ topics' \in [DOMAIN topics -> TopicSlot]
      BY <3>1, <3>2 DEF Moved, RecType, TopicSlot
    <3>4. UNCHANGED <<scenes, archives, planned, gone>>
      BY <1>2, <2>1 DEF TornMerge, At
    <3>5. QED  BY <1>0, <3>3, <3>4 DEF RecType
  <2>2. CASE At("mergeDelete")
    <3>1. PICK S \in SUBSET op.from : scenes' = Drop(scenes, S)
      BY <1>2, <2>2 DEF TornMerge, At
    <3>2. /\ DOMAIN scenes' = DOMAIN scenes \ S /\ scenes' \in [DOMAIN scenes' -> SceneRec]
          /\ \A x \in DOMAIN scenes' : scenes'[x] = scenes[x]
      BY <3>1 DEF RecType, Drop
    <3>3. UNCHANGED <<topics, archives, planned, gone>>
      BY <1>2, <2>2 DEF TornMerge, At
    <3>4. QED  BY <1>0, <3>2, <3>3 DEF RecType
  <2>3. QED  BY <1>2, <2>1, <2>2 DEF TornMerge
<1>3. CASE TornDelete
  <2>1. CASE Ready
    <3>1. PICK K : archives' = Drop(archives, K)
      BY <1>3, <2>1 DEF TornDelete, Ready, Idle, At
    <3>2. DOMAIN archives' = DOMAIN archives \ K /\ archives' \in [DOMAIN archives' -> Kinds]
      BY <3>1, DropFacts, DropType DEF RecType
    <3>3. UNCHANGED <<scenes, topics, planned, gone>>
      BY <1>3, <2>1 DEF TornDelete, Ready, Idle, At
    <3>4. QED  BY <1>0, <3>2, <3>3 DEF RecType
  <2>2. CASE At("delPlans")
    <3>1. planned' \subseteq planned /\ UNCHANGED <<scenes, topics, archives, gone>>
      BY <1>3, <2>2 DEF TornDelete, Ready, Idle, At
    <3>2. QED  BY <1>0, <3>1 DEF RecType
  <2>3. CASE At("delRecords")
    <3>1. PICK T \in SUBSET op.topics, S \in SUBSET {op.scene} :
            topics' = Drop(topics, T) /\ scenes' = Drop(scenes, S) /\ gone' = gone \cup T
      BY <1>3, <2>3 DEF TornDelete, Ready, Idle, At
    <3>2. op.topics \subseteq DOMAIN topics
      BY <2>3 DEF OpInv, At
    <3>3. DOMAIN topics' = DOMAIN topics \ T /\ topics' \in [DOMAIN topics' -> TopicSlot]
      BY <3>1, DropFacts, DropType DEF RecType
    <3>4. /\ DOMAIN scenes' = DOMAIN scenes \ S /\ scenes' \in [DOMAIN scenes' -> SceneRec]
          /\ \A x \in DOMAIN scenes' : scenes'[x] = scenes[x]
      BY <3>1 DEF RecType, Drop
    <3>5. UNCHANGED <<archives, planned>>
      BY <1>3, <2>3 DEF TornDelete, Ready, Idle, At
    <3>6. QED  BY <1>0, <3>1, <3>2, <3>3, <3>4, <3>5 DEF RecType
  <2>4. QED  BY <1>3, <2>1, <2>2, <2>3 DEF TornDelete
<1>4. QED  BY <1>1, <1>2, <1>3 DEF CrashInBatch

\* The process dies inside a batch.
LEMMA CrashInBatchBase ==
    ASSUME Base, CrashInBatch
    PROVE  Base'
  BY TornRecords, RebuiltBase DEF CrashInBatch

\* Every step keeps the part of the invariant that does not depend on what
\* fails.
LEMMA BaseStep == Base /\ [Next]_vars => Base'
<1> SUFFICES ASSUME Base, [Next]_vars PROVE Base'
  OBVIOUS
<1>1. ASSUME NEW q \in Queries, NEW tick \in 0..MaxTick, Search(q, clock + tick) PROVE Base'
  <2>1. clock + tick \in Nat
    BY ConstantsOK DEF Base, MemType
  <2>2. QED  BY <1>1, <2>1, SearchBase
<1>2. CASE UNCHANGED vars
  <2> USE <1>2 DEF Base, vars, records, mirrors, memory, history, uses
  <2>1. (RecType /\ MemType /\ ContentInv /\ CountInv)'
    BY DEF RecType, MemType, ContentInv, CountInv, Counted
  <2>2. (OpType /\ OpInv)'
    BY DEF OpType, OpInv, Ready, At, OpenOp, AppendOp, MergeOp, DeleteOp
  <2>3. QED  BY <2>1, <2>2
<1>3. QED
  BY <1>1, <1>2, OpenSceneTurnBase, ReadProfileFailsBase, EndingsBase, SceneContextBase,
     AppendArchiveBase, UpdateBase, AppendArchiveBatchBase, CreateTurnTopicBase, PlanNodeAddBase,
     RenameTopicBase, MergeScenesBase, MergeTopicsBase, MergeDeleteScenesBase, MergeAnchorBase,
     DeleteTopicBase, DeleteSceneBase, DeletePlanNodesBase, DeleteL2RecordsBase,
     DeleteSceneNodeBase, SyncL1NodesBase, NewContextBase, CrashInBatchBase DEF Next

\* An empty domain satisfies it.
LEMMA InitBase == Init => Base
<1> SUFFICES ASSUME Init PROVE Base
  OBVIOUS
<1> USE ConstantsOK DEF Init
<1>1. DOMAIN NoRows = {} /\ \A V : NoRows \in [{} -> V]
  BY DEF NoRows
<1>2. RecType /\ MemType /\ ContentInv
  BY <1>1 DEF RecType, MemType, ContentInv
<1>3. OpType /\ OpInv
  BY DEF OpType, OpInv, Ready, At, MergeSteps, Idle
<1>4. CountInv
  BY <1>1 DEF CountInv
<1>5. QED  BY <1>2, <1>3, <1>4 DEF Base

\* The records, the counters and the call in flight are consistent in every
\* state, whatever batch fails and whenever the process dies.
THEOREM BaseInvariance == Spec => []Base
  BY InitBase, BaseStep, PTL DEF Spec
\* The records, the mirrors' content index and the context's memory keep their
\* shapes through every call, failure and restart.
THEOREM TypeCorrectness == Spec => []TypeOK
<1>1. Base => TypeOK
  <2> SUFFICES ASSUME Base PROVE TypeOK
    OBVIOUS
  <2> USE ConstantsOK DEF Base
  <2>1. \A s \in DOMAIN scenes : scenes[s] \in SceneSlot
    BY DEF RecType, SceneRec, SceneSlot
  <2>2. QED  BY <2>1 DEF TypeOK, RecType, MemType
<1>2. QED  BY <1>1, BaseInvariance, PTL

\* Search never hands out a turn id twice: the scene's counter is durable
\* before the id leaves (OpenSceneTurn), a failed read skips the turn it
\* counted, and a deleted scene's id is not drawn again.
THEOREM FreshTurnIds == Spec => []TurnIdsNeverReused
<1>1. Base => TurnIdsNeverReused
  BY DEF Base, CountInv, TurnIdsNeverReused
<1>2. QED  BY <1>1, BaseInvariance, PTL
-----------------------------------------------------------------------------
(* The scene a domain resumes. *)

\* A step that marks no scene as used keeps the order of the stamps.
LEMMA StampKept ==
    ASSUME Base, StampInv, DOMAIN scenes' \subseteq DOMAIN scenes,
           \A x \in DOMAIN scenes' : scenes'[x].used = scenes[x].used,
           after' = after, op'.at # "open",
           \/ stamp' = stamp /\ clock' = clock
           \/ clock' \in Nat /\ clock' >= clock /\ clock' > stamp
    PROVE  StampInv'
<1> USE ConstantsOK
<1>1. \A x \in DOMAIN scenes : scenes[x].used \in Nat
  BY DEF Base, RecType, SceneRec
<1>2. stamp \in Nat /\ clock \in Nat
  BY DEF Base, MemType
<1>3. \A s \in DOMAIN scenes' : scenes'[s].used <= stamp' \/ scenes'[s].used < clock'
  BY <1>1, <1>2 DEF StampInv
<1>4. QED  BY <1>3 DEF StampInv, At

\* A scene that is marked as used with a stamp above all others comes last.
LEMMA StampTouched ==
    ASSUME Base, StampInv, NEW s \in SceneIds, Touch(s),
           DOMAIN scenes' = DOMAIN scenes \cup {s}, scenes'[s].used = stamp', stamp' \in Nat,
           \A x \in DOMAIN scenes \ {s} :
              scenes'[x].used = scenes[x].used /\ scenes[x].used < stamp',
           At("open")' => op'.scene = s
    PROVE  StampInv'
<1> USE ConstantsOK
<1>1. \A x \in DOMAIN scenes : scenes[x].used \in Nat /\ x \in issued
  BY DEF Base, RecType, SceneRec, CountInv
<1>2. \A a, b \in SceneIds : <<a, b>> \in after' <=>
         (<<a, b>> \in after /\ b # s) \/ (a = s /\ b \in issued /\ b # s)
  BY DEF Touch
<1>3. DOMAIN scenes \subseteq SceneIds
  BY DEF Base, RecType
<1>4. ASSUME NEW a \in DOMAIN scenes', NEW b \in DOMAIN scenes', a # b
      PROVE  /\ scenes'[a].used # scenes'[b].used
             /\ <<a, b>> \in after' <=> scenes'[a].used > scenes'[b].used
  <2>1. a \in SceneIds /\ b \in SceneIds
    BY <1>3
  <2>2. CASE a = s
    BY <1>1, <1>2, <1>4, <2>1, <2>2
  <2>3. CASE b = s
    <3>1. scenes'[a].used \in Nat /\ scenes'[a].used < scenes'[b].used
      BY <1>1, <1>4, <2>3
    <3>2. <<a, b>> \notin after'
      BY <1>2, <1>4, <2>1, <2>3
    <3>3. QED  BY <3>1, <3>2, <2>3
  <2>4. CASE a # s /\ b # s
    BY <1>1, <1>2, <1>4, <2>1, <2>4 DEF StampInv
  <2>5. QED  BY <2>2, <2>3, <2>4
<1>5. \A x \in DOMAIN scenes' : scenes'[x].used <= stamp' \/ scenes'[x].used < clock'
  BY <1>1
<1>6. At("open")' => \A x \in DOMAIN scenes' \ {op'.scene} : scenes'[x].used < stamp'
  OBVIOUS
<1>7. QED  BY <1>4, <1>5, <1>6 DEF StampInv

\* The stamp of a Search lies above every stamp on record.
LEMMA StampSearch ==
    ASSUME Base, StampInv, NEW q \in Queries, NEW now \in Nat, now >= clock, Search(q, now)
    PROVE  StampInv'
<1> USE ConstantsOK
<1> DEFINE s == NextUsedStamp(now)
<1>0. stamp \in Nat /\ clock \in Nat /\ clock' = now /\ stamp' = s /\ Ready
  BY DEF Base, MemType, Search
<1>1. s \in Nat /\ s > stamp /\ s >= clock
  BY <1>0 DEF NextUsedStamp
<1>2. \A x \in DOMAIN scenes : scenes[x].used \in Nat /\ scenes[x].used < s
  <2>1. \A x \in DOMAIN scenes : scenes[x].used \in Nat
    BY DEF Base, RecType, SceneRec
  <2> HIDE DEF s
  <2>2. QED  BY <1>0, <1>1, <2>1 DEF StampInv
<1>3. CASE UNCHANGED <<scenes, uses>>
  <2> HIDE DEF s
  <2>1. \A x \in DOMAIN scenes' : scenes'[x].used < stamp' /\ scenes'[x].used <= stamp'
    BY <1>0, <1>1, <1>2, <1>3
  <2>2. QED  BY <1>3, <2>1 DEF StampInv, uses
<1>4. CASE CreateScene(q.anchor, s)
  <2>1. PICK id \in SceneIds \ (issued \cup DOMAIN scenes) :
           /\ scenes' = Put(scenes, id, [anchor |-> q.anchor, turnSeq |-> 0, used |-> s])
           /\ Touch(id)
           /\ op' = [at |-> "open", scene |-> id, stamp |-> s]
    BY <1>4 DEF CreateScene
  <2> DEFINE r == [anchor |-> q.anchor, turnSeq |-> 0, used |-> s]
  <2>2. r.used = s /\ op'.scene = id
    BY <2>1
  <2>3. scenes' = Put(scenes, id, r)
    BY <2>1
  <2> HIDE DEF r, s
  <2>4. /\ DOMAIN scenes' = DOMAIN scenes \cup {id} /\ scenes'[id].used = s
        /\ \A x \in DOMAIN scenes \ {id} : scenes'[x] = scenes[x]
    BY <2>1, <2>2, <2>3 DEF Put
  <2>5. QED  BY <1>0, <1>1, <1>2, <2>1, <2>2, <2>4, StampTouched
<1>5. QED  BY <1>3, <1>4 DEF Search

\* The turn that is opened marks its scene with the stamp of its Search.
LEMMA StampOpen ==
    ASSUME Base, StampInv, OpenSceneTurn \/ ReadProfileFails
    PROVE  StampInv'
<1>0. /\ At("open") /\ op.scene \in DOMAIN scenes /\ scenes' = BumpTurn(op.scene, op.stamp)
      /\ Touch(op.scene) /\ op' = Idle /\ stamp' = stamp
  BY DEF OpenSceneTurn, ReadProfileFails, Fails, memory
<1>1. /\ DOMAIN scenes' = DOMAIN scenes /\ scenes'[op.scene].used = stamp
      /\ \A x \in DOMAIN scenes : x # op.scene => scenes'[x] = scenes[x]
  BY <1>0, BumpCounts
<1>2. stamp \in Nat /\ op.scene \in SceneIds
  BY <1>0, ConstantsOK DEF Base, MemType, RecType
<1>3. \A x \in DOMAIN scenes \ {op.scene} : scenes[x].used < stamp
  BY <1>0 DEF StampInv
<1>4. PICK s \in SceneIds : s = op.scene
  BY <1>2
<1>5. ~At("open")'
  BY <1>0 DEF Idle, At
<1>6. QED  BY <1>0, <1>1, <1>2, <1>3, <1>4, <1>5, StampTouched

\* A clock that does not step back at a restart keeps the stamps ordered as the
\* scenes were used.
LEMMA StampStep == ~ClockStepsBack /\ Base /\ StampInv /\ [Next]_vars => StampInv'
<1> SUFFICES ASSUME ~ClockStepsBack, Base, StampInv, [Next]_vars PROVE StampInv'
  OBVIOUS
<1> USE DEF records, memory, history, uses, mirrors
<1>1. ASSUME NEW q \in Queries, NEW tick \in 0..MaxTick, Search(q, clock + tick) PROVE StampInv'
  <2>1. clock + tick \in Nat /\ clock + tick >= clock
    BY ConstantsOK DEF Base, MemType
  <2>2. QED  BY <1>1, <2>1, StampSearch
<1>2. CASE OpenSceneTurnFails \/ AppendArchiveBatchFails \/ SettleRefused \/ CreateTurnTopicFails
           \/ MergeBatchFails \/ CascadeFails
  <2>1. op' = Idle /\ UNCHANGED <<records, mirrors, memory, clock, uses, minted, gone>>
    BY <1>2 DEF OpenSceneTurnFails, AppendArchiveBatchFails, SettleRefused, CreateTurnTopicFails,
                MergeBatchFails, CascadeFails, Fails
  <2>2. QED  BY <2>1, StampKept DEF Idle
<1>3. CASE SceneContext \/ PlanNodeAdd \/ SyncL1Nodes
  BY <1>3, StampKept DEF SceneContext, PlanNodeAdd, SyncL1Nodes, Ready, Idle
<1>4. ASSUME NEW a \in Appends, AppendArchive(a[1], a[2]) PROVE StampInv'
  BY <1>4, StampKept DEF AppendArchive
<1>5. ASSUME NEW ends \in Ends, Update(ends) PROVE StampInv'
  BY <1>5, StampKept DEF Update
<1>6. CASE AppendArchiveBatch
  BY <1>6, StampKept DEF AppendArchiveBatch, Idle
<1>7. CASE CreateTurnTopic
  BY <1>7, StampKept DEF CreateTurnTopic, Idle
<1>8. ASSUME NEW t \in Turns, NEW name \in Names, RenameTopic(t, name) PROVE StampInv'
  BY <1>8, StampKept DEF RenameTopic, Ready, Idle
<1>9. ASSUME NEW p \in SceneIds, NEW S \in SUBSET SceneIds, MergeScenes(p, S) PROVE StampInv'
  BY <1>9, StampKept DEF MergeScenes, Fails, Idle
<1>10. CASE MergeTopics
  <2>1. op'.at = "mergeDelete"
    BY <1>10, MergeOpFacts DEF MergeTopics, At, MergeSteps, MergeOp
  <2>2. QED  BY <1>10, <2>1, StampKept DEF MergeTopics
<1>11. CASE MergeDeleteScenes
  <2>1. op'.at # "open"
    BY <1>11, MergeOpFacts DEF MergeDeleteScenes, MergeMirrors, At, MergeSteps, MergeOp, Idle
  <2>2. scenes' = Drop(scenes, op.from) /\ UNCHANGED <<stamp, clock, after>>
    BY <1>11 DEF MergeDeleteScenes
  <2>3. DOMAIN scenes' \subseteq DOMAIN scenes /\ \A x \in DOMAIN scenes' : scenes'[x] = scenes[x]
    BY <2>2 DEF Drop
  <2>4. QED  BY <2>1, <2>2, <2>3, StampKept
<1>12. CASE MergeAnchor
  <2>1. /\ op' = Idle /\ op.primary \in DOMAIN scenes /\ op.anchor \in Graphs \cup {Nil}
        /\ scenes' = [scenes EXCEPT ![op.primary].anchor = op.anchor]
        /\ UNCHANGED <<stamp, clock, after>>
    BY <1>12, MergeOpFacts DEF MergeAnchor, MergeMirrors, At, MergeSteps
  <2>2. DOMAIN scenes' = DOMAIN scenes /\ \A x \in DOMAIN scenes : scenes'[x].used = scenes[x].used
    BY <2>1, AnchoredFacts DEF Base
  <2>3. QED  BY <2>1, <2>2, StampKept DEF Idle
<1>13. ASSUME NEW t \in Turns, DeleteTopic(t) PROVE StampInv'
  BY <1>13, StampKept DEF DeleteTopic, DeleteTopicArchives
<1>14. ASSUME NEW s \in SceneIds, DeleteScene(s) PROVE StampInv'
  BY <1>14, StampKept DEF DeleteScene, DeleteTopicArchives
<1>15. CASE DeletePlanNodes
  <2>1. op'.at = "delRecords"
    BY <1>15, DeleteOpFacts DEF DeletePlanNodes, At, DeleteSteps, DeleteOp
  <2>2. QED  BY <1>15, <2>1, StampKept DEF DeletePlanNodes
<1>16. CASE DeleteL2Records
  <2>1. op'.at # "open"
    BY <1>16, DeleteOpFacts DEF DeleteL2Records, At, DeleteSteps, DeleteOp, Idle
  <2>2. scenes' = Drop(scenes, {op.scene}) /\ UNCHANGED <<stamp, clock, after>>
    BY <1>16 DEF DeleteL2Records
  <2>3. DOMAIN scenes' \subseteq DOMAIN scenes /\ \A x \in DOMAIN scenes' : scenes'[x] = scenes[x]
    BY <2>2 DEF Drop
  <2>4. QED  BY <2>1, <2>2, <2>3, StampKept
<1>17. CASE DeleteSceneNode
  BY <1>17, StampKept DEF DeleteSceneNode, Idle
<1>18. CASE NewContext
  <2>1. op' = Idle /\ UNCHANGED <<records, uses>>
    BY <1>18 DEF NewContext, RebuildContext
  <2>2. clock' \in Nat /\ clock' >= clock /\ clock' > stamp
    BY <1>18, NewClock DEF Base, NewContext
  <2>3. QED  BY <2>1, <2>2, StampKept DEF Idle
<1>21. CASE CrashInBatch
  <2>1. op' = Idle /\ after' = after
    BY <1>21 DEF CrashInBatch, RebuildContext
  <2>2. clock' \in Nat /\ clock' >= clock /\ clock' > stamp
    BY <1>21, NewClock DEF Base, CrashInBatch
  <2>3. QED  BY <1>21, <2>1, <2>2, TornRecords, StampKept DEF Idle
<1>19. CASE UNCHANGED vars
  BY <1>19 DEF StampInv, At, vars
<1>20. QED
  BY <1>1, <1>2, <1>3, <1>4, <1>5, <1>6, <1>7, <1>8, <1>9, <1>10, <1>11, <1>12, <1>13, <1>14,
     <1>15, <1>16, <1>17, <1>18, <1>19, <1>21, StampOpen DEF Next

\* A domain resumes the existing scene that was used last, whatever failed and
\* whenever its context was rebuilt, if no clock read at a restart lies before
\* an earlier stamp (CurrentScene, NextUsedStamp).  With a clock that steps
\* back the property is false, which TLC shows.
THEOREM LastUsedIsResumed == ~ClockStepsBack => (Spec => []ResumesLastUsed)
<1> SUFFICES ASSUME ~ClockStepsBack PROVE Spec => []ResumesLastUsed
  OBVIOUS
<1>1. Init => StampInv
  BY DEF Init, NoRows, StampInv, Idle, At
<1>2. Base /\ StampInv => ResumesLastUsed
  <2> SUFFICES ASSUME Base, StampInv, DOMAIN scenes # {}
               PROVE  /\ CurrentScene \in DOMAIN scenes
                      /\ \A s \in DOMAIN scenes \ {CurrentScene} : <<CurrentScene, s>> \in after
    BY DEF ResumesLastUsed
  <2>1. PICK c : c = CurrentScene
    OBVIOUS
  <2>2. c \in DOMAIN scenes /\ \A b \in DOMAIN scenes \ {c} : Later(c, b)
    BY <2>1, CurrentSceneIsLatest DEF Base
  <2>3. QED  BY <2>1, <2>2 DEF StampInv, Later
<1>3. QED  BY <1>1, <1>2, StampStep, BaseInvariance, PTL DEF Spec

-----------------------------------------------------------------------------
(* Mirrors. *)

\* The rows of the mirror that is built from rows.
LEMMA RowsOfBuilt ==
    ASSUME NEW recs
    PROVE  BuildL2Meta(recs).rows = recs
  BY DEF BuildL2Meta

\* A step that leaves the topics, the plans and their mirrors alone, and is not
\* the refusal of a batch they wait for, keeps them.
LEMMA MirrorKept ==
    ASSUME MirrorInv, ~Moving, ~Moving', ~At("delRecords"), ~At("delRecords")',
           UNCHANGED <<topics, planned, plans, meta, lags>>
    PROVE  MirrorInv'
  BY DEF MirrorInv, lags

\* One topic is written to its record and to its row.
LEMMA MirrorOfPut ==
    ASSUME Base, MirrorInv, ~Moving, ~Moving', ~At("delRecords"), ~At("delRecords")',
           NEW t \in Turns, NEW row \in TopicSlot,
           topics' = Put(topics, t, row), meta' = L2MetaUpdate(meta, t, row),
           behind' = behind \ {t}, UNCHANGED <<planned, plans, cut>>
    PROVE  MirrorInv'
<1> DEFINE old == meta.rows
<1>1. /\ meta = BuildL2Meta(old) /\ old \in [DOMAIN topics -> TopicSlot]
      /\ \A x \in DOMAIN topics \ behind : topics[x] = old[x]
  BY DEF MirrorInv
<1> HIDE DEF old
<1>2. DOMAIN old = DOMAIN topics /\ old \in [DOMAIN old -> TopicSlot]
  BY <1>1
<1>3. PICK new : new = Put(old, t, row)
  OBVIOUS
<1>4. /\ DOMAIN new = DOMAIN old \cup {t} /\ new[t] = row /\ new \in [DOMAIN new -> TopicSlot]
      /\ \A x \in DOMAIN old : x # t => new[x] = old[x]
  BY <1>2, <1>3 DEF Put
<1>5. meta' = BuildL2Meta(new) /\ meta'.rows = new
  BY <1>1, <1>2, <1>3, MetaOfPut, RowsOfBuilt
<1>6. /\ DOMAIN topics' = DOMAIN topics \cup {t} /\ topics'[t] = row
      /\ \A x \in DOMAIN topics : x # t => topics'[x] = topics[x]
  BY DEF Put
<1>7. \A x \in DOMAIN topics' \ behind' : topics'[x] = meta'.rows[x]
  BY <1>1, <1>2, <1>4, <1>5, <1>6
<1>8. meta'.rows \in [DOMAIN topics' -> TopicSlot]
  BY <1>2, <1>4, <1>5, <1>6
<1>9. planned' \subseteq plans' /\ plans' \ planned' \subseteq cut'
  BY DEF MirrorInv
<1>10. QED  BY <1>5, <1>7, <1>8, <1>9 DEF MirrorInv

\* The retarget that ends a merge makes the rows follow their records.
LEMMA MirrorRetargeted ==
    ASSUME Base, MirrorInv, Moving, meta' = RetargetL2Meta(meta, op.from, op.primary), op' = Idle,
           UNCHANGED <<topics, planned, plans, lags>>
    PROVE  MirrorInv'
<1>1. PICK S \in SUBSET SceneIds, p \in SceneIds : S = op.from /\ p = op.primary
  BY MergeOpFacts DEF Moving, MergeSteps
<1>2. PICK rows : rows = meta.rows
  OBVIOUS
<1>3. /\ meta = BuildL2Meta(rows) /\ rows \in [DOMAIN topics -> TopicSlot]
      /\ \A t \in DOMAIN topics \ behind : topics[t] = Retargeted(rows, S, p)[t]
      /\ DOMAIN rows = DOMAIN topics
  BY <1>1, <1>2 DEF MirrorInv
<1>4. PICK new : new = Retargeted(rows, S, p)
  OBVIOUS
<1>5. meta' = BuildL2Meta(new) /\ meta'.rows = new
  BY <1>1, <1>3, <1>4, MetaOfRetarget, RowsOfBuilt
<1>6. new \in [DOMAIN topics -> TopicSlot]
  BY <1>3, <1>4, RetargetedFacts
<1>7. ~Moving' /\ ~At("delRecords")' /\ ~At("delRecords")
  BY DEF Moving, Idle, At
<1>8. QED  BY <1>3, <1>4, <1>5, <1>6, <1>7 DEF MirrorInv, lags

\* A context built from the records mirrors them.
LEMMA MirrorRebuilt ==
    ASSUME RebuildContext, RecType'
    PROVE  MirrorInv'
<1>1. /\ meta' = BuildL2Meta(topics') /\ plans' = planned' /\ op' = Idle
  BY DEF RebuildContext
<1>2. meta'.rows = topics' /\ ~Moving' /\ ~At("delRecords")'
  BY <1>1, RowsOfBuilt DEF Moving, At, Idle
<1>3. topics' \in [DOMAIN topics' -> TopicSlot]
  BY DEF RecType
<1>4. QED  BY <1>1, <1>2, <1>3 DEF MirrorInv

\* The mirrors follow the records through every batch, up to what the refused
\* ones left behind.
LEMMA MirrorStep ==
    ASSUME Base, MirrorInv, [Next]_vars
    PROVE  MirrorInv'
<1> USE DEF records, memory, history, uses, mirrors
<1>1. ASSUME NEW q \in Queries, NEW now, Search(q, now) PROVE MirrorInv'
  <2>1. Ready /\ UNCHANGED <<topics, planned, mirrors, lags>>
    BY <1>1 DEF Search
  <2>2. ~Moving' /\ ~At("delRecords")'
    BY <1>1 DEF Search, CreateScene, Fails, Ready, Idle, Moving, At
  <2>3. QED  BY <2>1, <2>2, MirrorKept DEF Ready, Idle, Moving, At
<1>2. CASE OpenSceneTurnFails \/ AppendArchiveBatchFails \/ SettleRefused \/ CreateTurnTopicFails
  <2>1. op' = Idle /\ UNCHANGED <<records, mirrors, lags>>
    BY <1>2 DEF OpenSceneTurnFails, AppendArchiveBatchFails, SettleRefused, CreateTurnTopicFails, Fails
  <2>2. op.at \in {"open", "append", "settle"}
    BY <1>2 DEF OpenSceneTurnFails, AppendArchiveBatchFails, SettleRefused, CreateTurnTopicFails, At
  <2>3. QED  BY <2>1, <2>2, MirrorKept DEF Idle, Moving, At
<1>3. CASE SceneContext \/ SyncL1Nodes \/ OpenSceneTurn \/ ReadProfileFails
  BY <1>3, MirrorKept DEF SceneContext, SyncL1Nodes, OpenSceneTurn, ReadProfileFails, Fails, Ready,
                          Idle, At, Moving
<1>4. ASSUME NEW a \in Appends, AppendArchive(a[1], a[2]) PROVE MirrorInv'
  BY <1>4, MirrorKept DEF AppendArchive, Ready, Idle, Moving, At
<1>5. ASSUME NEW ends \in Ends, Update(ends) PROVE MirrorInv'
  BY <1>5, MirrorKept DEF Update, Ready, Idle, Moving, At
<1>6. CASE AppendArchiveBatch
  BY <1>6, MirrorKept DEF AppendArchiveBatch, At, Idle, Moving
<1>7. CASE CreateTurnTopic
  <2>1. PICK row : row = TurnTopic(scene, turn)
    OBVIOUS
  <2>2. row \in TopicSlot
    BY <1>7, <2>1 DEF CreateTurnTopic, Settles, TurnTopic, TopicSlot, Base, RecType
  <2>3. /\ topics' = Put(topics, turn, row) /\ meta' = L2MetaUpdate(meta, turn, row)
        /\ At("settle") /\ op' = Idle /\ UNCHANGED <<planned, plans, cut>> /\ behind' = behind \ {turn}
    BY <1>7, <2>1 DEF CreateTurnTopic
  <2>4. turn \in Turns
    <3>1. scene \in DOMAIN scenes /\ SettleTarget(scene, turn)
      BY <1>7 DEF CreateTurnTopic, Settles
    <3>2. PICK n \in 1..scenes[scene].turnSeq : turn = <<scene, n>>
      BY <3>1 DEF SettleTarget, ComputeTurnTopicID
    <3>3. scene \in SceneIds /\ scenes[scene].turnSeq \in 0..MaxTurnSeq
      BY <3>1 DEF Base, RecType, SceneRec
    <3>4. QED  BY <3>2, <3>3, TurnsArePairs, ConstantsOK
  <2>5. ~Moving /\ ~Moving' /\ ~At("delRecords") /\ ~At("delRecords")'
    BY <2>3 DEF Moving, At, Idle
  <2>6. QED  BY <2>2, <2>3, <2>4, <2>5, MirrorOfPut
<1>8. CASE PlanNodeAdd
  BY <1>8 DEF PlanNodeAdd, MirrorInv, Ready, Idle, Moving, At, lags
<1>9. ASSUME NEW t \in Turns, NEW name \in Names, RenameTopic(t, name) PROVE MirrorInv'
  <2>1. /\ t \in DOMAIN topics /\ topics' = [topics EXCEPT ![t].name = name] /\ Ready
        /\ meta' = L2MetaUpdate(meta, t, topics'[t]) /\ UNCHANGED <<planned, plans, op, cut>>
        /\ behind' = behind \ {t}
    BY <1>9 DEF RenameTopic
  <2>2. PICK row \in TopicSlot : row = topics'[t]
    BY <2>1, RenamedFacts DEF Base
  <2>3. topics' = Put(topics, t, row)
    BY <2>1, <2>2, RenamedFacts DEF Base
  <2>4. ~Moving /\ ~Moving' /\ ~At("delRecords") /\ ~At("delRecords")'
    BY <2>1 DEF Moving, At, Idle, Ready
  <2>5. QED  BY <2>1, <2>2, <2>3, <2>4, MirrorOfPut
<1>10. ASSUME NEW p \in SceneIds, NEW S \in SUBSET SceneIds, MergeScenes(p, S) PROVE MirrorInv'
  BY <1>10, MirrorKept DEF MergeScenes, Fails, Ready, Idle, Moving, At
<1>11. CASE MergeTopics
  <2>1. /\ op.primary \in SceneIds /\ At("mergeWrite")
        /\ op'.at = "mergeDelete" /\ op'.from = op.from /\ op'.primary = op.primary
    BY <1>11, MergeOpFacts DEF MergeTopics, At, MergeSteps, MergeOp
  <2>2. topics' = Retargeted(topics, op.from, op.primary) /\ UNCHANGED <<meta, planned, plans, lags>>
    BY <1>11 DEF MergeTopics, Retargeted, Moved
  <2>3. PICK rows : rows = meta.rows
    OBVIOUS
  <2>4. /\ rows \in [DOMAIN topics -> TopicSlot]
        /\ \A t \in DOMAIN topics \ behind : topics[t] = rows[t]
    BY <2>1, <2>3 DEF MirrorInv, Moving, At
  <2>5. PICK S, p : S = op.from /\ p = op.primary
    OBVIOUS
  <2>6. /\ DOMAIN topics' = DOMAIN topics
        /\ \A t \in DOMAIN topics \ behind : topics'[t] = Retargeted(rows, S, p)[t]
    BY <2>2, <2>4, <2>5 DEF Retargeted
  <2>7. Moving' /\ ~At("delRecords")' /\ ~At("delRecords")
    BY <2>1 DEF Moving, At
  <2>8. QED  BY <2>1, <2>2, <2>3, <2>4, <2>5, <2>6, <2>7 DEF MirrorInv, lags
<1>12. CASE MergeDeleteScenes
  <2>1. Moving /\ At("mergeDelete") /\ UNCHANGED <<topics, planned, plans, lags>>
    BY <1>12 DEF MergeDeleteScenes, Moving, At
  <2>2. CASE MergeMirrors
    BY <2>1, <2>2, MirrorRetargeted DEF MergeMirrors
  <2>3. CASE op' = [op EXCEPT !.at = "mergeAnchor"] /\ meta' = meta
    <3>1. op'.at = "mergeAnchor" /\ op'.from = op.from /\ op'.primary = op.primary
      BY <2>1, <2>3, MergeOpFacts DEF At, MergeSteps, MergeOp
    <3>2. Moving' /\ ~At("delRecords")' /\ ~At("delRecords")
      BY <2>1, <3>1 DEF Moving, At
    <3>3. QED  BY <2>1, <2>3, <3>1, <3>2 DEF MirrorInv, lags
  <2>4. QED  BY <1>12, <2>2, <2>3 DEF MergeDeleteScenes
<1>13. CASE MergeAnchor
  BY <1>13, MirrorRetargeted DEF MergeAnchor, MergeMirrors, Moving, At
<1>14. CASE MergeBatchFails
  <2>1. op' = Idle /\ UNCHANGED <<topics, planned, plans, meta, cut>>
    BY <1>14 DEF MergeBatchFails, Fails
  <2>2. ~Moving' /\ ~At("delRecords")'
    BY <2>1 DEF Moving, At, Idle
  <2>3. CASE At("mergeWrite")
    <3>1. UNCHANGED lags /\ ~Moving /\ ~At("delRecords")
      BY <1>14, <2>3 DEF MergeBatchFails, Moving, At, lags
    <3>2. QED  BY <2>1, <2>2, <3>1, MirrorKept DEF lags
  <2>4. CASE ~At("mergeWrite")
    <3>1. PICK rows : rows = meta.rows
      OBVIOUS
    <3>2. /\ behind' = behind \cup {t \in DOMAIN rows : rows[t].scene \in op.from}
          /\ Moving /\ ~At("delRecords")
      BY <1>14, <2>4, <3>1 DEF MergeBatchFails, Moving, At
    <3>3. /\ meta = BuildL2Meta(rows) /\ rows \in [DOMAIN topics -> TopicSlot]
          /\ \A t \in DOMAIN topics \ behind : topics[t] = Retargeted(rows, op.from, op.primary)[t]
      BY <3>1, <3>2 DEF MirrorInv
    <3>4. \A t \in DOMAIN topics \ behind' : topics[t] = rows[t]
      BY <3>2, <3>3 DEF Retargeted
    <3>5. QED  BY <2>1, <2>2, <3>1, <3>2, <3>3, <3>4 DEF MirrorInv
  <2>5. QED  BY <2>3, <2>4
<1>15. ASSUME NEW T, NEW s, DeleteTopicArchives(T, s) PROVE MirrorInv'
  BY <1>15, MirrorKept DEF DeleteTopicArchives, Ready, Idle, Moving, At
<1>16. CASE DeletePlanNodes
  <2>1. op'.at = "delRecords" /\ op'.topics = op.topics /\ At("delPlans")
    BY <1>16, DeleteOpFacts DEF DeletePlanNodes, At, DeleteSteps, DeleteOp
  <2>2. planned' = planned \ op.topics /\ UNCHANGED <<topics, plans, meta, lags>>
    BY <1>16 DEF DeletePlanNodes
  <2>3. ~Moving /\ ~Moving' /\ At("delRecords")' /\ ~At("delRecords")
    BY <2>1 DEF Moving, At
  <2>4. QED  BY <2>1, <2>2, <2>3 DEF MirrorInv, lags
<1>17. CASE DeleteL2Records
  <2>1. At("delRecords") /\ op'.at \in {"idle", "delNode"}
    BY <1>17, DeleteOpFacts DEF DeleteL2Records, At, DeleteSteps, DeleteOp, Idle
  <2>2. /\ topics' = Drop(topics, op.topics) /\ meta' = RemoveTopicsFromIndices(meta, op.topics)
        /\ plans' = plans \ op.topics /\ planned' = planned
        /\ behind' = behind \ op.topics /\ cut' = cut \ op.topics
    BY <1>17 DEF DeleteL2Records
  <2>3. planned \cap op.topics = {}
    BY <2>1 DEF Base, OpInv
  <2>4. ~Moving /\ ~Moving' /\ ~At("delRecords")'
    BY <2>1 DEF Moving, At
  <2>5. PICK rows, T : rows = meta.rows /\ T = op.topics
    OBVIOUS
  <2>6. /\ meta = BuildL2Meta(rows) /\ rows \in [DOMAIN topics -> TopicSlot]
        /\ \A t \in DOMAIN topics \ behind : topics[t] = rows[t]
        /\ planned \subseteq plans /\ plans \ planned \subseteq cut \cup T
    BY <2>1, <2>4, <2>5 DEF MirrorInv
  <2>7. PICK new : new = Drop(rows, T)
    OBVIOUS
  <2>8. meta' = BuildL2Meta(new) /\ meta'.rows = new
    BY <2>2, <2>5, <2>6, <2>7, MetaOfDrop, RowsOfBuilt
  <2>9. /\ DOMAIN topics' = DOMAIN topics \ T /\ \A t \in DOMAIN topics' : topics'[t] = topics[t]
        /\ new \in [DOMAIN topics' -> TopicSlot] /\ \A t \in DOMAIN topics' : new[t] = rows[t]
    BY <2>2, <2>5, <2>6, <2>7 DEF Drop
  <2>10. \A t \in DOMAIN topics' \ behind' : topics'[t] = new[t]
    BY <2>2, <2>5, <2>6, <2>9
  <2>11. planned' \subseteq plans' /\ plans' \ planned' \subseteq cut'
    BY <2>2, <2>3, <2>5, <2>6
  <2>12. QED  BY <2>4, <2>8, <2>9, <2>10, <2>11 DEF MirrorInv
<1>18. CASE DeleteSceneNode
  BY <1>18, MirrorKept DEF DeleteSceneNode, At, Idle, Moving
<1>19. CASE CascadeFails
  <2>1. op' = Idle /\ UNCHANGED <<topics, planned, plans, meta, behind>> /\ ~Moving
    BY <1>19 DEF CascadeFails, Fails, Moving
  <2>2. ~Moving' /\ ~At("delRecords")'
    BY <2>1 DEF Moving, At, Idle
  <2>3. cut' = IF At("delRecords") THEN cut \cup op.topics ELSE cut
    BY <1>19 DEF CascadeFails
  <2>4. QED  BY <2>1, <2>2, <2>3 DEF MirrorInv
<1>20. CASE NewContext
  <2>1. RecType'
    BY <1>20 DEF NewContext, Base, RecType
  <2>2. QED  BY <1>20, <2>1, MirrorRebuilt DEF NewContext
<1>21. CASE CrashInBatch
  BY <1>21, TornRecords, MirrorRebuilt DEF CrashInBatch
<1>22. CASE UNCHANGED vars
  BY <1>22 DEF MirrorInv, Moving, At, vars, lags
<1>23. QED
  BY <1>1, <1>2, <1>3, <1>4, <1>5, <1>6, <1>7, <1>8, <1>9, <1>10, <1>11, <1>12, <1>13, <1>14,
     <1>15, <1>16, <1>17, <1>18, <1>19, <1>20, <1>21, <1>22 DEF Next, DeleteTopic, DeleteScene

\* Between two calls a scene's topics, a topic's content and the plans are read
\* as they are stored, whichever batch was refused and wherever the process
\* died, a power failure inside a batch included (SurfaceTopics, L4Index,
\* PlanCache).  The exceptions are the ones the property names: topics that a
\* merge moved before a later batch of it was refused (MergeScenes), and the
\* cached tree of a turn whose deletion was refused at its last batch
\* (DeleteCascade).
THEOREM ReadsAreSound == Spec => []ReadsServeRecords
<1>1. Init => MirrorInv
  <2> SUFFICES ASSUME Init PROVE MirrorInv
    OBVIOUS
  <2>1. meta.rows = topics /\ topics = NoRows /\ DOMAIN topics = {} /\ ~Moving /\ ~At("delRecords")
    BY RowsOfBuilt DEF Init, NoRows, Idle, Moving, At
  <2>2. topics \in [DOMAIN topics -> TopicSlot]
    BY <2>1 DEF NoRows
  <2>3. QED  BY <2>1, <2>2 DEF Init, MirrorInv
<1>2. Base /\ MirrorInv => ReadsServeRecords
  <2> SUFFICES ASSUME Base, MirrorInv, Ready PROVE ReadsServeRecords
    BY DEF ReadsServeRecords
  <2>1. PICK rows : rows = meta.rows
    OBVIOUS
  <2>2. /\ meta = BuildL2Meta(rows) /\ rows \in [DOMAIN topics -> TopicSlot]
        /\ \A t \in DOMAIN topics \ behind : topics[t] = rows[t]
        /\ planned \subseteq plans /\ plans \ planned \subseteq cut
    BY <2>1 DEF MirrorInv, Ready, Idle, Moving, At
  <2>3. meta.byScene = {<<rows[t].scene, t>> : t \in DOMAIN rows} /\ DOMAIN rows = DOMAIN topics
    BY <2>2 DEF BuildL2Meta
  <2>4. \A s : TopicsByScene(s) = {t \in DOMAIN rows : rows[t].scene = s}
    BY <2>1, <2>3 DEF TopicsByScene
  <2>5. ASSUME NEW s \in SceneIds
        PROVE  Drop(SurfaceTopics(s), behind) = [t \in TopicIDsByScene(s) \ behind |-> topics[t]]
    <3>1. TopicsByScene(s) \ behind = TopicIDsByScene(s) \ behind
      BY <2>2, <2>3, <2>4 DEF TopicIDsByScene
    <3>2. \A t \in TopicIDsByScene(s) \ behind : topics[t] = rows[t]
      BY <2>2 DEF TopicIDsByScene
    <3>3. SurfaceTopics(s) = [t \in TopicsByScene(s) |-> rows[t]]
      BY <2>1 DEF SurfaceTopics
    <3> DEFINE A == TopicsByScene(s)
               B == TopicIDsByScene(s) \ behind
    <3>4. A \ behind = B /\ B \subseteq A
      BY <3>1
    <3> HIDE DEF A, B
    <3>5. SurfaceTopics(s) = [t \in A |-> rows[t]]
      BY <3>3 DEF A
    <3>6. Drop(SurfaceTopics(s), behind) = [t \in B |-> rows[t]]
      BY <3>4, <3>5 DEF Drop
    <3>7. QED  BY <3>2, <3>6 DEF B
  <2>6. \A t \in DOMAIN topics : rows[t].scene \in SceneIds
    BY <2>2 DEF TopicSlot
  <2>7. UNION {TopicsByScene(s) : s \in SceneIds} = DOMAIN topics
    BY <2>3, <2>4, <2>6
  <2>8. QED  BY <2>2, <2>5, <2>7 DEF ReadsServeRecords, Base, ContentInv
<1>3. QED  BY <1>1, <1>2, MirrorStep, BaseInvariance, PTL DEF Spec

-----------------------------------------------------------------------------
(* What the context remembers. *)

\* The batches between which a call has removed a scene, or moved its topics,
\* and has not told the context.
LaggingBatches == {"mergeDelete", "mergeAnchor", "delNode"}

\* What the refused calls left the context on stays what it is.
LEMMA LeftKept ==
    ASSUME stranded \subseteq stranded'
    PROVE  /\ LeftScenes \subseteq LeftScenes' /\ LeftTurns \subseteq LeftTurns'
           /\ stranded' = stranded => LeftScenes' = LeftScenes /\ LeftTurns' = LeftTurns
  BY DEF LeftScenes, LeftTurns

\* What a deleted turn owns, when nothing is written for one.
LEMMA DeletionsKept ==
    ASSUME DeletedTopicsOwnNothing, stranded \subseteq stranded', gone' = gone,
           DOMAIN topics \subseteq DOMAIN topics',
           planned' \subseteq planned, DOMAIN archives' \subseteq DOMAIN archives
    PROVE  DeletedTopicsOwnNothing'
  BY LeftKept DEF DeletedTopicsOwnNothing

\* A step that leaves the context's memory, the topics and the deletions alone
\* and removes no scene keeps what the memory names, away from the batches
\* that remove a scene.
LEMMA LiveKept ==
    ASSUME LiveInv, op.at \notin LaggingBatches, DOMAIN scenes \subseteq DOMAIN scenes',
           scene' = scene, turn' = turn, topics' = topics, gone' = gone, stranded' = stranded,
           planned' \subseteq planned, DOMAIN archives' \subseteq DOMAIN archives
    PROVE  LiveInv'
<1>1. DeletedTopicsOwnNothing'
  BY DeletionsKept DEF LiveInv
<1>2. /\ scene # Nil => scene \in DOMAIN scenes \cup LeftScenes
      /\ turn # Nil => scene # Nil /\ turn[1] = scene
      /\ turn # Nil /\ turn \in DOMAIN topics => topics[turn].scene = scene \/ turn \in LeftTurns
      /\ turn # Nil /\ turn \in gone \ DOMAIN topics => turn \in LeftTurns
  BY DEF LiveInv, At, LaggingBatches
<1>3. LeftScenes' = LeftScenes /\ LeftTurns' = LeftTurns
  BY LeftKept
<1>4. QED  BY <1>1, <1>2, <1>3 DEF LiveInv

\* A call that restores the current scene when the context remembers none.
LEMMA LiveRestored ==
    ASSUME Base, LiveInv, op.at \notin LaggingBatches, DOMAIN scenes \subseteq DOMAIN scenes',
           scene' \in {scene, EnsureScene}, stranded' = stranded,
           turn' = turn, topics' = topics, gone' = gone, planned' = planned, archives' = archives
    PROVE  LiveInv'
<1>1. CASE scene # Nil
  BY <1>1, EnsureSceneType, LiveKept DEF Base
<1>2. CASE scene = Nil
  <2>1. turn = Nil
    BY <1>2 DEF LiveInv
  <2>2. scene' = Nil \/ scene' \in DOMAIN scenes'
    BY <1>2, EnsureSceneType DEF Base
  <2>3. DeletedTopicsOwnNothing'
    BY DeletionsKept DEF LiveInv
  <2>4. QED  BY <2>1, <2>2, <2>3 DEF LiveInv
<1>3. QED  BY <1>1, <1>2

\* Power fails inside a batch: the deletions that came through are of topics
\* whose content and plan nodes went in earlier batches, and an append is for
\* the open turn, which is not deleted.
LEMMA TornDeletions ==
    ASSUME Base, LiveInv, CrashInBatch
    PROVE  DeletedTopicsOwnNothing'
<1>0. DeletedTopicsOwnNothing
  BY DEF LiveInv
<1>5. stranded' = stranded /\ LeftTurns' = LeftTurns
  BY LeftKept DEF CrashInBatch, RebuildContext
<1>1. CASE TornAppend
  <2>1. PICK K \in SUBSET DOMAIN op.cells : archives' = Overlay(archives, [k \in K |-> op.cells[k]])
    BY <1>1 DEF TornAppend
  <2>2. turn # Nil /\ DOMAIN op.cells \subseteq {turn} \X (1..MaxSeq)
    BY <1>1 DEF TornAppend, Base, OpType, AppendOp, At, Ready, Idle, MergeSteps, DeleteSteps
  <2>3. turn \in gone \ DOMAIN topics => turn \in LeftTurns
    BY <1>1, <2>2 DEF TornAppend, LiveInv, At
  <2>4. \A k \in DOMAIN archives' : k \in DOMAIN archives \/ k[1] = turn
    BY <2>1, <2>2 DEF Overlay
  <2>5. QED  BY <1>0, <1>1, <1>5, <2>3, <2>4 DEF TornAppend, DeletedTopicsOwnNothing
<1>2. CASE TornMerge
  <2>1. DOMAIN topics' = DOMAIN topics /\ UNCHANGED <<archives, planned, gone>>
    BY <1>2 DEF TornMerge, Moved
  <2>2. QED  BY <1>0, <1>5, <2>1, DeletionsKept
<1>3. CASE TornDelete
  <2>1. CASE Ready
    <3>1. DOMAIN archives' \subseteq DOMAIN archives /\ UNCHANGED <<topics, planned, gone>>
      BY <1>3, <2>1 DEF TornDelete, Ready, Idle, At, Drop
    <3>2. QED  BY <1>0, <1>5, <3>1, DeletionsKept
  <2>2. CASE At("delPlans")
    <3>1. planned' \subseteq planned /\ UNCHANGED <<topics, archives, gone>>
      BY <1>3, <2>2 DEF TornDelete, Ready, Idle, At
    <3>2. QED  BY <1>0, <1>5, <3>1, DeletionsKept
  <2>3. CASE At("delRecords")
    <3>1. PICK T \in SUBSET op.topics : topics' = Drop(topics, T) /\ gone' = gone \cup T
      BY <1>3, <2>3 DEF TornDelete, Ready, Idle, At
    <3>2. DOMAIN topics' = DOMAIN topics \ T /\ UNCHANGED <<archives, planned>>
      BY <1>3, <2>3, <3>1 DEF TornDelete, Ready, Idle, At, Drop
    <3>3. (\A k \in DOMAIN archives : k[1] \notin op.topics) /\ planned \cap op.topics = {}
      BY <2>3 DEF Base, OpInv, At
    <3>4. QED  BY <1>0, <1>5, <3>1, <3>2, <3>3 DEF DeletedTopicsOwnNothing
  <2>4. QED  BY <1>3, <2>1, <2>2, <2>3 DEF TornDelete
<1>4. QED  BY <1>1, <1>2, <1>3 DEF CrashInBatch

\* The scene and the turn the context remembers stay alive through every batch.
LEMMA LiveStep ==
    ASSUME Base, LiveInv, [Next]_vars
    PROVE  LiveInv'
<1> USE DEF records, memory, history, uses, mirrors, lags
<1>0. stranded' = stranded => LeftScenes' = LeftScenes /\ LeftTurns' = LeftTurns
  BY LeftKept
<1>1. ASSUME NEW q \in Queries, NEW now, Search(q, now) PROVE LiveInv'
  <2>1. /\ op.at = "idle" /\ scene' \in {scene, EnsureScene}
        /\ UNCHANGED <<topics, archives, planned, turn, gone, stranded>>
    BY <1>1 DEF Search, RestoredScene, Ready, Idle
  <2>2. DOMAIN scenes \subseteq DOMAIN scenes'
    BY <1>1 DEF Search, CreateScene, Put
  <2>3. QED  BY <2>1, <2>2, LiveRestored DEF LaggingBatches
<1>2. CASE OpenSceneTurnFails \/ AppendArchiveBatchFails \/ SettleRefused \/ CreateTurnTopicFails
  <2>1. op' = Idle /\ UNCHANGED <<records, memory, gone, stranded>>
    BY <1>2 DEF OpenSceneTurnFails, AppendArchiveBatchFails, SettleRefused, CreateTurnTopicFails,
                Fails
  <2>2. op.at \notin LaggingBatches
    BY <1>2 DEF OpenSceneTurnFails, AppendArchiveBatchFails, SettleRefused, CreateTurnTopicFails,
                At, LaggingBatches
  <2>3. QED  BY <2>1, <2>2, LiveKept
<1>3. CASE OpenSceneTurn
  <2>1. /\ At("open") /\ op.scene \in DOMAIN scenes /\ scenes' = BumpTurn(op.scene, op.stamp)
        /\ Touch(op.scene) /\ scene' = op.scene /\ turn' = OpenedTurn(op.scene)
        /\ UNCHANGED <<topics, archives, planned, gone, stranded>>
    BY <1>3 DEF OpenSceneTurn
  <2>2. DOMAIN scenes' = DOMAIN scenes /\ ~Counted(OpenedTurn(op.scene))
    BY <2>1, BumpCounts
  <2>3. turn' \notin DOMAIN topics \cup gone
    BY <2>1, <2>2 DEF Base, CountInv
  <2>4. turn'[1] = scene' /\ scene' # Nil
    BY <2>1, ConstantsOK DEF OpenedTurn, ComputeTurnTopicID, Base, RecType
  <2>5. DeletedTopicsOwnNothing'
    BY <1>0, <2>1 DEF LiveInv, DeletedTopicsOwnNothing
  <2>6. QED  BY <1>0, <2>1, <2>2, <2>3, <2>4, <2>5 DEF LiveInv
<1>4. CASE ReadProfileFails
  <2>1. /\ At("open") /\ op.scene \in DOMAIN scenes /\ scenes' = BumpTurn(op.scene, op.stamp)
        /\ Touch(op.scene) /\ UNCHANGED <<topics, archives, planned, gone, scene, turn, stranded>>
    BY <1>4 DEF ReadProfileFails
  <2>2. DOMAIN scenes' = DOMAIN scenes
    BY <2>1, BumpCounts
  <2>3. QED  BY <2>1, <2>2, LiveKept DEF At, LaggingBatches
<1>5. CASE SceneContext
  BY <1>5, LiveRestored DEF SceneContext, Ready, Idle, LaggingBatches
<1>6. ASSUME NEW a \in Appends, AppendArchive(a[1], a[2]) PROVE LiveInv'
  BY <1>6, LiveKept DEF AppendArchive, Ready, Idle, LaggingBatches
<1>7. ASSUME NEW ends \in Ends, Update(ends) PROVE LiveInv'
  BY <1>7, LiveKept DEF Update, Ready, Idle, LaggingBatches
<1>8. CASE AppendArchiveBatch
  <2>1. /\ At("append") /\ archives' = Overlay(archives, op.cells)
        /\ UNCHANGED <<scenes, topics, planned, memory, gone, stranded>>
    BY <1>8 DEF AppendArchiveBatch
  <2>2. turn # Nil /\ DOMAIN op.cells \subseteq {turn} \X (1..MaxSeq)
    BY <2>1 DEF Base, OpType, AppendOp, At, Ready, Idle, MergeSteps, DeleteSteps
  <2>3. turn \in gone \ DOMAIN topics => turn \in LeftTurns
    BY <1>0, <2>1, <2>2 DEF LiveInv, At
  <2>4. \A k \in DOMAIN archives' : k \in DOMAIN archives \/ k[1] = turn
    BY <2>1, <2>2 DEF Overlay
  <2>5. DeletedTopicsOwnNothing'
    BY <1>0, <2>1, <2>3, <2>4 DEF LiveInv, DeletedTopicsOwnNothing
  <2>6. QED  BY <1>0, <2>1, <2>5 DEF LiveInv, At
<1>9. CASE CreateTurnTopic
  <2> DEFINE row == TurnTopic(scene, turn)
  <2>1. /\ At("settle") /\ topics' = Put(topics, turn, row) /\ row.scene = scene
        /\ scene \in DOMAIN scenes /\ UNCHANGED <<scenes, archives, planned, memory, gone, stranded>>
    BY <1>9 DEF CreateTurnTopic, Settles, TurnTopic
  <2> HIDE DEF row
  <2>2. DOMAIN topics' = DOMAIN topics \cup {turn} /\ topics'[turn].scene = scene
    BY <2>1 DEF Put
  <2>3. DeletedTopicsOwnNothing'
    BY <1>0, <2>1, <2>2 DEF LiveInv, DeletedTopicsOwnNothing
  <2>4. turn # Nil => scene # Nil /\ turn[1] = scene
    BY DEF LiveInv
  <2>5. QED  BY <1>0, <2>1, <2>2, <2>3, <2>4 DEF LiveInv
<1>10. CASE PlanNodeAdd
  <2>1. /\ Ready /\ turn # Nil /\ planned' = planned \cup {turn}
        /\ UNCHANGED <<scenes, topics, archives, memory, op, gone, stranded>>
    BY <1>10 DEF PlanNodeAdd
  <2>2. turn \in gone \ DOMAIN topics => turn \in LeftTurns
    BY <1>0, <2>1 DEF LiveInv, At, Ready, Idle
  <2>3. DeletedTopicsOwnNothing'
    BY <1>0, <2>1, <2>2 DEF LiveInv, DeletedTopicsOwnNothing
  <2>4. QED  BY <1>0, <2>1, <2>3 DEF LiveInv, At
<1>11. ASSUME NEW t \in Turns, NEW name \in Names, RenameTopic(t, name) PROVE LiveInv'
  <2>1. /\ t \in DOMAIN topics /\ topics' = [topics EXCEPT ![t].name = name]
        /\ UNCHANGED <<scenes, archives, planned, memory, op, gone, stranded>>
    BY <1>11 DEF RenameTopic
  <2>2. DOMAIN topics' = DOMAIN topics /\ \A x \in DOMAIN topics : topics'[x].scene = topics[x].scene
    BY <2>1, RenamedFacts DEF Base
  <2>3. DeletedTopicsOwnNothing'
    BY <1>0, <2>1, <2>2 DEF LiveInv, DeletedTopicsOwnNothing
  <2>4. QED  BY <1>0, <2>1, <2>2, <2>3 DEF LiveInv, At
<1>12. ASSUME NEW p \in SceneIds, NEW S \in SUBSET SceneIds, MergeScenes(p, S) PROVE LiveInv'
  BY <1>12, LiveKept DEF MergeScenes, Ready, Idle, LaggingBatches
<1>13. CASE MergeTopics
  <2>1. /\ op.primary \in SceneIds /\ At("mergeWrite") /\ op'.at = "mergeDelete" /\ op'.from = op.from
    BY <1>13, MergeOpFacts DEF MergeTopics, At, MergeSteps, MergeOp
  <2>2. /\ topics' = Retargeted(topics, op.from, op.primary)
        /\ UNCHANGED <<scenes, archives, planned, memory, gone, stranded>>
    BY <1>13 DEF MergeTopics, Retargeted, Moved
  <2>3. PICK S \in SUBSET SceneIds, p \in SceneIds : S = op.from /\ p = op.primary
    BY <1>13, <2>1, MergeOpFacts DEF At, MergeSteps
  <2>4. /\ DOMAIN topics' = DOMAIN topics
        /\ \A t \in DOMAIN topics : topics[t].scene \notin S => topics'[t].scene = topics[t].scene
    BY <2>2, <2>3, RetargetedFacts DEF Base, RecType
  <2>5. DeletedTopicsOwnNothing'
    BY <1>0, <2>2, <2>4 DEF LiveInv, DeletedTopicsOwnNothing
  <2>6. QED  BY <1>0, <2>1, <2>2, <2>3, <2>4, <2>5 DEF LiveInv, At
<1>14. CASE MergeDeleteScenes
  <2>1. /\ At("mergeDelete") /\ scenes' = Drop(scenes, op.from)
        /\ UNCHANGED <<topics, archives, planned, gone, stranded>>
    BY <1>14 DEF MergeDeleteScenes
  <2>2. op.primary \in SceneIds /\ op.primary \in DOMAIN scenes /\ op.primary \notin op.from
    BY <2>1, MergeOpFacts DEF At, MergeSteps
  <2>3. DOMAIN scenes' = DOMAIN scenes \ op.from
    BY <2>1 DEF Drop
  <2>4. DeletedTopicsOwnNothing'
    BY <1>0, <2>1 DEF LiveInv, DeletedTopicsOwnNothing
  <2>5. CASE MergeMirrors
    BY <1>0, <2>1, <2>2, <2>3, <2>4, <2>5 DEF LiveInv, At, MergeMirrors
  <2>6. CASE op' = [op EXCEPT !.at = "mergeAnchor"] /\ UNCHANGED <<scene, turn>>
    <3>1. op'.at = "mergeAnchor" /\ op'.from = op.from
      BY <2>1, <2>6, MergeOpFacts DEF At, MergeSteps, MergeOp
    <3>2. QED  BY <1>0, <2>1, <2>3, <2>4, <2>6, <3>1 DEF LiveInv, At
  <2>7. QED  BY <1>14, <2>5, <2>6 DEF MergeDeleteScenes
<1>15. CASE MergeAnchor
  <2>1. /\ At("mergeAnchor") /\ MergeMirrors
        /\ UNCHANGED <<topics, archives, planned, gone, stranded>>
    BY <1>15 DEF MergeAnchor
  <2>2. op.primary \in DOMAIN scenes /\ op.primary \notin op.from
    BY <2>1, MergeOpFacts DEF At, MergeSteps
  <2>3. DOMAIN scenes' = DOMAIN scenes
    BY <1>15 DEF MergeAnchor
  <2>4. DeletedTopicsOwnNothing'
    BY <1>0, <2>1 DEF LiveInv, DeletedTopicsOwnNothing
  <2>5. QED  BY <1>0, <2>1, <2>2, <2>3, <2>4 DEF LiveInv, At, MergeMirrors
<1>16. ASSUME NEW T, NEW s, DeleteTopicArchives(T, s) PROVE LiveInv'
  <2>1. DOMAIN archives' \subseteq DOMAIN archives
    BY <1>16 DEF DeleteTopicArchives, Drop
  <2>2. QED  BY <1>16, <2>1, LiveKept DEF DeleteTopicArchives, Ready, Idle, LaggingBatches
<1>17. CASE DeletePlanNodes
  BY <1>17, LiveKept DEF DeletePlanNodes, At, LaggingBatches
<1>18. CASE DeleteL2Records
  <2>1. /\ At("delRecords")
        /\ topics' = Drop(topics, op.topics) /\ scenes' = Drop(scenes, {op.scene})
        /\ gone' = gone \cup op.topics
        /\ turn' = IF op.scene = Nil /\ turn \in op.topics THEN Nil ELSE turn
        /\ UNCHANGED <<archives, planned, scene, stranded>>
    BY <1>18 DEF DeleteL2Records
  <2>2. /\ DOMAIN topics' = DOMAIN topics \ op.topics /\ DOMAIN scenes' = DOMAIN scenes \ {op.scene}
        /\ \A t \in DOMAIN topics' : topics'[t] = topics[t]
    BY <2>1 DEF Drop
  <2>3. /\ op.topics \subseteq DOMAIN topics
        /\ op.scene # Nil => \A t \in op.topics : topics[t].scene = op.scene
        /\ \A k \in DOMAIN archives : k[1] \notin op.topics
        /\ planned \cap op.topics = {}
    BY <2>1 DEF Base, OpInv, At
  <2>4. DeletedTopicsOwnNothing'
    BY <1>0, <2>1, <2>2, <2>3 DEF LiveInv, DeletedTopicsOwnNothing
  <2>5. /\ scene # Nil => scene \in DOMAIN scenes \cup LeftScenes
        /\ turn # Nil => scene # Nil /\ turn[1] = scene
        /\ turn # Nil /\ turn \in DOMAIN topics => topics[turn].scene = scene \/ turn \in LeftTurns
        /\ turn # Nil /\ turn \in gone \ DOMAIN topics => turn \in LeftTurns
    BY <1>0, <2>1 DEF LiveInv, At
  <2>6. CASE op.scene = Nil
    BY <1>0, <2>1, <2>2, <2>3, <2>4, <2>5, <2>6 DEF LiveInv
  <2>7. CASE op.scene # Nil
    <3>1. op'.at = "delNode" /\ op'.scene = op.scene
      BY <1>18, <2>1, <2>7, DeleteOpFacts DEF DeleteL2Records, At, DeleteSteps, DeleteOp
    <3>2. QED  BY <1>0, <2>1, <2>2, <2>3, <2>4, <2>5, <2>7, <3>1 DEF LiveInv, At
  <2>8. QED  BY <2>6, <2>7
<1>19. CASE DeleteSceneNode
  <2>1. DeletedTopicsOwnNothing'
    BY <1>0, <1>19 DEF DeleteSceneNode, LiveInv, DeletedTopicsOwnNothing
  <2>2. QED  BY <1>0, <1>19, <2>1 DEF DeleteSceneNode, LiveInv, At
<1>20. CASE SyncL1Nodes
  BY <1>20, LiveKept DEF SyncL1Nodes, Ready, Idle, LaggingBatches
<1>21. CASE NewContext
  <2>1. scene' = Nil /\ turn' = Nil /\ UNCHANGED <<records, gone, stranded>>
    BY <1>21 DEF NewContext, RebuildContext
  <2>2. DeletedTopicsOwnNothing'
    BY <1>0, <2>1 DEF LiveInv, DeletedTopicsOwnNothing
  <2>3. QED  BY <1>0, <2>1, <2>2 DEF LiveInv
<1>22. CASE MergeBatchFails \/ CascadeFails
  <2>1. op' = Idle /\ UNCHANGED <<records, memory, gone>> /\ stranded \subseteq stranded'
    BY <1>22 DEF MergeBatchFails, CascadeFails, Fails
  <2>2. CASE op.at \notin LaggingBatches
    <3>1. stranded' = stranded
      BY <1>22, <2>2 DEF MergeBatchFails, CascadeFails, At, LaggingBatches
    <3>2. QED  BY <2>1, <2>2, <3>1, LiveKept
  <2>3. CASE op.at \in LaggingBatches
    <3>1. /\ op.at \in {"mergeDelete", "mergeAnchor"} /\ scene \in op.from => <<scene, turn>> \in stranded'
          /\ At("delNode") /\ scene = op.scene => <<scene, turn>> \in stranded'
      BY <1>22, <2>3 DEF MergeBatchFails, CascadeFails, Stranded, At, LaggingBatches
    <3>2. <<scene, turn>> \in stranded' => scene \in LeftScenes' /\ turn \in LeftTurns'
      BY DEF LeftScenes, LeftTurns
    <3>3. LeftScenes \subseteq LeftScenes' /\ LeftTurns \subseteq LeftTurns'
      BY <2>1, LeftKept
    <3>4. DeletedTopicsOwnNothing'
      BY <1>0, <2>1, DeletionsKept DEF LiveInv
    <3>5. QED  BY <1>0, <2>1, <3>1, <3>2, <3>3, <3>4 DEF LiveInv, At
  <2>4. QED  BY <2>2, <2>3
<1>23. CASE CrashInBatch
  <2>1. scene' = Nil /\ turn' = Nil
    BY <1>23 DEF CrashInBatch, RebuildContext
  <2>2. QED  BY <1>0, <1>23, <2>1, TornDeletions DEF LiveInv
<1>24. CASE UNCHANGED vars
  BY <1>0, <1>24 DEF LiveInv, DeletedTopicsOwnNothing, At, vars
<1>25. QED
  BY <1>1, <1>2, <1>3, <1>4, <1>5, <1>6, <1>7, <1>8, <1>9, <1>10, <1>11, <1>12, <1>13, <1>14,
     <1>15, <1>16, <1>17, <1>18, <1>19, <1>20, <1>21, <1>22, <1>23, <1>24 DEF Next, DeleteTopic,
     DeleteScene

\* The memory is alive from the start.
LEMMA LiveInvariance == Spec => [](Base /\ LiveInv)
<1>1. Init => LiveInv
  BY DEF Init, LiveInv, DeletedTopicsOwnNothing
<1>2. Base /\ LiveInv /\ [Next]_vars => LiveInv'
  BY LiveStep
<1>3. QED  BY <1>1, <1>2, BaseInvariance, PTL DEF Spec

\* The scene a domain would resume exists and the open turn is one it counted,
\* so an append or the end of a turn lands on its own conversation
\* (ForgetScene, MoveScene, lockTurn), whichever batch is refused and wherever
\* the process dies; the exception is the one the property names, a scene whose
\* own deletion or merge was refused after its record had gone.
THEOREM MemoryIsLive == Spec => []ContextIsLive
<1>1. Base /\ LiveInv => ContextIsLive
  <2> SUFFICES ASSUME Base, LiveInv, Ready PROVE ContextIsLive
    BY DEF ContextIsLive
  <2> USE ConstantsOK
  <2>1. scene # Nil => scene \in DOMAIN scenes \cup LeftScenes
    BY DEF LiveInv, At, Ready, Idle
  <2>2. ASSUME turn # Nil
        PROVE  scene # Nil /\ (scene \in DOMAIN scenes => SettleTarget(scene, turn))
    <3> SUFFICES ASSUME scene \in DOMAIN scenes PROVE SettleTarget(scene, turn)
      BY <2>2 DEF LiveInv
    <3>1. turn[1] = scene /\ scene # Nil
      BY <2>2 DEF LiveInv
    <3>2. Counted(turn) /\ turn \in SceneIds \X (1..MaxTurnSeq)
      BY <2>2, TurnsArePairs DEF Base, CountInv, MemType
    <3>3. turn = <<scene, turn[2]>> /\ turn[2] \in Nat /\ turn[2] >= 1 /\ turn[2] <= scenes[scene].turnSeq
      BY <3>1, <3>2 DEF Counted
    <3>4. scenes[scene].turnSeq \in Nat
      BY DEF Base, RecType, SceneRec
    <3>5. QED  BY <3>1, <3>3, <3>4 DEF SettleTarget, ComputeTurnTopicID
  <2>3. QED  BY <2>1, <2>2 DEF ContextIsLive
<1>2. QED  BY <1>1, LiveInvariance, PTL

\* A turn whose topic was deleted keeps no content and no plan node, at every
\* batch of the cascade and after every failure in it (DeleteCascade), save the
\* turn that was open when a merge or a deletion of its scene was refused.
THEOREM DeletionsAreWhole == Spec => []DeletedTopicsOwnNothing
<1>1. LiveInv => DeletedTopicsOwnNothing
  BY DEF LiveInv
<1>2. QED  BY <1>1, LiveInvariance, PTL
=============================================================================
