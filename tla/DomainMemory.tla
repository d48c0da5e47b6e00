---------------------------- MODULE DomainMemory ----------------------------
(***************************************************************************)
(* One domain's conversation memory: scene, topic, content (L4) and plan   *)
(* records in the file, the mirrors a live context keeps of them (L2Meta,  *)
(* the L4 index, the plan cache), and the scene and turn the context       *)
(* remembers for its host.  The domain lock serialises the calls, so one   *)
(* call is in flight and `op' names its next engine batch.  Every batch    *)
(* may be refused, which leaves nothing of it, and the process may die     *)
(* before it or inside it, which leaves any part of its records.           *)
(*                                                                         *)
(* Source: internal/search.go, update.go, l2.go, l4.go, scene/, content/,  *)
(* turn/, domain/, repo/l2layer*.go, repo/l4layer.go, repo/index/.         *)
(***************************************************************************)
EXTENDS Integers, FiniteSets, FiniteSetsExt

CONSTANTS
    SceneIds,       \* ids freshID may draw, as numbers: the smaller id breaks ties
    Graphs,         \* L3 graphs a scene may be anchored to
    Names,          \* names a host may give a topic
    Nil,            \* the zero id: no scene, no turn, no anchor, no name
    Appends,        \* <<kind, seq>> a host may append, seq 0 to have one allocated
    Ends,           \* what an Update may carry of input, output and outcome
    MaxTurnSeq,     \* bound: turns per scene
    MaxSeq,         \* bound: content slots per turn
    MaxStamp,       \* bound: last-used stamps
    MaxTick,        \* bound: how far the clock moves between two rounds
    MaxTrouble,     \* bound: failing batches, restarts and sweeps
    Failing,        \* the batches that may fail
    ClockStepsBack  \* may the clock read at a restart lie before earlier stamps

\* The two dialogue slots of a turn, core.SeqUser and core.SeqAgent.
LastUtteranceSeq == 2

ASSUME ConstantsOK ==
    /\ SceneIds \subseteq Nat /\ Nil \notin SceneIds /\ Nil \notin Graphs
    /\ Appends \subseteq {"utterance", "event"} \X (0..MaxSeq)
    /\ Ends \subseteq (SUBSET {"input", "output", "outcome"} \ {{}})
    /\ MaxTurnSeq \in Nat \ {0} /\ MaxSeq \in Nat /\ MaxSeq >= LastUtteranceSeq
    /\ MaxStamp \in Nat /\ MaxTick \in Nat
    /\ MaxTrouble \in Nat /\ ClockStepsBack \in BOOLEAN

VARIABLES
    scenes,     \* L2 scene records: id -> [anchor, turnSeq, used]
    topics,     \* L2 topic records: turn id -> [scene, name]
    archives,   \* L4 records: <<turn, seq>> -> kind
    planned,    \* turns that own L5 plan-node records
    nodes,      \* scenes that own an L1 node record
    meta,       \* L2MetaIndex: [rows, byScene]
    l4,         \* L4Index, same shape as archives
    plans,      \* PlanCache: turns with a cached tree
    scene,      \* Context.Scene
    turn,       \* Context.Turn
    stamp,      \* Context.lastUsedStamp
    clock,      \* the wall clock, in the stamps' unit
    op,         \* the call in flight and its next batch
    issued,     \* history: scene ids that were ever created
    after,      \* history: <<a, b>>, scene a was used after the last use of b
    minted,     \* history: turn id -> how many Search calls returned it
    gone,       \* history: turns whose topic record was deleted
    behind,     \* history: turns whose mirror row a refused merge left as it was
    cut,        \* history: turns whose deletion stopped short of their topic record
    stranded,   \* history: scene and turn a context kept after a refused merge or deletion
    trouble     \* failures and restarts so far

records == <<scenes, topics, archives, planned, nodes>>
mirrors == <<meta, l4, plans>>
memory  == <<scene, turn, stamp>>
uses    == <<issued, after>>
lags    == <<behind, cut, stranded>>
history == <<uses, minted, gone, lags>>
vars    == <<records, mirrors, memory, clock, op, history, trouble>>

(***************************************************************************)
(* Records and mirrors.                                                    *)
(***************************************************************************)
\* A turn's topic id hashes its scene and the scene's counter; it is kept as
\* the pair.
ComputeTurnTopicID(s, seq) == <<s, seq>>
Turns == {ComputeTurnTopicID(s, n) : s \in SceneIds, n \in 1..MaxTurnSeq}

Put(f, k, v) == [x \in DOMAIN f \cup {k} |-> IF x = k THEN v ELSE f[x]]
Drop(f, K)   == [x \in DOMAIN f \ K |-> f[x]]

SceneSlot == [anchor : Graphs \cup {Nil}, turnSeq : Nat, used : Nat]
TopicSlot == [scene : SceneIds, name : Names \cup {Nil}]
Kinds     == {"utterance", "event"}

\* The mirror of the topic records keeps a row per topic and a table of ids
\* per scene.
BuildL2Meta(recs) == [rows |-> recs, byScene |-> {<<recs[t].scene, t>> : t \in DOMAIN recs}]

L2MetaUpdate(m, t, row) ==
    [rows    |-> Put(m.rows, t, row),
     byScene |-> {p \in m.byScene : t \notin DOMAIN m.rows \/ p # <<m.rows[t].scene, t>>}
                    \cup {<<row.scene, t>>}]

RemoveTopicsFromIndices(m, T) ==
    [rows |-> Drop(m.rows, T), byScene |-> {p \in m.byScene : p[2] \notin T}]

RetargetL2Meta(m, S, to) ==
    [rows    |-> [t \in DOMAIN m.rows |->
                    IF \E s \in S : <<s, t>> \in m.byScene THEN [m.rows[t] EXCEPT !.scene = to]
                                                           ELSE m.rows[t]],
     byScene |-> {IF p[1] \in S THEN <<to, p[2]>> ELSE p : p \in m.byScene}]

\* What a read of a scene's topics answers: the rows its table lists.
TopicsByScene(s) == {t \in DOMAIN meta.rows : <<s, t>> \in meta.byScene}
SurfaceTopics(s) == [t \in TopicsByScene(s) |-> meta.rows[t]]

\* The highest slot a topic's mirror holds, 0 when it holds none.
L4MaxSeq(t) == Max({0} \cup {k[2] : k \in {x \in DOMAIN l4 : x[1] = t}})
L4IDs(t, kind) == {k \in DOMAIN l4 : k[1] = t /\ l4[k] = kind}

(***************************************************************************)
(* Which scene a domain resumes: last used, then longest, then smaller id. *)
(***************************************************************************)
Later(a, b) ==
    \/ scenes[a].used > scenes[b].used
    \/ scenes[a].used = scenes[b].used /\ scenes[a].turnSeq > scenes[b].turnSeq
    \/ scenes[a].used = scenes[b].used /\ scenes[a].turnSeq = scenes[b].turnSeq /\ a < b

CurrentScene ==
    IF DOMAIN scenes = {} THEN Nil
    ELSE CHOOSE a \in DOMAIN scenes : \A b \in DOMAIN scenes \ {a} : Later(a, b)

EnsureScene == IF scene # Nil THEN scene ELSE CurrentScene

\* Mutant: two rounds of one instant get the same stamp.
NextUsedStamp_ClockOnly(now) == now

NextUsedStamp(now) == IF now <= stamp THEN stamp + 1 ELSE now

(***************************************************************************)
(* Calls.                                                                  *)
(***************************************************************************)
Idle == [at |-> "idle"]
NoRows == [t \in {} |-> Nil]

Init ==
    /\ scenes = NoRows /\ topics = NoRows /\ archives = NoRows
    /\ planned = {} /\ nodes = {}
    /\ meta = BuildL2Meta(NoRows) /\ l4 = NoRows /\ plans = {}
    /\ scene = Nil /\ turn = Nil /\ stamp = 0 /\ clock = 1
    /\ op = Idle
    /\ issued = {} /\ after = {} /\ minted = [t \in Turns |-> 0] /\ gone = {}
    /\ behind = {} /\ cut = {} /\ stranded = {}
    /\ trouble = 0

Ready == op = Idle
At(p) == op.at = p

Fails(p) ==
    /\ p \in Failing /\ trouble < MaxTrouble
    /\ trouble' = trouble + 1
    /\ op' = Idle

\* Scene s is the one used last.
Touch(s) ==
    /\ issued' = issued \cup {s}
    /\ after' = {p \in after : p[2] # s} \cup {<<s, x>> : x \in issued \ {s}}

(***************************************************************************)
(* Search: resolve the scene, create it if need be, bump its turn counter  *)
(* and remember scene and turn.                                            *)
(***************************************************************************)
\* A query: a named scene or Nil, new_scene, an anchor or Nil.
Queries == [scene : SceneIds \cup {Nil}, new : BOOLEAN, anchor : Graphs \cup {Nil}]

Creates(q) == q.scene = Nil /\ (q.new \/ EnsureScene = Nil)

Refused(q) ==
    \/ q.scene # Nil /\ (q.new \/ q.scene \notin DOMAIN scenes \/ q.anchor # Nil)
    \/ q.scene = Nil /\ ~ Creates(q) /\ q.anchor # Nil

\* The memory of the current scene is restored only on the path that asks for it.
RestoredScene(q) == IF q.scene = Nil /\ ~ q.new THEN EnsureScene ELSE scene

\* The new scene takes an id that was never used.
CreateScene(anchor, used_) ==
    \E id \in SceneIds \ (issued \cup DOMAIN scenes) :
        /\ scenes' = Put(scenes, id, [anchor |-> anchor, turnSeq |-> 0, used |-> used_])
        /\ Touch(id)
        /\ op' = [at |-> "open", scene |-> id, stamp |-> used_]

Search(q, now) ==
    LET s  == NextUsedStamp(now)
        to == IF q.scene # Nil THEN q.scene ELSE EnsureScene IN
    /\ Ready /\ s <= MaxStamp
    /\ clock' = now /\ stamp' = s
    /\ scene' = RestoredScene(q)
    /\ \/ Refused(q) /\ UNCHANGED <<scenes, uses, op, trouble>>
       \/ Creates(q) /\ CreateScene(q.anchor, s) /\ UNCHANGED trouble
       \/ Creates(q) /\ Fails("create") /\ UNCHANGED <<scenes, uses>>
       \/ /\ ~ Refused(q) /\ ~ Creates(q)
          /\ to \in DOMAIN scenes => scenes[to].turnSeq < MaxTurnSeq
          /\ op' = [at |-> "open", scene |-> to, stamp |-> s]
          /\ UNCHANGED <<scenes, uses, trouble>>
    /\ UNCHANGED <<topics, archives, planned, nodes, mirrors, turn, minted, gone, lags>>

\* The turn counter is on disk before the id it mints is handed out.
BumpTurn(s, t) == [scenes EXCEPT ![s].turnSeq = @ + 1, ![s].used = t]

OpenedTurn(s) == ComputeTurnTopicID(s, scenes[s].turnSeq + 1)

\* Mutant: the turn is handed out without writing the counter.
OpenSceneTurn_MemoryOnly ==
    /\ At("open") /\ op.scene \in DOMAIN scenes
    /\ scenes' = scenes
    /\ Touch(op.scene)
    /\ scene' = op.scene /\ turn' = OpenedTurn(op.scene)
    /\ minted' = [minted EXCEPT ![OpenedTurn(op.scene)] = @ + 1]
    /\ op' = Idle
    /\ UNCHANGED <<topics, archives, planned, nodes, mirrors, stamp, clock, gone, lags, trouble>>

OpenSceneTurn ==
    /\ At("open") /\ op.scene \in DOMAIN scenes
    /\ scenes' = BumpTurn(op.scene, op.stamp)
    /\ Touch(op.scene)
    /\ scene' = op.scene /\ turn' = OpenedTurn(op.scene)
    /\ minted' = [minted EXCEPT ![OpenedTurn(op.scene)] = @ + 1]
    /\ op' = Idle
    /\ UNCHANGED <<topics, archives, planned, nodes, mirrors, stamp, clock, gone, lags, trouble>>

\* The counter is written and the profile does not read: the call fails, the
\* turn it counted is skipped.
ReadProfileFails ==
    /\ At("open") /\ op.scene \in DOMAIN scenes
    /\ Fails("profile")
    /\ scenes' = BumpTurn(op.scene, op.stamp)
    /\ Touch(op.scene)
    /\ UNCHANGED <<topics, archives, planned, nodes, mirrors, memory, clock, minted, gone, lags>>

\* The scene is not there, or its write fails.
OpenSceneTurnFails ==
    /\ At("open")
    /\ \/ op.scene \notin DOMAIN scenes /\ op' = Idle /\ UNCHANGED trouble
       \/ Fails("open")
    /\ UNCHANGED <<records, mirrors, memory, clock, history>>

\* A read that names no scene restores the current one.
SceneContext ==
    /\ Ready /\ scene = Nil
    /\ scene' = EnsureScene
    /\ UNCHANGED <<records, mirrors, turn, stamp, clock, op, history, trouble>>

(***************************************************************************)
(* AppendArchive and Update: one batch of content for the open turn; an    *)
(* Update then settles the turn.                                           *)
(***************************************************************************)
NextSeq(t) == Max({L4MaxSeq(t), LastUtteranceSeq}) + 1

Cells(pairs) == [k \in {<<turn, p[1]>> : p \in pairs} |->
                    (CHOOSE p \in pairs : p[1] = k[2])[2]]

AppendArchive(kind, seq) ==
    LET slot == IF seq = 0 THEN NextSeq(turn) ELSE seq IN
    /\ Ready /\ turn # Nil /\ slot <= MaxSeq
    /\ op' = [at |-> "append", cells |-> Cells({<<slot, kind>>}), settle |-> FALSE]
    /\ UNCHANGED <<records, mirrors, memory, clock, history, trouble>>

TurnEndRecords(ends) ==
    {<<1, "utterance">> : e \in ends \cap {"input"}}
        \cup {<<2, "utterance">> : e \in ends \cap {"output"}}
        \cup {<<NextSeq(turn), "event">> : e \in ends \cap {"outcome"}}

Update(ends) ==
    /\ Ready /\ turn # Nil
    /\ "outcome" \in ends => NextSeq(turn) <= MaxSeq
    /\ op' = [at |-> "append", cells |-> Cells(TurnEndRecords(ends)), settle |-> TRUE]
    /\ UNCHANGED <<records, mirrors, memory, clock, history, trouble>>

Overlay(f, g) == [k \in DOMAIN f \cup DOMAIN g |-> IF k \in DOMAIN g THEN g[k] ELSE f[k]]

AppendArchiveBatch ==
    /\ At("append")
    /\ archives' = Overlay(archives, op.cells)
    /\ l4' = Overlay(l4, op.cells)
    /\ op' = IF op.settle THEN [at |-> "settle"] ELSE Idle
    /\ UNCHANGED <<scenes, topics, planned, nodes, meta, plans, memory, clock, history, trouble>>

AppendArchiveBatchFails ==
    /\ At("append") /\ Fails("append")
    /\ UNCHANGED <<records, mirrors, memory, clock, history>>

\* A turn settles into a topic of the scene that counted it.
SettleTarget(s, t) == \E n \in 1..scenes[s].turnSeq : ComputeTurnTopicID(s, n) = t

Settles ==
    /\ scene \in DOMAIN scenes /\ SettleTarget(scene, turn)
    /\ L4IDs(turn, "utterance") # {}
    /\ L4IDs(turn, "utterance") \subseteq DOMAIN archives

\* The scene is gone, the turn is not its own, the mirror names a missing
\* record or the turn holds no utterance; or the LLM fails or finds no keyword.
SettleRefused ==
    /\ At("settle")
    /\ op' = Idle
    /\ UNCHANGED <<records, mirrors, memory, clock, history, trouble>>

\* A replay keeps the name the host gave.
TurnTopic(s, t) ==
    [scene |-> s, name |-> IF t \in DOMAIN topics THEN topics[t].name ELSE Nil]

CreateTurnTopic ==
    LET row == TurnTopic(scene, turn) IN
    /\ At("settle") /\ Settles
    /\ topics' = Put(topics, turn, row)
    /\ meta' = L2MetaUpdate(meta, turn, row) /\ behind' = behind \ {turn}
    /\ op' = Idle
    /\ UNCHANGED <<scenes, archives, planned, nodes, l4, plans, memory, clock, uses, minted, gone,
                   cut, stranded, trouble>>

CreateTurnTopicFails ==
    /\ At("settle") /\ Settles /\ Fails("topic")
    /\ UNCHANGED <<records, mirrors, memory, clock, history>>

\* A plan node of the open turn; its tree is module PlanTree's subject.
PlanNodeAdd ==
    /\ Ready /\ turn # Nil
    /\ planned' = planned \cup {turn} /\ plans' = plans \cup {turn}
    /\ UNCHANGED <<scenes, topics, archives, nodes, meta, l4, memory, clock, op, history, trouble>>

\* Mutant: the mirror keeps the old name.
RenameTopic_RecordOnly(t, name) ==
    /\ Ready /\ t \in DOMAIN topics /\ topics[t].name # name
    /\ topics' = [topics EXCEPT ![t].name = name]
    /\ meta' = meta
    /\ UNCHANGED <<scenes, archives, planned, nodes, l4, plans, memory, clock, op, history, trouble>>

RenameTopic(t, name) ==
    /\ Ready /\ t \in DOMAIN topics /\ topics[t].name # name
    /\ topics' = [topics EXCEPT ![t].name = name]
    /\ meta' = L2MetaUpdate(meta, t, topics'[t]) /\ behind' = behind \ {t}
    /\ UNCHANGED <<scenes, archives, planned, nodes, l4, plans, memory, clock, op, uses, minted, gone,
                   cut, stranded, trouble>>

(***************************************************************************)
(* MergeScenes: secondaries' L1 nodes, the topics' new scene, the          *)
(* secondary records, the survivor's anchor, the mirrors.                  *)
(***************************************************************************)
Anchors(S) == {scenes[s].anchor : s \in S} \ {Nil}

\* The claim the survivor takes over, Nil to leave its own alone.
MergedAnchor(p, S) ==
    IF scenes[p].anchor # Nil \/ Anchors(S) = {} THEN Nil ELSE CHOOSE g \in Anchors(S) : TRUE

\* The secondaries' L1 nodes go first; some are gone when one deletion fails.
MergeScenes(p, S) ==
    /\ Ready
    /\ S # {} /\ p \notin S /\ S \cup {p} \subseteq DOMAIN scenes
    /\ scenes[p].anchor = Nil => Cardinality(Anchors(S)) <= 1
    /\ \/ /\ nodes' = nodes \ S
          /\ op' = [at |-> "mergeWrite", primary |-> p, from |-> S, anchor |-> MergedAnchor(p, S)]
          /\ UNCHANGED trouble
       \/ /\ Fails("mergeNodes")
          /\ \E kept \in SUBSET (S \cap nodes) : kept # {} /\ nodes' = (nodes \ S) \cup kept
    /\ UNCHANGED <<scenes, topics, archives, planned, mirrors, memory, clock, history>>

\* The topic records with those of T that belong to a secondary moved.
Moved(T) == [t \in DOMAIN topics |-> IF t \in T /\ topics[t].scene \in op.from
                                     THEN [topics[t] EXCEPT !.scene = op.primary]
                                     ELSE topics[t]]

MergeTopics ==
    /\ At("mergeWrite")
    /\ topics' = Moved(DOMAIN topics)
    /\ op' = [op EXCEPT !.at = "mergeDelete"]
    /\ UNCHANGED <<scenes, archives, planned, nodes, mirrors, memory, clock, history, trouble>>

\* What the merge does to the context once its records are written: the rows
\* follow, and the scene it was on moves, without the turn opened there.
MergeMirrors ==
    /\ meta' = RetargetL2Meta(meta, op.from, op.primary)
    /\ scene' = IF scene \in op.from THEN op.primary ELSE scene
    /\ turn' = IF scene \in op.from THEN Nil ELSE turn
    /\ op' = Idle

MergeDeleteScenes ==
    /\ At("mergeDelete")
    /\ scenes' = Drop(scenes, op.from)
    /\ \/ op.anchor = Nil /\ MergeMirrors
       \/ op.anchor # Nil /\ op' = [op EXCEPT !.at = "mergeAnchor"]
                          /\ UNCHANGED <<meta, scene, turn>>
    /\ UNCHANGED <<topics, archives, planned, nodes, l4, plans, stamp, clock, history, trouble>>

MergeAnchor ==
    /\ At("mergeAnchor")
    /\ scenes' = [scenes EXCEPT ![op.primary].anchor = op.anchor]
    /\ MergeMirrors
    /\ UNCHANGED <<topics, archives, planned, nodes, l4, plans, stamp, clock, history, trouble>>

\* What a refused call leaves the context on, if it was on one of the scenes S.
Stranded(S) == {<<scene, turn>> : s \in S \cap {scene}}

\* The call returns before it reaches the mirrors and the context: once the
\* topics have moved, the rows of the secondaries stay where they were.
MergeBatchFails ==
    /\ op.at \in {"mergeWrite", "mergeDelete", "mergeAnchor"} /\ Fails(op.at)
    /\ \/ At("mergeWrite") /\ UNCHANGED <<behind, stranded>>
       \/ /\ ~ At("mergeWrite")
          /\ behind' = behind \cup {t \in DOMAIN meta.rows : meta.rows[t].scene \in op.from}
          /\ stranded' = stranded \cup Stranded(op.from)
    /\ UNCHANGED <<records, mirrors, memory, clock, uses, minted, gone, cut>>

(***************************************************************************)
(* DeleteTopic and DeleteScene: content, plan nodes, L2 records, mirrors.  *)
(***************************************************************************)
TopicIDsByScene(s) == {t \in DOMAIN topics : topics[t].scene = s}

\* The content goes first, by what the mirror names.
DeleteTopicArchives(T, s) ==
    LET doomed == {k \in DOMAIN l4 : k[1] \in T} IN
    /\ Ready
    /\ archives' = Drop(archives, doomed) /\ l4' = Drop(l4, doomed)
    /\ op' = [at |-> "delPlans", topics |-> T, scene |-> s]
    /\ UNCHANGED <<scenes, topics, planned, nodes, meta, plans, memory, clock, history, trouble>>

DeleteTopic(t) == t \in DOMAIN topics /\ DeleteTopicArchives({t}, Nil)
DeleteScene(s) == s \in DOMAIN scenes /\ DeleteTopicArchives(TopicIDsByScene(s), s)

\* Mutant: the cascade leaves the plan nodes.
DeletePlanNodes_Skipped ==
    /\ At("delPlans")
    /\ planned' = planned
    /\ op' = [op EXCEPT !.at = "delRecords"]
    /\ UNCHANGED <<scenes, topics, archives, nodes, mirrors, memory, clock, history, trouble>>

DeletePlanNodes ==
    /\ At("delPlans")
    /\ planned' = planned \ op.topics
    /\ op' = [op EXCEPT !.at = "delRecords"]
    /\ UNCHANGED <<scenes, topics, archives, nodes, mirrors, memory, clock, history, trouble>>

\* The last batch of the cascade; DeleteTopic ends with it and forgets the turn.
DeleteL2Records ==
    /\ At("delRecords")
    /\ topics' = Drop(topics, op.topics) /\ scenes' = Drop(scenes, {op.scene})
    /\ meta' = RemoveTopicsFromIndices(meta, op.topics) /\ plans' = plans \ op.topics
    /\ gone' = gone \cup op.topics
    /\ behind' = behind \ op.topics /\ cut' = cut \ op.topics /\ UNCHANGED stranded
    /\ turn' = IF op.scene = Nil /\ turn \in op.topics THEN Nil ELSE turn
    /\ op' = IF op.scene = Nil THEN Idle ELSE [op EXCEPT !.at = "delNode"]
    /\ UNCHANGED <<archives, planned, nodes, l4, scene, stamp, clock, uses, minted, trouble>>

\* Mutant: the context forgets the scene and not its turn.
DeleteSceneNode_KeepsTurn ==
    /\ At("delNode")
    /\ nodes' = nodes \ {op.scene}
    /\ scene' = IF scene = op.scene THEN Nil ELSE scene
    /\ turn' = turn
    /\ op' = Idle
    /\ UNCHANGED <<scenes, topics, archives, planned, mirrors, stamp, clock, history, trouble>>

DeleteSceneNode ==
    /\ At("delNode")
    /\ nodes' = nodes \ {op.scene}
    /\ scene' = IF scene = op.scene THEN Nil ELSE scene
    /\ turn' = IF scene = op.scene THEN Nil ELSE turn
    /\ op' = Idle
    /\ UNCHANGED <<scenes, topics, archives, planned, mirrors, stamp, clock, history, trouble>>

\* A node that is not there is deleted without a write, which cannot fail.
\* Refused at its last batch the cascade has deleted plan nodes and leaves
\* their cached tree; refused at the L1 node the scene is gone and the context
\* is not told.
CascadeFails ==
    /\ op.at \in {"delPlans", "delRecords", "delNode"} /\ Fails(op.at)
    /\ op.at = "delNode" => op.scene \in nodes
    /\ cut' = IF At("delRecords") THEN cut \cup op.topics ELSE cut
    /\ stranded' = IF At("delNode") THEN stranded \cup Stranded({op.scene}) ELSE stranded
    /\ UNCHANGED <<records, mirrors, memory, clock, uses, minted, gone, behind>>

\* A Dream gives each scene with topics its L1 node.
SyncL1Nodes ==
    /\ Ready
    /\ nodes' = {topics[t].scene : t \in DOMAIN topics} /\ nodes' # nodes
    /\ UNCHANGED <<scenes, topics, archives, planned, mirrors, memory, clock, op, history, trouble>>

(***************************************************************************)
(* A context is rebuilt from the records: the process restarted, at any    *)
(* point of a call, or the idle sweep reclaimed it between two.            *)
(***************************************************************************)
RebuildContext ==
    /\ trouble < MaxTrouble /\ trouble' = trouble + 1
    /\ meta' = BuildL2Meta(topics') /\ l4' = archives' /\ plans' = planned'
    /\ scene' = Nil /\ turn' = Nil /\ stamp' = 0
    /\ clock' \in IF ClockStepsBack THEN 1..MaxStamp ELSE {Max({clock, stamp + 1})}
    /\ op' = Idle
    /\ behind' = {} /\ cut' = {}
    /\ UNCHANGED <<uses, minted, stranded>>

NewContext == UNCHANGED <<records, gone>> /\ RebuildContext

\* Power fails while the records of a batch are on their way to the disk: any
\* part of them is in the file that is opened next.
TornAppend ==
    /\ At("append")
    /\ \E K \in SUBSET DOMAIN op.cells : archives' = Overlay(archives, [k \in K |-> op.cells[k]])
    /\ UNCHANGED <<scenes, topics, planned, gone>>

TornMerge ==
    \/ /\ At("mergeWrite")
       /\ \E T \in SUBSET DOMAIN topics : topics' = Moved(T)
       /\ UNCHANGED <<scenes, archives, planned, gone>>
    \/ /\ At("mergeDelete")
       /\ \E S \in SUBSET op.from : scenes' = Drop(scenes, S)
       /\ UNCHANGED <<topics, archives, planned, gone>>

\* What one deletion takes: a topic's content, or that of all topics of a scene.
Cascades == {{t} : t \in DOMAIN topics} \cup {TopicIDsByScene(s) : s \in DOMAIN scenes}

TornDelete ==
    \/ /\ Ready
       /\ \E T \in Cascades : \E K \in SUBSET {k \in DOMAIN archives : k[1] \in T} :
             archives' = Drop(archives, K)
       /\ UNCHANGED <<scenes, topics, planned, gone>>
    \/ /\ At("delPlans")
       /\ \E T \in SUBSET op.topics : planned' = planned \ T
       /\ UNCHANGED <<scenes, topics, archives, gone>>
    \/ /\ At("delRecords")
       /\ \E T \in SUBSET op.topics, S \in SUBSET {op.scene} :
             topics' = Drop(topics, T) /\ scenes' = Drop(scenes, S) /\ gone' = gone \cup T
       /\ UNCHANGED <<archives, planned>>

CrashInBatch == (TornAppend \/ TornMerge \/ TornDelete) /\ UNCHANGED nodes /\ RebuildContext

Next ==
    \/ \E q \in Queries, tick \in 0..MaxTick : Search(q, clock + tick)
    \/ OpenSceneTurn \/ ReadProfileFails \/ OpenSceneTurnFails
    \/ SceneContext
    \/ \E a \in Appends : AppendArchive(a[1], a[2])
    \/ \E ends \in Ends : Update(ends)
    \/ AppendArchiveBatch \/ AppendArchiveBatchFails
    \/ SettleRefused \/ CreateTurnTopic \/ CreateTurnTopicFails
    \/ PlanNodeAdd
    \/ \E t \in Turns : (\E name \in Names : RenameTopic(t, name)) \/ DeleteTopic(t)
    \/ \E p \in SceneIds, S \in SUBSET SceneIds : MergeScenes(p, S)
    \/ MergeTopics \/ MergeDeleteScenes \/ MergeAnchor
    \/ MergeBatchFails
    \/ \E s \in SceneIds : DeleteScene(s)
    \/ DeletePlanNodes \/ DeleteL2Records \/ DeleteSceneNode
    \/ CascadeFails
    \/ SyncL1Nodes
    \/ NewContext \/ CrashInBatch

Spec == Init /\ [][Next]_vars

(***************************************************************************)
(* Properties.                                                             *)
(***************************************************************************)
\* The records, the mirrors and the context's memory keep their shapes.
TypeOK ==
    /\ DOMAIN scenes \subseteq SceneIds /\ \A s \in DOMAIN scenes : scenes[s] \in SceneSlot
    /\ DOMAIN topics \subseteq Turns /\ \A t \in DOMAIN topics : topics[t] \in TopicSlot
    /\ DOMAIN archives \subseteq Turns \X (1..MaxSeq)
    /\ \A k \in DOMAIN archives : archives[k] \in Kinds
    /\ planned \subseteq Turns /\ nodes \subseteq SceneIds
    /\ scene \in SceneIds \cup {Nil} /\ turn \in Turns \cup {Nil}
    /\ stamp \in Nat /\ clock \in Nat

\* Between two calls reads answer what the records hold, whichever batch was
\* refused and wherever the process died: a scene's read lists its own topics
\* as they are stored (SurfaceTopics) and no topic is missing from every list;
\* the content a topic lists is the content it owns (QueryArchivesL4 through
\* the index); every stored plan is cached.  Two lags are left, each only where
\* the call that caused it was refused: a topic that a merge moved before a
\* later batch of it failed may be listed under its old scene, and a turn whose
\* deletion failed at its last batch keeps its cached tree.
ReadsServeRecords ==
    Ready =>
        /\ \A s \in SceneIds :
              Drop(SurfaceTopics(s), behind) = [t \in TopicIDsByScene(s) \ behind |-> topics[t]]
        /\ UNION {TopicsByScene(s) : s \in SceneIds} = DOMAIN topics
        /\ l4 = archives
        /\ planned \subseteq plans /\ plans \ planned \subseteq cut

\* Between two calls the plan cache has a tree exactly for the turns with a
\* stored plan node (plancache.go:17-18: "a key exists exactly while at least one
\* of its nodes does").  The code refutes it: a deletion whose last batch is
\* refused has deleted the nodes and keeps the tree.
PlanKeysMatchNodes == Ready => plans = planned

\* Between two calls every topic belongs to a scene that exists, so that what an
\* interrupted deletion left can be deleted again (delete.go:19-21: the scene and
\* topic tombstones go last, for "an interrupted pass must not have consumed that
\* tombstone yet").  The code refutes it: scene and topics go in one batch, and
\* a power failure inside it may keep the tombstone of the scene alone.
TopicsHaveTheirScene == Ready => \A t \in DOMAIN topics : topics[t].scene \in DOMAIN scenes

\* The scenes and the turns that contexts were left on.
LeftScenes == {p[1] : p \in stranded}
LeftTurns  == {p[2] : p \in stranded}

\* What the context remembers is alive: the scene the domain resumes without
\* being asked has its record (ForgetScene, MoveScene), or every Search that
\* names no scene would fail; and the open turn is one that scene has counted,
\* so that what the host appends and closes cannot land on another
\* conversation's turn (lockTurn, settleLocked).  A context stays on a scene
\* that is gone only if a merge or a deletion was refused after its batch had
\* deleted that scene's record, before it told the context.
ContextIsLive ==
    Ready =>
        /\ scene # Nil => scene \in DOMAIN scenes \cup LeftScenes
        /\ turn # Nil => scene # Nil /\ (scene \in DOMAIN scenes => SettleTarget(scene, turn))

\* No turn id is ever handed out twice, through failed reads, deletions and
\* restarts: the counter behind it is durable before Search returns.
TurnIdsNeverReused == \A t \in Turns : minted[t] <= 1

\* A turn whose topic was deleted keeps no content and no plan node, at every
\* point of the cascade and after every failure in it (DeleteCascade).  The one
\* turn left out is the turn a context still had open when a merge or a
\* deletion of its scene was refused half-way: what is appended to it later
\* belongs to no topic.
DeletedTopicsOwnNothing ==
    \A t \in gone \ (DOMAIN topics \cup LeftTurns) :
        t \notin planned /\ \A k \in DOMAIN archives : k[1] # t

\* A rebuilt context resumes the existing scene that was used last
\* (CurrentScene over the stamps NextUsedStamp issued).
ResumesLastUsed ==
    Ready /\ DOMAIN scenes # {} =>
        /\ CurrentScene \in DOMAIN scenes
        /\ \A s \in DOMAIN scenes \ {CurrentScene} : <<CurrentScene, s>> \in after
=============================================================================
