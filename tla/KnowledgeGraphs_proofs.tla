----------------------- MODULE KnowledgeGraphs_proofs -----------------------
(***************************************************************************)
(* What the pool of graphs and the anchors guarantee for any number of     *)
(* callers, domains, scenes, labels and titles, any batches, and any       *)
(* number of refused writes, crashes and closes.                           *)
(***************************************************************************)
EXTENDS KnowledgeGraphs, Extrema, FiniteSetTheorems

\* What an import has changed so far, it changed in this call's time: nobody
\* else moves the clock or the content while it holds the pool's lock.
StampInv ==
    \A c \in Callers : Importing(c) => \A g \in call[c].changed : changedAt[g] = now

\* Scenes with an anchor, and scenes that are about to get one, belong to
\* registered domains: a detach that lists the domains finds them.
OwnersRegistered ==
    /\ \A s \in Scenes : anchor[s] # Absent => Owner[s] \in registered
    /\ \A c \in Callers : call[c].op = "anchor" => Owner[call[c].scene] \in registered

\* Where a deleted graph's name may still stand: the detach is on its way to
\* the domain, or the domain is one it could not clean.
Excused(d, g) == DetachAhead(d, g) \/ <<d, g>> \in owed.detach \cup owed.skipped

\* A graph read for an anchor is there, or its deletion will come by.
AnchorCalls ==
    \A c \in Callers : call[c].op = "anchor" =>
        call[c].graph \in Graphs \/ Excused(Owner[call[c].scene], call[c].graph)

PoolInv   == TypeOK /\ LabelsUnique /\ MembersHaveTheirGraph
ClockInv  == StampInv /\ ClockFollowsContent
AnchorInv == OwnersRegistered /\ AnchorCalls /\ AnchorsNameGraphs
IInv      == PoolInv /\ ClockInv /\ AnchorInv
-----------------------------------------------------------------------------
(***************************************************************************)
(* The shape of a call, by its op.                                         *)
(***************************************************************************)
Imports == [op : {"nodes", "relations", "stamp"}, items : Batches, skip : BOOLEAN,
            i : Nat \ {0}, changed : SUBSET Labels]

\* Each op has one shape of call (the call records of lockSharedPool's users).
LEMMA CallShape ==
    ASSUME TypeOK, NEW c \in Callers
    PROVE  /\ Importing(c) => call[c] \in Imports
           /\ call[c].op \in {"delete", "targets"} =>
                 call[c] \in [op : {"delete", "targets"}, graph : Labels]
           /\ call[c].op = "detach" =>
                 call[c] \in [op : {"detach"}, graph : Labels, left : SUBSET Domains]
           /\ call[c].op = "anchor" =>
                 call[c] \in [op : {"anchor"}, scene : Scenes, graph : Labels]
           /\ call[c].op = "idle" => call[c] = Idle
           /\ call[c].op \in {"idle", "nodes", "relations", "stamp", "delete", "targets",
                               "detach", "anchor"}
<1>1. call[c] \in Calls
    BY DEF TypeOK
<1>2. QED
    BY <1>1 DEF Calls, Imports, Importing, Idle

\* The item an import is at is one of its batch.
LEMMA ItemShape ==
    ASSUME TypeOK, NEW c \in Callers, call[c].op \in {"nodes", "relations"}
    PROVE  call[c].items[call[c].i] \in Items
<1>1. call[c] \in Imports
    BY CallShape DEF Importing
<1>2. call[c].items \in Batches /\ call[c].i \in Nat \ {0}
    BY <1>1 DEF Imports
<1>3. call[c].items \in Seq(Items)
    BY <1>2, ConstantsOK
<1>4. call[c].i <= Len(call[c].items)
    BY DEF TypeOK
<1>5. QED
    BY <1>2, <1>3, <1>4

\* A label resolves to a graph that is there, or to the id derived from a
\* label nobody carries (graphFor, preferGraphID).
LEMMA GraphForResolves ==
    ASSUME TypeOK, NEW l \in Labels
    PROVE  /\ GraphFor(l) \in Labels
           /\ GraphFor(l) \notin Graphs => GraphFor(l) = l /\ Named(l) = {}
<1>1. CASE Named(l) = {}
    BY <1>1 DEF GraphFor
<1>2. CASE l \in Named(l)
    BY <1>2 DEF GraphFor, Named, Graphs
<1>3. CASE Named(l) # {} /\ l \notin Named(l)
  <2>1. GraphFor(l) = CHOOSE g \in Named(l) : TRUE
    BY <1>3 DEF GraphFor
  <2>2. GraphFor(l) \in Named(l)
    BY <1>3, <2>1
  <2>3. QED
    BY <2>2 DEF Named, Graphs
<1>4. QED
    BY <1>1, <1>2, <1>3

\* What the next item, or the next pass over the batch, makes of a call.
LEMMA AdvanceShape ==
    ASSUME TypeOK, NEW c \in Callers, call[c].op \in {"nodes", "relations"},
           NEW changed \in SUBSET Labels, NEW next \in {"relations", "stamp"},
           Advance(c, next, changed)
    PROVE  /\ call' \in [Callers -> Calls]
           /\ call'[c] \in Imports /\ call'[c].changed = changed
           /\ call'[c].op \in {"nodes", "relations"} => call'[c].i <= Len(call'[c].items)
           /\ \A k \in Callers : k # c => call'[k] = call[k]
<1> DEFINE b == call[c]
           up == [[b EXCEPT !.i = b.i + 1] EXCEPT !.changed = changed]
           over == [[[b EXCEPT !.i = 1] EXCEPT !.op = next] EXCEPT !.changed = changed]
           n == IF b.i < Len(b.items) THEN up ELSE over
<1>1. b \in Imports /\ b.items \in Seq(Items) /\ b.items # <<>> /\ b.i \in 1 .. Len(b.items)
  <2>1. b \in Imports
    BY CallShape DEF Importing
  <2>2. b.items \in Batches /\ b.i \in Nat \ {0}
    BY <2>1 DEF Imports
  <2>3. b.items \in Seq(Items) /\ b.items # <<>>
    BY <2>2, ConstantsOK
  <2>4. b.i <= Len(b.items)
    BY DEF TypeOK
  <2>5. QED
    BY <2>1, <2>2, <2>3, <2>4
<1>2. n \in Imports /\ n.changed = changed /\ n.items = b.items /\ n.i \in 1 .. Len(b.items)
  <2>1. Len(b.items) \in Nat \ {0}
    BY <1>1
  <2>2. CASE b.i < Len(b.items)
    <3> DEFINE b1 == [b EXCEPT !.i = b.i + 1]
    <3>1. b1 \in Imports /\ b1.items = b.items /\ b1.i = b.i + 1
        BY <1>1 DEF Imports
    <3> HIDE DEF b1
    <3>2. [b1 EXCEPT !.changed = changed] \in Imports
          /\ [b1 EXCEPT !.changed = changed].changed = changed
          /\ [b1 EXCEPT !.changed = changed].items = b1.items
          /\ [b1 EXCEPT !.changed = changed].i = b1.i
        BY <3>1 DEF Imports
    <3> USE DEF b1
    <3>3. n = [b1 EXCEPT !.changed = changed]
        BY <2>2
    <3> HIDE DEF n
    <3>4. QED
        BY <3>1, <3>2, <3>3, <2>1, <2>2, <1>1
  <2>3. CASE ~ (b.i < Len(b.items))
    <3> DEFINE b1 == [b EXCEPT !.i = 1]
               b2 == [b1 EXCEPT !.op = next]
    <3>1. b1 \in Imports /\ b1.items = b.items /\ b1.i = 1
        BY <1>1 DEF Imports
    <3> HIDE DEF b1
    <3>2. b2 \in Imports /\ b2.items = b1.items /\ b2.i = b1.i
        BY <3>1 DEF Imports
    <3> HIDE DEF b2
    <3>3. [b2 EXCEPT !.changed = changed] \in Imports
          /\ [b2 EXCEPT !.changed = changed].changed = changed
          /\ [b2 EXCEPT !.changed = changed].items = b2.items
          /\ [b2 EXCEPT !.changed = changed].i = b2.i
        BY <3>2 DEF Imports
    <3> USE DEF b1, b2
    <3>4. n = [b2 EXCEPT !.changed = changed]
        BY <2>3
    <3> HIDE DEF n, b1, b2
    <3>5. QED
        BY <3>1, <3>2, <3>3, <3>4, <2>1, <2>3, <1>1
  <2>4. QED
    BY <2>2, <2>3
<1>3. call' = [call EXCEPT ![c] = n]
    BY Zenon DEF Advance
<1> HIDE DEF n
<1>4. call \in [Callers -> Calls]
    BY DEF TypeOK
<1>5. n \in Calls
    BY <1>2 DEF Imports, Calls
<1>6. QED
    BY <1>2, <1>3, <1>4, <1>5
-----------------------------------------------------------------------------
(***************************************************************************)
(* TypeOK in two halves: what the calls are, and what the data is.         *)
(***************************************************************************)
CallType ==
    /\ call \in [Callers -> Calls]
    /\ \A c \in Callers : call[c].op \in {"nodes", "relations"} => call[c].i <= Len(call[c].items)
    /\ \A c, k \in Callers : HoldsPool(c) /\ HoldsPool(k) => c = k

Owed == [stamp : SUBSET Labels, node : SUBSET Nodes,
         detach : SUBSET (Domains \X Labels), skipped : SUBSET (Domains \X Labels),
         torn : SUBSET Labels]

DataType ==
    /\ name \in [Labels -> Labels \cup {None}] /\ updatedAt \in [Labels -> 0 .. now]
    /\ nodes \subseteq Nodes /\ edges \subseteq Edges
    /\ anchor \in [Scenes -> Labels \cup {None, Absent}]
    /\ Default \in registered /\ registered \subseteq Domains /\ closed \in BOOLEAN
    /\ now \in 0 .. MaxCalls /\ trouble \in 0 .. MaxTrouble
    /\ changedAt \in [Labels -> 0 .. now]
    /\ owed \in Owed

\* TypeOK is its two halves.
LEMMA TypeHalves == TypeOK <=> CallType /\ DataType
BY DEF TypeOK, CallType, DataType, Owed

\* The same in the next state.
LEMMA TypeHalvesNext == TypeOK' <=> CallType' /\ DataType'
BY DEF TypeOK, CallType, DataType, Owed

\* A caller may take up any call that stays in its batch, an import or a
\* deletion only when it has the pool's lock or the lock is free.
LEMMA NewCall ==
    ASSUME TypeOK, NEW c \in Callers, NEW n \in Calls,
           n.op \in {"nodes", "relations"} => n.i <= Len(n.items),
           n.op \in {"nodes", "relations", "stamp", "delete"} => HoldsPool(c) \/ PoolFree,
           call' = [call EXCEPT ![c] = n]
    PROVE  CallType'
<1>1. call \in [Callers -> Calls]
    BY DEF TypeOK
<1>2. call' \in [Callers -> Calls] /\ call'[c] = n /\ \A k \in Callers : k # c => call'[k] = call[k]
    BY <1>1
<1>3. \A k \in Callers : call'[k].op \in {"nodes", "relations"} => call'[k].i <= Len(call'[k].items)
    BY <1>2 DEF TypeOK
<1>4. \A j, k \in Callers : HoldsPool(j)' /\ HoldsPool(k)' => j = k
    BY <1>2 DEF TypeOK, HoldsPool, PoolFree
<1>5. QED
    BY <1>2, <1>3, <1>4 DEF CallType

\* A call that ends leaves the others as they are.
LEMMA AnswerType ==
    ASSUME TypeOK, NEW c \in Callers, Answer(c)
    PROVE  CallType'
<1>1. Idle \in Calls /\ Idle.op = "idle"
    BY DEF Calls, Idle
<1>2. call' = [call EXCEPT ![c] = Idle]
    BY DEF Answer
<1> HIDE DEF Idle
<1>3. QED
    BY <1>1, <1>2, NewCall

\* The import moves on.
LEMMA AdvanceType ==
    ASSUME TypeOK, NEW c \in Callers, call[c].op \in {"nodes", "relations"},
           NEW changed \in SUBSET Labels, NEW next \in {"relations", "stamp"},
           Advance(c, next, changed)
    PROVE  CallType'
<1>1. /\ call' \in [Callers -> Calls]
      /\ call'[c] \in Imports
      /\ call'[c].op \in {"nodes", "relations"} => call'[c].i <= Len(call'[c].items)
      /\ \A k \in Callers : k # c => call'[k] = call[k]
    BY AdvanceShape
<1>2. \A k \in Callers : call'[k].op \in {"nodes", "relations"} => call'[k].i <= Len(call'[k].items)
    BY <1>1 DEF TypeOK
<1>3. \A j, k \in Callers : HoldsPool(j)' /\ HoldsPool(k)' => j = k
    BY <1>1 DEF TypeOK, HoldsPool
<1>4. QED
    BY <1>1, <1>2, <1>3 DEF CallType

\* One domain behind the detach.
LEMMA VisitedType ==
    ASSUME TypeOK, NEW c \in Callers, call[c].op = "detach", NEW d, Visited(c, d)
    PROVE  CallType'
<1> DEFINE left == call[c].left \ {d}
           n == IF left = {} THEN Idle ELSE [call[c] EXCEPT !.left = left]
<1>1. call[c] \in [op : {"detach"}, graph : Labels, left : SUBSET Domains]
    BY CallShape
<1>2. [call[c] EXCEPT !.left = left] \in [op : {"detach"}, graph : Labels, left : SUBSET Domains]
    BY <1>1
<1>3. n \in Calls /\ n.op \in {"idle", "detach"}
    BY <1>2 DEF Calls, Idle
<1>4. call' = [call EXCEPT ![c] = n]
    BY Zenon DEF Visited
<1> HIDE DEF n
<1>5. QED
    BY <1>3, <1>4, NewCall

\* A trouble is counted below its bound.
LEMMA FailsType ==
    ASSUME trouble \in 0 .. MaxTrouble, NEW what, Fails(what)
    PROVE  trouble' \in 0 .. MaxTrouble
BY ConstantsOK DEF Fails

\* The specification starts in the invariant.
LEMMA InitOK ==
    ASSUME Init
    PROVE  IInv
<1>1. \A c \in Callers : call[c] = Idle /\ call[c].op = "idle"
    BY DEF Init, Idle
<1>2. Graphs = {}
    BY ConstantsOK DEF Init, Graphs
<1>3. CallType
  <2>1. call \in [Callers -> Calls]
    BY DEF Init, Calls
  <2>2. QED
    BY <1>1, <2>1 DEF CallType, HoldsPool
<1>4. DataType
  <2>1. owed \in Owed
    BY DEF Init, Owed
  <2>2. 0 \in 0 .. MaxCalls /\ 0 \in 0 .. MaxTrouble /\ 0 \in 0 .. now
    BY ConstantsOK DEF Init
  <2>3. updatedAt \in [Labels -> 0 .. now] /\ changedAt \in [Labels -> 0 .. now]
    BY <2>2 DEF Init
  <2>4. /\ name \in [Labels -> Labels \cup {None}]
        /\ anchor \in [Scenes -> Labels \cup {None, Absent}]
        /\ registered \subseteq Domains
    BY DEF Init, Domains
  <2>5. QED
    BY <2>1, <2>2, <2>3, <2>4 DEF Init, DataType
<1>5. PoolInv
    BY <1>2, <1>3, <1>4, TypeHalves DEF PoolInv, LabelsUnique, MembersHaveTheirGraph, Init
<1>6. ClockInv
    BY <1>1, <1>2 DEF ClockInv, StampInv, Importing, ClockFollowsContent
<1>7. AnchorInv
  <2>1. \A s \in Scenes : anchor[s] = Absent /\ ~Dangling(s)
    BY ConstantsOK DEF Init, Dangling
  <2>2. QED
    BY <1>1, <2>1 DEF AnchorInv, OwnersRegistered, AnchorCalls, AnchorsNameGraphs
<1>8. QED
    BY <1>5, <1>6, <1>7 DEF IInv
-----------------------------------------------------------------------------
(***************************************************************************)
(* Type correctness: a case per action.                                    *)
(***************************************************************************)
\* Taking the pool's lock moves the clock, within its bound.
LEMMA Tick ==
    ASSUME DataType, NEW c, LockSharedPool(c)
    PROVE  /\ now' = now + 1 /\ now' \in 0 .. MaxCalls /\ now' \in 0 .. now'
           /\ [Labels -> 0 .. now] \subseteq [Labels -> 0 .. now']
           /\ call[c] = Idle /\ PoolFree /\ ~closed
<1>1. now' = now + 1 /\ now \in Nat /\ now' \in 0 .. MaxCalls
    BY ConstantsOK DEF DataType, LockSharedPool
<1>2. \A n \in 0 .. now : n \in 0 .. now'
    BY <1>1
<1>3. ASSUME NEW f \in [Labels -> 0 .. now] PROVE f \in [Labels -> 0 .. now']
    BY <1>2
<1>4. QED
    BY <1>1, <1>3 DEF LockSharedPool

\* The write of a node keeps the types, whether it fails or not.
LEMMA ImportNodeType ==
    ASSUME TypeOK, NEW c \in Callers, ImportNode(c)
    PROVE  TypeOK'
<1> DEFINE item == call[c].items[call[c].i]
           g == GraphFor(item.domain)
           t == item.title
<1>1. call[c].op = "nodes" /\ call[c] \in Imports
    BY CallShape DEF ImportNode, Importing
<1>2. item \in Items
    BY <1>1, ItemShape
<1>3. g \in Labels /\ t \in Titles /\ <<g, t>> \in Nodes
    BY <1>2, GraphForResolves DEF Items, Nodes
<1>4. call[c].changed \in SUBSET Labels /\ call[c].changed \cup {g} \in SUBSET Labels
    BY <1>1, <1>3 DEF Imports
<1>5. DataType
    BY TypeHalves
<1>6. now \in 0 .. now
    BY <1>5, ConstantsOK DEF DataType
<1>7. UNCHANGED <<anchor, registered, closed, now>>
    BY DEF ImportNode
<1>8. \/ EnsureGraphFails(c, g, t) \/ SkipNode(c, g, t)
      \/ StoreNode(c, g, t) \/ StoreNodeFails(c, g, t)
    BY DEF ImportNode
<1> HIDE DEF item, g, t
<1>9. CallType'
  <2>1. \/ Advance(c, "relations", call[c].changed)
        \/ Advance(c, "relations", call[c].changed \cup {g})
    BY <1>8 DEF EnsureGraphFails, SkipNode, StoreNode, StoreNodeFails
  <2>2. QED
    BY <1>1, <1>4, <2>1, AdvanceType
<1>10. owed' \in Owed
  <2>1. owed \in Owed /\ owed.node \in SUBSET Nodes
    BY <1>5 DEF DataType, Owed
  <2>2. \A X \in SUBSET Nodes : [owed EXCEPT !.node = X] \in Owed
    BY <2>1 DEF Owed
  <2>3. owed' = owed \/ \E X \in SUBSET Nodes : owed' = [owed EXCEPT !.node = X]
    BY <2>1, <1>3, <1>8
    DEF EnsureGraphFails, SkipNode, StoreNode, StoreNodeFails, history
  <2>4. QED
    BY <2>1, <2>2, <2>3
<1>11. nodes' \subseteq Nodes /\ edges' \subseteq Edges
    BY <1>3, <1>5, <1>8
    DEF DataType, EnsureGraphFails, SkipNode, StoreNode, StoreNodeFails, pool
<1>12. trouble' \in 0 .. MaxTrouble
    BY <1>5, <1>8, FailsType
    DEF DataType, EnsureGraphFails, SkipNode, StoreNode, StoreNodeFails
<1>13. /\ name' \in [Labels -> Labels \cup {None}]
       /\ updatedAt' \in [Labels -> 0 .. now] /\ changedAt' \in [Labels -> 0 .. now]
  <2>1. CASE UNCHANGED <<name, updatedAt, changedAt>>
    BY <2>1, <1>5 DEF DataType
  <2>2. CASE StoreNode(c, g, t)
    <3>1. /\ name' = [name EXCEPT ![g] = IF g \in Graphs THEN name[g] ELSE g]
          /\ updatedAt' = [updatedAt EXCEPT ![g] = IF g \in Graphs THEN updatedAt[g] ELSE now]
          /\ changedAt' = [changedAt EXCEPT ![g] = now]
        BY <2>2 DEF StoreNode
    <3>2. QED
        BY <3>1, <1>3, <1>5, <1>6 DEF DataType
  <2>3. CASE StoreNodeFails(c, g, t)
    BY <2>3, <1>3, <1>5, <1>6 DEF DataType, StoreNodeFails, EnsureGraphL3
  <2>4. QED
    BY <2>1, <2>2, <2>3, <1>8 DEF EnsureGraphFails, SkipNode, pool, history
<1>14. DataType'
    BY <1>5, <1>7, <1>10, <1>11, <1>12, <1>13 DEF DataType
<1>15. QED
    BY <1>9, <1>14, TypeHalvesNext

\* So does the write of a relation.
LEMMA ImportRelationsType ==
    ASSUME TypeOK, NEW c \in Callers, ImportRelations(c)
    PROVE  TypeOK'
<1> DEFINE item == call[c].items[call[c].i]
           g == GraphFor(item.domain)
           members == RelationMembers(g, item.title, item.related)
           edge == [graph |-> g, members |-> members]
<1>1. call[c].op = "relations" /\ call[c] \in Imports
    BY CallShape DEF ImportRelations, Importing
<1>2. item \in Items
    BY <1>1, ItemShape
<1>3. g \in Labels /\ item.title \in Titles /\ item.related \subseteq Titles
    BY <1>2, GraphForResolves DEF Items
<1>4. edge \in Edges
  <2>1. members \subseteq Titles
    BY <1>3 DEF RelationMembers
  <2>2. QED
    BY <2>1, <1>3 DEF Edges
<1>5. call[c].changed \in SUBSET Labels /\ call[c].changed \cup {g} \in SUBSET Labels
    BY <1>1, <1>3 DEF Imports
<1>6. DataType /\ now \in 0 .. now
    BY TypeHalves, ConstantsOK DEF DataType
<1>7. /\ UNCHANGED <<name, updatedAt, nodes, anchor, registered, closed, now, owed>>
      /\ \/ /\ edges' = edges \cup {edge} /\ changedAt' = [changedAt EXCEPT ![g] = now]
            /\ Advance(c, "stamp", call[c].changed \cup {g}) /\ trouble' = trouble
         \/ /\ Fails("edge") \/ trouble' = trouble
            /\ Advance(c, "stamp", call[c].changed)
            /\ UNCHANGED <<edges, changedAt>>
    BY DEF ImportRelations
<1> HIDE DEF item, g, members, edge
<1>8. CallType'
    BY <1>1, <1>5, <1>7, AdvanceType
<1>9. trouble' \in 0 .. MaxTrouble
    BY <1>6, <1>7, FailsType DEF DataType
<1>10. edges' \subseteq Edges /\ changedAt' \in [Labels -> 0 .. now]
    BY <1>3, <1>4, <1>6, <1>7 DEF DataType
<1>11. DataType'
    BY <1>6, <1>7, <1>9, <1>10 DEF DataType
<1>12. QED
    BY <1>8, <1>11, TypeHalvesNext

\* And the stamps at an import's end.
LEMMA StampChangedType ==
    ASSUME TypeOK, NEW c \in Callers, StampChanged(c)
    PROVE  TypeOK'
<1>1. call[c].op = "stamp" /\ call[c] \in Imports
    BY CallShape DEF StampChanged, Importing
<1>2. call[c].changed \subseteq Labels
    BY <1>1 DEF Imports
<1>3. DataType /\ now \in 0 .. now
    BY TypeHalves, ConstantsOK DEF DataType
<1>4. PICK lost \in SUBSET call[c].changed :
          /\ IF lost = {} THEN UNCHANGED trouble ELSE Fails("stamp")
          /\ updatedAt' = [g \in Labels |->
                 IF g \in call[c].changed \ lost THEN now ELSE updatedAt[g]]
          /\ owed' = [owed EXCEPT !.stamp = (owed.stamp \ call[c].changed) \cup lost]
    BY DEF StampChanged
<1>5. trouble' \in 0 .. MaxTrouble
    BY <1>3, <1>4, FailsType DEF DataType
<1>6. updatedAt' \in [Labels -> 0 .. now]
    BY <1>3, <1>4 DEF DataType
<1>7. owed' \in Owed
    BY <1>2, <1>3, <1>4 DEF DataType, Owed
<1>8. UNCHANGED <<name, nodes, edges, anchor, registered, closed, now, changedAt>> /\ Answer(c)
    BY DEF StampChanged
<1>9. CallType'
    BY <1>8, AnswerType
<1>10. DataType'
    BY <1>3, <1>5, <1>6, <1>7, <1>8 DEF DataType
<1>11. QED
    BY <1>9, <1>10, TypeHalvesNext

\* A deletion takes the pool's lock.
LEMMA DeleteL3Type ==
    ASSUME TypeOK, NEW c \in Callers, NEW g \in Labels, DeleteL3(c, g)
    PROVE  TypeOK'
<1>1. PICK n : n = [op |-> "delete", graph |-> g]
    OBVIOUS
<1>2. n \in Calls /\ n.op = "delete"
    BY <1>1 DEF Calls
<1>3. /\ LockSharedPool(c) /\ call' = [call EXCEPT ![c] = n]
      /\ UNCHANGED <<pool, anchor, registered, closed, trouble, history>>
    BY <1>1 DEF DeleteL3
<1>4. CallType'
    BY <1>2, <1>3, NewCall DEF LockSharedPool
<1>5. DataType
    BY TypeHalves
<1>6. /\ now' \in 0 .. MaxCalls
      /\ updatedAt \in [Labels -> 0 .. now'] /\ changedAt \in [Labels -> 0 .. now']
    BY <1>3, <1>5, Tick DEF DataType
<1>7. DataType'
    BY <1>3, <1>5, <1>6 DEF DataType, pool, history
<1>8. QED
    BY <1>4, <1>7, TypeHalvesNext

\* What the flushed tombstones leave of the debts.
LEMMA DeleteGraphOwed ==
    ASSUME owed \in Owed, NEW c \in Callers, DeleteGraphL3(c)
    PROVE  /\ owed' \in Owed
           /\ owed'.stamp = owed.stamp \ {call[c].graph}
           /\ owed'.node = {n \in owed.node : n[1] # call[c].graph}
           /\ owed'.torn = owed.torn \ {call[c].graph}
           /\ owed'.detach = owed.detach /\ owed'.skipped = owed.skipped
<1>1. PICK S, N, T : /\ S = owed.stamp \ {call[c].graph}
                     /\ N = {n \in owed.node : n[1] # call[c].graph}
                     /\ T = owed.torn \ {call[c].graph}
    OBVIOUS
<1>2. S \in SUBSET Labels /\ N \in SUBSET Nodes /\ T \in SUBSET Labels
    BY <1>1 DEF Owed
<1>3. owed' = [owed EXCEPT !.stamp = S, !.node = N, !.torn = T]
    BY <1>1 DEF DeleteGraphL3
<1>4. QED
    BY <1>1, <1>2, <1>3 DEF Owed

\* A batch of tombstones keeps the types, refused or not.
LEMMA DeleteGraphType ==
    ASSUME TypeOK, NEW c \in Callers, DeleteGraphL3(c) \/ DeleteGraphFails(c)
    PROVE  TypeOK'
<1>1. DataType /\ 0 \in 0 .. now
    BY TypeHalves, ConstantsOK DEF DataType
<1>2. ASSUME DeleteGraphFails(c)
      PROVE  TypeOK'
  <2>1. CallType'
    BY <1>2, AnswerType DEF DeleteGraphFails
  <2>2. trouble' \in 0 .. MaxTrouble
    BY <1>1, <1>2, FailsType DEF DataType, DeleteGraphFails
  <2>3. DataType'
    BY <1>1, <1>2, <2>2 DEF DataType, DeleteGraphFails, pool, history
  <2>4. QED
    BY <2>1, <2>3, TypeHalvesNext
<1>3. ASSUME DeleteGraphL3(c)
      PROVE  TypeOK'
  <2>1. PICK g, n : g = call[c].graph /\ n = [op |-> "targets", graph |-> g]
    OBVIOUS
  <2>2. g \in Labels
    BY <1>3, <2>1, CallShape DEF DeleteGraphL3, Deleting
  <2>3. n \in Calls /\ n.op = "targets"
    BY <2>1, <2>2 DEF Calls
  <2>4. /\ call' = [call EXCEPT ![c] = n] /\ name' = [name EXCEPT ![g] = None]
        /\ updatedAt' = [updatedAt EXCEPT ![g] = 0] /\ changedAt' = [changedAt EXCEPT ![g] = 0]
        /\ nodes' \subseteq nodes /\ edges' \subseteq edges
        /\ UNCHANGED <<anchor, registered, closed, now, trouble>>
    BY <1>3, <2>1 DEF DeleteGraphL3
  <2>5. CallType'
    BY <2>3, <2>4, NewCall
  <2>6. owed' \in Owed
    BY <1>1, <1>3, DeleteGraphOwed DEF DataType
  <2>7. DataType'
    BY <1>1, <2>2, <2>4, <2>6 DEF DataType
  <2>8. QED
    BY <2>5, <2>7, TypeHalvesNext
<1>4. QED
    BY <1>2, <1>3

\* What a power failure makes of the records and of the debts: slots are the
\* graphs whose slot is found deleted, torn those of which a part is left.
CrashLeaves(slots, torn) ==
    /\ name' = [g \in Labels |-> IF g \in slots THEN None ELSE name[g]]
    /\ updatedAt' = [g \in Labels |-> IF g \in slots THEN 0 ELSE updatedAt[g]]
    /\ changedAt' = [g \in Labels |-> IF g \in slots THEN 0 ELSE IF g \in torn THEN now
                                      ELSE changedAt[g]]
    /\ nodes' \subseteq nodes /\ edges' \subseteq edges
    /\ \A n \in nodes' : n[1] \in slots => n[1] \in torn
    /\ \A e \in edges' : e.graph \in slots => e.graph \in torn
    /\ \A n \in nodes \ nodes' : \A e \in edges' : e.graph = n[1] => e.graph \in torn
    /\ owed' \in Owed
    /\ (owed.stamp \cup torn) \ slots \subseteq owed'.stamp
    /\ \A c \in Callers : Importing(c) => call[c].changed \subseteq owed'.stamp
    /\ owed.detach \cup (registered \X slots) \subseteq owed'.detach
    /\ \A d, g : DetachAhead(d, g) => <<d, g>> \in owed'.detach
    /\ owed'.skipped = owed.skipped /\ owed'.node = owed.node
    /\ owed'.torn = owed.torn \cup torn

\* Every crash is such a one.
LEMMA CrashFacts ==
    ASSUME TypeOK, Crash
    PROVE  \E slots, torn \in SUBSET Labels : CrashLeaves(slots, torn)
<1>0. DataType
    BY TypeHalves
<1>1. PICK doomed : doomed = Doomed
    OBVIOUS
<1>2. PICK S : S = StampsAhead
    OBVIOUS
<1>3. PICK D : D = VisitsAhead
    OBVIOUS
<1>4. PICK slots \in SUBSET Doomed, lostNodes \in SUBSET {n \in nodes : n[1] \in Doomed},
           lostEdges \in SUBSET {e \in edges : e.graph \in Doomed} :
           LET torn == Torn(slots, lostNodes, lostEdges) IN
           /\ name' = [g \in Labels |-> IF g \in slots THEN None ELSE name[g]]
           /\ updatedAt' = [g \in Labels |-> IF g \in slots THEN 0 ELSE updatedAt[g]]
           /\ nodes' = nodes \ lostNodes /\ edges' = edges \ lostEdges
           /\ changedAt' = [g \in Labels |-> IF g \in slots THEN 0 ELSE IF g \in torn THEN now
                                             ELSE changedAt[g]]
           /\ owed' = [owed EXCEPT
                  !.stamp = ((@ \cup torn) \ slots) \cup StampsAhead,
                  !.detach = @ \cup (registered \X slots) \cup VisitsAhead,
                  !.torn = @ \cup torn]
    BY DEF Crash
<1>5. PICK torn : torn = Torn(slots, lostNodes, lostEdges)
    OBVIOUS
<1>6. /\ name' = [g \in Labels |-> IF g \in slots THEN None ELSE name[g]]
      /\ updatedAt' = [g \in Labels |-> IF g \in slots THEN 0 ELSE updatedAt[g]]
      /\ nodes' = nodes \ lostNodes /\ edges' = edges \ lostEdges
      /\ changedAt' = [g \in Labels |-> IF g \in slots THEN 0 ELSE IF g \in torn THEN now
                                        ELSE changedAt[g]]
      /\ owed' = [owed EXCEPT !.stamp = ((owed.stamp \cup torn) \ slots) \cup S,
                              !.detach = owed.detach \cup (registered \X slots) \cup D,
                              !.torn = owed.torn \cup torn]
  <2>1. owed \in Owed
    BY <1>0 DEF DataType
  <2>2. QED
    BY <1>2, <1>3, <1>4, <1>5, <2>1 DEF Owed
<1>7. doomed \subseteq Labels
  <2>1. ASSUME NEW c \in Callers, Deleting(c) PROVE call[c].graph \in Labels
    BY <2>1, CallShape DEF Deleting
  <2>2. QED
    BY <1>1, <2>1 DEF Doomed
<1>8. torn = {g \in doomed :
                 /\ g \in slots \/ NodesOf(g) \cap lostNodes # {} \/ EdgesOf(g) \cap lostEdges # {}
                 /\ g \notin slots \/ NodesOf(g) \ lostNodes # {} \/ EdgesOf(g) \ lostEdges # {}}
    BY <1>1, <1>5 DEF Torn
<1>9. slots \in SUBSET Labels /\ torn \in SUBSET Labels
    BY <1>1, <1>7, <1>8
<1>10. S \in SUBSET Labels /\ \A c \in Callers : Importing(c) => call[c].changed \subseteq S
  <2>1. ASSUME NEW c \in Callers, Importing(c) PROVE call[c].changed \subseteq Labels
    BY <2>1, CallShape DEF Imports
  <2>2. QED
    BY <1>2, <2>1 DEF StampsAhead
<1>11. D \in SUBSET (Domains \X Labels)
  <2>1. ASSUME NEW c \in Callers, Left(c) # {}
        PROVE  Left(c) \subseteq Domains /\ call[c].graph \in Labels
    <3>1. CASE call[c].op = "targets"
        BY <3>1, <1>0, CallShape DEF Left, DataType
    <3>2. CASE call[c].op = "detach"
        BY <3>2, CallShape DEF Left
    <3>3. QED
        BY <2>1, <3>1, <3>2 DEF Left
  <2>2. QED
    BY <1>3, <2>1 DEF VisitsAhead
<1>12. \A d, g : DetachAhead(d, g) => <<d, g>> \in D
    BY <1>3 DEF DetachAhead, VisitsAhead
<1>13. PICK st, de, to : /\ st = ((owed.stamp \cup torn) \ slots) \cup S
                         /\ de = owed.detach \cup (registered \X slots) \cup D
                         /\ to = owed.torn \cup torn
    OBVIOUS
<1>14. st \in SUBSET Labels /\ de \in SUBSET (Domains \X Labels) /\ to \in SUBSET Labels
  <2>1. owed \in Owed /\ registered \subseteq Domains
    BY <1>0 DEF DataType
  <2>2. owed.stamp \subseteq Labels /\ owed.detach \subseteq Domains \X Labels /\ owed.torn \subseteq Labels
    BY <2>1 DEF Owed
  <2>3. registered \X slots \subseteq Domains \X Labels
    BY <2>1, <1>9
  <2>4. QED
    BY <1>9, <1>10, <1>11, <1>13, <2>2, <2>3
<1>15. owed' = [owed EXCEPT !.stamp = st, !.detach = de, !.torn = to] /\ owed \in Owed
    BY <1>0, <1>6, <1>13 DEF DataType
<1>16. /\ owed' \in Owed /\ owed'.stamp = st /\ owed'.detach = de /\ owed'.torn = to
       /\ owed'.skipped = owed.skipped /\ owed'.node = owed.node
    BY <1>14, <1>15 DEF Owed
<1>17. nodes' \subseteq nodes /\ edges' \subseteq edges
    BY <1>6
<1>18. \A n \in nodes' : n[1] \in slots => n[1] \in torn
    BY <1>1, <1>6, <1>8 DEF NodesOf
<1>19. \A e \in edges' : e.graph \in slots => e.graph \in torn
    BY <1>1, <1>6, <1>8 DEF EdgesOf
<1>20. ASSUME NEW n \in nodes \ nodes', NEW e \in edges', e.graph = n[1]
       PROVE  e.graph \in torn
  <2>1. n \in lostNodes /\ n[1] \in doomed /\ e \in edges \ lostEdges
    BY <1>1, <1>6
  <2>2. n \in NodesOf(n[1]) \cap lostNodes /\ e \in EdgesOf(n[1]) \ lostEdges
    BY <1>20, <2>1 DEF NodesOf, EdgesOf
  <2>3. QED
    BY <1>8, <1>20, <2>1, <2>2
<1>21. CrashLeaves(slots, torn)
  <2>1. /\ (owed.stamp \cup torn) \ slots \subseteq owed'.stamp
        /\ \A c \in Callers : Importing(c) => call[c].changed \subseteq owed'.stamp
    BY <1>10, <1>13, <1>16
  <2>2. /\ owed.detach \cup (registered \X slots) \subseteq owed'.detach
        /\ \A d, g : DetachAhead(d, g) => <<d, g>> \in owed'.detach
    BY <1>12, <1>13, <1>16
  <2>3. QED
    BY <1>6, <1>13, <1>16, <1>17, <1>18, <1>19, <1>20, <2>1, <2>2 DEF CrashLeaves
<1>22. QED
    BY <1>9, <1>21

\* A crash ends every call and books what the calls leave undone.
LEMMA CrashType ==
    ASSUME TypeOK, Crash
    PROVE  TypeOK'
<1>1. DataType /\ 0 \in 0 .. now /\ now \in 0 .. now
    BY TypeHalves, ConstantsOK DEF DataType
<1>2. trouble' \in 0 .. MaxTrouble /\ closed' = FALSE /\ UNCHANGED <<anchor, registered, now>>
    BY <1>1, FailsType DEF DataType, Crash
<1>3. CallType'
  <2>1. call' \in [Callers -> Calls] /\ \A c \in Callers : call'[c].op = "idle"
    BY DEF Crash, Calls, Idle
  <2>2. QED
    BY <2>1 DEF CallType, HoldsPool
<1>4. PICK slots, torn \in SUBSET Labels : CrashLeaves(slots, torn)
    BY CrashFacts
<1>5. updatedAt' \in [Labels -> 0 .. now] /\ changedAt' \in [Labels -> 0 .. now]
    BY <1>1, <1>4 DEF CrashLeaves, DataType
<1>6. /\ name' \in [Labels -> Labels \cup {None}] /\ owed' \in Owed
      /\ nodes' \subseteq nodes /\ edges' \subseteq edges
    BY <1>1, <1>4 DEF CrashLeaves, DataType
<1>7. DataType'
    BY <1>1, <1>2, <1>5, <1>6 DEF DataType
<1>8. QED
    BY <1>3, <1>7, TypeHalvesNext

\* Every step keeps the types.
LEMMA TypeStep ==
    ASSUME TypeOK, [Next]_vars
    PROVE  TypeOK'
<1> USE TypeHalves, TypeHalvesNext
<1>1. ASSUME NEW c \in Callers, NEW items \in Batches, NEW skip \in BOOLEAN, ImportL3(c, items, skip)
      PROVE  TypeOK'
  <2> DEFINE n == [op |-> "nodes", items |-> items, skip |-> skip, i |-> 1, changed |-> {}]
  <2>1. LockSharedPool(c) /\ call' = [call EXCEPT ![c] = n]
        /\ UNCHANGED <<pool, anchor, registered, closed, trouble, history>>
    BY <1>1 DEF ImportL3
  <2>2. n \in Calls /\ n.i <= Len(n.items)
    <3>1. items \in Seq(Items) /\ items # <<>>
        BY ConstantsOK
    <3>2. Len(items) >= 1
        BY <3>1
    <3>3. QED
        BY <3>2 DEF Calls
  <2> HIDE DEF n
  <2>3. CallType'
    BY <2>1, <2>2, NewCall DEF LockSharedPool
  <2>4. DataType'
    <3>1. /\ now' \in 0 .. MaxCalls
          /\ updatedAt \in [Labels -> 0 .. now'] /\ changedAt \in [Labels -> 0 .. now']
        BY <2>1, Tick DEF DataType
    <3>2. QED
        BY <2>1, <3>1 DEF DataType, pool, history
  <2>5. QED
    BY <2>3, <2>4
<1>2. ASSUME NEW c \in Callers, NEW g \in Labels, NEW l \in Labels, UpdateL3(c, g, l)
      PROVE  TypeOK'
  <2>1. /\ LockSharedPool(c) /\ name' = [name EXCEPT ![g] = l]
        /\ updatedAt' = [updatedAt EXCEPT ![g] = now'] /\ changedAt' = [changedAt EXCEPT ![g] = now']
        /\ owed' = [owed EXCEPT !.stamp = owed.stamp \ {g}]
        /\ UNCHANGED <<nodes, edges, anchor, registered, closed, call, trouble>>
    BY <1>2 DEF UpdateL3
  <2>2. /\ now' \in 0 .. MaxCalls /\ now' \in 0 .. now'
        /\ updatedAt \in [Labels -> 0 .. now'] /\ changedAt \in [Labels -> 0 .. now']
    BY <2>1, Tick DEF DataType
  <2>3. updatedAt' \in [Labels -> 0 .. now'] /\ changedAt' \in [Labels -> 0 .. now']
    BY <2>1, <2>2
  <2>4. owed' \in Owed
    BY <2>1 DEF DataType, Owed
  <2>5. DataType'
    BY <2>1, <2>2, <2>3, <2>4 DEF DataType
  <2>6. QED
    BY <2>1, <2>5 DEF CallType, HoldsPool
<1>3. ASSUME NEW c \in Callers, DetachTargets(c)
      PROVE  TypeOK'
  <2> DEFINE n == [op |-> "detach", graph |-> call[c].graph, left |-> registered]
  <2>1. call[c].graph \in Labels
    BY <1>3, CallShape DEF DetachTargets
  <2>2. n \in Calls /\ n.op = "detach"
    BY <2>1 DEF DataType, Calls
  <2>3. call' = [call EXCEPT ![c] = n]
        /\ UNCHANGED <<pool, anchor, registered, closed, now, trouble, history>>
    BY <1>3 DEF DetachTargets
  <2> HIDE DEF n
  <2>4. CallType'
    BY <2>2, <2>3, NewCall
  <2>5. QED
    BY <2>3, <2>4 DEF DataType, pool, history
<1>4. ASSUME NEW c \in Callers, NEW d \in Domains, DetachGraph(c, d)
      PROVE  TypeOK'
  <2> DEFINE g == call[c].graph
  <2>1. call[c].op = "detach" /\ g \in Labels
    BY <1>4, CallShape DEF DetachGraph
  <2>2. PICK lost \in SUBSET AnchoredOn(d, g) :
            /\ IF lost = {} THEN UNCHANGED trouble ELSE Fails("detach")
            /\ anchor' = [s \in Scenes |-> IF s \in AnchoredOn(d, g) \ lost THEN None ELSE anchor[s]]
            /\ owed' = [owed EXCEPT !.detach = owed.detach \cup {<<d, g>> : s \in lost}]
    BY <1>4 DEF DetachGraph
  <2>3. CallType'
    BY <1>4, <2>1, VisitedType DEF DetachGraph
  <2>4. trouble' \in 0 .. MaxTrouble
    BY <2>2, FailsType DEF DataType
  <2>5. anchor' \in [Scenes -> Labels \cup {None, Absent}]
    BY <2>2 DEF DataType
  <2>6. owed' \in Owed
    BY <2>1, <2>2 DEF DataType, Owed
  <2>7. DataType'
    BY <1>4, <2>4, <2>5, <2>6 DEF DataType, DetachGraph, pool
  <2>8. QED
    BY <2>3, <2>7
<1>5. ASSUME NEW c \in Callers, NEW d \in Domains, DetachSkips(c, d)
      PROVE  TypeOK'
  <2>1. call[c].op = "detach" /\ call[c].graph \in Labels
    BY <1>5, CallShape DEF DetachSkips
  <2>2. CallType'
    BY <1>5, <2>1, VisitedType DEF DetachSkips
  <2>3. owed' \in Owed
    BY <1>5, <2>1 DEF DataType, Owed, DetachSkips
  <2>4. DataType'
    BY <1>5, <2>3 DEF DataType, DetachSkips, pool
  <2>5. QED
    BY <2>2, <2>4
<1>6. ASSUME NEW c \in Callers, NEW s \in Scenes, NEW g \in Labels, NEW force, ReadAnchor(c, s, g, force)
      PROVE  TypeOK'
  <2> DEFINE n == [op |-> "anchor", scene |-> s, graph |-> g]
  <2>1. n \in Calls /\ n.op = "anchor"
    BY DEF Calls
  <2>2. call' = [call EXCEPT ![c] = n]
        /\ UNCHANGED <<pool, anchor, registered, closed, now, trouble, history>>
    BY <1>6 DEF ReadAnchor
  <2> HIDE DEF n
  <2>3. CallType'
    BY <2>1, <2>2, NewCall
  <2>4. QED
    BY <2>2, <2>3 DEF DataType, pool, history
<1>7. ASSUME NEW c \in Callers, WriteAnchor(c)
      PROVE  TypeOK'
  <2>1. call[c].graph \in Labels
    BY <1>7, CallShape DEF WriteAnchor
  <2>2. CallType'
    BY <1>7, AnswerType DEF WriteAnchor
  <2>3. DataType'
    BY <1>7, <2>1 DEF DataType, WriteAnchor, pool, history
  <2>4. QED
    BY <2>2, <2>3
<1>8. ASSUME NEW c \in Callers, NEW s \in Scenes, ClearAnchor(c, s) \/ DeleteScene(c, s)
      PROVE  TypeOK'
  <2>1. DataType'
    BY <1>8 DEF DataType, ClearAnchor, DeleteScene, pool, history
  <2>2. QED
    BY <1>8, <2>1 DEF ClearAnchor, DeleteScene, CallType, HoldsPool
<1>9. ASSUME NEW c \in Callers, NEW s \in Scenes, NEW others \in SUBSET Scenes, MergeScenes(c, s, others)
      PROVE  TypeOK'
  <2>1. MergedAnchor(s, others) \subseteq Labels \cup {None, Absent}
    BY DEF MergedAnchor, DataType
  <2>2. PICK g \in MergedAnchor(s, others) :
            anchor' = [o \in Scenes |-> IF o \in others THEN Absent ELSE IF o = s THEN g ELSE anchor[o]]
    BY <1>9 DEF MergeScenes
  <2>3. anchor' \in [Scenes -> Labels \cup {None, Absent}]
    BY <2>1, <2>2 DEF DataType
  <2>4. DataType'
    BY <1>9, <2>3 DEF DataType, MergeScenes, pool, history
  <2>5. QED
    BY <1>9, <2>4 DEF MergeScenes, CallType, HoldsPool
<1>10. ASSUME NEW d \in Domains, EnsureRegistered(d)
       PROVE  TypeOK'
    BY <1>10 DEF EnsureRegistered, CallType, HoldsPool, DataType, pool, history
<1>11. ASSUME Close \/ Open
       PROVE  TypeOK'
  <2>1. trouble' \in 0 .. MaxTrouble
    BY <1>11, FailsType DEF Close, Open, DataType
  <2>2. QED
    BY <1>11, <2>1 DEF Close, Open, CallType, HoldsPool, DataType, pool, history
<1>12. CASE UNCHANGED vars
    BY <1>12 DEF vars, pool, history, CallType, HoldsPool, DataType
<1>13. QED
    BY <1>1, <1>2, <1>3, <1>4, <1>5, <1>6, <1>7, <1>8, <1>9, <1>10, <1>11, <1>12,
       ImportNodeType, ImportRelationsType, StampChangedType, DeleteL3Type, DeleteGraphType,
       CrashType
    DEF Next
-----------------------------------------------------------------------------
(***************************************************************************)
(* The pool: labels stay unique and members stay with their graph.         *)
(***************************************************************************)
\* A slot made for a label nobody carries (EnsureGraphL3).
LEMMA SlotCreated ==
    ASSUME TypeOK, LabelsUnique, NEW g \in Labels, Named(g) = {},
           name' = [name EXCEPT ![g] = g], g \notin Graphs
    PROVE  Graphs' = Graphs \cup {g} /\ LabelsUnique'
<1>1. name \in [Labels -> Labels \cup {None}] /\ g # None
    BY ConstantsOK DEF TypeOK
<1>2. Graphs' = Graphs \cup {g}
    BY <1>1 DEF Graphs
<1>3. \A h \in Graphs : name'[h] = name[h] /\ name[h] # g /\ h # g
    BY <1>1 DEF Graphs, Named
<1>4. name'[g] = g
    BY <1>1
<1>5. QED
    BY <1>2, <1>3, <1>4 DEF LabelsUnique

\* The pool's invariants look at the slots, the nodes and the edges, and at
\* the deletions that power cut in two.
LEMMA PoolFrame ==
    ASSUME LabelsUnique, MembersHaveTheirGraph, UNCHANGED <<name, nodes, edges>>,
           owed'.torn = owed.torn
    PROVE  LabelsUnique' /\ MembersHaveTheirGraph'
BY DEF LabelsUnique, MembersHaveTheirGraph, Graphs

\* What the debts keep of cut deletions over a step of the pool.
LEMMA TornStays ==
    ASSUME owed \in Owed, NEW c \in Callers,
           \/ \E items \in Batches, skip \in BOOLEAN : ImportL3(c, items, skip)
           \/ ImportNode(c) \/ ImportRelations(c) \/ StampChanged(c)
           \/ \E g, l \in Labels : UpdateL3(c, g, l)
           \/ \E g \in Labels : DeleteL3(c, g)
           \/ \E d \in Domains : DetachGraph(c, d) \/ DetachSkips(c, d)
    PROVE  owed'.torn = owed.torn
<1>1. CASE owed' = owed
    BY <1>1
<1>2. ASSUME NEW X, \/ owed' = [owed EXCEPT !.stamp = X] \/ owed' = [owed EXCEPT !.node = X]
                    \/ owed' = [owed EXCEPT !.detach = X] \/ owed' = [owed EXCEPT !.skipped = X]
      PROVE  owed'.torn = owed.torn
    BY <1>2 DEF Owed
<1>3. CASE ImportNode(c)
    BY <1>1, <1>2, <1>3
    DEF ImportNode, EnsureGraphFails, SkipNode, StoreNode, StoreNodeFails, history
<1>4. CASE StampChanged(c)
    BY <1>2, <1>4 DEF StampChanged
<1>5. CASE \E g, l \in Labels : UpdateL3(c, g, l)
    BY <1>2, <1>5 DEF UpdateL3
<1>6. CASE \E d \in Domains : DetachGraph(c, d) \/ DetachSkips(c, d)
    BY <1>2, <1>6 DEF DetachGraph, DetachSkips
<1>7. QED
    BY <1>1, <1>3, <1>4, <1>5, <1>6 DEF ImportL3, ImportRelations, DeleteL3, history

\* Every step keeps the pool's invariants.
LEMMA PoolStep ==
    ASSUME PoolInv, [Next]_vars
    PROVE  LabelsUnique' /\ MembersHaveTheirGraph'
<1>0. /\ TypeOK /\ LabelsUnique /\ MembersHaveTheirGraph /\ owed \in Owed
      /\ name \in [Labels -> Labels \cup {None}] /\ edges \subseteq Edges
    BY DEF PoolInv, TypeOK, Owed
<1>1. ASSUME NEW c \in Callers, ImportNode(c)
      PROVE  LabelsUnique' /\ MembersHaveTheirGraph'
  <2> DEFINE l == call[c].items[call[c].i].domain
             g == GraphFor(l)
             t == call[c].items[call[c].i].title
  <2>1. call[c].items[call[c].i] \in Items
    BY <1>0, <1>1, ItemShape DEF ImportNode
  <2>2. l \in Labels
    BY <2>1 DEF Items
  <2>3. g \in Labels /\ (g \notin Graphs => g = l /\ Named(g) = {})
    BY <2>2, <1>0, GraphForResolves
  <2>4. \/ EnsureGraphFails(c, g, t) \/ SkipNode(c, g, t)
        \/ StoreNode(c, g, t) \/ StoreNodeFails(c, g, t)
    BY <1>1 DEF ImportNode
  <2> HIDE DEF g, t, l
  <2>0. owed'.torn = owed.torn
    BY <1>0, <1>1, TornStays
  <2>5. CASE UNCHANGED <<name, nodes, edges>>
    BY <2>0, <2>5, <1>0, PoolFrame
  <2>6. CASE /\ edges' = edges /\ nodes' \subseteq nodes \cup {<<g, t>>}
             /\ name' = [name EXCEPT ![g] = IF g \in Graphs THEN name[g] ELSE g]
    <3>1. CASE g \in Graphs
      <4>1. name' = name
        BY <3>1, <2>6, <2>3, <1>0
      <4>2. Graphs' = Graphs
        BY <4>1 DEF Graphs
      <4>3. QED
        BY <3>1, <4>1, <4>2, <2>0, <2>6, <1>0 DEF LabelsUnique, MembersHaveTheirGraph
    <3>2. CASE g \notin Graphs
      <4>1. Graphs' = Graphs \cup {g} /\ LabelsUnique'
        BY <3>2, <2>3, <2>6, <1>0, SlotCreated
      <4>2. QED
        BY <4>1, <2>0, <2>6, <1>0 DEF MembersHaveTheirGraph
    <3>3. QED
        BY <3>1, <3>2
  <2>7. CASE StoreNode(c, g, t)
    <3>1. /\ nodes' = nodes \cup {<<g, t>>} /\ edges' = edges
          /\ name' = [name EXCEPT ![g] = IF g \in Graphs THEN name[g] ELSE g]
        BY <2>7 DEF StoreNode
    <3>2. QED
        BY <3>1, <2>6
  <2>8. CASE StoreNodeFails(c, g, t)
    <3>1. nodes' = nodes /\ edges' = edges /\ EnsureGraphL3(g)
        BY <2>8 DEF StoreNodeFails
    <3>2. CASE g \in Graphs
        BY <3>1, <3>2, <2>5 DEF EnsureGraphL3
    <3>3. CASE g \notin Graphs
        BY <3>1, <3>3, <2>6 DEF EnsureGraphL3
    <3>4. QED
        BY <3>2, <3>3
  <2>9. QED
    BY <2>4, <2>5, <2>7, <2>8 DEF EnsureGraphFails, SkipNode, pool
<1>2. ASSUME NEW c \in Callers, ImportRelations(c)
      PROVE  LabelsUnique' /\ MembersHaveTheirGraph'
  <2> DEFINE g == GraphFor(call[c].items[call[c].i].domain)
  <2>1. /\ UNCHANGED <<name, nodes, owed>>
        /\ \/ edges' = edges
           \/ /\ g \in Graphs
              /\ \E m : edges' = edges \cup {[graph |-> g, members |-> m]}
    BY <1>2 DEF ImportRelations
  <2> HIDE DEF g
  <2>2. Graphs' = Graphs
    BY <2>1 DEF Graphs
  <2>3. \A e \in edges' : e.graph \in Graphs \cup owed.torn
    BY <2>1, <1>0 DEF MembersHaveTheirGraph
  <2>4. QED
    BY <2>1, <2>2, <2>3, <1>0 DEF LabelsUnique, MembersHaveTheirGraph
<1>3. ASSUME NEW c \in Callers, NEW g \in Labels, NEW l \in Labels, UpdateL3(c, g, l)
      PROVE  LabelsUnique' /\ MembersHaveTheirGraph'
  <2>1. /\ g \in Graphs /\ Named(l) = {} /\ name' = [name EXCEPT ![g] = l]
        /\ UNCHANGED <<nodes, edges>>
    BY <1>3 DEF UpdateL3, CheckRename
  <2>2. Graphs' = Graphs
    BY <2>1, <1>0, ConstantsOK DEF Graphs
  <2>3. name'[g] = l /\ \A h \in Graphs : name[h] # l /\ (h # g => name'[h] = name[h])
    BY <2>1, <1>0 DEF Named, Graphs
  <2>4. owed'.torn = owed.torn
    BY <1>0, <1>3, TornStays
  <2>5. QED
    BY <2>1, <2>2, <2>3, <2>4, <1>0 DEF LabelsUnique, MembersHaveTheirGraph
<1>4. ASSUME NEW c \in Callers, DeleteGraphL3(c)
      PROVE  LabelsUnique' /\ MembersHaveTheirGraph'
  <2>1. PICK g : g = call[c].graph
    OBVIOUS
  <2>2. /\ name' = [name EXCEPT ![g] = None] /\ nodes' = {n \in nodes : n[1] # g}
        /\ edges' = {e \in edges : e.graph # g} /\ g \in Labels
    BY <1>0, <1>4, <2>1, CallShape DEF DeleteGraphL3, Deleting, NodesOf, EdgesOf
  <2>3. owed'.torn = owed.torn \ {g}
    BY <1>0, <1>4, <2>1, DeleteGraphOwed
  <2>4. Graphs' = Graphs \ {g} /\ \A h \in Graphs \ {g} : name'[h] = name[h]
    BY <2>2, <1>0 DEF Graphs
  <2>5. QED
    BY <2>2, <2>3, <2>4, <1>0 DEF LabelsUnique, MembersHaveTheirGraph
<1>5. ASSUME Crash
      PROVE  LabelsUnique' /\ MembersHaveTheirGraph'
  <2>1. PICK slots, torn \in SUBSET Labels : CrashLeaves(slots, torn)
    BY <1>0, <1>5, CrashFacts
  <2>2. /\ name' = [g \in Labels |-> IF g \in slots THEN None ELSE name[g]]
        /\ nodes' \subseteq nodes /\ edges' \subseteq edges /\ owed'.torn = owed.torn \cup torn
        /\ \A n \in nodes' : n[1] \in slots => n[1] \in torn
        /\ \A e \in edges' : e.graph \in slots => e.graph \in torn
    BY <2>1 DEF CrashLeaves
  <2>3. Graphs' = Graphs \ slots /\ \A h \in Graphs \ slots : name'[h] = name[h]
    BY <2>2 DEF Graphs
  <2>4. LabelsUnique'
    BY <1>0, <2>3 DEF LabelsUnique
  <2>5. MembersHaveTheirGraph'
    BY <1>0, <2>2, <2>3 DEF MembersHaveTheirGraph
  <2>6. QED
    BY <2>4, <2>5
<1>6. CASE UNCHANGED <<name, nodes, edges>> /\ owed'.torn = owed.torn
    BY <1>0, <1>6, PoolFrame
<1>7. CASE UNCHANGED <<name, nodes, edges, owed>>
    BY <1>6, <1>7
<1>8. ASSUME NEW c \in Callers,
             \/ StampChanged(c)
             \/ \E d \in Domains : DetachGraph(c, d) \/ DetachSkips(c, d)
      PROVE  LabelsUnique' /\ MembersHaveTheirGraph'
  <2>1. owed'.torn = owed.torn
    BY <1>0, <1>8, TornStays
  <2>2. QED
    BY <1>6, <1>8, <2>1 DEF StampChanged, DetachGraph, DetachSkips, pool
<1>9. QED
    BY <1>1, <1>2, <1>3, <1>4, <1>5, <1>7, <1>8
    DEF Next, vars, pool, history, ImportL3, DeleteL3, DeleteGraphFails, DetachTargets,
        ReadAnchor, WriteAnchor, ClearAnchor, DeleteScene, MergeScenes, EnsureRegistered,
        Close, Open
-----------------------------------------------------------------------------
(***************************************************************************)
(* The clock of a graph's content.                                         *)
(***************************************************************************)
\* Calls that are no import, before and after, leave the importer alone.
LEMMA QuietCall ==
    ASSUME TypeOK, NEW c \in Callers, ~Importing(c), NEW n,
           n.op \notin {"nodes", "relations", "stamp"}, call' = [call EXCEPT ![c] = n]
    PROVE  \A k \in Callers : /\ Importing(k)' <=> Importing(k)
                              /\ Importing(k) => call'[k] = call[k]
<1>1. call'[c] = n /\ \A k \in Callers : k # c => call'[k] = call[k]
    BY DEF TypeOK
<1>2. QED
    BY <1>1 DEF Importing

\* One domain behind the detach, as far as the call goes.
LEMMA VisitedShape ==
    ASSUME TypeOK, NEW c \in Callers, call[c].op = "detach", NEW d, Visited(c, d)
    PROVE  /\ call'[c] = Idle \/ /\ call'[c].op = "detach" /\ call'[c].graph = call[c].graph
                                 /\ call'[c].left = call[c].left \ {d}
           /\ call'[c] = Idle => call[c].left \subseteq {d}
           /\ \A k \in Callers : k # c => call'[k] = call[k]
<1> DEFINE left == call[c].left \ {d}
           n == IF left = {} THEN Idle ELSE [call[c] EXCEPT !.left = left]
<1>1. call[c] \in [op : {"detach"}, graph : Labels, left : SUBSET Domains]
    BY CallShape
<1> DEFINE b == [call[c] EXCEPT !.left = left]
<1>2. b.op = "detach" /\ b.graph = call[c].graph /\ b.left = left
    BY <1>1
<1>3. call' = [call EXCEPT ![c] = n] /\ call \in [Callers -> Calls]
    BY Zenon DEF Visited, TypeOK
<1> HIDE DEF b
<1>4. (n = Idle /\ left = {}) \/ (n = b /\ left # {})
    BY Zenon DEF b
<1> HIDE DEF n
<1>5. call'[c] = n /\ \A k \in Callers : k # c => call'[k] = call[k]
    BY <1>3
<1>6. Idle.op = "idle"
    BY DEF Idle
<1> HIDE DEF Idle
<1>7. QED
    BY <1>2, <1>4, <1>5, <1>6

\* A step that leaves the clocks and the importer alone.
LEMMA ClockFrame ==
    ASSUME TypeOK, ClockInv, UNCHANGED <<name, updatedAt, changedAt, now>>,
           owed.stamp \subseteq owed'.stamp,
           \A k \in Callers : /\ Importing(k)' <=> Importing(k)
                              /\ Importing(k) => call'[k] = call[k]
    PROVE  ClockInv'
<1>1. StampInv'
    BY DEF ClockInv, StampInv
<1>2. Graphs' = Graphs
    BY DEF Graphs
<1>3. ASSUME NEW g \in Graphs
      PROVE  \/ updatedAt'[g] = changedAt'[g]
             \/ g \in owed'.stamp
             \/ \E c \in Callers : Importing(c)' /\ g \in call'[c].changed
    BY DEF ClockInv, ClockFollowsContent, Importing
<1>4. ClockFollowsContent'
    BY <1>2, <1>3 DEF ClockFollowsContent, Importing
<1>5. QED
    BY <1>1, <1>4 DEF ClockInv

\* A step of the import that books the graphs it changes.
LEMMA ClockImport ==
    ASSUME TypeOK, ClockInv, NEW c \in Callers, Importing(c),
           NEW changed \in SUBSET Labels, NEW h \in Labels,
           call'[c] \in Imports, call'[c].changed = changed,
           \A k \in Callers : k # c => call'[k] = call[k],
           now' = now, owed'.stamp = owed.stamp, call[c].changed \subseteq changed,
           changed \subseteq call[c].changed \cup {h},
           h \in changed \ call[c].changed => changedAt'[h] = now,
           changedAt' # changedAt => changedAt' = [changedAt EXCEPT ![h] = now],
           h \in Graphs' =>
               \/ h \in changed
               \/ updatedAt'[h] = changedAt'[h]
               \/ h \in Graphs /\ updatedAt'[h] = updatedAt[h] /\ changedAt'[h] = changedAt[h],
           \A g \in Labels \ {h} : name'[g] = name[g] /\ updatedAt'[g] = updatedAt[g]
    PROVE  ClockInv'
<1>1. Importing(c)' /\ \A k \in Callers : Importing(k) \/ Importing(k)' => k = c
    BY DEF TypeOK, Importing, HoldsPool, Imports
<1>2. changedAt \in [Labels -> 0 .. now] /\ call[c].changed \subseteq Labels
    BY CallShape DEF TypeOK, Imports
<1>3. \A g \in Labels : changedAt'[g] = IF changedAt' # changedAt /\ g = h THEN now ELSE changedAt[g]
    BY <1>2
<1>4. StampInv'
    BY <1>1, <1>2, <1>3 DEF ClockInv, StampInv
<1>5. ASSUME NEW g \in Graphs'
      PROVE  \/ updatedAt'[g] = changedAt'[g]
             \/ g \in owed'.stamp
             \/ g \in changed
  <2>1. g \in Labels
    BY DEF Graphs
  <2>2. ASSUME g \in Graphs
        PROVE  updatedAt[g] = changedAt[g] \/ g \in owed.stamp \/ g \in call[c].changed
    BY <2>2, <1>1 DEF ClockInv, ClockFollowsContent, Importing
  <2>3. CASE g = h
    BY <2>2, <2>3
  <2>4. CASE g # h
    <3>1. g \in Graphs
        BY <2>1, <2>4 DEF Graphs
    <3>2. QED
        BY <3>1, <2>1, <2>2, <2>4, <1>3
  <2>5. QED
    BY <2>3, <2>4
<1>6. ClockFollowsContent'
    BY <1>1, <1>5 DEF ClockFollowsContent, Importing
<1>7. QED
    BY <1>4, <1>6 DEF ClockInv

\* The node passes of an import keep the clock.
LEMMA ImportNodeClock ==
    ASSUME TypeOK, ClockInv, NEW c \in Callers, ImportNode(c)
    PROVE  ClockInv'
<1> DEFINE item == call[c].items[call[c].i]
           g == GraphFor(item.domain)
           t == item.title
<1>1. call[c].op = "nodes" /\ Importing(c) /\ call[c] \in Imports
    BY CallShape DEF ImportNode, Importing
<1>2. g \in Labels
    BY <1>1, ItemShape, GraphForResolves DEF Items
<1>3. call[c].changed \in SUBSET Labels /\ call[c].changed \cup {g} \in SUBSET Labels
    BY <1>1, <1>2 DEF Imports
<1>4. /\ name \in [Labels -> Labels \cup {None}] /\ owed \in Owed
      /\ updatedAt \in [Labels -> 0 .. now] /\ changedAt \in [Labels -> 0 .. now]
    BY TypeHalves DEF DataType
<1>5. /\ now' = now
      /\ \/ EnsureGraphFails(c, g, t) \/ SkipNode(c, g, t)
         \/ StoreNode(c, g, t) \/ StoreNodeFails(c, g, t)
    BY DEF ImportNode
<1> HIDE DEF item, g, t
<1>6. owed'.stamp = owed.stamp
    BY <1>4, <1>5 DEF Owed, EnsureGraphFails, SkipNode, StoreNode, StoreNodeFails, history
<1>7. CASE StoreNode(c, g, t)
  <2>1. /\ name' = [name EXCEPT ![g] = IF g \in Graphs THEN name[g] ELSE g]
        /\ updatedAt' = [updatedAt EXCEPT ![g] = IF g \in Graphs THEN updatedAt[g] ELSE now]
        /\ changedAt' = [changedAt EXCEPT ![g] = now]
        /\ Advance(c, "relations", call[c].changed \cup {g})
    BY <1>7 DEF StoreNode
  <2>2. /\ call'[c] \in Imports /\ call'[c].changed = call[c].changed \cup {g}
        /\ \A k \in Callers : k # c => call'[k] = call[k]
    BY <2>1, <1>1, <1>3, AdvanceShape
  <2>3. /\ changedAt'[g] = now
        /\ \A h \in Labels \ {g} : name'[h] = name[h] /\ updatedAt'[h] = updatedAt[h]
    BY <2>1, <1>2, <1>4
  <2>4. QED
    BY <1>1, <1>2, <1>3, <1>5, <1>6, <2>1, <2>2, <2>3, ClockImport
<1>8. CASE EnsureGraphFails(c, g, t) \/ SkipNode(c, g, t) \/ StoreNodeFails(c, g, t)
  <2>1. Advance(c, "relations", call[c].changed)
    BY <1>8 DEF EnsureGraphFails, SkipNode, StoreNodeFails
  <2>2. /\ call'[c] \in Imports /\ call'[c].changed = call[c].changed
        /\ \A k \in Callers : k # c => call'[k] = call[k]
    BY <2>1, <1>1, <1>3, AdvanceShape
  <2>3. \/ UNCHANGED <<name, updatedAt, changedAt>>
        \/ /\ name' = [name EXCEPT ![g] = g] /\ updatedAt' = [updatedAt EXCEPT ![g] = now]
           /\ changedAt' = [changedAt EXCEPT ![g] = now]
    BY <1>8 DEF EnsureGraphFails, SkipNode, StoreNodeFails, EnsureGraphL3, pool, history
  <2>4. /\ changedAt' # changedAt => changedAt' = [changedAt EXCEPT ![g] = now]
        /\ \A h \in Labels \ {g} : name'[h] = name[h] /\ updatedAt'[h] = updatedAt[h]
        /\ g \in Graphs' =>
               \/ updatedAt'[g] = changedAt'[g]
               \/ g \in Graphs /\ updatedAt'[g] = updatedAt[g] /\ changedAt'[g] = changedAt[g]
    BY <2>3, <1>2, <1>4 DEF Graphs
  <2>5. QED
    BY <1>1, <1>2, <1>3, <1>5, <1>6, <2>2, <2>4, ClockImport
<1>9. QED
    BY <1>5, <1>7, <1>8

\* So does the pass over the relations.
LEMMA ImportRelationsClock ==
    ASSUME TypeOK, ClockInv, NEW c \in Callers, ImportRelations(c)
    PROVE  ClockInv'
<1> DEFINE g == GraphFor(call[c].items[call[c].i].domain)
<1>1. call[c].op = "relations" /\ Importing(c) /\ call[c] \in Imports
    BY CallShape DEF ImportRelations, Importing
<1>2. g \in Labels
    BY <1>1, ItemShape, GraphForResolves DEF Items
<1>3. call[c].changed \in SUBSET Labels /\ call[c].changed \cup {g} \in SUBSET Labels
    BY <1>1, <1>2 DEF Imports
<1>4. /\ UNCHANGED <<name, updatedAt, now, owed>>
      /\ \/ /\ changedAt' = [changedAt EXCEPT ![g] = now]
            /\ Advance(c, "stamp", call[c].changed \cup {g})
         \/ /\ changedAt' = changedAt
            /\ Advance(c, "stamp", call[c].changed)
    BY DEF ImportRelations
<1>5. changedAt \in [Labels -> 0 .. now]
    BY DEF TypeOK
<1> HIDE DEF g
<1>6. CASE /\ changedAt' = [changedAt EXCEPT ![g] = now]
           /\ Advance(c, "stamp", call[c].changed \cup {g})
  <2>1. /\ call'[c] \in Imports /\ call'[c].changed = call[c].changed \cup {g}
        /\ \A k \in Callers : k # c => call'[k] = call[k]
    BY <1>6, <1>1, <1>3, AdvanceShape
  <2>2. changedAt'[g] = now
    BY <1>6, <1>2, <1>5
  <2>3. QED
    BY <1>1, <1>2, <1>3, <1>4, <1>6, <2>1, <2>2, ClockImport
<1>7. CASE changedAt' = changedAt /\ Advance(c, "stamp", call[c].changed)
  <2>1. /\ call'[c] \in Imports /\ call'[c].changed = call[c].changed
        /\ \A k \in Callers : k # c => call'[k] = call[k]
    BY <1>7, <1>1, <1>3, AdvanceShape
  <2>2. Graphs' = Graphs
    BY <1>4 DEF Graphs
  <2>3. QED
    BY <1>1, <1>2, <1>3, <1>4, <1>7, <2>1, <2>2, ClockImport
<1>8. QED
    BY <1>4, <1>6, <1>7

\* The stamps settle what the import changed, or are owed.
LEMMA StampChangedClock ==
    ASSUME TypeOK, ClockInv, NEW c \in Callers, StampChanged(c)
    PROVE  ClockInv'
<1>1. Importing(c) /\ \A k \in Callers : Importing(k) => k = c
    BY DEF StampChanged, Importing, HoldsPool, TypeOK
<1>2. PICK lost \in SUBSET call[c].changed :
          /\ updatedAt' = [g \in Labels |->
                 IF g \in call[c].changed \ lost THEN now ELSE updatedAt[g]]
          /\ owed' = [owed EXCEPT !.stamp = (owed.stamp \ call[c].changed) \cup lost]
    BY DEF StampChanged
<1>3. UNCHANGED <<name, now, changedAt>> /\ call' = [call EXCEPT ![c] = Idle]
    BY DEF StampChanged, Answer
<1>4. owed'.stamp = (owed.stamp \ call[c].changed) \cup lost
  <2>1. owed \in Owed
    BY TypeHalves DEF DataType
  <2>2. QED
    BY <2>1, <1>2 DEF Owed
<1>5. \A k \in Callers : ~Importing(k)'
    BY <1>1, <1>3 DEF Importing, Idle, TypeOK
<1>6. StampInv'
    BY <1>5 DEF StampInv
<1>7. ASSUME NEW g \in Graphs'
      PROVE  updatedAt'[g] = changedAt'[g] \/ g \in owed'.stamp
  <2>1. g \in Graphs /\ g \in Labels
    BY <1>3 DEF Graphs
  <2>2. updatedAt[g] = changedAt[g] \/ g \in owed.stamp \/ g \in call[c].changed
    BY <2>1, <1>1 DEF ClockInv, ClockFollowsContent, Importing
  <2>3. g \in call[c].changed => changedAt[g] = now
    BY <1>1 DEF ClockInv, StampInv
  <2>4. QED
    BY <1>2, <1>3, <1>4, <2>1, <2>2, <2>3
<1>8. ClockFollowsContent'
    BY <1>7 DEF ClockFollowsContent
<1>9. QED
    BY <1>6, <1>8 DEF ClockInv

\* Every step keeps the clock.
LEMMA ClockStep ==
    ASSUME TypeOK, ClockInv, [Next]_vars
    PROVE  ClockInv'
<1>0. /\ owed \in Owed /\ call \in [Callers -> Calls] /\ name \in [Labels -> Labels \cup {None}]
      /\ updatedAt \in [Labels -> 0 .. now] /\ changedAt \in [Labels -> 0 .. now]
      /\ Idle.op = "idle"
    BY TypeHalves DEF DataType, CallType, Idle
<1>1. ASSUME NEW c \in Callers, NEW items \in Batches, NEW skip \in BOOLEAN, ImportL3(c, items, skip)
      PROVE  ClockInv'
  <2> DEFINE n == [op |-> "nodes", items |-> items, skip |-> skip, i |-> 1, changed |-> {}]
  <2>1. /\ \A k \in Callers : ~Importing(k)
        /\ call' = [call EXCEPT ![c] = n]
        /\ UNCHANGED <<name, updatedAt, changedAt, owed>>
    BY <1>1 DEF ImportL3, LockSharedPool, PoolFree, HoldsPool, Importing, pool, history
  <2>2. n.changed = {}
    OBVIOUS
  <2> HIDE DEF n
  <2>3. \A k \in Callers : Importing(k)' => call'[k].changed = {}
    BY <2>1, <2>2, <1>0 DEF Importing
  <2>4. StampInv'
    BY <2>3 DEF StampInv
  <2>5. ClockFollowsContent'
    BY <2>1 DEF ClockInv, ClockFollowsContent, Importing, Graphs
  <2>6. QED
    BY <2>4, <2>5 DEF ClockInv
<1>2. ASSUME NEW c \in Callers, NEW g \in Labels,
             \/ DeleteGraphL3(c) /\ call[c].graph = g
             \/ \E l \in Labels : UpdateL3(c, g, l)
      PROVE  ClockInv'
  <2>1. \A k \in Callers : ~Importing(k)
    <3>1. CASE \E l \in Labels : UpdateL3(c, g, l)
        BY <3>1 DEF UpdateL3, LockSharedPool, PoolFree, HoldsPool, Importing
    <3>2. CASE DeleteGraphL3(c)
        BY <3>2 DEF DeleteGraphL3, Deleting, HoldsPool, Importing, TypeOK
    <3>3. QED
        BY <1>2, <3>1, <3>2
  <2>2. \A k \in Callers : ~Importing(k)'
    BY <1>2, <2>1, <1>0 DEF DeleteGraphL3, UpdateL3, Importing
  <2>3. StampInv'
    BY <2>2 DEF StampInv
  <2>4. owed'.stamp = owed.stamp \ {g}
    BY <1>0, <1>2, DeleteGraphOwed DEF UpdateL3, Owed
  <2>5. \A h \in Labels \ {g} : /\ name'[h] = name[h] /\ updatedAt'[h] = updatedAt[h]
                                 /\ changedAt'[h] = changedAt[h]
    BY <1>0, <1>2 DEF DeleteGraphL3, UpdateL3
  <2>6. g \in Graphs' => updatedAt'[g] = changedAt'[g]
    BY <1>0, <1>2 DEF DeleteGraphL3, UpdateL3, Graphs
  <2>7. ASSUME NEW h \in Graphs' PROVE updatedAt'[h] = changedAt'[h] \/ h \in owed'.stamp
    <3>1. CASE h # g
      <4>1. h \in Labels /\ h \in Graphs
        BY <2>5, <3>1 DEF Graphs
      <4>2. updatedAt[h] = changedAt[h] \/ h \in owed.stamp
        BY <4>1, <2>1 DEF ClockInv, ClockFollowsContent, Importing
      <4>3. QED
        BY <4>1, <4>2, <2>4, <2>5, <3>1
    <3>2. QED
        BY <3>1, <2>6
  <2>8. ClockFollowsContent'
    BY <2>7 DEF ClockFollowsContent
  <2>9. QED
    BY <2>3, <2>8 DEF ClockInv
<1>3. ASSUME NEW c \in Callers, ~Importing(c), NEW n,
             n.op \notin {"nodes", "relations", "stamp"}, call' = [call EXCEPT ![c] = n],
             UNCHANGED <<pool, changedAt, now>>, owed'.stamp = owed.stamp
      PROVE  ClockInv'
    BY <1>3, QuietCall, ClockFrame DEF pool
<1>4. ASSUME NEW c \in Callers, DetachTargets(c)
      PROVE  ClockInv'
  <2> DEFINE n == [op |-> "detach", graph |-> call[c].graph, left |-> registered]
  <2>1. n.op = "detach" /\ call' = [call EXCEPT ![c] = n]
        /\ UNCHANGED <<pool, now, changedAt, owed>> /\ ~Importing(c)
    BY <1>4 DEF DetachTargets, Importing, history
  <2> HIDE DEF n
  <2>2. QED
    BY <2>1, <1>3
<1>5. ASSUME NEW c \in Callers, NEW d \in Domains, DetachGraph(c, d) \/ DetachSkips(c, d)
      PROVE  ClockInv'
  <2>1. call[c].op = "detach" /\ Visited(c, d) /\ UNCHANGED <<pool, changedAt, now>>
    BY <1>5 DEF DetachGraph, DetachSkips
  <2>2. owed'.stamp = owed.stamp
    BY <1>0, <1>5 DEF DetachGraph, DetachSkips, Owed
  <2>3. \A k \in Callers : /\ Importing(k)' <=> Importing(k)
                           /\ Importing(k) => call'[k] = call[k]
    BY <2>1, <1>0, VisitedShape DEF Importing
  <2>4. QED
    BY <2>1, <2>2, <2>3, ClockFrame DEF pool
<1>6. ASSUME NEW c \in Callers, NEW s \in Scenes, NEW g \in Labels, NEW force, ReadAnchor(c, s, g, force)
      PROVE  ClockInv'
  <2> DEFINE n == [op |-> "anchor", scene |-> s, graph |-> g]
  <2>1. n.op = "anchor" /\ call' = [call EXCEPT ![c] = n]
        /\ UNCHANGED <<pool, now, changedAt, owed>> /\ ~Importing(c)
    BY <1>6, <1>0 DEF ReadAnchor, LockAgent, Importing, history
  <2> HIDE DEF n
  <2>2. QED
    BY <2>1, <1>3
<1>7. ASSUME NEW c \in Callers, WriteAnchor(c)
      PROVE  ClockInv'
  <2>1. call' = [call EXCEPT ![c] = Idle] /\ UNCHANGED <<pool, now, changedAt, owed>> /\ ~Importing(c)
    BY <1>7 DEF WriteAnchor, Answer, Importing, history
  <2> HIDE DEF Idle
  <2>2. QED
    BY <2>1, <1>0, <1>3
<1>8. ASSUME Crash
      PROVE  ClockInv'
  <2>1. \A k \in Callers : ~Importing(k)'
    BY <1>8, <1>0 DEF Crash, Importing
  <2>2. PICK slots, torn \in SUBSET Labels : CrashLeaves(slots, torn)
    BY <1>8, CrashFacts
  <2>3. StampInv'
    BY <2>1 DEF StampInv
  <2>4. ASSUME NEW g \in Graphs' PROVE updatedAt'[g] = changedAt'[g] \/ g \in owed'.stamp
    <3>1. g \in Labels /\ g \notin slots /\ g \in Graphs
        BY <2>2 DEF CrashLeaves, Graphs
    <3>2. CASE g \in torn
        BY <2>2, <3>1, <3>2 DEF CrashLeaves
    <3>3. CASE g \notin torn
      <4>1. updatedAt'[g] = updatedAt[g] /\ changedAt'[g] = changedAt[g]
        BY <2>2, <3>1, <3>3 DEF CrashLeaves
      <4>2. \/ updatedAt[g] = changedAt[g] \/ g \in owed.stamp
            \/ \E c \in Callers : Importing(c) /\ g \in call[c].changed
        BY <3>1 DEF ClockInv, ClockFollowsContent
      <4>3. QED
        BY <2>2, <3>1, <4>1, <4>2 DEF CrashLeaves
    <3>4. QED
        BY <3>2, <3>3
  <2>5. ClockFollowsContent'
    BY <2>4 DEF ClockFollowsContent
  <2>6. QED
    BY <2>3, <2>5 DEF ClockInv
<1>9. CASE UNCHANGED <<pool, call, now, history>>
    BY <1>9, ClockFrame DEF pool, history, Importing
<1>10. ASSUME NEW c \in Callers, NEW g \in Labels, DeleteL3(c, g)
       PROVE  ClockInv'
  <2>1. PICK n : n = [op |-> "delete", graph |-> g]
    OBVIOUS
  <2>2. /\ \A k \in Callers : ~Importing(k)
        /\ n.op = "delete" /\ call' = [call EXCEPT ![c] = n]
        /\ UNCHANGED <<name, updatedAt, changedAt, owed>>
    BY <1>10, <2>1 DEF DeleteL3, LockSharedPool, PoolFree, HoldsPool, Importing, pool, history
  <2>3. \A k \in Callers : ~Importing(k)'
    BY <1>0, <2>2 DEF Importing
  <2>4. StampInv'
    BY <2>3 DEF StampInv
  <2>5. ClockFollowsContent'
    BY <2>2 DEF ClockInv, ClockFollowsContent, Graphs
  <2>6. QED
    BY <2>4, <2>5 DEF ClockInv
<1>11. ASSUME NEW c \in Callers, DeleteGraphL3(c)
       PROVE  ClockInv'
  <2>1. call[c].graph \in Labels
    BY <1>11, CallShape DEF DeleteGraphL3, Deleting
  <2>2. QED
    BY <1>2, <1>11, <2>1
<1>12. ASSUME NEW c \in Callers, DeleteGraphFails(c)
       PROVE  ClockInv'
  <2>1. call' = [call EXCEPT ![c] = Idle] /\ UNCHANGED <<pool, now, changedAt, owed>> /\ ~Importing(c)
    BY <1>12 DEF DeleteGraphFails, Deleting, Answer, Importing, history
  <2> HIDE DEF Idle
  <2>2. QED
    BY <2>1, <1>0, <1>3
<1>13. QED
    BY <1>1, <1>2, <1>4, <1>5, <1>6, <1>7, <1>8, <1>9, <1>10, <1>11, <1>12,
       ImportNodeClock, ImportRelationsClock, StampChangedClock
    DEF Next, vars, ClearAnchor, DeleteScene, MergeScenes, EnsureRegistered, Close, Open
-----------------------------------------------------------------------------
(***************************************************************************)
(* Anchors on graphs that are gone.                                        *)
(***************************************************************************)
\* A step that leaves anchors alone, takes no graph away and withdraws no
\* excuse.
LEMMA AnchorFrame ==
    ASSUME AnchorInv, anchor' = anchor, registered \subseteq registered',
           Graphs \subseteq Graphs',
           \A d, g : Excused(d, g) => Excused(d, g)',
           \A k \in Callers : call'[k].op = "anchor" => call'[k] = call[k]
    PROVE  AnchorInv'
<1>1. OwnersRegistered'
    BY DEF AnchorInv, OwnersRegistered
<1>2. AnchorCalls'
    BY DEF AnchorInv, AnchorCalls
<1>3. \A s \in Scenes : Dangling(s) => Excused(Owner[s], anchor[s])
    BY DEF AnchorInv, AnchorsNameGraphs, Excused
<1>4. \A s \in Scenes : (Dangling(s) => Excused(Owner[s], anchor[s]))'
    BY <1>3 DEF Dangling
<1>5. AnchorsNameGraphs'
    BY <1>4 DEF AnchorsNameGraphs, Excused
<1>6. QED
    BY <1>1, <1>2, <1>5 DEF AnchorInv

\* What the calls of a deletion excuse.
LEMMA ExcusedFrame ==
    ASSUME registered \subseteq registered',
           owed.detach \cup owed.skipped \subseteq owed'.detach \cup owed'.skipped,
           \A k \in Callers : call[k].op \in {"targets", "detach"} => call'[k] = call[k]
    PROVE  \A d, g : Excused(d, g) => Excused(d, g)'
<1>1. ASSUME NEW d, NEW g, NEW k \in Callers, d \in Left(k), call[k].graph = g
      PROVE  d \in Left(k)' /\ call'[k].graph = g
    BY <1>1 DEF Left
<1>2. QED
    BY <1>1 DEF Excused, DetachAhead

\* The three parts again, for a step that moves anchors.
LEMMA AnchorParts ==
    ASSUME AnchorInv
    PROVE  /\ \A s \in Scenes : anchor[s] # Absent => Owner[s] \in registered
           /\ \A c \in Callers : call[c].op = "anchor" => Owner[call[c].scene] \in registered
           /\ \A c \in Callers : call[c].op = "anchor" =>
                  call[c].graph \in Graphs \/ Excused(Owner[call[c].scene], call[c].graph)
           /\ \A s \in Scenes : anchor[s] \in Labels =>
                  anchor[s] \in Graphs \/ Excused(Owner[s], anchor[s])
BY DEF AnchorInv, OwnersRegistered, AnchorCalls, AnchorsNameGraphs, Dangling, Excused

\* The converse, in the next state.
LEMMA AnchorPartsNext ==
    ASSUME (\A s \in Scenes : anchor[s] # Absent => Owner[s] \in registered)',
           (\A c \in Callers : call[c].op = "anchor" => Owner[call[c].scene] \in registered)',
           (\A c \in Callers : call[c].op = "anchor" =>
                  call[c].graph \in Graphs \/ Excused(Owner[call[c].scene], call[c].graph))',
           (\A s \in Scenes : anchor[s] \in Labels =>
                  anchor[s] \in Graphs \/ Excused(Owner[s], anchor[s]))'
    PROVE  AnchorInv'
BY DEF AnchorInv, OwnersRegistered, AnchorCalls, AnchorsNameGraphs, Dangling, Excused

\* A step on the pool by an import or a rename: no graph goes, no anchor
\* moves, and the deletions under way stay where they are.
LEMMA ImportAnchors ==
    ASSUME TypeOK, AnchorInv, NEW c \in Callers,
           \/ \E items \in Batches, skip \in BOOLEAN : ImportL3(c, items, skip)
           \/ ImportNode(c) \/ ImportRelations(c) \/ StampChanged(c)
           \/ \E g, l \in Labels : UpdateL3(c, g, l)
    PROVE  AnchorInv'
<1>0. /\ owed \in Owed /\ call \in [Callers -> Calls] /\ name \in [Labels -> Labels \cup {None}]
      /\ Idle.op = "idle"
    BY TypeHalves DEF DataType, CallType, Idle
<1>1. anchor' = anchor /\ registered' = registered
    BY DEF ImportL3, ImportNode, ImportRelations, StampChanged, UpdateL3
<1>2. owed'.detach = owed.detach /\ owed'.skipped = owed.skipped
    BY <1>0 DEF ImportL3, ImportNode, EnsureGraphFails, SkipNode, StoreNode, StoreNodeFails,
                ImportRelations, StampChanged, UpdateL3, history, Owed
<1>3. /\ call[c].op \notin {"targets", "detach"}
      /\ \A k \in Callers : k # c => call'[k] = call[k]
      /\ call'[c].op # "anchor" \/ call' = call
  <2>1. CASE \E items \in Batches, skip \in BOOLEAN : ImportL3(c, items, skip)
    BY <2>1, <1>0 DEF ImportL3, LockSharedPool
  <2>2. ASSUME call[c].op \in {"nodes", "relations"}, NEW next \in {"relations", "stamp"},
               NEW changed \in SUBSET Labels, Advance(c, next, changed)
        PROVE  /\ call[c].op \notin {"targets", "detach"}
               /\ \A k \in Callers : k # c => call'[k] = call[k]
               /\ call'[c].op # "anchor"
    BY <2>2, AdvanceShape DEF Imports
  <2>3. ASSUME call[c].op \in {"nodes", "relations"}, NEW g \in Labels
        PROVE  call[c].changed \in SUBSET Labels /\ call[c].changed \cup {g} \in SUBSET Labels
    BY <2>3, CallShape DEF Importing, Imports
  <2>4. CASE ImportNode(c)
    <3> DEFINE g == GraphFor(call[c].items[call[c].i].domain)
    <3>1. call[c].op = "nodes" /\ g \in Labels
        BY <2>4, ItemShape, GraphForResolves DEF ImportNode, Items
    <3>2. \/ Advance(c, "relations", call[c].changed)
          \/ Advance(c, "relations", call[c].changed \cup {g})
        BY <2>4 DEF ImportNode, EnsureGraphFails, SkipNode, StoreNode, StoreNodeFails
    <3> HIDE DEF g
    <3>3. QED
        BY <3>1, <3>2, <2>2, <2>3
  <2>5. CASE ImportRelations(c)
    <3> DEFINE g == GraphFor(call[c].items[call[c].i].domain)
    <3>1. call[c].op = "relations" /\ g \in Labels
        BY <2>5, ItemShape, GraphForResolves DEF ImportRelations, Items
    <3>2. \/ Advance(c, "stamp", call[c].changed)
          \/ Advance(c, "stamp", call[c].changed \cup {g})
        BY <2>5 DEF ImportRelations
    <3> HIDE DEF g
    <3>3. QED
        BY <3>1, <3>2, <2>2, <2>3
  <2>6. CASE StampChanged(c)
    BY <2>6, <1>0 DEF StampChanged, Answer
  <2>7. CASE \E g, l \in Labels : UpdateL3(c, g, l)
    BY <2>7, <1>0 DEF UpdateL3, LockSharedPool
  <2>8. QED
    BY <2>1, <2>4, <2>5, <2>6, <2>7
<1>4. Graphs \subseteq Graphs'
  <2>1. CASE ImportNode(c)
    <3> DEFINE g == GraphFor(call[c].items[call[c].i].domain)
    <3>1. g \in Labels
        BY <2>1, ItemShape, GraphForResolves DEF ImportNode, Items
    <3>2. \/ name' = name \/ name' = [name EXCEPT ![g] = g]
          \/ name' = [name EXCEPT ![g] = IF g \in Graphs THEN name[g] ELSE g]
        BY <2>1 DEF ImportNode, EnsureGraphFails, SkipNode, StoreNode, StoreNodeFails, EnsureGraphL3, pool
    <3> HIDE DEF g
    <3>3. QED
        BY <3>1, <3>2, <1>0, ConstantsOK DEF Graphs
  <2>2. CASE \E g, l \in Labels : UpdateL3(c, g, l)
    BY <2>2, <1>0, ConstantsOK DEF UpdateL3, Graphs
  <2>3. CASE name' = name
    BY <2>3 DEF Graphs
  <2>4. QED
    BY <2>1, <2>2, <2>3 DEF ImportL3, ImportRelations, StampChanged, pool
<1>5. \A d, g : Excused(d, g) => Excused(d, g)'
    BY <1>1, <1>2, <1>3, ExcusedFrame
<1>6. QED
    BY <1>1, <1>3, <1>4, <1>5, AnchorFrame

\* A deletion that takes the lock, or whose batch is refused, excuses and
\* withdraws nothing.
LEMMA DeleteL3Anchors ==
    ASSUME TypeOK, AnchorInv, NEW c \in Callers,
           DeleteGraphFails(c) \/ \E g \in Labels : DeleteL3(c, g)
    PROVE  AnchorInv'
<1>1. call \in [Callers -> Calls] /\ Idle.op = "idle"
    BY DEF TypeOK, Idle
<1>2. /\ UNCHANGED <<name, anchor, registered, owed>>
      /\ call[c].op \notin {"targets", "detach"}
      /\ \E n : n.op # "anchor" /\ call' = [call EXCEPT ![c] = n]
  <2>1. CASE DeleteGraphFails(c)
    BY <1>1, <2>1 DEF DeleteGraphFails, Deleting, Answer, pool, history
  <2>2. ASSUME NEW g \in Labels, DeleteL3(c, g)
        PROVE  /\ UNCHANGED <<name, anchor, registered, owed>>
               /\ call[c].op \notin {"targets", "detach"}
               /\ \E n : n.op # "anchor" /\ call' = [call EXCEPT ![c] = n]
    <3>1. PICK n : n = [op |-> "delete", graph |-> g]
        OBVIOUS
    <3>2. n.op = "delete" /\ call' = [call EXCEPT ![c] = n] /\ call[c] = Idle
        BY <2>2, <3>1 DEF DeleteL3, LockSharedPool
    <3>3. QED
        BY <1>1, <2>2, <3>2 DEF DeleteL3, pool, history
  <2>3. QED
    BY <2>1, <2>2
<1>3. PICK n : n.op # "anchor" /\ call' = [call EXCEPT ![c] = n]
    BY <1>2
<1>4. call'[c] = n /\ \A k \in Callers : k # c => call'[k] = call[k]
    BY <1>1, <1>3
<1>5. \A d, g : Excused(d, g) => Excused(d, g)'
    BY <1>2, <1>4, ExcusedFrame
<1>6. Graphs' = Graphs
    BY <1>2 DEF Graphs
<1>7. QED
    BY <1>2, <1>3, <1>4, <1>5, <1>6, AnchorFrame

\* A deletion that went through excuses the anchors it leaves: its detach
\* visits every domain that has a scene.
LEMMA DeleteGraphAnchors ==
    ASSUME TypeOK, AnchorInv, NEW c \in Callers, DeleteGraphL3(c)
    PROVE  AnchorInv'
<1>1. /\ owed \in Owed /\ call \in [Callers -> Calls] /\ name \in [Labels -> Labels \cup {None}]
    BY TypeHalves DEF DataType, CallType
<1>2. PICK g, n : g = call[c].graph /\ n = [op |-> "targets", graph |-> g]
    OBVIOUS
<1>3. /\ call[c].op = "delete" /\ call' = [call EXCEPT ![c] = n] /\ n.op = "targets" /\ n.graph = g
      /\ UNCHANGED <<anchor, registered>> /\ name' = [name EXCEPT ![g] = None]
    BY <1>2 DEF DeleteGraphL3, Deleting
<1>4. owed'.detach = owed.detach /\ owed'.skipped = owed.skipped
    BY <1>1, DeleteGraphOwed
<1>5. call'[c] = n /\ \A k \in Callers : k # c => call'[k] = call[k]
    BY <1>1, <1>3
<1>6. \A d, h : Excused(d, h) => Excused(d, h)'
    BY <1>3, <1>4, <1>5, ExcusedFrame
<1>7. \A d \in registered : Excused(d, g)'
  <2>1. Left(c)' = registered /\ call'[c].graph = g
    BY <1>3, <1>5 DEF Left
  <2>2. QED
    BY <2>1 DEF Excused, DetachAhead
<1>8. \A h \in Graphs : h \in Graphs' \/ h = g
    BY <1>1, <1>3 DEF Graphs
<1>9. (\A s \in Scenes : anchor[s] \in Labels =>
           anchor[s] \in Graphs \/ Excused(Owner[s], anchor[s]))'
    BY <1>3, <1>6, <1>7, <1>8, AnchorParts, ConstantsOK
<1>10. (\A k \in Callers : call[k].op = "anchor" =>
           call[k].graph \in Graphs \/ Excused(Owner[call[k].scene], call[k].graph))'
    BY <1>3, <1>5, <1>6, <1>7, <1>8, AnchorParts
<1>11. QED
    BY <1>3, <1>5, <1>9, <1>10, AnchorParts, AnchorPartsNext

\* The detach takes back only its own excuse, and only for the domain it has
\* just been to.
LEMMA VisitedExcuses ==
    ASSUME TypeOK, NEW c \in Callers, call[c].op = "detach", NEW d, Visited(c, d),
           registered' = registered,
           owed.detach \cup owed.skipped \subseteq owed'.detach \cup owed'.skipped
    PROVE  \A e, h : Excused(e, h) => Excused(e, h)' \/ (e = d /\ h = call[c].graph)
<1>1. /\ call'[c] = Idle \/ (/\ call'[c].op = "detach" /\ call'[c].graph = call[c].graph
                            /\ call'[c].left = call[c].left \ {d})
      /\ call'[c] = Idle => call[c].left \subseteq {d}
      /\ \A k \in Callers : k # c => call'[k] = call[k]
    BY VisitedShape
<1>2. ASSUME NEW e, NEW k \in Callers, e \in Left(k), k # c
      PROVE  e \in Left(k)' /\ call'[k].graph = call[k].graph
    BY <1>1, <1>2 DEF Left
<1>3. ASSUME NEW e, e \in Left(c), e # d
      PROVE  e \in Left(c)' /\ call'[c].graph = call[c].graph
    BY <1>1, <1>3 DEF Left
<1>4. QED
    BY <1>2, <1>3 DEF Excused, DetachAhead

\* A visit clears the domain's anchors on the graph, or books the ones it
\* could not; no anchor is being written meanwhile, for it holds the lock.
LEMMA DetachGraphAnchors ==
    ASSUME TypeOK, AnchorInv, NEW c \in Callers, NEW d \in Domains, DetachGraph(c, d)
    PROVE  AnchorInv'
<1>0. PICK g : g = call[c].graph
    OBVIOUS
<1>1. /\ call[c].op = "detach" /\ Visited(c, d) /\ DomainFree(d)
      /\ UNCHANGED <<name, registered>>
    BY DEF DetachGraph, pool
<1>2. PICK lost \in SUBSET AnchoredOn(d, call[c].graph) :
          /\ anchor' = [s \in Scenes |->
                 IF s \in AnchoredOn(d, call[c].graph) \ lost THEN None ELSE anchor[s]]
          /\ owed' = [owed EXCEPT !.detach = owed.detach \cup {<<d, call[c].graph>> : s \in lost}]
    BY DEF DetachGraph
<1>3. /\ owed.detach \subseteq owed'.detach /\ owed'.skipped = owed.skipped
      /\ lost # {} => <<d, g>> \in owed'.detach
  <2>1. owed \in Owed
    BY TypeHalves DEF DataType
  <2>2. owed'.detach = owed.detach \cup {<<d, call[c].graph>> : s \in lost} /\ owed'.skipped = owed.skipped
    BY <2>1, <1>2 DEF Owed
  <2>3. QED
    BY <1>0, <2>2
<1>4. \A e, h : Excused(e, h) => Excused(e, h)' \/ (e = d /\ h = g)
    BY <1>0, <1>1, <1>3, VisitedExcuses
<1>5. Graphs' = Graphs
    BY <1>1 DEF Graphs
<1>6. \A k \in Callers : call'[k].op = "anchor" =>
          call'[k] = call[k] /\ Owner[call[k].scene] # d
  <2>1. Idle.op = "idle"
    BY DEF Idle
  <2>2. QED
    BY <1>1, <2>1, VisitedShape DEF DomainFree
<1>7. lost # {} => Excused(d, g)'
    BY <1>3 DEF Excused
<1>8. \A s \in Scenes : \/ anchor'[s] = None /\ anchor[s] = g
                        \/ anchor'[s] = anchor[s] /\ (Owner[s] = d /\ anchor[s] = g => lost # {})
    BY <1>0, <1>2 DEF AnchoredOn
<1>9. ASSUME NEW s \in Scenes, anchor'[s] \in Labels
      PROVE  /\ anchor'[s] = anchor[s]
             /\ \/ anchor[s] \in Graphs'
                \/ /\ Excused(Owner[s], anchor[s])
                   /\ Owner[s] = d /\ anchor[s] = g => lost # {}
    BY <1>5, <1>8, <1>9, AnchorParts, ConstantsOK
<1>10. (\A s \in Scenes : anchor[s] \in Labels =>
            anchor[s] \in Graphs \/ Excused(Owner[s], anchor[s]))'
    BY <1>4, <1>7, <1>9
<1>11. (\A k \in Callers : call[k].op = "anchor" =>
            call[k].graph \in Graphs \/ Excused(Owner[call[k].scene], call[k].graph))'
    BY <1>4, <1>5, <1>6, AnchorParts
<1>12. (\A s \in Scenes : anchor[s] # Absent => Owner[s] \in registered)'
  <2>1. \A s \in Scenes : anchor'[s] # Absent => anchor[s] # Absent
    <3>1. g \in Labels
        BY <1>0, <1>1, CallShape
    <3>2. QED
        BY <3>1, <1>8, ConstantsOK
  <2>2. QED
    BY <2>1, <1>1, AnchorParts
<1>13. QED
    BY <1>1, <1>6, <1>10, <1>11, <1>12, AnchorParts, AnchorPartsNext

\* A domain that is passed over is booked.
LEMMA DetachSkipsAnchors ==
    ASSUME TypeOK, AnchorInv, NEW c \in Callers, NEW d \in Domains, DetachSkips(c, d)
    PROVE  AnchorInv'
<1>0. PICK g : g = call[c].graph
    OBVIOUS
<1>1. /\ call[c].op = "detach" /\ Visited(c, d) /\ UNCHANGED <<name, anchor, registered>>
    BY DEF DetachSkips, pool
<1>2. owed'.skipped = owed.skipped \cup {<<d, g>>} /\ owed'.detach = owed.detach
  <2>1. owed \in Owed
    BY TypeHalves DEF DataType
  <2>2. QED
    BY <1>0, <2>1 DEF Owed, DetachSkips
<1>3. Excused(d, g)'
    BY <1>2 DEF Excused
<1>4. \A e, h : Excused(e, h) => Excused(e, h)'
    BY <1>0, <1>1, <1>2, <1>3, VisitedExcuses
<1>5. \A k \in Callers : call'[k].op = "anchor" => call'[k] = call[k]
  <2>1. Idle.op = "idle"
    BY DEF Idle
  <2>2. QED
    BY <1>1, <2>1, VisitedShape
<1>6. Graphs' = Graphs
    BY <1>1 DEF Graphs
<1>7. QED
    BY <1>1, <1>4, <1>5, <1>6, AnchorFrame

\* Reading a graph for an anchor, and writing the anchor.
LEMMA AnchorCallAnchors ==
    ASSUME TypeOK, AnchorInv, NEW c \in Callers,
           \/ \E s \in Scenes, g \in Labels, force \in BOOLEAN : ReadAnchor(c, s, g, force)
           \/ WriteAnchor(c)
    PROVE  AnchorInv'
<1>0. /\ call \in [Callers -> Calls] /\ Idle.op = "idle"
      /\ anchor \in [Scenes -> Labels \cup {None, Absent}]
    BY DEF TypeOK, Idle
<1>1. UNCHANGED <<name, registered, owed>> /\ Graphs' = Graphs
    BY DEF ReadAnchor, WriteAnchor, pool, history, Graphs
<1>2. ASSUME NEW s \in Scenes, NEW g \in Labels, NEW force, ReadAnchor(c, s, g, force)
      PROVE  AnchorInv'
  <2> DEFINE n == [op |-> "anchor", scene |-> s, graph |-> g]
  <2>1. n.op = "anchor" /\ n.scene = s /\ n.graph = g
    OBVIOUS
  <2>2. /\ call[c] = Idle /\ call' = [call EXCEPT ![c] = n] /\ anchor' = anchor
        /\ Owner[s] \in registered /\ g \in Graphs
    BY <1>2 DEF ReadAnchor, LockAgent
  <2> HIDE DEF n
  <2>3. /\ \A d, h : Excused(d, h) => Excused(d, h)'
        /\ call'[c] = n /\ \A k \in Callers : k # c => call'[k] = call[k]
    <3>1. call'[c] = n /\ \A k \in Callers : k # c => call'[k] = call[k]
        BY <2>2, <1>0
    <3>2. QED
        BY <3>1, <2>2, <1>0, <1>1, ExcusedFrame
  <2>4. (\A s1 \in Scenes : anchor[s1] \in Labels =>
            anchor[s1] \in Graphs \/ Excused(Owner[s1], anchor[s1]))'
    BY <1>1, <2>2, <2>3, AnchorParts
  <2>5. (\A k \in Callers : call[k].op = "anchor" =>
            call[k].graph \in Graphs \/ Excused(Owner[call[k].scene], call[k].graph))'
    BY <1>1, <2>1, <2>2, <2>3, AnchorParts
  <2>6. QED
    BY <1>1, <2>1, <2>2, <2>3, <2>4, <2>5, AnchorParts, AnchorPartsNext
<1>3. ASSUME WriteAnchor(c)
      PROVE  AnchorInv'
  <2> DEFINE s == call[c].scene
             g == call[c].graph
  <2>1. s \in Scenes /\ g \in Labels /\ call[c].op = "anchor"
    BY <1>3, CallShape DEF WriteAnchor
  <2>2. call' = [call EXCEPT ![c] = Idle] /\ anchor' = [anchor EXCEPT ![s] = g]
    BY <1>3 DEF WriteAnchor, Answer
  <2>3. Owner[s] \in registered /\ (g \in Graphs \/ Excused(Owner[s], g))
    BY <2>1, AnchorParts
  <2> HIDE DEF s, g, Idle
  <2>4. /\ \A d, h : Excused(d, h) => Excused(d, h)'
        /\ call'[c] = Idle /\ \A k \in Callers : k # c => call'[k] = call[k]
    <3>1. call'[c] = Idle /\ \A k \in Callers : k # c => call'[k] = call[k]
        BY <2>2, <1>0
    <3>2. QED
        BY <3>1, <2>1, <1>1, ExcusedFrame
  <2>5. anchor'[s] = g /\ \A s1 \in Scenes : s1 # s => anchor'[s1] = anchor[s1]
    BY <2>1, <2>2, <1>0
  <2>6. (\A s1 \in Scenes : anchor[s1] \in Labels =>
            anchor[s1] \in Graphs \/ Excused(Owner[s1], anchor[s1]))'
    BY <1>1, <2>3, <2>4, <2>5, AnchorParts
  <2>7. (\A k \in Callers : call[k].op = "anchor" =>
            call[k].graph \in Graphs \/ Excused(Owner[call[k].scene], call[k].graph))'
    BY <1>0, <1>1, <2>4, AnchorParts
  <2>8. QED
    BY <1>0, <1>1, <2>3, <2>4, <2>5, <2>6, <2>7, AnchorParts, AnchorPartsNext
<1>4. QED
    BY <1>2, <1>3

\* A merge hands an anchor on within its domain; clearing and deleting only
\* take anchors away.
LEMMA SceneAnchors ==
    ASSUME TypeOK, AnchorInv, NEW c \in Callers, NEW s \in Scenes,
           \/ ClearAnchor(c, s) \/ DeleteScene(c, s)
           \/ \E others \in SUBSET Scenes : MergeScenes(c, s, others)
    PROVE  AnchorInv'
<1>0. anchor \in [Scenes -> Labels \cup {None, Absent}]
    BY DEF TypeOK
<1>1. UNCHANGED <<name, registered, owed, call>> /\ Graphs' = Graphs /\ Owner[s] \in registered
    BY DEF ClearAnchor, DeleteScene, MergeScenes, LockAgent, pool, history, Graphs
<1>2. \A d, g : Excused(d, g) => Excused(d, g)'
    BY <1>1, ExcusedFrame
<1>3. \A s1 \in Scenes : \/ anchor'[s1] \in {None, Absent} /\ (anchor'[s1] # Absent => Owner[s1] \in registered)
                         \/ \E o \in Scenes : Owner[o] = Owner[s1] /\ anchor'[s1] = anchor[o]
  <2>1. CASE ClearAnchor(c, s) \/ DeleteScene(c, s)
    BY <2>1, <1>0, <1>1 DEF ClearAnchor, DeleteScene
  <2>2. ASSUME NEW others \in SUBSET Scenes, MergeScenes(c, s, others)
        PROVE  \A s1 \in Scenes : \/ anchor'[s1] \in {None, Absent} /\ (anchor'[s1] # Absent => Owner[s1] \in registered)
                                  \/ \E o \in Scenes : Owner[o] = Owner[s1] /\ anchor'[s1] = anchor[o]
    <3>1. PICK g \in MergedAnchor(s, others) :
              anchor' = [o \in Scenes |-> IF o \in others THEN Absent ELSE IF o = s THEN g ELSE anchor[o]]
        BY <2>2 DEF MergeScenes
    <3>2. \A o \in others : Owner[o] = Owner[s]
        BY <2>2 DEF MergeScenes
    <3>3. g = None \/ \E o \in others \cup {s} : g = anchor[o]
        BY DEF MergedAnchor
    <3>4. QED
        BY <3>1, <3>2, <3>3, <1>1
  <2>3. QED
    BY <2>1, <2>2
<1>4. (\A s1 \in Scenes : anchor[s1] \in Labels =>
          anchor[s1] \in Graphs \/ Excused(Owner[s1], anchor[s1]))'
    BY <1>1, <1>2, <1>3, AnchorParts, ConstantsOK
<1>5. (\A s1 \in Scenes : anchor[s1] # Absent => Owner[s1] \in registered)'
    BY <1>1, <1>3, AnchorParts
<1>6. (\A k \in Callers : call[k].op = "anchor" =>
          call[k].graph \in Graphs \/ Excused(Owner[call[k].scene], call[k].graph))'
    BY <1>1, <1>2, AnchorParts
<1>7. QED
    BY <1>1, <1>4, <1>5, <1>6, AnchorParts, AnchorPartsNext

\* The list of domains is what the deletion had ahead of it all along.
LEMMA DetachTargetsAnchors ==
    ASSUME TypeOK, AnchorInv, NEW c \in Callers, DetachTargets(c)
    PROVE  AnchorInv'
<1> DEFINE n == [op |-> "detach", graph |-> call[c].graph, left |-> registered]
<1>1. n.op = "detach" /\ n.graph = call[c].graph /\ n.left = registered
    OBVIOUS
<1>2. /\ call[c].op = "targets" /\ call' = [call EXCEPT ![c] = n]
      /\ UNCHANGED <<name, anchor, registered, owed>>
    BY DEF DetachTargets, pool, history
<1> HIDE DEF n
<1>3. call'[c] = n /\ \A k \in Callers : k # c => call'[k] = call[k]
    BY <1>2 DEF TypeOK
<1>4. ASSUME NEW d, NEW k \in Callers, d \in Left(k)
      PROVE  d \in Left(k)' /\ call'[k].graph = call[k].graph
    BY <1>1, <1>2, <1>3, <1>4 DEF Left
<1>5. \A d, g : Excused(d, g) => Excused(d, g)'
    BY <1>2, <1>4 DEF Excused, DetachAhead
<1>6. Graphs' = Graphs
    BY <1>2 DEF Graphs
<1>7. QED
    BY <1>1, <1>2, <1>3, <1>5, <1>6, AnchorFrame

\* What a deletion had ahead of it when power failed is owed from then on, and
\* so is every visit for a slot whose tombstone survived.
LEMMA CrashAnchors ==
    ASSUME TypeOK, AnchorInv, Crash
    PROVE  AnchorInv'
<1>1. UNCHANGED <<anchor, registered>> /\ \A k \in Callers : call'[k].op = "idle"
    BY DEF Crash, Idle
<1>2. PICK slots, torn \in SUBSET Labels : CrashLeaves(slots, torn)
    BY CrashFacts
<1>3. /\ owed.detach \subseteq owed'.detach /\ owed'.skipped = owed.skipped
      /\ registered \X slots \subseteq owed'.detach
      /\ \A d, g : DetachAhead(d, g) => <<d, g>> \in owed'.detach
    BY <1>2 DEF CrashLeaves
<1>4. \A d, g : Excused(d, g) => Excused(d, g)'
    BY <1>3 DEF Excused
<1>5. \A d \in registered, g \in slots : Excused(d, g)'
    BY <1>3 DEF Excused
<1>6. \A h \in Graphs : h \in Graphs' \/ h \in slots
    BY <1>2 DEF CrashLeaves, Graphs
<1>7. (\A s \in Scenes : anchor[s] \in Labels =>
           anchor[s] \in Graphs \/ Excused(Owner[s], anchor[s]))'
    BY <1>1, <1>4, <1>5, <1>6, AnchorParts, ConstantsOK
<1>8. QED
    BY <1>1, <1>7, AnchorParts, AnchorPartsNext

\* Every step keeps the anchors' invariant.
LEMMA AnchorStep ==
    ASSUME TypeOK, AnchorInv, [Next]_vars
    PROVE  AnchorInv'
<1>1. ASSUME UNCHANGED <<pool, anchor, call, owed>>, registered \subseteq registered'
      PROVE  AnchorInv'
  <2>1. Graphs' = Graphs
    BY <1>1 DEF Graphs, pool
  <2>2. \A d, g : Excused(d, g) => Excused(d, g)'
    BY <1>1, ExcusedFrame
  <2>3. QED
    BY <1>1, <2>1, <2>2, AnchorFrame
<1>2. ASSUME NEW d \in Domains, EnsureRegistered(d)
      PROVE  AnchorInv'
    BY <1>1, <1>2 DEF EnsureRegistered, history
<1>3. CASE Close \/ Open
    BY <1>1, <1>3 DEF Close, Open, history
<1>4. CASE UNCHANGED vars
    BY <1>1, <1>4 DEF vars, history
<1>5. QED
    BY <1>2, <1>3, <1>4, ImportAnchors, DeleteL3Anchors, DeleteGraphAnchors, DetachTargetsAnchors,
       DetachGraphAnchors, DetachSkipsAnchors, AnchorCallAnchors, SceneAnchors, CrashAnchors
    DEF Next
-----------------------------------------------------------------------------
(***************************************************************************)
(* Walks: what an edge names is stored, or its import was answered with an *)
(* error, or power cut the deletion of its graph in two.                   *)
(***************************************************************************)
Held(g, t) == <<g, t>> \in nodes \cup owed.node \/ g \in owed.torn

\* The items an import has been through; the second pass has been through all.
BatchHeld(b) ==
    \A j \in 1 .. Len(b.items) :
        b.op = "relations" \/ j < b.i => Held(GraphFor(b.items[j].domain), b.items[j].title)

\* Every member of an edge is held, and so is every item an import has been
\* through: the relations it writes next start from them.
ReadInv ==
    /\ \A e \in edges : \A t \in e.members : Held(e.graph, t)
    /\ \A c \in Callers : call[c].op \in {"nodes", "relations"} => BatchHeld(call[c])

\* Where the next item, or the next pass over the batch, takes an import.
LEMMA AdvanceSteps ==
    ASSUME TypeOK, NEW c \in Callers, call[c].op \in {"nodes", "relations"},
           NEW changed, NEW next, Advance(c, next, changed)
    PROVE  /\ call'[c].items = call[c].items /\ call[c].i \in Nat /\ call[c].i <= Len(call[c].items)
           /\ call[c].items \in Seq(Items)
           /\ \/ call'[c].op = call[c].op /\ call'[c].i = call[c].i + 1
              \/ call'[c].op = next /\ call'[c].i = 1 /\ call[c].i = Len(call[c].items)
           /\ \A k \in Callers : k # c => call'[k] = call[k]
<1>1. PICK b \in Imports : b = call[c]
    BY CallShape DEF Importing
<1>2. b.items \in Seq(Items) /\ b.i \in Nat /\ Len(b.items) \in Nat /\ b.i <= Len(b.items)
  <2>1. b.items \in Batches /\ b.i \in Nat \ {0}
    BY DEF Imports
  <2>2. b.items \in Seq(Items)
    BY <2>1, ConstantsOK
  <2>3. b.i <= Len(b.items)
    BY <1>1 DEF TypeOK
  <2>4. QED
    BY <2>1, <2>2, <2>3
<1> DEFINE up   == [b EXCEPT !.i = b.i + 1, !.changed = changed]
           over == [b EXCEPT !.i = 1, !.op = next, !.changed = changed]
           n    == IF b.i < Len(b.items) THEN up ELSE over
<1>3. up.items = b.items /\ up.op = b.op /\ up.i = b.i + 1
    BY DEF Imports
<1>4. over.items = b.items /\ over.op = next /\ over.i = 1
    BY DEF Imports
<1>5. call' = [call EXCEPT ![c] = n]
    BY <1>1, Zenon DEF Advance
<1> HIDE DEF up, over
<1>6. /\ n.items = b.items
      /\ \/ n.op = b.op /\ n.i = b.i + 1
         \/ n.op = next /\ n.i = 1 /\ b.i = Len(b.items)
    BY <1>2, <1>3, <1>4
<1> HIDE DEF n
<1>7. call'[c] = n /\ \A k \in Callers : k # c => call'[k] = call[k]
    BY <1>5 DEF TypeOK
<1>8. QED
    BY <1>1, <1>2, <1>6, <1>7

\* Nobody else is in a batch.
LEMMA SoleImport ==
    ASSUME TypeOK, NEW c \in Callers, Importing(c), NEW k \in Callers, k # c
    PROVE  call[k].op \notin {"nodes", "relations"}
BY DEF TypeOK, Importing, HoldsPool

\* A slot made for a label nobody carries leaves every label where it led.
LEMMA GraphForStays ==
    ASSUME TypeOK, NEW g \in Labels, g \notin Graphs, Named(g) = {},
           name' = [name EXCEPT ![g] = g], NEW l \in Labels
    PROVE  GraphFor(l)' = GraphFor(l)
<1>1. name \in [Labels -> Labels \cup {None}] /\ g # None
    BY ConstantsOK DEF TypeOK
<1>2. Graphs' = Graphs \cup {g} /\ name'[g] = g /\ \A h \in Graphs : name'[h] = name[h]
    BY <1>1 DEF Graphs
<1>3. CASE l = g
  <2>1. g \in Named(g)'
    BY <1>2 DEF Named
  <2>2. GraphFor(g)' = g
    BY <2>1 DEF GraphFor
  <2>3. GraphFor(g) = g
    BY DEF GraphFor
  <2>4. QED
    BY <1>3, <2>2, <2>3
<1>4. CASE l # g
  <2>1. Named(l)' = Named(l)
    BY <1>2, <1>4 DEF Named
  <2>2. QED
    BY <2>1 DEF GraphFor
<1>5. QED
    BY <1>3, <1>4

\* A step that leaves the records alone, and takes no caller further into a
\* batch.
LEMMA ReadFrame ==
    ASSUME ReadInv, UNCHANGED <<name, nodes, edges>>,
           owed'.node = owed.node, owed'.torn = owed.torn,
           \A k \in Callers : call'[k].op \in {"nodes", "relations"} =>
               call'[k] = call[k] \/ (call'[k].op = "nodes" /\ call'[k].i = 1)
    PROVE  ReadInv'
<1>1. \A g, t : Held(g, t)' <=> Held(g, t)
    BY DEF Held
<1>2. \A l : GraphFor(l)' = GraphFor(l)
    BY DEF GraphFor, Named, Graphs
<1>3. \A e \in edges' : \A t \in e.members : Held(e.graph, t)'
    BY <1>1 DEF ReadInv
<1>4. ASSUME NEW k \in Callers, call'[k].op \in {"nodes", "relations"}
      PROVE  BatchHeld(call[k])'
  <2>1. CASE call'[k] = call[k]
    <3>1. BatchHeld(call[k])
        BY <1>4, <2>1 DEF ReadInv
    <3>2. QED
        BY <1>1, <1>2, <2>1, <3>1 DEF BatchHeld
  <2>2. CASE call'[k].op = "nodes" /\ call'[k].i = 1
    <3>1. \A j \in 1 .. Len(call'[k].items) : ~(j < 1)
        OBVIOUS
    <3>2. QED
        BY <2>2, <3>1 DEF BatchHeld
  <2>3. QED
    BY <1>4, <2>1, <2>2
<1>5. QED
    BY <1>3, <1>4 DEF ReadInv

\* A step while no import runs: the edges it leaves still read.
LEMMA ReadQuiet ==
    ASSUME ReadInv, \A k \in Callers : call'[k].op \notin {"nodes", "relations"},
           edges' \subseteq edges,
           \A e \in edges' : \A t : Held(e.graph, t) => Held(e.graph, t)'
    PROVE  ReadInv'
<1>1. \A e \in edges' : \A t \in e.members : Held(e.graph, t)'
    BY DEF ReadInv
<1>2. QED
    BY <1>1 DEF ReadInv

\* An item's node is written, was there, or is owed.
LEMMA ImportNodeRead ==
    ASSUME TypeOK, ReadInv, NEW c \in Callers, ImportNode(c)
    PROVE  ReadInv'
<1>0. PICK item : item = call[c].items[call[c].i]
    OBVIOUS
<1>1. PICK g, l, t : g = GraphFor(item.domain) /\ l = item.domain /\ t = item.title
    OBVIOUS
<1>2. call[c].op = "nodes" /\ Importing(c) /\ item \in Items
    BY <1>0, ItemShape DEF ImportNode, Importing
<1>3. l \in Labels /\ g \in Labels /\ (g \notin Graphs => g = l /\ Named(g) = {})
    BY <1>1, <1>2, GraphForResolves DEF Items
<1>4. \/ EnsureGraphFails(c, g, t) \/ SkipNode(c, g, t)
      \/ StoreNode(c, g, t) \/ StoreNodeFails(c, g, t)
    BY <1>0, <1>1 DEF ImportNode
<1>5. owed \in Owed /\ name \in [Labels -> Labels \cup {None}]
    BY TypeHalves DEF DataType
<1>6. PICK changed : Advance(c, "relations", changed)
    BY <1>4 DEF EnsureGraphFails, SkipNode, StoreNode, StoreNodeFails
<1>7. /\ edges' = edges /\ Held(g, t)'
      /\ \A h, x : Held(h, x) => Held(h, x)'
      /\ name' = name \/ (g \notin Graphs /\ name' = [name EXCEPT ![g] = g])
  <2>0. owed'.torn = owed.torn
    BY <1>5, TornStays
  <2>1. CASE EnsureGraphFails(c, g, t)
    <3>1. owed'.node = owed.node \cup {<<g, t>>}
        BY <1>5, <2>1 DEF EnsureGraphFails, Owed
    <3>2. QED
        BY <2>0, <2>1, <3>1 DEF EnsureGraphFails, pool, Held
  <2>2. CASE SkipNode(c, g, t)
    BY <2>2 DEF SkipNode, pool, history, Held
  <2>3. CASE StoreNode(c, g, t)
    <3>1. owed'.node = owed.node \ {<<g, t>>}
        BY <1>5, <2>3 DEF StoreNode, Owed
    <3>2. nodes' = nodes \cup {<<g, t>>} /\ edges' = edges
        BY <2>3 DEF StoreNode
    <3>3. name' = [name EXCEPT ![g] = IF g \in Graphs THEN name[g] ELSE g]
        BY <2>3 DEF StoreNode
    <3>4. name' = name \/ (g \notin Graphs /\ name' = [name EXCEPT ![g] = g])
        BY <1>3, <1>5, <3>3
    <3>5. QED
        BY <2>0, <3>1, <3>2, <3>4 DEF Held
  <2>4. CASE StoreNodeFails(c, g, t)
    <3>1. owed'.node = owed.node \cup ({<<g, t>>} \ nodes)
        BY <1>5, <2>4 DEF StoreNodeFails, Owed
    <3>2. nodes' = nodes /\ edges' = edges
        BY <2>4 DEF StoreNodeFails
    <3>3. name' = name \/ (g \notin Graphs /\ name' = [name EXCEPT ![g] = g])
        BY <2>4 DEF StoreNodeFails, EnsureGraphL3
    <3>4. QED
        BY <2>0, <3>1, <3>2, <3>3 DEF Held
  <2>5. QED
    BY <1>4, <2>1, <2>2, <2>3, <2>4
<1>8. \A x \in Labels : GraphFor(x)' = GraphFor(x)
  <2>1. CASE name' = name
    BY <2>1 DEF GraphFor, Named, Graphs
  <2>2. CASE g \notin Graphs /\ name' = [name EXCEPT ![g] = g]
    BY <1>3, <2>2, GraphForStays
  <2>3. QED
    BY <1>7, <2>1, <2>2
<1>9. /\ call'[c].items = call[c].items /\ call[c].i \in Nat
      /\ call[c].items \in Seq(Items)
      /\ \/ call'[c].op = "nodes" /\ call'[c].i = call[c].i + 1
         \/ call'[c].op = "relations" /\ call'[c].i = 1 /\ call[c].i = Len(call[c].items)
      /\ \A k \in Callers : k # c => call'[k] = call[k]
  <2>1. call[c].op \in {"nodes", "relations"}
    BY <1>2
  <2>2. QED
    BY <1>2, <1>6, <2>1, AdvanceSteps
<1>10. BatchHeld(call[c])
    BY <1>2 DEF ReadInv
<1>11. ASSUME NEW j \in 1 .. Len(call[c].items), call'[c].op = "relations" \/ j < call'[c].i
       PROVE  Held(GraphFor(call[c].items[j].domain), call[c].items[j].title)'
  <2>1. call[c].items[j].domain \in Labels
    <3>1. PICK q \in Seq(Items) : q = call[c].items
        BY <1>9
    <3>2. q[j] \in Items
        BY <3>1
    <3>3. q[j].domain \in Labels
        BY <3>2 DEF Items
    <3>4. QED
        BY <3>1, <3>3
  <2>2. PICK h, x : h = GraphFor(call[c].items[j].domain) /\ x = call[c].items[j].title
    OBVIOUS
  <2>3. GraphFor(call[c].items[j].domain)' = h /\ call'[c].items[j].title = x
    BY <1>8, <1>9, <2>1, <2>2
  <2>4. j < call[c].i \/ j = call[c].i
    BY <1>9, <1>11
  <2>5. Held(h, x)'
    <3>1. CASE j < call[c].i
      <4>1. Held(h, x)
        BY <1>10, <2>2, <3>1 DEF BatchHeld
      <4>2. QED
        BY <1>7, <4>1
    <3>2. CASE j = call[c].i
        BY <1>0, <1>1, <1>7, <2>2, <3>2
    <3>3. QED
        BY <2>4, <3>1, <3>2
  <2>6. QED
    BY <2>3, <2>5 DEF Held
<1>12. ASSUME NEW k \in Callers, call'[k].op \in {"nodes", "relations"}
       PROVE  BatchHeld(call[k])'
  <2>1. k = c
    BY <1>2, <1>9, <1>12, SoleImport
  <2>2. BatchHeld(call[c])'
    BY <1>9, <1>11 DEF BatchHeld, Held
  <2>3. QED
    BY <2>1, <2>2
<1>13. \A e \in edges' : \A x \in e.members : Held(e.graph, x)'
    BY <1>7 DEF ReadInv
<1>14. QED
    BY <1>12, <1>13 DEF ReadInv

\* An edge joins its item, which is held, and nodes that are there.
LEMMA ImportRelationsRead ==
    ASSUME TypeOK, ReadInv, NEW c \in Callers, ImportRelations(c)
    PROVE  ReadInv'
<1>0. PICK item : item = call[c].items[call[c].i]
    OBVIOUS
<1>1. PICK g, members : g = GraphFor(item.domain) /\ members = RelationMembers(g, item.title, item.related)
    OBVIOUS
<1>2. call[c].op = "relations" /\ Importing(c)
    BY DEF ImportRelations, Importing
<1>3. /\ UNCHANGED <<name, nodes, owed>>
      /\ edges' = edges \/ (members # {} /\ edges' = edges \cup {[graph |-> g, members |-> members]})
      /\ \E changed : Advance(c, "stamp", changed)
    BY <1>0, <1>1 DEF ImportRelations
<1>4. PICK changed : Advance(c, "stamp", changed)
    BY <1>3
<1>5. /\ call'[c].items = call[c].items /\ call[c].i \in Nat /\ call[c].i <= Len(call[c].items)
      /\ \/ call'[c].op = "relations" \/ call'[c].op = "stamp"
      /\ \A k \in Callers : k # c => call'[k] = call[k]
  <2>1. call[c].op \in {"nodes", "relations"}
    BY <1>2
  <2>2. QED
    BY <1>2, <1>4, <2>1, AdvanceSteps
<1>6. BatchHeld(call[c])
    BY <1>2 DEF ReadInv
<1>7. \A h, x : Held(h, x)' <=> Held(h, x)
    BY <1>3 DEF Held
<1>8. \A x : GraphFor(x)' = GraphFor(x)
    BY <1>3 DEF GraphFor, Named, Graphs
<1>9. Held(g, item.title)
  <2>1. call[c].i \in 1 .. Len(call[c].items)
    <3>1. call[c] \in Imports
        BY <1>2, CallShape
    <3>2. call[c].i \in Nat \ {0} /\ call[c].items \in Seq(Items)
        BY <3>1, ConstantsOK DEF Imports
    <3>3. QED
        BY <1>5, <3>2
  <2>2. QED
    BY <1>0, <1>1, <1>2, <1>6, <2>1 DEF BatchHeld
<1>10. \A x \in members : Held(g, x)
    BY <1>1, <1>9 DEF RelationMembers, Held
<1>11. \A e \in edges' : \A x \in e.members : Held(e.graph, x)
    BY <1>3, <1>10 DEF ReadInv
<1>12. ASSUME NEW k \in Callers, call'[k].op \in {"nodes", "relations"}
       PROVE  BatchHeld(call[k])'
  <2>1. k = c
    BY <1>2, <1>5, <1>12, SoleImport
  <2>2. BatchHeld(call[c])'
    BY <1>2, <1>5, <1>6, <1>7, <1>8 DEF BatchHeld
  <2>3. QED
    BY <2>1, <2>2
<1>13. QED
    BY <1>7, <1>11, <1>12 DEF ReadInv

\* Every step keeps it.
LEMMA ReadStep ==
    ASSUME TypeOK, ReadInv, [Next]_vars
    PROVE  ReadInv'
<1>0. owed \in Owed /\ call \in [Callers -> Calls] /\ Idle.op = "idle"
    BY TypeHalves DEF DataType, CallType, Idle
<1>1. ASSUME NEW c \in Callers, NEW n, n.op = "nodes" => n.i = 1, n.op # "relations",
             call' = [call EXCEPT ![c] = n], UNCHANGED <<name, nodes, edges>>,
             owed'.node = owed.node, owed'.torn = owed.torn
      PROVE  ReadInv'
  <2>1. call'[c] = n /\ \A k \in Callers : k # c => call'[k] = call[k]
    BY <1>0, <1>1
  <2>2. \A k \in Callers : call'[k].op \in {"nodes", "relations"} =>
            call'[k] = call[k] \/ (call'[k].op = "nodes" /\ call'[k].i = 1)
    BY <1>1, <2>1
  <2>3. QED
    BY <1>1, <2>2, ReadFrame
<1>2. ASSUME NEW c \in Callers, NEW items \in Batches, NEW skip \in BOOLEAN, ImportL3(c, items, skip)
      PROVE  ReadInv'
  <2>1. PICK n : n = [op |-> "nodes", items |-> items, skip |-> skip, i |-> 1, changed |-> {}]
    OBVIOUS
  <2>2. n.op = "nodes" /\ n.i = 1
    BY <2>1
  <2>3. call' = [call EXCEPT ![c] = n] /\ UNCHANGED <<name, nodes, edges, owed>>
    BY <1>2, <2>1 DEF ImportL3, pool, history
  <2>4. QED
    BY <1>1, <2>2, <2>3
<1>3. ASSUME NEW c \in Callers, StampChanged(c)
      PROVE  ReadInv'
  <2>1. owed'.node = owed.node /\ owed'.torn = owed.torn
    BY <1>0, <1>3 DEF StampChanged, Owed
  <2>2. call' = [call EXCEPT ![c] = Idle] /\ UNCHANGED <<name, nodes, edges>>
    BY <1>3 DEF StampChanged, Answer
  <2> HIDE DEF Idle
  <2>3. QED
    BY <1>0, <1>1, <2>1, <2>2
<1>4. ASSUME NEW c \in Callers, NEW g \in Labels, NEW l \in Labels, UpdateL3(c, g, l)
      PROVE  ReadInv'
  <2>1. \A k \in Callers : call'[k].op \notin {"nodes", "relations"}
    BY <1>4 DEF UpdateL3, LockSharedPool, PoolFree, HoldsPool
  <2>2. owed'.node = owed.node /\ owed'.torn = owed.torn /\ UNCHANGED <<nodes, edges>>
    BY <1>0, <1>4 DEF UpdateL3, Owed
  <2>3. QED
    BY <2>1, <2>2, ReadQuiet DEF Held
<1>5. ASSUME NEW c \in Callers, DeleteGraphL3(c)
      PROVE  ReadInv'
  <2>1. PICK g, n : g = call[c].graph /\ n = [op |-> "targets", graph |-> g]
    OBVIOUS
  <2>2. n.op = "targets" /\ call' = [call EXCEPT ![c] = n] /\ HoldsPool(c)
    BY <1>5, <2>1 DEF DeleteGraphL3, Deleting, HoldsPool
  <2>3. \A k \in Callers : call'[k].op \notin {"nodes", "relations"}
    BY <1>0, <2>2 DEF HoldsPool, TypeOK
  <2>4. owed'.node = {n1 \in owed.node : n1[1] # g} /\ owed'.torn = owed.torn \ {g}
    BY <1>0, <1>5, <2>1, DeleteGraphOwed
  <2>5. nodes' = {n1 \in nodes : n1[1] # g} /\ edges' = {e \in edges : e.graph # g}
    BY <1>5, <2>1 DEF DeleteGraphL3, NodesOf, EdgesOf
  <2>6. \A e \in edges' : \A t : Held(e.graph, t) => Held(e.graph, t)'
    BY <2>4, <2>5 DEF Held
  <2>7. QED
    BY <2>3, <2>5, <2>6, ReadQuiet
<1>6. ASSUME NEW c \in Callers, DetachTargets(c)
      PROVE  ReadInv'
  <2>1. PICK n : n = [op |-> "detach", graph |-> call[c].graph, left |-> registered]
    OBVIOUS
  <2>2. n.op = "detach" /\ call' = [call EXCEPT ![c] = n] /\ UNCHANGED <<name, nodes, edges, owed>>
    BY <1>6, <2>1 DEF DetachTargets, pool, history
  <2>3. QED
    BY <1>1, <2>2
<1>7. ASSUME NEW c \in Callers, NEW d \in Domains, DetachGraph(c, d) \/ DetachSkips(c, d)
      PROVE  ReadInv'
  <2>1. call[c].op = "detach" /\ Visited(c, d) /\ UNCHANGED <<name, nodes, edges>>
    BY <1>7 DEF DetachGraph, DetachSkips, pool
  <2>2. owed'.node = owed.node /\ owed'.torn = owed.torn
    BY <1>0, <1>7 DEF DetachGraph, DetachSkips, Owed
  <2>3. \A k \in Callers : call'[k].op \in {"nodes", "relations"} => call'[k] = call[k]
    BY <2>1, <1>0, VisitedShape
  <2>4. QED
    BY <2>1, <2>2, <2>3, ReadFrame
<1>8. ASSUME NEW c \in Callers, NEW s \in Scenes, NEW g \in Labels, NEW force, ReadAnchor(c, s, g, force)
      PROVE  ReadInv'
  <2>1. PICK n : n = [op |-> "anchor", scene |-> s, graph |-> g]
    OBVIOUS
  <2>2. n.op = "anchor" /\ call' = [call EXCEPT ![c] = n] /\ UNCHANGED <<name, nodes, edges, owed>>
    BY <1>8, <2>1 DEF ReadAnchor, pool, history
  <2>3. QED
    BY <1>1, <2>2
<1>9. ASSUME NEW c \in Callers, WriteAnchor(c)
      PROVE  ReadInv'
  <2>1. call' = [call EXCEPT ![c] = Idle] /\ UNCHANGED <<name, nodes, edges, owed>>
    BY <1>9 DEF WriteAnchor, Answer, pool, history
  <2> HIDE DEF Idle
  <2>2. QED
    BY <1>0, <1>1, <2>1
<1>10. ASSUME Crash
       PROVE  ReadInv'
  <2>1. PICK slots, torn \in SUBSET Labels : CrashLeaves(slots, torn)
    BY <1>10, CrashFacts
  <2>2. \A k \in Callers : call'[k].op = "idle"
    BY <1>0, <1>10 DEF Crash
  <2>3. edges' \subseteq edges /\ owed'.node = owed.node /\ owed'.torn = owed.torn \cup torn
        /\ \A n \in nodes \ nodes' : \A e \in edges' : e.graph = n[1] => e.graph \in torn
    BY <2>1 DEF CrashLeaves
  <2>4. ASSUME NEW e \in edges', NEW t, Held(e.graph, t) PROVE Held(e.graph, t)'
    <3>1. CASE <<e.graph, t>> \in nodes \ nodes'
        BY <2>3, <3>1 DEF Held
    <3>2. CASE <<e.graph, t>> \notin nodes \ nodes'
        BY <2>3, <2>4, <3>2 DEF Held
    <3>3. QED
        BY <3>1, <3>2
  <2>5. QED
    BY <2>2, <2>3, <2>4, ReadQuiet
<1>11. CASE UNCHANGED <<pool, call, history>>
    BY <1>11, ReadFrame DEF pool, history
<1>12. ASSUME NEW c \in Callers, NEW g \in Labels, DeleteL3(c, g)
       PROVE  ReadInv'
  <2>1. PICK n : n = [op |-> "delete", graph |-> g]
    OBVIOUS
  <2>2. n.op = "delete" /\ call' = [call EXCEPT ![c] = n] /\ UNCHANGED <<name, nodes, edges, owed>>
    BY <1>12, <2>1 DEF DeleteL3, pool, history
  <2>3. QED
    BY <1>1, <2>2
<1>13. ASSUME NEW c \in Callers, DeleteGraphFails(c)
       PROVE  ReadInv'
  <2>1. call' = [call EXCEPT ![c] = Idle] /\ UNCHANGED <<name, nodes, edges, owed>>
    BY <1>13 DEF DeleteGraphFails, Answer, pool, history
  <2> HIDE DEF Idle
  <2>2. QED
    BY <1>0, <1>1, <2>1
<1>14. QED
    BY <1>2, <1>3, <1>4, <1>5, <1>6, <1>7, <1>8, <1>9, <1>10, <1>11, <1>12, <1>13,
       ImportNodeRead, ImportRelationsRead
    DEF Next, vars, ClearAnchor, DeleteScene, MergeScenes, EnsureRegistered, Close, Open

\* A walk only ever visits what is held.
LEMMA WalkHeld ==
    ASSUME ReadInv, NEW g, NEW start, Held(g, start), NEW n \in Nat
    PROVE  \A t \in BfsWithinDepth(g, start, n) : Held(g, t)
<1> DEFINE Wider(S) == S \cup UNION {SubgraphAdjacency(g, t) : t \in S}
           E(w) == [d \in 0 .. n |-> IF d = 0 THEN {start} ELSE Wider(w[d - 1])]
           P(k, w) == w = [d \in 0 .. k |-> IF d = 0 THEN {start} ELSE Wider(w[d - 1])]
           Bad == {k \in 0 .. n : ~ \E w : P(k, w)}
<1>1. \A S : (\A t \in S : Held(g, t)) => \A t \in Wider(S) : Held(g, t)
    BY DEF ReadInv, SubgraphAdjacency
<1>2. BfsWithinDepth(g, start, n) = (CHOOSE w : w = E(w))[n]
    BY Zenon DEF BfsWithinDepth
<1> HIDE DEF Wider
<1>3. Bad = {}
  <2> SUFFICES ASSUME Bad # {} PROVE FALSE
    OBVIOUS
  <2>1. PICK m \in Bad : \A k \in Bad : m <= k
    <3>1. Bad \in SUBSET Nat
        OBVIOUS
    <3> HIDE DEF Bad
    <3>2. QED
        BY <3>1, NatSetHasMin
  <2>2. m \in 0 .. n
    OBVIOUS
  <2>3. CASE m = 0
    <3>1. PICK w : w = [d \in 0 .. 0 |-> {start}]
        OBVIOUS
    <3>2. P(0, w)
        BY <3>1
    <3> HIDE DEF P
    <3>3. QED
        BY <2>1, <2>3, <3>2
  <2>4. CASE m # 0
    <3>1. m - 1 \in 0 .. n /\ ~(m <= m - 1) /\ m - 1 \in Nat /\ m \in Nat
        BY <2>2, <2>4
    <3>2. PICK w : P(m - 1, w)
      <4> HIDE DEF P
      <4>1. QED
        BY <2>1, <3>1
    <3>3. PICK h : h = [d \in 0 .. m |-> IF d = m THEN Wider(w[m - 1]) ELSE w[d]]
        OBVIOUS
    <3>4. DOMAIN h = 0 .. m /\ h[m] = Wider(w[m - 1]) /\ \A d \in 0 .. (m - 1) : h[d] = w[d]
        BY <3>1, <3>3
    <3>5. ASSUME NEW d \in 0 .. m
          PROVE  h[d] = IF d = 0 THEN {start} ELSE Wider(h[d - 1])
      <4>1. CASE d = m
        <5>1. m - 1 \in 0 .. (m - 1)
            BY <3>1
        <5>2. QED
            BY <2>4, <3>4, <4>1, <5>1
      <4>2. CASE d # m
        <5>1. d \in 0 .. (m - 1) /\ (d # 0 => d - 1 \in 0 .. (m - 1))
            BY <3>1, <4>2
        <5>2. w[d] = IF d = 0 THEN {start} ELSE Wider(w[d - 1])
            BY <3>2, <5>1
        <5>3. QED
            BY <3>4, <5>1, <5>2
      <4>3. QED
        BY <4>1, <4>2
    <3>6. P(m, h)
        BY <3>3, <3>5
    <3> HIDE DEF P
    <3>7. QED
        BY <2>1, <3>6
  <2>5. QED
    BY <2>3, <2>4
<1>4. PICK w : w = CHOOSE v : v = E(v)
    OBVIOUS
<1>5. w = E(w)
  <2>1. \E v : P(n, v)
    <3>1. n \in 0 .. n
        OBVIOUS
    <3> HIDE DEF P
    <3>2. QED
        BY <1>3, <3>1
  <2>2. \E v : v = E(v)
    BY <2>1
  <2> HIDE DEF E
  <2>3. QED
    BY <1>4, <2>2
<1> DEFINE Out == {d \in 0 .. n : \E t \in w[d] : ~ Held(g, t)}
<1>6. Out = {}
  <2> SUFFICES ASSUME Out # {} PROVE FALSE
    OBVIOUS
  <2>1. PICK d \in Out : \A x \in Out : d <= x
    <3>1. Out \in SUBSET Nat
        OBVIOUS
    <3> HIDE DEF Out
    <3>2. QED
        BY <3>1, NatSetHasMin
  <2>2. d \in 0 .. n /\ w[d] = IF d = 0 THEN {start} ELSE Wider(w[d - 1])
    BY <1>5
  <2>3. d # 0
    BY <2>1, <2>2
  <2>4. d - 1 \in 0 .. n /\ ~(d <= d - 1)
    BY <2>2, <2>3
  <2>5. \A t \in w[d - 1] : Held(g, t)
    BY <2>1, <2>4
  <2>6. \A t \in w[d] : Held(g, t)
    BY <1>1, <2>2, <2>3, <2>5
  <2>7. QED
    BY <2>1, <2>6
<1>7. n \in 0 .. n
    OBVIOUS
<1>8. QED
    BY <1>2, <1>4, <1>6, <1>7
-----------------------------------------------------------------------------
(***************************************************************************)
(* The results.                                                            *)
(***************************************************************************)
\* The inductive invariant holds in every state: every action of the pool,
\* of the detach and of the scenes keeps its three parts.
THEOREM Invariance == Spec => []IInv
<1>1. Init => IInv
    BY InitOK
<1>2. IInv /\ [Next]_vars => IInv'
  <2> SUFFICES ASSUME IInv, [Next]_vars
               PROVE  IInv'
    OBVIOUS
  <2>1. TypeOK /\ PoolInv /\ ClockInv /\ AnchorInv
    BY DEF IInv, PoolInv
  <2>2. TypeOK' /\ LabelsUnique' /\ MembersHaveTheirGraph'
    BY <2>1, TypeStep, PoolStep
  <2>3. ClockInv' /\ AnchorInv'
    BY <2>1, ClockStep, AnchorStep
  <2>4. QED
    BY <2>2, <2>3 DEF IInv, PoolInv
<1>3. QED
    BY <1>1, <1>2, PTL DEF Spec

\* Records and calls keep their shapes, one import or deletion at a time holds
\* the pool's lock, and an import stays in its batch (lockSharedPool,
\* graph.Import).
THEOREM TypeCorrectness == Spec => []TypeOK
<1>1. IInv => TypeOK
    BY DEF IInv, PoolInv
<1>2. QED
    BY <1>1, Invariance, PTL

\* No two graphs ever carry one label, for any number of imports, renames and
\* deletions in any order (graphFor, CheckRename).
THEOREM LabelUniqueness == Spec => []LabelsUnique
<1>1. IInv => LabelsUnique
    BY DEF IInv, PoolInv
<1>2. QED
    BY <1>1, Invariance, PTL

\* A node or an edge outlives its graph's slot only where power failed inside
\* the batch of tombstones that was deleting that graph, and no longer than to
\* the next deletion of it (DeleteGraphL3, recovery of a part of the batch).
THEOREM MembersStayWithGraph == Spec => []MembersHaveTheirGraph
<1>1. IInv => MembersHaveTheirGraph
    BY DEF IInv, PoolInv
<1>2. QED
    BY <1>1, Invariance, PTL

\* A graph's UpdatedAt is when it last changed, unless its stamp is owed or
\* the import that owes it still runs (StampChanged at the end of ImportL3).
THEOREM ClockCorrectness == Spec => []ClockFollowsContent
<1>1. IInv => ClockFollowsContent
    BY DEF IInv, ClockInv
<1>2. QED
    BY <1>1, Invariance, PTL

\* A scene names a graph that is gone only where the deletion has yet to come
\* by, failed or was cut short by a power failure, or found the database
\* closed, whatever the order of the deletion and the anchor's own write
\* (detachGraphAnchors, UpdateScene).
THEOREM AnchorCorrectness == Spec => []AnchorsNameGraphs
<1>1. IInv => AnchorsNameGraphs
    BY DEF IInv, AnchorInv
<1>2. QED
    BY <1>1, Invariance, PTL

\* Every member of an edge is stored or its import was answered with an error,
\* at every point of every import, save in a graph whose deletion a power
\* failure cut in two (Import's two passes, DeleteGraphL3).
THEOREM EdgesAreHeld == Spec => [](IInv /\ ReadInv)
<1>1. Init => ReadInv
  <2> SUFFICES ASSUME Init PROVE ReadInv
    OBVIOUS
  <2>1. edges = {} /\ \A c \in Callers : call[c].op = "idle"
    BY DEF Init, Idle
  <2>2. QED
    BY <2>1 DEF ReadInv
<1>2. IInv /\ ReadInv /\ [Next]_vars => ReadInv'
    BY ReadStep DEF IInv, PoolInv
<1>3. QED
    BY <1>1, <1>2, Invariance, PTL DEF Spec

\* A walk of any depth from any stored node reads back every node it visits,
\* except one whose own import was answered with an error, and except in a
\* graph whose deletion a power failure cut in two.
WalksReadBack ==
    \A depth \in Nat : \A n \in nodes : n[1] \notin owed.torn =>
        \A t \in BfsWithinDepth(n[1], n[2], depth) : <<n[1], t>> \in nodes \cup owed.node

\* No walk of QueryL3Subgraph, however deep, meets a node that is not there and
\* was not refused, in a graph that is not left half deleted (bfsWithinDepth).
THEOREM EveryWalkReadsBack == Spec => []WalksReadBack
<1>1. IInv /\ ReadInv => WalksReadBack
  <2> SUFFICES ASSUME IInv, ReadInv, NEW depth \in Nat, NEW n \in nodes, n[1] \notin owed.torn
               PROVE  \A t \in BfsWithinDepth(n[1], n[2], depth) : <<n[1], t>> \in nodes \cup owed.node
    BY DEF WalksReadBack
  <2>1. n \in Labels \X Titles
    BY DEF IInv, PoolInv, TypeOK, Nodes
  <2>2. PICK g, x : g = n[1] /\ x = n[2] /\ n = <<g, x>>
    BY <2>1
  <2>3. Held(g, x)
    BY <2>2 DEF Held
  <2>4. \A t \in BfsWithinDepth(g, x, depth) : Held(g, t)
    BY <2>3, WalkHeld
  <2>5. QED
    BY <2>2, <2>4 DEF Held
<1>2. QED
    BY <1>1, EdgesAreHeld, PTL

\* An unbounded walk reads back every node it visits, when there are finitely
\* many titles: then their number bounds every walk.
THEOREM SubgraphsReadBack == IsFiniteSet(Titles) => (Spec => []SubgraphReadsBack)
<1> SUFFICES ASSUME IsFiniteSet(Titles) PROVE Spec => []SubgraphReadsBack
    OBVIOUS
<1>1. Cardinality(Titles) \in Nat
    BY FS_CardinalityType
<1>2. WalksReadBack => SubgraphReadsBack
    BY <1>1 DEF WalksReadBack, SubgraphReadsBack
<1>3. QED
    BY <1>2, EveryWalkReadsBack, PTL
=============================================================================
