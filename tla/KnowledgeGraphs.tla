-------------------------- MODULE KnowledgeGraphs --------------------------
(***************************************************************************)
(* The file-wide pool of knowledge graphs (L3) and the anchors by which    *)
(* scenes of every domain name a graph.  Imports, renames and deletions    *)
(* serialise on the pool's lock; an anchor is validated and written under  *)
(* the lock of the scene's own domain, and no call ever holds two of these *)
(* locks, so a graph may go while an anchor on it is being written.        *)
(*                                                                         *)
(* A graph's id derives from the label it was first imported under: the    *)
(* label stands for the id.  A node's id derives from its graph and title, *)
(* an edge's from its graph and members; they stand for themselves.  All   *)
(* edges are of one kind.  The fields an import merges into a node it      *)
(* finds are left out, the write is not.                                   *)
(*                                                                         *)
(* Source: internal/l3.go, l3query.go, graph/import.go, graph/query.go,    *)
(* repo/l3layer.go, scene/delete.go, scene/scene.go, l2.go.                *)
(***************************************************************************)
EXTENDS Integers, Sequences, FiniteSets

CONSTANTS
    Callers,    \* goroutines of the host
    Labels,     \* domain labels, and the graph ids derived from them
    Titles,     \* node titles
    Owner,      \* scene -> the agent domain it belongs to
    Batches,    \* what may be imported: sequences of [domain, title, related]
    Default,    \* the default domain, always there
    None,       \* no anchor, no graph
    Absent,     \* no such scene
    Failing,    \* which troubles may happen
    MaxCalls,   \* bound: calls on the pool that change it
    MaxTrouble  \* bound: refused writes, crashes and closes

Scenes  == DOMAIN Owner
Domains == {Owner[s] : s \in Scenes} \cup {Default}
Nodes   == Labels \X Titles
Edges   == [graph : Labels, members : SUBSET Titles]
Items   == [domain : Labels, title : Titles, related : SUBSET Titles]

ASSUME ConstantsOK ==
    /\ Batches \subseteq Seq(Items) \ {<<>>}
    /\ None \notin Labels /\ Absent \notin Labels \cup {None}
    /\ MaxCalls \in Nat /\ MaxTrouble \in Nat

VARIABLES
    name,       \* graph slots: id -> label, None when there is no slot
    updatedAt,  \* graph slots: id -> the clock of its content
    nodes,
    edges,
    anchor,     \* scene slots: scene -> graph id, None, or Absent
    registered, \* domains the registry names
    closed,
    call,       \* what each caller is in the middle of
    now,        \* the clock: calls on the pool so far
    trouble,
    changedAt,  \* history: when a graph's content or label last changed
    owed        \* history: what refused writes, crashes and closes left undone

pool    == <<name, updatedAt, nodes, edges>>
history == <<changedAt, owed>>
vars    == <<pool, anchor, registered, closed, call, now, trouble, history>>

Idle   == [op |-> "idle"]
Graphs == {g \in Labels : name[g] # None}
Answer(c) == call' = [call EXCEPT ![c] = Idle]
Fails(what) == what \in Failing /\ trouble < MaxTrouble /\ trouble' = trouble + 1

Init ==
    /\ name = [g \in Labels |-> None] /\ updatedAt = [g \in Labels |-> 0]
    /\ nodes = {} /\ edges = {}
    /\ anchor = [s \in Scenes |-> Absent]
    /\ registered = {Default} /\ closed = FALSE
    /\ call = [c \in Callers |-> Idle]
    /\ now = 0 /\ trouble = 0
    /\ changedAt = [g \in Labels |-> 0]
    /\ owed = [stamp |-> {}, node |-> {}, detach |-> {}, skipped |-> {}, torn |-> {}]

(***************************************************************************)
(* Locks: an import holds the pool's lock from its first read to its last  *)
(* write, a deletion over its batch, an anchoring call its domain's.       *)
(* Everything else is one step.                                            *)
(***************************************************************************)
Importing(c) == call[c].op \in {"nodes", "relations", "stamp"}
Deleting(c)  == call[c].op = "delete"
HoldsPool(c) == call[c].op \in {"nodes", "relations", "stamp", "delete"}

PoolFree == \A c \in Callers : ~ HoldsPool(c)

\* Mutant: the detach visits a domain without taking its lock.
DomainFree_NoLock(d) == TRUE

DomainFree(d) == \A c \in Callers : call[c].op = "anchor" => Owner[call[c].scene] # d

LockSharedPool(c) == call[c] = Idle /\ ~closed /\ PoolFree /\ now < MaxCalls /\ now' = now + 1
LockAgent(c, d) == call[c] = Idle /\ ~closed /\ d \in registered /\ DomainFree(d)

(***************************************************************************)
(* ImportL3: nodes first, then relations, then one stamp per changed       *)
(* graph.  The batch's indexes of titles and edge keys are read under the  *)
(* lock and follow every write of the batch, so the pool stands for them.  *)
(***************************************************************************)
Named(l) == {g \in Graphs : name[g] = l}

\* Of two graphs under one label the one whose id derives from it is meant.
GraphFor(l) == IF Named(l) = {} \/ l \in Named(l) THEN l ELSE CHOOSE g \in Named(l) : TRUE

ImportL3(c, items, skip) ==
    /\ LockSharedPool(c)
    /\ call' = [call EXCEPT ![c] =
           [op |-> "nodes", items |-> items, skip |-> skip, i |-> 1, changed |-> {}]]
    /\ UNCHANGED <<pool, anchor, registered, closed, trouble, history>>

\* The next item, or the next pass over the batch.
Advance(c, next, changed) ==
    LET b == call[c]
    IN  call' = [call EXCEPT ![c] =
            IF b.i < Len(b.items) THEN [b EXCEPT !.i = @ + 1, !.changed = changed]
                                  ELSE [b EXCEPT !.i = 1, !.op = next, !.changed = changed]]

\* A slot that exists is reused as it stands, whatever its label is by now.
EnsureGraphL3(g) ==
    IF g \in Graphs
    THEN UNCHANGED <<name, updatedAt, changedAt>>
    ELSE /\ name' = [name EXCEPT ![g] = g]
         /\ updatedAt' = [updatedAt EXCEPT ![g] = now]
         /\ changedAt' = [changedAt EXCEPT ![g] = now]

EnsureGraphFails(c, g, t) ==
    /\ g \notin Graphs /\ Fails("slot")
    /\ owed' = [owed EXCEPT !.node = @ \cup {<<g, t>>}]
    /\ Advance(c, "relations", call[c].changed)
    /\ UNCHANGED <<pool, changedAt>>

SkipNode(c, g, t) ==
    /\ call[c].skip /\ <<g, t>> \in nodes
    /\ Advance(c, "relations", call[c].changed)
    /\ UNCHANGED <<pool, trouble, history>>

\* CreateNodeL3, or MutateNodeL3 on a node that is there.
StoreNode(c, g, t) ==
    /\ <<g, t>> \in nodes => ~call[c].skip
    /\ nodes' = nodes \cup {<<g, t>>}
    /\ name' = [name EXCEPT ![g] = IF g \in Graphs THEN @ ELSE g]
    /\ updatedAt' = [updatedAt EXCEPT ![g] = IF g \in Graphs THEN @ ELSE now]
    /\ changedAt' = [changedAt EXCEPT ![g] = now]
    /\ owed' = [owed EXCEPT !.node = @ \ {<<g, t>>}]
    /\ Advance(c, "relations", call[c].changed \cup {g})
    /\ UNCHANGED <<edges, trouble>>

StoreNodeFails(c, g, t) ==
    /\ <<g, t>> \in nodes => ~call[c].skip
    /\ Fails("node")
    /\ EnsureGraphL3(g)
    /\ owed' = [owed EXCEPT !.node = @ \cup ({<<g, t>>} \ nodes)]
    /\ Advance(c, "relations", call[c].changed)
    /\ UNCHANGED <<nodes, edges>>

ImportNode(c) ==
    /\ call[c].op = "nodes"
    /\ LET item == call[c].items[call[c].i]
           g    == GraphFor(item.domain)
       IN  \/ EnsureGraphFails(c, g, item.title)
           \/ SkipNode(c, g, item.title)
           \/ StoreNode(c, g, item.title)
           \/ StoreNodeFails(c, g, item.title)
    /\ UNCHANGED <<anchor, registered, closed, now>>

\* Mutant: targets are taken on the host's word.
RelationMembers_Unresolved(g, source, targets) ==
    IF targets # {} /\ source \notin targets THEN {source} \cup targets ELSE {}

\* A relation's targets must be nodes of the graph other than its source.
RelationMembers(g, source, targets) ==
    IF targets # {} /\ source \notin targets /\ \A t \in targets : <<g, t>> \in nodes
    THEN {source} \cup targets
    ELSE {}

ImportRelations(c) ==
    LET item    == call[c].items[call[c].i]
        g       == GraphFor(item.domain)
        members == RelationMembers(g, item.title, item.related)
        edge    == [graph |-> g, members |-> members]
        creates == g \in Graphs /\ members # {} /\ edge \notin edges
    IN
    /\ call[c].op = "relations"
    /\ \/ /\ creates
          /\ edges' = edges \cup {edge}
          /\ changedAt' = [changedAt EXCEPT ![g] = now]
          /\ Advance(c, "stamp", call[c].changed \cup {g})
          /\ UNCHANGED trouble
       \/ /\ creates => Fails("edge")
          /\ ~creates => UNCHANGED trouble
          /\ Advance(c, "stamp", call[c].changed)
          /\ UNCHANGED <<edges, changedAt>>
    /\ UNCHANGED <<name, updatedAt, nodes, anchor, registered, closed, now, owed>>

\* Mutant: every graph the batch resolved is stamped, changed or not.
StampChanged_Touched(c) ==
    /\ call[c].op = "stamp"
    /\ LET touched == {GraphFor(call[c].items[i].domain) : i \in 1 .. Len(call[c].items)}
       IN  updatedAt' = [g \in Labels |-> IF g \in touched \cap Graphs THEN now ELSE updatedAt[g]]
    /\ Answer(c)
    /\ UNCHANGED <<name, nodes, edges, anchor, registered, closed, now, trouble, history>>

\* Failed stamps are reported and undo nothing.
StampChanged(c) ==
    /\ call[c].op = "stamp"
    /\ \E lost \in SUBSET call[c].changed :
           /\ IF lost = {} THEN UNCHANGED trouble ELSE Fails("stamp")
           /\ updatedAt' = [g \in Labels |->
                  IF g \in call[c].changed \ lost THEN now ELSE updatedAt[g]]
           /\ owed' = [owed EXCEPT !.stamp = (@ \ call[c].changed) \cup lost]
    /\ Answer(c)
    /\ UNCHANGED <<name, nodes, edges, anchor, registered, closed, now, changedAt>>

(***************************************************************************)
(* UpdateL3 renames a graph; a label another graph carries is refused, and *)
(* the graph's own label writes nothing.                                   *)
(***************************************************************************)
\* Mutant: another graph's label is not refused.
CheckRename_OwnLabelOnly(g, l) == g \in Graphs /\ name[g] # l

CheckRename(g, l) == g \in Graphs /\ Named(l) = {}

UpdateL3(c, g, l) ==
    /\ LockSharedPool(c) /\ CheckRename(g, l)
    /\ name' = [name EXCEPT ![g] = l]
    /\ updatedAt' = [updatedAt EXCEPT ![g] = now']
    /\ changedAt' = [changedAt EXCEPT ![g] = now']
    /\ owed' = [owed EXCEPT !.stamp = @ \ {g}]
    /\ UNCHANGED <<nodes, edges, anchor, registered, closed, call, trouble>>

(***************************************************************************)
(* DeleteL3: one tombstone for each node, each edge and the slot, appended *)
(* together and flushed once under the pool's lock; then the anchors,      *)
(* domain by domain.  Until the flush a power failure keeps any part of    *)
(* the tombstones.                                                         *)
(***************************************************************************)
NodesOf(g) == {n \in nodes : n[1] = g}
EdgesOf(g) == {e \in edges : e.graph = g}

DeleteL3(c, g) ==
    /\ LockSharedPool(c) /\ g \in Graphs
    /\ call' = [call EXCEPT ![c] = [op |-> "delete", graph |-> g]]
    /\ UNCHANGED <<pool, anchor, registered, closed, trouble, history>>

\* Mutant: the cascade forgets the edges.
DeleteGraphL3_KeepsEdges(c) ==
    LET g == call[c].graph IN
    /\ Deleting(c)
    /\ name' = [name EXCEPT ![g] = None] /\ updatedAt' = [updatedAt EXCEPT ![g] = 0]
    /\ nodes' = nodes \ NodesOf(g) /\ edges' = edges
    /\ changedAt' = [changedAt EXCEPT ![g] = 0]
    /\ owed' = [owed EXCEPT !.stamp = @ \ {g}, !.node = {n \in @ : n[1] # g}, !.torn = @ \ {g}]
    /\ call' = [call EXCEPT ![c] = [op |-> "targets", graph |-> g]]
    /\ UNCHANGED <<anchor, registered, closed, now, trouble>>

DeleteGraphL3(c) ==
    LET g == call[c].graph IN
    /\ Deleting(c)
    /\ name' = [name EXCEPT ![g] = None] /\ updatedAt' = [updatedAt EXCEPT ![g] = 0]
    /\ nodes' = nodes \ NodesOf(g) /\ edges' = edges \ EdgesOf(g)
    /\ changedAt' = [changedAt EXCEPT ![g] = 0]
    /\ owed' = [owed EXCEPT !.stamp = @ \ {g}, !.node = {n \in @ : n[1] # g}, !.torn = @ \ {g}]
    /\ call' = [call EXCEPT ![c] = [op |-> "targets", graph |-> g]]
    /\ UNCHANGED <<anchor, registered, closed, now, trouble>>

\* The engine refuses the batch and the call answers its error.
DeleteGraphFails(c) ==
    /\ Deleting(c) /\ Fails("delete")
    /\ Answer(c)
    /\ UNCHANGED <<pool, anchor, registered, closed, now, history>>

\* detachGraphAnchors takes the list of domains under agentsMu.
DetachTargets(c) ==
    /\ call[c].op = "targets"
    /\ call' = [call EXCEPT ![c] = [op |-> "detach", graph |-> call[c].graph, left |-> registered]]
    /\ UNCHANGED <<pool, anchor, registered, closed, now, trouble, history>>

\* One domain is behind the call.
Visited(c, d) ==
    LET left == call[c].left \ {d}
    IN  call' = [call EXCEPT ![c] = IF left = {} THEN Idle ELSE [@ EXCEPT !.left = left]]

AnchoredOn(d, g) == {s \in Scenes : Owner[s] = d /\ anchor[s] = g}

\* A scene whose rewrite fails keeps its anchor; the others lose theirs.
DetachGraph(c, d) ==
    /\ call[c].op = "detach" /\ d \in call[c].left
    /\ ~closed /\ DomainFree(d)
    /\ LET g == call[c].graph IN
       \E lost \in SUBSET AnchoredOn(d, g) :
           /\ IF lost = {} THEN UNCHANGED trouble ELSE Fails("detach")
           /\ anchor' = [s \in Scenes |-> IF s \in AnchoredOn(d, g) \ lost THEN None ELSE anchor[s]]
           /\ owed' = [owed EXCEPT !.detach = @ \cup {<<d, g>> : s \in lost}]
    /\ Visited(c, d)
    /\ UNCHANGED <<pool, registered, closed, now, changedAt>>

\* lockAgent refuses: the domain is passed over without an error.
DetachSkips(c, d) ==
    /\ call[c].op = "detach" /\ d \in call[c].left
    /\ closed
    /\ owed' = [owed EXCEPT !.skipped = @ \cup {<<d, call[c].graph>>}]
    /\ Visited(c, d)
    /\ UNCHANGED <<pool, anchor, registered, closed, now, trouble, changedAt>>

(***************************************************************************)
(* Scenes, as far as their anchors go.                                     *)
(***************************************************************************)
\* Search opening a scene on a graph, or UpdateScene: the graph is read
\* under the domain's lock, and the scene written later under the same lock.
ReadAnchor(c, s, g, force) ==
    /\ LockAgent(c, Owner[s])
    /\ g \in Graphs
    /\ anchor[s] \in {Absent, None, g} \/ force
    /\ call' = [call EXCEPT ![c] = [op |-> "anchor", scene |-> s, graph |-> g]]
    /\ UNCHANGED <<pool, anchor, registered, closed, now, trouble, history>>

WriteAnchor(c) ==
    /\ call[c].op = "anchor"
    /\ anchor' = [anchor EXCEPT ![call[c].scene] = call[c].graph]
    /\ Answer(c)
    /\ UNCHANGED <<pool, registered, closed, now, trouble, history>>

\* UpdateScene with an empty graph id.
ClearAnchor(c, s) ==
    /\ LockAgent(c, Owner[s]) /\ anchor[s] \in Labels
    /\ anchor' = [anchor EXCEPT ![s] = None]
    /\ UNCHANGED <<pool, registered, closed, call, now, trouble, history>>

\* The survivor keeps its anchor, or takes the one the others agree on.
MergedAnchor(s, others) ==
    LET distinct == {anchor[o] : o \in others} \ {None}
    IN  IF anchor[s] # None THEN {anchor[s]}
        ELSE IF distinct = {} THEN {None}
        ELSE IF Cardinality(distinct) = 1 THEN distinct
        ELSE {}

MergeScenes(c, s, others) ==
    /\ LockAgent(c, Owner[s])
    /\ s \notin others /\ others # {}
    /\ \A o \in others \cup {s} : Owner[o] = Owner[s] /\ anchor[o] # Absent
    /\ \E g \in MergedAnchor(s, others) :
           anchor' = [o \in Scenes |-> IF o \in others THEN Absent ELSE IF o = s THEN g ELSE anchor[o]]
    /\ UNCHANGED <<pool, registered, closed, call, now, trouble, history>>

DeleteScene(c, s) ==
    /\ LockAgent(c, Owner[s]) /\ anchor[s] # Absent
    /\ anchor' = [anchor EXCEPT ![s] = Absent]
    /\ UNCHANGED <<pool, registered, closed, call, now, trouble, history>>

(***************************************************************************)
(* The database around them.                                               *)
(***************************************************************************)
EnsureRegistered(d) ==
    /\ ~closed /\ d \notin registered
    /\ registered' = registered \cup {d}
    /\ UNCHANGED <<pool, anchor, closed, call, now, trouble, history>>

\* Calls that hold a lock finish; the others are refused from here on.
Close ==
    /\ ~closed /\ Fails("close")
    /\ closed' = TRUE
    /\ UNCHANGED <<pool, anchor, registered, call, now, history>>

Open ==
    /\ closed /\ \A c \in Callers : call[c] = Idle
    /\ closed' = FALSE
    /\ UNCHANGED <<pool, anchor, registered, call, now, trouble, history>>

\* The domains a deletion has yet to visit.
Left(c) == CASE call[c].op = "targets" -> registered
             [] call[c].op = "detach"  -> call[c].left
             [] OTHER                  -> {}

\* What the calls under way leave undone when they end where they stand: stamps,
\* visits to domains, and deletions inside their batch.
StampsAhead == UNION {call[c].changed : c \in {k \in Callers : Importing(k)}}
VisitsAhead == UNION {{<<d, call[c].graph>> : d \in Left(c)} : c \in {k \in Callers : Left(k) # {}}}
Doomed      == {call[c].graph : c \in {k \in Callers : Deleting(k)}}

\* The graphs of which the tombstones that survived took a part: something of
\* theirs is lost and something is left.
Torn(slots, lostNodes, lostEdges) ==
    {g \in Doomed :
        /\ g \in slots \/ NodesOf(g) \cap lostNodes # {} \/ EdgesOf(g) \cap lostEdges # {}
        /\ g \notin slots \/ NodesOf(g) \ lostNodes # {} \/ EdgesOf(g) \ lostEdges # {}}

\* Power fails and the file is opened again: calls end where they stand, and
\* of a batch of tombstones not yet flushed any part is found.
Crash ==
    /\ Fails("crash")
    /\ call' = [c \in Callers |-> Idle] /\ closed' = FALSE
    /\ \E slots \in SUBSET Doomed, lostNodes \in SUBSET {n \in nodes : n[1] \in Doomed},
          lostEdges \in SUBSET {e \in edges : e.graph \in Doomed} :
           LET torn == Torn(slots, lostNodes, lostEdges) IN
           /\ name' = [g \in Labels |-> IF g \in slots THEN None ELSE name[g]]
           /\ updatedAt' = [g \in Labels |-> IF g \in slots THEN 0 ELSE updatedAt[g]]
           /\ nodes' = nodes \ lostNodes /\ edges' = edges \ lostEdges
           /\ changedAt' = [g \in Labels |-> IF g \in slots THEN 0 ELSE IF g \in torn THEN now
                                             ELSE changedAt[g]]
           /\ owed' = [owed EXCEPT
                  !.stamp = ((@ \cup torn) \ slots) \cup StampsAhead,
                  !.detach = @ \cup (registered \X slots) \cup VisitsAhead,
                  !.torn = @ \cup torn]
    /\ UNCHANGED <<anchor, registered, now>>

Next ==
    \/ \E c \in Callers :
           \/ \E items \in Batches, skip \in BOOLEAN : ImportL3(c, items, skip)
           \/ ImportNode(c) \/ ImportRelations(c) \/ StampChanged(c)
           \/ \E g, l \in Labels : UpdateL3(c, g, l)
           \/ \E g \in Labels : DeleteL3(c, g)
           \/ DeleteGraphL3(c) \/ DeleteGraphFails(c) \/ DetachTargets(c)
           \/ \E d \in Domains : DetachGraph(c, d) \/ DetachSkips(c, d)
           \/ \E s \in Scenes, g \in Labels, force \in BOOLEAN : ReadAnchor(c, s, g, force)
           \/ WriteAnchor(c)
           \/ \E s \in Scenes : ClearAnchor(c, s) \/ DeleteScene(c, s)
           \/ \E s \in Scenes, others \in SUBSET Scenes : MergeScenes(c, s, others)
    \/ \E d \in Domains : EnsureRegistered(d)
    \/ Close \/ Open \/ Crash

Spec == Init /\ [][Next]_vars

(***************************************************************************)
(* Reading: QueryL3Subgraph walks from a node over the edges of its graph. *)
(***************************************************************************)
SubgraphAdjacency(g, t) == UNION {e.members : e \in {x \in edges : x.graph = g /\ t \in x.members}}

BfsWithinDepth(g, start, maxDepth) ==
    LET Walk[depth \in 0 .. maxDepth] ==
            IF depth = 0 THEN {start}
            ELSE Walk[depth - 1] \cup UNION {SubgraphAdjacency(g, t) : t \in Walk[depth - 1]}
    IN  Walk[maxDepth]

(***************************************************************************)
(* Properties.                                                             *)
(***************************************************************************)
Calls ==
    {Idle}
    \cup [op : {"nodes", "relations", "stamp"}, items : Batches, skip : BOOLEAN, i : Nat \ {0},
          changed : SUBSET Labels]
    \cup [op : {"delete", "targets"}, graph : Labels]
    \cup [op : {"detach"}, graph : Labels, left : SUBSET Domains]
    \cup [op : {"anchor"}, scene : Scenes, graph : Labels]

\* The shape of the records and calls; at most one caller holds the pool's
\* lock and at most one the lock of a domain, and an import stays in its batch.
TypeOK ==
    /\ name \in [Labels -> Labels \cup {None}] /\ updatedAt \in [Labels -> 0 .. now]
    /\ nodes \subseteq Nodes /\ edges \subseteq Edges
    /\ anchor \in [Scenes -> Labels \cup {None, Absent}]
    /\ Default \in registered /\ registered \subseteq Domains /\ closed \in BOOLEAN
    /\ call \in [Callers -> Calls]
    /\ \A c \in Callers : call[c].op \in {"nodes", "relations"} => call[c].i <= Len(call[c].items)
    /\ \A c, k \in Callers : HoldsPool(c) /\ HoldsPool(k) => c = k
    /\ now \in 0 .. MaxCalls /\ trouble \in 0 .. MaxTrouble
    /\ changedAt \in [Labels -> 0 .. now]
    /\ owed \in [stamp : SUBSET Labels, node : SUBSET Nodes,
                 detach : SUBSET (Domains \X Labels), skipped : SUBSET (Domains \X Labels),
                 torn : SUBSET Labels]

\* A label is how an import finds its graph, and two graphs never carry the
\* same one: not when a renamed graph gave its first label up, and not when
\* that label is imported again or claimed by another rename.
LabelsUnique == \A g, h \in Graphs : name[g] = name[h] => g = h

\* A deleted graph leaves nothing behind that a graph imported later under
\* the same label would take for its own: a node or an edge has its slot,
\* unless power failed inside the batch that was deleting that very graph and
\* no deletion of it has gone through since.
MembersHaveTheirGraph ==
    /\ \A n \in nodes : n[1] \in Graphs \cup owed.torn
    /\ \A e \in edges : e.graph \in Graphs \cup owed.torn

\* An unbounded walk from any stored node reads back every node it visits,
\* except one whose own import was answered with an error, and except in a
\* graph whose deletion a power failure cut in two.
SubgraphReadsBack ==
    \A n \in nodes : n[1] \notin owed.torn =>
        \A t \in BfsWithinDepth(n[1], n[2], Cardinality(Titles)) : <<n[1], t>> \in nodes \cup owed.node

\* What QueryL3Subgraph takes for granted (l3query.go:125): an edge is only
\* written over nodes the import that created it had in hand.
EdgesJoinStoredNodes == \A e \in edges : \A t \in e.members : <<e.graph, t>> \in nodes

\* UpdatedAt is a clock of the content: it answers when the graph last
\* changed, neither earlier (a change without its stamp) nor later (a stamp
\* for an import that only read), save where the stamp itself failed or the
\* import that owes it is still running.
ClockFollowsContent ==
    \A g \in Graphs :
        \/ updatedAt[g] = changedAt[g]
        \/ g \in owed.stamp
        \/ \E c \in Callers : Importing(c) /\ g \in call[c].changed

\* Is a deletion still on its way to the anchors of domain d?
DetachAhead(d, g) ==
    \E c \in Callers : d \in Left(c) /\ call[c].graph = g

Dangling(s) == anchor[s] \in Labels \ Graphs

\* A scene never names a graph that is gone, unless the deletion that took
\* the graph has yet to visit the scene's domain, or said it could not, or
\* found the database closed: an anchor written while its graph was being
\* deleted is either seen by the detach or refused.
AnchorsNameGraphs ==
    \A s \in Scenes : Dangling(s) =>
        \/ DetachAhead(Owner[s], anchor[s])
        \/ <<Owner[s], anchor[s]>> \in owed.detach \cup owed.skipped

\* The same without the excuse of a closing database: "its records are gone
\* or going, so there is no anchor left to clear" (l3.go:233).
NoAnchorSkipped ==
    \A s \in Scenes : Dangling(s) =>
        \/ DetachAhead(Owner[s], anchor[s])
        \/ <<Owner[s], anchor[s]>> \in owed.detach
=============================================================================
