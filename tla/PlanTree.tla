------------------------------ MODULE PlanTree ------------------------------
(***************************************************************************)
(* One turn's plan tree (L5): its node records, the plan cache that serves *)
(* every read of them, the content records (L4) that name a step, the      *)
(* rollup of summaries after an update, and the two retention sweeps of a  *)
(* Dream.  The domain lock serialises the calls; a rollup is one write per *)
(* fold, so it may fail or the process may die between two of them.  The   *)
(* content mirror agrees with the content records between calls (module    *)
(* DomainMemory), so one variable stands for both.                         *)
(*                                                                         *)
(* Source: internal/l5.go, l4.go, plan/, domain/plancache.go,              *)
(* repo/l5layer.go, dream/prune.go.                                        *)
(***************************************************************************)
EXTENDS Integers, Sequences, FiniteSets, FiniteSetsExt, SequencesExt

CONSTANTS
    Texts,      \* summaries a host may state
    Window,     \* the retention window
    MaxSeq,     \* bound: plan ordinals
    MaxSlot,    \* bound: content slots
    MaxClock,   \* bound: the wall clock
    MaxTrouble  \* bound: failing fold writes and restarts

ASSUME ConstantsOK ==
    /\ Window \in Nat /\ MaxSeq \in Nat /\ MaxSlot \in Nat
    /\ MaxClock \in Nat /\ MaxTrouble \in Nat

VARIABLES
    nodes,      \* plan node records: ordinal -> node
    cache,      \* PlanCache: the same, as every read sees it
    content,    \* content slot -> [node, at, owner]: the step it names
    clock,
    op,         \* the nodes the rollup of the call in flight has still to visit
    born,       \* history: ordinal -> how many steps have had it
    said,       \* history: ordinal -> the summary the host stated last
    rolled,     \* history: the last update's rollup ran to its end
    trouble

vars == <<nodes, cache, content, clock, op, born, said, rolled, trouble>>

Ordinals == 1..MaxSeq
Statuses == {"in_progress", "done", "failed"}
IsTerminalStatus(s) == s \in {"done", "failed"}

\* A summary is the sequence of the host texts it is joined from; << >> is the
\* blank one.  Titles and the creation and finish stamps decide nothing.
Blank == << >>
PlanNode ==
    [parent : 0..MaxSeq, status : Statuses, summary : Seq(Texts), folded : BOOLEAN,
     updated : Nat, over : Nat]

Put(f, k, v) == [x \in DOMAIN f \cup {k} |-> IF x = k THEN v ELSE f[x]]
Drop(f, K)   == [x \in DOMAIN f \ K |-> f[x]]
Nothing      == [x \in {} |-> 0]

(***************************************************************************)
(* Reading the tree.                                                       *)
(***************************************************************************)
HasSeq(seq) == seq \in DOMAIN cache

Children(f, seq) == {c \in DOMAIN f : f[c].parent = seq}

\* The branch under a step, the step included, whether or not its record lives.
Subtree(seq) ==
    LET Below[S \in SUBSET Ordinals] ==
            LET T == S \cup UNION {Children(cache, s) : s \in S}
            IN  IF T = S THEN S ELSE Below[T]
    IN  Below[{seq}]

\* What a content read filtered by a step answers.
SearchL4(seq) == {k \in DOMAIN content : content[k].node \in Subtree(seq)}

MaxNodeSeq == Max({0} \cup {content[k].node : k \in DOMAIN content})

\* Mutant: an ordinal content still names is given out again.
NextSeq_LiveNodesOnly == Max({0} \cup DOMAIN cache) + 1

\* Mutant: the first gap is filled.
NextSeq_FirstFree == Min((1..(MaxSeq + 1)) \ DOMAIN cache)

NextSeq == Max({MaxNodeSeq} \cup DOMAIN cache) + 1

\* Roots are the nodes without a live parent; a step comes after its children,
\* siblings in the order they were created.  InOrder joins the parts of S so.
Forest(f) == {n \in DOMAIN f : f[n].parent \notin DOMAIN f}
InOrder(S, part) == FlattenSeq([n \in Ordinals |-> IF n \in S THEN part[n] ELSE << >>])

\* Mutant: parents fold before their children.
PostOrder_ParentsFirst(f) == InOrder(DOMAIN f, [n \in Ordinals |-> <<n>>])

PostOrder(f) ==
    LET Visit[n \in DOMAIN f] == InOrder(Children(f, n), Visit) \o <<n>>
    IN  InOrder(Forest(f), Visit)

Before(f, m, n) ==
    LET order == PostOrder(f)
    IN  \E i, j \in DOMAIN order : i < j /\ order[i] = m /\ order[j] = n

(***************************************************************************)
(* Writing it: the record, then the cache.                                 *)
(***************************************************************************)
Ready == op = {}

WriteNode(seq, node) ==
    /\ nodes' = Put(nodes, seq, node)
    /\ cache' = Put(cache, seq, node)

Init ==
    /\ nodes = Nothing /\ cache = Nothing /\ content = Nothing
    /\ clock = 0 /\ op = {}
    /\ born = [n \in Ordinals |-> 0] /\ said = [n \in Ordinals |-> Blank]
    /\ rolled = TRUE /\ trouble = 0

\* A new step is in progress, so nothing folds.
CreateNode(parent) ==
    /\ Ready /\ NextSeq \in Ordinals
    /\ parent # 0 => HasSeq(parent)
    /\ WriteNode(NextSeq, [parent |-> parent, status |-> "in_progress", summary |-> Blank,
                           folded |-> FALSE, updated |-> clock,
                           over |-> IF parent = 0 THEN 0 ELSE born[parent]])
    /\ born' = [born EXCEPT ![NextSeq] = @ + 1]
    /\ said' = [said EXCEPT ![NextSeq] = Blank]
    /\ UNCHANGED <<content, clock, op, rolled, trouble>>

\* Mutant: a stated summary stays marked as the library's.
Restated_KeepsMark(node, status, text) ==
    [node EXCEPT !.status = status, !.updated = clock,
                 !.summary = IF text = Blank THEN @ ELSE text]

Restated(node, status, text) ==
    [node EXCEPT !.status = status, !.updated = clock,
                 !.summary = IF text = Blank THEN @ ELSE text,
                 !.folded = @ /\ text = Blank]

(***************************************************************************)
(* The rollup.                                                             *)
(***************************************************************************)
Joined(f, seq) == InOrder(Children(f, seq), [n \in DOMAIN f |-> f[n].summary])

Foldable(f, seq) ==
    /\ Children(f, seq) # {} /\ f[seq].status = "done"
    /\ f[seq].summary = Blank \/ f[seq].folded
    /\ \A c \in Children(f, seq) : IsTerminalStatus(f[c].status)
    /\ Joined(f, seq) # Blank

Folds(f, seq) == Foldable(f, seq) /\ f[seq].summary # Joined(f, seq)

\* The nodes still to visit, from the next one that folds: a visit that folds
\* nothing writes nothing.
Visits(f, todo) == {n \in todo : \E m \in todo : Folds(f, m) /\ ~ Before(f, n, m)}

\* The record is read from the file; the rollup then visits the whole forest.
UpdateNode(seq, status, text) ==
    /\ Ready /\ seq \in DOMAIN nodes
    /\ WriteNode(seq, Restated(nodes[seq], status, text))
    /\ said' = [said EXCEPT ![seq] = IF text = Blank THEN @ ELSE text]
    /\ op' = Visits(cache', DOMAIN cache') /\ rolled' = (op' = {})
    /\ UNCHANGED <<content, clock, born, trouble>>

\* UpdateNodeSummaryLocked rereads the record it writes.
RollupNode(seq) ==
    /\ seq \in op /\ Folds(cache, seq) /\ \A n \in op : ~ Before(cache, n, seq)
    /\ WriteNode(seq, [nodes[seq] EXCEPT !.summary = Joined(cache, seq),
                                         !.folded = TRUE, !.updated = clock])
    /\ op' = Visits(cache', op \ {seq}) /\ rolled' = (op' = {})
    /\ UNCHANGED <<content, clock, born, said, trouble>>

\* A failing fold ends the call with the restatement in place.
RollupFails ==
    /\ ~ Ready /\ trouble < MaxTrouble
    /\ op' = {} /\ trouble' = trouble + 1
    /\ UNCHANGED <<nodes, cache, content, clock, born, said, rolled>>

(***************************************************************************)
(* Content that names a step, stamped by the host.  Content that names     *)
(* none plays no part here.                                                *)
(***************************************************************************)
AppendArchive(slot, seq, at) ==
    /\ Ready
    /\ HasSeq(seq)
    /\ content' = Put(content, slot, [node |-> seq, at |-> at, owner |-> born[seq]])
    /\ UNCHANGED <<nodes, cache, clock, op, born, said, rolled, trouble>>

(***************************************************************************)
(* The sweeps of a Dream, content first; either may fail and change        *)
(* nothing.                                                                *)
(***************************************************************************)
Cutoff == clock - Window

DropExpiredArchives ==
    /\ Ready
    /\ content' = Drop(content, {k \in DOMAIN content : content[k].at < Cutoff})
    /\ content' # content
    /\ UNCHANGED <<nodes, cache, clock, op, born, said, rolled, trouble>>

HasNonDone(f) == \E n \in DOMAIN f : f[n].status # "done"
LastActiveAt(f) == Max({0} \cup {f[n].updated : n \in DOMAIN f})

\* Mutant: steps expire one by one in an unfinished tree too.
Doomed_PerNode == {n \in DOMAIN nodes : nodes[n].updated < Cutoff}

Doomed ==
    IF HasNonDone(nodes) /\ LastActiveAt(nodes) >= Cutoff THEN {}
    ELSE {n \in DOMAIN nodes : nodes[n].updated < Cutoff}

PrunePlan ==
    /\ Ready /\ Doomed # {}
    /\ nodes' = Drop(nodes, Doomed) /\ cache' = Drop(cache, Doomed)
    /\ rolled' = FALSE
    /\ UNCHANGED <<content, clock, op, born, said, trouble>>

Tick ==
    /\ Ready /\ clock < MaxClock /\ clock' = clock + 1
    /\ UNCHANGED <<nodes, cache, content, op, born, said, rolled, trouble>>

\* The context is rebuilt from the records, at any point of a call.
BuildPlanCache ==
    /\ trouble < MaxTrouble /\ trouble' = trouble + 1
    /\ cache' = nodes /\ op' = {}
    /\ UNCHANGED <<nodes, content, clock, born, said, rolled>>

Next ==
    \/ \E parent \in 0..MaxSeq : CreateNode(parent)
    \/ \E seq \in Ordinals, s \in Statuses, text \in {Blank} \cup {<<t>> : t \in Texts} :
          UpdateNode(seq, s, text)
    \/ (\E seq \in op : RollupNode(seq)) \/ RollupFails
    \/ \E slot \in 1..MaxSlot, seq \in Ordinals, at \in 0..clock : AppendArchive(slot, seq, at)
    \/ DropExpiredArchives \/ PrunePlan
    \/ Tick \/ BuildPlanCache

Spec == Init /\ [][Next]_vars

(***************************************************************************)
(* Properties.                                                             *)
(***************************************************************************)
\* Reads of the tree answer the records, at every point of a rollup and after
\* every failure, sweep and restart (writeNode, RemoveNodes, buildPlanCache).
CacheServesRecords == cache = nodes

\* No step hangs under itself however the tree was swept and regrown: the walks
\* of Subtree and rollupNode, which mark nothing visited, come to an end.
TreeIsAcyclic == \A n \in DOMAIN nodes : nodes[n].parent < n

\* Records and content keep their shapes, the records are a forest, and the
\* cache holds what they hold.
TypeOK ==
    /\ CacheServesRecords /\ TreeIsAcyclic
    /\ DOMAIN nodes \subseteq Ordinals /\ \A n \in DOMAIN nodes : nodes[n] \in PlanNode
    /\ DOMAIN content \subseteq 1..MaxSlot
    /\ \A k \in DOMAIN content : content[k] \in [node : Ordinals, at : Nat, owner : Nat]
    /\ op \subseteq DOMAIN nodes /\ clock \in Nat
    /\ born \in [Ordinals -> Nat] /\ said \in [Ordinals -> Seq(Texts)]
    /\ rolled \in BOOLEAN /\ trouble \in Nat

\* A step never inherits another's work: a content record, or a sub-step, that
\* names an ordinal is read under it only if it was attributed to the step that
\* has the ordinal now (NextSeq reserves what a swept step left behind).
NoInheritedWork ==
    /\ \A k \in DOMAIN content :
          content[k].node \in DOMAIN nodes => content[k].owner = born[content[k].node]
    /\ \A n \in DOMAIN nodes :
          nodes[n].parent \in DOMAIN nodes => nodes[n].over = born[nodes[n].parent]

\* A summary the host stated is what the step keeps, whatever folds around it
\* (rollupNode: "never clobbered").
HostTextKept ==
    \A n \in DOMAIN nodes : said[n] # Blank => nodes[n].summary = said[n] /\ ~ nodes[n].folded

\* The summary a reader of the whole branch would work out for a step: its own,
\* unless it is done, the library's to write, and all below it is settled.
Expected ==
    LET Below[n \in DOMAIN nodes] ==
            LET kids  == Children(nodes, n)
                words == InOrder(kids, Below)
            IN  IF /\ kids # {} /\ words # Blank
                   /\ nodes[n].status = "done" /\ (nodes[n].summary = Blank \/ nodes[n].folded)
                   /\ \A m \in kids : IsTerminalStatus(nodes[m].status)
                THEN words ELSE nodes[n].summary
    IN  Below

\* After an update whose rollup ran to its end every step carries the fold of
\* its whole branch, however deep the change was and whatever an earlier
\* failed rollup left unfolded (RollupTree).
FoldsAreComplete == rolled => \A n \in DOMAIN nodes : nodes[n].summary = Expected[n]

\* A tree that still holds an unfinished step is swept whole or not at all: no
\* unfinished step loses its parent to a sweep (PrunePlanStage).
InFlightTreeSweptWhole ==
    [][HasNonDone(nodes) /\ DOMAIN nodes' # DOMAIN nodes =>
         DOMAIN nodes \subseteq DOMAIN nodes' \/ DOMAIN nodes' = {}]_vars
=============================================================================
