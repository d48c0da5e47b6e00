------------------------------ MODULE Engrams ------------------------------
(***************************************************************************)
(* The scene network of one domain (L1): one node per scene that has       *)
(* topics, an edge between two scenes whose keywords overlap, and on both  *)
(* nodes a list of the edges they sit on.  Dream is the only builder: its  *)
(* L1 stages sync the nodes, build edges, drop stale nodes and let nodes   *)
(* and edges fade.  The network has no mirror in memory, so a process that *)
(* dies inside a pass leaves what a refused write leaves.                  *)
(*                                                                         *)
(* Importance, weight and similarity are ranks: 0 is below the threshold   *)
(* of removal (no record), Weak below the one that prunes a node's edges.  *)
(* How far a rank falls in a pass is a choice; a node or an edge written   *)
(* by the pass itself has no elapsed time and does not fall.  The emotion  *)
(* signals, which only slow the fall, are left out.  An edge joins two     *)
(* scenes and MinEdgeNodes is 2: losing a member, it goes.                 *)
(*                                                                         *)
(* Source: internal/dream/structure.go, cap/engram/decay.go,               *)
(* cap/engram/hyperedge.go, repo/l1layer_sync.go.                          *)
(***************************************************************************)
EXTENDS Integers, FiniteSets, FiniteSetsExt

CONSTANTS
    Scenes,
    Keywords,   \* topic -> its keywords; topics are numbers, ordered as ids are
    MaxPasses,  \* bound: passes
    MaxTrouble  \* bound: writes the engine refuses

Topics == DOMAIN Keywords
Pairs  == {e \in SUBSET Scenes : Cardinality(e) = 2}
Weak   == 1
Strong == 2

ASSUME ConstantsOK ==
    /\ Topics \subseteq Nat /\ IsFiniteSet(Scenes)
    /\ MaxPasses \in Nat /\ MaxTrouble \in Nat

VARIABLES
    ended,      \* scenes deleted or merged away; their ids do not come back
    home,       \* topic -> the scene it belongs to, {} before and after its life
    depth,      \* topic -> "shallow", "kept" (depth 3, parent in reach) or "deep"
    importance, \* scene -> rank of its node, 0 when it has none
    listed,     \* scene -> TopicIDs of its node
    edgeIDs,    \* scene -> EdgeIDs of its node
    weight,     \* pair -> rank of its edge, 0 when there is none
    pass,       \* the stage a pass is in
    passes,
    trouble,
    settled     \* history: has the last pass run to its end, and nothing since

topics  == <<ended, home, depth>>
network == <<importance, listed, edgeIDs, weight>>
vars    == <<topics, network, pass, passes, trouble, settled>>

Off == [stage |-> "off", todo |-> {}, touched |-> {}, created |-> {}, cleared |-> {}]

Live      == {s \in Scenes : importance[s] > 0}
Edges     == {e \in Pairs : weight[e] > 0}
Shallow(s) == {t \in Topics : home[t] = {s} /\ depth[t] = "shallow"}
Exists(t) == home[t] # {}

Init ==
    /\ ended = {} /\ home = [t \in Topics |-> {}] /\ depth = [t \in Topics |-> "new"]
    /\ importance = [s \in Scenes |-> 0] /\ listed = [s \in Scenes |-> {}]
    /\ edgeIDs = [s \in Scenes |-> {}] /\ weight = [e \in Pairs |-> 0]
    /\ pass = Off /\ passes = 0 /\ trouble = 0 /\ settled = FALSE

(***************************************************************************)
(* Between passes the domain's topics and scenes come and go; the edges of *)
(* a scene that is deleted or merged away are left to the next pass.       *)
(***************************************************************************)
Quiet == pass = Off /\ settled' = FALSE /\ UNCHANGED <<pass, passes, trouble>>

CreateTopic(t, s) ==
    /\ Quiet /\ depth[t] = "new" /\ s \notin ended
    /\ home' = [home EXCEPT ![t] = {s}] /\ depth' = [depth EXCEPT ![t] = "shallow"]
    /\ UNCHANGED <<ended, network>>

\* A compression sinks a topic, past MaxDepth out of existence.
SinkTopic(t, to) ==
    /\ Quiet /\ Exists(t) /\ depth[t] \in {"shallow", "kept"} /\ depth[t] # to
    /\ depth' = [depth EXCEPT ![t] = to]
    /\ home' = [home EXCEPT ![t] = IF to = "gone" THEN {} ELSE @]
    /\ UNCHANGED <<ended, network>>

DeleteSceneNodeL1(s) ==
    /\ importance' = [importance EXCEPT ![s] = 0]
    /\ listed' = [listed EXCEPT ![s] = {}]
    /\ edgeIDs' = [edgeIDs EXCEPT ![s] = {}]

DeleteScene(s) ==
    /\ Quiet /\ s \notin ended /\ ended' = ended \cup {s}
    /\ home' = [t \in Topics |-> home[t] \ {s}]
    /\ depth' = [t \in Topics |-> IF home[t] = {s} THEN "gone" ELSE depth[t]]
    /\ DeleteSceneNodeL1(s)
    /\ UNCHANGED weight

MergeScenes(s, other) ==
    /\ Quiet /\ {s, other} \cap ended = {} /\ s # other /\ ended' = ended \cup {other}
    /\ home' = [t \in Topics |-> IF home[t] = {other} THEN {s} ELSE home[t]]
    /\ DeleteSceneNodeL1(other)
    /\ UNCHANGED <<depth, weight>>

(***************************************************************************)
(* A pass: stages in order, each over what it collects when it begins.     *)
(***************************************************************************)
At(stage) == pass.stage = stage
Done(x)   == pass' = [pass EXCEPT !.todo = @ \ {x}]
Succeeds  == UNCHANGED trouble
Fails     == trouble < MaxTrouble /\ trouble' = trouble + 1

\* An error, like a cancelled context between two stages, ends the pass.
Abort == pass' = Off

\* Nodes an enumeration finds for the sync: their topic list came out different.
Changed == {s \in Scenes : Shallow(s) # {} /\ (s \notin Live \/ listed[s] # Shallow(s))}

\* Keywords of the topics a node lists, as far as these can be read.
KeywordSet(s) == UNION {Keywords[t] : t \in {u \in listed[s] : Exists(u)}}

Jaccard(a, b) ==
    IF a \cap b = {} THEN 0 ELSE IF a = b THEN Strong ELSE Weak

Similar == {e \in Pairs : e \subseteq Live /\ \A a, b \in e : KeywordSet(a) \cap KeywordSet(b) # {}}
Similarity(e) == LET a == CHOOSE s \in e : TRUE IN Jaccard(KeywordSet(a), KeywordSet(CHOOSE s \in e : s # a))

FirstTopic(s) == Min(listed[s])

IsNodeStale(s) == listed[s] = {} \/ ~Exists(FirstTopic(s)) \/ depth[FirstTopic(s)] = "deep"

\* Nodes below depth 2 are compression's to keep or drop.
SkipDeepNode(s) == listed[s] # {} /\ Exists(FirstTopic(s)) /\ depth[FirstTopic(s)] # "shallow"

RunPass ==
    /\ pass = Off /\ passes < MaxPasses
    /\ passes' = passes + 1 /\ settled' = FALSE
    /\ pass' = [Off EXCEPT !.stage = "sync", !.todo = Changed]
    /\ UNCHANGED <<topics, network, trouble>>

\* The stages after the first, each with what it goes over.
EnterStage(stage, todo) == pass' = [pass EXCEPT !.stage = stage, !.todo = todo]

NextStage ==
    /\ pass.todo = {}
    /\ \/ At("sync")    /\ EnterStage("build", Similar)
       \/ At("build")   /\ EnterStage("rebuild", {s \in Live : IsNodeStale(s)})
       \/ At("rebuild") /\ EnterStage("nodes", {s \in Live : ~SkipDeepNode(s)})
       \/ At("nodes")   /\ EnterStage("clear", pass.cleared)
       \/ At("clear")   /\ EnterStage("edges", Edges)
       \/ At("edges")   /\ pass' = Off
    /\ settled' = At("edges")
    /\ UNCHANGED <<topics, network, passes, trouble>>

\* The context is looked at between these stages.
StageCancelled ==
    /\ pass.todo = {} /\ pass.stage \in {"build", "rebuild"}
    /\ Abort
    /\ UNCHANGED <<topics, network, passes, trouble, settled>>

SyncOneSceneNode(s) ==
    /\ At("sync") /\ s \in pass.todo
    /\ \/ /\ Succeeds
          /\ importance' = [importance EXCEPT ![s] = IF s \in Live THEN @ ELSE Strong]
          /\ listed' = [listed EXCEPT ![s] = Shallow(s)]
          /\ pass' = [pass EXCEPT !.todo = @ \ {s}, !.touched = @ \cup {s}]
       \/ Fails /\ Abort /\ UNCHANGED <<importance, listed>>
    /\ UNCHANGED <<topics, edgeIDs, weight, passes, settled>>

\* A new edge gets the similarity; an existing one rises only over evidence
\* that has moved.
Strengthens(e) ==
    IF weight[e] = 0 THEN TRUE ELSE Similarity(e) > weight[e] /\ e \cap pass.touched # {}

NewWeight(e) == Similarity(e)

List(e, S) == [s \in Scenes |-> IF s \in S THEN edgeIDs[s] \cup {e} ELSE edgeIDs[s]]

\* The edge, then the list of one node and of the other: a refused write
\* leaves what came before it.
UpsertSceneEdge(e) ==
    /\ At("build") /\ e \in pass.todo
    /\ \/ ~Strengthens(e) /\ Done(e) /\ UNCHANGED <<trouble, edgeIDs, weight>>
       \/ /\ Strengthens(e)
          /\ weight' = [weight EXCEPT ![e] = NewWeight(e)]
          /\ \/ /\ Succeeds /\ edgeIDs' = List(e, e)
                /\ pass' = [pass EXCEPT !.todo = @ \ {e},
                       !.created = IF weight[e] = 0 THEN @ \cup {e} ELSE @]
             \/ \E S \in SUBSET e : S # e /\ Fails /\ Abort /\ edgeIDs' = List(e, S)
       \/ Strengthens(e) /\ Fails /\ Abort /\ UNCHANGED <<edgeIDs, weight>>
    /\ UNCHANGED <<topics, importance, listed, passes, settled>>

\* Mutant: the lists keep an edge that goes.
Unlist_Skipped(E, S) == edgeIDs

\* removeEdgeFromNode over S, a node that is gone having no list.
Unlist(E, S) == [s \in Scenes |-> IF s \in S THEN edgeIDs[s] \ E ELSE edgeIDs[s]]

\* A stale node leaves its edges one by one, the other end's list first and
\* then the edge, and is deleted last.
RemoveStaleNode(s) ==
    LET mine == edgeIDs[s] \cap Edges IN
    /\ At("rebuild") /\ s \in pass.todo
    /\ \/ /\ Succeeds /\ Done(s)
          /\ weight' = [e \in Pairs |-> IF e \in mine THEN 0 ELSE weight[e]]
          /\ importance' = [importance EXCEPT ![s] = 0]
          /\ listed' = [listed EXCEPT ![s] = {}]
          /\ edgeIDs' = [Unlist(mine, Scenes) EXCEPT ![s] = {}]
       \/ \E gone \in SUBSET mine, half \in SUBSET mine :
             /\ gone \cap half = {} /\ Cardinality(half) <= 1
             /\ Fails /\ Abort
             /\ weight' = [e \in Pairs |-> IF e \in gone THEN 0 ELSE weight[e]]
             /\ edgeIDs' = Unlist(gone \cup half, Scenes \ {s})
             /\ UNCHANGED <<importance, listed>>
    /\ UNCHANGED <<topics, passes, settled>>

\* Mutant: a fading node empties its list and its edges never hear of it.
Cleared_Nothing(s, rank) == {}

\* What a node that fades below the pruning threshold withdraws from.
Cleared(s, rank) == IF rank = Weak THEN {<<e, s>> : e \in edgeIDs[s]} ELSE {}

\* A node the pass has written has not aged.  Below the first threshold it
\* is deleted, below the second its list is emptied and its edges noted.
DecayOneNode(s) ==
    /\ At("nodes") /\ s \in pass.todo
    /\ \/ \E rank \in 0 .. importance[s] :
             /\ s \in pass.touched => rank = importance[s]
             /\ Succeeds
             /\ importance' = [importance EXCEPT ![s] = rank]
             /\ listed' = [listed EXCEPT ![s] = IF rank = 0 THEN {} ELSE @]
             /\ edgeIDs' = [edgeIDs EXCEPT ![s] = IF rank <= Weak THEN {} ELSE @]
             /\ pass' = [pass EXCEPT !.todo = @ \ {s},
                    !.cleared = @ \cup Cleared(s, rank)]
       \/ Fails /\ Abort /\ UNCHANGED <<importance, listed, edgeIDs>>
    /\ UNCHANGED <<topics, weight, passes, settled>>

RemoveNodeFromEdge(e, s) ==
    /\ At("clear") /\ <<e, s>> \in pass.todo
    /\ \/ /\ Succeeds /\ Done(<<e, s>>)
          /\ weight' = [weight EXCEPT ![e] = 0]
          /\ edgeIDs' = Unlist({e}, IF e \in Edges THEN e \ {s} ELSE {})
       \/ \E S \in SUBSET (e \ {s}) :
             e \in Edges /\ Fails /\ Abort /\ edgeIDs' = Unlist({e}, S) /\ UNCHANGED weight
    /\ UNCHANGED <<topics, importance, listed, passes, settled>>

\* Mutant: an edge ends by its weight alone.
EdgeEnds_WeightOnly(e, rank) == rank = 0

\* Members that are gone, whoever removed them, and a weight below the
\* threshold both end the edge.
EdgeEnds(e, rank) == rank = 0 \/ ~(e \subseteq Live)

DecayOneEdge(e) ==
    /\ At("edges") /\ e \in pass.todo
    /\ \E rank \in 0 .. weight[e] :
          /\ e \in pass.created => rank = weight[e]
          /\ \/ /\ Succeeds /\ Done(e)
                /\ weight' = [weight EXCEPT ![e] = IF EdgeEnds(e, rank) THEN 0 ELSE rank]
                /\ edgeIDs' = Unlist({e}, IF EdgeEnds(e, rank) THEN e ELSE {})
             \/ \E S \in SUBSET e :
                   /\ EdgeEnds(e, rank) \/ S = {}
                   /\ Fails /\ Abort /\ edgeIDs' = Unlist({e}, S) /\ UNCHANGED weight
    /\ UNCHANGED <<topics, importance, listed, passes, settled>>

Next ==
    \/ \E t \in Topics, s \in Scenes : CreateTopic(t, s)
    \/ \E t \in Topics, to \in {"kept", "deep", "gone"} : SinkTopic(t, to)
    \/ \E s \in Scenes : DeleteScene(s)
    \/ \E s, other \in Scenes : MergeScenes(s, other)
    \/ RunPass \/ NextStage \/ StageCancelled
    \/ \E s \in Scenes : SyncOneSceneNode(s) \/ RemoveStaleNode(s) \/ DecayOneNode(s)
    \/ \E e \in Pairs : UpsertSceneEdge(e) \/ DecayOneEdge(e)
    \/ \E e \in Pairs, s \in Scenes : RemoveNodeFromEdge(e, s)

Spec == Init /\ [][Next]_vars

(***************************************************************************)
(* Properties.                                                             *)
(***************************************************************************)

\* The shape of the network; a scene without a node has no lists, and a
\* node's edge list names pairs the scene is in.
TypeOK ==
    /\ ended \subseteq Scenes /\ home \in [Topics -> {{}} \cup {{s} : s \in Scenes}]
    /\ depth \in [Topics -> {"new", "shallow", "kept", "deep", "gone"}]
    /\ importance \in [Scenes -> 0 .. Strong] /\ weight \in [Pairs -> 0 .. Strong]
    /\ listed \in [Scenes -> SUBSET Topics]
    /\ \A s \in Scenes : edgeIDs[s] \subseteq {e \in Pairs : s \in e}
    /\ \A s \in Scenes : importance[s] = 0 => listed[s] = {} /\ edgeIDs[s] = {}
    /\ pass.stage \in {"off", "sync", "build", "rebuild", "nodes", "clear", "edges"}
    /\ pass.touched \subseteq Scenes /\ pass.created \subseteq Pairs /\ pass.cleared \subseteq Pairs \X Scenes
    /\ passes \in 0 .. MaxPasses /\ trouble \in 0 .. MaxTrouble /\ settled \in BOOLEAN

\* What a host may read off ListL1: two nodes that share an edge id are a
\* pair Dream judged related, the edge is there.  It holds inside a pass and
\* whatever write a pass broke off at.
SharedEdgesExist ==
    \A a, b \in Live : a # b => edgeIDs[a] \cap edgeIDs[b] \subseteq Edges

\* A pass that ran to its end leaves no edge with a member that is gone,
\* whether the pass itself removed the member, an earlier pass broke off, or
\* the host deleted or merged the scene.
SettledEdgesJoinNodes == settled => \A e \in Edges : e \subseteq Live

\* Between passes, as long as no write was ever refused, nodes and edges
\* name each other: a live node lists exactly the edges it is a member of.
ListsMatchEdges ==
    pass = Off /\ trouble = 0 => \A s \in Live : edgeIDs[s] = {e \in Edges : s \in e}

=============================================================================
