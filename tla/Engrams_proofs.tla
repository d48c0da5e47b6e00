--------------------------- MODULE Engrams_proofs ---------------------------
(***************************************************************************)
(* What the L1 stages of a Dream pass leave behind, for any scenes, topics *)
(* and keywords, any number of passes and any number of refused writes.    *)
(***************************************************************************)
EXTENDS Engrams, FiniteSetTheorems, TLAPS

\* The record a pass keeps.  What a stage still has to go over is scenes, edges
\* or the memberships a fading node withdrew from.
Stages == {"off", "sync", "build", "rebuild", "nodes", "clear", "edges"}

PassType ==
    /\ pass = [stage |-> pass.stage, todo |-> pass.todo, touched |-> pass.touched,
               created |-> pass.created, cleared |-> pass.cleared]
    /\ pass.stage \in Stages
    /\ pass.touched \subseteq Scenes /\ pass.created \subseteq Pairs
    /\ pass.cleared \subseteq Pairs \X Scenes

TopicType ==
    /\ ended \subseteq Scenes /\ home \in [Topics -> {{}} \cup {{s} : s \in Scenes}]
    /\ depth \in [Topics -> {"new", "shallow", "kept", "deep", "gone"}]

NodeType ==
    /\ importance \in [Scenes -> 0 .. Strong] /\ weight \in [Pairs -> 0 .. Strong]
    /\ listed \in [Scenes -> SUBSET Topics] /\ edgeIDs \in [Scenes -> SUBSET Pairs]
    /\ \A s \in Scenes : \A e \in edgeIDs[s] : s \in e
    /\ \A s \in Scenes : importance[s] = 0 => listed[s] = {} /\ edgeIDs[s] = {}

CountType ==
    passes \in 0 .. MaxPasses /\ trouble \in 0 .. MaxTrouble /\ settled \in BOOLEAN

\* What a stage goes over is still what the enumeration at its start found.
StageInv ==
    /\ At("off") => pass = Off
    /\ At("sync") => \A s \in pass.todo : Shallow(s) # {}
    /\ At("build") => pass.todo \subseteq Similar
    /\ pass.stage \in {"sync", "build", "rebuild"} => pass.cleared = {}

\* No topic is left in, or put into, a scene that has ended.
EndedInv == \A s \in ended, t \in Topics : home[t] # {s}

\* Two nodes, live or not, that list one edge id.
SharedInv ==
    \A a, b \in Scenes : a # b => \A e \in edgeIDs[a] \cap edgeIDs[b] : weight[e] > 0

\* The last stage has settled the edges it is done with.
SettleInv ==
    /\ At("edges") => \A e \in Edges : e \notin pass.todo => e \subseteq Live
    /\ settled => pass = Off /\ \A e \in Edges : e \subseteq Live

\* Memberships that are withdrawn from the node and not yet from the edge.
Owed == IF At("nodes") THEN pass.cleared ELSE IF At("clear") THEN pass.todo ELSE {}

\* As long as no write was refused, lists and edges agree up to what is owed,
\* and an edge loses a member only to a deleted scene or to the fading that
\* the pass's last stage answers.
MatchInv ==
    trouble = 0 =>
        /\ \A s \in Live : edgeIDs[s] \subseteq Edges
        /\ \A e \in Edges : \A s \in e : s \in Live => e \in edgeIDs[s] \/ <<e, s>> \in Owed
        /\ \A e \in Pairs, s \in Scenes : <<e, s>> \in Owed => e \notin edgeIDs[s]
        /\ pass.stage \in {"off", "sync", "build", "rebuild"} =>
              \A e \in Edges : e \subseteq Live \cup ended

IInv == PassType /\ TopicType /\ NodeType /\ CountType /\ StageInv /\ EndedInv
        /\ SharedInv /\ SettleInv /\ MatchInv
-----------------------------------------------------------------------------
\* An edge has two members.
LEMMA PairHasTwo ==
    ASSUME NEW e \in Pairs
    PROVE  /\ e \subseteq Scenes
           /\ \A s \in e : \E x \in e : x # s
           /\ \E s \in e : TRUE
<1>1. e \subseteq Scenes /\ Cardinality(e) = 2
  BY DEF Pairs
<1>2. e # {}
  BY <1>1, FS_EmptySet
<1>3. ASSUME NEW s \in e, \A x \in e : x = s  PROVE FALSE
  <2>1. e = {s}
    BY <1>3
  <2>2. Cardinality(e) = 1
    BY <2>1, FS_Singleton
  <2>3. QED  BY <1>1, <2>2
<1>4. QED  BY <1>1, <1>2, <1>3

\* jaccard of two keyword sets that overlap is above the threshold, whichever
\* of the two nodes BuildHyperedges takes first.
LEMMA SimilarityOfSimilar ==
    ASSUME NEW e \in Similar
    PROVE  Similarity(e) \in 1 .. Strong /\ e \in Pairs /\ e \subseteq Live
<1> DEFINE a == CHOOSE s \in e : TRUE
           b == CHOOSE s \in e : s # a
<1>1. e \in Pairs /\ e \subseteq Live /\ \A x, y \in e : KeywordSet(x) \cap KeywordSet(y) # {}
  BY DEF Similar
<1>2. a \in e
  BY <1>1, PairHasTwo
<1>3. b \in e
  BY <1>1, <1>2, PairHasTwo
<1> HIDE DEF a, b
<1>4. Jaccard(KeywordSet(a), KeywordSet(b)) \in 1 .. Strong
  BY <1>1, <1>2, <1>3 DEF Jaccard, Strong, Weak
<1>5. Similarity(e) = Jaccard(KeywordSet(a), KeywordSet(b))
  BY DEF Similarity, a, b
<1>6. QED  BY <1>1, <1>4, <1>5

\* What a refused write leaves: the pass is over, and what it had written is a
\* network whose shared edge ids name edges.
LEMMA BrokenOff ==
    ASSUME IInv, ~At("off"), Fails, Abort, NodeType', SharedInv',
           UNCHANGED <<topics, passes, settled>>
    PROVE  IInv'
<1> USE ConstantsOK DEF IInv, At, Fails, Abort, topics
<1>1. pass'.stage = "off" /\ pass' = Off /\ ~settled /\ trouble' \in 1 .. MaxTrouble
  BY DEF Off, CountType, SettleInv
<1>2. (PassType /\ TopicType /\ CountType)'
  BY <1>1 DEF PassType, TopicType, CountType, Off, Stages
<1>3. (StageInv /\ EndedInv /\ SettleInv /\ MatchInv)'
  BY <1>1 DEF StageInv, EndedInv, SettleInv, MatchInv
<1>4. QED  BY <1>2, <1>3
\* The pass's record after a stage begins and after an item is done.
LEMMA PassRecord ==
    ASSUME PassType, NEW st, NEW td, NEW x
    PROVE  /\ [pass EXCEPT !.stage = st, !.todo = td] =
                [stage |-> st, todo |-> td, touched |-> pass.touched,
                 created |-> pass.created, cleared |-> pass.cleared]
           /\ [pass EXCEPT !.todo = td] =
                [stage |-> pass.stage, todo |-> td, touched |-> pass.touched,
                 created |-> pass.created, cleared |-> pass.cleared]
           /\ [pass EXCEPT !.todo = td, !.touched = x] =
                [stage |-> pass.stage, todo |-> td, touched |-> x,
                 created |-> pass.created, cleared |-> pass.cleared]
           /\ [pass EXCEPT !.todo = td, !.created = x] =
                [stage |-> pass.stage, todo |-> td, touched |-> pass.touched,
                 created |-> x, cleared |-> pass.cleared]
           /\ [pass EXCEPT !.todo = td, !.cleared = x] =
                [stage |-> pass.stage, todo |-> td, touched |-> pass.touched,
                 created |-> pass.created, cleared |-> x]
<1>0. pass = [stage |-> pass.stage, todo |-> pass.todo, touched |-> pass.touched,
              created |-> pass.created, cleared |-> pass.cleared]
  BY DEF PassType
<1> DEFINE p == [pass EXCEPT !.stage = st]
           q == [pass EXCEPT !.todo = td]
<1>1. p = [stage |-> st, todo |-> pass.todo, touched |-> pass.touched,
           created |-> pass.created, cleared |-> pass.cleared]
  BY <1>0
<1>2. q = [stage |-> pass.stage, todo |-> td, touched |-> pass.touched,
           created |-> pass.created, cleared |-> pass.cleared]
  BY <1>0
<1>3. /\ [pass EXCEPT !.stage = st, !.todo = td] = [p EXCEPT !.todo = td]
      /\ [pass EXCEPT !.todo = td, !.touched = x] = [q EXCEPT !.touched = x]
      /\ [pass EXCEPT !.todo = td, !.created = x] = [q EXCEPT !.created = x]
      /\ [pass EXCEPT !.todo = td, !.cleared = x] = [q EXCEPT !.cleared = x]
  BY Zenon
<1> HIDE DEF p, q
<1>4. [p EXCEPT !.todo = td] =
        [stage |-> st, todo |-> td, touched |-> pass.touched,
         created |-> pass.created, cleared |-> pass.cleared]
  BY <1>1
<1>5. [q EXCEPT !.touched = x] =
        [stage |-> pass.stage, todo |-> td, touched |-> x,
         created |-> pass.created, cleared |-> pass.cleared]
  BY <1>2
<1>6. [q EXCEPT !.created = x] =
        [stage |-> pass.stage, todo |-> td, touched |-> pass.touched,
         created |-> x, cleared |-> pass.cleared]
  BY <1>2
<1>7. [q EXCEPT !.cleared = x] =
        [stage |-> pass.stage, todo |-> td, touched |-> pass.touched,
         created |-> pass.created, cleared |-> x]
  BY <1>2
<1>8. QED  BY <1>2, <1>3, <1>4, <1>5, <1>6, <1>7 DEF q

\* The pass's record when it begins.
LEMMA FirstRecord ==
    ASSUME NEW td
    PROVE  [Off EXCEPT !.stage = "sync", !.todo = td] =
             [stage |-> "sync", todo |-> td, touched |-> {}, created |-> {}, cleared |-> {}]
<1> DEFINE p == [Off EXCEPT !.stage = "sync"]
<1>1. p = [stage |-> "sync", todo |-> {}, touched |-> {}, created |-> {}, cleared |-> {}]
  BY DEF Off
<1>2. [Off EXCEPT !.stage = "sync", !.todo = td] = [p EXCEPT !.todo = td]
  BY Zenon
<1> HIDE DEF p
<1>3. QED  BY <1>1, <1>2

\* EnterStage changes the stage and what it goes over, nothing else.
LEMMA EnteredStage ==
    ASSUME PassType, NEW st \in Stages, NEW td, EnterStage(st, td)
    PROVE  /\ pass'.stage = st /\ pass'.todo = td /\ pass'.cleared = pass.cleared
           /\ PassType'
<1>1. pass' = [stage |-> st, todo |-> td, touched |-> pass.touched,
               created |-> pass.created, cleared |-> pass.cleared]
  BY PassRecord, ZenonT(30) DEF EnterStage
<1>2. QED  BY <1>1 DEF PassType
\* The host adds a topic (the scene may get its first).
LEMMA CreateTopicKeeps ==
    ASSUME IInv, NEW t \in Topics, NEW s \in Scenes, CreateTopic(t, s)
    PROVE  IInv'
<1> USE DEF IInv, CreateTopic, Quiet, network
<1>1. (PassType /\ NodeType /\ CountType)'
  BY DEF PassType, NodeType, CountType
<1>2. TopicType'
  BY DEF TopicType
<1>3. pass.stage = "off" /\ pass'.stage = "off"
  BY DEF Off
<1>4. (StageInv /\ SharedInv /\ SettleInv)'
  BY <1>3 DEF StageInv, SharedInv, SettleInv, At
<1>5. EndedInv'
  BY DEF EndedInv, TopicType
<1>6. MatchInv'
  BY <1>3 DEF MatchInv, Owed, At, Live, Edges
<1>7. QED  BY <1>1, <1>2, <1>4, <1>5, <1>6

\* A compression sinks a topic.
LEMMA SinkTopicKeeps ==
    ASSUME IInv, NEW t \in Topics, NEW to \in {"kept", "deep", "gone"}, SinkTopic(t, to)
    PROVE  IInv'
<1> USE DEF IInv, SinkTopic, Quiet, network
<1>1. (PassType /\ NodeType /\ CountType)'
  BY DEF PassType, NodeType, CountType
<1>2. TopicType'
  BY DEF TopicType
<1>3. pass.stage = "off" /\ pass'.stage = "off"
  BY DEF Off
<1>4. (StageInv /\ SharedInv /\ SettleInv)'
  BY <1>3 DEF StageInv, SharedInv, SettleInv, At
<1>5. EndedInv'
  BY DEF EndedInv, TopicType
<1>6. MatchInv'
  BY <1>3 DEF MatchInv, Owed, At, Live, Edges
<1>7. QED  BY <1>1, <1>2, <1>4, <1>5, <1>6

\* The network after the host removes a scene: its node goes, its edges stay,
\* excused by the scene being ended.
LEMMA NodeGoneBetweenPasses ==
    ASSUME IInv, NEW s \in Scenes, Quiet, ended' = ended \cup {s}, DeleteSceneNodeL1(s),
           UNCHANGED weight, TopicType', EndedInv'
    PROVE  IInv'
<1> USE DEF IInv, Quiet, DeleteSceneNodeL1
<1>1. (PassType /\ CountType)'
  BY DEF PassType, CountType
<1>2. NodeType'
  BY DEF NodeType, Strong
<1>3. pass.stage = "off" /\ pass'.stage = "off"
  BY DEF Off
<1>4. (StageInv /\ SettleInv)'
  BY <1>3 DEF StageInv, SettleInv, At
<1>5. SharedInv'
  BY DEF SharedInv, NodeType
<1>6. Edges' = Edges /\ Live' = Live \ {s} /\ Owed = {} /\ Owed' = {}
  BY <1>3 DEF Edges, Live, Owed, At, NodeType
<1>7. MatchInv'
  BY <1>3, <1>6 DEF MatchInv, NodeType
<1>8. QED  BY <1>1, <1>2, <1>4, <1>5, <1>7

\* The host deletes a scene with its topics.
LEMMA DeleteSceneKeeps ==
    ASSUME IInv, NEW s \in Scenes, DeleteScene(s)
    PROVE  IInv'
<1> USE DEF IInv, DeleteScene
<1>1. TopicType'
  <2>1. \A t \in Topics : home[t] \ {s} \in {{}} \cup {{x} : x \in Scenes}
    BY DEF TopicType
  <2>2. QED  BY <2>1 DEF TopicType
<1>2. EndedInv'
  BY DEF EndedInv, TopicType
<1>3. QED  BY <1>1, <1>2, NodeGoneBetweenPasses

\* The host merges other into s.
LEMMA MergeScenesKeeps ==
    ASSUME IInv, NEW s \in Scenes, NEW other \in Scenes, MergeScenes(s, other)
    PROVE  IInv'
<1> USE DEF IInv, MergeScenes
<1>1. TopicType'
  BY DEF TopicType
<1>2. EndedInv'
  BY DEF EndedInv, TopicType
<1>3. QED  BY <1>1, <1>2, NodeGoneBetweenPasses

\* A pass begins.
LEMMA RunPassKeeps ==
    ASSUME IInv, RunPass
    PROVE  IInv'
<1> USE ConstantsOK DEF IInv, RunPass, topics, network
<1>1. pass' = [stage |-> "sync", todo |-> Changed, touched |-> {}, created |-> {}, cleared |-> {}]
  BY FirstRecord
<1>2. pass'.stage = "sync" /\ pass'.todo = Changed /\ pass'.cleared = {} /\ pass.stage = "off"
  BY <1>1 DEF Off
<1> HIDE DEF RunPass
<1>3. PassType'
  BY <1>1 DEF PassType, Stages
<1>a. /\ passes < MaxPasses /\ passes' = passes + 1 /\ settled' = FALSE
      /\ UNCHANGED <<ended, home, depth, importance, listed, edgeIDs, weight, trouble>>
  BY Zenon DEF RunPass
<1>b. (TopicType /\ NodeType)'
  BY <1>a DEF TopicType, NodeType
<1>c. passes' \in 0 .. MaxPasses /\ trouble' \in 0 .. MaxTrouble
  BY <1>a DEF CountType
<1>d. settled' \in BOOLEAN
  BY <1>a
<1>4. (TopicType /\ NodeType /\ CountType)'
  BY <1>b, <1>c, <1>d DEF CountType
<1>5. (EndedInv /\ SharedInv /\ SettleInv)'
  BY <1>2 DEF EndedInv, SharedInv, SettleInv, At, RunPass
<1>6. StageInv'
  <2>1. \A s \in Changed : Shallow(s)' # {}
    BY DEF Changed, Shallow, RunPass
  <2>2. QED  BY <1>2, <2>1 DEF StageInv, At, Shallow
<1>7. Edges' = Edges /\ Live' = Live /\ Owed = {} /\ Owed' = {}
  BY <1>2 DEF Edges, Live, Owed, At, RunPass
<1>8. MatchInv'
  BY <1>2, <1>7 DEF MatchInv, RunPass
<1>9. QED  BY <1>3, <1>4, <1>5, <1>6, <1>8

\* The context is cancelled between two stages: both are points where lists
\* and edges agree.
LEMMA StageCancelledKeeps ==
    ASSUME IInv, StageCancelled
    PROVE  IInv'
<1> USE DEF IInv, StageCancelled, Abort, topics, network
<1>1. pass' = Off /\ pass'.stage = "off" /\ ~settled
  BY DEF Off, SettleInv
<1>2. (PassType /\ TopicType /\ NodeType /\ CountType)'
  BY <1>1 DEF PassType, TopicType, NodeType, CountType, Off, Stages
<1>3. (StageInv /\ EndedInv /\ SharedInv /\ SettleInv)'
  BY <1>1 DEF StageInv, EndedInv, SharedInv, SettleInv, At
<1>4. Edges' = Edges /\ Live' = Live /\ Owed = {} /\ Owed' = {}
  BY <1>1 DEF Edges, Live, Owed, At
<1>5. MatchInv'
  BY <1>1, <1>4 DEF MatchInv
<1>6. QED  BY <1>2, <1>3, <1>5

\* A stage begins.  The clearing takes over what the fading owes, and when the
\* last stage ends no edge is left that it has not settled.
LEMMA NextStageKeeps ==
    ASSUME IInv, NextStage
    PROVE  IInv'
<1> USE DEF IInv, NextStage, EnterStage, At, topics, network
<1>0. Edges' = Edges /\ Live' = Live
  BY DEF Edges, Live
<1>a. /\ PassType'
      /\ pass.stage \in {"sync", "build", "rebuild", "nodes", "clear", "edges"}
      /\ pass.stage # "edges" => pass'.cleared = pass.cleared
      /\ At("sync") => pass'.stage = "build" /\ pass'.todo = Similar
      /\ At("build") => pass'.stage = "rebuild"
      /\ At("rebuild") => pass'.stage = "nodes"
      /\ At("nodes") => pass'.stage = "clear" /\ pass'.todo = pass.cleared
      /\ At("clear") => pass'.stage = "edges" /\ pass'.todo = Edges
      /\ At("edges") => pass'.stage = "off" /\ pass' = Off
  <2> USE DEF Stages
  <2> HIDE DEF EnterStage
  <2>1. CASE At("sync") /\ EnterStage("build", Similar)
    BY <2>1, EnteredStage
  <2>2. CASE At("build") /\ EnterStage("rebuild", {s \in Live : IsNodeStale(s)})
    BY <2>2, EnteredStage
  <2>3. CASE At("rebuild") /\ EnterStage("nodes", {s \in Live : ~SkipDeepNode(s)})
    BY <2>3, EnteredStage
  <2>4. CASE At("nodes") /\ EnterStage("clear", pass.cleared)
    BY <2>4, EnteredStage
  <2>5. CASE At("clear") /\ EnterStage("edges", Edges)
    BY <2>5, EnteredStage
  <2>6. CASE At("edges") /\ pass' = Off
    BY <2>6 DEF Off, PassType
  <2>7. QED  BY <2>1, <2>2, <2>3, <2>4, <2>5, <2>6
<1>1. PassType'
  BY <1>a
<1>2. (TopicType /\ NodeType /\ CountType)'
  BY DEF TopicType, NodeType, CountType
<1>3. (EndedInv /\ SharedInv)'
  BY DEF EndedInv, SharedInv
<1>4. StageInv'
  <2>1. Similar' = Similar
    BY <1>0 DEF Similar, KeywordSet, Exists
  <2>2. QED  BY <2>1, <1>a DEF StageInv
<1>5. SettleInv'
  BY <1>0, <1>a DEF SettleInv
<1>6. Owed' = IF At("rebuild") \/ At("nodes") THEN pass.cleared ELSE {}
  BY <1>a DEF Owed
<1>7. Owed' = Owed
  BY <1>6 DEF Owed, StageInv
<1>8. pass.stage = "edges" => \A e \in Edges : e \subseteq Live
  BY DEF SettleInv
<1>9. pass'.stage \in {"off", "sync", "build", "rebuild"} => pass.stage \in {"sync", "build", "edges"}
  BY <1>a
<1>10. MatchInv'
  <2> SUFFICES ASSUME trouble = 0 PROVE MatchInv'
    BY DEF MatchInv
  <2>1. \A s \in Live : edgeIDs[s] \subseteq Edges
    BY DEF MatchInv
  <2>2. \A e \in Edges : \A s \in e : s \in Live => e \in edgeIDs[s] \/ <<e, s>> \in Owed
    BY DEF MatchInv
  <2>3. \A e \in Pairs, s \in Scenes : <<e, s>> \in Owed => e \notin edgeIDs[s]
    BY DEF MatchInv
  <2>4. pass'.stage \in {"off", "sync", "build", "rebuild"} =>
          \A e \in Edges : e \subseteq Live \cup ended
    BY <1>8, <1>9 DEF MatchInv
  <2>5. QED  BY <1>0, <1>7, <2>1, <2>2, <2>3, <2>4 DEF MatchInv
<1>11. QED  BY <1>1, <1>2, <1>3, <1>4, <1>5, <1>10
\* The record after one item of a stage is done.
LEMMA ItemDone ==
    ASSUME PassType, NEW x, Done(x)
    PROVE  /\ pass'.stage = pass.stage /\ pass'.todo = pass.todo \ {x}
           /\ pass'.cleared = pass.cleared /\ PassType'
<1>1. pass' = [stage |-> pass.stage, todo |-> pass.todo \ {x}, touched |-> pass.touched,
               created |-> pass.created, cleared |-> pass.cleared]
  BY PassRecord DEF Done
<1>2. QED  BY <1>1 DEF PassType

\* A scene's node is written with the topics it has now.  A node the domain did
\* not have joins no edge: its scene has topics, so it has not ended.
LEMMA SyncOneSceneNodeKeeps ==
    ASSUME IInv, NEW s \in Scenes, SyncOneSceneNode(s)
    PROVE  IInv'
<1> USE DEF IInv
<1>0. At("sync") /\ s \in pass.todo /\ UNCHANGED <<topics, edgeIDs, weight, passes, settled>>
  BY DEF SyncOneSceneNode
<1>1. CASE Fails /\ Abort /\ UNCHANGED <<importance, listed>>
  <2>1. (NodeType /\ SharedInv)'
    BY <1>0, <1>1 DEF NodeType, SharedInv
  <2>2. QED  BY <1>0, <1>1, <2>1, BrokenOff DEF At
<1>2. CASE /\ Succeeds
           /\ importance' = [importance EXCEPT ![s] = IF s \in Live THEN @ ELSE Strong]
           /\ listed' = [listed EXCEPT ![s] = Shallow(s)]
           /\ pass' = [pass EXCEPT !.todo = @ \ {s}, !.touched = @ \cup {s}]
  <2>1. pass' = [stage |-> pass.stage, todo |-> pass.todo \ {s}, touched |-> pass.touched \cup {s},
                 created |-> pass.created, cleared |-> pass.cleared]
    BY <1>2, PassRecord
  <2>2. pass'.stage = "sync" /\ pass'.todo = pass.todo \ {s} /\ pass'.cleared = pass.cleared
    BY <1>0, <2>1 DEF At
  <2>3. PassType'
    BY <2>1 DEF PassType
  <2>4. (TopicType /\ CountType)'
    BY <1>0, <1>2 DEF TopicType, CountType, topics, Succeeds
  <2>5. importance'[s] > 0 /\ \A x \in Scenes : x # s => importance'[x] = importance[x]
    BY <1>2 DEF NodeType, Live, Strong
  <2>6. NodeType'
    BY <1>0, <1>2, <2>5 DEF NodeType, Shallow, Strong
  <2>7. (SharedInv /\ EndedInv /\ SettleInv)'
    BY <1>0, <2>2 DEF SharedInv, EndedInv, SettleInv, At, topics, Off
  <2>8. StageInv'
    BY <1>0, <2>2 DEF StageInv, At, Shallow, topics
  <2>9. Edges' = Edges /\ Live' = Live \cup {s} /\ Owed = {} /\ Owed' = {}
    BY <1>0, <1>2, <2>2, <2>5 DEF Edges, Live, Owed, At, NodeType
  <2>10. s \notin ended
    BY <1>0 DEF StageInv, EndedInv, Shallow
  <2>11. MatchInv'
    <3> SUFFICES ASSUME trouble = 0 PROVE MatchInv'
      BY <1>2 DEF MatchInv, Succeeds
    <3>1. s \notin Live => edgeIDs[s] = {} /\ \A e \in Edges : s \notin e
      BY <1>0, <2>10 DEF MatchInv, NodeType, At, Live
    <3>2. edgeIDs' = edgeIDs /\ trouble' = 0 /\ ended' = ended /\ pass'.stage = "sync"
      BY <1>0, <1>2, <2>2 DEF Succeeds, topics
    <3>3. \A x \in Live' : edgeIDs[x] \subseteq Edges
      BY <2>9, <3>1 DEF MatchInv
    <3>4. \A e \in Edges : \A x \in e : x \in Live' => e \in edgeIDs[x] \/ <<e, x>> \in Owed
      BY <2>9, <3>1 DEF MatchInv
    <3>5. \A e \in Edges : e \subseteq Live' \cup ended
      BY <1>0, <2>9 DEF MatchInv, At
    <3>6. QED  BY <2>9, <3>2, <3>3, <3>4, <3>5 DEF MatchInv
  <2>12. QED  BY <2>3, <2>4, <2>6, <2>7, <2>8, <2>11
<1>3. QED  BY <1>1, <1>2 DEF SyncOneSceneNode

\* An edge is written and put on the lists of both its nodes, or of the ones
\* reached before a write was refused: it is there before any list names it.
LEMMA UpsertSceneEdgeKeeps ==
    ASSUME IInv, NEW e \in Pairs, UpsertSceneEdge(e)
    PROVE  IInv'
<1> USE DEF IInv
<1>0. At("build") /\ e \in pass.todo /\ UNCHANGED <<topics, importance, listed, passes, settled>>
  BY DEF UpsertSceneEdge
<1>a. e \in Similar /\ NewWeight(e) \in 1 .. Strong /\ e \subseteq Live /\ e \subseteq Scenes
  BY <1>0, SimilarityOfSimilar, PairHasTwo DEF StageInv, NewWeight
<1>b. Similar' = Similar /\ Live' = Live
  BY <1>0 DEF Similar, Live, KeywordSet, Exists, topics
<1>c. ASSUME NEW S \in SUBSET e, edgeIDs' = List(e, S), weight' = [weight EXCEPT ![e] = NewWeight(e)]
      PROVE  (NodeType /\ SharedInv)'
  <2>1. \A x \in Pairs : weight'[x] = IF x = e THEN NewWeight(e) ELSE weight[x]
    BY <1>c DEF NodeType
  <2>2. \A x \in Scenes : edgeIDs'[x] = IF x \in S THEN edgeIDs[x] \cup {e} ELSE edgeIDs[x]
    BY <1>c DEF List
  <2>3. weight' \in [Pairs -> 0 .. Strong] /\ edgeIDs' \in [Scenes -> SUBSET Pairs]
    BY <1>a, <1>c DEF List, NodeType, Strong
  <2>4. NodeType'
    BY <1>0, <1>a, <2>2, <2>3 DEF NodeType, Live, Strong
  <2>5. SharedInv'
    <3> SUFFICES ASSUME NEW a \in Scenes, NEW b \in Scenes, a # b,
                        NEW f \in edgeIDs'[a] \cap edgeIDs'[b]
                 PROVE  weight'[f] > 0
      BY DEF SharedInv
    <3>1. f \in Pairs
      BY <2>3
    <3>2. f # e => f \in edgeIDs[a] \cap edgeIDs[b]
      BY <2>2
    <3>3. f # e => weight[f] > 0
      BY <3>2 DEF SharedInv
    <3>4. QED  BY <1>a, <2>1, <3>1, <3>3 DEF Strong
  <2>6. QED  BY <2>4, <2>5
<1>1. CASE ~Strengthens(e) /\ Done(e) /\ UNCHANGED <<trouble, edgeIDs, weight>>
  <2>1. pass'.stage = pass.stage /\ pass'.todo = pass.todo \ {e} /\ pass'.cleared = pass.cleared /\ PassType'
    BY <1>1, ItemDone
  <2>2. (TopicType /\ NodeType /\ CountType /\ SharedInv /\ EndedInv)'
    BY <1>0, <1>1 DEF TopicType, NodeType, CountType, SharedInv, EndedInv, topics
  <2>3. (StageInv /\ SettleInv)'
    BY <1>0, <1>b, <2>1 DEF StageInv, SettleInv, At, Off
  <2>4. Edges' = Edges /\ Owed = {} /\ Owed' = {}
    BY <1>0, <1>1, <2>1 DEF Edges, Owed, At
  <2>5. MatchInv'
    BY <1>0, <1>1, <1>b, <2>1, <2>4 DEF MatchInv, topics
  <2>6. QED  BY <2>1, <2>2, <2>3, <2>5
<1>2. CASE /\ weight' = [weight EXCEPT ![e] = NewWeight(e)]
           /\ Succeeds /\ edgeIDs' = List(e, e)
           /\ pass' = [pass EXCEPT !.todo = @ \ {e},
                  !.created = IF weight[e] = 0 THEN @ \cup {e} ELSE @]
  <2>0. pass' = [stage |-> pass.stage, todo |-> pass.todo \ {e}, touched |-> pass.touched,
                 created |-> IF weight[e] = 0 THEN pass.created \cup {e} ELSE pass.created,
                 cleared |-> pass.cleared]
    BY <1>2, PassRecord
  <2>1. /\ pass'.stage = pass.stage /\ pass'.todo = pass.todo \ {e} /\ pass'.cleared = pass.cleared
        /\ PassType'
    BY <2>0 DEF PassType
  <2>2. (NodeType /\ SharedInv)'
    BY <1>2, <1>c
  <2>3. (TopicType /\ CountType /\ EndedInv)'
    BY <1>0, <1>2 DEF TopicType, CountType, EndedInv, topics, Succeeds
  <2>4. (StageInv /\ SettleInv)'
    BY <1>0, <1>b, <2>1 DEF StageInv, SettleInv, At, Off
  <2>5. Edges' = Edges \cup {e} /\ Owed = {} /\ Owed' = {}
    BY <1>0, <1>2, <1>a, <2>1 DEF Edges, Owed, At, NodeType, Strong
  <2>6. \A x \in Scenes : edgeIDs'[x] = IF x \in e THEN edgeIDs[x] \cup {e} ELSE edgeIDs[x]
    BY <1>2 DEF List
  <2>7. MatchInv'
    <3> SUFFICES ASSUME trouble = 0 PROVE MatchInv'
      BY <1>2 DEF MatchInv, Succeeds
    <3>1. ended' = ended /\ pass'.stage = "build" /\ pass.stage = "build"
      BY <1>0, <2>1 DEF topics, At
    <3>2. \A x \in Live : edgeIDs'[x] \subseteq Edges \cup {e}
      BY <2>6 DEF MatchInv, Live
    <3>3. \A f \in Edges \cup {e} : \A x \in f : x \in Live => f \in edgeIDs'[x]
      <4>1. \A f \in Edges : \A x \in f : x \in Live => f \in edgeIDs[x]
        BY <2>5 DEF MatchInv
      <4>2. Live \subseteq Scenes
        BY DEF Live
      <4>3. QED  BY <2>6, <4>1, <4>2
    <3>4. \A f \in Edges \cup {e} : f \subseteq Live \cup ended
      BY <1>a, <3>1 DEF MatchInv
    <3>5. QED  BY <1>b, <2>5, <3>1, <3>2, <3>3, <3>4 DEF MatchInv
  <2>8. QED  BY <2>1, <2>2, <2>3, <2>4, <2>7
<1>3. CASE /\ weight' = [weight EXCEPT ![e] = NewWeight(e)]
           /\ \E S \in SUBSET e : S # e /\ Fails /\ Abort /\ edgeIDs' = List(e, S)
  BY <1>0, <1>3, <1>c, BrokenOff DEF At
<1>4. CASE Fails /\ Abort /\ UNCHANGED <<edgeIDs, weight>>
  <2>1. (NodeType /\ SharedInv)'
    BY <1>0, <1>4 DEF NodeType, SharedInv
  <2>2. QED  BY <1>0, <1>4, <2>1, BrokenOff DEF At
<1>5. QED  BY <1>1, <1>2, <1>3, <1>4 DEF UpsertSceneEdge
\* removeEdgeFromNode takes from the lists of S and from no other.
LEMMA UnlistShrinks ==
    ASSUME NodeType, NEW E, NEW S
    PROVE  /\ Unlist(E, S) \in [Scenes -> SUBSET Pairs]
           /\ \A s \in Scenes : Unlist(E, S)[s] = IF s \in S THEN edgeIDs[s] \ E ELSE edgeIDs[s]
           /\ \A s \in Scenes : Unlist(E, S)[s] \subseteq edgeIDs[s]
  BY DEF NodeType, Unlist

\* A stale node goes after its edges, each of them after the other end's list.
LEMMA RemoveStaleNodeKeeps ==
    ASSUME IInv, NEW s \in Scenes, RemoveStaleNode(s)
    PROVE  IInv'
<1> USE DEF IInv
<1> DEFINE mine == edgeIDs[s] \cap Edges
<1>0. At("rebuild") /\ s \in pass.todo /\ UNCHANGED <<topics, passes, settled>>
  BY DEF RemoveStaleNode
<1>a. mine \subseteq Pairs /\ \A e \in mine : s \in e
  BY DEF Edges, NodeType
<1> HIDE DEF mine
<1>1. CASE /\ Succeeds /\ Done(s)
           /\ weight' = [e \in Pairs |-> IF e \in mine THEN 0 ELSE weight[e]]
           /\ importance' = [importance EXCEPT ![s] = 0]
           /\ listed' = [listed EXCEPT ![s] = {}]
           /\ edgeIDs' = [Unlist(mine, Scenes) EXCEPT ![s] = {}]
  <2>1. pass'.stage = "rebuild" /\ pass'.todo = pass.todo \ {s} /\ pass'.cleared = pass.cleared /\ PassType'
    BY <1>0, <1>1, ItemDone DEF At
  <2>2. (TopicType /\ CountType /\ EndedInv)'
    BY <1>0, <1>1 DEF TopicType, CountType, EndedInv, topics, Succeeds
  <2>3. /\ edgeIDs' \in [Scenes -> SUBSET Pairs]
        /\ \A x \in Scenes : edgeIDs'[x] = IF x = s THEN {} ELSE edgeIDs[x] \ mine
    BY <1>1, UnlistShrinks
  <2>4. /\ weight' \in [Pairs -> 0 .. Strong]
        /\ \A e \in Pairs : weight'[e] = IF e \in mine THEN 0 ELSE weight[e]
    BY <1>1 DEF NodeType, Strong
  <2>5. /\ importance' \in [Scenes -> 0 .. Strong] /\ listed' \in [Scenes -> SUBSET Topics]
        /\ \A x \in Scenes : x # s => importance'[x] = importance[x] /\ listed'[x] = listed[x]
        /\ importance'[s] = 0 /\ listed'[s] = {}
    BY <1>1 DEF NodeType, Strong
  <2>6. NodeType'
    BY <2>3, <2>4, <2>5 DEF NodeType
  <2>7. SharedInv'
    <3> SUFFICES ASSUME NEW a \in Scenes, NEW b \in Scenes, a # b,
                        NEW f \in edgeIDs'[a] \cap edgeIDs'[b]
                 PROVE  weight'[f] > 0
      BY DEF SharedInv
    <3>1. f \in Pairs /\ f \notin mine /\ f \in edgeIDs[a] \cap edgeIDs[b]
      BY <2>3
    <3>2. QED  BY <2>4, <3>1 DEF SharedInv
  <2>8. (StageInv /\ SettleInv)'
    BY <1>0, <2>1 DEF StageInv, SettleInv, At, Off
  <2>9. Edges' = Edges \ mine /\ Live' = Live \ {s} /\ Owed = {} /\ Owed' = {}
    BY <1>0, <2>1, <2>4, <2>5 DEF Edges, Live, Owed, At
  <2>10. MatchInv'
    <3> SUFFICES ASSUME trouble = 0 PROVE MatchInv'
      BY <1>1 DEF MatchInv, Succeeds
    <3>1. ended' = ended /\ pass.stage = "rebuild"
      BY <1>0 DEF topics, At
    <3>2. s \in Live => \A e \in Edges : s \in e => e \in mine
      BY <2>9 DEF MatchInv, mine
    <3>3. \A x \in Live \ {s} : edgeIDs'[x] \subseteq Edges \ mine
      BY <2>3 DEF MatchInv, Live
    <3>4. \A f \in Edges \ mine : \A x \in f : x \in Live \ {s} => f \in edgeIDs'[x]
      BY <2>3, <2>9 DEF MatchInv, Live
    <3>5. \A f \in Edges \ mine : f \subseteq (Live \ {s}) \cup ended
      BY <3>1, <3>2 DEF MatchInv
    <3>6. QED  BY <2>1, <2>9, <3>1, <3>3, <3>4, <3>5 DEF MatchInv
  <2>11. QED  BY <2>1, <2>2, <2>6, <2>7, <2>8, <2>10
<1>2. ASSUME NEW gone \in SUBSET mine, NEW half \in SUBSET mine,
             Fails, Abort, UNCHANGED <<importance, listed>>,
             weight' = [e \in Pairs |-> IF e \in gone THEN 0 ELSE weight[e]],
             edgeIDs' = Unlist(gone \cup half, Scenes \ {s})
      PROVE  IInv'
  <2>1. /\ edgeIDs' \in [Scenes -> SUBSET Pairs]
        /\ \A x \in Scenes : edgeIDs'[x] \subseteq edgeIDs[x]
        /\ \A x \in Scenes : x # s => edgeIDs'[x] = edgeIDs[x] \ (gone \cup half)
    <3> DEFINE R == Scenes \ {s}
    <3> HIDE DEF R
    <3>1. edgeIDs' = Unlist((gone \cup half), R)
      BY <1>2 DEF R
    <3>2. /\ edgeIDs' \in [Scenes -> SUBSET Pairs]
          /\ \A x \in Scenes : edgeIDs'[x] = IF x \in R THEN edgeIDs[x] \ (gone \cup half) ELSE edgeIDs[x]
      BY <3>1 DEF Unlist, NodeType
    <3>3. QED  BY <3>2 DEF R
  <2>2. /\ weight' \in [Pairs -> 0 .. Strong]
        /\ \A e \in Pairs : weight'[e] = IF e \in gone THEN 0 ELSE weight[e]
    BY <1>2 DEF NodeType, Strong
  <2>3. NodeType'
    BY <1>2, <2>1, <2>2, ZenonT(30) DEF NodeType
  <2>4. SharedInv'
    <3> SUFFICES ASSUME NEW a \in Scenes, NEW b \in Scenes, a # b,
                        NEW f \in edgeIDs'[a] \cap edgeIDs'[b]
                 PROVE  weight'[f] > 0
      BY DEF SharedInv
    <3>1. f \in Pairs /\ f \in edgeIDs[a] \cap edgeIDs[b]
      BY <2>1
    <3>2. f \notin gone
      BY <2>1
    <3>3. QED  BY <2>2, <3>1, <3>2 DEF SharedInv
  <2>5. QED  BY <1>0, <1>2, <2>3, <2>4, BrokenOff DEF At
<1>3. QED  BY <1>1, <1>2 DEF RemoveStaleNode, mine

\* A node fades: it may be deleted, or its list emptied with its memberships
\* noted for the next stage.
LEMMA DecayOneNodeKeeps ==
    ASSUME IInv, NEW s \in Scenes, DecayOneNode(s)
    PROVE  IInv'
<1> USE DEF IInv
<1>0. At("nodes") /\ s \in pass.todo /\ UNCHANGED <<topics, weight, passes, settled>>
  BY DEF DecayOneNode
<1>1. CASE Fails /\ Abort /\ UNCHANGED <<importance, listed, edgeIDs>>
  <2>1. (NodeType /\ SharedInv)'
    BY <1>0, <1>1 DEF NodeType, SharedInv
  <2>2. QED  BY <1>0, <1>1, <2>1, BrokenOff DEF At
<1>2. ASSUME NEW rank \in 0 .. importance[s], Succeeds,
             importance' = [importance EXCEPT ![s] = rank],
             listed' = [listed EXCEPT ![s] = IF rank = 0 THEN {} ELSE @],
             edgeIDs' = [edgeIDs EXCEPT ![s] = IF rank <= Weak THEN {} ELSE @],
             pass' = [pass EXCEPT !.todo = @ \ {s}, !.cleared = @ \cup Cleared(s, rank)]
      PROVE  IInv'
  <2>0. pass' = [stage |-> pass.stage, todo |-> pass.todo \ {s}, touched |-> pass.touched,
                 created |-> pass.created, cleared |-> pass.cleared \cup Cleared(s, rank)]
    BY <1>2, PassRecord
  <2>a. Cleared(s, rank) \subseteq Pairs \X Scenes
    BY DEF Cleared, NodeType
  <2>1. /\ pass'.stage = "nodes" /\ pass'.todo = pass.todo \ {s}
        /\ pass'.cleared = pass.cleared \cup Cleared(s, rank)
        /\ PassType'
    BY <1>0, <2>0, <2>a DEF PassType, At
  <2>2. (TopicType /\ CountType /\ EndedInv)'
    BY <1>0, <1>2 DEF TopicType, CountType, EndedInv, topics, Succeeds
  <2>b. importance[s] \in 0 .. Strong /\ rank \in 0 .. Strong
    BY DEF NodeType, Strong
  <2>3. /\ edgeIDs' \in [Scenes -> SUBSET Pairs]
        /\ \A x \in Scenes : x # s => edgeIDs'[x] = edgeIDs[x]
        /\ edgeIDs'[s] = IF rank <= Weak THEN {} ELSE edgeIDs[s]
    BY <1>2 DEF NodeType
  <2>4. /\ importance' \in [Scenes -> 0 .. Strong] /\ listed' \in [Scenes -> SUBSET Topics]
        /\ \A x \in Scenes : x # s => importance'[x] = importance[x] /\ listed'[x] = listed[x]
        /\ importance'[s] = rank /\ (rank = 0 => listed'[s] = {})
    BY <1>2, <2>b DEF NodeType, Strong
  <2>5. NodeType'
    BY <1>0, <2>b, <2>3, <2>4 DEF NodeType, Weak, Strong
  <2>6. SharedInv'
    BY <1>0, <2>3 DEF SharedInv
  <2>7. (StageInv /\ SettleInv)'
    BY <1>0, <2>1 DEF StageInv, SettleInv, At, Off
  <2>8. Edges' = Edges /\ Live' \subseteq Live /\ Owed = pass.cleared /\ Owed' = pass'.cleared
    BY <1>0, <2>1, <2>4, <2>b DEF Edges, Live, Owed, At, Strong, NodeType
  <2>9. MatchInv'
    <3> SUFFICES ASSUME trouble = 0 PROVE MatchInv'
      BY <1>2 DEF MatchInv, Succeeds
    <3>1. \A x \in Live' : edgeIDs'[x] \subseteq Edges
      BY <2>3, <2>8 DEF MatchInv, Live
    <3>2. ASSUME NEW f \in Edges, NEW x \in f, x \in Live'
          PROVE  f \in edgeIDs'[x] \/ <<f, x>> \in Owed'
      <4>0. x \in Scenes
        BY <3>2 DEF Live
      <4>1. f \in edgeIDs[x] \/ <<f, x>> \in Owed
        BY <2>8, <3>2 DEF MatchInv
      <4>2. CASE x # s \/ <<f, x>> \in Owed
        BY <2>1, <2>3, <2>8, <4>0, <4>1, <4>2
      <4>3. CASE x = s /\ f \in edgeIDs[s]
        <5>1. rank # 0
          BY <2>4, <3>2, <4>3 DEF Live
        <5>2. rank = Weak => <<f, s>> \in Cleared(s, rank)
          BY <4>3 DEF Cleared
        <5>3. QED  BY <2>1, <2>3, <2>8, <2>b, <4>3, <5>1, <5>2 DEF Weak, Strong
      <4>4. QED  BY <4>1, <4>2, <4>3
    <3>3. ASSUME NEW f \in Pairs, NEW x \in Scenes, <<f, x>> \in Owed'
          PROVE  f \notin edgeIDs'[x]
      <4>1. CASE <<f, x>> \in Owed
        <5>1. f \notin edgeIDs[x]
          BY <4>1 DEF MatchInv
        <5>2. QED  BY <5>1, <2>3
      <4>2. CASE <<f, x>> \in Cleared(s, rank)
        BY <2>3, <4>2 DEF Cleared, Weak
      <4>3. QED  BY <2>1, <2>8, <3>3, <4>1, <4>2
    <3>4. QED  BY <2>1, <2>8, <3>1, <3>2, <3>3 DEF MatchInv
  <2>10. QED  BY <2>1, <2>2, <2>5, <2>6, <2>7, <2>9
<1>3. QED  BY <1>1, <1>2 DEF DecayOneNode

\* An edge a fading node withdrew from goes, after the other end's list: the
\* fading node's own list no longer names it.
LEMMA RemoveNodeFromEdgeKeeps ==
    ASSUME IInv, NEW e \in Pairs, NEW s \in Scenes, RemoveNodeFromEdge(e, s)
    PROVE  IInv'
<1> USE DEF IInv
<1>0. At("clear") /\ <<e, s>> \in pass.todo /\ UNCHANGED <<topics, importance, listed, passes, settled>>
  BY DEF RemoveNodeFromEdge
<1>1. ASSUME NEW S \in SUBSET (e \ {s}), Fails, Abort, edgeIDs' = Unlist({e}, S), UNCHANGED weight
      PROVE  IInv'
  <2>1. (NodeType /\ SharedInv)'
    BY <1>0, <1>1, UnlistShrinks DEF NodeType, SharedInv
  <2>2. QED  BY <1>0, <1>1, <2>1, BrokenOff DEF At
<1>2. CASE /\ Succeeds /\ Done(<<e, s>>)
           /\ weight' = [weight EXCEPT ![e] = 0]
           /\ edgeIDs' = Unlist({e}, IF e \in Edges THEN e \ {s} ELSE {})
  <2>1. /\ pass'.stage = "clear" /\ pass'.todo = pass.todo \ {<<e, s>>}
        /\ pass'.cleared = pass.cleared /\ PassType'
    BY <1>0, <1>2, ItemDone DEF At
  <2>2. (TopicType /\ CountType /\ EndedInv)'
    BY <1>0, <1>2 DEF TopicType, CountType, EndedInv, topics, Succeeds
  <2>3. /\ edgeIDs' \in [Scenes -> SUBSET Pairs]
        /\ \A x \in Scenes : edgeIDs'[x] \subseteq edgeIDs[x]
        /\ \A x \in Scenes : \A f \in edgeIDs[x] : f # e => f \in edgeIDs'[x]
        /\ e \in Edges => \A x \in e \ {s} : x \in Scenes => e \notin edgeIDs'[x]
    <3> DEFINE R == IF e \in Edges THEN e \ {s} ELSE {}
    <3> HIDE DEF R
    <3>1. edgeIDs' = Unlist({e}, R)
      BY <1>2 DEF R
    <3>2. /\ edgeIDs' \in [Scenes -> SUBSET Pairs]
          /\ \A x \in Scenes : edgeIDs'[x] = IF x \in R THEN edgeIDs[x] \ {e} ELSE edgeIDs[x]
      BY <3>1 DEF Unlist, NodeType
    <3>3. QED  BY <3>2 DEF R
  <2>4. weight' \in [Pairs -> 0 .. Strong] /\ \A f \in Pairs : weight'[f] = IF f = e THEN 0 ELSE weight[f]
    BY <1>2 DEF NodeType, Strong
  <2>5. NodeType'
    BY <1>0, <2>3, <2>4 DEF NodeType
  <2>6. SharedInv'
    <3> SUFFICES ASSUME NEW a \in Scenes, NEW b \in Scenes, a # b,
                        NEW f \in edgeIDs'[a] \cap edgeIDs'[b]
                 PROVE  weight'[f] > 0
      BY DEF SharedInv
    <3>1. f \in Pairs /\ f \in edgeIDs[a] \cap edgeIDs[b] /\ a \in f /\ b \in f
      BY <2>3 DEF NodeType
    <3>2. weight[f] > 0
      BY <3>1 DEF SharedInv
    <3>3. f # e
      BY <2>3, <3>1, <3>2 DEF Edges
    <3>4. QED  BY <2>4, <3>1, <3>2, <3>3
  <2>7. (StageInv /\ SettleInv)'
    BY <1>0, <2>1 DEF StageInv, SettleInv, At, Off
  <2>8. /\ Edges' = Edges \ {e} /\ Live' = Live
        /\ Owed = pass.todo /\ Owed' = pass.todo \ {<<e, s>>}
    BY <1>0, <2>1, <2>4 DEF Edges, Live, Owed, At
  <2>9. MatchInv'
    <3> SUFFICES ASSUME trouble = 0 PROVE MatchInv'
      BY <1>2 DEF MatchInv, Succeeds
    <3>1. e \notin edgeIDs[s]
      BY <1>0, <2>8 DEF MatchInv
    <3>2. \A x \in Live : edgeIDs'[x] \subseteq Edges \ {e}
      <4> SUFFICES ASSUME NEW x \in Live, NEW f \in edgeIDs'[x] PROVE f \in Edges \ {e}
        OBVIOUS
      <4>1. x \in Scenes /\ f \in edgeIDs[x] /\ f \in Edges
        BY <2>3 DEF MatchInv, Live
      <4>2. x \in f
        BY <4>1 DEF NodeType
      <4>3. QED  BY <2>3, <3>1, <4>1, <4>2
    <3>3. \A f \in Edges \ {e} : \A x \in f : x \in Live => f \in edgeIDs'[x] \/ <<f, x>> \in Owed'
      <4> SUFFICES ASSUME NEW f \in Edges \ {e}, NEW x \in f, x \in Live
                   PROVE  f \in edgeIDs'[x] \/ <<f, x>> \in Owed'
        OBVIOUS
      <4>1. f \in edgeIDs[x] \/ <<f, x>> \in Owed
        BY DEF MatchInv
      <4>2. <<f, x>> # <<e, s>>
        OBVIOUS
      <4>3. QED  BY <2>3, <2>8, <4>1, <4>2 DEF Live
    <3>4. \A f \in Pairs, x \in Scenes : <<f, x>> \in Owed' => f \notin edgeIDs'[x]
      BY <2>3, <2>8 DEF MatchInv
    <3>5. QED  BY <2>1, <2>8, <3>2, <3>3, <3>4 DEF MatchInv
  <2>10. QED  BY <2>1, <2>2, <2>5, <2>6, <2>7, <2>9
<1>3. QED  BY <1>1, <1>2 DEF RemoveNodeFromEdge

\* The last stage: an edge that has faded or lost a member goes with its list
\* entries, one that stays has both members.
LEMMA DecayOneEdgeKeeps ==
    ASSUME IInv, NEW e \in Pairs, DecayOneEdge(e)
    PROVE  IInv'
<1> USE DEF IInv
<1>0. At("edges") /\ e \in pass.todo /\ UNCHANGED <<topics, importance, listed, passes, settled>>
  BY DEF DecayOneEdge
<1>1. ASSUME NEW S \in SUBSET e, Fails, Abort, edgeIDs' = Unlist({e}, S), UNCHANGED weight
      PROVE  IInv'
  <2>1. (NodeType /\ SharedInv)'
    BY <1>0, <1>1, UnlistShrinks DEF NodeType, SharedInv
  <2>2. QED  BY <1>0, <1>1, <2>1, BrokenOff DEF At
<1>2. ASSUME NEW rank \in 0 .. weight[e], Succeeds, Done(e),
             weight' = [weight EXCEPT ![e] = IF EdgeEnds(e, rank) THEN 0 ELSE rank],
             edgeIDs' = Unlist({e}, IF EdgeEnds(e, rank) THEN e ELSE {})
      PROVE  IInv'
  <2>1. /\ pass'.stage = "edges" /\ pass'.todo = pass.todo \ {e}
        /\ pass'.cleared = pass.cleared /\ PassType'
    BY <1>0, <1>2, ItemDone DEF At
  <2>2. (TopicType /\ CountType /\ EndedInv)'
    BY <1>0, <1>2 DEF TopicType, CountType, EndedInv, topics, Succeeds
  <2>3. /\ edgeIDs' \in [Scenes -> SUBSET Pairs]
        /\ \A x \in Scenes : edgeIDs'[x] \subseteq edgeIDs[x]
        /\ \A x \in Scenes : \A f \in edgeIDs[x] : f # e => f \in edgeIDs'[x]
        /\ EdgeEnds(e, rank) => \A x \in e : x \in Scenes => e \notin edgeIDs'[x]
        /\ ~EdgeEnds(e, rank) => \A x \in Scenes : edgeIDs'[x] = edgeIDs[x]
    <3> DEFINE R == IF EdgeEnds(e, rank) THEN e ELSE {}
    <3> HIDE DEF R
    <3>1. edgeIDs' = Unlist({e}, R)
      BY <1>2 DEF R
    <3>2. /\ edgeIDs' \in [Scenes -> SUBSET Pairs]
          /\ \A x \in Scenes : edgeIDs'[x] = IF x \in R THEN edgeIDs[x] \ {e} ELSE edgeIDs[x]
      BY <3>1 DEF Unlist, NodeType
    <3>3. QED  BY <3>2 DEF R
  <2>4. weight[e] \in 0 .. Strong /\ rank \in 0 .. Strong
    BY DEF NodeType, Strong
  <2>5. /\ weight' \in [Pairs -> 0 .. Strong]
        /\ \A f \in Pairs : weight'[f] = IF f # e THEN weight[f]
                                         ELSE IF EdgeEnds(e, rank) THEN 0 ELSE rank
    BY <1>2, <2>4 DEF NodeType, Strong
  <2>6. NodeType'
    BY <1>0, <2>3, <2>5 DEF NodeType
  <2>7. ~EdgeEnds(e, rank) => rank > 0 /\ e \subseteq Live
    BY <2>4 DEF EdgeEnds, Strong
  <2>8. SharedInv'
    <3> SUFFICES ASSUME NEW a \in Scenes, NEW b \in Scenes, a # b,
                        NEW f \in edgeIDs'[a] \cap edgeIDs'[b]
                 PROVE  weight'[f] > 0
      BY DEF SharedInv
    <3>1. f \in Pairs /\ f \in edgeIDs[a] \cap edgeIDs[b] /\ a \in f /\ b \in f
      BY <2>3 DEF NodeType
    <3>2. weight[f] > 0
      BY <3>1 DEF SharedInv
    <3>3. f = e => ~EdgeEnds(e, rank)
      BY <2>3, <3>1
    <3>4. QED  BY <2>5, <2>7, <3>1, <3>2, <3>3
  <2>9. Edges' \subseteq Edges /\ (\A f \in Edges : f # e => f \in Edges') /\ Live' = Live
        /\ (e \in Edges' => ~EdgeEnds(e, rank)) /\ (~EdgeEnds(e, rank) => e \in Edges')
    BY <1>0, <2>4, <2>5, <2>7 DEF Edges, Live
  <2>10. Owed = {} /\ Owed' = {}
    BY <1>0, <2>1 DEF Owed, At
  <2>11. (StageInv /\ SettleInv)'
    BY <1>0, <2>1, <2>7, <2>9 DEF StageInv, SettleInv, At, Off
  <2>12. MatchInv'
    <3> SUFFICES ASSUME trouble = 0 PROVE MatchInv'
      BY <1>2 DEF MatchInv, Succeeds
    <3>1. \A x \in Live : edgeIDs'[x] \subseteq Edges'
      <4> SUFFICES ASSUME NEW x \in Live, NEW f \in edgeIDs'[x] PROVE f \in Edges'
        OBVIOUS
      <4>1. x \in Scenes /\ f \in edgeIDs[x] /\ f \in Edges
        BY <2>3 DEF MatchInv, Live
      <4>2. x \in f
        BY <4>1 DEF NodeType
      <4>3. QED  BY <2>3, <2>9, <4>1, <4>2
    <3>2. \A f \in Edges' : \A x \in f : x \in Live => f \in edgeIDs'[x]
      <4> SUFFICES ASSUME NEW f \in Edges', NEW x \in f, x \in Live PROVE f \in edgeIDs'[x]
        OBVIOUS
      <4>1. f \in edgeIDs[x] /\ x \in Scenes
        BY <2>9, <2>10 DEF MatchInv, Live
      <4>2. QED  BY <2>3, <2>9, <4>1
    <3>3. QED  BY <2>1, <2>9, <2>10, <3>1, <3>2 DEF MatchInv
  <2>13. QED  BY <2>1, <2>2, <2>6, <2>8, <2>11, <2>12
<1>3. QED  BY <1>1, <1>2 DEF DecayOneEdge
-----------------------------------------------------------------------------
\* A domain without an L1 record satisfies the invariant.
LEMMA InitEstablishes == Init => IInv
<1> SUFFICES ASSUME Init PROVE IInv
  OBVIOUS
<1> USE ConstantsOK DEF Init
<1>1. pass = Off /\ pass.stage = "off" /\ Edges = {} /\ Live = {} /\ Owed = {}
  BY DEF Off, Edges, Live, Owed, At
<1>2. PassType /\ TopicType
  BY <1>1 DEF PassType, TopicType, Off, Stages
<1>a. CountType
  <2>1. passes \in 0 .. MaxPasses /\ trouble \in 0 .. MaxTrouble
    OBVIOUS
  <2>2. settled \in BOOLEAN
    OBVIOUS
  <2>3. QED  BY <2>1, <2>2 DEF CountType
<1>3. NodeType
  BY DEF NodeType, Strong
<1>4. StageInv /\ EndedInv /\ SharedInv /\ SettleInv /\ MatchInv
  BY <1>1 DEF StageInv, EndedInv, SharedInv, SettleInv, MatchInv, At
<1>5. QED  BY <1>2, <1>a, <1>3, <1>4 DEF IInv

\* Every step, or none, keeps the invariant.
LEMMA StepKeeps == IInv /\ [Next]_vars => IInv'
<1> SUFFICES ASSUME IInv, [Next]_vars PROVE IInv'
  OBVIOUS
<1>1. CASE Next
  BY <1>1, CreateTopicKeeps, SinkTopicKeeps, DeleteSceneKeeps, MergeScenesKeeps, RunPassKeeps,
     NextStageKeeps, StageCancelledKeeps, SyncOneSceneNodeKeeps, RemoveStaleNodeKeeps,
     DecayOneNodeKeeps, UpsertSceneEdgeKeeps, DecayOneEdgeKeeps, RemoveNodeFromEdgeKeeps
     DEF Next
<1>2. CASE UNCHANGED vars
  <2>1. (PassType /\ TopicType /\ NodeType /\ CountType)'
    BY <1>2 DEF IInv, vars, topics, network, PassType, TopicType, NodeType, CountType
  <2>2. Edges' = Edges /\ Live' = Live /\ Owed' = Owed /\ Similar' = Similar
    BY <1>2 DEF vars, topics, network, Edges, Live, Owed, At, Similar, KeywordSet, Exists
  <2>3. (StageInv /\ EndedInv /\ SharedInv /\ SettleInv /\ MatchInv)'
    BY <1>2, <2>2 DEF IInv, vars, topics, network, StageInv, EndedInv, SharedInv, SettleInv,
                      MatchInv, At, Shallow
  <2>4. QED  BY <2>1, <2>3 DEF IInv
<1>3. QED  BY <1>1, <1>2

\* The inductive invariant of the scene network.
THEOREM Invariance == Spec => []IInv
  BY InitEstablishes, StepKeeps, PTL DEF Spec

\* The network keeps its shape: a scene without a node has no lists, and a node
\* lists only edges it is a member of.
THEOREM TypeCorrectness == Spec => []TypeOK
<1>1. IInv => TypeOK
  BY DEF IInv, PassType, TopicType, NodeType, CountType, Stages, TypeOK
<1>2. QED  BY Invariance, <1>1, PTL

\* Two nodes that list one edge id are joined by that edge, inside a pass and
\* whatever write a pass broke off at.
THEOREM EdgeIdsAreEdges == Spec => []SharedEdgesExist
<1>1. IInv => SharedEdgesExist
  BY DEF IInv, SharedInv, SharedEdgesExist, NodeType, Live, Edges
<1>2. QED  BY Invariance, <1>1, PTL

\* A pass that ran to its end leaves only edges between nodes that are there,
\* whoever removed the ones that are not.
THEOREM SettledNetwork == Spec => []SettledEdgesJoinNodes
<1>1. IInv => SettledEdgesJoinNodes
  BY DEF IInv, SettleInv, SettledEdgesJoinNodes
<1>2. QED  BY Invariance, <1>1, PTL

\* Without a refused write, nodes and edges name each other between passes,
\* also after a pass that was cancelled between two stages.
THEOREM ListsAgree == Spec => []ListsMatchEdges
<1>1. IInv => ListsMatchEdges
  <2> SUFFICES ASSUME IInv, pass = Off, trouble = 0, NEW s \in Live
               PROVE  edgeIDs[s] = {e \in Edges : s \in e}
    BY DEF ListsMatchEdges
  <2>1. Owed = {}
    BY DEF Owed, At, Off
  <2>2. \A e \in edgeIDs[s] : e \in Edges /\ s \in e
    BY DEF IInv, MatchInv, NodeType, Live
  <2>3. \A e \in Edges : s \in e => e \in edgeIDs[s]
    BY <2>1 DEF IInv, MatchInv
  <2>4. QED  BY <2>2, <2>3
<1>2. QED  BY Invariance, <1>1, PTL
=============================================================================
