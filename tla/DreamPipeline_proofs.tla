------------------------ MODULE DreamPipeline_proofs ------------------------
(***************************************************************************)
(* What a consolidation pass leaves behind, for any scenes and turns, any  *)
(* number of passes, refusals and restarts.                                *)
(***************************************************************************)
EXTENDS DreamPipeline, FiniteSetTheorems, TLAPS

Resting == {"off", "list", "pick"}
Phases  == Resting \cup {"archive", "keywords", "create", "sink", "sinkDelete", "restore", "discard",
                         "discardContent"}

\* A goroutine that applies a group.
Busy(s)   == workers[s].at \notin Resting
Undone(s) == workers[s].then = "failed"

IsSlot(r) ==
    /\ r = [scene |-> r.scene, depth |-> r.depth, parent |-> r.parent]
    /\ r.scene \in Scenes /\ r.depth \in 1..(MaxDepth - 1)

IsWorker(w) ==
    /\ w = [at |-> w.at, group |-> w.group, doomed |-> w.doomed, claimed |-> w.claimed, then |-> w.then]
    /\ w.at \in Phases /\ w.then \in {"pick", "failed"}
    /\ w.group # {} <=> w.at \notin Resting
    /\ w.then = "failed" => w.at \in {"restore", "discard", "discardContent"}
    /\ w.at = "restore" => w.then = "failed"

WorkType ==
    /\ workers = [s \in Scenes |-> workers[s]] /\ \A s \in Scenes : IsWorker(workers[s])
    /\ pass \in {"idle", "compress"} /\ (pass = "idle" => \A s \in Scenes : workers[s] = Off)
    /\ got \in [applied : BOOLEAN, unusable : BOOLEAN, failed : BOOLEAN]
    /\ torn \in BOOLEAN /\ stale \in {"no", "is", "was"}

\* At most Fanout scenes are worked on.
FanInv == IsFiniteSet(Working) /\ Cardinality(Working) <= Fanout

\* A record hangs nowhere or under a summary that was written from it.
TopicType ==
    /\ topics = [t \in DOMAIN topics |-> topics[t]]
    /\ \A t \in DOMAIN topics :
          /\ IsSlot(topics[t])
          /\ topics[t].parent # None =>
                IsFused(topics[t].parent) /\ t \in MembersOf(topics[t].parent)

\* A turn is opened once, and the open turn was not deleted.
TurnInv ==
    /\ opened \subseteq TurnTopics
    /\ DOMAIN topics \cap TurnTopics \subseteq opened /\ lost \cap TurnTopics \subseteq opened
    /\ turn # None => turn \in opened \ lost

\* A group comes from the listing of its scene, its summary is not stored
\* before it is created, and its content is there once it was archived.
GroupInv ==
    \A s \in Scenes : Busy(s) =>
        /\ workers[s].group \subseteq ListTopics(s)
        /\ (workers[s].at \in {"archive", "keywords", "create", "discard", "discardContent"}
               /\ ~Undone(s)) => Parent(s) \notin DOMAIN topics
        /\ workers[s].at # "archive" => Parent(s) \in content

\* A goroutine that has written topics and reported nothing yet.
Dirty(s) == workers[s].at \in {"sink", "sinkDelete"} \/ Undone(s)

\* The mirror is the records' between two passes, and in a pass until a group
\* is created.
ServeInv ==
    stale # "is" /\ (pass = "compress" => ~got.applied /\ ~got.failed /\ \A s \in Scenes : ~Dirty(s))
        => meta = topics

Base == WorkType /\ FanInv /\ TopicType /\ TurnInv /\ GroupInv /\ ServeInv

\* A pass over a mirror that was the records' when it began: no topic sinks
\* twice, none is deleted, and what no group has claimed is as the mirror says.
PassInv ==
    stale = "no" =>
        /\ \A t \in DOMAIN topics : topics[t].depth <= 2
        /\ \A s \in Scenes : workers[s].at # "sinkDelete"
        /\ DOMAIN meta \subseteq DOMAIN topics
        /\ \A s \in Scenes : Busy(s) =>
              Parent(s) \notin DOMAIN meta /\ workers[s].group \cap workers[s].claimed = {}
        /\ \A s \in Scenes : \A t \in DOMAIN meta :
              workers[s].at # "off" /\ meta[t].scene = s /\ t \notin workers[s].claimed
                 /\ ~(t \in workers[s].group /\ Undone(s))
                    => topics[t] = meta[t]
        /\ kept \subseteq DOMAIN topics

InFlight(f) == \E s \in Scenes : Busy(s) /\ f = Parent(s)
Summaries   == {f \in DOMAIN topics : IsFused(f)}

\* A stored summary has its content and its members; once its group is applied
\* they are all its children.
SummaryInv ==
    /\ \A f \in Summaries :
          /\ MembersOf(f) # {} /\ f \in content /\ MembersOf(f) \subseteq DOMAIN topics \cup lost
          /\ ~InFlight(f) => \A t \in MembersOf(f) \cap DOMAIN topics :
                                topics[t].depth > 1 /\ topics[t].parent = f
    /\ \A f \in content : IsFused(f) => f \in DOMAIN topics \/ InFlight(f)
    /\ \A t \in DOMAIN topics : topics[t].parent \in DOMAIN topics \cup {None}

\* A group shares no member with another stored summary, its own summary is no
\* member of one, and a rollback has brought up its members before the summary
\* goes, and the summary before its content.
ApplyInv ==
    \A s \in Scenes : Busy(s) =>
        /\ \A f \in Summaries : Parent(s) \notin MembersOf(f)
        /\ \A f \in Summaries \ {Parent(s)} : workers[s].group \cap MembersOf(f) = {}
        /\ workers[s].at = "archive" => Parent(s) \notin content
        /\ workers[s].at = "sink" => Parent(s) \in DOMAIN topics
        /\ workers[s].at = "discard" => \A t \in DOMAIN topics : topics[t].parent # Parent(s)
        /\ workers[s].at = "discardContent" => Parent(s) \notin DOMAIN topics

\* A deleted topic does not come back: a deleted summary lost a member.
LostInv ==
    /\ lost \cap DOMAIN topics = {}
    /\ \A f \in lost : IsFused(f) => MembersOf(f) \cap lost # {}

WholeInv == stale = "no" /\ ~torn => SummaryInv /\ ApplyInv /\ LostInv
-----------------------------------------------------------------------------
(* Ids, records and goroutines. *)

\* A summary's id is neither a turn's nor the empty one, and names its members.
LEMMA FusedIds ==
    ASSUME NEW G
    PROVE  /\ ComputeFusedTopicID(G) # None /\ ComputeFusedTopicID(G) \notin TurnTopics
           /\ IsFused(ComputeFusedTopicID(G)) /\ MembersOf(ComputeFusedTopicID(G)) = G
  BY DEF ComputeFusedTopicID, None, TurnTopics, ComputeTurnTopicID, IsFused, MembersOf

\* A turn's id is not a summary's.
LEMMA TurnIds == \A t \in TurnTopics : t # None /\ ~IsFused(t)
  BY DEF TurnTopics, ComputeTurnTopicID, None, IsFused

\* A goroutine's record, field by field.
Rec(a, g, d, c, t) == [at |-> a, group |-> g, doomed |-> d, claimed |-> c, then |-> t]

\* What it holds.
LEMMA RecFields ==
    ASSUME NEW a, NEW g, NEW d, NEW c, NEW t
    PROVE  /\ Rec(a, g, d, c, t).at = a /\ Rec(a, g, d, c, t).group = g
           /\ Rec(a, g, d, c, t).doomed = d /\ Rec(a, g, d, c, t).claimed = c
           /\ Rec(a, g, d, c, t).then = t
  BY DEF Rec

\* A step of one goroutine.
LEMMA Goes ==
    ASSUME WorkType, NEW s \in Scenes, NEW w, Go(s, w)
    PROVE  /\ workers' = [r \in Scenes |-> workers'[r]] /\ workers'[s] = w
           /\ \A r \in Scenes : r # s => workers'[r] = workers[r]
<1>1. workers = [r \in Scenes |-> workers[r]]
  BY DEF WorkType
<1>2. QED  BY <1>1 DEF Go

\* A goroutine that is under way belongs to a pass.
LEMMA InPass ==
    ASSUME WorkType, NEW s \in Scenes, workers[s].at # "off"
    PROVE  pass = "compress"
  BY DEF WorkType, Off

\* Two goroutines work on groups of different scenes.
LEMMA ApartFrom ==
    ASSUME GroupInv, WorkType, NEW s \in Scenes, NEW r \in Scenes, s # r, Busy(s), Busy(r)
    PROVE  /\ workers[s].group \cap workers[r].group = {} /\ workers[s].group # {}
           /\ Parent(s) # Parent(r)
<1>1. workers[s].group \subseteq ListTopics(s) /\ workers[r].group \subseteq ListTopics(r)
  BY DEF GroupInv
<1>2. workers[s].group \cap workers[r].group = {}
  BY <1>1 DEF ListTopics
<1>3. workers[s].group # {} /\ workers[r].group # {}
  BY DEF WorkType, IsWorker, Busy
<1>4. MembersOf(Parent(s)) = workers[s].group /\ MembersOf(Parent(r)) = workers[r].group
  BY FusedIds DEF Parent
<1>5. QED  BY <1>2, <1>3, <1>4

\* What sinking and coming up again make of a topic record.
LEMMA SlotUpdates ==
    ASSUME NEW r, IsSlot(r), NEW p
    PROVE  /\ [r EXCEPT !.depth = @ + 1, !.parent = p]
                = [scene |-> r.scene, depth |-> r.depth + 1, parent |-> p]
           /\ [r EXCEPT !.depth = IF @ > 1 THEN @ - 1 ELSE @, !.parent = p]
                = [scene |-> r.scene, depth |-> IF r.depth > 1 THEN r.depth - 1 ELSE r.depth, parent |-> p]
<1> DEFINE q(x1, x2, x3) == [scene |-> x1, depth |-> x2, parent |-> x3]
<1>1. PICK x1, x2, x3 : x1 = r.scene /\ x2 = r.depth /\ x3 = r.parent
  OBVIOUS
<1>2. r = q(x1, x2, x3)
  BY <1>1 DEF IsSlot
<1>3. \A d : [q(x1, x2, x3) EXCEPT !.depth = d] = q(x1, d, x3)
  OBVIOUS
<1>4. \A d : [q(x1, d, x3) EXCEPT !.parent = p] = q(x1, d, p)
  OBVIOUS
<1> HIDE DEF q
<1>5. \A d : [r EXCEPT !.depth = d, !.parent = p] = q(x1, d, p)
  BY <1>2, <1>3, <1>4, Zenon
<1>6. /\ [r EXCEPT !.depth = @ + 1, !.parent = p] = [r EXCEPT !.depth = r.depth + 1, !.parent = p]
      /\ [r EXCEPT !.depth = IF @ > 1 THEN @ - 1 ELSE @, !.parent = p]
           = [r EXCEPT !.depth = IF r.depth > 1 THEN r.depth - 1 ELSE r.depth, !.parent = p]
  BY Zenon
<1>7. QED  BY <1>1, <1>5, <1>6 DEF q

\* The report of a goroutine.
LEMMA GotUpdates ==
    ASSUME WorkType
    PROVE  LET G == [applied : BOOLEAN, unusable : BOOLEAN, failed : BOOLEAN] IN
           /\ [got EXCEPT !.applied = TRUE] \in G /\ [got EXCEPT !.applied = TRUE].applied
           /\ [got EXCEPT !.unusable = TRUE] \in G
           /\ [got EXCEPT !.unusable = TRUE].applied = got.applied
           /\ [got EXCEPT !.unusable = TRUE].failed = got.failed
           /\ [got EXCEPT !.failed = TRUE] \in G /\ [got EXCEPT !.failed = TRUE].failed
  BY DEF WorkType

\* The resting record is one.
LEMMA OffIsWorker == IsWorker(Off) /\ Off.at = "off" /\ Off.then = "pick" /\ Off.group = {}
  BY DEF IsWorker, Off, Resting, Phases

\* What a step of a goroutine that has begun leaves alone.
LEMMA FrameBase ==
    ASSUME Base, NEW s \in Scenes, workers[s].at # "off", NEW w, IsWorker(w), Go(s, w),
           w.at \in {"off", "list"} \/ workers[s].at # "list",
           pass' = pass, turn' = turn, opened' = opened, lost' = lost, stale' = stale,
           torn' \in BOOLEAN, got' \in [applied : BOOLEAN, unusable : BOOLEAN, failed : BOOLEAN],
           DOMAIN topics' \cap TurnTopics \subseteq DOMAIN topics
    PROVE  (WorkType /\ FanInv /\ TurnInv)'
<1> USE DEF Base
<1>1. /\ workers' = [r \in Scenes |-> workers'[r]] /\ workers'[s] = w
      /\ \A r \in Scenes : r # s => workers'[r] = workers[r]
  BY Goes
<1>2. pass = "compress"
  BY InPass
<1>3. WorkType'
  BY <1>1, <1>2 DEF WorkType
<1>4. Working' \subseteq Working
  BY <1>1 DEF Working
<1>5. IsFiniteSet(Working) /\ Cardinality(Working) <= Fanout
  BY DEF FanInv
<1>6. IsFiniteSet(Working') /\ Cardinality(Working') <= Cardinality(Working)
      /\ Cardinality(Working') \in Nat /\ Cardinality(Working) \in Nat
  BY <1>4, <1>5, FS_Subset, FS_CardinalityType
<1>7. FanInv'
  BY <1>5, <1>6, ConstantsOK DEF FanInv
<1>8. TurnInv'
  BY DEF TurnInv
<1>9. QED  BY <1>3, <1>7, <1>8

\* What a step of one goroutine leaves of the others' groups.
LEMMA OthersKeepGroups ==
    ASSUME Base, NEW s \in Scenes, Busy(s) \/ (topics' = topics /\ content' = content),
           \A r \in Scenes : r # s => workers'[r] = workers[r], meta' = meta,
           DOMAIN topics' \subseteq DOMAIN topics \cup {Parent(s)},
           content \subseteq content' \cup {Parent(s)},
           NEW r \in Scenes, r # s, Busy(r)'
    PROVE  /\ workers'[r].group \subseteq ListTopics(r)'
           /\ (workers'[r].at \in {"archive", "keywords", "create", "discard", "discardContent"}
                 /\ ~Undone(r)') => Parent(r)' \notin DOMAIN topics'
           /\ workers'[r].at # "archive" => Parent(r)' \in content'
<1>1. workers'[r] = workers[r] /\ Busy(r) /\ Parent(r)' = Parent(r) /\ ListTopics(r)' = ListTopics(r)
      /\ Undone(r)' = Undone(r)
  BY DEF Busy, Parent, ListTopics, Undone
<1>2. /\ workers[r].group \subseteq ListTopics(r)
      /\ (workers[r].at \in {"archive", "keywords", "create", "discard", "discardContent"}
            /\ ~Undone(r)) => Parent(r) \notin DOMAIN topics
      /\ workers[r].at # "archive" => Parent(r) \in content
  BY <1>1 DEF Base, GroupInv
<1>3. Busy(s) => Parent(s) # Parent(r)
  BY <1>1, ApartFrom DEF Base
<1>4. QED  BY <1>1, <1>2, <1>3

\* A step that writes no topic keeps the mirror's claim, and so does one after
\* which the pass reports or a goroutine has something to report.
LEMMA ServeMoves ==
    ASSUME Base, NEW s \in Scenes, pass = "compress",
           \A r \in Scenes : r # s => workers'[r] = workers[r],
           meta' = meta, stale' = stale, pass' = pass,
           \/ got'.applied \/ got'.failed \/ Dirty(s)'
           \/ topics' = topics /\ ~Dirty(s) /\ got'.applied = got.applied /\ got'.failed = got.failed
    PROVE  ServeInv'
<1>1. \A r \in Scenes : r # s => (Dirty(r)' <=> Dirty(r))
  BY DEF Dirty, Undone
<1>2. QED  BY <1>1 DEF Base, ServeInv
-----------------------------------------------------------------------------
(* The steps of a goroutine, by what they do to its record. *)

\* Goroutine s goes on at phase a with group g, claims c and reason t.
Moved(s, a, g, c, t) ==
    /\ workers'[s].at = a /\ workers'[s].group = g
    /\ workers'[s].claimed = c /\ workers'[s].then = t
    /\ IsWorker(workers'[s]) /\ Go(s, workers'[s])
    /\ \A r \in Scenes : r # s => workers'[r] = workers[r]

\* What every step of a goroutine leaves alone.
Still == UNCHANGED <<meta, pass, turn, opened, lost, stale>>

\* A record with these fields is one of a goroutine.
LEMMA RecIsWorker ==
    ASSUME NEW a \in Phases, NEW g, NEW d, NEW c, NEW t \in {"pick", "failed"},
           g # {} <=> a \notin Resting,
           t = "failed" => a \in {"restore", "discard", "discardContent"},
           a = "restore" => t = "failed"
    PROVE  IsWorker(Rec(a, g, d, c, t))
<1>1. PICK w : w = Rec(a, g, d, c, t)
  OBVIOUS
<1>2. w.at = a /\ w.group = g /\ w.doomed = d /\ w.claimed = c /\ w.then = t
  BY <1>1, RecFields
<1>3. w = [at |-> w.at, group |-> w.group, doomed |-> w.doomed, claimed |-> w.claimed, then |-> w.then]
  BY <1>1, <1>2 DEF Rec
<1>4. QED  BY <1>1, <1>2, <1>3 DEF IsWorker

\* A step to such a record.
LEMMA GoesTo ==
    ASSUME WorkType, NEW s \in Scenes,
           NEW a \in Phases, NEW g, NEW d, NEW c, NEW t \in {"pick", "failed"},
           g # {} <=> a \notin Resting,
           t = "failed" => a \in {"restore", "discard", "discardContent"},
           a = "restore" => t = "failed",
           Go(s, Rec(a, g, d, c, t))
    PROVE  Moved(s, a, g, c, t)
<1>1. PICK w : w = Rec(a, g, d, c, t)
  OBVIOUS
<1>2. IsWorker(w) /\ w.at = a /\ w.group = g /\ w.claimed = c /\ w.then = t
  BY <1>1, RecIsWorker, RecFields
<1>3. workers'[s] = w /\ \A r \in Scenes : r # s => workers'[r] = workers[r]
  BY <1>1, Goes
<1>4. Go(s, workers'[s])
  BY <1>1, <1>3
<1>5. QED  BY <1>2, <1>3, <1>4 DEF Moved

\* A goroutine that ends.
LEMMA GoesOff ==
    ASSUME WorkType, NEW s \in Scenes, Go(s, Off)
    PROVE  Moved(s, "off", {}, {}, "pick")
<1>1. Off = Rec("off", {}, {}, {}, "pick")
  BY DEF Off, Rec
<1>2. QED  BY <1>1, GoesTo DEF Phases, Resting

\* What is known of a goroutine's fields.
LEMMA WorkerFields ==
    ASSUME WorkType, NEW s \in Scenes
    PROVE  /\ IsWorker(workers[s]) /\ workers[s].at \in Phases /\ workers[s].then \in {"pick", "failed"}
           /\ workers[s].group # {} <=> workers[s].at \notin Resting
           /\ workers[s].then = "failed" => workers[s].at \in {"restore", "discard", "discardContent"}
           /\ workers[s].at = "restore" => workers[s].then = "failed"
  BY DEF WorkType, IsWorker

\* The updates of goroutine s, as records.
LEMMA GoUpdates ==
    ASSUME WorkType, NEW s \in Scenes, NEW a, NEW g, NEW d, NEW c, NEW t
    PROVE  /\ Step(s, a) =>
                Go(s, Rec(a, workers[s].group, workers[s].doomed, workers[s].claimed, workers[s].then))
           /\ Go(s, [workers[s] EXCEPT !.at = a, !.group = g]) =>
                Go(s, Rec(a, g, workers[s].doomed, workers[s].claimed, workers[s].then))
           /\ Go(s, [workers[s] EXCEPT !.at = a, !.then = t]) =>
                Go(s, Rec(a, workers[s].group, workers[s].doomed, workers[s].claimed, t))
           /\ Go(s, [workers[s] EXCEPT !.at = a, !.doomed = d]) =>
                Go(s, Rec(a, workers[s].group, d, workers[s].claimed, workers[s].then))
           /\ Go(s, [workers[s] EXCEPT !.at = a, !.group = g, !.doomed = d, !.claimed = c]) =>
                Go(s, Rec(a, g, d, c, workers[s].then))
<1>1. PICK w : w = workers[s]
  OBVIOUS
<1>2. IsWorker(w)
  BY <1>1, WorkerFields
<1>3. /\ [w EXCEPT !.at = a] = Rec(a, w.group, w.doomed, w.claimed, w.then)
      /\ [w EXCEPT !.at = a, !.group = g] = Rec(a, g, w.doomed, w.claimed, w.then)
      /\ [w EXCEPT !.at = a, !.then = t] = Rec(a, w.group, w.doomed, w.claimed, t)
      /\ [w EXCEPT !.at = a, !.doomed = d] = Rec(a, w.group, d, w.claimed, w.then)
      /\ [w EXCEPT !.at = a, !.group = g, !.doomed = d, !.claimed = c] = Rec(a, g, d, c, w.then)
  <2> DEFINE r(x1, x2, x3, x4, x5) == [at |-> x1, group |-> x2, doomed |-> x3, claimed |-> x4, then |-> x5]
  <2>1. w = r(w.at, w.group, w.doomed, w.claimed, w.then)
    BY <1>2 DEF IsWorker
  <2>2. PICK x1, x2, x3, x4, x5 : /\ x1 = w.at /\ x2 = w.group /\ x3 = w.doomed
                                  /\ x4 = w.claimed /\ x5 = w.then
    OBVIOUS
  <2>3. w = r(x1, x2, x3, x4, x5)
    BY <2>1, <2>2
  <2>4. [r(x1, x2, x3, x4, x5) EXCEPT !.at = a] = r(a, x2, x3, x4, x5)
    OBVIOUS
  <2>5. [r(a, x2, x3, x4, x5) EXCEPT !.group = g] = r(a, g, x3, x4, x5)
    OBVIOUS
  <2>6. [r(a, x2, x3, x4, x5) EXCEPT !.then = t] = r(a, x2, x3, x4, t)
    OBVIOUS
  <2>7. [r(a, x2, x3, x4, x5) EXCEPT !.doomed = d] = r(a, x2, d, x4, x5)
    OBVIOUS
  <2>8. [r(a, g, x3, x4, x5) EXCEPT !.doomed = d] = r(a, g, d, x4, x5)
    OBVIOUS
  <2>9. [r(a, g, d, x4, x5) EXCEPT !.claimed = c] = r(a, g, d, c, x5)
    OBVIOUS
  <2> HIDE DEF r
  <2>10. /\ [w EXCEPT !.at = a] = r(a, x2, x3, x4, x5)
         /\ [w EXCEPT !.at = a, !.group = g] = r(a, g, x3, x4, x5)
         /\ [w EXCEPT !.at = a, !.then = t] = r(a, x2, x3, x4, t)
         /\ [w EXCEPT !.at = a, !.doomed = d] = r(a, x2, d, x4, x5)
    BY <2>3, <2>4, <2>5, <2>6, <2>7, Zenon
  <2>11. [w EXCEPT !.at = a, !.group = g, !.doomed = d, !.claimed = c] = r(a, g, d, c, x5)
    BY <2>3, <2>4, <2>5, <2>8, <2>9, Zenon
  <2>12. QED  BY <2>1, <2>2, <2>10, <2>11 DEF Rec, r
<1>4. Step(s, a) => Go(s, Rec(a, workers[s].group, workers[s].doomed, workers[s].claimed, workers[s].then))
  BY <1>1, <1>3, Zenon DEF Step
<1>5. /\ Go(s, [workers[s] EXCEPT !.at = a, !.group = g]) =>
           Go(s, Rec(a, g, workers[s].doomed, workers[s].claimed, workers[s].then))
      /\ Go(s, [workers[s] EXCEPT !.at = a, !.then = t]) =>
           Go(s, Rec(a, workers[s].group, workers[s].doomed, workers[s].claimed, t))
  BY <1>1, <1>3, Zenon
<1>6. /\ Go(s, [workers[s] EXCEPT !.at = a, !.doomed = d]) =>
           Go(s, Rec(a, workers[s].group, d, workers[s].claimed, workers[s].then))
      /\ Go(s, [workers[s] EXCEPT !.at = a, !.group = g, !.doomed = d, !.claimed = c]) =>
           Go(s, Rec(a, g, d, c, workers[s].then))
  BY <1>1, <1>3, Zenon
<1>7. QED  BY <1>4, <1>5, <1>6, Zenon

\* The scene is too small, the model is asked, or its answer is unusable.
LEMMA ConsolidateFacts ==
    ASSUME WorkType, NEW s \in Scenes, Consolidate(s)
    PROVE  /\ workers[s].at = "list" /\ Still /\ UNCHANGED <<topics, content, torn>>
           /\ got' = got \/ got' = [got EXCEPT !.unusable = TRUE]
           /\ \/ Moved(s, "off", {}, {}, "pick")
              \/ /\ Moved(s, "pick", {}, workers[s].claimed, "pick")
                 /\ Cardinality(Working) < Fanout
<1>1. Step(s, "pick") => Moved(s, "pick", {}, workers[s].claimed, "pick")
  <2> SUFFICES ASSUME Step(s, "pick"), workers[s].at = "list"
               PROVE  Moved(s, "pick", {}, workers[s].claimed, "pick")
    BY DEF Consolidate
  <2>1. workers[s].group = {} /\ workers[s].then = "pick"
    BY WorkerFields DEF Resting
  <2>2. Go(s, Rec("pick", {}, workers[s].doomed, workers[s].claimed, "pick"))
    BY <2>1, GoUpdates, Zenon
  <2>3. QED  BY <2>2, GoesTo DEF Phases, Resting
<1>2. QED  BY <1>1, GoesOff DEF Consolidate, Still, records, history, bounds

\* A group is chosen from the listing.
LEMMA PickFacts ==
    ASSUME WorkType, NEW s \in Scenes, NEW G, PickGroup(s, G)
    PROVE  /\ workers[s].at = "pick" /\ Still /\ UNCHANGED <<topics, content, torn, got>>
           /\ G \subseteq ListTopics(s) /\ G # {} /\ G \cap workers[s].claimed = {}
           /\ ComputeFusedTopicID(G) \notin DOMAIN topics
           /\ Moved(s, "archive", G, workers[s].claimed, "pick")
<1>1. /\ workers[s].at = "pick" /\ Still /\ UNCHANGED <<topics, content, torn, got>>
      /\ G \subseteq ListTopics(s) /\ Cardinality(G) >= 2 /\ G \cap workers[s].claimed = {}
      /\ ComputeFusedTopicID(G) \notin DOMAIN topics
      /\ Go(s, [workers[s] EXCEPT !.at = "archive", !.group = G])
  BY DEF PickGroup, SharesMember, Still, records, history, bounds
<1>2. G # {}
  BY <1>1, FS_EmptySet
<1>3. workers[s].then = "pick"
  BY <1>1, WorkerFields
<1>4. Go(s, Rec("archive", G, workers[s].doomed, workers[s].claimed, "pick"))
  BY <1>1, <1>3, GoUpdates, Zenon
<1>5. Moved(s, "archive", G, workers[s].claimed, "pick")
  BY <1>2, <1>4, GoesTo DEF Phases, Resting
<1>6. QED  BY <1>1, <1>2, <1>5

\* A proposal is skipped, or there are no more.
LEMMA SkipFacts ==
    ASSUME WorkType, NEW s \in Scenes, SkipGroup(s)
    PROVE  Still /\ UNCHANGED <<topics, content, torn, workers>> /\ workers[s].at = "pick"
           /\ got' = [got EXCEPT !.unusable = TRUE]
  BY DEF SkipGroup, Still, records, history, bounds

\* The goroutine has no more groups.
LEMMA NoMoreFacts ==
    ASSUME WorkType, NEW s \in Scenes, NoMoreGroups(s)
    PROVE  /\ Still /\ UNCHANGED <<topics, content, torn, got>> /\ workers[s].at = "pick"
           /\ Moved(s, "off", {}, {}, "pick")
  BY GoesOff DEF NoMoreGroups, Still, records, history, bounds

\* The summary's content is written, or the scene fails.
LEMMA ArchiveFacts ==
    ASSUME WorkType, NEW s \in Scenes, ArchiveSummary(s)
    PROVE  /\ workers[s].at = "archive" /\ Still /\ UNCHANGED <<topics, torn>>
           /\ \/ /\ content' = content \cup {Parent(s)} /\ got' = got
                 /\ Moved(s, "keywords", workers[s].group, workers[s].claimed, "pick")
              \/ /\ content' = content /\ got' = [got EXCEPT !.failed = TRUE]
                 /\ Moved(s, "off", {}, {}, "pick")
<1>0. /\ workers[s].at = "archive" /\ Still /\ UNCHANGED <<topics, torn>>
      /\ \/ content' = content \cup {Parent(s)} /\ Step(s, "keywords") /\ got' = got
         \/ content' = content /\ Go(s, Off) /\ got' = [got EXCEPT !.failed = TRUE]
  BY DEF ArchiveSummary, FailScene, Still, history
<1>1. Step(s, "keywords") => Moved(s, "keywords", workers[s].group, workers[s].claimed, "pick")
  <2> SUFFICES ASSUME Step(s, "keywords")
               PROVE  Moved(s, "keywords", workers[s].group, workers[s].claimed, "pick")
    OBVIOUS
  <2>1. workers[s].group # {} /\ workers[s].then = "pick"
    BY <1>0, WorkerFields DEF Resting
  <2>2. Go(s, Rec("keywords", workers[s].group, workers[s].doomed, workers[s].claimed, "pick"))
    BY <2>1, GoUpdates, Zenon
  <2>3. QED  BY <2>1, <2>2, GoesTo DEF Phases, Resting
<1>2. QED  BY <1>0, <1>1, GoesOff

\* The model finds keywords for the summary, or the group is dropped.
LEMMA KeywordsFacts ==
    ASSUME WorkType, NEW s \in Scenes, ExtractKeywords(s)
    PROVE  /\ workers[s].at = "keywords" /\ Still /\ UNCHANGED <<topics, content, torn, got>>
           /\ \/ Moved(s, "create", workers[s].group, workers[s].claimed, "pick")
              \/ Moved(s, "discard", workers[s].group, workers[s].claimed, "pick")
<1>0. /\ workers[s].at = "keywords" /\ Still /\ UNCHANGED <<topics, content, torn, got>>
      /\ \/ Step(s, "create")
         \/ Go(s, [workers[s] EXCEPT !.at = "discard", !.then = "pick"])
  BY DEF ExtractKeywords, Still, records, history, bounds
<1>1. workers[s].group # {} /\ workers[s].then = "pick"
  BY <1>0, WorkerFields DEF Resting
<1>2. \/ Go(s, Rec("create", workers[s].group, workers[s].doomed, workers[s].claimed, "pick"))
      \/ Go(s, Rec("discard", workers[s].group, workers[s].doomed, workers[s].claimed, "pick"))
  BY <1>0, <1>1, GoUpdates, Zenon
<1>3. QED  BY <1>0, <1>1, <1>2, GoesTo DEF Phases, Resting

\* The summary topic is written, or the rollback begins.
LEMMA CreateFacts ==
    ASSUME WorkType, NEW s \in Scenes, CreateFusedTopic(s)
    PROVE  /\ workers[s].at = "create" /\ Still /\ UNCHANGED <<content, torn, got>>
           /\ \/ /\ topics' = Put(topics, Parent(s), NewTopic(s))
                 /\ Moved(s, "sink", workers[s].group, workers[s].claimed, "pick")
              \/ /\ topics' = topics
                 /\ Moved(s, "discard", workers[s].group, workers[s].claimed, "failed")
<1>0. /\ workers[s].at = "create" /\ Still /\ UNCHANGED <<content, torn, got>>
      /\ \/ topics' = Put(topics, Parent(s), NewTopic(s)) /\ Step(s, "sink")
         \/ topics' = topics /\ Go(s, [workers[s] EXCEPT !.at = "discard", !.then = "failed"])
  BY DEF CreateFusedTopic, Rollback, Still, history
<1>1. workers[s].group # {} /\ workers[s].then = "pick"
  BY <1>0, WorkerFields DEF Resting
<1>2. /\ Step(s, "sink") =>
            Go(s, Rec("sink", workers[s].group, workers[s].doomed, workers[s].claimed, "pick"))
      /\ Go(s, [workers[s] EXCEPT !.at = "discard", !.then = "failed"]) =>
            Go(s, Rec("discard", workers[s].group, workers[s].doomed, workers[s].claimed, "failed"))
  BY <1>1, GoUpdates, Zenon
<1>3. QED  BY <1>0, <1>1, <1>2, GoesTo DEF Phases, Resting

\* A group is applied: its members are claimed and the pass has something to
\* show.
LEMMA AppliedFacts ==
    ASSUME WorkType, NEW s \in Scenes, workers[s].at \in {"sink", "sinkDelete"}, Applied(s)
    PROVE  /\ Moved(s, "pick", {}, workers[s].claimed \cup workers[s].group, "pick")
           /\ got' = [got EXCEPT !.applied = TRUE]
<1>1. workers[s].then = "pick"
  BY WorkerFields
<1>2. /\ Go(s, [workers[s] EXCEPT !.at = "pick", !.group = {}, !.doomed = {},
                                 !.claimed = workers[s].claimed \cup workers[s].group])
      /\ got' = [got EXCEPT !.applied = TRUE]
  BY Zenon DEF Applied
<1>3. Go(s, Rec("pick", {}, {}, workers[s].claimed \cup workers[s].group, "pick"))
  BY <1>1, <1>2, GoUpdates, Zenon
<1>4. QED  BY <1>2, <1>3, GoesTo DEF Phases, Resting

\* The members sink, or the rollback begins.
LEMMA CompressFacts ==
    ASSUME WorkType, NEW s \in Scenes, CompressTopics(s)
    PROVE  /\ workers[s].at = "sink" /\ Still /\ UNCHANGED <<content, torn>>
           /\ \/ /\ topics' = [t \in DOMAIN topics |->
                                 IF t \in Members(s) \ Bottomed(s) THEN Sunk(s, t) ELSE topics[t]]
                 /\ \/ /\ Bottomed(s) = {} /\ got' = [got EXCEPT !.applied = TRUE]
                       /\ Moved(s, "pick", {}, workers[s].claimed \cup workers[s].group, "pick")
                    \/ /\ Bottomed(s) # {} /\ got' = got
                       /\ Moved(s, "sinkDelete", workers[s].group, workers[s].claimed, "pick")
              \/ /\ topics' = topics /\ got' = got
                 /\ Moved(s, "restore", workers[s].group, workers[s].claimed, "failed")
<1> DEFINE sunk == [t \in DOMAIN topics |->
                      IF t \in Members(s) \ Bottomed(s) THEN Sunk(s, t) ELSE topics[t]]
<1>0. /\ workers[s].at = "sink" /\ Still /\ UNCHANGED <<content, torn>>
      /\ \/ /\ topics' = sunk
            /\ \/ Bottomed(s) = {} /\ Applied(s)
               \/ /\ Bottomed(s) # {} /\ got' = got
                  /\ Go(s, [workers[s] EXCEPT !.at = "sinkDelete", !.doomed = Bottomed(s)])
         \/ /\ topics' = topics /\ got' = got
            /\ Go(s, [workers[s] EXCEPT !.at = "restore", !.then = "failed"])
  BY DEF CompressTopics, Rollback, Still, history
<1> HIDE DEF sunk
<1>1. workers[s].group # {} /\ workers[s].then = "pick"
  BY <1>0, WorkerFields DEF Resting
<1>2. ASSUME Go(s, [workers[s] EXCEPT !.at = "sinkDelete", !.doomed = Bottomed(s)])
      PROVE  Moved(s, "sinkDelete", workers[s].group, workers[s].claimed, "pick")
  <2>1. Go(s, Rec("sinkDelete", workers[s].group, Bottomed(s), workers[s].claimed, "pick"))
    BY <1>1, <1>2, GoUpdates, Zenon
  <2>2. QED  BY <1>1, <2>1, GoesTo DEF Phases, Resting
<1>3. ASSUME Go(s, [workers[s] EXCEPT !.at = "restore", !.then = "failed"])
      PROVE  Moved(s, "restore", workers[s].group, workers[s].claimed, "failed")
  <2>1. Go(s, Rec("restore", workers[s].group, workers[s].doomed, workers[s].claimed, "failed"))
    BY <1>3, GoUpdates, Zenon
  <2>2. QED  BY <1>1, <2>1, GoesTo DEF Phases, Resting
<1>4. Applied(s) => /\ Moved(s, "pick", {}, workers[s].claimed \cup workers[s].group, "pick")
                    /\ got' = [got EXCEPT !.applied = TRUE]
  BY <1>0, AppliedFacts
<1>5. QED  BY <1>0, <1>2, <1>3, <1>4, Zenon DEF sunk

\* What bottomed out is deleted, or the rollback begins.
LEMMA CompressDeletesFacts ==
    ASSUME WorkType, NEW s \in Scenes, CompressDeletes(s)
    PROVE  /\ workers[s].at = "sinkDelete" /\ Still /\ UNCHANGED <<content, torn>>
           /\ \/ /\ topics' = Drop(topics, workers[s].doomed) /\ got' = [got EXCEPT !.applied = TRUE]
                 /\ Moved(s, "pick", {}, workers[s].claimed \cup workers[s].group, "pick")
              \/ /\ topics' = topics /\ got' = got
                 /\ Moved(s, "restore", workers[s].group, workers[s].claimed, "failed")
<1>0. /\ workers[s].at = "sinkDelete" /\ Still /\ UNCHANGED <<content, torn>>
      /\ \/ topics' = Drop(topics, workers[s].doomed) /\ Applied(s)
         \/ /\ topics' = topics /\ got' = got
            /\ Go(s, [workers[s] EXCEPT !.at = "restore", !.then = "failed"])
  BY DEF CompressDeletes, Rollback, Still, history
<1>1. workers[s].group # {}
  BY <1>0, WorkerFields DEF Resting
<1>2. ASSUME Go(s, [workers[s] EXCEPT !.at = "restore", !.then = "failed"])
      PROVE  Moved(s, "restore", workers[s].group, workers[s].claimed, "failed")
  <2>1. Go(s, Rec("restore", workers[s].group, workers[s].doomed, workers[s].claimed, "failed"))
    BY <1>2, GoUpdates, Zenon
  <2>2. QED  BY <1>1, <2>1, GoesTo DEF Phases, Resting
<1>3. Applied(s) => /\ Moved(s, "pick", {}, workers[s].claimed \cup workers[s].group, "pick")
                    /\ got' = [got EXCEPT !.applied = TRUE]
  BY <1>0, AppliedFacts
<1>4. QED  BY <1>0, <1>2, <1>3, Zenon

\* The members come up again, or some of them when a write is refused.
LEMMA RestoreFacts ==
    ASSUME WorkType, NEW s \in Scenes, RestoreSunkTopics(s)
    PROVE  /\ workers[s].at = "restore" /\ Still /\ UNCHANGED <<content, got>>
           /\ Moved(s, "discard", workers[s].group, workers[s].claimed, "failed")
           /\ \/ topics' = Restored(Hanging(s)) /\ torn' = torn
              \/ torn' = TRUE /\ \E S \in SUBSET Hanging(s) : topics' = Restored(S)
<1>0. /\ workers[s].at = "restore" /\ Still /\ UNCHANGED <<content, got>> /\ Step(s, "discard")
      /\ \/ topics' = Restored(Hanging(s)) /\ torn' = torn
         \/ torn' = TRUE /\ \E S \in SUBSET Hanging(s) : topics' = Restored(S)
  BY DEF RestoreSunkTopics, RefusesRollback, Still
<1>1. workers[s].group # {} /\ workers[s].then = "failed"
  BY <1>0, WorkerFields DEF Resting
<1>2. Go(s, Rec("discard", workers[s].group, workers[s].doomed, workers[s].claimed, "failed"))
  BY <1>0, <1>1, GoUpdates, Zenon
<1>3. Moved(s, "discard", workers[s].group, workers[s].claimed, "failed")
  BY <1>1, <1>2, GoesTo DEF Phases, Resting
<1>4. QED  BY <1>0, <1>3

\* The summary topic is deleted, or stays when the write is refused.
LEMMA DiscardFacts ==
    ASSUME WorkType, NEW s \in Scenes, DiscardTopic(s)
    PROVE  /\ workers[s].at = "discard" /\ Still /\ UNCHANGED <<content, got>>
           /\ Moved(s, "discardContent", workers[s].group, workers[s].claimed, workers[s].then)
           /\ \/ topics' = Drop(topics, {Parent(s)}) /\ torn' = torn
              \/ topics' = topics /\ torn' = TRUE
<1>0. /\ workers[s].at = "discard" /\ Still /\ UNCHANGED <<content, got>>
      /\ Step(s, "discardContent")
      /\ \/ topics' = Drop(topics, {Parent(s)}) /\ torn' = torn
         \/ topics' = topics /\ torn' = TRUE
  BY DEF DiscardTopic, RefusesRollback, Still
<1>1. workers[s].group # {} /\ workers[s].then \in {"pick", "failed"}
  BY <1>0, WorkerFields DEF Resting
<1>2. Go(s, Rec("discardContent", workers[s].group, workers[s].doomed, workers[s].claimed, workers[s].then))
  BY <1>0, GoUpdates, Zenon
<1>3. Moved(s, "discardContent", workers[s].group, workers[s].claimed, workers[s].then)
  BY <1>1, <1>2, GoesTo DEF Phases, Resting
<1>4. QED  BY <1>0, <1>3

\* The summary's content goes, and the goroutine goes on or fails.
LEMMA DiscardContentFacts ==
    ASSUME WorkType, NEW s \in Scenes, DiscardContent(s)
    PROVE  /\ workers[s].at = "discardContent" /\ Still /\ UNCHANGED topics
           /\ \/ content' = content \ {Parent(s)} /\ torn' = torn
              \/ content' = content /\ torn' = TRUE
           /\ \/ /\ got' = [got EXCEPT !.failed = TRUE]
                 /\ Moved(s, "off", {}, {}, "pick")
              \/ /\ workers[s].then = "pick" /\ got' = [got EXCEPT !.unusable = TRUE]
                 /\ Moved(s, "pick", {}, workers[s].claimed, "pick")
<1>0. /\ workers[s].at = "discardContent" /\ Still /\ UNCHANGED topics
      /\ \/ content' = content \ {Parent(s)} /\ torn' = torn
         \/ content' = content /\ torn' = TRUE
      /\ \/ Go(s, Off) /\ got' = [got EXCEPT !.failed = TRUE]
         \/ /\ workers[s].then = "pick" /\ got' = [got EXCEPT !.unusable = TRUE]
            /\ Go(s, [workers[s] EXCEPT !.at = "pick", !.group = {}])
  BY DEF DiscardContent, RefusesRollback, FailScene, Still
<1>1. ASSUME workers[s].then = "pick", Go(s, [workers[s] EXCEPT !.at = "pick", !.group = {}])
      PROVE  Moved(s, "pick", {}, workers[s].claimed, "pick")
  <2>1. Go(s, Rec("pick", {}, workers[s].doomed, workers[s].claimed, "pick"))
    BY <1>1, GoUpdates, Zenon
  <2>2. QED  BY <2>1, GoesTo DEF Phases, Resting
<1>2. QED  BY <1>0, <1>1, GoesOff, Zenon
-----------------------------------------------------------------------------
(* The part of the invariant that holds whatever fails. *)

\* A goroutine's step keeps it, given what the step does to the topics, the
\* content and its own group.
LEMMA MovedBase ==
    ASSUME Base, NEW s \in Scenes, NEW a, NEW g, NEW c, NEW t, workers[s].at # "off",
           Moved(s, a, g, c, t), Still, a \in {"off", "list"} \/ workers[s].at # "list",
           torn' \in BOOLEAN, got' \in [applied : BOOLEAN, unusable : BOOLEAN, failed : BOOLEAN],
           TopicType', DOMAIN topics' \subseteq DOMAIN topics \cup {Parent(s)},
           Busy(s) \/ (topics' = topics /\ content' = content),
           content \subseteq content' \cup {Parent(s)},
           a \notin Resting =>
              /\ g \subseteq ListTopics(s)
              /\ (a \in {"archive", "keywords", "create", "discard", "discardContent"} /\ t # "failed")
                   => ComputeFusedTopicID(g) \notin DOMAIN topics'
              /\ a # "archive" => ComputeFusedTopicID(g) \in content',
           \/ got'.applied \/ got'.failed \/ a \in {"sink", "sinkDelete"} \/ t = "failed"
           \/ topics' = topics /\ ~Dirty(s) /\ got'.applied = got.applied /\ got'.failed = got.failed
    PROVE  Base'
<1> USE DEF Still
<1>1. /\ workers'[s].at = a /\ workers'[s].group = g /\ workers'[s].then = t
      /\ IsWorker(workers'[s]) /\ Go(s, workers'[s])
      /\ \A r \in Scenes : r # s => workers'[r] = workers[r]
  BY DEF Moved
<1>2. DOMAIN topics' \cap TurnTopics \subseteq DOMAIN topics
  BY FusedIds DEF Parent
<1>3. PICK w : w = workers'[s]
  OBVIOUS
<1>4. (WorkType /\ FanInv /\ TurnInv)'
  BY <1>1, <1>2, <1>3, FrameBase
<1>5. GroupInv'
  <2> SUFFICES ASSUME NEW r \in Scenes, Busy(r)'
               PROVE  /\ workers'[r].group \subseteq ListTopics(r)'
                      /\ (workers'[r].at \in {"archive", "keywords", "create", "discard",
                                              "discardContent"}
                            /\ ~Undone(r)') => Parent(r)' \notin DOMAIN topics'
                      /\ workers'[r].at # "archive" => Parent(r)' \in content'
    BY DEF GroupInv
  <2>1. CASE r = s
    <3>1. ListTopics(r)' = ListTopics(s)
      BY <2>1 DEF ListTopics
    <3>2. Parent(r)' = ComputeFusedTopicID(g) /\ a \notin Resting /\ (Undone(r)' <=> t = "failed")
      BY <1>1, <2>1 DEF Parent, Busy, Undone
    <3>3. QED  BY <1>1, <2>1, <3>1, <3>2
  <2>2. CASE r # s
    BY <1>1, <2>2, OthersKeepGroups
  <2>3. QED  BY <2>1, <2>2
<1>6. pass = "compress"
  BY InPass DEF Base
<1>7. Dirty(s)' <=> a \in {"sink", "sinkDelete"} \/ t = "failed"
  BY <1>1 DEF Dirty, Undone
<1>8. ServeInv'
  BY <1>1, <1>6, <1>7, ServeMoves
<1>9. QED  BY <1>4, <1>5, <1>8 DEF Base

\* Topics with a summary written.
LEMMA PutTopicType ==
    ASSUME TopicType, NEW s \in Scenes, topics' = Put(topics, Parent(s), NewTopic(s))
    PROVE  /\ TopicType' /\ DOMAIN topics' = DOMAIN topics \cup {Parent(s)}
           /\ \A t \in DOMAIN topics : t # Parent(s) => topics'[t] = topics[t]
           /\ topics'[Parent(s)].parent = None /\ topics'[Parent(s)].depth = 1
<1> DEFINE new == NewTopic(s)
<1>1. IsSlot(new) /\ new.parent = None /\ new.depth = 1
  BY ConstantsOK DEF NewTopic, IsSlot
<1>2. topics' = Put(topics, Parent(s), new)
  OBVIOUS
<1> HIDE DEF new
<1>3. PICK p : p = Parent(s)
  OBVIOUS
<1>4. /\ DOMAIN topics' = DOMAIN topics \cup {p} /\ topics'[p] = new
      /\ \A t \in DOMAIN topics : t # p => topics'[t] = topics[t]
      /\ topics' = [t \in DOMAIN topics' |-> topics'[t]]
  BY <1>2, <1>3 DEF Put
<1>5. TopicType'
  BY <1>1, <1>4 DEF TopicType
<1>6. QED  BY <1>1, <1>3, <1>4, <1>5

\* Topics with some dropped.
LEMMA DropTopicType ==
    ASSUME TopicType, NEW K, topics' = Drop(topics, K)
    PROVE  /\ TopicType' /\ DOMAIN topics' = DOMAIN topics \ K
           /\ \A t \in DOMAIN topics' : topics'[t] = topics[t]
           /\ K \cap DOMAIN topics = {} => topics' = topics
<1>1. /\ DOMAIN topics' = DOMAIN topics \ K /\ \A t \in DOMAIN topics' : topics'[t] = topics[t]
      /\ topics' = [t \in DOMAIN topics' |-> topics'[t]]
  BY DEF Drop
<1>2. TopicType'
  BY <1>1 DEF TopicType
<1>3. K \cap DOMAIN topics = {} => topics' = topics
  BY <1>1 DEF TopicType
<1>4. QED  BY <1>1, <1>2, <1>3

\* Topics with a group sunk: one level deeper and under the summary, the rest
\* as before.
LEMMA SunkTopicType ==
    ASSUME TopicType, NEW s \in Scenes,
           topics' = [t \in DOMAIN topics |->
                        IF t \in Members(s) \ Bottomed(s) THEN Sunk(s, t) ELSE topics[t]]
    PROVE  /\ TopicType' /\ DOMAIN topics' = DOMAIN topics
           /\ \A t \in DOMAIN topics :
                 IF t \in Members(s) \ Bottomed(s)
                 THEN topics'[t].depth = topics[t].depth + 1 /\ topics'[t].parent = Parent(s)
                 ELSE topics'[t] = topics[t]
<1>1. ASSUME NEW t \in DOMAIN topics, t \in Members(s) \ Bottomed(s)
      PROVE  /\ Sunk(s, t).depth = topics[t].depth + 1 /\ Sunk(s, t).parent = Parent(s)
             /\ IsSlot(Sunk(s, t)) /\ t \in workers[s].group
  <2>1. IsSlot(topics[t])
    BY DEF TopicType
  <2>2. PICK r : r = topics[t]
    OBVIOUS
  <2>3. [r EXCEPT !.depth = @ + 1, !.parent = Parent(s)]
          = [scene |-> r.scene, depth |-> r.depth + 1, parent |-> Parent(s)]
    BY <2>1, <2>2, SlotUpdates, Zenon
  <2>4. Sunk(s, t) = [scene |-> r.scene, depth |-> r.depth + 1, parent |-> Parent(s)]
    BY <2>2, <2>3, Zenon DEF Sunk
  <2>5. r.scene \in Scenes /\ r.depth \in Nat /\ r.depth >= 1 /\ r.depth + 1 < MaxDepth
    BY <1>1, <2>1, <2>2, ConstantsOK DEF IsSlot, Bottomed, Members
  <2>6. PICK q : q = Sunk(s, t)
    OBVIOUS
  <2>7. q.scene = r.scene /\ q.depth = r.depth + 1 /\ q.parent = Parent(s)
        /\ q = [scene |-> q.scene, depth |-> q.depth, parent |-> q.parent]
    BY <2>4, <2>6
  <2>8. IsSlot(q)
    BY <2>5, <2>7, ConstantsOK DEF IsSlot
  <2>9. QED  BY <1>1, <2>2, <2>6, <2>7, <2>8 DEF Members
<1>2. IsFused(Parent(s)) /\ MembersOf(Parent(s)) = workers[s].group
  BY FusedIds DEF Parent
<1>3. /\ DOMAIN topics' = DOMAIN topics /\ topics' = [t \in DOMAIN topics' |-> topics'[t]]
      /\ \A t \in DOMAIN topics :
            topics'[t] = IF t \in Members(s) \ Bottomed(s) THEN Sunk(s, t) ELSE topics[t]
  OBVIOUS
<1>4. TopicType'
  BY <1>1, <1>2, <1>3 DEF TopicType
<1>5. QED  BY <1>1, <1>3, <1>4

\* Topics with some of a group brought up again.
LEMMA RestoredTopicType ==
    ASSUME TopicType, NEW S, topics' = Restored(S)
    PROVE  /\ TopicType' /\ DOMAIN topics' = DOMAIN topics
           /\ \A t \in DOMAIN topics :
                 IF t \in S
                 THEN topics'[t].parent = None /\ topics'[t].depth <= topics[t].depth
                 ELSE topics'[t] = topics[t]
<1> DEFINE up(t) == [topics[t] EXCEPT !.depth = IF @ > 1 THEN @ - 1 ELSE @, !.parent = None]
<1>1. ASSUME NEW t \in DOMAIN topics
      PROVE  up(t).parent = None /\ up(t).depth <= topics[t].depth /\ IsSlot(up(t))
  <2>1. IsSlot(topics[t])
    BY DEF TopicType
  <2>2. PICK r : r = topics[t]
    OBVIOUS
  <2>3. [r EXCEPT !.depth = IF @ > 1 THEN @ - 1 ELSE @, !.parent = None]
          = [scene |-> r.scene, depth |-> IF r.depth > 1 THEN r.depth - 1 ELSE r.depth, parent |-> None]
    BY <2>1, <2>2, SlotUpdates, Zenon
  <2>4. up(t) = [scene |-> r.scene, depth |-> IF r.depth > 1 THEN r.depth - 1 ELSE r.depth,
                 parent |-> None]
    BY <2>2, <2>3, Zenon
  <2>5. r.scene \in Scenes /\ r.depth \in 1..(MaxDepth - 1)
    BY <2>1, <2>2 DEF IsSlot
  <2> HIDE DEF up
  <2>6. PICK q : q = up(t)
    OBVIOUS
  <2>7. q.scene = r.scene /\ q.depth = (IF r.depth > 1 THEN r.depth - 1 ELSE r.depth)
        /\ q.parent = None /\ q = [scene |-> q.scene, depth |-> q.depth, parent |-> q.parent]
    BY <2>4, <2>6
  <2>8. IsSlot(q) /\ q.depth <= r.depth
    BY <2>5, <2>7, ConstantsOK DEF IsSlot
  <2>9. QED  BY <2>2, <2>6, <2>7, <2>8
<1>2. /\ DOMAIN topics' = DOMAIN topics /\ topics' = [t \in DOMAIN topics' |-> topics'[t]]
      /\ \A t \in DOMAIN topics : topics'[t] = IF t \in S THEN up(t) ELSE topics[t]
  BY DEF Restored
<1> HIDE DEF up
<1>3. TopicType'
  BY <1>1, <1>2 DEF TopicType
<1>4. QED  BY <1>1, <1>2, <1>3

\* A goroutine that asks the model takes a place of the fan-out.
LEMMA ConsolidateBase ==
    ASSUME Base, NEW s \in Scenes, Consolidate(s)
    PROVE  Base'
<1> USE DEF Base, Still
<1>1. /\ workers[s].at = "list" /\ Still /\ UNCHANGED <<topics, content, torn>>
      /\ got' = got \/ got' = [got EXCEPT !.unusable = TRUE]
      /\ \/ Moved(s, "off", {}, {}, "pick")
         \/ /\ Moved(s, "pick", {}, workers[s].claimed, "pick")
            /\ Cardinality(Working) < Fanout
  BY ConsolidateFacts
<1>2. /\ got' \in [applied : BOOLEAN, unusable : BOOLEAN, failed : BOOLEAN]
      /\ got'.applied = got.applied /\ got'.failed = got.failed
  BY <1>1, GotUpdates DEF WorkType
<1>3. TopicType' /\ torn' \in BOOLEAN /\ pass = "compress" /\ ~Dirty(s)
  BY <1>1, InPass, WorkerFields DEF TopicType, WorkType, Dirty, Undone
<1>4. CASE Moved(s, "off", {}, {}, "pick")
  BY <1>1, <1>2, <1>3, <1>4, MovedBase DEF Resting
<1>5. CASE Moved(s, "pick", {}, workers[s].claimed, "pick") /\ Cardinality(Working) < Fanout
  <2>1. /\ workers'[s].at = "pick" /\ workers'[s].group = {} /\ workers'[s].then = "pick"
        /\ IsWorker(workers'[s]) /\ Go(s, workers'[s])
        /\ \A r \in Scenes : r # s => workers'[r] = workers[r]
    BY <1>5 DEF Moved
  <2>2. workers' = [r \in Scenes |-> workers'[r]]
    <3>1. PICK w : w = workers'[s]
      OBVIOUS
    <3>2. QED  BY <2>1, <3>1, Goes
  <2>3. WorkType'
    BY <1>1, <1>2, <1>3, <2>1, <2>2 DEF WorkType
  <2>4. Working' = Working \cup {s} /\ s \notin Working
    BY <1>1, <2>1 DEF Working
  <2>5. IsFiniteSet(Working) /\ Cardinality(Working) \in Nat
    BY FS_CardinalityType DEF FanInv
  <2>6. IsFiniteSet(Working') /\ Cardinality(Working') = Cardinality(Working) + 1
    BY <2>4, <2>5, FS_AddElement
  <2>7. FanInv'
    BY <1>5, <2>5, <2>6, ConstantsOK DEF FanInv
  <2>8. TurnInv'
    BY <1>1 DEF TurnInv
  <2>9. GroupInv'
    <3>1. \A r \in Scenes : Busy(r)' => r # s
      BY <2>1 DEF Busy, Resting
    <3>2. QED  BY <1>1, <2>1, <3>1, OthersKeepGroups DEF GroupInv
  <2>10. ServeInv'
    BY <1>1, <1>2, <1>3, <2>1, ServeMoves
  <2>11. QED  BY <1>3, <2>3, <2>7, <2>8, <2>9, <2>10
<1>6. QED  BY <1>1, <1>4, <1>5

\* Choosing groups.
LEMMA PickBase ==
    ASSUME Base, NEW s \in Scenes,
           SkipGroup(s) \/ NoMoreGroups(s) \/ \E G \in SUBSET ListTopics(s) : PickGroup(s, G)
    PROVE  Base'
<1> USE DEF Base, Still
<1>1. ASSUME SkipGroup(s)  PROVE Base'
  <2>1. Still /\ UNCHANGED <<topics, content, torn, workers>> /\ workers[s].at = "pick"
        /\ got' = [got EXCEPT !.unusable = TRUE]
    BY <1>1, SkipFacts
  <2>2. got' \in [applied : BOOLEAN, unusable : BOOLEAN, failed : BOOLEAN]
        /\ got'.applied = got.applied /\ got'.failed = got.failed
    BY <2>1, GotUpdates
  <2>3. WorkType'
    BY <2>1, <2>2 DEF WorkType
  <2>4. FanInv' /\ TopicType' /\ TurnInv'
    BY <2>1 DEF FanInv, Working, TopicType, TurnInv
  <2>5. GroupInv'
    BY <2>1 DEF GroupInv, Busy, Undone, Parent, ListTopics
  <2>6. ServeInv'
    BY <2>1, <2>2 DEF ServeInv, Dirty, Undone
  <2>7. QED  BY <2>3, <2>4, <2>5, <2>6
<1>2. ASSUME NoMoreGroups(s)  PROVE Base'
  <2>1. /\ Still /\ UNCHANGED <<topics, content, torn, got>> /\ workers[s].at = "pick"
        /\ Moved(s, "off", {}, {}, "pick")
    BY <1>2, NoMoreFacts
  <2>2. TopicType' /\ torn' \in BOOLEAN /\ ~Dirty(s)
        /\ got' \in [applied : BOOLEAN, unusable : BOOLEAN, failed : BOOLEAN]
    BY <2>1, WorkerFields DEF TopicType, WorkType, Dirty, Undone
  <2>3. QED  BY <2>1, <2>2, MovedBase DEF Resting
<1>3. ASSUME NEW G \in SUBSET ListTopics(s), PickGroup(s, G)  PROVE Base'
  <2>1. /\ workers[s].at = "pick" /\ Still /\ UNCHANGED <<topics, content, torn, got>>
        /\ ComputeFusedTopicID(G) \notin DOMAIN topics
        /\ Moved(s, "archive", G, workers[s].claimed, "pick")
    BY <1>3, PickFacts
  <2>2. TopicType' /\ torn' \in BOOLEAN /\ ~Dirty(s)
        /\ got' \in [applied : BOOLEAN, unusable : BOOLEAN, failed : BOOLEAN]
    BY <2>1, WorkerFields DEF TopicType, WorkType, Dirty, Undone
  <2>3. QED  BY <2>1, <2>2, MovedBase DEF Resting
<1>4. QED  BY <1>1, <1>2, <1>3

\* Writing a summary.
LEMMA WriteBase ==
    ASSUME Base, NEW s \in Scenes, ArchiveSummary(s) \/ ExtractKeywords(s) \/ CreateFusedTopic(s)
    PROVE  Base'
<1> USE DEF Base, Still
<1>0. torn \in BOOLEAN /\ got \in [applied : BOOLEAN, unusable : BOOLEAN, failed : BOOLEAN]
  BY DEF WorkType
<1>1. ASSUME workers[s].at \in {"archive", "keywords", "create"}
      PROVE  /\ Busy(s) /\ ~Dirty(s) /\ workers[s].group \subseteq ListTopics(s)
             /\ Parent(s) \notin DOMAIN topics /\ workers[s].then = "pick"
             /\ workers[s].at # "archive" => Parent(s) \in content
             /\ ComputeFusedTopicID(workers[s].group) = Parent(s)
  BY <1>1, WorkerFields DEF GroupInv, Busy, Dirty, Undone, Resting, Parent
<1>2. ASSUME ArchiveSummary(s)  PROVE Base'
  <2>1. /\ workers[s].at = "archive" /\ Still /\ UNCHANGED <<topics, torn>>
        /\ \/ /\ content' = content \cup {Parent(s)} /\ got' = got
              /\ Moved(s, "keywords", workers[s].group, workers[s].claimed, "pick")
           \/ /\ content' = content /\ got' = [got EXCEPT !.failed = TRUE]
              /\ Moved(s, "off", {}, {}, "pick")
    BY <1>2, ArchiveFacts
  <2>2. TopicType'
    BY <2>1 DEF TopicType
  <2>3. CASE /\ content' = content \cup {Parent(s)} /\ got' = got
             /\ Moved(s, "keywords", workers[s].group, workers[s].claimed, "pick")
    BY <1>0, <1>1, <2>1, <2>2, <2>3, MovedBase DEF Resting
  <2>4. CASE /\ content' = content /\ got' = [got EXCEPT !.failed = TRUE]
             /\ Moved(s, "off", {}, {}, "pick")
    <3>1. got' \in [applied : BOOLEAN, unusable : BOOLEAN, failed : BOOLEAN] /\ got'.failed
      BY <2>4, GotUpdates
    <3>2. QED  BY <1>0, <1>1, <2>1, <2>2, <2>4, <3>1, MovedBase DEF Resting
  <2>5. QED  BY <2>1, <2>3, <2>4
<1>3. ASSUME ExtractKeywords(s)  PROVE Base'
  <2>1. /\ workers[s].at = "keywords" /\ Still /\ UNCHANGED <<topics, content, torn, got>>
        /\ \/ Moved(s, "create", workers[s].group, workers[s].claimed, "pick")
           \/ Moved(s, "discard", workers[s].group, workers[s].claimed, "pick")
    BY <1>3, KeywordsFacts
  <2>2. TopicType'
    BY <2>1 DEF TopicType
  <2>3. CASE Moved(s, "create", workers[s].group, workers[s].claimed, "pick")
    BY <1>0, <1>1, <2>1, <2>2, <2>3, MovedBase DEF Resting
  <2>4. CASE Moved(s, "discard", workers[s].group, workers[s].claimed, "pick")
    BY <1>0, <1>1, <2>1, <2>2, <2>4, MovedBase DEF Resting
  <2>5. QED  BY <2>1, <2>3, <2>4
<1>4. ASSUME CreateFusedTopic(s)  PROVE Base'
  <2>1. /\ workers[s].at = "create" /\ Still /\ UNCHANGED <<content, torn, got>>
        /\ \/ /\ topics' = Put(topics, Parent(s), NewTopic(s))
              /\ Moved(s, "sink", workers[s].group, workers[s].claimed, "pick")
           \/ /\ topics' = topics
              /\ Moved(s, "discard", workers[s].group, workers[s].claimed, "failed")
    BY <1>4, CreateFacts
  <2>2. CASE /\ topics' = Put(topics, Parent(s), NewTopic(s))
             /\ Moved(s, "sink", workers[s].group, workers[s].claimed, "pick")
    <3>1. TopicType' /\ DOMAIN topics' = DOMAIN topics \cup {Parent(s)}
      BY <2>2, PutTopicType
    <3>2. QED  BY <1>0, <1>1, <2>1, <2>2, <3>1, MovedBase DEF Resting
  <2>3. CASE /\ topics' = topics
             /\ Moved(s, "discard", workers[s].group, workers[s].claimed, "failed")
    <3>1. TopicType'
      BY <2>3 DEF TopicType
    <3>2. QED  BY <1>0, <1>1, <2>1, <2>3, <3>1, MovedBase DEF Resting
  <2>4. QED  BY <2>1, <2>2, <2>3
<1>5. QED  BY <1>2, <1>3, <1>4

\* Sinking the members of a group.
LEMMA SinkBase ==
    ASSUME Base, NEW s \in Scenes, CompressTopics(s) \/ CompressDeletes(s)
    PROVE  Base'
<1> USE DEF Base, Still
<1>0. torn \in BOOLEAN /\ got \in [applied : BOOLEAN, unusable : BOOLEAN, failed : BOOLEAN]
  BY DEF WorkType
<1>1. /\ [got EXCEPT !.applied = TRUE] \in [applied : BOOLEAN, unusable : BOOLEAN, failed : BOOLEAN]
      /\ [got EXCEPT !.applied = TRUE].applied
  BY GotUpdates
<1>2. ASSUME workers[s].at \in {"sink", "sinkDelete"}
      PROVE  /\ Busy(s) /\ workers[s].group \subseteq ListTopics(s) /\ Parent(s) \in content
             /\ ComputeFusedTopicID(workers[s].group) = Parent(s)
  BY <1>2 DEF GroupInv, Busy, Resting, Parent
<1>3. ASSUME topics' = topics, content' = content, torn' = torn, got' = got, Still,
             workers[s].at \in {"sink", "sinkDelete"},
             Moved(s, "restore", workers[s].group, workers[s].claimed, "failed")
      PROVE  Base'
  <2>1. TopicType'
    BY <1>3 DEF TopicType
  <2>2. QED  BY <1>0, <1>2, <1>3, <2>1, MovedBase DEF Resting
<1>4. ASSUME CompressTopics(s)  PROVE Base'
  <2>1. workers[s].at = "sink" /\ Still /\ UNCHANGED <<content, torn>>
    BY <1>4, CompressFacts
  <2>2. ASSUME topics' = [t \in DOMAIN topics |->
                            IF t \in Members(s) \ Bottomed(s) THEN Sunk(s, t) ELSE topics[t]]
        PROVE  TopicType' /\ DOMAIN topics' = DOMAIN topics
    BY <2>2, SunkTopicType
  <2>3. \/ /\ TopicType' /\ DOMAIN topics' = DOMAIN topics
           /\ \/ /\ got' = [got EXCEPT !.applied = TRUE]
                 /\ Moved(s, "pick", {}, workers[s].claimed \cup workers[s].group, "pick")
              \/ /\ got' = got
                 /\ Moved(s, "sinkDelete", workers[s].group, workers[s].claimed, "pick")
        \/ /\ topics' = topics /\ got' = got
           /\ Moved(s, "restore", workers[s].group, workers[s].claimed, "failed")
    BY <1>4, <2>2, CompressFacts, Zenon
  <2>4. CASE /\ TopicType' /\ DOMAIN topics' = DOMAIN topics
             /\ got' = [got EXCEPT !.applied = TRUE]
             /\ Moved(s, "pick", {}, workers[s].claimed \cup workers[s].group, "pick")
    BY <1>0, <1>1, <1>2, <2>1, <2>4, MovedBase DEF Resting
  <2>5. CASE /\ TopicType' /\ DOMAIN topics' = DOMAIN topics /\ got' = got
             /\ Moved(s, "sinkDelete", workers[s].group, workers[s].claimed, "pick")
    BY <1>0, <1>2, <2>1, <2>5, MovedBase DEF Resting
  <2>6. QED  BY <1>3, <2>1, <2>3, <2>4, <2>5
<1>5. ASSUME CompressDeletes(s)  PROVE Base'
  <2>1. /\ workers[s].at = "sinkDelete" /\ Still /\ UNCHANGED <<content, torn>>
        /\ \/ /\ topics' = Drop(topics, workers[s].doomed) /\ got' = [got EXCEPT !.applied = TRUE]
              /\ Moved(s, "pick", {}, workers[s].claimed \cup workers[s].group, "pick")
           \/ /\ topics' = topics /\ got' = got
              /\ Moved(s, "restore", workers[s].group, workers[s].claimed, "failed")
    BY <1>5, CompressDeletesFacts
  <2>2. CASE /\ topics' = Drop(topics, workers[s].doomed) /\ got' = [got EXCEPT !.applied = TRUE]
             /\ Moved(s, "pick", {}, workers[s].claimed \cup workers[s].group, "pick")
    <3>1. PICK K : K = workers[s].doomed
      OBVIOUS
    <3>2. TopicType' /\ DOMAIN topics' \subseteq DOMAIN topics
      BY <2>2, <3>1, DropTopicType
    <3>3. QED  BY <1>0, <1>1, <1>2, <2>1, <2>2, <3>2, MovedBase DEF Resting
  <2>3. QED  BY <1>3, <2>1, <2>2
<1>6. QED  BY <1>4, <1>5

\* Rolling a group back.
LEMMA RollbackBase ==
    ASSUME Base, NEW s \in Scenes, RestoreSunkTopics(s) \/ DiscardTopic(s) \/ DiscardContent(s)
    PROVE  Base'
<1> USE DEF Base, Still
<1>0. torn \in BOOLEAN /\ got \in [applied : BOOLEAN, unusable : BOOLEAN, failed : BOOLEAN]
  BY DEF WorkType
<1>1. ASSUME workers[s].at \in {"restore", "discard", "discardContent"}
      PROVE  /\ Busy(s) /\ workers[s].group \subseteq ListTopics(s) /\ Parent(s) \in content
             /\ ComputeFusedTopicID(workers[s].group) = Parent(s)
             /\ workers[s].then # "failed" => ~Dirty(s)
             /\ workers[s].at # "restore" /\ workers[s].then # "failed" => Parent(s) \notin DOMAIN topics
  BY <1>1 DEF GroupInv, Busy, Resting, Parent, Dirty, Undone
<1>2. ASSUME RestoreSunkTopics(s)  PROVE Base'
  <2>1. /\ workers[s].at = "restore" /\ Still /\ UNCHANGED <<content, got>>
        /\ Moved(s, "discard", workers[s].group, workers[s].claimed, "failed")
        /\ \/ topics' = Restored(Hanging(s)) /\ torn' = torn
           \/ torn' = TRUE /\ \E S \in SUBSET Hanging(s) : topics' = Restored(S)
    BY <1>2, RestoreFacts
  <2>2. PICK S : topics' = Restored(S)
    BY <2>1
  <2>3. TopicType' /\ DOMAIN topics' = DOMAIN topics
    BY <2>2, RestoredTopicType
  <2>4. torn' \in BOOLEAN
    BY <1>0, <2>1
  <2>5. QED  BY <1>0, <1>1, <2>1, <2>3, <2>4, MovedBase DEF Resting
<1>3. ASSUME DiscardTopic(s)  PROVE Base'
  <2>1. /\ workers[s].at = "discard" /\ Still /\ UNCHANGED <<content, got>>
        /\ Moved(s, "discardContent", workers[s].group, workers[s].claimed, workers[s].then)
        /\ \/ topics' = Drop(topics, {Parent(s)}) /\ torn' = torn
           \/ topics' = topics /\ torn' = TRUE
    BY <1>3, DiscardFacts
  <2>2. PICK K : K = {Parent(s)}
    OBVIOUS
  <2>3. TopicType' /\ DOMAIN topics' \subseteq DOMAIN topics
        /\ (Parent(s) \notin DOMAIN topics => topics' = topics)
    <3>1. CASE topics' = Drop(topics, {Parent(s)})
      <4>1. topics' = Drop(topics, K)
        BY <2>2, <3>1, Zenon
      <4>2. /\ TopicType' /\ DOMAIN topics' = DOMAIN topics \ K
            /\ K \cap DOMAIN topics = {} => topics' = topics
        BY <4>1, DropTopicType, Zenon
      <4>3. QED  BY <2>2, <4>2
    <3>2. CASE topics' = topics
      BY <3>2 DEF TopicType
    <3>3. QED  BY <2>1, <3>1, <3>2
  <2>4. torn' \in BOOLEAN
    BY <1>0, <2>1
  <2>5. QED  BY <1>0, <1>1, <2>1, <2>3, <2>4, MovedBase DEF Resting
<1>4. ASSUME DiscardContent(s)  PROVE Base'
  <2>1. /\ workers[s].at = "discardContent" /\ Still /\ UNCHANGED topics
        /\ \/ content' = content \ {Parent(s)} /\ torn' = torn
           \/ content' = content /\ torn' = TRUE
        /\ \/ /\ got' = [got EXCEPT !.failed = TRUE]
              /\ Moved(s, "off", {}, {}, "pick")
           \/ /\ workers[s].then = "pick" /\ got' = [got EXCEPT !.unusable = TRUE]
              /\ Moved(s, "pick", {}, workers[s].claimed, "pick")
    BY <1>4, DiscardContentFacts
  <2>2. torn' \in BOOLEAN /\ TopicType'
    BY <1>0, <2>1 DEF TopicType
  <2>3. content \subseteq content' \cup {Parent(s)}
    BY <2>1
  <2>4. CASE got' = [got EXCEPT !.failed = TRUE] /\ Moved(s, "off", {}, {}, "pick")
    <3>1. got' \in [applied : BOOLEAN, unusable : BOOLEAN, failed : BOOLEAN] /\ got'.failed
      BY <2>4, GotUpdates
    <3>2. QED  BY <1>1, <2>1, <2>2, <2>3, <2>4, <3>1, MovedBase DEF Resting
  <2>5. CASE /\ workers[s].then = "pick" /\ got' = [got EXCEPT !.unusable = TRUE]
             /\ Moved(s, "pick", {}, workers[s].claimed, "pick")
    <3>1. /\ got' \in [applied : BOOLEAN, unusable : BOOLEAN, failed : BOOLEAN]
          /\ got'.applied = got.applied /\ got'.failed = got.failed
      BY <2>5, GotUpdates
    <3>2. QED  BY <1>1, <2>1, <2>2, <2>3, <2>5, <3>1, MovedBase DEF Resting
  <2>6. QED  BY <2>1, <2>4, <2>5
<1>5. QED  BY <1>2, <1>3, <1>4

\* Between two passes, and once all scenes are done, no goroutine holds a group.
LEMMA AllResting ==
    ASSUME \A s \in Scenes : workers[s] = Off
    PROVE  /\ \A s \in Scenes : ~Busy(s) /\ ~Dirty(s) /\ workers[s].group = {}
           /\ Working = {}
  BY OffIsWorker DEF Busy, Dirty, Undone, Resting, Working

\* A step after which all goroutines are off.
LEMMA OffBase ==
    ASSUME workers' = [s \in Scenes |-> Off], pass' \in {"idle", "compress"},
           got' \in [applied : BOOLEAN, unusable : BOOLEAN, failed : BOOLEAN],
           torn' \in BOOLEAN, stale' \in {"no", "is", "was"},
           TopicType', TurnInv', stale' # "is" => meta' = topics'
    PROVE  Base'
<1>1. \A s \in Scenes : workers'[s] = Off
  OBVIOUS
<1>2. WorkType'
  BY <1>1, OffIsWorker DEF WorkType
<1>3. Working' = {} /\ \A s \in Scenes : ~Busy(s)'
  BY <1>1, OffIsWorker DEF Working, Busy, Resting
<1>4. FanInv'
  BY <1>3, FS_EmptySet, ConstantsOK DEF FanInv
<1>5. GroupInv' /\ ServeInv'
  BY <1>3 DEF GroupInv, ServeInv
<1>6. QED  BY <1>2, <1>4, <1>5 DEF Base

\* It holds before anything happened.
LEMMA InitBase == Init => Base
<1> SUFFICES ASSUME Init PROVE Base
  OBVIOUS
<1>1. TopicType /\ TurnInv /\ ServeInv
  BY DEF Init, TopicType, TurnInv, ServeInv
<1>2. \A s \in Scenes : workers[s] = Off
  BY DEF Init
<1>3. WorkType
  BY <1>2, OffIsWorker DEF Init, NoResult, WorkType
<1>4. FanInv /\ GroupInv
  BY <1>2, AllResting, FS_EmptySet, ConstantsOK DEF FanInv, GroupInv
<1>5. QED  BY <1>1, <1>3, <1>4 DEF Base

\* A turn is settled, for the first time or again.
LEMMA CreateTurnBase ==
    ASSUME Base, NEW s \in Scenes, NEW n \in Turns[s], NEW t, t = ComputeTurnTopicID(n),
           CreateTurnTopic(s, t)
    PROVE  Base'
<1> USE DEF Base
<1> DEFINE row == IF t \in DOMAIN topics THEN topics[t] ELSE NewTopic(s)
<1>1. /\ pass = "idle" /\ (t = turn \/ t \notin opened)
      /\ turn' = t /\ opened' = opened \cup {t}
      /\ topics' = Put(topics, t, row) /\ meta' = Put(meta, t, row)
      /\ UNCHANGED <<workers, pass, got, lost, torn, stale>>
  BY DEF CreateTurnTopic
<1>2. t \in TurnTopics /\ t # None
  BY TurnIds DEF TurnTopics
<1>3. IsSlot(row) /\ (row.parent # None => IsFused(row.parent) /\ t \in MembersOf(row.parent))
  <2>1. CASE t \in DOMAIN topics
    BY <2>1 DEF TopicType
  <2>2. CASE t \notin DOMAIN topics
    BY <2>2, ConstantsOK DEF IsSlot, NewTopic
  <2>3. QED  BY <2>1, <2>2
<1> HIDE DEF row
<1>4. /\ DOMAIN topics' = DOMAIN topics \cup {t} /\ topics'[t] = row
      /\ \A u \in DOMAIN topics : u # t => topics'[u] = topics[u]
      /\ topics' = [u \in DOMAIN topics' |-> topics'[u]]
  BY <1>1 DEF Put
<1>5. TopicType'
  BY <1>3, <1>4 DEF TopicType
<1>6. TurnInv'
  BY <1>1, <1>2, <1>4 DEF TurnInv
<1>7. /\ workers' = [r \in Scenes |-> Off] /\ pass' = "idle"
      /\ got' \in [applied : BOOLEAN, unusable : BOOLEAN, failed : BOOLEAN]
      /\ torn' \in BOOLEAN /\ stale' \in {"no", "is", "was"}
  BY <1>1 DEF WorkType
<1>8. stale' # "is" => meta' = topics'
  BY <1>1 DEF ServeInv
<1>9. QED  BY <1>5, <1>6, <1>7, <1>8, OffBase

\* A topic is deleted with all that hangs below it.
LEMMA DeleteBase ==
    ASSUME Base, NEW t \in DOMAIN topics, DeleteTopic(t)
    PROVE  Base'
<1> USE DEF Base
<1>1. PICK gone : gone = TopicClosure(t)
  OBVIOUS
<1>2. /\ pass = "idle" /\ topics' = Drop(topics, gone) /\ meta' = Drop(meta, gone)
      /\ lost' = lost \cup gone /\ turn' = IF turn \in gone THEN None ELSE turn
      /\ UNCHANGED <<workers, pass, got, opened, torn, stale>>
  BY <1>1 DEF DeleteTopic
<1>3. gone \subseteq DOMAIN topics
  BY <1>1 DEF TopicClosure
<1>4. TopicType' /\ DOMAIN topics' = DOMAIN topics \ gone
  BY <1>2, DropTopicType
<1>5. TurnInv'
  BY <1>2, <1>3, <1>4 DEF TurnInv
<1>6. /\ workers' = [r \in Scenes |-> Off] /\ pass' = "idle"
      /\ got' \in [applied : BOOLEAN, unusable : BOOLEAN, failed : BOOLEAN]
      /\ torn' \in BOOLEAN /\ stale' \in {"no", "is", "was"}
  BY <1>2 DEF WorkType
<1>7. stale' # "is" => meta' = topics'
  BY <1>2 DEF ServeInv
<1>8. QED  BY <1>4, <1>5, <1>6, <1>7, OffBase

\* A pass begins.
LEMMA RunDreamBase ==
    ASSUME Base, NEW S, RunDream(S)
    PROVE  Base'
<1> USE DEF Base
<1>1. [Off EXCEPT !.at = "list"] = Rec("list", {}, {}, {}, "pick")
  BY DEF Off, Rec
<1>2. /\ pass = "idle" /\ pass' = "compress" /\ got' = NoResult
      /\ workers' = [s \in Scenes |-> IF s \in S THEN Rec("list", {}, {}, {}, "pick") ELSE Off]
      /\ UNCHANGED <<topics, content, meta, turn, opened, lost, torn, stale>>
  BY <1>1, Zenon DEF RunDream, records, history
<1>3. \A s \in Scenes : workers'[s] = Off \/ workers'[s] = Rec("list", {}, {}, {}, "pick")
  BY <1>2
<1>4. IsWorker(Rec("list", {}, {}, {}, "pick")) /\ IsWorker(Off)
  BY RecIsWorker, OffIsWorker DEF Resting, Phases
<1>5. \A s \in Scenes : workers'[s].at \in {"off", "list"} /\ workers'[s].then = "pick"
                        /\ IsWorker(workers'[s])
  BY <1>3, <1>4, RecFields, OffIsWorker
<1>6. WorkType'
  BY <1>2, <1>5 DEF WorkType, NoResult
<1>7. Working' = {}
  BY <1>5 DEF Working
<1>8. FanInv'
  BY <1>7, FS_EmptySet, ConstantsOK DEF FanInv
<1>9. TopicType' /\ TurnInv'
  BY <1>2 DEF TopicType, TurnInv
<1>10. GroupInv'
  BY <1>5 DEF GroupInv, Busy, Resting
<1>11. ServeInv'
  BY <1>2 DEF ServeInv
<1>12. QED  BY <1>6, <1>8, <1>9, <1>10, <1>11

\* A pass ends, or the process dies.
LEMMA EndBase ==
    ASSUME Base, ReturnEarly \/ StructureStages \/ Restart
    PROVE  Base'
<1> USE DEF Base
<1>1. /\ pass' = "idle" /\ workers' = [s \in Scenes |-> Off] /\ topics' = topics
      /\ opened' = opened /\ lost' = lost /\ (turn' = turn \/ turn' = None)
      /\ got' \in [applied : BOOLEAN, unusable : BOOLEAN, failed : BOOLEAN]
      /\ torn' \in BOOLEAN /\ stale' \in {"no", "is", "was"}
  <2>1. CASE ReturnEarly \/ StructureStages
    BY <2>1 DEF ReturnEarly, StructureStages, AllDone, WorkType, Rebuilt, records
  <2>2. CASE Restart
    BY <2>2 DEF Restart, WorkType, Rebuilt, records, NoResult
  <2>3. QED  BY <2>1, <2>2
<1>2. stale' # "is" => meta' = topics'
  <2>1. CASE ReturnEarly
    <3>1. pass = "compress" /\ \A s \in Scenes : workers[s] = Off
      BY <2>1 DEF ReturnEarly, AllDone
    <3>2. \A s \in Scenes : ~Dirty(s)
      BY <3>1, AllResting
    <3>3. QED  BY <2>1, <3>1, <3>2 DEF ReturnEarly, ServeInv, records
  <2>2. CASE StructureStages \/ Restart
    BY <2>2 DEF StructureStages, Restart, records
  <2>3. QED  BY <2>1, <2>2
<1>3. TopicType' /\ TurnInv'
  BY <1>1 DEF TopicType, TurnInv
<1>4. QED  BY <1>1, <1>2, <1>3, OffBase

\* Every step keeps it.
LEMMA StepBase == Base /\ [Next]_vars => Base'
<1> SUFFICES ASSUME Base, [Next]_vars PROVE Base'
  OBVIOUS
<1>1. CASE UNCHANGED vars
  BY <1>1 DEF vars, records, bounds, history, Base, WorkType, FanInv, Working, TopicType, TurnInv,
              GroupInv, Busy, Undone, Parent, ListTopics, ServeInv, Dirty
<1>2. ASSUME NEW s \in Scenes, NEW n \in Turns[s], CreateTurnTopic(s, ComputeTurnTopicID(n))
      PROVE  Base'
  BY <1>2, CreateTurnBase
<1>3. ASSUME NEW s \in Scenes,
             \/ Consolidate(s) \/ SkipGroup(s) \/ NoMoreGroups(s)
             \/ \E group \in SUBSET ListTopics(s) : PickGroup(s, group)
             \/ ArchiveSummary(s) \/ ExtractKeywords(s) \/ CreateFusedTopic(s)
             \/ CompressTopics(s) \/ CompressDeletes(s)
             \/ RestoreSunkTopics(s) \/ DiscardTopic(s) \/ DiscardContent(s)
      PROVE  Base'
  BY <1>3, ConsolidateBase, PickBase, WriteBase, SinkBase, RollbackBase
<1>4. QED  BY <1>1, <1>2, <1>3, DeleteBase, RunDreamBase, EndBase DEF Next

\* The part of the invariant that holds whatever fails is invariant.
THEOREM BaseInvariance == Spec => []Base
  BY InitBase, StepBase, PTL DEF Spec

\* A record, a goroutine and the fan-out have the shape the code gives them.
THEOREM TypeCorrectness == Spec => []TypeOK
<1>1. Base => TypeOK
  <2> SUFFICES ASSUME Base PROVE TypeOK
    OBVIOUS
  <2>1. \A t \in DOMAIN topics :
           topics[t].scene \in Scenes /\ topics[t].depth \in 1..(MaxDepth - 1)
    BY DEF Base, TopicType, IsSlot
  <2>2. \A s \in Scenes : (workers[s].group # {}) = (workers[s].at \notin {"off", "list", "pick"})
    BY DEF Base, WorkType, IsWorker, Resting
  <2>3. \A s \in Scenes : pass = "idle" => workers[s] = Off
    BY DEF Base, WorkType
  <2>4. QED  BY <2>1, <2>2, <2>3 DEF Base, FanInv, TurnInv, TypeOK, kept
<1>2. QED  BY <1>1, BaseInvariance, PTL

\* Between two passes the mirror holds the records, unless an engine refusal
\* abandoned the last pass (StructureStages, SyncL2Meta).
THEOREM MirrorIsServed == Spec => []ServesWhatItWrote
<1>1. Base => ServesWhatItWrote
  BY DEF Base, ServeInv, ServesWhatItWrote
<1>2. QED  BY <1>1, BaseInvariance, PTL
-----------------------------------------------------------------------------
(* A pass over a mirror that does not lag. *)

\* A step after which all goroutines are off and the mirror is the records'.
LEMMA OffPass ==
    ASSUME \A s \in Scenes : workers'[s] = Off,
           stale' = "no" => /\ \A t \in DOMAIN topics' : topics'[t].depth <= 2
                            /\ meta' = topics' /\ kept' \subseteq DOMAIN topics'
    PROVE  PassInv'
<1>1. \A s \in Scenes : workers'[s].at = "off" /\ ~Busy(s)'
  BY OffIsWorker DEF Busy, Resting
<1>2. QED  BY <1>1 DEF PassInv

\* A goroutine's step, given what it does to the topics of its scene.
LEMMA MovedPass ==
    ASSUME Base, PassInv, NEW s \in Scenes, workers[s].at # "off",
           NEW a, NEW g, NEW c, NEW t, Moved(s, a, g, c, t), Still, a # "sinkDelete",
           stale = "no" =>
              /\ \A u \in DOMAIN topics' : topics'[u].depth <= 2
              /\ DOMAIN topics \subseteq DOMAIN topics'
                   \/ (Busy(s) /\ DOMAIN topics \subseteq DOMAIN topics' \cup {Parent(s)})
              /\ a \notin Resting => ComputeFusedTopicID(g) \notin DOMAIN meta /\ g \cap c = {}
              /\ \A u \in DOMAIN meta :
                    a # "off" /\ meta[u].scene = s /\ u \notin c /\ ~(u \in g /\ t = "failed")
                       => topics'[u] = meta[u]
              /\ \A u \in DOMAIN meta : meta[u].scene # s => topics'[u] = topics[u]
    PROVE  PassInv'
<1> USE DEF Still
<1> SUFFICES ASSUME stale = "no" PROVE PassInv'
  BY DEF PassInv
<1>1. /\ workers'[s].at = a /\ workers'[s].group = g /\ workers'[s].then = t
      /\ workers'[s].claimed = c
      /\ \A r \in Scenes : r # s => workers'[r] = workers[r]
  BY DEF Moved
<1>2. \A r \in Scenes : workers'[r].at # "sinkDelete"
  BY <1>1 DEF PassInv
<1>3. Busy(s) => Parent(s) \notin DOMAIN meta /\ Parent(s) \notin TurnTopics
  BY FusedIds DEF PassInv, Parent
<1>4. DOMAIN meta' \subseteq DOMAIN topics'
  BY <1>3 DEF PassInv
<1>5. kept' \subseteq DOMAIN topics'
  BY <1>3 DEF PassInv, Base, TurnInv, kept
<1>6. ASSUME NEW r \in Scenes, Busy(r)'
      PROVE  Parent(r)' \notin DOMAIN meta' /\ workers'[r].group \cap workers'[r].claimed = {}
  <2>1. CASE r = s
    BY <1>1, <1>6, <2>1 DEF Busy, Parent
  <2>2. CASE r # s
    BY <1>1, <1>6, <2>2 DEF PassInv, Busy, Parent
  <2>3. QED  BY <2>1, <2>2
<1>7. ASSUME NEW r \in Scenes, NEW u \in DOMAIN meta', workers'[r].at # "off", meta'[u].scene = r,
             u \notin workers'[r].claimed, ~(u \in workers'[r].group /\ Undone(r)')
      PROVE  topics'[u] = meta'[u]
  <2>1. CASE r = s
    BY <1>1, <1>7, <2>1 DEF Undone
  <2>2. CASE r # s
    <3>1. topics[u] = meta[u]
      BY <1>1, <1>7, <2>2 DEF PassInv, Undone
    <3>2. QED  BY <1>7, <2>2, <3>1
  <2>3. QED  BY <2>1, <2>2
<1>8. QED  BY <1>2, <1>4, <1>5, <1>6, <1>7 DEF PassInv

\* What the invariant says of a goroutine's own scene.
LEMMA PassOwn ==
    ASSUME Base, PassInv, stale = "no", NEW s \in Scenes
    PROVE  /\ \A u \in DOMAIN topics : topics[u].depth <= 2
           /\ workers[s].at # "sinkDelete" /\ DOMAIN meta \subseteq DOMAIN topics
           /\ Busy(s) => /\ Parent(s) = ComputeFusedTopicID(workers[s].group)
                         /\ Parent(s) \notin DOMAIN meta /\ workers[s].group \cap workers[s].claimed = {}
                         /\ \A u \in workers[s].group : u \in DOMAIN meta /\ meta[u].scene = s
                                                         /\ meta[u].depth <= 1
           /\ \A u \in DOMAIN meta :
                 workers[s].at # "off" /\ meta[u].scene = s /\ u \notin workers[s].claimed
                    /\ ~(u \in workers[s].group /\ workers[s].then = "failed")
                       => topics[u] = meta[u]
<1>1. Busy(s) => \A u \in workers[s].group : u \in DOMAIN meta /\ meta[u].scene = s /\ meta[u].depth <= 1
  BY DEF Base, GroupInv, ListTopics
<1>2. QED  BY <1>1 DEF PassInv, Undone, Parent

\* Choosing groups.
LEMMA PickPass ==
    ASSUME Base, PassInv, NEW s \in Scenes,
           \/ Consolidate(s) \/ SkipGroup(s) \/ NoMoreGroups(s)
           \/ \E G \in SUBSET ListTopics(s) : PickGroup(s, G)
    PROVE  PassInv'
<1> USE DEF Still
<1>0. WorkType
  BY DEF Base
<1>1. ASSUME topics' = topics, Still, workers[s].at \in {"list", "pick"},
             \/ Moved(s, "off", {}, {}, "pick") \/ Moved(s, "pick", {}, workers[s].claimed, "pick")
      PROVE  PassInv'
  <2>1. workers[s].then = "pick" /\ workers[s].group = {}
    BY <1>0, <1>1, WorkerFields DEF Resting
  <2>2. CASE Moved(s, "off", {}, {}, "pick")
    BY <1>1, <2>2, PassOwn, MovedPass DEF Resting
  <2>3. CASE Moved(s, "pick", {}, workers[s].claimed, "pick")
    BY <1>1, <2>1, <2>3, PassOwn, MovedPass DEF Resting
  <2>4. QED  BY <1>1, <2>2, <2>3
<1>2. CASE Consolidate(s)
  BY <1>0, <1>1, <1>2, ConsolidateFacts
<1>3. CASE SkipGroup(s)
  <2>1. Still /\ topics' = topics /\ workers' = workers
    BY <1>0, <1>3, SkipFacts
  <2>2. QED  BY <2>1 DEF PassInv, Busy, Parent, Undone, kept
<1>4. CASE NoMoreGroups(s)
  BY <1>0, <1>1, <1>4, NoMoreFacts
<1>5. ASSUME NEW G \in SUBSET ListTopics(s), PickGroup(s, G)  PROVE PassInv'
  <2>1. /\ workers[s].at = "pick" /\ Still /\ topics' = topics
        /\ ComputeFusedTopicID(G) \notin DOMAIN topics /\ G \cap workers[s].claimed = {}
        /\ Moved(s, "archive", G, workers[s].claimed, "pick")
    BY <1>0, <1>5, PickFacts
  <2>2. workers[s].then = "pick"
    BY <1>0, <2>1, WorkerFields
  <2>3. QED  BY <2>1, <2>2, PassOwn, MovedPass DEF Resting
<1>6. QED  BY <1>2, <1>3, <1>4, <1>5

\* Writing a summary.
LEMMA WritePass ==
    ASSUME Base, PassInv, NEW s \in Scenes,
           ArchiveSummary(s) \/ ExtractKeywords(s) \/ CreateFusedTopic(s)
    PROVE  PassInv'
<1> USE DEF Still
<1>0. WorkType /\ TopicType
  BY DEF Base
<1>1. ASSUME workers[s].at \in {"archive", "keywords", "create"}
      PROVE  Busy(s) /\ workers[s].then = "pick"
  BY <1>0, <1>1, WorkerFields DEF Busy, Resting
<1>2. ASSUME topics' = topics, Still, workers[s].at \in {"archive", "keywords", "create"},
             NEW a \in {"keywords", "create", "discard"}, NEW t,
             Moved(s, a, workers[s].group, workers[s].claimed, t)
      PROVE  PassInv'
  <2>1. a # "sinkDelete" /\ a # "off" /\ workers[s].at # "off"
    BY <1>2
  <2>2. QED  BY <1>1, <1>2, <2>1, PassOwn, MovedPass
<1>3. CASE ArchiveSummary(s)
  <2>1. workers[s].at = "archive" /\ Still /\ topics' = topics
    BY <1>0, <1>3, ArchiveFacts
  <2>2. CASE Moved(s, "keywords", workers[s].group, workers[s].claimed, "pick")
    BY <1>2, <2>1, <2>2
  <2>3. CASE Moved(s, "off", {}, {}, "pick")
    BY <2>1, <2>3, PassOwn, MovedPass DEF Resting
  <2>4. QED  BY <1>0, <1>3, <2>2, <2>3, ArchiveFacts
<1>4. CASE ExtractKeywords(s)
  BY <1>0, <1>2, <1>4, KeywordsFacts
<1>5. CASE CreateFusedTopic(s)
  <2>1. workers[s].at = "create" /\ Still
    BY <1>0, <1>5, CreateFacts
  <2>2. CASE /\ topics' = Put(topics, Parent(s), NewTopic(s))
             /\ Moved(s, "sink", workers[s].group, workers[s].claimed, "pick")
    <3>1. /\ DOMAIN topics' = DOMAIN topics \cup {Parent(s)}
          /\ \A u \in DOMAIN topics : u # Parent(s) => topics'[u] = topics[u]
          /\ topics'[Parent(s)].depth = 1
      BY <1>0, <2>2, PutTopicType
    <3>2. ASSUME stale = "no"
          PROVE  /\ \A u \in DOMAIN topics' : topics'[u].depth <= 2
                 /\ \A u \in DOMAIN meta : topics'[u] = topics[u]
      BY <1>1, <2>1, <3>1, <3>2, PassOwn
    <3>3. QED  BY <1>1, <2>1, <2>2, <3>1, <3>2, PassOwn, MovedPass DEF Resting
  <2>3. CASE topics' = topics /\ Moved(s, "discard", workers[s].group, workers[s].claimed, "failed")
    BY <1>2, <2>1, <2>3
  <2>4. QED  BY <1>0, <1>5, <2>2, <2>3, CreateFacts
<1>6. QED  BY <1>3, <1>4, <1>5

\* Sinking the members of a group: they were at the surface.
LEMMA SinkPass ==
    ASSUME Base, PassInv, NEW s \in Scenes, CompressTopics(s) \/ CompressDeletes(s)
    PROVE  PassInv'
<1> USE DEF Still
<1> SUFFICES ASSUME stale = "no" PROVE PassInv'
  BY CompressFacts, CompressDeletesFacts DEF PassInv, Base
<1>0. WorkType /\ TopicType
  BY DEF Base
<1>1. CompressTopics(s) /\ workers[s].at = "sink" /\ Still
  BY <1>0, CompressFacts, CompressDeletesFacts, PassOwn
<1>2. Busy(s) /\ workers[s].then = "pick"
  BY <1>0, <1>1, WorkerFields DEF Busy, Resting
<1>3. \A u \in workers[s].group : u \in DOMAIN topics /\ topics[u] = meta[u] /\ topics[u].depth <= 1
  BY <1>1, <1>2, PassOwn
<1>4. Bottomed(s) = {} /\ Members(s) = workers[s].group
  <2>1. ASSUME NEW u \in workers[s].group  PROVE ~(topics[u].depth + 1 >= MaxDepth)
    <3>1. topics[u].depth <= 1 /\ topics[u].depth \in Int
      BY <1>0, <1>3, <2>1, ConstantsOK DEF TopicType, IsSlot
    <3>2. QED  BY <3>1, ConstantsOK
  <2>2. QED  BY <1>3, <2>1 DEF Bottomed, Members
<1>5. CASE /\ topics' = [t \in DOMAIN topics |->
                           IF t \in Members(s) \ Bottomed(s) THEN Sunk(s, t) ELSE topics[t]]
           /\ Moved(s, "pick", {}, workers[s].claimed \cup workers[s].group, "pick")
  <2>1. /\ DOMAIN topics' = DOMAIN topics
        /\ \A u \in DOMAIN topics :
              IF u \in Members(s) \ Bottomed(s)
              THEN topics'[u].depth = topics[u].depth + 1 /\ topics'[u].parent = Parent(s)
              ELSE topics'[u] = topics[u]
    BY <1>0, <1>5, SunkTopicType
  <2>2. ASSUME NEW u \in DOMAIN topics'  PROVE topics'[u].depth <= 2
    <3>1. CASE u \in workers[s].group
      <4>1. topics'[u].depth = topics[u].depth + 1 /\ topics[u].depth <= 1
        BY <1>3, <1>4, <2>1, <3>1
      <4>2. topics[u].depth \in Int
        BY <1>0, <1>3, <3>1, ConstantsOK DEF TopicType, IsSlot
      <4>3. QED  BY <4>1, <4>2
    <3>2. CASE u \notin workers[s].group
      BY <1>4, <2>1, <3>2, PassOwn
    <3>3. QED  BY <3>1, <3>2
  <2>3. \A u \in DOMAIN meta : u \notin workers[s].group => topics'[u] = topics[u]
    BY <1>4, <2>1, PassOwn
  <2>4. \A u \in DOMAIN meta : meta[u].scene # s => u \notin workers[s].group
    BY <1>2, PassOwn
  <2>5. QED  BY <1>1, <1>2, <1>5, <2>1, <2>2, <2>3, <2>4, PassOwn, MovedPass DEF Resting
<1>6. CASE topics' = topics /\ Moved(s, "restore", workers[s].group, workers[s].claimed, "failed")
  BY <1>1, <1>2, <1>6, PassOwn, MovedPass
<1>7. QED  BY <1>0, <1>1, <1>4, <1>5, <1>6, CompressFacts, Zenon

\* Rolling a group back.
LEMMA RollbackPass ==
    ASSUME Base, PassInv, NEW s \in Scenes,
           RestoreSunkTopics(s) \/ DiscardTopic(s) \/ DiscardContent(s)
    PROVE  PassInv'
<1> USE DEF Still
<1>0. WorkType /\ TopicType
  BY DEF Base
<1>1. ASSUME workers[s].at \in {"restore", "discard", "discardContent"}
      PROVE  Busy(s)
  BY <1>1 DEF Busy, Resting
<1>2. CASE RestoreSunkTopics(s)
  <2>1. /\ workers[s].at = "restore" /\ Still
        /\ Moved(s, "discard", workers[s].group, workers[s].claimed, "failed")
    BY <1>0, <1>2, RestoreFacts
  <2>2. PICK S \in SUBSET Hanging(s) : topics' = Restored(S)
    BY <1>0, <1>2, RestoreFacts
  <2>3. S \subseteq workers[s].group
    BY DEF Hanging, Members
  <2>4. /\ DOMAIN topics' = DOMAIN topics
        /\ \A u \in DOMAIN topics :
              IF u \in S THEN topics'[u].parent = None /\ topics'[u].depth <= topics[u].depth
                         ELSE topics'[u] = topics[u]
    BY <1>0, <2>2, RestoredTopicType
  <2>5. ASSUME stale = "no", NEW u \in DOMAIN topics'  PROVE topics'[u].depth <= 2
    <3>1. topics[u].depth \in Int /\ topics'[u].depth \in Int
      <4>1. TopicType'
        BY <1>0, <2>2, RestoredTopicType
      <4>2. QED  BY <1>0, <2>4, <2>5, <4>1, ConstantsOK DEF TopicType, IsSlot
    <3>2. topics[u].depth <= 2
      BY <2>4, <2>5, PassOwn
    <3>3. topics'[u].depth <= topics[u].depth
      BY <2>4, <2>5, <3>1
    <3>4. QED  BY <3>1, <3>2, <3>3
  <2>6. stale = "no" => /\ \A u \in DOMAIN meta : u \notin workers[s].group => topics'[u] = topics[u]
                        /\ \A u \in DOMAIN meta : meta[u].scene # s => u \notin workers[s].group
    BY <1>1, <2>1, <2>3, <2>4, PassOwn
  <2>7. stale = "no" => \A u \in DOMAIN meta :
           meta[u].scene = s /\ u \notin workers[s].claimed /\ u \notin workers[s].group
              => topics'[u] = meta[u]
    BY <2>1, <2>6, PassOwn
  <2>8. QED  BY <1>1, <2>1, <2>4, <2>5, <2>6, <2>7, PassOwn, MovedPass
<1>3. CASE DiscardTopic(s)
  <2>1. /\ workers[s].at = "discard" /\ Still
        /\ Moved(s, "discardContent", workers[s].group, workers[s].claimed, workers[s].then)
    BY <1>0, <1>3, DiscardFacts
  <2>2. PICK K : topics' = Drop(topics, K) /\ K \subseteq {Parent(s)}
    <3>1. CASE topics' = Drop(topics, {Parent(s)})
      BY <3>1
    <3>2. CASE topics' = topics
      <4>1. topics = Drop(topics, {})
        BY <1>0 DEF TopicType, Drop
      <4>2. QED  BY <3>2, <4>1
    <3>3. QED  BY <1>0, <1>3, <3>1, <3>2, DiscardFacts
  <2>3. /\ DOMAIN topics' = DOMAIN topics \ K /\ \A u \in DOMAIN topics' : topics'[u] = topics[u]
    BY <1>0, <2>2, DropTopicType
  <2>4. stale = "no" => \A u \in DOMAIN meta : topics'[u] = topics[u]
    BY <1>1, <2>1, <2>2, <2>3, PassOwn
  <2>5. QED  BY <1>1, <2>1, <2>2, <2>3, <2>4, PassOwn, MovedPass
<1>4. CASE DiscardContent(s)
  <2>1. workers[s].at = "discardContent" /\ Still /\ topics' = topics
    BY <1>0, <1>4, DiscardContentFacts
  <2>2. CASE Moved(s, "off", {}, {}, "pick")
    BY <2>1, <2>2, PassOwn, MovedPass DEF Resting
  <2>3. CASE workers[s].then = "pick" /\ Moved(s, "pick", {}, workers[s].claimed, "pick")
    BY <2>1, <2>3, PassOwn, MovedPass DEF Resting
  <2>4. QED  BY <1>0, <1>4, <2>2, <2>3, DiscardContentFacts
<1>5. QED  BY <1>2, <1>3, <1>4

\* The steps between two passes, and those that end one.
LEMMA IdlePass ==
    ASSUME Base, PassInv, Base', pass' = "idle",
           \/ \E s \in Scenes : \E n \in Turns[s] : CreateTurnTopic(s, ComputeTurnTopicID(n))
           \/ \E t \in DOMAIN topics : DeleteTopic(t)
           \/ ReturnEarly \/ StructureStages \/ Restart
    PROVE  PassInv'
<1>1. \A s \in Scenes : workers'[s] = Off
  BY DEF Base, WorkType
<1>2. stale' = "no" => meta' = topics'
  BY DEF Base, ServeInv
<1> SUFFICES ASSUME stale' = "no"
             PROVE  /\ \A t \in DOMAIN topics' : topics'[t].depth <= 2
                    /\ kept' \subseteq DOMAIN topics'
  BY <1>1, <1>2, OffPass
<1>3. ASSUME stale = "no"
      PROVE  (\A t \in DOMAIN topics : topics[t].depth <= 2) /\ kept \subseteq DOMAIN topics
  BY <1>3 DEF PassInv
<1>4. ASSUME NEW s \in Scenes, NEW n \in Turns[s], CreateTurnTopic(s, ComputeTurnTopicID(n))
      PROVE  /\ \A t \in DOMAIN topics' : topics'[t].depth <= 2
             /\ kept' \subseteq DOMAIN topics'
  <2> DEFINE x == ComputeTurnTopicID(n)
             row == IF x \in DOMAIN topics THEN topics[x] ELSE NewTopic(s)
  <2>1. stale = "no" /\ topics' = Put(topics, x, row) /\ opened' = opened \cup {x} /\ lost' = lost
    BY <1>4 DEF CreateTurnTopic
  <2>2. row.depth <= 2
    BY <1>3, <2>1 DEF NewTopic
  <2> HIDE DEF row, x
  <2>3. QED  BY <1>3, <2>1, <2>2 DEF Put, kept
<1>5. ASSUME NEW t \in DOMAIN topics, DeleteTopic(t)
      PROVE  /\ \A u \in DOMAIN topics' : topics'[u].depth <= 2
             /\ kept' \subseteq DOMAIN topics'
  <2>1. PICK gone : gone = TopicClosure(t)
    OBVIOUS
  <2>2. stale = "no" /\ topics' = Drop(topics, gone) /\ opened' = opened /\ lost' = lost \cup gone
    BY <1>5, <2>1 DEF DeleteTopic
  <2>3. QED  BY <1>3, <2>2 DEF Drop, kept
<1>6. CASE ReturnEarly \/ StructureStages \/ Restart
  <2>1. stale = "no" /\ topics' = topics /\ opened' = opened /\ lost' = lost
    BY <1>6 DEF ReturnEarly, StructureStages, Restart, Rebuilt, records
  <2>2. QED  BY <1>3, <2>1 DEF kept
<1>7. QED  BY <1>4, <1>5, <1>6

\* A pass begins on a mirror that holds the records.
LEMMA RunDreamPass ==
    ASSUME Base, PassInv, NEW S, RunDream(S)
    PROVE  PassInv'
<1> SUFFICES ASSUME stale = "no" PROVE PassInv'
  BY DEF RunDream, history, PassInv
<1>1. [Off EXCEPT !.at = "list"] = Rec("list", {}, {}, {}, "pick")
  BY DEF Off, Rec
<1>2. /\ pass = "idle" /\ UNCHANGED <<topics, content, meta, turn, opened, lost, torn, stale>>
      /\ workers' = [s \in Scenes |-> IF s \in S THEN Rec("list", {}, {}, {}, "pick") ELSE Off]
  BY <1>1, Zenon DEF RunDream, records, history
<1>3. \A s \in Scenes : workers'[s] = Off \/ workers'[s] = Rec("list", {}, {}, {}, "pick")
  BY <1>2
<1>4. \A s \in Scenes : workers'[s].at \in {"off", "list"}
  BY <1>3, RecFields, OffIsWorker
<1>5. meta = topics
  BY <1>2 DEF Base, ServeInv
<1>6. QED  BY <1>2, <1>4, <1>5 DEF PassInv, Busy, Resting, kept

\* Every step keeps it.
LEMMA StepPass == Base /\ PassInv /\ [Next]_vars => PassInv'
<1> SUFFICES ASSUME Base, PassInv, [Next]_vars PROVE PassInv'
  OBVIOUS
<1>0. Base'
  BY StepBase
<1>1. CASE UNCHANGED vars
  BY <1>1 DEF vars, records, history, PassInv, Busy, Parent, Undone, kept
<1>2. CASE \/ \E s \in Scenes : \E n \in Turns[s] : CreateTurnTopic(s, ComputeTurnTopicID(n))
           \/ \E t \in DOMAIN topics : DeleteTopic(t)
           \/ ReturnEarly \/ StructureStages \/ Restart
  <2>1. pass' = "idle"
    BY <1>2 DEF CreateTurnTopic, DeleteTopic, ReturnEarly, StructureStages, Restart
  <2>2. QED  BY <1>0, <1>2, <2>1, IdlePass
<1>3. ASSUME NEW s \in Scenes,
             \/ Consolidate(s) \/ SkipGroup(s) \/ NoMoreGroups(s)
             \/ \E group \in SUBSET ListTopics(s) : PickGroup(s, group)
             \/ ArchiveSummary(s) \/ ExtractKeywords(s) \/ CreateFusedTopic(s)
             \/ CompressTopics(s) \/ CompressDeletes(s)
             \/ RestoreSunkTopics(s) \/ DiscardTopic(s) \/ DiscardContent(s)
      PROVE  PassInv'
  BY <1>3, PickPass, WritePass, SinkPass, RollbackPass
<1>4. QED  BY <1>1, <1>2, <1>3, RunDreamPass DEF Next

\* It holds before anything happened.
LEMMA InitPass == Init => PassInv
<1>1. Init => (\A s \in Scenes : workers[s].at = "off") /\ DOMAIN topics = {} /\ meta = topics /\ kept = {}
  BY OffIsWorker DEF Init, kept
<1>2. QED  BY <1>1 DEF PassInv, Busy, Resting

\* No pass over a mirror that held the records sinks a topic twice or deletes
\* one.
THEOREM PassInvariance == Spec => []PassInv
  BY InitBase, StepBase, InitPass, StepPass, PTL DEF Spec

\* Consolidation loses no turn: it is stored, at the surface or one level below
\* it (CompressTopicsL2 deletes from MaxDepth on).
THEOREM NoTurnIsLost == Spec => []TurnsKept
<1>1. PassInv => TurnsKept
  BY DEF PassInv, TurnsKept
<1>2. QED  BY <1>1, PassInvariance, PTL
-----------------------------------------------------------------------------
(* Whole groups: every rollback succeeded and no process died inside a group. *)

Whole == SummaryInv /\ ApplyInv /\ LostInv

\* A goroutine that keeps its group, or takes or gives up one.
LEMMA FlightMoves ==
    ASSUME Base, NEW s \in Scenes, NEW a, NEW g, NEW c, NEW t, Moved(s, a, g, c, t)
    PROVE  /\ \A r \in Scenes : r # s => /\ (Busy(r)' <=> Busy(r)) /\ Parent(r)' = Parent(r)
                                         /\ workers'[r] = workers[r]
           /\ (Busy(s)' <=> a \notin Resting) /\ Parent(s)' = ComputeFusedTopicID(g)
           /\ workers'[s].at = a /\ workers'[s].group = g
           /\ \A f : InFlight(f)' <=>
                 \/ \E r \in Scenes \ {s} : Busy(r) /\ f = Parent(r)
                 \/ a \notin Resting /\ f = ComputeFusedTopicID(g)
  BY DEF Moved, Busy, Parent, InFlight

\* A group is chosen, moved on or given up, and no topic is written.
LEMMA RestWhole ==
    ASSUME Base, Whole, NEW s \in Scenes, NEW a, NEW g, NEW c, NEW t, Moved(s, a, g, c, t),
           topics' = topics, lost' = lost,
           content' \subseteq content \cup {Parent(s)}, content \subseteq content' \cup {Parent(s)},
           ~Busy(s) => content' = content,
           Busy(s) /\ Parent(s) \in DOMAIN topics => Parent(s) \in content',
           Busy(s) /\ a \in Resting => Parent(s) \notin DOMAIN topics /\ Parent(s) \notin content',
           Busy(s) /\ a \notin Resting => g = workers[s].group,
           a \notin Resting /\ ~Busy(s) => \A f \in Summaries : ComputeFusedTopicID(g) \notin MembersOf(f)
                                                                /\ g \cap MembersOf(f) = {},
           a = "archive" => ComputeFusedTopicID(g) \notin content',
           a = "sink" => ComputeFusedTopicID(g) \in DOMAIN topics,
           a = "discard" => \A u \in DOMAIN topics : topics[u].parent # ComputeFusedTopicID(g),
           a = "discardContent" => ComputeFusedTopicID(g) \notin DOMAIN topics
    PROVE  Whole'
<1>1. /\ \A r \in Scenes : r # s => /\ (Busy(r)' <=> Busy(r)) /\ Parent(r)' = Parent(r)
                                    /\ workers'[r] = workers[r]
      /\ (Busy(s)' <=> a \notin Resting) /\ Parent(s)' = ComputeFusedTopicID(g)
      /\ workers'[s].at = a /\ workers'[s].group = g
      /\ \A f : InFlight(f)' <=>
            \/ \E r \in Scenes \ {s} : Busy(r) /\ f = Parent(r)
            \/ a \notin Resting /\ f = ComputeFusedTopicID(g)
  BY FlightMoves
<1>2. Parent(s) = ComputeFusedTopicID(workers[s].group)
  BY DEF Parent
<1>3. \A r \in Scenes : r # s /\ Busy(r) /\ Busy(s) => Parent(r) # Parent(s)
  BY ApartFrom DEF Base
<1>4. Summaries' = Summaries
  BY DEF Summaries
<1>5. \A f : InFlight(f) =>
         InFlight(f)' \/ (Busy(s) /\ a \in Resting /\ f = Parent(s))
  <2> SUFFICES ASSUME NEW f, InFlight(f)
               PROVE  InFlight(f)' \/ (Busy(s) /\ a \in Resting /\ f = Parent(s))
    OBVIOUS
  <2>1. PICK r \in Scenes : Busy(r) /\ f = Parent(r)
    BY DEF InFlight
  <2>2. CASE r # s
    BY <1>1, <2>1, <2>2
  <2>3. CASE r = s
    BY <1>1, <1>2, <2>1, <2>3
  <2>4. QED  BY <2>2, <2>3
<1>6. SummaryInv'
  <2>1. ASSUME NEW f \in Summaries
        PROVE  /\ MembersOf(f) # {} /\ f \in content' /\ MembersOf(f) \subseteq DOMAIN topics' \cup lost'
               /\ ~InFlight(f)' => \A u \in MembersOf(f) \cap DOMAIN topics' :
                                      topics'[u].depth > 1 /\ topics'[u].parent = f
    <3>1. /\ MembersOf(f) # {} /\ f \in content /\ MembersOf(f) \subseteq DOMAIN topics \cup lost
          /\ ~InFlight(f) => \A u \in MembersOf(f) \cap DOMAIN topics :
                                topics[u].depth > 1 /\ topics[u].parent = f
      BY DEF Whole, SummaryInv
    <3>2. f \in DOMAIN topics
      BY DEF Summaries
    <3>3. QED  BY <1>5, <3>1, <3>2
  <2>2. ASSUME NEW f \in content', IsFused(f)  PROVE f \in DOMAIN topics' \/ InFlight(f)'
    <3>1. CASE f \in content
      <4>1. f \in DOMAIN topics \/ InFlight(f)
        BY <2>2, <3>1 DEF Whole, SummaryInv
      <4>2. QED  BY <1>5, <2>2, <4>1
    <3>2. CASE f \notin content
      BY <1>1, <1>2, <2>2, <3>2
    <3>3. QED  BY <3>1, <3>2
  <2>3. \A u \in DOMAIN topics' : topics'[u].parent \in DOMAIN topics' \cup {None}
    BY DEF Whole, SummaryInv
  <2>4. QED  BY <1>4, <2>1, <2>2, <2>3 DEF SummaryInv
<1>7. ASSUME NEW r \in Scenes, Busy(r)'
      PROVE  /\ \A f \in Summaries : Parent(r)' \notin MembersOf(f)
             /\ \A f \in Summaries \ {Parent(r)'} : workers'[r].group \cap MembersOf(f) = {}
             /\ workers'[r].at = "archive" => Parent(r)' \notin content'
             /\ workers'[r].at = "sink" => Parent(r)' \in DOMAIN topics'
             /\ workers'[r].at = "discard" => \A u \in DOMAIN topics' : topics'[u].parent # Parent(r)'
             /\ workers'[r].at = "discardContent" => Parent(r)' \notin DOMAIN topics'
  <2>1. Busy(r) => /\ \A f \in Summaries : Parent(r) \notin MembersOf(f)
                   /\ \A f \in Summaries \ {Parent(r)} : workers[r].group \cap MembersOf(f) = {}
    BY DEF Whole, ApplyInv
  <2>2. CASE r = s
    <3>1. CASE Busy(s)
      BY <1>1, <1>2, <1>7, <2>1, <2>2, <3>1
    <3>2. CASE ~Busy(s)
      BY <1>1, <1>7, <2>2, <3>2
    <3>3. QED  BY <3>1, <3>2
  <2>3. CASE r # s
    <3>1. Busy(r) /\ Parent(r)' = Parent(r) /\ workers'[r] = workers[r]
      BY <1>1, <1>7, <2>3
    <3>2. /\ workers[r].at = "archive" => Parent(r) \notin content
          /\ workers[r].at = "sink" => Parent(r) \in DOMAIN topics
          /\ workers[r].at = "discard" => \A u \in DOMAIN topics : topics[u].parent # Parent(r)
          /\ workers[r].at = "discardContent" => Parent(r) \notin DOMAIN topics
      BY <3>1 DEF Whole, ApplyInv
    <3>3. workers[r].at = "archive" => Parent(r) \notin content'
      BY <1>3, <2>3, <3>1, <3>2
    <3>4. QED  BY <2>1, <3>1, <3>2, <3>3
  <2>4. QED  BY <2>2, <2>3
<1>8. ApplyInv'
  BY <1>4, <1>7 DEF ApplyInv
<1>9. LostInv'
  BY DEF Whole, LostInv
<1>10. QED  BY <1>6, <1>8, <1>9 DEF Whole

\* Choosing groups: a topic of the listing belongs to no summary yet, and the
\* new group's summary was neither written nor deleted before.
LEMMA PickWhole ==
    ASSUME Base, PassInv, Whole, stale = "no", NEW s \in Scenes,
           \/ Consolidate(s) \/ SkipGroup(s) \/ NoMoreGroups(s)
           \/ \E G \in SUBSET ListTopics(s) : PickGroup(s, G)
    PROVE  Whole'
<1> USE DEF Still
<1>0. WorkType
  BY DEF Base
<1>1. ASSUME NEW a \in {"off", "pick"}, NEW c, Moved(s, a, {}, c, "pick"), topics' = topics,
             content' = content, lost' = lost, workers[s].at \in {"list", "pick"}
      PROVE  Whole'
  <2>1. ~Busy(s) /\ a \in Resting
    BY <1>1 DEF Busy, Resting
  <2>2. QED  BY <1>1, <2>1, RestWhole DEF Resting
<1>2. CASE Consolidate(s)
  <2>1. /\ workers[s].at = "list" /\ Still /\ UNCHANGED <<topics, content, torn>>
        /\ \/ Moved(s, "off", {}, {}, "pick")
           \/ Moved(s, "pick", {}, workers[s].claimed, "pick")
    BY <1>0, <1>2, ConsolidateFacts
  <2>2. QED  BY <1>1, <2>1
<1>3. CASE SkipGroup(s)
  <2>1. topics' = topics /\ content' = content /\ lost' = lost /\ workers' = workers
    BY <1>0, <1>3, SkipFacts
  <2>2. Summaries' = Summaries /\ (\A f : InFlight(f)' <=> InFlight(f))
        /\ \A r \in Scenes : (Busy(r)' <=> Busy(r)) /\ Parent(r)' = Parent(r)
    BY <2>1 DEF Summaries, InFlight, Busy, Parent
  <2>3. SummaryInv'
    BY <2>1, <2>2 DEF Whole, SummaryInv
  <2>4. ApplyInv' /\ LostInv'
    BY <2>1, <2>2 DEF Whole, ApplyInv, LostInv
  <2>5. QED  BY <2>3, <2>4 DEF Whole
<1>4. CASE NoMoreGroups(s)
  BY <1>0, <1>1, <1>4, NoMoreFacts
<1>5. ASSUME NEW G \in SUBSET ListTopics(s), PickGroup(s, G)  PROVE Whole'
  <2> DEFINE p == ComputeFusedTopicID(G)
  <2>1. /\ workers[s].at = "pick" /\ Still /\ UNCHANGED <<topics, content, torn, got>>
        /\ G # {} /\ G \cap workers[s].claimed = {} /\ p \notin DOMAIN topics
        /\ Moved(s, "archive", G, workers[s].claimed, "pick")
    BY <1>0, <1>5, PickFacts
  <2>2. IsFused(p) /\ MembersOf(p) = G
    BY FusedIds
  <2> HIDE DEF p
  <2>3. ~Busy(s) /\ workers[s].then = "pick"
    BY <1>0, <2>1, WorkerFields DEF Busy, Resting
  <2>4. \A u \in G : u \in DOMAIN topics /\ u \in DOMAIN meta /\ meta[u].scene = s
                     /\ topics[u] = meta[u] /\ topics[u].depth <= 1
    BY <2>1, <2>3, PassOwn DEF ListTopics
  <2>5. \A r \in Scenes : Busy(r) => r # s /\ workers[r].group \cap G = {}
                                     /\ MembersOf(Parent(r)) = workers[r].group
    <3> SUFFICES ASSUME NEW r \in Scenes, Busy(r)
                 PROVE  r # s /\ workers[r].group \cap G = {} /\ MembersOf(Parent(r)) = workers[r].group
      OBVIOUS
    <3>1. workers[r].group \subseteq ListTopics(r) /\ r # s
      BY <2>3 DEF Base, GroupInv
    <3>2. workers[r].group \cap G = {}
      BY <2>4, <3>1 DEF ListTopics
    <3>3. QED  BY <3>1, <3>2, FusedIds DEF Parent
  <2>6. ~InFlight(p)
    BY <2>1, <2>2, <2>5 DEF InFlight
  <2>7. p \notin content
    BY <2>1, <2>2, <2>6 DEF Whole, SummaryInv
  <2>8. p \notin lost
    BY <2>2, <2>4 DEF Whole, LostInv
  <2>9. ASSUME NEW f \in Summaries  PROVE p \notin MembersOf(f) /\ G \cap MembersOf(f) = {}
    <3>1. p \notin MembersOf(f)
      BY <2>1, <2>8 DEF Whole, SummaryInv
    <3>2. ASSUME NEW u \in G, u \in MembersOf(f)  PROVE FALSE
      <4>1. topics[u].depth <= 1 /\ topics[u].depth \in Int /\ u \in DOMAIN topics
        BY <2>4, ConstantsOK DEF Base, TopicType, IsSlot
      <4>2. InFlight(f)
        BY <3>2, <4>1 DEF Whole, SummaryInv
      <4>3. QED  BY <2>5, <3>2, <4>2 DEF InFlight
    <3>3. QED  BY <3>1, <3>2
  <2>10. QED  BY <2>1, <2>3, <2>7, <2>9, RestWhole DEF p, Resting
<1>6. QED  BY <1>2, <1>3, <1>4, <1>5

\* Nothing hangs under a summary that is not stored.
LEMMA NothingHangs ==
    ASSUME Whole, NEW G, ComputeFusedTopicID(G) \notin DOMAIN topics
    PROVE  \A u \in DOMAIN topics : topics[u].parent # ComputeFusedTopicID(G)
  BY FusedIds DEF Whole, SummaryInv

\* Topics are written while a goroutine at phase a applies its group: the ones
\* in new appear, the ones in old go, and the topics of other summaries stay as
\* they are.
Keeps(s, a, new, old) ==
    /\ new \subseteq {Parent(s)} /\ old \subseteq {Parent(s)} /\ Parent(s) \notin lost
    /\ DOMAIN topics' = (DOMAIN topics \cup new) \ old
    /\ new # {} => /\ Parent(s) \in content
                   /\ workers[s].group \subseteq DOMAIN topics /\ Parent(s) \notin workers[s].group
                   /\ \A r \in Scenes : Busy(r) => Parent(r) \notin workers[s].group
    /\ \A u \in DOMAIN topics \cap DOMAIN topics' :
          u \notin workers[s].group /\ u # Parent(s) => topics'[u] = topics[u]
    /\ \A u \in DOMAIN topics' :
          topics'[u].parent = None \/ (u \in DOMAIN topics /\ topics'[u].parent = topics[u].parent)
    /\ old # {} => \A u \in DOMAIN topics : topics[u].parent # Parent(s)
    /\ a # "archive" /\ (a = "sink" => Parent(s) \in DOMAIN topics')
    /\ a = "discard" => \A u \in DOMAIN topics' : topics'[u].parent # Parent(s)
    /\ a = "discardContent" => Parent(s) \notin DOMAIN topics'

\* Such a step keeps the groups whole.
LEMMA KeepsWhole ==
    ASSUME Base, Whole, NEW s \in Scenes, Busy(s), NEW a, NEW c, NEW t,
           a \notin Resting, Moved(s, a, workers[s].group, c, t), content' = content, lost' = lost,
           NEW new, NEW old, Keeps(s, a, new, old)
    PROVE  Whole'
<1> USE DEF Keeps
<1>1. /\ \A r \in Scenes : r # s => /\ (Busy(r)' <=> Busy(r)) /\ Parent(r)' = Parent(r)
                                    /\ workers'[r] = workers[r]
      /\ Busy(s)' /\ Parent(s)' = Parent(s) /\ workers'[s].at = a /\ workers'[s].group = workers[s].group
      /\ \A f : InFlight(f)' <=> InFlight(f)
  BY FlightMoves DEF Parent, InFlight
<1>2. \A r \in Scenes : r # s /\ Busy(r) => Parent(r) # Parent(s)
                                           /\ workers[r].group \cap workers[s].group = {}
  BY ApartFrom DEF Base
<1>3. /\ IsFused(Parent(s)) /\ MembersOf(Parent(s)) = workers[s].group /\ Parent(s) # None
      /\ workers[s].group # {}
  BY FusedIds, WorkerFields DEF Parent, Base, Busy
<1>4. /\ \A f \in Summaries' : f \in Summaries \/ (f = Parent(s) /\ new # {})
      /\ \A f : f # Parent(s) => (f \in DOMAIN topics' <=> f \in DOMAIN topics)
  BY DEF Summaries
<1>5. ApplyInv /\ SummaryInv /\ LostInv
  BY DEF Whole
<1>6. /\ \A f \in Summaries : Parent(s) \notin MembersOf(f)
      /\ \A f \in Summaries \ {Parent(s)} : workers[s].group \cap MembersOf(f) = {}
  BY <1>5 DEF ApplyInv
<1>7. InFlight(Parent(s))
  BY DEF InFlight
<1>8. SummaryInv'
  <2>1. ASSUME NEW f \in Summaries'
        PROVE  /\ MembersOf(f) # {} /\ f \in content' /\ MembersOf(f) \subseteq DOMAIN topics' \cup lost'
               /\ ~InFlight(f)' => \A u \in MembersOf(f) \cap DOMAIN topics' :
                                      topics'[u].depth > 1 /\ topics'[u].parent = f
    <3>1. CASE f = Parent(s) /\ f \notin Summaries
      BY <1>1, <1>3, <1>4, <1>7, <3>1
    <3>2. CASE f \in Summaries
      <4>1. /\ MembersOf(f) # {} /\ f \in content /\ MembersOf(f) \subseteq DOMAIN topics \cup lost
            /\ ~InFlight(f) => \A u \in MembersOf(f) \cap DOMAIN topics :
                                  topics[u].depth > 1 /\ topics[u].parent = f
        BY <1>5, <3>2 DEF SummaryInv
      <4>2. MembersOf(f) \subseteq DOMAIN topics' \cup lost'
        BY <1>4, <1>6, <3>2, <4>1
      <4>3. ASSUME ~InFlight(f)', NEW u \in MembersOf(f) \cap DOMAIN topics'
            PROVE  topics'[u].depth > 1 /\ topics'[u].parent = f
        <5>1. f # Parent(s) /\ ~InFlight(f)
          BY <1>1, <1>7, <4>3
        <5>2. u \notin workers[s].group /\ u # Parent(s) /\ u \in DOMAIN topics
          BY <1>4, <1>6, <3>2, <5>1
        <5>3. QED  BY <4>1, <5>1, <5>2
      <4>4. QED  BY <4>1, <4>2, <4>3
    <3>3. QED  BY <1>4, <3>1, <3>2
  <2>2. ASSUME NEW f \in content', IsFused(f)  PROVE f \in DOMAIN topics' \/ InFlight(f)'
    <3>1. f \in DOMAIN topics \/ InFlight(f)
      BY <1>5, <2>2 DEF SummaryInv
    <3>2. QED  BY <1>1, <1>4, <1>7, <3>1
  <2>3. ASSUME NEW u \in DOMAIN topics'  PROVE topics'[u].parent \in DOMAIN topics' \cup {None}
    <3>1. CASE topics'[u].parent = None
      BY <3>1
    <3>2. CASE u \in DOMAIN topics /\ topics'[u].parent = topics[u].parent
      <4>1. topics[u].parent \in DOMAIN topics \cup {None}
        BY <1>5, <3>2 DEF SummaryInv
      <4>2. CASE old = {}
        BY <3>2, <4>1, <4>2
      <4>3. CASE old # {}
        BY <1>4, <3>2, <4>1, <4>3
      <4>4. QED  BY <4>2, <4>3
    <3>3. QED  BY <3>1, <3>2
  <2>4. QED  BY <2>1, <2>2, <2>3 DEF SummaryInv
<1>9. ASSUME NEW r \in Scenes, Busy(r)'
      PROVE  /\ \A f \in Summaries' : Parent(r)' \notin MembersOf(f)
             /\ \A f \in Summaries' \ {Parent(r)'} : workers'[r].group \cap MembersOf(f) = {}
             /\ workers'[r].at = "archive" => Parent(r)' \notin content'
             /\ workers'[r].at = "sink" => Parent(r)' \in DOMAIN topics'
             /\ workers'[r].at = "discard" => \A u \in DOMAIN topics' : topics'[u].parent # Parent(r)'
             /\ workers'[r].at = "discardContent" => Parent(r)' \notin DOMAIN topics'
  <2>1. CASE r = s
    <3>1. ASSUME NEW f \in Summaries'
          PROVE  Parent(s) \notin MembersOf(f)
                 /\ (f # Parent(s) => workers[s].group \cap MembersOf(f) = {})
      BY <1>3, <1>4, <1>6
    <3>2. QED  BY <1>1, <2>1, <3>1
  <2>2. CASE r # s
    <3>1. Busy(r) /\ Parent(r)' = Parent(r) /\ workers'[r] = workers[r] /\ Parent(r) # Parent(s)
          /\ workers[r].group \cap workers[s].group = {}
      BY <1>1, <1>2, <1>9, <2>2
    <3>2. /\ \A f \in Summaries : Parent(r) \notin MembersOf(f)
          /\ \A f \in Summaries \ {Parent(r)} : workers[r].group \cap MembersOf(f) = {}
          /\ workers[r].at = "archive" => Parent(r) \notin content
          /\ workers[r].at = "sink" => Parent(r) \in DOMAIN topics
          /\ workers[r].at = "discard" => \A u \in DOMAIN topics : topics[u].parent # Parent(r)
          /\ workers[r].at = "discardContent" => Parent(r) \notin DOMAIN topics
      BY <1>5, <3>1 DEF ApplyInv
    <3>3. ASSUME NEW f \in Summaries'
          PROVE  Parent(r) \notin MembersOf(f)
                 /\ (f # Parent(r) => workers[r].group \cap MembersOf(f) = {})
      BY <1>3, <1>4, <3>1, <3>2
    <3>4. Parent(r) # None
      BY FusedIds DEF Parent
    <3>5. workers[r].at = "discard" => \A u \in DOMAIN topics' : topics'[u].parent # Parent(r)
      BY <3>2, <3>4
    <3>6. QED  BY <1>4, <3>1, <3>2, <3>3, <3>5
  <2>3. QED  BY <2>1, <2>2
<1>10. ApplyInv'
  BY <1>9 DEF ApplyInv
<1>11. LostInv'
  BY <1>5 DEF LostInv
<1>12. QED  BY <1>8, <1>10, <1>11 DEF Whole

\* Writing a summary.
LEMMA WriteWhole ==
    ASSUME Base, PassInv, Whole, stale = "no", NEW s \in Scenes,
           ArchiveSummary(s) \/ ExtractKeywords(s) \/ CreateFusedTopic(s)
    PROVE  Whole'
<1> USE DEF Still
<1>0. WorkType /\ TopicType
  BY DEF Base
<1>1. workers[s].at \in {"archive", "keywords", "create"} /\ Still
  BY <1>0, ArchiveFacts, KeywordsFacts, CreateFacts
<1>2. /\ Busy(s) /\ workers[s].then = "pick" /\ Parent(s) = ComputeFusedTopicID(workers[s].group)
      /\ Parent(s) \notin DOMAIN topics
      /\ workers[s].at # "archive" => Parent(s) \in content
  BY <1>0, <1>1, WorkerFields DEF Base, GroupInv, Busy, Undone, Resting, Parent
<1>3. \A u \in DOMAIN topics : topics[u].parent # Parent(s)
  BY <1>2, NothingHangs
<1>4. CASE ArchiveSummary(s)
  <2>1. workers[s].at = "archive" /\ topics' = topics /\ lost' = lost
    BY <1>0, <1>4, ArchiveFacts
  <2>2. Parent(s) \notin content
    BY <1>2, <2>1 DEF Whole, ApplyInv
  <2>3. CASE /\ content' = content \cup {Parent(s)}
             /\ Moved(s, "keywords", workers[s].group, workers[s].claimed, "pick")
    BY <1>2, <2>1, <2>3, RestWhole DEF Resting
  <2>4. CASE content' = content /\ Moved(s, "off", {}, {}, "pick")
    BY <1>2, <2>1, <2>2, <2>4, RestWhole DEF Resting
  <2>5. QED  BY <1>0, <1>4, <2>3, <2>4, ArchiveFacts
<1>5. ASSUME topics' = topics, content' = content, workers[s].at # "archive",
             NEW a \in {"create", "discard"}, NEW t,
             Moved(s, a, workers[s].group, workers[s].claimed, t)
      PROVE  Whole'
  <2>1. a \notin Resting /\ a \notin {"archive", "sink", "discardContent"}
    BY <1>5 DEF Resting
  <2>2. QED  BY <1>1, <1>2, <1>3, <1>5, <2>1, RestWhole
<1>6. CASE ExtractKeywords(s)
  BY <1>0, <1>5, <1>6, KeywordsFacts
<1>7. CASE CreateFusedTopic(s)
  <2>1. workers[s].at = "create" /\ content' = content
    BY <1>0, <1>7, CreateFacts
  <2>2. CASE /\ topics' = Put(topics, Parent(s), NewTopic(s))
             /\ Moved(s, "sink", workers[s].group, workers[s].claimed, "pick")
    <3>1. /\ DOMAIN topics' = DOMAIN topics \cup {Parent(s)}
          /\ \A u \in DOMAIN topics : u # Parent(s) => topics'[u] = topics[u]
          /\ topics'[Parent(s)].parent = None
      BY <1>0, <2>2, PutTopicType
    <3>2. workers[s].group \subseteq DOMAIN topics /\ Parent(s) \notin workers[s].group
      BY <1>2, PassOwn
    <3>3. \A r \in Scenes : Busy(r) => Parent(r) \notin workers[s].group
      BY <1>2, PassOwn
    <3>4. Parent(s) \notin lost
      BY <1>2, <3>2, FusedIds DEF Whole, LostInv
    <3>5. \A u \in DOMAIN topics' :
             topics'[u].parent = None \/ (u \in DOMAIN topics /\ topics'[u].parent = topics[u].parent)
      <4> SUFFICES ASSUME NEW u \in DOMAIN topics'
                   PROVE  topics'[u].parent = None
                             \/ (u \in DOMAIN topics /\ topics'[u].parent = topics[u].parent)
        OBVIOUS
      <4>1. CASE u = Parent(s)
        BY <3>1, <4>1
      <4>2. CASE u # Parent(s)
        BY <3>1, <4>2
      <4>3. QED  BY <4>1, <4>2
    <3>6. Keeps(s, "sink", {Parent(s)}, {})
      BY <1>2, <2>1, <3>1, <3>2, <3>3, <3>4, <3>5 DEF Keeps
    <3>7. PICK new, old : new = {Parent(s)} /\ old = {}
      OBVIOUS
    <3>8. "sink" \notin Resting /\ Keeps(s, "sink", new, old)
      BY <3>6, <3>7, Zenon DEF Resting
    <3>9. QED  BY <1>1, <1>2, <2>1, <2>2, <3>8, KeepsWhole
  <2>3. CASE topics' = topics /\ Moved(s, "discard", workers[s].group, workers[s].claimed, "failed")
    BY <1>5, <2>1, <2>3
  <2>4. QED  BY <1>0, <1>7, <2>2, <2>3, CreateFacts
<1>8. QED  BY <1>4, <1>6, <1>7

\* A group that is in the tree was never deleted.
LEMMA GroupNotLost ==
    ASSUME Base, PassInv, Whole, stale = "no", NEW s \in Scenes, Busy(s)
    PROVE  Parent(s) \notin lost /\ workers[s].group \subseteq DOMAIN topics
<1>1. workers[s].group \subseteq DOMAIN topics
  BY PassOwn
<1>2. QED  BY <1>1, FusedIds DEF Whole, LostInv, Parent

\* Rolling a group back.
LEMMA RollbackWhole ==
    ASSUME Base, PassInv, Whole, stale = "no", NEW s \in Scenes, ~torn',
           RestoreSunkTopics(s) \/ DiscardTopic(s) \/ DiscardContent(s)
    PROVE  Whole'
<1> USE DEF Still
<1>0. WorkType /\ TopicType
  BY DEF Base
<1>1. workers[s].at \in {"restore", "discard", "discardContent"} /\ Still
  BY <1>0, RestoreFacts, DiscardFacts, DiscardContentFacts
<1>2. Busy(s) /\ Parent(s) = ComputeFusedTopicID(workers[s].group)
  BY <1>1 DEF Busy, Resting, Parent
<1>3. IsFused(Parent(s)) /\ MembersOf(Parent(s)) = workers[s].group /\ Parent(s) # None
  BY <1>2, FusedIds
<1>4. Parent(s) \notin lost
  BY <1>2, GroupNotLost
<1>5. CASE RestoreSunkTopics(s)
  <2>1. /\ content' = content /\ topics' = Restored(Hanging(s))
        /\ Moved(s, "discard", workers[s].group, workers[s].claimed, "failed")
    BY <1>0, <1>5, RestoreFacts
  <2>2. PICK S : S = Hanging(s)
    OBVIOUS
  <2>3. topics' = Restored(S)
    BY <2>1, <2>2, Zenon
  <2>4. /\ DOMAIN topics' = DOMAIN topics
        /\ \A u \in DOMAIN topics :
              IF u \in S THEN topics'[u].parent = None /\ topics'[u].depth <= topics[u].depth
                         ELSE topics'[u] = topics[u]
    BY <1>0, <2>3, RestoredTopicType
  <2>5. S \subseteq workers[s].group
    BY <2>2 DEF Hanging, Members
  <2>6. ASSUME NEW u \in DOMAIN topics'  PROVE topics'[u].parent # Parent(s)
    <3>1. CASE u \in S
      BY <1>3, <2>4, <3>1
    <3>2. CASE u \notin S
      <4>1. topics'[u] = topics[u] /\ u \in DOMAIN topics
        BY <2>4, <2>6, <3>2
      <4>2. topics[u].parent = Parent(s) => u \in workers[s].group
        BY <1>0, <1>3, <4>1 DEF TopicType
      <4>3. QED  BY <2>2, <3>2, <4>1, <4>2 DEF Hanging, Members
    <3>3. QED  BY <3>1, <3>2
  <2>7. \A u \in DOMAIN topics' :
           topics'[u].parent = None \/ (u \in DOMAIN topics /\ topics'[u].parent = topics[u].parent)
    <3> SUFFICES ASSUME NEW u \in DOMAIN topics'
                 PROVE  topics'[u].parent = None
                           \/ (u \in DOMAIN topics /\ topics'[u].parent = topics[u].parent)
      OBVIOUS
    <3>1. CASE u \in S
      BY <2>4, <3>1
    <3>2. CASE u \notin S
      BY <2>4, <3>2
    <3>3. QED  BY <3>1, <3>2
  <2>8. "discard" \notin Resting /\ Keeps(s, "discard", {}, {})
    BY <1>4, <2>4, <2>5, <2>6, <2>7 DEF Keeps, Resting
  <2>9. QED  BY <1>1, <1>2, <2>1, <2>8, KeepsWhole
<1>6. CASE DiscardTopic(s)
  <2>1. /\ workers[s].at = "discard" /\ content' = content /\ topics' = Drop(topics, {Parent(s)})
        /\ Moved(s, "discardContent", workers[s].group, workers[s].claimed, workers[s].then)
    BY <1>0, <1>6, DiscardFacts
  <2>2. PICK old : old = {Parent(s)}
    OBVIOUS
  <2>3. topics' = Drop(topics, old)
    BY <2>1, <2>2, Zenon
  <2>4. DOMAIN topics' = DOMAIN topics \ old /\ \A u \in DOMAIN topics' : topics'[u] = topics[u]
    BY <1>0, <2>3, DropTopicType, Zenon
  <2>5. \A u \in DOMAIN topics : topics[u].parent # Parent(s)
    BY <1>2, <2>1 DEF Whole, ApplyInv
  <2>6. "discardContent" \notin Resting /\ Keeps(s, "discardContent", {}, old)
    BY <1>4, <2>2, <2>4, <2>5 DEF Keeps, Resting
  <2>7. PICK t : t = workers[s].then
    OBVIOUS
  <2>8. QED  BY <1>1, <1>2, <2>1, <2>6, <2>7, KeepsWhole
<1>7. CASE DiscardContent(s)
  <2>1. workers[s].at = "discardContent" /\ topics' = topics /\ content' = content \ {Parent(s)}
    BY <1>0, <1>7, DiscardContentFacts
  <2>2. Parent(s) \notin DOMAIN topics
    BY <1>2, <2>1 DEF Whole, ApplyInv
  <2>3. CASE Moved(s, "off", {}, {}, "pick")
    BY <1>1, <1>2, <2>1, <2>2, <2>3, RestWhole DEF Resting
  <2>4. CASE Moved(s, "pick", {}, workers[s].claimed, "pick")
    BY <1>1, <1>2, <2>1, <2>2, <2>4, RestWhole DEF Resting
  <2>5. QED  BY <1>0, <1>7, <2>3, <2>4, DiscardContentFacts
<1>8. QED  BY <1>5, <1>6, <1>7

\* The members of a group sink: the group is applied.
LEMMA SinkWhole ==
    ASSUME Base, PassInv, Whole, stale = "no", NEW s \in Scenes,
           CompressTopics(s) \/ CompressDeletes(s)
    PROVE  Whole'
<1> USE DEF Still
<1>0. WorkType /\ TopicType
  BY DEF Base
<1>1. CompressTopics(s) /\ workers[s].at = "sink" /\ Still /\ content' = content
  BY <1>0, CompressFacts, CompressDeletesFacts, PassOwn
<1>2. Busy(s) /\ Parent(s) = ComputeFusedTopicID(workers[s].group)
  BY <1>1 DEF Busy, Resting, Parent
<1>3. Parent(s) \in DOMAIN topics /\ Parent(s) \in content
  BY <1>1, <1>2 DEF Whole, ApplyInv, Base, GroupInv
<1>4. CASE topics' = topics /\ Moved(s, "restore", workers[s].group, workers[s].claimed, "failed")
  BY <1>1, <1>2, <1>3, <1>4, RestWhole DEF Resting
<1>5. CASE /\ topics' = [t \in DOMAIN topics |->
                           IF t \in Members(s) \ Bottomed(s) THEN Sunk(s, t) ELSE topics[t]]
           /\ Bottomed(s) = {}
           /\ Moved(s, "pick", {}, workers[s].claimed \cup workers[s].group, "pick")
  <2>1. /\ DOMAIN topics' = DOMAIN topics
        /\ \A u \in DOMAIN topics :
              IF u \in workers[s].group
              THEN topics'[u].depth = topics[u].depth + 1 /\ topics'[u].parent = Parent(s)
              ELSE topics'[u] = topics[u]
    BY <1>0, <1>5, SunkTopicType DEF Members
  <2>2. /\ \A r \in Scenes : r # s => /\ (Busy(r)' <=> Busy(r)) /\ Parent(r)' = Parent(r)
                                      /\ workers'[r] = workers[r]
        /\ ~Busy(s)'
        /\ \A f : InFlight(f)' <=> \E r \in Scenes \ {s} : Busy(r) /\ f = Parent(r)
    BY <1>5, FlightMoves DEF Resting
  <2>3. \A r \in Scenes : r # s /\ Busy(r) => Parent(r) # Parent(s)
    BY <1>2, ApartFrom DEF Base
  <2>4. MembersOf(Parent(s)) = workers[s].group
    BY <1>2, FusedIds
  <2>5. \A f : InFlight(f) => InFlight(f)' \/ f = Parent(s)
    BY <2>2 DEF InFlight
  <2>6. \A f \in Summaries \ {Parent(s)} : workers[s].group \cap MembersOf(f) = {}
    BY <1>2 DEF Whole, ApplyInv
  <2>7. Summaries' = Summaries
    BY <2>1 DEF Summaries
  <2>8. SummaryInv'
    <3>1. ASSUME NEW f \in Summaries
          PROVE  /\ MembersOf(f) # {} /\ f \in content' /\ MembersOf(f) \subseteq DOMAIN topics' \cup lost'
                 /\ ~InFlight(f)' => \A u \in MembersOf(f) \cap DOMAIN topics' :
                                        topics'[u].depth > 1 /\ topics'[u].parent = f
      <4>1. /\ MembersOf(f) # {} /\ f \in content /\ MembersOf(f) \subseteq DOMAIN topics \cup lost
            /\ ~InFlight(f) => \A u \in MembersOf(f) \cap DOMAIN topics :
                                  topics[u].depth > 1 /\ topics[u].parent = f
        BY DEF Whole, SummaryInv
      <4>2. ASSUME ~InFlight(f)', NEW u \in MembersOf(f) \cap DOMAIN topics'
            PROVE  topics'[u].depth > 1 /\ topics'[u].parent = f
        <5>1. CASE f = Parent(s)
          <6>1. topics'[u].depth = topics[u].depth + 1 /\ topics'[u].parent = f
            BY <2>1, <2>4, <4>2, <5>1
          <6>2. topics[u].depth \in Int /\ topics[u].depth >= 1
            BY <1>0, <2>1, <4>2, ConstantsOK DEF TopicType, IsSlot
          <6>3. QED  BY <6>1, <6>2
        <5>2. CASE f # Parent(s)
          BY <2>1, <2>5, <2>6, <4>1, <4>2, <5>2
        <5>3. QED  BY <5>1, <5>2
      <4>3. QED  BY <1>1, <2>1, <4>1, <4>2
    <3>2. ASSUME NEW f \in content', IsFused(f)  PROVE f \in DOMAIN topics' \/ InFlight(f)'
      <4>1. f \in DOMAIN topics \/ InFlight(f)
        BY <1>1, <3>2 DEF Whole, SummaryInv
      <4>2. QED  BY <1>3, <2>1, <2>5, <4>1
    <3>3. ASSUME NEW u \in DOMAIN topics'  PROVE topics'[u].parent \in DOMAIN topics' \cup {None}
      <4>1. topics[u].parent \in DOMAIN topics \cup {None}
        BY <2>1 DEF Whole, SummaryInv
      <4>2. QED  BY <1>3, <2>1, <4>1
    <3>4. QED  BY <2>7, <3>1, <3>2, <3>3 DEF SummaryInv
  <2>9. ASSUME NEW r \in Scenes, Busy(r)'
        PROVE  /\ \A f \in Summaries : Parent(r)' \notin MembersOf(f)
               /\ \A f \in Summaries \ {Parent(r)'} : workers'[r].group \cap MembersOf(f) = {}
               /\ workers'[r].at = "archive" => Parent(r)' \notin content'
               /\ workers'[r].at = "sink" => Parent(r)' \in DOMAIN topics'
               /\ workers'[r].at = "discard" => \A u \in DOMAIN topics' : topics'[u].parent # Parent(r)'
               /\ workers'[r].at = "discardContent" => Parent(r)' \notin DOMAIN topics'
    <3>1. Busy(r) /\ Parent(r)' = Parent(r) /\ workers'[r] = workers[r] /\ Parent(r) # Parent(s)
      BY <2>2, <2>3, <2>9
    <3>2. /\ \A f \in Summaries : Parent(r) \notin MembersOf(f)
          /\ \A f \in Summaries \ {Parent(r)} : workers[r].group \cap MembersOf(f) = {}
          /\ workers[r].at = "archive" => Parent(r) \notin content
          /\ workers[r].at = "sink" => Parent(r) \in DOMAIN topics
          /\ workers[r].at = "discard" => \A u \in DOMAIN topics : topics[u].parent # Parent(r)
          /\ workers[r].at = "discardContent" => Parent(r) \notin DOMAIN topics
      BY <3>1 DEF Whole, ApplyInv
    <3>3. workers[r].at = "discard" => \A u \in DOMAIN topics' : topics'[u].parent # Parent(r)
      BY <2>1, <3>1, <3>2
    <3>4. QED  BY <1>1, <2>1, <3>1, <3>2, <3>3
  <2>10. ApplyInv'
    BY <2>7, <2>9 DEF ApplyInv
  <2>11. LostInv'
    BY <1>1, <2>1 DEF Whole, LostInv
  <2>12. QED  BY <2>8, <2>10, <2>11 DEF Whole
<1>6. Bottomed(s) = {}
  <2>1. workers[s].then = "pick"
    BY <1>0, <1>1, WorkerFields
  <2>2. ASSUME NEW u \in Members(s)  PROVE ~(topics[u].depth + 1 >= MaxDepth)
    <3>1. topics[u] = meta[u] /\ topics[u].depth <= 1
      BY <1>1, <1>2, <2>1, PassOwn DEF Members
    <3>2. topics[u].depth \in Int
      BY <1>0, ConstantsOK DEF TopicType, IsSlot, Members
    <3>3. QED  BY <3>1, <3>2, ConstantsOK
  <2>3. QED  BY <2>2 DEF Bottomed
<1>7. QED  BY <1>0, <1>1, <1>4, <1>5, <1>6, CompressFacts, Zenon

\* While no goroutine holds a group, only the summaries and the deleted topics
\* matter.
LEMMA QuietWhole ==
    ASSUME \A s \in Scenes : ~Busy(s)', LostInv',
           \A f \in Summaries' :
              /\ MembersOf(f) # {} /\ f \in content' /\ MembersOf(f) \subseteq DOMAIN topics' \cup lost'
              /\ \A u \in MembersOf(f) \cap DOMAIN topics' : topics'[u].depth > 1 /\ topics'[u].parent = f,
           \A f \in content' : IsFused(f) => f \in DOMAIN topics',
           \A u \in DOMAIN topics' : topics'[u].parent \in DOMAIN topics' \cup {None}
    PROVE  Whole'
  BY DEF Whole, SummaryInv, ApplyInv

\* What is known of them then.
LEMMA QuietFacts ==
    ASSUME Whole, \A s \in Scenes : ~Busy(s)
    PROVE  /\ \A f \in Summaries :
                 /\ MembersOf(f) # {} /\ f \in content /\ MembersOf(f) \subseteq DOMAIN topics \cup lost
                 /\ \A u \in MembersOf(f) \cap DOMAIN topics : topics[u].depth > 1 /\ topics[u].parent = f
           /\ \A f \in content : IsFused(f) => f \in DOMAIN topics
           /\ \A u \in DOMAIN topics : topics[u].parent \in DOMAIN topics \cup {None}
           /\ LostInv
<1>1. \A f : ~InFlight(f)
  BY DEF InFlight
<1>2. QED  BY <1>1 DEF Whole, SummaryInv

\* The set a deletion takes is closed under children.
LEMMA ClosureIsClosed ==
    ASSUME NEW t, NEW u \in DOMAIN topics, topics[u].parent # None,
           topics[u].parent \in TopicClosure(t)
    PROVE  u \in TopicClosure(t)
<1> DEFINE Hung      == {x \in DOMAIN topics : topics[x].parent # None}
           Closed(S) == \A x \in Hung : topics[x].parent \in S \cup {t} => x \in S
<1>1. u \in Hung
  OBVIOUS
<1>2. TopicClosure(t) = {t} \cup {x \in Hung : \A S \in SUBSET Hung : Closed(S) => x \in S}
  BY DEF TopicClosure
<1>3. ASSUME NEW S \in SUBSET Hung, Closed(S)  PROVE u \in S
  <2>1. topics[u].parent \in S \cup {t}
    BY <1>2, <1>3
  <2>2. QED  BY <1>1, <1>3, <2>1
<1> HIDE DEF Hung, Closed
<1>4. QED  BY <1>1, <1>2, <1>3

\* A settled turn was never deleted before, so it is a member of no summary
\* that lost it.
LEMMA CreateTurnWhole ==
    ASSUME Base, Base', Whole, NEW s \in Scenes, NEW n \in Turns[s],
           CreateTurnTopic(s, ComputeTurnTopicID(n))
    PROVE  Whole'
<1>1. PICK t : t = ComputeTurnTopicID(n)
  OBVIOUS
<1> DEFINE row == IF t \in DOMAIN topics THEN topics[t] ELSE NewTopic(s)
<1>2. /\ pass = "idle" /\ pass' = "idle" /\ (t = turn \/ t \notin opened)
      /\ topics' = Put(topics, t, row) /\ content' = content \cup {t} /\ lost' = lost
  BY <1>1 DEF CreateTurnTopic
<1>3. t \in TurnTopics /\ t # None /\ ~IsFused(t)
  BY <1>1, TurnIds DEF TurnTopics
<1>4. t \notin lost
  BY <1>2, <1>3 DEF Base, TurnInv
<1>5. t \notin DOMAIN topics => row.parent = None
  BY DEF NewTopic
<1>6. t \in DOMAIN topics => row = topics[t]
  OBVIOUS
<1> HIDE DEF row
<1>7. /\ DOMAIN topics' = DOMAIN topics \cup {t} /\ topics'[t] = row
      /\ \A u \in DOMAIN topics : topics'[u] = topics[u]
  BY <1>2, <1>6 DEF Put
<1>8. (\A r \in Scenes : ~Busy(r)) /\ (\A r \in Scenes : ~Busy(r)')
  BY <1>2, OffIsWorker DEF Base, WorkType, Busy, Resting
<1>9. /\ \A f \in Summaries :
            /\ MembersOf(f) # {} /\ f \in content /\ MembersOf(f) \subseteq DOMAIN topics \cup lost
            /\ \A u \in MembersOf(f) \cap DOMAIN topics : topics[u].depth > 1 /\ topics[u].parent = f
      /\ \A f \in content : IsFused(f) => f \in DOMAIN topics
      /\ \A u \in DOMAIN topics : topics[u].parent \in DOMAIN topics \cup {None}
      /\ LostInv
  BY <1>8, QuietFacts
<1>10. Summaries' = Summaries
  BY <1>3, <1>7 DEF Summaries
<1>11. ASSUME NEW f \in Summaries'
       PROVE  /\ MembersOf(f) # {} /\ f \in content' /\ MembersOf(f) \subseteq DOMAIN topics' \cup lost'
              /\ \A u \in MembersOf(f) \cap DOMAIN topics' : topics'[u].depth > 1 /\ topics'[u].parent = f
  <2>1. t \in MembersOf(f) => t \in DOMAIN topics
    BY <1>4, <1>9, <1>10
  <2>2. QED  BY <1>2, <1>7, <1>9, <1>10, <2>1
<1>12. \A f \in content' : IsFused(f) => f \in DOMAIN topics'
  BY <1>2, <1>3, <1>7, <1>9
<1>13. \A u \in DOMAIN topics' : topics'[u].parent \in DOMAIN topics' \cup {None}
  BY <1>5, <1>7, <1>9
<1>14. LostInv'
  BY <1>2, <1>4, <1>7, <1>9 DEF LostInv
<1>15. QED  BY <1>8, <1>11, <1>12, <1>13, <1>14, QuietWhole

\* A deletion takes what hangs below the topic, so no child loses its summary,
\* and a deleted summary loses a member.
LEMMA DeleteWhole ==
    ASSUME Base, Base', Whole, NEW t \in DOMAIN topics, DeleteTopic(t)
    PROVE  Whole'
<1>1. PICK gone : gone = TopicClosure(t)
  OBVIOUS
<1>2. /\ pass = "idle" /\ pass' = "idle" /\ topics' = Drop(topics, gone)
      /\ content' = content \ gone /\ lost' = lost \cup gone
  BY <1>1 DEF DeleteTopic
<1>3. DOMAIN topics' = DOMAIN topics \ gone /\ \A u \in DOMAIN topics' : topics'[u] = topics[u]
  BY <1>2 DEF Drop
<1>4. gone \subseteq DOMAIN topics
  BY <1>1 DEF TopicClosure
<1>5. \A u \in DOMAIN topics : topics[u].parent # None /\ topics[u].parent \in gone => u \in gone
  BY <1>1, ClosureIsClosed
<1>6. (\A r \in Scenes : ~Busy(r)) /\ (\A r \in Scenes : ~Busy(r)')
  BY <1>2, OffIsWorker DEF Base, WorkType, Busy, Resting
<1>7. /\ \A f \in Summaries :
            /\ MembersOf(f) # {} /\ f \in content /\ MembersOf(f) \subseteq DOMAIN topics \cup lost
            /\ \A u \in MembersOf(f) \cap DOMAIN topics : topics[u].depth > 1 /\ topics[u].parent = f
      /\ \A f \in content : IsFused(f) => f \in DOMAIN topics
      /\ \A u \in DOMAIN topics : topics[u].parent \in DOMAIN topics \cup {None}
      /\ LostInv
  BY <1>6, QuietFacts
<1>8. ASSUME NEW f \in Summaries'
      PROVE  /\ MembersOf(f) # {} /\ f \in content' /\ MembersOf(f) \subseteq DOMAIN topics' \cup lost'
             /\ \A u \in MembersOf(f) \cap DOMAIN topics' : topics'[u].depth > 1 /\ topics'[u].parent = f
  <2>1. f \in Summaries /\ f \notin gone
    BY <1>3 DEF Summaries
  <2>2. QED  BY <1>2, <1>3, <1>7, <2>1
<1>9. \A f \in content' : IsFused(f) => f \in DOMAIN topics'
  BY <1>2, <1>3, <1>7
<1>10. ASSUME NEW u \in DOMAIN topics'  PROVE topics'[u].parent \in DOMAIN topics' \cup {None}
  BY <1>3, <1>5, <1>7
<1>11. ASSUME NEW f \in lost', IsFused(f)  PROVE MembersOf(f) \cap lost' # {}
  <2>1. CASE f \in lost
    BY <1>2, <1>7, <1>11, <2>1 DEF LostInv
  <2>2. CASE f \in gone
    <3>1. f \in Summaries /\ f # None
      BY <1>4, <1>11, <2>2 DEF Summaries, IsFused, None
    <3>2. PICK m : m \in MembersOf(f)
      BY <1>7, <3>1
    <3>3. m \in lost \/ (m \in DOMAIN topics /\ topics[m].parent = f)
      BY <1>7, <3>1, <3>2
    <3>4. m \in lost'
      BY <1>2, <1>5, <2>2, <3>1, <3>3
    <3>5. QED  BY <3>2, <3>4
  <2>3. QED  BY <1>2, <1>11, <2>1, <2>2
<1>12. LostInv'
  BY <1>2, <1>3, <1>7, <1>11 DEF LostInv
<1>13. QED  BY <1>6, <1>8, <1>9, <1>10, <1>12, QuietWhole

\* A pass begins or ends, or a process that held no group dies.
LEMMA PhaseWhole ==
    ASSUME Base, Whole, ~torn',
           (\E S : RunDream(S)) \/ ReturnEarly \/ StructureStages \/ Restart
    PROVE  Whole'
<1>1. topics' = topics /\ content' = content /\ lost' = lost
  BY DEF RunDream, ReturnEarly, StructureStages, Restart, records, history
<1>2. \A r \in Scenes : ~Busy(r)
  <2>1. CASE Restart
    <3>1. \A r \in Scenes : workers[r].group = {}
      BY <2>1 DEF Restart
    <3>2. QED  BY <3>1, WorkerFields DEF Base, Busy
  <2>2. CASE (\E S : RunDream(S)) \/ ReturnEarly \/ StructureStages
    BY <2>2, OffIsWorker DEF RunDream, ReturnEarly, StructureStages, AllDone, Base, WorkType, Busy, Resting
  <2>3. QED  BY <2>1, <2>2
<1>3. \A r \in Scenes : ~Busy(r)'
  <2>1. CASE \E S : RunDream(S)
    <3>1. PICK S : RunDream(S)
      BY <2>1
    <3>2. [Off EXCEPT !.at = "list"] = Rec("list", {}, {}, {}, "pick")
      BY DEF Off, Rec
    <3>3. workers' = [s \in Scenes |-> IF s \in S THEN Rec("list", {}, {}, {}, "pick") ELSE Off]
      BY <3>1, <3>2, Zenon DEF RunDream
    <3>4. \A s \in Scenes : workers'[s] = Off \/ workers'[s] = Rec("list", {}, {}, {}, "pick")
      BY <3>3
    <3>5. QED  BY <3>4, RecFields, OffIsWorker DEF Busy, Resting
  <2>2. CASE ReturnEarly \/ StructureStages
    BY <1>2, <2>2 DEF ReturnEarly, StructureStages, Busy
  <2>3. CASE Restart
    BY <2>3, OffIsWorker DEF Restart, Busy, Resting
  <2>4. QED  BY <2>1, <2>2, <2>3
<1>4. /\ \A f \in Summaries :
            /\ MembersOf(f) # {} /\ f \in content /\ MembersOf(f) \subseteq DOMAIN topics \cup lost
            /\ \A u \in MembersOf(f) \cap DOMAIN topics : topics[u].depth > 1 /\ topics[u].parent = f
      /\ \A f \in content : IsFused(f) => f \in DOMAIN topics
      /\ \A u \in DOMAIN topics : topics[u].parent \in DOMAIN topics \cup {None}
      /\ LostInv
  BY <1>2, QuietFacts
<1>5. Summaries' = Summaries /\ LostInv'
  BY <1>1, <1>4 DEF Summaries, LostInv
<1>6. QED  BY <1>1, <1>3, <1>4, <1>5, QuietWhole

\* Every step keeps it.
LEMMA StepWhole == Base /\ PassInv /\ WholeInv /\ [Next]_vars => WholeInv'
<1> SUFFICES ASSUME Base, PassInv, WholeInv, [Next]_vars, stale' = "no", ~torn'
             PROVE  Whole'
  BY DEF WholeInv, Whole
<1>0. Base'
  BY StepBase
<1>1. CASE UNCHANGED vars
  <2>1. topics' = topics /\ content' = content /\ lost' = lost /\ workers' = workers
        /\ stale = "no" /\ ~torn
    BY <1>1 DEF vars, records, history
  <2>2. Whole /\ Summaries' = Summaries /\ (\A f : InFlight(f)' <=> InFlight(f))
        /\ \A r \in Scenes : (Busy(r)' <=> Busy(r)) /\ Parent(r)' = Parent(r)
    BY <2>1 DEF WholeInv, Whole, Summaries, InFlight, Busy, Parent
  <2>3. SummaryInv'
    BY <2>1, <2>2 DEF Whole, SummaryInv
  <2>4. ApplyInv' /\ LostInv'
    BY <2>1, <2>2 DEF Whole, ApplyInv, LostInv
  <2>5. QED  BY <2>3, <2>4 DEF Whole
<1>2. ASSUME stale = "no", ~torn  PROVE Whole
  BY <1>2 DEF WholeInv, Whole
<1>3. ASSUME NEW s \in Scenes, NEW n \in Turns[s], CreateTurnTopic(s, ComputeTurnTopicID(n))
      PROVE  Whole'
  <2>1. stale = "no" /\ ~torn
    BY <1>3 DEF CreateTurnTopic
  <2>2. QED  BY <1>0, <1>2, <1>3, <2>1, CreateTurnWhole
<1>4. ASSUME NEW t \in DOMAIN topics, DeleteTopic(t)  PROVE Whole'
  <2>1. stale = "no" /\ ~torn
    BY <1>4 DEF DeleteTopic
  <2>2. QED  BY <1>0, <1>2, <1>4, <2>1, DeleteWhole
<1>5. CASE (\E S : RunDream(S)) \/ ReturnEarly \/ StructureStages \/ Restart
  <2>1. stale = "no" /\ ~torn
    <3>1. CASE Restart
      BY <3>1 DEF Restart, Rebuilt
    <3>2. CASE (\E S : RunDream(S)) \/ ReturnEarly \/ StructureStages
      BY <3>2 DEF RunDream, ReturnEarly, StructureStages, Rebuilt, history
    <3>3. QED  BY <1>5, <3>1, <3>2
  <2>2. QED  BY <1>2, <1>5, <2>1, PhaseWhole
<1>6. ASSUME NEW s \in Scenes,
             \/ Consolidate(s) \/ SkipGroup(s) \/ NoMoreGroups(s)
             \/ \E group \in SUBSET ListTopics(s) : PickGroup(s, group)
             \/ ArchiveSummary(s) \/ ExtractKeywords(s) \/ CreateFusedTopic(s)
             \/ CompressTopics(s) \/ CompressDeletes(s)
             \/ RestoreSunkTopics(s) \/ DiscardTopic(s) \/ DiscardContent(s)
      PROVE  Whole'
  <2>1. stale = "no" /\ ~torn
    <3>1. CASE \/ Consolidate(s) \/ SkipGroup(s) \/ NoMoreGroups(s)
               \/ \E group \in SUBSET ListTopics(s) : PickGroup(s, group)
               \/ ArchiveSummary(s) \/ ExtractKeywords(s) \/ CreateFusedTopic(s)
               \/ CompressTopics(s) \/ CompressDeletes(s)
      <4>1. stale' = stale /\ torn' = torn
        BY <3>1 DEF Consolidate, SkipGroup, NoMoreGroups, PickGroup, ArchiveSummary, ExtractKeywords,
                    CreateFusedTopic, CompressTopics, CompressDeletes, history
      <4>2. QED  BY <4>1
    <3>2. CASE RestoreSunkTopics(s) \/ DiscardTopic(s) \/ DiscardContent(s)
      <4>1. stale' = stale /\ (torn' = torn \/ torn' = TRUE)
        BY <3>2 DEF RestoreSunkTopics, DiscardTopic, DiscardContent, RefusesRollback
      <4>2. QED  BY <4>1
    <3>3. QED  BY <1>6, <3>1, <3>2
  <2>2. Whole
    BY <1>2, <2>1
  <2>3. QED  BY <1>6, <2>1, <2>2, PickWhole, WriteWhole, SinkWhole, RollbackWhole
<1>7. QED  BY <1>1, <1>3, <1>4, <1>5, <1>6 DEF Next

\* It holds before anything happened.
LEMMA InitWhole == Init => WholeInv
<1> SUFFICES ASSUME Init PROVE WholeInv
  OBVIOUS
<1>1. \A s \in Scenes : ~Busy(s)
  BY OffIsWorker DEF Init, Busy, Resting
<1>2. DOMAIN topics = {} /\ content = {} /\ lost = {}
  BY DEF Init
<1>3. QED  BY <1>1, <1>2 DEF WholeInv, SummaryInv, ApplyInv, LostInv, Summaries

\* Every group is whole at every step: being applied, applied or rolled back.
THEOREM GroupsAreWhole == Spec => []WholeInv
  BY InitBase, StepBase, InitPass, StepPass, InitWhole, StepWhole, PTL DEF Spec

\* No goroutine holds a group once the scenes are done.
LEMMA DoneIsQuiet ==
    ASSUME Base, pass = "idle" \/ AllDone
    PROVE  \A s \in Scenes : ~Busy(s)
  BY OffIsWorker DEF Base, WorkType, AllDone, Busy, Resting

\* A group is fully applied or leaves nothing behind (applyOneGroup), in every
\* pass that worked from a mirror that held the records, as long as each
\* rollback succeeded and no process died inside a group.
THEOREM GroupsAreAtomic == Spec => []AllOrNothing
<1>1. Base /\ WholeInv => AllOrNothing
  <2> SUFFICES ASSUME Base, WholeInv, pass = "idle" \/ AllDone, ~torn, stale = "no"
               PROVE  /\ \A f \in DOMAIN topics : IsFused(f) =>
                            /\ f \in content
                            /\ \A t \in MembersOf(f) \cap DOMAIN topics : topics[t].depth > 1
                      /\ \A f \in content : f \in DOMAIN topics \/ ~ IsFused(f)
                      /\ \A t \in DOMAIN topics : topics[t].parent \in DOMAIN topics \cup {None}
    BY DEF AllOrNothing
  <2>1. Whole
    BY DEF WholeInv, Whole
  <2>2. QED  BY <2>1, DoneIsQuiet, QuietFacts DEF Summaries
<1>2. QED  BY <1>1, BaseInvariance, GroupsAreWhole, PTL

\* No topic is claimed by two summaries, whichever passes wrote them
\* (applyGroups), under the same conditions.
THEOREM ChildrenStay == Spec => []ClaimedOnce
<1>1. Base /\ WholeInv => ClaimedOnce
  <2> SUFFICES ASSUME Base, WholeInv, pass = "idle" \/ AllDone, ~torn, stale = "no"
               PROVE  \A f \in DOMAIN topics : IsFused(f) =>
                         \A t \in MembersOf(f) \cap DOMAIN topics : topics[t].parent = f
    BY DEF ClaimedOnce, NoSecondClaim, SummariesKeepTheirChildren
  <2>1. Whole
    BY DEF WholeInv, Whole
  <2>2. QED  BY <2>1, DoneIsQuiet, QuietFacts DEF Summaries
<1>2. QED  BY <1>1, BaseInvariance, GroupsAreWhole, PTL
=============================================================================
