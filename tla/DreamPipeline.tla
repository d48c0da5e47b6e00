--------------------------- MODULE DreamPipeline ---------------------------
(***************************************************************************)
(* The consolidation pass of one domain (Dream): scenes are compressed in  *)
(* parallel, a group of topics sinking under a summary topic; the mirror   *)
(* of the topic records is rebuilt afterwards.  The pass holds the domain  *)
(* lock, so turns are settled and topics deleted between passes only; any  *)
(* batch may be refused by the engine, any answer of the model may be      *)
(* unusable, and the process may die at every point.                       *)
(*                                                                         *)
(* Source: internal/dream.go, dream/compress.go, dream/structure.go,       *)
(* repo/l2layer.go, repo/l2layer_topic.go, cap/llmops/consolidate.go.      *)
(***************************************************************************)
EXTENDS Integers, FiniteSets

CONSTANTS
    Turns,      \* scene -> its turns, one topic each
    MinTopics,  \* DreamCompressMinTopics
    Fanout,     \* compressFanout
    MaxDepth,   \* depth at which a sinking topic is deleted
    MaxPasses,  \* bound: passes
    MaxTrouble, \* bound: batches the engine refuses, and restarts
    RollbackFails \* may a rollback's own write be refused

Scenes == DOMAIN Turns

\* A topic id hashes a key with a namespace in front: the pair of both stands
\* for it.  A summary's key names its scene, its bounds and its members; the
\* set of members stands for it.
ComputeTurnTopicID(n)      == <<"turn", n>>
ComputeFusedTopicID(group) == <<"fused", group>>
None        == <<"none", {}>>
TurnTopics  == {ComputeTurnTopicID(n) : n \in UNION {Turns[s] : s \in Scenes}}
IsFused(id) == id[1] = "fused"
MembersOf(f) == f[2]

ASSUME ConstantsOK ==
    /\ \A s, r \in Scenes : s # r => Turns[s] \cap Turns[r] = {}
    /\ MinTopics \in Nat /\ Fanout \in Nat \ {0}
    /\ MaxDepth \in Nat /\ MaxDepth > 2
    /\ MaxPasses \in Nat /\ MaxTrouble \in Nat
    /\ RollbackFails \in BOOLEAN

VARIABLES
    topics,   \* L2 topic records: id -> [scene, depth, parent]
    content,  \* topics that own L4 content, by record and by mirror
    meta,     \* L2MetaIndex
    turn,     \* Context.Turn, the topic the open turn settles into
    workers,  \* scene -> the goroutine that compresses it
    pass,     \* "idle" or "compress"
    got,      \* what the goroutines report: applied, unusable, failed
    passes,
    trouble,
    opened,   \* history: turns opened so far
    lost,     \* history: topics the host deleted
    torn,     \* history: a rollback failed, or the process died inside a group
    stale     \* history: does the mirror lag behind an abandoned pass

records == <<topics, content>>
bounds  == <<passes, trouble>>
history == <<turn, opened, lost, torn, stale>>
vars    == <<records, meta, workers, pass, got, bounds, history>>

Put(f, k, v) == [x \in DOMAIN f \cup {k} |-> IF x = k THEN v ELSE f[x]]
Drop(f, K)   == [x \in DOMAIN f \ K |-> f[x]]

\* The turns the host settled and did not delete.
kept == opened \ lost

Off       == [at |-> "off", group |-> {}, doomed |-> {}, claimed |-> {}, then |-> "pick"]
NoResult  == [applied |-> FALSE, unusable |-> FALSE, failed |-> FALSE]
NewTopic(s) == [scene |-> s, depth |-> 1, parent |-> None]

Init ==
    /\ topics = [t \in {} |-> None] /\ content = {} /\ meta = topics
    /\ workers = [s \in Scenes |-> Off] /\ pass = "idle" /\ got = NoResult
    /\ passes = 0 /\ trouble = 0
    /\ turn = None /\ opened = {} /\ lost = {} /\ torn = FALSE /\ stale = "no"

(***************************************************************************)
(* Between passes.                                                         *)
(***************************************************************************)
\* A turn is opened once; settled again it keeps the place a Dream gave it.
\* Either way the topic's row is refreshed from the record.
CreateTurnTopic(s, t) ==
    LET row == IF t \in DOMAIN topics THEN topics[t] ELSE NewTopic(s) IN
    /\ pass = "idle" /\ (t = turn \/ t \notin opened)
    /\ turn' = t /\ opened' = opened \cup {t}
    /\ topics' = Put(topics, t, row) /\ meta' = Put(meta, t, row)
    /\ content' = content \cup {t}
    /\ UNCHANGED <<workers, pass, got, bounds, lost, torn, stale>>

\* A topic and all that hangs below it: the least set that holds the topic and
\* every child of what it holds.
TopicClosure(root) ==
    LET Hung      == {t \in DOMAIN topics : topics[t].parent # None}
        Closed(S) == \A t \in Hung : topics[t].parent \in S \cup {root} => t \in S
    IN  {root} \cup {t \in Hung : \A S \in SUBSET Hung : Closed(S) => t \in S}

DeleteTopic(t) ==
    LET gone == TopicClosure(t) IN
    /\ pass = "idle" /\ t \in DOMAIN topics
    /\ topics' = Drop(topics, gone) /\ meta' = Drop(meta, gone)
    /\ content' = content \ gone /\ lost' = lost \cup gone
    /\ turn' = IF turn \in gone THEN None ELSE turn
    /\ UNCHANGED <<workers, pass, got, bounds, opened, torn, stale>>

(***************************************************************************)
(* A pass over one scene or over all of them.                              *)
(***************************************************************************)
RunDream(S) ==
    /\ pass = "idle" /\ passes < MaxPasses
    /\ pass' = "compress" /\ passes' = passes + 1 /\ got' = NoResult
    /\ workers' = [s \in Scenes |-> IF s \in S THEN [Off EXCEPT !.at = "list"] ELSE Off]
    /\ UNCHANGED <<records, meta, trouble, history>>

Working == {s \in Scenes : workers[s].at \notin {"off", "list"}}
Go(s, w) == workers' = [workers EXCEPT ![s] = w]
Step(s, at) == Go(s, [workers[s] EXCEPT !.at = at])

\* Mutant: topics that sank already are listed again.
ListTopics_AnyDepth(s) == {t \in DOMAIN meta : meta[t].scene = s}

\* The listing a pass works from is the mirror's, not the records'.
ListTopics(s) == {t \in DOMAIN meta : meta[t].scene = s /\ meta[t].depth <= 1}

\* Too few topics, or the model asked.
Consolidate(s) ==
    /\ workers[s].at = "list" /\ Cardinality(Working) < Fanout
    /\ \/ Cardinality(ListTopics(s)) < MinTopics /\ Go(s, Off) /\ UNCHANGED got
       \/ /\ Cardinality(ListTopics(s)) >= MinTopics
          /\ \/ Step(s, "pick") /\ UNCHANGED got
             \/ Go(s, Off) /\ got' = [got EXCEPT !.unusable = TRUE]
    /\ UNCHANGED <<records, meta, pass, bounds, history>>

\* Mutant: a claimed topic may be claimed again.
SharesMember_Unchecked(group, claimed) == FALSE

SharesMember(group, claimed) == group \cap claimed # {}

\* The next group the model proposed.  One that names a single topic, a
\* claimed one or one outside the listing, has no summary, or is stored
\* already, is counted and skipped.
PickGroup(s, group) ==
    /\ workers[s].at = "pick"
    /\ group \subseteq ListTopics(s) /\ Cardinality(group) >= 2
    /\ ~ SharesMember(group, workers[s].claimed)
    /\ ComputeFusedTopicID(group) \notin DOMAIN topics
    /\ Go(s, [workers[s] EXCEPT !.at = "archive", !.group = group])
    /\ UNCHANGED <<records, meta, pass, got, bounds, history>>

SkipGroup(s) ==
    /\ workers[s].at = "pick"
    /\ got' = [got EXCEPT !.unusable = TRUE]
    /\ UNCHANGED <<records, meta, workers, pass, bounds, history>>

NoMoreGroups(s) ==
    /\ workers[s].at = "pick" /\ Go(s, Off)
    /\ UNCHANGED <<records, meta, pass, got, bounds, history>>

(***************************************************************************)
(* applyOneGroup: summary content, keywords, summary topic, sink.          *)
(***************************************************************************)
Parent(s) == ComputeFusedTopicID(workers[s].group)

\* A batch the engine refuses changes nothing; the group is rolled back from
\* where it stands and the scene's work ends.
Refuses == trouble < MaxTrouble /\ trouble' = trouble + 1
FailScene(s) == Go(s, Off) /\ got' = [got EXCEPT !.failed = TRUE]
Rollback(s, at) == Go(s, [workers[s] EXCEPT !.at = at, !.then = "failed"])

ArchiveSummary(s) ==
    /\ workers[s].at = "archive"
    /\ \/ /\ content' = content \cup {Parent(s)}
          /\ Step(s, "keywords") /\ UNCHANGED <<got, trouble>>
       \/ Refuses /\ FailScene(s) /\ UNCHANGED content
    /\ UNCHANGED <<topics, meta, pass, passes, history>>

\* The model answers, or the group is unusable.
ExtractKeywords(s) ==
    /\ workers[s].at = "keywords"
    /\ \/ Step(s, "create")
       \/ Go(s, [workers[s] EXCEPT !.at = "discard", !.then = "pick"])
    /\ UNCHANGED <<records, meta, pass, got, bounds, history>>

CreateFusedTopic(s) ==
    /\ workers[s].at = "create"
    /\ \/ /\ topics' = Put(topics, Parent(s), NewTopic(s))
          /\ Step(s, "sink") /\ UNCHANGED trouble
       \/ Refuses /\ Rollback(s, "discard") /\ UNCHANGED topics
    /\ UNCHANGED <<content, meta, pass, got, passes, history>>

\* The members still stored, and those of them that sink out of the tree.
Members(s)  == workers[s].group \cap DOMAIN topics

Bottomed(s) == {t \in Members(s) : topics[t].depth + 1 >= MaxDepth}

Sunk(s, t) == [topics[t] EXCEPT !.depth = @ + 1, !.parent = Parent(s)]

Applied(s) ==
    /\ Go(s, [workers[s] EXCEPT !.at = "pick", !.group = {}, !.doomed = {},
                                !.claimed = @ \cup workers[s].group])
    /\ got' = [got EXCEPT !.applied = TRUE]

CompressTopics(s) ==
    /\ workers[s].at = "sink"
    /\ \/ /\ topics' = [t \in DOMAIN topics |->
                          IF t \in Members(s) \ Bottomed(s) THEN Sunk(s, t) ELSE topics[t]]
          /\ \/ Bottomed(s) = {} /\ Applied(s)
             \/ /\ Bottomed(s) # {} /\ UNCHANGED got
                /\ Go(s, [workers[s] EXCEPT !.at = "sinkDelete", !.doomed = Bottomed(s)])
          /\ UNCHANGED trouble
       \/ Refuses /\ Rollback(s, "restore") /\ UNCHANGED <<topics, got>>
    /\ UNCHANGED <<content, meta, pass, passes, history>>

\* What sinks out of the tree leaves its content to the retention sweep.
CompressDeletes(s) ==
    /\ workers[s].at = "sinkDelete"
    /\ \/ topics' = Drop(topics, workers[s].doomed) /\ Applied(s) /\ UNCHANGED trouble
       \/ Refuses /\ Rollback(s, "restore") /\ UNCHANGED <<topics, got>>
    /\ UNCHANGED <<content, meta, pass, passes, history>>

(***************************************************************************)
(* Rollback: the members come up again, then the summary topic and its     *)
(* content go.  A failing write only warns.                                *)
(***************************************************************************)
Hanging(s) == {t \in Members(s) : topics[t].parent = Parent(s)}
RefusesRollback == RollbackFails /\ Refuses /\ torn' = TRUE

Restored(S) ==
    [t \in DOMAIN topics |->
        IF t \in S THEN [topics[t] EXCEPT !.depth = IF @ > 1 THEN @ - 1 ELSE @, !.parent = None]
                   ELSE topics[t]]

RestoreSunkTopics(s) ==
    /\ workers[s].at = "restore"
    /\ \/ topics' = Restored(Hanging(s)) /\ UNCHANGED <<trouble, torn>>
       \/ RefusesRollback /\ \E S \in SUBSET Hanging(s) : S # Hanging(s) /\ topics' = Restored(S)
    /\ Step(s, "discard")
    /\ UNCHANGED <<content, meta, pass, got, passes, turn, opened, lost, stale>>

\* Mutant: the rollback leaves the summary topic.
DiscardTopic_Skipped(s) ==
    /\ workers[s].at = "discard"
    /\ topics' = topics
    /\ Step(s, "discardContent")
    /\ UNCHANGED <<content, meta, pass, got, bounds, history>>

DiscardTopic(s) ==
    /\ workers[s].at = "discard"
    /\ \/ topics' = Drop(topics, {Parent(s)}) /\ UNCHANGED <<trouble, torn>>
       \/ RefusesRollback /\ Parent(s) \in DOMAIN topics /\ UNCHANGED topics
    /\ Step(s, "discardContent")
    /\ UNCHANGED <<content, meta, pass, got, passes, turn, opened, lost, stale>>

DiscardContent(s) ==
    LET w == workers[s] IN
    /\ w.at = "discardContent"
    /\ \/ content' = content \ {Parent(s)} /\ UNCHANGED <<trouble, torn>>
       \/ RefusesRollback /\ UNCHANGED content
    /\ \/ w.then = "failed" /\ FailScene(s)
       \/ /\ w.then = "pick" /\ Go(s, [w EXCEPT !.at = "pick", !.group = {}])
          /\ got' = [got EXCEPT !.unusable = TRUE]
    /\ UNCHANGED <<topics, meta, pass, passes, turn, opened, lost, stale>>

(***************************************************************************)
(* The end of the pass.                                                    *)
(***************************************************************************)
AllDone == pass = "compress" /\ \A s \in Scenes : workers[s] = Off

\* An engine refusal, or nothing but unusable answers, ends the pass here.
ReturnEarly ==
    /\ AllDone /\ (got.failed \/ (~ got.applied /\ got.unusable))
    /\ pass' = "idle"
    /\ stale' = IF got.failed THEN "is" ELSE stale
    /\ UNCHANGED <<records, meta, workers, got, bounds, turn, opened, lost, torn>>

Rebuilt == IF stale = "no" THEN "no" ELSE "was"

\* Mutant: a cancelled pass may stop before the mirror is installed.
StructureStages_CancelledFirst ==
    /\ AllDone /\ ~ got.failed /\ (got.applied \/ ~ got.unusable)
    /\ pass' = "idle" /\ meta' \in {meta, topics} /\ stale' = Rebuilt
    /\ UNCHANGED <<records, workers, got, bounds, turn, opened, lost, torn>>

\* The mirror is rebuilt and installed before the first point at which a
\* cancelled pass stops; the L1 stages are module Engrams' subject.
StructureStages ==
    /\ AllDone /\ ~ got.failed /\ (got.applied \/ ~ got.unusable)
    /\ pass' = "idle" /\ meta' = topics /\ stale' = Rebuilt
    /\ UNCHANGED <<records, workers, got, bounds, turn, opened, lost, torn>>

\* The process dies and the context is rebuilt from the records.
Restart ==
    /\ trouble < MaxTrouble /\ trouble' = trouble + 1
    /\ meta' = topics /\ stale' = Rebuilt
    /\ torn' = (torn \/ \E s \in Scenes : workers[s].group # {})
    /\ workers' = [s \in Scenes |-> Off] /\ pass' = "idle" /\ got' = NoResult
    /\ turn' = None
    /\ UNCHANGED <<records, passes, opened, lost>>

Next ==
    \/ \E s \in Scenes : \E n \in Turns[s] : CreateTurnTopic(s, ComputeTurnTopicID(n))
    \/ \E t \in DOMAIN topics : DeleteTopic(t)
    \/ \E S \in {{s} : s \in Scenes} \cup {Scenes} : RunDream(S)
    \/ \E s \in Scenes :
          \/ Consolidate(s) \/ SkipGroup(s) \/ NoMoreGroups(s)
          \/ \E group \in SUBSET ListTopics(s) : PickGroup(s, group)
          \/ ArchiveSummary(s) \/ ExtractKeywords(s) \/ CreateFusedTopic(s)
          \/ CompressTopics(s) \/ CompressDeletes(s)
          \/ RestoreSunkTopics(s) \/ DiscardTopic(s) \/ DiscardContent(s)
    \/ ReturnEarly \/ StructureStages \/ Restart

Spec == Init /\ [][Next]_vars

(***************************************************************************)
(* Properties.                                                             *)
(***************************************************************************)
\* A topic is a record of one scene, a goroutine holds a group exactly while
\* it applies one, and none runs outside a pass.
TypeOK ==
    /\ \A t \in DOMAIN topics :
          topics[t].scene \in Scenes /\ topics[t].depth \in 1..(MaxDepth - 1)
    /\ \A s \in Scenes :
          /\ (workers[s].group # {}) = (workers[s].at \notin {"off", "list", "pick"})
          /\ pass = "idle" => workers[s] = Off
    /\ Cardinality(Working) <= Fanout
    /\ kept \subseteq TurnTopics

\* A group is fully applied or leaves nothing behind (applyOneGroup): once the
\* scenes are done, trouble included, a stored summary has its content and no
\* member beside it at the top, and a summary that is not stored has no content
\* and no child.  Excepted are a rollback that was itself refused, a process
\* that died inside a group, and passes after one that was abandoned.
AllOrNothing ==
    (pass = "idle" \/ AllDone) /\ ~ torn /\ stale = "no" =>
        /\ \A f \in DOMAIN topics : IsFused(f) =>
              f \in content /\ \A t \in MembersOf(f) \cap DOMAIN topics : topics[t].depth > 1
        /\ \A f \in content : f \in DOMAIN topics \/ ~ IsFused(f)
        /\ \A t \in DOMAIN topics : topics[t].parent \in DOMAIN topics \cup {None}

\* Between passes the listing serves the records, unless an engine refusal
\* abandoned the last pass (StructureStages, SyncL2Meta).
ServesWhatItWrote == pass = "idle" /\ stale # "is" => meta = topics

\* Consolidation loses no turn: a turn the host settled and did not delete is
\* stored, at the surface or one level below it, as long as no pass worked
\* from a mirror that lagged (CompressTopicsL2 deletes from MaxDepth on).
TurnsKept == stale = "no" => \A t \in kept : t \in DOMAIN topics /\ topics[t].depth <= 2

\* A summary keeps the children it was written from: no stored member of a
\* stored summary answers to another one (applyGroups).
SummariesKeepTheirChildren ==
    pass = "idle" \/ AllDone =>
        \A f \in DOMAIN topics : IsFused(f) =>
            \A t \in MembersOf(f) \cap DOMAIN topics : topics[t].parent = f

\* No topic is claimed by two summaries, whichever passes wrote them, as long
\* as every group was applied or rolled back.
NoSecondClaim == ~ torn => SummariesKeepTheirChildren

\* The same while no pass was abandoned on an engine refusal.
ClaimedOnce == stale = "no" => NoSecondClaim
=============================================================================
