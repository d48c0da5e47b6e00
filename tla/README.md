# A TLA+ verification project for MemHop

MemHop is an embedded memory library for agents: one file, one process, several
*domains* (the primary agent, its registered sub-agents, and a shared pool of
knowledge graphs). This directory models the parts whose correctness rests on
crash timing and on the order of concurrent steps, checks them with TLC on small
instances and proves the central invariants with TLAPS for instances of any size.

Modules are named after what they model; definitions keep the source's names.
`PROJECT.json` maps every definition to the lines it stands for.

## 1. The system

| Part | State it keeps | Operations | What makes it correct |
|---|---|---|---|
| Storage engine, `internal/repo/core` | the file: two 4 KB headers (A/B), record frames, index snapshots; in memory: primary index, type index, active header, `nextOffset`, mapping | `Create`, `Open`, `WriteRecordBatch`, `DeleteRecordBatch`, `Checkpoint`, `Close`, `Compact`, reads | an acknowledged update survives every crash and every failed call; the index names only live records of the right id; header choice never goes back |
| Composition root, `internal/db.go`, `agents.go`, `session.go`, `dream.go` | table of domain contexts, registry of tenants, endpoint table, closed flag, in-flight Dreams | `contextFor`, `lockAgent`, `lockSharedPool`, idle sweep, `SubAgent`, `Agent`, `Checkpoint`, `Stats`, `CompactTo`, `Close`, `triggerSceneDream` | one operation per domain at a time; nothing runs on a shut engine; one Dream per scene; every call returns |
| Turns, `search.go`, `update.go`, `turn`, `content`, `l4.go` | current scene and turn of a domain, L4 records and their mirror | `Search`, `Update`, `AppendArchive` | a turn's records survive a failed distillation and its retry; mirrors equal records |
| Scenes, `l2.go`, `scene` | scene and topic records, `L2Meta` mirror | `UpdateScene`, `MergeScenes`, `DeleteScene`, `DeleteTopic`, `RenameTopic` | cascades end with no orphan; merges lose no topic |
| Knowledge graphs, `l3.go`, `l3query.go`, `graph` | L3 slots, nodes and edges in the shared pool; anchors on scenes | `ImportL3`, `UpdateL3`, `DeleteL3`, queries | no scene keeps an anchor to a deleted graph |
| Plan trees, `l5.go`, `plan`, `domain/plancache.go` | plan nodes of a turn and their cache | `PlanNodeAdd`, `PlanNodeUpdate`, the retention sweep | a finished step carries the fold of its branch; host text is never overwritten; no step inherits an expired one's work |
| Dream, `internal/dream` | topic depths, fused topics, L1 nodes and edges, profile | prune, compress, structure, distill | a group of topics is applied whole or not at all; no turn is lost; mirrors follow the records |
| L1, `cap/engram`, `repo/l1layer_sync.go` | a node per scene, edges between scenes, lists of edges on nodes | sync, build, rebuild, decay | edges and lists name each other, members exist |
| L0, LLM operations, `cap/profile`, `cap/llmops`, `llm` | profile text | distillation, prompts | — |
| Façade, `api` | none | a mapping of types over `internal/` | — |

How they interact. A host goroutine calls the façade, which calls the composition
root. A call fetches its domain's context under `agentsMu`, takes the context's
lock, re-checks that the database is open and that the context was not reclaimed,
works on records through the storage engine (which has its own mutex) and unlocks.
A turn that closes may schedule a Dream goroutine, which goes through the same
protocol. `Close` sets a flag, cancels running work, waits for each context's lock
and shuts the engine. `Checkpoint`, `Stats` and `CompactTo` reach the engine
without a domain lock.

What is hard. Crashes between any two of the engine's I/O calls, with unflushed
writes surviving in any combination; I/O calls that fail with the process going
on; the idle sweep replacing a context under a caller that waits for its lock; a
closed flag that is stale when it is used; two tables (endpoint table, live
context) written under different locks; cascades over several writes or several
domains. `PROJECT.json` lists each with its line under `hazards`.

## 2. Storage engine — `StorageEngine`, `DurableStore`

**State.** The file past the headers is a sequence of cells (`log`), one per frame
or snapshot blob, and two header slots (`hdr`). `synced` and `dhdr` say what of them
is known to be on disk. `act`, `head`, `index`, `byType`, `nextOffset` and `mapped`
are the open engine's fields. `acked` and `limbo` record what the host knows: the
last answer per key and the values whose update reached the file unacknowledged.

**Actions.** The engine's mutex serialises operations, so one is in flight and `pc`
names its next I/O call; each call is an action and each has a failing twin.

| Code | Actions |
|---|---|
| `WriteRecordBatch`, `DeleteRecordBatch` | `WriteRecordBatch`/`DeleteRecordBatch` → `TrimTailSnapshot` → `WriteNullSnapshotHeader` → `SwitchNullHeader` (these three only over a tail snapshot) → `AppendFrames` → `SyncAndIndex` |
| `Checkpoint`, `Close` | `Checkpoint`/`Close` (append the blob) → `SyncSnapshot` → `WriteCheckpointHeader` → `SwitchCheckpointHeader` (→ `ShutdownHandles`) |
| failures | `TrimFails`, `WriteInactiveHeaderFails`, `HeaderSyncFails`, `AppendFails`, `UndoAppendFails`, `SyncFails`, `AppendSnapshotFails`, `SyncSnapshotFails`, `SwitchRemapFails`, `ShutdownSyncFails`, `OpenTruncateFails`, `ClearActiveSnapshotFails` |
| `Open` | `Open` (headers, snapshot, scan) → `OpenTruncate` → `ClearActiveSnapshot` → `OpenDone` |
| `Compact` and the host's rename | `Compact`, `SwapInCopy` |
| power failure | `Crash` |

Recovery (`ScanStops`, `Replay`, `RecoverRecordAreaEnd`, `RecoveredNextOffset` …) is
written as operators over a file, so that the same definitions serve `Open` and the
properties.

**Abstractions.** An offset is a cell number, so two byte ranges of equal length are
one cell each. A checksum is the cell's kind: what was written, or unreadable
("torn", or "zero" for zero fill). A crash keeps a truncate that was made; of what
was not flushed each cell and each header slot survives or not on its own. The file
`CompactTo` wrote counts as a replacement until the next acknowledged update or
reopen, as a host that compacts just before it closes uses it. Empty batches and
ids that are not there return before any I/O and are not steps.

**Abstract specification.** `DurableStore` is the map the engine promises. `Durable`
states that `StorageEngine` implements it: an acknowledged value changes only by a
later acknowledged update, and a restart may only surface a value that was in doubt.

**Properties.** `IndexNamesOwnRecord` (index and every snapshot in the file name
live frames of their own key), `ReadsAnswerStore` (a failed operation changes no
answer; the exception is the "known ceiling" of `engine_write.go:98`: when the truncate
that undoes a failed append fails too, the mapping stays dropped and `ReadRecord` answers
corruption for every stored record until an operation maps the file again),
`TypeIndexAgrees`, `TrimCutsNoRecord` and `TruncationPointInFile` (where the
next truncate falls), `ActiveHeaderIsNewest` (the A/B choice), `SnapshotAgreesWithScan`
(both ways of recovering give the same answers), `SomeHeaderValid`, `Durable`.

## 3. Lock protocol — `DomainLocks`

**State.** `closed`, `engine` (the storage engine is open), the holders of `db.mu`,
`agentsMu` and each context's lock, the registry, the context table `agents`, the
endpoint table `llmByAgent` and the transport `llm` each context uses, the
`reclaimed` mark, `idle` (TTL elapsed), `inFlight` Dreams, and per process a program
counter, its call and the context it fetched. Processes are host goroutines and
Dream goroutines (a context and a scene).

**Actions.** `Start` (a host makes a call), `CheckOpen` (each of the unlocked reads of
the closed flag), `CheckSession`, `EnsureRegistered`, `SetDomainLLM`, `NewSession`,
`EnterContextFor` and `BuildContext` (`contextFor`, cut at its re-check; the sweep is
part of it), `LockDomain`, `CheckLocked` (`lockOpen`'s and `lockAgent`'s re-checks),
`Finish`, `TriggerSceneDream`, `UnmarkDream`, `CallEngine`, and `SetClosed`,
`CollectContexts`, `AwaitContext`, `CloseEngine` for `Close`. `IdleTTLElapses` is time.

**Abstractions.** What an operation does to its records is the span "run". A section
under `agentsMu` is one action except `contextFor`'s. Contexts are identities reused
once nothing refers to them.

**Properties.** `OneOperationPerDomain`, `RunsOnOpenEngine`, `DreamKeepsItsContext`,
`OneDreamPerScene`, `EveryCallReturns`, `EveryDreamEnds`; stated and refuted:
`RacedCallAnswersClosed`, `LiveContextUsesRecordedLLM`.

**Fairness** (`FairSpec`). Weak fairness of the steps that need only the processor:
an operation under a lock ends, because its LLM calls have a timeout and are
cancelled by `Close`. Strong fairness of the steps that wait for a lock: Go's mutex
hands itself to a waiter that has starved, so a lock that is free again and again is
eventually taken. No fairness of `Start`, `TriggerSceneDream` or time.

## 4. Conversation memory of a domain — `DomainMemory`

**State.** Records: `scenes` (anchor, turn counter, last-used stamp), `topics` (one per
settled turn), `archives` (L4 content by turn and slot), `planned` (turns with plan
nodes), `nodes` (scenes with an L1 node). Mirrors of a live context: `meta` (`L2Meta`,
rows and the table by scene), `l4`, `plans`. What the context remembers: `scene`,
`turn`, `stamp`. The domain lock serialises calls (section 3), so one is in flight and
`op` names its next engine batch.

| Code | Actions |
|---|---|
| `Search` | `Search` (resolve, refuse or create) → `OpenSceneTurn`, or `ReadProfileFails`, `OpenSceneTurnFails` |
| `SceneContext` | `SceneContext` |
| `AppendArchive`, `Update` | `AppendArchive` / `Update` → `AppendArchiveBatch` → for `Update` `CreateTurnTopic` or `SettleRefused` |
| `PlanNodeAdd`, `RenameTopic` | one action each |
| `MergeScenes` | `MergeScenes` (L1 nodes) → `MergeTopics` → `MergeDeleteScenes` → `MergeAnchor`, the mirrors with the last one |
| `DeleteTopic`, `DeleteScene` | `DeleteTopic`/`DeleteScene` (content) → `DeletePlanNodes` → `DeleteL2Records` → `DeleteSceneNode` |
| Dream's node sync | `SyncL1Nodes` |
| restart, idle sweep | `NewContext`, between any two batches of a call |
| power failure inside a batch | `CrashInBatch` (`TornAppend`, `TornMerge`, `TornDelete`): any part of the batch's records is in the file, the context is rebuilt from it |

Each batch has a twin that the engine refuses; `Failing` selects which may be refused.
Three histories say what a refused call leaves: `behind`, the turns whose row in the topic
mirror a merge left as it was; `cut`, those whose deletion stopped at its last batch;
`stranded`, the scene and turn a context still had when a merge or a deletion of that scene
stopped between its records and the context.

**Abstractions.** A refused batch leaves nothing; that a crash may bring back a batch whose
flush failed is modelled in `StorageEngine` only (`limbo`). A batch that writes one record
survives a power failure or not, so it needs no torn twin. Turn ids are the pair they are hashed from; a scene id
never repeats (`freshID`). Fused topics are in `DreamPipeline`, trees in `PlanTree`.
Two things the model shows that are no violation: the content of a turn that never
settled outlives its scene until the retention sweep; and after the current scene was
merged into another a restart may resume a third one.

**Properties.** `ReadsServeRecords`, `ContextIsLive`, `TurnIdsNeverReused`,
`DeletedTopicsOwnNothing`, `ResumesLastUsed`, with any batch refused. The lags of the three
histories are named in them and nothing else may differ: a merge that moved topics and was
refused then lists them under the old scene; a deletion refused at its last batch keeps a
cached tree; and after a refused anchor write of a merge (`l2.go:209-212`) or a refused deletion
of the L1 node the context stays on a scene that is gone (`domain/l2meta.go:38-40`), every
`Search` without a scene fails until the context is rebuilt, and what is appended to the open
turn belongs to no topic; stated and refuted: `PlanKeysMatchNodes`, `TopicsHaveTheirScene`.

## 5. Plan trees — `PlanTree`

**State.** `nodes` and `cache` of one turn, `content` records that name a step, the
clock, and in `op` the set of steps a rollup has still to visit, in the order `Before`
of the post-order walk. `CreateNode`, `UpdateNode` → `RollupNode`… (one write per fold;
`RollupFails` and `BuildPlanCache` cut it anywhere),
`AppendArchive`, `DropExpiredArchives`, `PrunePlan`, `Tick`.

**Abstractions.** A summary is the sequence of host texts it is joined from; visits of
the rollup that write nothing are skipped; the sweep's delete batch is one step, so a power
failure that keeps a part of it is not modelled here. `born`, `over` and `owner` number the steps
that had an ordinal, which is how the model tells an heir from the step itself.

**Properties.** `TypeOK` (with `CacheServesRecords` and `TreeIsAcyclic`), `NoInheritedWork`,
`HostTextKept`, `FoldsAreComplete` (against `Expected`, a recursive reference that never
looks at the order of writes), `InFlightTreeSweptWhole`. Observed and not a violation:
when a sweep has removed one finished child, the next restatement folds the parent
anew without that child's words.

## 6. Consolidation — `DreamPipeline`

**State.** Topic records with depth and parent, the topics that own content, the
mirror, and one goroutine per scene. `RunDream` starts them; a goroutine goes through
`Consolidate`, then per group `PickGroup` → `ArchiveSummary` → `ExtractKeywords` →
`CreateFusedTopic` → `CompressTopics` → `CompressDeletes`, or back through
`RestoreSunkTopics` → `DiscardTopic` → `DiscardContent`. `ReturnEarly` and
`StructureStages` end the pass. Between passes the host settles and deletes topics.

**Abstractions.** The model's answer is any choice of groups; which proposals are
unusable is a choice (`SkipGroup`). An id is what it is hashed from with its namespace:
a turn topic's the turn, a summary's the set of its members. `opened` and `lost` are
histories: the turns the host settled, and the topics it deleted. `Fanout` and `MinTopics`
are the source's constants lowered to the instance.

**Properties.** `AllOrNothing`, `ServesWhatItWrote`, `TurnsKept`, `ClaimedOnce`, and the
refuted `NoSecondClaim`. They say where they do not speak: after a rollback that was
itself refused or a process that died inside a group (`torn`), and, for some, after a
pass an engine refusal abandoned (`stale`). In the first case a summary topic without
children may stay, and the same group is then refused for good as "stored already",
although `compress.go:229-230` expects it to be picked again.

## 7. Knowledge graphs and anchors — `KnowledgeGraphs`

**State.** The shared pool (`name`, `updatedAt`, `nodes`, `edges`), the anchors of the
scenes of every domain, and per caller the call it is in the middle of, which says
which lock it holds. An import is `ImportL3` → `ImportNode`… → `ImportRelations`… →
`StampChanged` under the pool's lock; `UpdateL3` is one step; `DeleteL3` → `DeleteGraphL3`
(one tombstone per node, edge and slot, flushed once) under the pool's lock, then
`DetachTargets` → `DetachGraph` or `DetachSkips` per domain, without it. `ReadAnchor` and `WriteAnchor` are the two ends of `UpdateScene`
(or a `Search` that opens an anchored scene) under the domain's lock. `MergeScenes`,
`DeleteScene`, `ClearAnchor`, `EnsureRegistered`, `Close`, `Open`, `Crash`. A power failure
that meets a deletion before its flush keeps any part of the tombstones: recovery steps
past a damaged one and replays the others.

**Abstractions.** A graph's id is the label it was first imported under, a node's its
title, an edge's its members; one kind of edge; what a re-import merges into a node is
left out, the write is not. `owed` records what refused writes, crashes and closes left
undone, so that each property says what it excuses; `owed.torn` has the graphs of which a
power failure deleted a part, until a deletion of the graph goes through. Such a graph may
have members without a slot, which an import under its label adopts, or an edge over a node
that is gone, on which `QueryL3Subgraph` fails.

**Properties.** `LabelsUnique`, `MembersHaveTheirGraph`, `SubgraphReadsBack` (over
`BfsWithinDepth`), `ClockFollowsContent`, `AnchorsNameGraphs`; stated and refuted:
`EdgesJoinStoredNodes`, `NoAnchorSkipped`. Observed: a graph imported again under the
same label between a deletion and its detach loses anchors that were set on the new one.

## 8. Scene network — `Engrams`

**State.** Per scene a node (`importance`, its topics `listed`, its `edgeIDs`), per pair
of scenes an edge (`weight`), and the stage of the pass. Stages: "sync"
(`SyncOneSceneNode`), "build" (`UpsertSceneEdge`), "rebuild" (`RemoveStaleNode`),
"nodes" (`DecayOneNode`), "clear" (`RemoveNodeFromEdge`), "edges" (`DecayOneEdge`).
Every write may be refused, which ends the pass there; `StageCancelled` is a cancelled
context. Between passes topics appear and sink and scenes are deleted or merged.

**Abstractions.** Strengths are ranks (0 no record, Weak, Strong) and decay chooses how
far to fall; records written in the same pass do not fall. Emotion signals are left out.
A cascade inside one step (several records) may stop after any part of it.

**Properties.** `SharedEdgesExist`, `SettledEdgesJoinNodes`, `ListsMatchEdges`. Observed:
an edge that decayed away is built again at full strength by the next pass over the
same keywords; what a pass marked as changed is lost when it breaks off after the sync.

How the modules rest on each other: `StorageEngine` shows what becomes of a batch — whole
once acknowledged, in part if power fails before; `DomainLocks`
that a domain's operations do not overlap; `DomainMemory`, `PlanTree`, `DreamPipeline` and
`Engrams` take both for granted and each models what happens under one domain's lock;
`KnowledgeGraphs` has no single lock and models its own.

## 9. Runs

Each run takes from a few seconds to about two and a half minutes with two workers.
`CHECK_DEADLOCK FALSE` where the bounds stop the model; the domain runs check deadlock.

| Run | Bounds | Shows |
|---|---|---|
| `storage_crash` | 2 ids, 2 types, single-record batches, 4 cells, 2 crashes, checkpoints from commit ≤ 3 | index, type index, headers, truncation point, both ways of recovering and `Durable` under crashes |
| `storage_io_faults` | 2 ids, batches of 2, 3 cells, 1 crash, 2 failures of append, undo, sync, blob, shutdown, Open's writes | a failed operation changes no answer (dropped mapping aside) and loses nothing |
| `storage_header_faults` | 1 id, 2 types, 5 cells, 1 failure of trim, header writes, header syncs, remap | the trim stays off the records after a header failure and an orderly restart |
| `domain_calls` | 2 hosts, a tenant, the default domain and the pool, 4 contexts, 1 scene, TTL elapses twice, every kind of call (`CompactTo` and `Stats` included) | mutual exclusion, the close barrier, one Dream per scene |
| `domain_liveness` | 2 hosts, 1 tenant, 1 scene, TTL twice, `FairSpec` | every call returns, every Dream ends |
| `memory` | 2 scenes of 2 turns, 2 rounds of `Search`, 1 content slot, 2 refused batches (any), restarts or power failures inside a batch | the properties of section 4 |
| `plan` | 3 ordinals, 1 text, 1 content slot, clock 0..1 with window 0, 1 failure or restart | the properties of section 5 |
| `dream` | scenes of 3 and 2 turns, 2 passes, `MaxDepth` 3, 2 refusals (rollbacks included) or restarts | the properties of section 6 |
| `graphs` | 2 hosts, 2 labels, 2 titles, 3 scenes in 2 domains, 3 pool calls, 1 refused write (a deletion's batch too), close or power failure anywhere | the properties of section 7 |
| `engrams` | 3 scenes, 3 topics, 3 passes, 1 refused write | the properties of section 8 |

Why the bounds are enough. Four cells hold a record, two snapshots and a record
behind them, or a damaged frame between two live ones; commit 3 uses both header
slots twice; two crashes let the second one hit recovery from the first; two types
make an overwrite change a type. Two hosts suffice for each race of the protocol (a
waiter and a sweeper, a caller and `Close`), a Dream is the third process, and the
TTL elapsing twice lets a rebuilt context be swept again. Four contexts are more than
are ever alive at once, so a context is always available to `BuildContext`.
In `memory` two rounds make two scenes to merge or two turns of one scene; two troubles
let a restart follow a failure; torn batches of several records are those of merges and
deletions, a torn append of several slots is left to the proofs. In `plan` three ordinals make a chain of depth three and,
after a sweep, a regrown tree beside content of the old one; the clock's one tick is the
whole window. In `dream` two passes suffice for a topic to be listed again; `MaxDepth` is 3
where the source has 4, so that two sinks reach the deletion, and the larger scene allows
overlapping groups. In `graphs` three pool calls are an import, a rename or deletion and
a second import of the same label. In `engrams` the first pass builds, the second meets
what was deleted or broken off in between, the third is the repair.

Each property has a mutant of the code (a dropped guard, a missing write, an off-by-one,
defined next to the definition it replaces and listed in `PROJECT.json`) that breaks it.

## 10. Disagreements between the code and what it says of itself

Two are kept as runs that TLC refutes:

| Run | Statement refuted | What happens |
|---|---|---|
| `storage_orphan_blob` | `Durable` | two checkpoints in a row, the second one's header write fails; records acknowledged afterwards lie behind an orphan blob in the snapshot area, where the scan stops and truncates |
| `dream_stale_mirror` | `NoSecondClaim` | a pass with an applied group and a failed one returns before the mirror is rebuilt; the next pass lists the sunk topics again and puts them under a second summary, against `compress.go:107-109` |

The others are reproduced by checking the named property with the constants given (the
rest as in the run named):

| Property | Change | What happens |
|---|---|---|
| `Durable` | `storage_crash` with `Residue = {"zero"}` | zero fill after a crash ends the scan but is not cut; appends go behind it and the next open does not see them (`engine_recovery.go:54`: "the zero-filled space an append will overwrite") |
| `SomeHeaderValid` | `storage_crash` | a crash tears one slot, `Open` rewrites the other in place without a Sync, a second crash tears that (`crash_recovery_snapshot_test.go:162-163`) |
| `Durable`, `IndexNamesOwnRecord` | `storage_io_faults` with one id, `MaxBatch = 1`, `Faults = {"sync", "blob", "shutdown"}`, `MaxFault = 3` | the flush of a batch fails, then at `Close` the write of the snapshot and the last flush (`engine_lifecycle.go:227`): the file is closed unflushed, `Open` reads the failed batch's frame from the page cache and serves it without a Sync, and a crash takes it back. The run itself allows two failures, which are not enough |
| `SnapshotAgreesWithScan` | `storage_crash` with `Faults = {"sync"}`, `MaxFault = 1` | a batch reported as failed is in the log and not in the snapshot (`snapshot_vs_scan_test.go:19`) |
| `IndexNamesOwnRecord`, `TrimCutsNoRecord` | `storage_crash` with `MaxCrash = 3`, one id and one type | `clearActiveSnapshot` rewrites the active slot without a Sync (`engine_lifecycle.go:170-184`); two crashes bring the old header back over a log that has grown past its `RecordEnd`. When a later blob lands at the offset that header still names, `nextOffset` falls back to the stale `RecordEnd` and the next trim would cut an acknowledged record. In bytes this takes frames exactly as long as the snapshot that was cut |
| `RacedCallAnswersClosed` | `domain_calls` with `Kinds = {"compact", "close"}` | `Compact` does not look at the engine's closed flag and answers corruption (`db.go:57-60`: "errDBClosed is what every call on a closed database answers, in so many words"); `Stats` in the same race answers zeros |
| `LiveContextUsesRecordedLLM` | `domain_calls` with `LLMs = {m1, m2}`, `Kinds = {"agent", "subagent"}` | two calls write endpoint table and live context in opposite orders (`agents.go:192-193`) |
| `PlanKeysMatchNodes` | `memory` | a deletion refused at its last batch has deleted the plan nodes and keeps their tree until it is repeated or the context rebuilt (`plancache.go:17-18`: "a key exists exactly while at least one of its nodes does") |
| `TopicsHaveTheirScene` | `memory` | power fails inside the last batch of `DeleteScene`, which is topics and scene together: the scene's tombstone survives, a topic's does not, and the caller's entry no longer finds the scene (`delete.go:19-21`: "an interrupted pass must not have consumed that tombstone yet") |
| `ResumesLastUsed` | `memory` with `ClockStepsBack = TRUE` | stamps issued after a restart lie below earlier ones (`domain/context.go:85-87`) |
| `EdgesJoinStoredNodes` | `graphs` | an item's own node fails to import; its relation is still written, since only the far side is looked up (`l3query.go:125-128`) |
| `NoAnchorSkipped` | `graphs` | the database closes between a graph's deletion and its detach: the domain is skipped without an error and the anchor stays in the file (`l3.go:232-234`: "there is no anchor left to clear") |

The passing storage runs leave out what these show: `storage_crash` has no zero
residue, and `storage_header_faults` has no crash: with one, `storage_orphan_blob`'s
loss appears, and `TrimCutsNoRecord` fails when, after a trim whose header write
failed, a later blob of the same length lands at the offset the old header still
names (which takes records exactly as long as the bytes that were cut). `storage_crash`
does include the double tear of the headers: `Open` is then not enabled, so its
properties speak about files that open. The clock of `memory` does not step back.

## 11. Proofs

Each modelled component has a `_proofs` module. Its theorems hold for every value of the
constants that satisfies `ConstantsOK`: no bound on callers, contexts, scenes, keys,
crashes or failures, and any set of failing calls unless a hypothesis says otherwise.
Every proof has the same form: an inductive invariant, a lemma per action, the listed
property as a consequence.

*Lock protocol.* `Invariance` proves `IInv`, and the listed theorems follow. Mutual
exclusion is not inductive: `OneOperationPerDomain` needs that whoever runs holds the
lock of the context it fetched (`LockInv`), that a fetched context is either the
table's or reclaimed and then not running (`CtxInv`), and that the table is one to
one and free of reclaimed contexts (`TableInv`). `RunsOnOpenEngine` needs
`CloseInv`: past `CollectContexts` nothing is being built and every running context
is still waited for. The Dream properties need that a Dream under way is marked on
its domain's own context (`DreamInv`).

*Storage engine.* `Invariance` proves the shape of file and memory
(`FileTypeCorrectness`) and that a truncate falls inside the file
(`TruncationStaysInFile`). The strengthening says that a header which names a
snapshot carries a `RecordEnd` below it (`HeadersOK`) — that is why the fallback walk
of `recoverRecordAreaEnd`, which can answer 0, is never used to place the truncate —
and what an operation left at the end of the file between two calls (`PendingTail`).

The other storage theorems have hypotheses, each of which leaves out a case that section
10 shows to break the property, or a call next to it:

| Hypothesis | What it leaves out |
|---|---|
| `HeaderCallsOK` | failures of the trim, of a header's write, flush or remap (other than a checkpoint header's write), of Open's rewrite of the header, and of the flush that ends `Close`. The flush has to be left out (section 10); Open's rewrite is covered by `storage_io_faults` only |
| `ClearReachesDisk` | a crash while the active header is newer in memory than on disk, which only `clearActiveSnapshot`'s missing Sync makes possible |
| `DurableOK` | besides: a failing write of a checkpoint header (`storage_orphan_blob`) and zero fill after a crash |
| `ScanOK` | besides: a failing flush or undo of a batch |

`SoundInvariance` proves `SInv`, from which `IndexIsSound`, `TrimKeepsRecords`,
`ActiveHeaderNewest` and `OpenFindsHeader` follow. That the index names records is not
inductive by itself: a crash takes unflushed cells, so the index and the snapshots must
name flushed ones (`FlushedIndex`, `BlobsIn`); a restart picks a header by commit number,
so the slot the engine does not use must be outranked both in memory and on disk
(`RankInv`), and the snapshot it picks must index only what lies below its own
`RecordEnd` (`NameInv`). `AnswerInvariance` adds that index and type index answer what was
acknowledged (`TypeIndexAgreement`), and that between operations the mapping either reaches
every indexed record or is the one a failed truncation dropped, from which `ReadsAnswer`
follows.

`DurableInvariance` proves `DInv`. Its centre is `Based`: a key's acknowledged value is in
a flushed frame below the end of the record area, or is "nothing" without any frame, and
every later frame of the key holds a value in doubt. A scan that stops anywhere behind the
flushed cells then recovers the acknowledged value or one in doubt. For a restart from a
snapshot, `SnapHolds` says the same of the snapshot the chosen header loads, `LastFrames`
that no frame follows it, and `MapInv` that a snapshot in use ends the mapped file, so a
batch trims it first. `CopyInv` says it of the file `Compact` wrote. `DurableRefinement`
maps `AppendFrames` and `UndoAppendFails` to `Attempt`, `SyncAndIndex` to `Acknowledge`,
`OpenDone` to `Restart` and every other step to a stutter. `ExactInvariance` proves `XInv`, the
same with an empty set of values in doubt except for the batch being flushed, and
`SnapshotMatchesScan` follows.

TLC checked `SInv`, `DInv` and `XInv` on small instances before they were proved, `DInv` and
`XInv` with two crashes (562 795 and 338 987 states).

*Knowledge graphs.* `Invariance` proves `IInv` for any callers, domains, scenes, labels
and batches, and any number of refused writes, crashes and closes, crashes inside the
batch of a deletion included. `LabelUniqueness` and `MembersStayWithGraph` are inductive
once the types are: a slot is made only under a label that nobody carries, because
`GraphFor` answers an id without a slot only then, and members lose their slot only to a
deletion that a power failure cut in two (`owed.torn`).
`ClockCorrectness` needs `StampInv`: whatever an import has changed so far, it changed
at the present clock, for the pool's lock keeps everyone else from moving either.
`AnchorCorrectness` needs `OwnersRegistered` — a scene with an anchor, or about to get
one, belongs to a registered domain, so the list of domains a deletion takes misses no
one — and `AnchorCalls`: a graph read for an anchor not yet written is there, or its
deletion has yet to visit the scene's domain. The visit takes the domain's lock, so no
such write is under way when it passes.
`SubgraphsReadBack` needs `ReadInv`: outside a graph in `owed.torn`, both ends of an edge are
stored or their own write was refused. An edge is written in the second pass over a batch, so the invariant says the same of
every item the first pass has been through; the graph an item went to then is the one its
label leads to in the second pass, since no label moves while the import holds the pool's lock
(`GraphForStays`). A walk only follows edges, so it stays among such nodes at every depth
(`EveryWalkReadsBack`). The listed property walks as deep as there are titles, whence its one
hypothesis, that they are finitely many.

*Conversation memory.* `Base` is inductive as it stands: shapes, the batches of the call
in flight (`OpInv`), the content index equal to the content records at every batch, and
`CountInv` — every turn ever handed out is counted by its scene or the scene is gone for
good — which is what `FreshTurnIds` needs. `LastUsedIsResumed` needs `StampInv`, that
stamps order the scenes as the host used them and the next one lies above, and the
hypothesis that the clock does not step back over a restart. `ReadsAreSound`, `MemoryIsLive`
and `DeletionsAreWhole` have no hypothesis. The first needs `MirrorInv`: the mirror holds a row
for every topic, and except for the turns in `behind` the row is the topic's record, inside a
merge up to the retarget that ends it; a tree is cached without nodes only inside a deletion or
for the turns in `cut`. The others need `LiveInv`: where a call has removed the remembered scene
it is about to forget it, or it was refused and the scene is in `stranded`; and a remembered turn
that was deleted is one of those, so nothing else can be appended to a deleted turn. Power
failing inside a batch (`CrashInBatch`) is covered by all of them. `Extrema` holds what the proofs need about the least and greatest
element of a set of numbers.

*Plan trees.* `IInv` is `TypeOK`, that stamps lie in the past, `NoInheritedWork` and
`HostTextKept`. A new ordinal lies above every live one and every one that content names
(`NextSeqIsFresh`), so nothing names it; a fold writes only where the host said nothing.
`FoldsComplete` needs `RollsUp`: while a rollup runs, and after one that ran to its end, a step
that still has something to fold waits for its visit, and with a step its parents wait.
This holds because the walk visits every step of the tree once and after all of its
children (`PostOrderVisits`), so a fold can only give work to a step that is still to come
(`BeforeOrder`). Where nothing is left to fold, the stored summaries satisfy the equation that defines
`Expected`; two solutions of it cannot differ, for the greatest ordinal where they did would
have a child, with a greater ordinal still, where they differ (`NothingFolds`). `SweptWhole` is an action property: when an unfinished tree loses a
step, its newest stamp is below the cutoff, hence all of them.

*Consolidation.* Three layers. `Base`: shapes, at most `Fanout` goroutines, a group that
comes from its scene's listing and whose summary is stored only from its creation on,
and a mirror equal to the records until a group is created (`MirrorIsServed`). `PassInv`, while no pass worked from a lagging
mirror: nothing lies deeper than one level, so `CompressDeletes` has nothing to delete and
no turn is lost (`NoTurnIsLost`). `WholeInv`, unless a rollback was refused or the process
died in a group: a summary is either in the hands of a goroutine or has its content and
all of its members under it, except those the host deleted (`SummaryInv`), groups under
way share no member with a stored summary (`ApplyInv`), and a deleted topic does not come
back (`LostInv`); `GroupsAreAtomic` and `ChildrenStay` follow. The proof
needs `MaxDepth > 2`, which `ConstantsOK` states; the source has 4.

*Scene network.* `IInv` says per stage of the pass what has been established
(`StageInv`), that ended scenes have no topics, and what a refused write may leave.
`SharedInv` (an id two nodes list is an edge) holds in every state; `SettleInv` and
`MatchInv` carry `SettledNetwork` and `ListsAgree` through the stages: the edges still to be
cleared from a removed node's neighbours are exactly the pending ones (`Owed`).

Only model-checked: liveness (`EveryCallReturns` and `EveryDreamEnds`, which need
fairness), the storage properties with the failing calls that their theorems' hypotheses
leave out. Every other invariant and action property of the passing runs is a theorem.

The prover cannot use an induction principle. What a walk, a join or a fold computes is
therefore shown from a least or a greatest counterexample (`Extrema`): of the prefixes of a sequence, of
the depths of a walk, of the ordinals of a tree. That a recursive function has a value at all is
shown the same way, and this is why the models' recursions range over the ordinals that exist
or the depths up to the limit and not over all numbers.

## 12. Plan

Done: 1. `StorageEngine` with `DurableStore`; 2. `DomainLocks`; 3. `DomainMemory`;
4. `PlanTree`; 5. `DreamPipeline`; 6. `KnowledgeGraphs`; 7. `Engrams`.

Left to prove: the storage theorems with a failing rewrite of the header by `Open`, which
`storage_io_faults` covers; a proof needs an invariant for an engine that did not open.

## 13. Not modelled

Platform code (file lock, `mmap`), field encodings of records, configuration and
hashing, prompt texts and HTTP, and the façade's type mapping: no state of their own
or system calls whose failures are faults above. The profile (L0) is one record
rewritten whole under the domain lock; its distillation is a call to a model whose
answer replaces it. Of the modelled parts: scene names and the keyword query of graphs,
which decide nothing; the merge of fields into an existing graph node; emotion signals
and the floating-point decay formulas, which only choose how far a rank falls.
