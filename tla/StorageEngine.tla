---------------------------- MODULE StorageEngine ----------------------------
(***************************************************************************)
(* The append-only record log of internal/repo/core: record frames and     *)
(* index snapshots behind two A/B headers, the in-memory index over them,  *)
(* and recovery at Open.                                                   *)
(*                                                                         *)
(* The engine's mutex serialises its operations, so one operation is in    *)
(* flight at a time; what interleaves with it is the machine: an I/O call  *)
(* that fails and a crash between any two of them.  Every operation is     *)
(* therefore cut at its I/O calls, pc naming the call about to be made.    *)
(*                                                                         *)
(* Data abstraction: the file past the headers is a sequence of cells, one *)
(* per frame or snapshot blob; an offset is a cell number, DataStart is 1, *)
(* and a snapshot pointer of 0 means none.  A checksum is the cell's kind: *)
(* a cell reads as what was written or as unreadable.                      *)
(***************************************************************************)
EXTENDS Integers, Sequences, FiniteSets

CONSTANTS
  Agents,     \* agent domains
  Ids,        \* id hashes, shared by the domains
  Types,      \* record types
  Data,       \* record payloads
  None,       \* no value: what a tombstone carries and an absent id reads as
  Residue,    \* what a crash leaves of a cell that was not flushed
  Faults,     \* the I/O calls (pc names) that may fail
  MaxBatch,   \* bound: records in one batch
  MaxLog,     \* bound: cells in the file
  MaxCommit,  \* bound: header commit number a checkpoint starts from
  MaxCrash,   \* bound: crashes
  MaxFault    \* bound: failed I/O calls

Key     == Agents \X Ids
Payload == [rt : Types, data : Data]
Slots   == {0, 1}                       \* header A, header B

ASSUME ConstantsOK ==
  /\ None \notin Payload
  /\ IsFiniteSet(Key)
  /\ Residue # {} /\ Residue \subseteq {"torn", "zero"}
  /\ {MaxBatch, MaxLog, MaxCommit, MaxCrash, MaxFault} \subseteq Nat

VARIABLES
  \* the file, as the page cache holds it and as the disk does
  log,        \* cells behind the headers
  hdr,        \* the two header slots
  synced,     \* number of leading cells known to be on disk
  dhdr,       \* the two header slots on disk
  \* the open engine
  act,        \* activeHeader: the slot in use
  head,       \* activeHeaderRef(): that slot's content in memory
  index,      \* key -> cell of its live frame, 0 when it has none
  byType,     \* byAgentType: key -> the types it is listed under
  nextOffset, \* end of the record area: the cell after it
  mapped,     \* cells the mmap covers, 0 when the mapping is dropped
  pc, op,     \* the I/O call about to be made, and for which operation
  copy,       \* the file CompactTo wrote, <<>> when there is none
  \* what the host knows
  acked,      \* key -> the value the engine last answered for it
  limbo,      \* key -> values whose write or delete reached the file unacknowledged
  crashes, faults

file    == <<log, hdr, synced, dhdr>>
mem     == <<act, head, index, byType, nextOffset, mapped>>
host    == <<acked, limbo>>
vars    == <<file, mem, pc, op, copy, host, crashes, faults>>
-----------------------------------------------------------------------------
(* Cells and headers *)

Frame(k, v) == [kind |-> "frame", key |-> k, val |-> v]   \* v = None: a tombstone
Blob(idx)   == [kind |-> "snap", idx |-> idx]
Junk(r)     == [kind |-> r]

IsFrame(c)  == c.kind = "frame"
IsBlob(c)   == c.kind = "snap"

NoIndex     == [k \in Key |-> 0]
NewHeader   == [commit |-> 0, snap |-> 0, len |-> 0, recEnd |-> 0]
TornHeader  == [commit |-> -1, snap |-> 0, len |-> 0, recEnd |-> 0]
IsTorn(h)   == h.commit = -1

\* A blob's length, which grows with the entries it carries.
BlobLen(idx) == 1 + Cardinality({k \in Key : idx[k] # 0})

\* The largest element of a non-empty finite set of cell numbers.
Last(S)  == CHOOSE i \in S : \A j \in S : j <= i
First(S) == CHOOSE i \in S : \A j \in S : i <= j

\* The cells s..e-1 of l that hold a frame of k.
FramesOf(l, k, s, e) == {i \in s..(e - 1) : IsFrame(l[i]) /\ l[i].key = k}
-----------------------------------------------------------------------------
(* Reads *)

\* RecordData over the mapping: it reaches the frame the index names.
Readable(k) ==
  /\ index[k] \in 1..mapped
  /\ index[k] <= Len(log)
  /\ IsFrame(log[index[k]])

\* What the log holds under the index for k.
Stored(k) == IF index[k] = 0 THEN None ELSE log[index[k]].val

\* The answer of ReadRecord: not found, the record, or ErrCorruption, which
\* answers nothing.
ReadRecord(k) ==
  IF index[k] = 0 THEN {None}
  ELSE IF Readable(k) THEN {log[index[k]].val} ELSE {}

\* recordTypeAt: the type byte of the frame at an offset, none outside the mapping.
RecordTypeAt(l, m, off) == IF off \in 1..m THEN {l[off].val.rt} ELSE {}
-----------------------------------------------------------------------------
(* Recovery: what Open computes from a file *)

\* loadHeaders / SelectValidHeader: the higher commit, A on a tie, never a torn slot.
ActiveSlot(h) == IF h[0].commit >= h[1].commit THEN 0 ELSE 1

\* loadSnapshot: the pointer is in bounds and the bytes it spans pass the
\* snapshot's own checksum.
SnapshotLoads(l, h) ==
  h.snap \in 1..Len(l) /\ IsBlob(l[h.snap]) /\ BlobLen(l[h.snap].idx) = h.len

\* restoreFromSnapshot: the base index, where the scan starts, and whether the
\* header names a snapshot that will not load.
BaseIndex(l, h)       == IF SnapshotLoads(l, h) THEN l[h.snap].idx ELSE NoIndex
ScanStart(l, h)       == IF SnapshotLoads(l, h) THEN h.snap + 1 ELSE 1
SnapshotCorrupt(l, h) == h.snap # 0 /\ ~SnapshotLoads(l, h)

\* cursorInSnapshotArea: the header names a snapshot at or before this cell.
CursorInSnapshotArea(h, i) == h.snap # 0 /\ i >= h.snap

\* Mutant: the scan gives up at the first frame that will not read.
ScanStops_NoResync(l, h, s) == {i \in s..Len(l) : ~IsFrame(l[i])}

\* scanRecords: the cell the scan reports as the record area's end.  It decodes
\* frame after frame; at the first cell of an unreadable run it stops on zero
\* fill (io.EOF), in the snapshot area, or when resyncScan finds no frame
\* further on, and otherwise carries on from the frame resyncScan found.
ScanStops(l, h, s) ==
  {i \in s..Len(l) :
     /\ ~IsFrame(l[i])
     /\ i = s \/ IsFrame(l[i - 1])
     /\ \/ l[i].kind = "zero"
        \/ CursorInSnapshotArea(h, i)
        \/ \A j \in (i + 1)..Len(l) : ~IsFrame(l[j])}

ScanEnd(l, h, s) ==
  IF ScanStops(l, h, s) = {} THEN Len(l) + 1 ELSE First(ScanStops(l, h, s))

\* The scan asks for truncation unless it ran into the end or zero fill.
ScanTruncates(l, h, s) ==
  LET e == ScanEnd(l, h, s) IN e <= Len(l) /\ l[e].kind # "zero"

\* Mutant: a tombstone is merged like any other frame.
Replay_IgnoresTombstones(l, base, s, e) ==
  [k \in Key |-> LET F == FramesOf(l, k, s, e) IN IF F = {} THEN base[k] ELSE Last(F)]

\* scanRecords / dropFromIndexLocked: the newest frame of a key wins and a
\* tombstone takes the key out.
Replay(l, base, s, e) ==
  [k \in Key |->
     LET F == FramesOf(l, k, s, e) IN
     IF F = {} THEN base[k]
     ELSE IF l[Last(F)].val = None THEN 0 ELSE Last(F)]

\* recoverRecordAreaEnd / walkRecordArea: the header's RecordEnd when it is
\* plausible, else the end of the last frame if the whole file walks as frames
\* and blobs, else the snapshot's own offset.
RecoverRecordAreaEnd(l, h) ==
  IF h.recEnd \in 1..h.snap /\ h.recEnd <= Len(l) + 1 THEN h.recEnd
  ELSE IF \A i \in 1..Len(l) : IsFrame(l[i]) \/ IsBlob(l[i])
       THEN IF \E i \in 1..Len(l) : IsFrame(l[i])
            THEN Last({i \in 1..Len(l) : IsFrame(l[i])}) + 1 ELSE 0
       ELSE h.snap

\* Open: nextOffset once the scan is done.
RecoveredNextOffset(l, h) ==
  LET s == ScanStart(l, h)
      e == ScanEnd(l, h, s)
  IN  IF ~ScanTruncates(l, h, s) /\ SnapshotLoads(l, h) /\ e = s
      THEN RecoverRecordAreaEnd(l, h) ELSE e

RecoveredIndex(l, h) ==
  LET s == ScanStart(l, h) IN Replay(l, BaseIndex(l, h), s, ScanEnd(l, h, s))

\* rebuildByAgentType: every indexed key is listed under its frame's type.
RebuildByAgentType(l, m, idx) == [k \in Key |-> RecordTypeAt(l, m, idx[k])]
-----------------------------------------------------------------------------
(* Shared by the operations *)

NoOp   == [kind |-> "none", frames |-> <<>>]
Idle   == pc = "idle"

\* file.Sync(): everything written so far is on disk.
Flush == synced' = Len(log') /\ dhdr' = hdr'

\* An I/O call of the running operation returns an error.
Fails == pc \in Faults /\ faults < MaxFault /\ faults' = faults + 1

\* The operation is over, with or without an error; Close goes on to shut the handles down.
Return == op' = NoOp /\ pc' = IF op.kind = "close" THEN "shutdown" ELSE "idle"

\* truncateTail(n): drop the cells from n on, sync, map what is left.
TruncateTail(n) ==
  /\ log' = SubSeq(log, 1, n - 1)
  /\ mapped' = n - 1
  /\ UNCHANGED hdr
  /\ Flush

Init ==    \* Create
  /\ log = <<>> /\ hdr = [s \in Slots |-> NewHeader]
  /\ synced = 0 /\ dhdr = hdr
  /\ act = 0 /\ head = NewHeader
  /\ index = NoIndex /\ byType = [k \in Key |-> {}]
  /\ nextOffset = 1 /\ mapped = 0
  /\ pc = "idle" /\ op = NoOp /\ copy = <<>>
  /\ acked = [k \in Key |-> None] /\ limbo = [k \in Key |-> {}]
  /\ crashes = 0 /\ faults = 0
-----------------------------------------------------------------------------
(* Appending: WriteRecordBatch and DeleteRecordBatch *)

\* trimTailSnapshot's test: the active header's snapshot ends where the mapping does.
TailSnapshot == head.snap # 0 /\ head.snap = mapped

StartAppend(frames) ==
  /\ Idle
  /\ Len(log) + Len(frames) <= MaxLog
  /\ op' = [kind |-> "append", frames |-> frames]
  /\ pc' = IF TailSnapshot THEN "trim" ELSE "append"
  /\ UNCHANGED <<file, mem, copy, host, crashes, faults>>

WriteRecordBatch(recs) ==
  /\ recs # <<>>
  /\ StartAppend([i \in DOMAIN recs |-> Frame(recs[i][1], recs[i][2])])

\* deleteRecordBatchLocked on live ids of one domain (missing ids are skipped,
\* and a call that names only missing ones touches nothing).
DeleteRecordBatch(ks) ==
  /\ ks # <<>>
  /\ \A i \in DOMAIN ks : index[ks[i]] # 0 /\ ks[i][1] = ks[1][1]
  /\ StartAppend([i \in DOMAIN ks |-> Frame(ks[i], None)])

\* trimTailSnapshot: one truncate drops every tail snapshot.
TrimTailSnapshot ==
  /\ pc = "trim"
  /\ TruncateTail(nextOffset)
  /\ pc' = "nullhdr"
  /\ UNCHANGED <<act, head, index, byType, nextOffset, op, copy, host, crashes, faults>>

\* truncateTail unmaps, truncates, syncs and maps again; it stops at the first
\* of these that fails, the mapping dropped and the file cut or not.
TruncateTailFails(n) ==
  /\ log' \in {log, SubSeq(log, 1, n - 1)}
  /\ synced' = IF synced < Len(log') THEN synced ELSE Len(log')
  /\ mapped' \in {mapped, 0} /\ (log' # log => mapped' = 0)
  /\ UNCHANGED <<hdr, dhdr>>

TrimFails ==
  /\ pc = "trim" /\ Fails
  /\ TruncateTailFails(nextOffset)
  /\ Return
  /\ UNCHANGED <<act, head, index, byType, nextOffset, copy, host, crashes>>

\* writeInactiveHeader: write the other slot, then sync, then switch to it.
WriteInactiveHeader(from, h, to) ==
  /\ pc = from
  /\ hdr' = [hdr EXCEPT ![1 - act] = h]
  /\ pc' = to
  /\ UNCHANGED <<log, synced, dhdr, mem, op, copy, host, crashes, faults>>

WriteInactiveHeaderFails(from) ==
  /\ pc = from /\ Fails
  /\ hdr' \in {hdr, [hdr EXCEPT ![1 - act] = TornHeader]}
  /\ Return
  /\ UNCHANGED <<log, synced, dhdr, mem, copy, host, crashes>>

\* Mutant: the null header keeps its predecessor's commit number.
NullHeader_SameCommit == [head EXCEPT !.snap = 0, !.len = 0]

NullHeader == [head EXCEPT !.commit = @ + 1, !.snap = 0, !.len = 0]

WriteNullSnapshotHeader == WriteInactiveHeader("nullhdr", NullHeader, "nullsync")

\* switchHeader
SwitchNullHeader ==
  /\ pc = "nullsync"
  /\ UNCHANGED <<log, hdr>> /\ Flush
  /\ act' = 1 - act /\ head' = hdr[1 - act]
  /\ pc' = "append"
  /\ UNCHANGED <<index, byType, nextOffset, mapped, op, copy, host, crashes, faults>>

\* A failed Sync of a header leaves it written but not known to be on disk.
HeaderSyncFails ==
  /\ pc \in {"nullsync", "ckptsync"} /\ Fails
  /\ Return
  /\ UNCHANGED <<file, mem, copy, host, crashes>>

\* The values a batch puts in doubt until it is acknowledged.
InDoubt(frames) ==
  [k \in Key |-> limbo[k] \cup {frames[i].val : i \in {j \in DOMAIN frames : frames[j].key = k}}]

\* Mutant: the record-area end stays where it was.
AppendFrames_KeepsNextOffset ==
  /\ pc = "append"
  /\ log' = log \o op.frames
  /\ limbo' = InDoubt(op.frames)
  /\ pc' = "sync"
  /\ UNCHANGED <<hdr, synced, dhdr, act, head, index, byType, nextOffset, mapped, op, copy, acked,
                 crashes, faults>>

\* appendFrames, and nextOffset moved before the flush is attempted.
AppendFrames ==
  /\ pc = "append"
  /\ log' = log \o op.frames
  /\ nextOffset' = Len(log') + 1
  /\ limbo' = InDoubt(op.frames)
  /\ pc' = "sync"
  /\ UNCHANGED <<hdr, synced, dhdr, act, head, index, byType, mapped, op, copy, acked,
                 crashes, faults>>

\* A write error is undone by undoAppend, which cuts back to the batch start.
AppendFails ==
  /\ pc = "append" /\ Fails
  /\ TruncateTail(Len(log) + 1)
  /\ Return
  /\ UNCHANGED <<act, head, index, byType, nextOffset, copy, host, crashes>>

\* The undo fails too: part of the batch stays, or the cut was made and not
\* synced, and the mapping is dropped.
UndoAppendFails ==
  /\ pc = "append" /\ "undo" \in Faults /\ faults + 1 < MaxFault /\ faults' = faults + 2
  /\ \/ log' = log
     \/ \E n \in 0..(Len(op.frames) - 1) :
          log' = (log \o SubSeq(op.frames, 1, n)) \o <<Junk("torn")>>
  /\ mapped' = 0
  /\ limbo' = InDoubt(op.frames)
  /\ Return
  /\ UNCHANGED <<hdr, synced, dhdr, act, head, index, byType, nextOffset, copy, acked, crashes>>

\* The positions in the batch that concern k.
InBatch(k) == {i \in DOMAIN op.frames : op.frames[i].key = k}
BatchStart == Len(log) - Len(op.frames)

\* Mutant: a delete leaves the primary index alone.
IndexAfterBatch_KeepsDeleted ==
  [k \in Key |->
     IF InBatch(k) = {} \/ op.frames[Last(InBatch(k))].val = None THEN index[k]
     ELSE BatchStart + Last(InBatch(k))]

\* updateIndexAfterWrite and applyDeletions, primary index: the batch's last
\* frame of a key, or nothing when that frame is a tombstone.
IndexAfterBatch ==
  [k \in Key |->
     IF InBatch(k) = {} THEN index[k]
     ELSE IF op.frames[Last(InBatch(k))].val = None THEN 0
     ELSE BatchStart + Last(InBatch(k))]

\* Mutant: an overwrite that changes the type leaves the key under the old one.
ByTypeAfterBatch_KeepsOldType ==
  [k \in Key |->
     IF InBatch(k) = {} THEN byType[k]
     ELSE LET final == op.frames[Last(InBatch(k))].val
          IN  IF final = None THEN byType[k] \ RecordTypeAt(log, Len(log), index[k])
              ELSE byType[k] \cup {final.rt}]

\* The same, type index: a key leaves the type of the frame it moves away from
\* and joins the type of the frame it moves to.
ByTypeAfterBatch ==
  [k \in Key |->
     IF InBatch(k) = {} THEN byType[k]
     ELSE LET final == op.frames[Last(InBatch(k))].val
              left  == RecordTypeAt(log, Len(log), index[k])
                         \cup {op.frames[i].val.rt :
                                i \in {j \in InBatch(k) : op.frames[j].val # None}}
          IN  IF final = None THEN byType[k] \ left
              ELSE (byType[k] \ left) \cup {final.rt}]

\* Mutant: the batch is acknowledged without a Sync.
SyncAndIndex_NoSync ==
  /\ pc = "sync"
  /\ mapped' = Len(log)
  /\ index' = IndexAfterBatch
  /\ byType' = ByTypeAfterBatch
  /\ acked' = [k \in Key |-> IF InBatch(k) = {} THEN acked[k]
                             ELSE op.frames[Last(InBatch(k))].val]
  /\ limbo' = [k \in Key |-> IF InBatch(k) = {} THEN limbo[k] ELSE {}]
  /\ copy' = <<>>
  /\ Return
  /\ UNCHANGED <<file, act, head, nextOffset, crashes, faults>>

\* Sync, remap, index update: the batch is acknowledged.
SyncAndIndex ==
  /\ pc = "sync"
  /\ UNCHANGED <<log, hdr>> /\ Flush
  /\ mapped' = Len(log)
  /\ index' = IndexAfterBatch
  /\ byType' = ByTypeAfterBatch
  /\ acked' = [k \in Key |-> IF InBatch(k) = {} THEN acked[k]
                             ELSE op.frames[Last(InBatch(k))].val]
  /\ limbo' = [k \in Key |-> IF InBatch(k) = {} THEN limbo[k] ELSE {}]
  /\ copy' = <<>>
  /\ Return
  /\ UNCHANGED <<act, head, nextOffset, crashes, faults>>

\* Mutant: the indexes are updated although the flush failed.
SyncFails_Indexes ==
  /\ pc = "sync" /\ Fails
  /\ UNCHANGED <<log, hdr>> /\ (Flush \/ UNCHANGED <<synced, dhdr>>)
  /\ index' = IndexAfterBatch /\ byType' = ByTypeAfterBatch
  /\ Return
  /\ UNCHANGED <<act, head, nextOffset, mapped, copy, host, crashes>>

\* Sync or the remap after it fails: the frames stay in the log, unindexed.
SyncFails ==
  /\ pc = "sync" /\ Fails
  /\ UNCHANGED <<log, hdr>> /\ (Flush \/ UNCHANGED <<synced, dhdr>>)
  /\ Return
  /\ UNCHANGED <<mem, copy, host, crashes>>
-----------------------------------------------------------------------------
(* Checkpoint and Close *)

\* appendSnapshot: the blob goes to the end of the file.
AppendSnapshot(kind) ==
  /\ Idle
  /\ Len(log) < MaxLog /\ head.commit < MaxCommit
  /\ log' = Append(log, Blob(index))
  /\ op' = [kind |-> kind, frames |-> <<>>]
  /\ pc' = "blobsync"
  /\ UNCHANGED <<hdr, synced, dhdr, mem, copy, host, crashes, faults>>

Checkpoint == AppendSnapshot("checkpoint")
Close      == AppendSnapshot("close")

\* The blob's own write fails; nothing undoes what part of it was written.
AppendSnapshotFails(kind) ==
  /\ Idle
  /\ Len(log) < MaxLog /\ head.commit < MaxCommit
  /\ "blob" \in Faults /\ faults < MaxFault /\ faults' = faults + 1
  /\ log' \in {log, Append(log, Junk("torn"))}
  /\ op' = NoOp
  /\ pc' = IF kind = "close" THEN "shutdown" ELSE "idle"
  /\ UNCHANGED <<hdr, synced, dhdr, mem, copy, host, crashes>>

SyncSnapshot ==
  /\ pc = "blobsync"
  /\ UNCHANGED <<log, hdr>> /\ Flush
  /\ mapped' = Len(log)
  /\ pc' = "ckpthdr"
  /\ UNCHANGED <<act, head, index, byType, nextOffset, op, copy, host, crashes, faults>>

SyncSnapshotFails ==
  /\ pc = "blobsync" /\ Fails
  /\ UNCHANGED <<log, hdr>> /\ (Flush \/ UNCHANGED <<synced, dhdr>>)
  /\ Return
  /\ UNCHANGED <<mem, copy, host, crashes>>

\* Mutant: RecordEnd is copied from the previous header.
CheckpointHeader_StaleRecordEnd ==
  [commit |-> head.commit + 1, snap |-> Len(log), len |-> BlobLen(log[Len(log)].idx),
   recEnd |-> head.recEnd]

\* buildCheckpointHeader
CheckpointHeader ==
  [commit |-> head.commit + 1, snap |-> Len(log), len |-> BlobLen(log[Len(log)].idx),
   recEnd |-> nextOffset]

WriteCheckpointHeader == WriteInactiveHeader("ckpthdr", CheckpointHeader, "ckptsync")

SwitchCheckpointHeader ==
  /\ pc = "ckptsync"
  /\ UNCHANGED <<log, hdr>> /\ Flush
  /\ act' = 1 - act /\ head' = hdr[1 - act]
  /\ mapped' = Len(log)
  /\ Return
  /\ UNCHANGED <<index, byType, nextOffset, copy, host, crashes, faults>>

\* The second remap fails: the header is on disk, the engine stays on the old one.
SwitchRemapFails ==
  /\ pc = "ckptsync" /\ "ckptremap" \in Faults /\ faults < MaxFault /\ faults' = faults + 1
  /\ UNCHANGED <<log, hdr>> /\ Flush
  /\ Return
  /\ UNCHANGED <<mem, copy, host, crashes>>

\* The engine's memory is gone.
Forget ==
  /\ act' = 0 /\ head' = NewHeader
  /\ index' = NoIndex /\ byType' = [k \in Key |-> {}]
  /\ nextOffset' = 1 /\ mapped' = 0
  /\ op' = NoOp /\ pc' = "down"

\* shutdownHandles
ShutdownHandles ==
  /\ pc = "shutdown"
  /\ UNCHANGED <<log, hdr>> /\ Flush
  /\ Forget
  /\ UNCHANGED <<copy, host, crashes, faults>>

\* cleanupHandles runs every step even when the Sync fails.
ShutdownSyncFails ==
  /\ pc = "shutdown" /\ Fails
  /\ Forget
  /\ UNCHANGED <<file, copy, host, crashes>>
-----------------------------------------------------------------------------
(* Compact, and the host's swap of the copy for the file *)

LiveKeys == {k \in Key : index[k] # 0}

\* The copy holds the live records in some order and its own snapshot.
Compact ==
  /\ Idle
  /\ \A k \in LiveKeys : Readable(k)
  /\ \E s \in [1..Cardinality(LiveKeys) -> LiveKeys] :
       /\ {s[i] : i \in DOMAIN s} = LiveKeys
       /\ copy' = [i \in DOMAIN s |-> Frame(s[i], Stored(s[i]))]
                  \o <<Blob([k \in Key |-> IF k \in LiveKeys
                                           THEN CHOOSE i \in DOMAIN s : s[i] = k ELSE 0])>>
  /\ UNCHANGED <<file, mem, pc, op, host, crashes, faults>>

\* The host renames the copy over the closed file.
SwapInCopy ==
  /\ pc = "down" /\ copy # <<>>
  /\ log' = copy
  /\ hdr' = [hdr EXCEPT ![0] = NewHeader,
                        ![1] = [commit |-> 1, snap |-> Len(copy), len |-> Len(copy),
                                recEnd |-> Len(copy)]]
  /\ Flush
  /\ copy' = <<>>
  /\ UNCHANGED <<mem, pc, op, host, crashes, faults>>
-----------------------------------------------------------------------------
(* Crash and Open *)

\* Power fails: what was not flushed survives or not, cell by cell and slot by
\* slot; a cell past the flushed part that is lost leaves residue.
Crash ==
  /\ crashes < MaxCrash /\ crashes' = crashes + 1
  /\ pc # "down" \/ synced < Len(log) \/ hdr # dhdr
  /\ \E n \in synced..Len(log), r \in Residue : \E lost \in SUBSET ((synced + 1)..n) :
       log' = [i \in 1..n |-> IF i \in lost THEN Junk(r) ELSE log[i]]
  /\ \E h \in [Slots -> {"new", "old", "torn"}] :
       /\ \A s \in Slots : hdr[s] = dhdr[s] => h[s] = "new"
       /\ hdr' = [s \in Slots |-> CASE h[s] = "new" -> hdr[s]
                                    [] h[s] = "old" -> dhdr[s]
                                    [] h[s] = "torn" -> TornHeader]
  /\ Flush
  /\ Forget
  /\ UNCHANGED <<copy, host, faults>>

\* Open, up to the point where it has to write: headers, snapshot, scan.
Open ==
  LET a == ActiveSlot(hdr)
      h == hdr[a]
      s == ScanStart(log, h)
  IN
  /\ pc = "down"
  /\ ~IsTorn(h)
  /\ act' = a /\ head' = h
  /\ index' = RecoveredIndex(log, h)
  /\ nextOffset' = RecoveredNextOffset(log, h)
  /\ mapped' = Len(log)
  /\ op' = [kind |-> IF SnapshotCorrupt(log, h) THEN "openclear" ELSE "open", frames |-> <<>>]
  /\ pc' = IF ScanTruncates(log, h, s) THEN "opentrunc" ELSE "openhdr"
  /\ UNCHANGED <<file, byType, copy, host, crashes, faults>>

\* Open drops crash residue past the last valid record.
OpenTruncate ==
  /\ pc = "opentrunc"
  /\ TruncateTail(nextOffset)
  /\ pc' = "openhdr"
  /\ UNCHANGED <<act, head, index, byType, nextOffset, op, copy, host, crashes, faults>>

\* clearActiveSnapshot rewrites the active slot in place, without a Sync.
ClearActiveSnapshot ==
  /\ pc = "openhdr" /\ op.kind = "openclear"
  /\ head' = [head EXCEPT !.snap = 0, !.len = 0]
  /\ hdr' = [hdr EXCEPT ![act] = head']
  /\ op' = [op EXCEPT !.kind = "open"]
  /\ UNCHANGED <<log, synced, dhdr, act, index, byType, nextOffset, mapped, pc, copy, host,
                 crashes, faults>>

\* abortOpen: a write of Open's own fails and the handles are released.
OpenTruncateFails ==
  /\ pc = "opentrunc" /\ Fails
  /\ log' \in {log, SubSeq(log, 1, nextOffset - 1)}
  /\ synced' = IF synced < Len(log') THEN synced ELSE Len(log')
  /\ Forget
  /\ UNCHANGED <<hdr, dhdr, copy, host, crashes>>

ClearActiveSnapshotFails ==
  /\ pc = "openhdr" /\ op.kind = "openclear" /\ Fails
  /\ hdr' \in {hdr, [hdr EXCEPT ![act] = TornHeader]}
  /\ Forget
  /\ UNCHANGED <<log, synced, dhdr, copy, host, crashes>>

\* rebuildByAgentType, and the engine is handed to the caller.
OpenDone ==
  /\ pc = "openhdr" /\ op.kind = "open"
  /\ byType' = RebuildByAgentType(log, mapped, index)
  /\ acked' = [k \in Key |-> Stored(k)]
  /\ pc' = "idle" /\ op' = NoOp /\ copy' = <<>>
  /\ UNCHANGED <<file, act, head, index, nextOffset, mapped, limbo, crashes, faults>>
-----------------------------------------------------------------------------
Batches(S) == UNION {[1..n -> S] : n \in 1..MaxBatch}

Writer ==
  \/ \E recs \in Batches(Key \X Payload) : WriteRecordBatch(recs)
  \/ \E ks \in Batches(Key) : DeleteRecordBatch(ks)
  \/ TrimTailSnapshot \/ TrimFails
  \/ WriteNullSnapshotHeader \/ WriteInactiveHeaderFails("nullhdr")
  \/ SwitchNullHeader \/ HeaderSyncFails
  \/ AppendFrames \/ AppendFails \/ UndoAppendFails
  \/ SyncAndIndex \/ SyncFails

Checkpointer ==
  \/ Checkpoint \/ Close
  \/ \E kind \in {"checkpoint", "close"} : AppendSnapshotFails(kind)
  \/ SyncSnapshot \/ SyncSnapshotFails
  \/ WriteCheckpointHeader \/ WriteInactiveHeaderFails("ckpthdr")
  \/ SwitchCheckpointHeader \/ SwitchRemapFails
  \/ ShutdownHandles \/ ShutdownSyncFails

Opener ==
  \/ Open \/ OpenTruncate \/ OpenTruncateFails
  \/ ClearActiveSnapshot \/ ClearActiveSnapshotFails
  \/ OpenDone

Next == Writer \/ Checkpointer \/ Compact \/ SwapInCopy \/ Crash \/ Opener

Spec == Init /\ [][Next]_vars
-----------------------------------------------------------------------------
(* Properties *)

\* Type invariant: the file, the engine's memory and the host's knowledge.
Frames  == [kind : {"frame"}, key : Key, val : Payload \cup {None}]
Cells   == Frames \cup [kind : {"snap"}, idx : [Key -> Nat]] \cup [kind : {"torn", "zero"}]
Headers == [commit : Nat \cup {-1}, snap : Nat, len : Nat, recEnd : Nat]

PCs == {"down", "idle", "trim", "nullhdr", "nullsync", "append", "sync", "blobsync",
        "ckpthdr", "ckptsync", "shutdown", "opentrunc", "openhdr"}

Ops == [kind : {"none", "append", "checkpoint", "close", "open", "openclear"}, frames : Seq(Frames)]

FileTypeOK ==
  /\ log \in Seq(Cells) /\ copy \in Seq(Cells)
  /\ hdr \in [Slots -> Headers] /\ dhdr \in [Slots -> Headers]
  /\ synced \in 0..Len(log)

EngineTypeOK ==
  /\ act \in Slots /\ head \in Headers
  /\ index \in [Key -> Nat]
  /\ nextOffset \in Nat /\ mapped \in Nat
  /\ pc \in PCs /\ op \in Ops

TypeOK ==
  /\ FileTypeOK /\ EngineTypeOK
  /\ byType \in [Key -> SUBSET Types]
  /\ acked \in [Key -> Payload \cup {None}]
  /\ limbo \in [Key -> SUBSET (Payload \cup {None})]
  /\ crashes \in Nat /\ faults \in Nat

\* An index over the cells below e names, for each key, a live frame of that key.
SoundIndex(idx, l, e) ==
  \A k \in Key : idx[k] # 0 =>
    /\ idx[k] < e /\ idx[k] <= Len(l)
    /\ IsFrame(l[idx[k]]) /\ l[idx[k]].key = k /\ l[idx[k]].val # None

\* The index never names a frame the record area does not hold: ReadRecord
\* answers a key with that key's own newest record and never with the
\* ErrCorruption it reserves for an index that disagrees with the log
\* (engine_read.go).  Snapshots in the file carry sound indexes too.
IndexNamesOwnRecord ==
  /\ SoundIndex(index, log, nextOffset)
  /\ \A p \in 1..Len(log) : IsBlob(log[p]) => SoundIndex(log[p].idx, log, p)

\* Between operations a read answers what was acknowledged or recovered,
\* whatever operation failed before it; with one exception, the "known ceiling"
\* of engine_write.go:98: once a truncation has failed and left the mapping
\* dropped, every stored record answers ErrCorruption until an operation maps
\* the file again.  A mapping that is there reaches every record.
ReadsAnswerStore ==
  Idle => \A k \in Key :
            ReadRecord(k) = IF mapped = 0 /\ acked[k] # None THEN {} ELSE {acked[k]}

\* The type index lists each live key under exactly its record's type, so
\* IndexByType enumerates what the primary index holds, through overwrites that
\* change a type, deletes, failed operations and recovery.
TypeIndexAgrees ==
  Idle => \A k \in Key :
            byType[k] = IF index[k] = 0 THEN {} ELSE {log[index[k]].val.rt}

\* Trimming the tail snapshot can only cut snapshots and residue: nothing the
\* index names lies at or past nextOffset, where the truncate falls.
TrimCutsNoRecord == \A k \in Key : index[k] < nextOffset

\* The record area ends inside the file, whatever failed and whatever recovery
\* had to work from: the truncate that trims a tail snapshot never grows the
\* file and never reaches into the headers (Open's fallback for a missing
\* RecordEnd, walkRecordArea, would allow it on a file without records).
TruncationPointInFile == nextOffset \in 1..(Len(log) + 1)

\* The slot the engine believes active is the slot a restart would select, and
\* the header it writes next outranks both: the A/B choice by commit number
\* never revives an older header.
ActiveHeaderIsNewest ==
  Idle => /\ ActiveSlot(hdr) = act
          /\ hdr[act].commit = head.commit
          /\ hdr[1 - act].commit <= head.commit + 1

\* A restart keeps every acknowledged update: the engine implements the map of
\* DurableStore across crashes, torn writes and failed I/O calls.
Store == INSTANCE DurableStore WITH Keys <- Key, Values <- Payload, store <- acked
Durable == Store!Spec

\* The snapshot and a full scan of the same bytes give the same answers, as
\* snapshot_vs_scan_test.go says: "the same bytes must answer identically either way".
SnapshotAgreesWithScan ==
  Idle /\ SnapshotLoads(log, head) =>
    LET scan == Replay(log, NoIndex, 1, Len(log) + 1)
    IN  \A k \in Key : Stored(k) = IF scan[k] = 0 THEN None ELSE log[scan[k]].val

\* Some header slot is always readable, so Open finds the file: the A/B pair
\* exists so that one torn slot never blocks Open.
SomeHeaderValid == ~IsTorn(hdr[ActiveSlot(hdr)])
=============================================================================
