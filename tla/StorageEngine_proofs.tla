------------------------- MODULE StorageEngine_proofs -------------------------
(***************************************************************************)
(* Facts about StorageEngine that hold for any number of domains, ids and  *)
(* crashes.                                                                *)
(*   - Whichever I/O calls fail, the file and the engine's memory keep     *)
(*     their shape and a truncate falls inside the file (IInv).            *)
(*   - While header calls do not fail and a crash finds the active header  *)
(*     on disk, index and snapshots name records of their own keys (SInv)  *)
(*     and reads answer what was acknowledged (AnswerInv).                 *)
(*   - If besides no checkpoint header write fails and a crash leaves no   *)
(*     zero fill, the engine implements DurableStore (DInv); if neither a  *)
(*     flush nor an undo fails either, the snapshot and a scan of the log  *)
(*     agree (XInv).                                                       *)
(***************************************************************************)
EXTENDS StorageEngine, NaturalsInduction, FiniteSetTheorems, SequenceTheorems, TLAPS

\* A header that names a snapshot says where the record area before it ends.
HeaderOK(h) == h.snap # 0 => h.recEnd \in 1..h.snap

HeadersOK ==
  /\ HeaderOK(head)
  /\ \A s \in Slots : HeaderOK(hdr[s]) /\ HeaderOK(dhdr[s])

\* What an operation has put at the end of the file between two of its calls.
PendingTail ==
  /\ pc \in {"blobsync", "ckpthdr"} =>
       Len(log) > 0 /\ IsBlob(log[Len(log)]) /\ nextOffset <= Len(log)
  /\ pc = "sync" => Len(op.frames) <= Len(log)

\* An engine that is not running remembers no record area.
DownInv == pc = "down" => nextOffset = 1

IInv == FileTypeOK /\ EngineTypeOK /\ TruncationPointInFile /\ HeadersOK /\ PendingTail /\ DownInv
-----------------------------------------------------------------------------
\* A non-empty set of naturals has a first element.
LEMMA FirstIsMember ==
  ASSUME NEW S \in SUBSET Nat, S # {}
  PROVE  First(S) \in S /\ \A j \in S : First(S) <= j
<1> DEFINE R == {ss \in Nat \X Nat : ss[1] < ss[2]}
<1>1. IsWellFoundedOn(R, Nat)
  BY NatLessThanWellFounded DEF OpToRel
<1> HIDE DEF R
<1>2. PICK x \in S : \A y \in S : ~(<<y, x>> \in R)
  BY <1>1, WFMin
<1>3. ASSUME NEW y \in S  PROVE x <= y
  <2>1. x \in Nat /\ y \in Nat /\ ~(<<y, x>> \in R)
    BY <1>2
  <2>2. ~(y < x)
    BY <2>1 DEF R
  <2>3. QED  BY <2>1, <2>2
<1>4. QED  BY <1>3 DEF First

\* A non-empty bounded set of naturals has a last element.
LEMMA LastIsMember ==
  ASSUME NEW n \in Nat, NEW S \in SUBSET (0..n), S # {}
  PROVE  Last(S) \in S /\ \A j \in S : j <= Last(S)
<1> DEFINE T == {m \in 0..n : n - m \in S}
<1>1. T \in SUBSET Nat
  OBVIOUS
<1>2. PICK i \in S : TRUE
  OBVIOUS
<1>3. n - i \in 0..n /\ n - (n - i) = i
  OBVIOUS
<1>4. T # {}
  BY <1>3
<1>5. First(T) \in T /\ \A j \in T : First(T) <= j
  BY <1>1, <1>4, FirstIsMember
<1>6. ASSUME NEW j \in S  PROVE j <= n - First(T)
  <2>1. n - j \in 0..n /\ n - (n - j) = j
    OBVIOUS
  <2>2. First(T) <= n - j
    BY <1>5, <2>1
  <2>3. QED  BY <1>5, <2>2
<1>7. \E x \in S : \A j \in S : j <= x
  BY <1>5, <1>6
<1>8. QED  BY <1>7 DEF Last

\* What a truncate at n leaves.
LEMMA Truncated ==
  ASSUME NEW l \in Seq(Cells), NEW n \in 1..(Len(l) + 1)
  PROVE  SubSeq(l, 1, n - 1) \in Seq(Cells) /\ Len(SubSeq(l, 1, n - 1)) = n - 1
BY SubSeqProperties

\* A blob's length is a number.
LEMMA BlobLenType ==
  ASSUME NEW idx  PROVE BlobLen(idx) \in Nat
<1>1. IsFiniteSet({k \in Key : idx[k] # 0})
  BY ConstantsOK, FS_Subset
<1>2. Cardinality({k \in Key : idx[k] # 0}) \in Nat
  BY <1>1, FS_CardinalityType
<1>3. QED  BY <1>2 DEF BlobLen

\* A cell that is a frame or a blob has the fields of one.
LEMMA CellShapes ==
  ASSUME NEW c \in Cells
  PROVE  /\ IsFrame(c) => c \in Frames /\ c.key \in Key /\ c.val \in Payload \cup {None}
         /\ IsBlob(c) => c.idx \in [Key -> Nat]
BY DEF Cells, Frames, IsFrame, IsBlob

\* The scan ends at a cell of the file or right behind it.
LEMMA ScanEndBounds ==
  ASSUME NEW l \in Seq(Cells), NEW h \in Headers, NEW s \in 1..(Len(l) + 1)
  PROVE  ScanEnd(l, h, s) \in s..(Len(l) + 1)
<1> DEFINE S == ScanStops(l, h, s)
<1>1. S \subseteq s..Len(l)
  BY DEF ScanStops
<1>2. CASE S = {}
  BY <1>2 DEF ScanEnd
<1>3. CASE S # {}
  <2>1. First(S) \in S
    BY <1>1, <1>3, FirstIsMember
  <2>2. QED  BY <1>1, <1>3, <2>1 DEF ScanEnd
<1>4. QED  BY <1>2, <1>3

\* Replaying frames over an index gives an index.
LEMMA ReplayType ==
  ASSUME NEW l \in Seq(Cells), NEW base \in [Key -> Nat],
         NEW s \in 1..(Len(l) + 1), NEW e \in s..(Len(l) + 1)
  PROVE  Replay(l, base, s, e) \in [Key -> Nat]
<1>1. ASSUME NEW k \in Key, FramesOf(l, k, s, e) # {}
      PROVE  Last(FramesOf(l, k, s, e)) \in Nat
  <2>1. FramesOf(l, k, s, e) \in SUBSET (0..Len(l))
    BY DEF FramesOf
  <2>2. Len(l) \in Nat
    OBVIOUS
  <2>3. Last(FramesOf(l, k, s, e)) \in FramesOf(l, k, s, e)
    BY <1>1, <2>1, <2>2, LastIsMember
  <2>4. QED  BY <2>1, <2>2, <2>3
<1>2. QED  BY <1>1 DEF Replay

\* Where the scan starts and what it starts from.
LEMMA BaseBounds ==
  ASSUME NEW l \in Seq(Cells), NEW h \in Headers
  PROVE  ScanStart(l, h) \in 1..(Len(l) + 1) /\ BaseIndex(l, h) \in [Key -> Nat]
<1>1. CASE SnapshotLoads(l, h)
  <2>1. h.snap \in 1..Len(l) /\ l[h.snap] \in Cells /\ IsBlob(l[h.snap])
    BY <1>1 DEF SnapshotLoads
  <2>2. QED  BY <1>1, <2>1, CellShapes DEF ScanStart, BaseIndex
<1>2. CASE ~SnapshotLoads(l, h)
  BY <1>2 DEF ScanStart, BaseIndex, NoIndex
<1>3. QED  BY <1>1, <1>2

\* Open computes an index, and a record-area end inside the file: a header that
\* loads carries its RecordEnd, so the walk over the file is never needed.
LEMMA RecoveredBounds ==
  ASSUME NEW l \in Seq(Cells), NEW h \in Headers, HeaderOK(h)
  PROVE  /\ RecoveredIndex(l, h) \in [Key -> Nat]
         /\ RecoveredNextOffset(l, h) \in 1..(Len(l) + 1)
<1> DEFINE s == ScanStart(l, h)
           e == ScanEnd(l, h, s)
<1>1. s \in 1..(Len(l) + 1) /\ e \in s..(Len(l) + 1) /\ BaseIndex(l, h) \in [Key -> Nat]
  BY BaseBounds, ScanEndBounds
<1>2. RecoveredIndex(l, h) \in [Key -> Nat]
  BY <1>1, ReplayType DEF RecoveredIndex
<1>3. CASE ~ScanTruncates(l, h, s) /\ SnapshotLoads(l, h) /\ e = s
  <2>1. h.snap \in 1..Len(l) /\ h.recEnd \in 1..h.snap
    BY <1>3 DEF SnapshotLoads, HeaderOK
  <2>2. h.recEnd \in 1..(Len(l) + 1) /\ RecoverRecordAreaEnd(l, h) = h.recEnd
    BY <2>1 DEF RecoverRecordAreaEnd
  <2>3. QED  BY <1>2, <1>3, <2>2 DEF RecoveredNextOffset
<1>4. CASE ~(~ScanTruncates(l, h, s) /\ SnapshotLoads(l, h) /\ e = s)
  BY <1>1, <1>2, <1>4 DEF RecoveredNextOffset
<1>5. QED  BY <1>3, <1>4
-----------------------------------------------------------------------------
\* The headers the engine writes are headers, and RecordEnd is set with the snapshot.
LEMMA WrittenHeaders ==
  /\ NewHeader \in Headers /\ HeaderOK(NewHeader)
  /\ TornHeader \in Headers /\ HeaderOK(TornHeader)
  /\ head \in Headers => LET h == [head EXCEPT !.snap = 0, !.len = 0]
                         IN  h \in Headers /\ HeaderOK(h)
<1>1. NewHeader \in Headers /\ TornHeader \in Headers
  BY DEF NewHeader, TornHeader, Headers
<1>2. HeaderOK(NewHeader) /\ HeaderOK(TornHeader)
  BY DEF NewHeader, TornHeader, HeaderOK
<1>3. head \in Headers => LET h == [head EXCEPT !.snap = 0, !.len = 0]
                         IN  h \in Headers /\ HeaderOK(h)
  BY DEF Headers, HeaderOK
<1>4. QED  BY <1>1, <1>2, <1>3

\* The start of a batch, and the switches that leave the file's cells alone.
LEMMA StartAppendKeeps ==
  ASSUME IInv, NEW frames \in Seq(Frames), StartAppend(frames)
  PROVE  IInv'
BY DEF IInv, StartAppend, FileTypeOK, EngineTypeOK, TruncationPointInFile, HeadersOK, PendingTail,
       DownInv, Idle, file, mem, Ops, PCs

\* What a host passes in is a sequence of frames.
LEMMA RequestsAreFrames ==
  /\ \A recs \in Batches(Key \X Payload) :
       [i \in DOMAIN recs |-> Frame(recs[i][1], recs[i][2])] \in Seq(Frames)
  /\ \A ks \in Batches(Key) : [i \in DOMAIN ks |-> Frame(ks[i], None)] \in Seq(Frames)
<1>1. ASSUME NEW recs \in Batches(Key \X Payload)
      PROVE  [i \in DOMAIN recs |-> Frame(recs[i][1], recs[i][2])] \in Seq(Frames)
  <2>1. PICK n \in 1..MaxBatch : recs \in [1..n -> Key \X Payload]
    BY DEF Batches
  <2>2. n \in Nat
    BY ConstantsOK
  <2>3. \A i \in 1..n : Frame(recs[i][1], recs[i][2]) \in Frames
    BY <2>1 DEF Frame, Frames
  <2>4. QED  BY <2>1, <2>2, <2>3, IsASeq
<1>2. ASSUME NEW ks \in Batches(Key)
      PROVE  [i \in DOMAIN ks |-> Frame(ks[i], None)] \in Seq(Frames)
  <2>1. PICK n \in 1..MaxBatch : ks \in [1..n -> Key]
    BY DEF Batches
  <2>2. n \in Nat
    BY ConstantsOK
  <2>3. \A i \in 1..n : Frame(ks[i], None) \in Frames
    BY <2>1 DEF Frame, Frames
  <2>4. QED  BY <2>1, <2>2, <2>3, IsASeq
<1>3. QED  BY <1>1, <1>2

\* Whatever an operation returns to, nothing is pending.
LEMMA ReturnType == Return => op' \in Ops /\ pc' \in {"idle", "shutdown"}
BY DEF Return, NoOp, Ops

\* So it is when the engine's memory is gone.
LEMMA ForgetType ==
  Forget => /\ act' \in Slots /\ head' \in Headers /\ index' \in [Key -> Nat]
            /\ nextOffset' = 1 /\ mapped' \in Nat /\ op' \in Ops /\ pc' = "down" /\ HeaderOK(head')
BY WrittenHeaders DEF Forget, NoIndex, NoOp, Ops, Slots

\* trimTailSnapshot's truncate and Open's: the file is cut at nextOffset, which
\* lies in it.
LEMMA TruncateKeeps ==
  ASSUME IInv, TrimTailSnapshot \/ OpenTruncate
  PROVE  IInv'
<1>1. /\ nextOffset \in 1..(Len(log) + 1)
      /\ SubSeq(log, 1, nextOffset - 1) \in Seq(Cells)
      /\ Len(SubSeq(log, 1, nextOffset - 1)) = nextOffset - 1
  BY Truncated DEF IInv, FileTypeOK, TruncationPointInFile
<1>2. /\ log' = SubSeq(log, 1, nextOffset - 1) /\ mapped' = nextOffset - 1
      /\ synced' = Len(log') /\ dhdr' = hdr /\ pc' \in {"nullhdr", "openhdr"}
      /\ UNCHANGED <<hdr, act, head, index, nextOffset, op, copy>>
  BY DEF TrimTailSnapshot, OpenTruncate, TruncateTail, Flush
<1>3. FileTypeOK'
  BY <1>1, <1>2 DEF FileTypeOK, IInv
<1>4. EngineTypeOK'
  BY <1>1, <1>2 DEF EngineTypeOK, PCs, IInv
<1>5. TruncationPointInFile'
  BY <1>1, <1>2 DEF TruncationPointInFile, FileTypeOK, EngineTypeOK, IInv
<1>6. HeadersOK'
  BY <1>2 DEF HeadersOK, FileTypeOK, EngineTypeOK, IInv
<1>7. (PendingTail /\ DownInv)'
  BY <1>2 DEF PendingTail, DownInv, IInv
<1>8. QED  BY <1>3, <1>4, <1>5, <1>6, <1>7 DEF IInv

\* The same when one of its calls fails.
LEMMA TrimFailsKeeps ==
  ASSUME IInv, TrimFails
  PROVE  IInv'
<1>1. /\ nextOffset \in 1..(Len(log) + 1)
      /\ SubSeq(log, 1, nextOffset - 1) \in Seq(Cells)
      /\ Len(SubSeq(log, 1, nextOffset - 1)) = nextOffset - 1
  BY Truncated DEF IInv, FileTypeOK, TruncationPointInFile
<1>2. /\ log' \in {log, SubSeq(log, 1, nextOffset - 1)} /\ mapped' \in {mapped, 0}
      /\ synced' = IF synced < Len(log') THEN synced ELSE Len(log')
      /\ op' \in Ops /\ pc' \in {"idle", "shutdown"}
      /\ UNCHANGED <<hdr, dhdr, act, head, index, nextOffset, copy>>
  BY ReturnType DEF TrimFails, TruncateTailFails
<1>3. FileTypeOK'
  BY <1>1, <1>2 DEF FileTypeOK, IInv
<1>4. EngineTypeOK'
  BY <1>1, <1>2 DEF EngineTypeOK, PCs, IInv
<1>5. TruncationPointInFile'
  BY <1>1, <1>2 DEF TruncationPointInFile, FileTypeOK, EngineTypeOK, IInv
<1>6. HeadersOK'
  BY <1>2 DEF HeadersOK, FileTypeOK, EngineTypeOK, IInv
<1>7. (PendingTail /\ DownInv)'
  BY <1>2 DEF PendingTail, DownInv, IInv
<1>8. QED  BY <1>3, <1>4, <1>5, <1>6, <1>7 DEF IInv

\* Open's own truncate fails and the handles are released.
LEMMA OpenTruncateFailsKeeps ==
  ASSUME IInv, OpenTruncateFails
  PROVE  IInv'
<1>1. /\ nextOffset \in 1..(Len(log) + 1)
      /\ SubSeq(log, 1, nextOffset - 1) \in Seq(Cells)
      /\ Len(SubSeq(log, 1, nextOffset - 1)) = nextOffset - 1
  BY Truncated DEF IInv, FileTypeOK, TruncationPointInFile
<1>2. /\ log' \in {log, SubSeq(log, 1, nextOffset - 1)}
      /\ synced' = IF synced < Len(log') THEN synced ELSE Len(log')
      /\ Forget
      /\ UNCHANGED <<hdr, dhdr, copy>>
  BY DEF OpenTruncateFails
<1>3. log' \in Seq(Cells) /\ Len(log') \in Nat
  BY <1>1, <1>2 DEF IInv, FileTypeOK
<1>4. FileTypeOK'
  BY <1>2, <1>3 DEF FileTypeOK, IInv
<1>5. EngineTypeOK'
  BY <1>2, ForgetType DEF EngineTypeOK, PCs, IInv
<1>6. TruncationPointInFile'
  BY <1>2, <1>3, ForgetType DEF TruncationPointInFile, FileTypeOK, EngineTypeOK, IInv
<1>7. HeadersOK'
  BY <1>2, ForgetType DEF HeadersOK, FileTypeOK, EngineTypeOK, IInv
<1>8. (PendingTail /\ DownInv)'
  BY <1>2, ForgetType DEF PendingTail, DownInv, IInv
<1>9. QED  BY <1>4, <1>5, <1>6, <1>7, <1>8 DEF IInv

\* writeInactiveHeader keeps the invariant for any well-formed header.
LEMMA WriteInactiveHeaderKeeps ==
  ASSUME IInv, NEW from, NEW h \in Headers, HeaderOK(h), NEW to \in {"nullsync", "ckptsync"},
         WriteInactiveHeader(from, h, to)
  PROVE  IInv'
<1>1. /\ hdr' = [hdr EXCEPT ![1 - act] = h] /\ pc' = to
      /\ UNCHANGED <<log, synced, dhdr, act, head, index, nextOffset, mapped, op, copy>>
  BY DEF WriteInactiveHeader, mem
<1>2. FileTypeOK'
  BY <1>1 DEF FileTypeOK, IInv
<1>3. EngineTypeOK'
  BY <1>1 DEF EngineTypeOK, PCs, IInv
<1>4. TruncationPointInFile'
  BY <1>1 DEF TruncationPointInFile, FileTypeOK, EngineTypeOK, IInv
<1>5. HeadersOK'
  BY <1>1 DEF HeadersOK, FileTypeOK, EngineTypeOK, IInv
<1>6. (PendingTail /\ DownInv)'
  BY <1>1 DEF PendingTail, DownInv, IInv
<1>7. QED  BY <1>2, <1>3, <1>4, <1>5, <1>6 DEF IInv

\* A header write that fails leaves the slot as it was or torn.
LEMMA WriteInactiveHeaderFailsKeeps ==
  ASSUME IInv, NEW from, WriteInactiveHeaderFails(from)
  PROVE  IInv'
<1>1. /\ hdr' \in {hdr, [hdr EXCEPT ![1 - act] = TornHeader]}
      /\ op' \in Ops /\ pc' \in {"idle", "shutdown"}
      /\ UNCHANGED <<log, synced, dhdr, act, head, index, nextOffset, mapped, copy>>
  BY ReturnType DEF WriteInactiveHeaderFails, mem
<1>2. FileTypeOK'
  BY <1>1, WrittenHeaders DEF FileTypeOK, IInv
<1>3. EngineTypeOK'
  BY <1>1 DEF EngineTypeOK, PCs, IInv
<1>4. TruncationPointInFile'
  BY <1>1 DEF TruncationPointInFile, FileTypeOK, EngineTypeOK, IInv
<1>5. HeadersOK'
  BY <1>1, WrittenHeaders DEF HeadersOK, FileTypeOK, EngineTypeOK, IInv
<1>6. (PendingTail /\ DownInv)'
  BY <1>1 DEF PendingTail, DownInv, IInv
<1>7. QED  BY <1>2, <1>3, <1>4, <1>5, <1>6 DEF IInv

\* switchHeader: the slot just written becomes the active one.
LEMMA SwitchKeeps ==
  ASSUME IInv, SwitchNullHeader \/ SwitchCheckpointHeader
  PROVE  IInv'
<1>1. /\ synced' = Len(log) /\ dhdr' = hdr /\ act' = 1 - act /\ head' = hdr[1 - act]
      /\ mapped' \in {mapped, Len(log)}
      /\ UNCHANGED <<log, hdr, index, nextOffset, copy>>
  BY DEF SwitchNullHeader, SwitchCheckpointHeader, Flush
<1>2. op' \in Ops /\ pc' \in {"append", "idle", "shutdown"}
  BY ReturnType DEF SwitchNullHeader, SwitchCheckpointHeader, IInv, EngineTypeOK
<1>3. 1 - act \in Slots /\ hdr[1 - act] \in Headers
  BY DEF IInv, EngineTypeOK, FileTypeOK, Slots
<1>4. FileTypeOK'
  BY <1>1, <1>2, <1>3 DEF FileTypeOK, IInv
<1>5. EngineTypeOK'
  BY <1>1, <1>2, <1>3 DEF EngineTypeOK, PCs, IInv, FileTypeOK
<1>6. TruncationPointInFile'
  BY <1>1, <1>2, <1>3 DEF TruncationPointInFile, FileTypeOK, EngineTypeOK, IInv
<1>7. HeadersOK'
  BY <1>1, <1>2, <1>3 DEF HeadersOK, FileTypeOK, EngineTypeOK, IInv
<1>8. (PendingTail /\ DownInv)'
  BY <1>1, <1>2, <1>3 DEF PendingTail, DownInv, IInv
<1>9. QED  BY <1>4, <1>5, <1>6, <1>7, <1>8 DEF IInv

\* The calls that only flush, map or fail to.
LEMMA SyncOutcomesKeep ==
  ASSUME IInv, HeaderSyncFails \/ SyncFails \/ SyncSnapshot \/ SyncSnapshotFails \/ SwitchRemapFails
  PROVE  IInv'
<1>1. /\ \/ synced' = Len(log) /\ dhdr' = hdr
         \/ UNCHANGED <<synced, dhdr>>
      /\ mapped' \in {mapped, Len(log)}
      /\ UNCHANGED <<log, hdr, act, head, index, nextOffset, copy>>
  BY DEF HeaderSyncFails, SyncFails, SyncSnapshot, SyncSnapshotFails, SwitchRemapFails, Flush, mem, file
<1>2. /\ op' \in Ops
      /\ pc' \in {"idle", "shutdown"} \/ (pc = "blobsync" /\ pc' = "ckpthdr")
  BY ReturnType DEF HeaderSyncFails, SyncFails, SyncSnapshot, SyncSnapshotFails, SwitchRemapFails,
     IInv, EngineTypeOK
<1>3. FileTypeOK'
  BY <1>1, <1>2 DEF FileTypeOK, IInv
<1>4. EngineTypeOK'
  BY <1>1, <1>2 DEF EngineTypeOK, PCs, IInv, FileTypeOK
<1>5. TruncationPointInFile'
  BY <1>1, <1>2 DEF TruncationPointInFile, FileTypeOK, EngineTypeOK, IInv
<1>6. HeadersOK'
  BY <1>1, <1>2 DEF HeadersOK, FileTypeOK, EngineTypeOK, IInv
<1>7. (PendingTail /\ DownInv)'
  BY <1>1, <1>2 DEF PendingTail, DownInv, IInv
<1>8. QED  BY <1>3, <1>4, <1>5, <1>6, <1>7 DEF IInv

\* The null header and the checkpoint header are well formed.
LEMMA NextHeaders ==
  ASSUME IInv
  PROVE  /\ pc = "nullhdr" => NullHeader \in Headers /\ HeaderOK(NullHeader)
         /\ pc = "ckpthdr" => CheckpointHeader \in Headers /\ HeaderOK(CheckpointHeader)
<1> USE DEF IInv, FileTypeOK, EngineTypeOK, TruncationPointInFile, PendingTail, HeaderOK
<1>1. head.commit + 1 \in Nat
  BY DEF Headers
<1>2. NullHeader \in Headers /\ HeaderOK(NullHeader)
  BY <1>1, ZenonT(30) DEF NullHeader, Headers
<1>3. Len(log) \in Nat /\ BlobLen(log[Len(log)].idx) \in Nat
  BY BlobLenType
<1>4. pc = "ckpthdr" => CheckpointHeader \in Headers /\ HeaderOK(CheckpointHeader)
  BY <1>1, <1>3 DEF CheckpointHeader, Headers
<1>5. QED  BY <1>2, <1>4

\* appendFrames: the batch goes behind the file's last cell.
LEMMA AppendFramesKeeps ==
  ASSUME IInv, AppendFrames
  PROVE  IInv'
<1>1. /\ log' = log \o op.frames /\ nextOffset' = Len(log') + 1 /\ pc' = "sync"
      /\ UNCHANGED <<hdr, synced, dhdr, act, head, index, mapped, op, copy>>
  BY DEF AppendFrames
<1>2. op.frames \in Seq(Frames) /\ op.frames \in Seq(Cells) /\ log \in Seq(Cells)
  BY DEF IInv, FileTypeOK, EngineTypeOK, Ops, Cells
<1>3. log' \in Seq(Cells) /\ Len(log') = Len(log) + Len(op.frames)
  BY <1>1, <1>2, ConcatProperties
<1>4. Len(log) \in Nat /\ Len(op.frames) \in Nat
  BY <1>2
<1>5. FileTypeOK'
  BY <1>1, <1>2, <1>3, <1>4 DEF FileTypeOK, IInv
<1>6. EngineTypeOK'
  BY <1>1, <1>2, <1>3, <1>4 DEF EngineTypeOK, PCs, IInv
<1>7. TruncationPointInFile'
  BY <1>1, <1>2, <1>3, <1>4 DEF TruncationPointInFile, FileTypeOK, EngineTypeOK, IInv
<1>8. HeadersOK'
  BY <1>1, <1>2, <1>3, <1>4 DEF HeadersOK, FileTypeOK, EngineTypeOK, IInv
<1>9. (PendingTail /\ DownInv)'
  BY <1>1, <1>2, <1>3, <1>4 DEF PendingTail, DownInv, IInv
<1>10. QED  BY <1>5, <1>6, <1>7, <1>8, <1>9 DEF IInv

\* undoAppend cuts back to where the batch started.
LEMMA AppendFailsKeeps ==
  ASSUME IInv, AppendFails
  PROVE  IInv'
<1>1. /\ log' = SubSeq(log, 1, (Len(log) + 1) - 1) /\ mapped' = (Len(log) + 1) - 1
      /\ synced' = Len(log') /\ dhdr' = hdr
      /\ op' \in Ops /\ pc' \in {"idle", "shutdown"}
      /\ UNCHANGED <<hdr, act, head, index, nextOffset, copy>>
  BY ReturnType DEF AppendFails, TruncateTail, Flush
<1>2. log \in Seq(Cells) /\ Len(log) \in Nat
  BY DEF IInv, FileTypeOK
<1>3. log' \in Seq(Cells) /\ Len(log') = Len(log)
  BY <1>1, <1>2, Truncated
<1>4. FileTypeOK'
  BY <1>1, <1>2, <1>3 DEF FileTypeOK, IInv
<1>5. EngineTypeOK'
  BY <1>1, <1>2, <1>3 DEF EngineTypeOK, PCs, IInv
<1>6. TruncationPointInFile'
  BY <1>1, <1>2, <1>3 DEF TruncationPointInFile, FileTypeOK, EngineTypeOK, IInv
<1>7. HeadersOK'
  BY <1>1, <1>2, <1>3 DEF HeadersOK, FileTypeOK, EngineTypeOK, IInv
<1>8. (PendingTail /\ DownInv)'
  BY <1>1, <1>2, <1>3 DEF PendingTail, DownInv, IInv
<1>9. QED  BY <1>4, <1>5, <1>6, <1>7, <1>8 DEF IInv

\* When that fails too, part of the batch and a torn frame may stay behind.
LEMMA UndoAppendFailsKeeps ==
  ASSUME IInv, UndoAppendFails
  PROVE  IInv'
<1>1. /\ mapped' = 0 /\ op' \in Ops /\ pc' \in {"idle", "shutdown"}
      /\ UNCHANGED <<hdr, synced, dhdr, act, head, index, nextOffset, copy>>
  BY ReturnType DEF UndoAppendFails
<1>2. log \in Seq(Cells) /\ op.frames \in Seq(Cells) /\ Len(log) \in Nat
  BY DEF IInv, FileTypeOK, EngineTypeOK, Ops, Cells
<1>3. log' \in Seq(Cells) /\ Len(log') \in Nat /\ Len(log) <= Len(log')
  <2>1. CASE log' = log
    BY <1>2, <2>1
  <2>2. ASSUME NEW n \in 0..(Len(op.frames) - 1),
               log' = (log \o SubSeq(op.frames, 1, n)) \o <<Junk("torn")>>
        PROVE  log' \in Seq(Cells) /\ Len(log') \in Nat /\ Len(log) <= Len(log')
    <3>1. SubSeq(op.frames, 1, n) \in Seq(Cells)
      BY <1>2, SubSeqProperties
    <3>2. <<Junk("torn")>> \in Seq(Cells)
      BY DEF Junk, Cells
    <3>3. log' \in Seq(Cells) /\ Len(log') = (Len(log) + Len(SubSeq(op.frames, 1, n))) + 1
      BY <1>2, <2>2, <3>1, <3>2, ConcatProperties
    <3>4. QED  BY <1>2, <3>1, <3>3
  <2>3. QED  BY <2>1, <2>2 DEF UndoAppendFails
<1>4. FileTypeOK'
  BY <1>1, <1>2, <1>3 DEF FileTypeOK, IInv
<1>5. EngineTypeOK'
  BY <1>1, <1>3 DEF EngineTypeOK, PCs, IInv
<1>6. TruncationPointInFile'
  BY <1>1, <1>2, <1>3 DEF TruncationPointInFile, FileTypeOK, EngineTypeOK, IInv
<1>7. HeadersOK'
  BY <1>1 DEF HeadersOK, FileTypeOK, EngineTypeOK, IInv
<1>8. (PendingTail /\ DownInv)'
  BY <1>1 DEF PendingTail, DownInv, IInv
<1>9. QED  BY <1>4, <1>5, <1>6, <1>7, <1>8 DEF IInv

\* The acknowledgement of a batch.
LEMMA SyncAndIndexKeeps ==
  ASSUME IInv, SyncAndIndex
  PROVE  IInv'
<1>1. /\ synced' = Len(log) /\ dhdr' = hdr /\ mapped' = Len(log) /\ index' = IndexAfterBatch
      /\ op' \in Ops /\ pc' \in {"idle", "shutdown"} /\ copy' = <<>>
      /\ UNCHANGED <<log, hdr, act, head, nextOffset>>
  BY ReturnType DEF SyncAndIndex, Flush
<1>2. Len(log) \in Nat /\ Len(op.frames) \in Nat /\ DOMAIN op.frames = 1..Len(op.frames)
  BY DEF IInv, FileTypeOK, EngineTypeOK, Ops
<1>3. BatchStart \in Nat
  BY <1>2 DEF IInv, PendingTail, BatchStart, SyncAndIndex
<1>4. ASSUME NEW k \in Key, InBatch(k) # {}  PROVE Last(InBatch(k)) \in Nat
  <2>1. InBatch(k) \in SUBSET (0..Len(op.frames))
    BY <1>2 DEF InBatch
  <2>2. Last(InBatch(k)) \in InBatch(k)
    BY <1>2, <1>4, <2>1, LastIsMember
  <2>3. QED  BY <1>2, <2>1, <2>2
<1>5. IndexAfterBatch \in [Key -> Nat]
  BY <1>3, <1>4 DEF IndexAfterBatch, IInv, EngineTypeOK
<1>6. copy' \in Seq(Cells)
  BY <1>1
<1>7. FileTypeOK'
  BY <1>1, <1>2, <1>5, <1>6 DEF FileTypeOK, IInv
<1>8. EngineTypeOK'
  BY <1>1, <1>2, <1>5, <1>6 DEF EngineTypeOK, PCs, IInv
<1>9. TruncationPointInFile'
  BY <1>1, <1>2, <1>5, <1>6 DEF TruncationPointInFile, FileTypeOK, EngineTypeOK, IInv
<1>10. HeadersOK'
  BY <1>1, <1>2, <1>5, <1>6 DEF HeadersOK, FileTypeOK, EngineTypeOK, IInv
<1>11. (PendingTail /\ DownInv)'
  BY <1>1, <1>2, <1>5, <1>6 DEF PendingTail, DownInv, IInv
<1>12. QED  BY <1>7, <1>8, <1>9, <1>10, <1>11 DEF IInv

\* appendSnapshot's first call: the blob goes behind the file's last cell.
LEMMA AppendSnapshotKeeps ==
  ASSUME IInv, NEW kind \in {"checkpoint", "close"}, AppendSnapshot(kind)
  PROVE  IInv'
<1>1. /\ log' = Append(log, Blob(index)) /\ op' = [kind |-> kind, frames |-> <<>>] /\ pc' = "blobsync"
      /\ UNCHANGED <<hdr, synced, dhdr, act, head, index, nextOffset, mapped, copy>>
  BY DEF AppendSnapshot, mem
<1>2. log \in Seq(Cells) /\ Len(log) \in Nat /\ Blob(index) \in Cells /\ IsBlob(Blob(index))
  BY DEF IInv, FileTypeOK, EngineTypeOK, Blob, IsBlob, Cells
<1>3. log' \in Seq(Cells) /\ Len(log') = Len(log) + 1 /\ log'[Len(log')] = Blob(index)
  BY <1>1, <1>2, AppendProperties
<1>4. op' \in Ops
  BY <1>1 DEF Ops
<1>5. FileTypeOK'
  BY <1>1, <1>2, <1>3, <1>4 DEF FileTypeOK, IInv
<1>6. EngineTypeOK'
  BY <1>1, <1>2, <1>3, <1>4 DEF EngineTypeOK, PCs, IInv
<1>7. TruncationPointInFile'
  BY <1>1, <1>2, <1>3, <1>4 DEF TruncationPointInFile, FileTypeOK, EngineTypeOK, IInv
<1>8. HeadersOK'
  BY <1>1, <1>2, <1>3, <1>4 DEF HeadersOK, FileTypeOK, EngineTypeOK, IInv
<1>9. (PendingTail /\ DownInv)'
  BY <1>1, <1>2, <1>3, <1>4 DEF PendingTail, DownInv, IInv, TruncationPointInFile
<1>10. QED  BY <1>5, <1>6, <1>7, <1>8, <1>9 DEF IInv

\* A blob that is written in part stays behind as a torn cell.
LEMMA AppendSnapshotFailsKeeps ==
  ASSUME IInv, NEW kind, AppendSnapshotFails(kind)
  PROVE  IInv'
<1>1. /\ log' \in {log, Append(log, Junk("torn"))} /\ op' = NoOp /\ pc' \in {"idle", "shutdown"}
      /\ UNCHANGED <<hdr, synced, dhdr, act, head, index, nextOffset, mapped, copy>>
  BY DEF AppendSnapshotFails, mem
<1>2. log \in Seq(Cells) /\ Len(log) \in Nat /\ Junk("torn") \in Cells
  BY DEF IInv, FileTypeOK, Junk, Cells
<1>3. log' \in Seq(Cells) /\ Len(log') \in Nat /\ Len(log) <= Len(log')
  BY <1>1, <1>2, AppendProperties
<1>4. op' \in Ops
  BY <1>1 DEF Ops, NoOp
<1>5. FileTypeOK'
  BY <1>1, <1>2, <1>3, <1>4 DEF FileTypeOK, IInv
<1>6. EngineTypeOK'
  BY <1>1, <1>2, <1>3, <1>4 DEF EngineTypeOK, PCs, IInv
<1>7. TruncationPointInFile'
  BY <1>1, <1>2, <1>3, <1>4 DEF TruncationPointInFile, FileTypeOK, EngineTypeOK, IInv
<1>8. HeadersOK'
  BY <1>1, <1>2, <1>3, <1>4 DEF HeadersOK, FileTypeOK, EngineTypeOK, IInv
<1>9. (PendingTail /\ DownInv)'
  BY <1>1, <1>2, <1>3, <1>4 DEF PendingTail, DownInv, IInv
<1>10. QED  BY <1>5, <1>6, <1>7, <1>8, <1>9 DEF IInv

\* Close releases the handles, with or without a last flush.
LEMMA ShutdownKeeps ==
  ASSUME IInv, ShutdownHandles \/ ShutdownSyncFails
  PROVE  IInv'
<1>1. /\ synced' \in {synced, Len(log)} /\ dhdr' \in {dhdr, hdr}
      /\ Forget /\ UNCHANGED <<log, hdr, copy>>
  BY DEF ShutdownHandles, ShutdownSyncFails, Flush, file
<1>2. Len(log) \in Nat
  BY DEF IInv, FileTypeOK
<1>3. FileTypeOK'
  BY <1>1, <1>2, ForgetType DEF FileTypeOK, IInv
<1>4. EngineTypeOK'
  BY <1>1, <1>2, ForgetType DEF EngineTypeOK, PCs, IInv
<1>5. TruncationPointInFile'
  BY <1>1, <1>2, ForgetType DEF TruncationPointInFile, FileTypeOK, EngineTypeOK, IInv
<1>6. HeadersOK'
  BY <1>1, <1>2, ForgetType DEF HeadersOK, FileTypeOK, EngineTypeOK, IInv
<1>7. (PendingTail /\ DownInv)'
  BY <1>1, <1>2, ForgetType DEF PendingTail, DownInv, IInv
<1>8. QED  BY <1>3, <1>4, <1>5, <1>6, <1>7 DEF IInv

\* Compact writes frames and a snapshot of its own into a second file.
LEMMA CompactKeeps ==
  ASSUME IInv, Compact
  PROVE  IInv'
<1>1. PICK s \in [1..Cardinality(LiveKeys) -> LiveKeys] :
        /\ {s[i] : i \in DOMAIN s} = LiveKeys
        /\ copy' = [i \in DOMAIN s |-> Frame(s[i], Stored(s[i]))]
                     \o <<Blob([k \in Key |-> IF k \in LiveKeys
                                              THEN CHOOSE i \in DOMAIN s : s[i] = k ELSE 0])>>
  BY DEF Compact
<1> DEFINE n == Cardinality(LiveKeys)
           recs == [i \in DOMAIN s |-> Frame(s[i], Stored(s[i]))]
           idx == [k \in Key |-> IF k \in LiveKeys THEN CHOOSE i \in DOMAIN s : s[i] = k ELSE 0]
<1>2. n \in Nat
  <2>1. IsFiniteSet(LiveKeys)
    BY ConstantsOK, FS_Subset DEF LiveKeys
  <2>2. QED  BY <2>1, FS_CardinalityType
<1>3. ASSUME NEW k \in LiveKeys  PROVE k \in Key /\ Stored(k) \in Payload \cup {None}
  <2>1. k \in Key /\ index[k] # 0 /\ index[k] \in 1..Len(log) /\ IsFrame(log[index[k]])
    BY DEF Compact, LiveKeys, Readable, IInv, EngineTypeOK, FileTypeOK
  <2>2. log[index[k]] \in Cells
    BY <2>1 DEF IInv, FileTypeOK
  <2>3. QED  BY <2>1, <2>2, CellShapes DEF Stored
<1>4. recs \in Seq(Frames)
  <2>1. \A i \in 1..n : Frame(s[i], Stored(s[i])) \in Frames
    BY <1>3 DEF Frame, Frames
  <2>2. QED  BY <1>2, <2>1, IsASeq
<1>5. idx \in [Key -> Nat]
  <2>1. ASSUME NEW k \in LiveKeys  PROVE (CHOOSE i \in DOMAIN s : s[i] = k) \in 1..n
    BY <1>1
  <2>2. QED  BY <1>2, <2>1
<1>6. recs \in Seq(Cells) /\ <<Blob(idx)>> \in Seq(Cells)
  BY <1>4, <1>5 DEF Cells, Blob
<1>7. copy' = recs \o <<Blob(idx)>>
  BY <1>1
<1> HIDE DEF recs, idx
<1>8. copy' \in Seq(Cells)
  BY <1>6, <1>7, ConcatProperties
<1>9. UNCHANGED <<log, hdr, synced, dhdr, act, head, index, nextOffset, mapped, pc, op>>
  BY DEF Compact, file, mem
<1>10. QED
  BY <1>8, <1>9 DEF IInv, FileTypeOK, EngineTypeOK, TruncationPointInFile, HeadersOK, PendingTail, DownInv

\* The copy takes the file's place.
LEMMA SwapInCopyKeeps ==
  ASSUME IInv, SwapInCopy
  PROVE  IInv'
<1> DEFINE h == [commit |-> 1, snap |-> Len(copy), len |-> Len(copy), recEnd |-> Len(copy)]
<1>1. /\ log' = copy /\ hdr' = [hdr EXCEPT ![0] = NewHeader, ![1] = h]
      /\ synced' = Len(log') /\ dhdr' = hdr' /\ copy' = <<>> /\ pc = "down" /\ copy # <<>>
      /\ UNCHANGED <<act, head, index, nextOffset, mapped, pc, op>>
  BY DEF SwapInCopy, Flush, mem
<1>2. copy \in Seq(Cells) /\ Len(copy) \in Nat /\ copy' \in Seq(Cells)
  BY <1>1 DEF IInv, FileTypeOK
<1>3. h \in Headers /\ HeaderOK(h)
  BY <1>2 DEF Headers, HeaderOK
<1>4. nextOffset = 1
  BY <1>1 DEF IInv, DownInv
<1> HIDE DEF h
<1>5. hdr' \in [Slots -> Headers] /\ \A t \in Slots : HeaderOK(hdr'[t])
  BY <1>1, <1>3, WrittenHeaders DEF IInv, FileTypeOK, HeadersOK, Slots
<1>6. FileTypeOK'
  BY <1>1, <1>2, <1>4, <1>5 DEF FileTypeOK, IInv
<1>7. EngineTypeOK'
  BY <1>1, <1>2, <1>4, <1>5 DEF EngineTypeOK, PCs, IInv
<1>8. TruncationPointInFile'
  BY <1>1, <1>2, <1>4, <1>5 DEF TruncationPointInFile, FileTypeOK, EngineTypeOK, IInv
<1>9. HeadersOK'
  BY <1>1, <1>2, <1>4, <1>5 DEF HeadersOK, FileTypeOK, EngineTypeOK, IInv
<1>10. (PendingTail /\ DownInv)'
  BY <1>1, <1>2, <1>4, <1>5 DEF PendingTail, DownInv, IInv
<1>11. QED  BY <1>6, <1>7, <1>8, <1>9, <1>10 DEF IInv

\* A crash leaves cells of the file or residue, and headers that were written.
LEMMA CrashKeeps ==
  ASSUME IInv, Crash
  PROVE  IInv'
<1>a. PICK n \in synced..Len(log), r \in Residue : \E lost \in SUBSET ((synced + 1)..n) :
        log' = [i \in 1..n |-> IF i \in lost THEN Junk(r) ELSE log[i]]
  BY DEF Crash
<1>1. PICK lost \in SUBSET ((synced + 1)..n) :
        log' = [i \in 1..n |-> IF i \in lost THEN Junk(r) ELSE log[i]]
  BY <1>a
<1>2. PICK h \in [Slots -> {"new", "old", "torn"}] :
        hdr' = [t \in Slots |-> CASE h[t] = "new" -> hdr[t]
                                  [] h[t] = "old" -> dhdr[t]
                                  [] h[t] = "torn" -> TornHeader]
  BY DEF Crash
<1>3. synced' = Len(log') /\ dhdr' = hdr' /\ Forget /\ UNCHANGED copy
  BY DEF Crash, Flush
<1>4. n \in Nat /\ n <= Len(log)
  BY DEF IInv, FileTypeOK
<1>5. \A i \in 1..n : (IF i \in lost THEN Junk(r) ELSE log[i]) \in Cells
  BY <1>4, ConstantsOK DEF IInv, FileTypeOK, Junk, Cells
<1>6. log' \in Seq(Cells) /\ Len(log') \in Nat
  BY <1>1, <1>4, <1>5, IsASeq
<1>7. \A t \in Slots : hdr'[t] \in {hdr[t], dhdr[t], TornHeader}
  BY <1>2
<1>8. hdr' \in [Slots -> Headers] /\ \A t \in Slots : HeaderOK(hdr'[t])
  BY <1>2, <1>7, WrittenHeaders DEF IInv, FileTypeOK, HeadersOK
<1>9. FileTypeOK'
  BY <1>3, <1>6, <1>8, ForgetType DEF FileTypeOK, IInv
<1>10. EngineTypeOK'
  BY <1>3, <1>6, <1>8, ForgetType DEF EngineTypeOK, PCs, IInv
<1>11. TruncationPointInFile'
  BY <1>3, <1>6, <1>8, ForgetType DEF TruncationPointInFile, FileTypeOK, EngineTypeOK, IInv
<1>12. HeadersOK'
  BY <1>3, <1>6, <1>8, ForgetType DEF HeadersOK, FileTypeOK, EngineTypeOK, IInv
<1>13. (PendingTail /\ DownInv)'
  BY <1>3, <1>6, <1>8, ForgetType DEF PendingTail, DownInv, IInv
<1>14. QED  BY <1>9, <1>10, <1>11, <1>12, <1>13 DEF IInv

\* Open, up to its first write.
LEMMA OpenKeeps ==
  ASSUME IInv, Open
  PROVE  IInv'
<1> DEFINE a == ActiveSlot(hdr)
           h == hdr[a]
<1>1. /\ act' = a /\ head' = h /\ index' = RecoveredIndex(log, h)
      /\ nextOffset' = RecoveredNextOffset(log, h) /\ mapped' = Len(log)
      /\ op' \in Ops /\ pc' \in {"opentrunc", "openhdr"}
      /\ UNCHANGED <<log, hdr, synced, dhdr, copy>>
  BY DEF Open, file, Ops
<1>2. a \in Slots /\ h \in Headers /\ HeaderOK(h)
  BY DEF ActiveSlot, Slots, IInv, FileTypeOK, HeadersOK
<1>3. index' \in [Key -> Nat] /\ nextOffset' \in 1..(Len(log) + 1) /\ Len(log) \in Nat
  BY <1>1, <1>2, RecoveredBounds DEF IInv, FileTypeOK
<1> HIDE DEF a, h
<1>4. FileTypeOK'
  BY <1>1, <1>2, <1>3 DEF FileTypeOK, IInv
<1>5. EngineTypeOK'
  BY <1>1, <1>2, <1>3 DEF EngineTypeOK, PCs, IInv
<1>6. TruncationPointInFile'
  BY <1>1, <1>2, <1>3 DEF TruncationPointInFile, FileTypeOK, EngineTypeOK, IInv
<1>7. HeadersOK'
  BY <1>1, <1>2, <1>3 DEF HeadersOK, FileTypeOK, EngineTypeOK, IInv
<1>8. (PendingTail /\ DownInv)'
  BY <1>1, <1>2, <1>3 DEF PendingTail, DownInv, IInv
<1>9. QED  BY <1>4, <1>5, <1>6, <1>7, <1>8 DEF IInv

\* clearActiveSnapshot, and its failure.
LEMMA ClearActiveSnapshotKeeps ==
  ASSUME IInv, ClearActiveSnapshot
  PROVE  IInv'
<1> DEFINE h == [head EXCEPT !.snap = 0, !.len = 0]
<1>1. /\ head' = h /\ hdr' = [hdr EXCEPT ![act] = h] /\ op' = [op EXCEPT !.kind = "open"]
      /\ pc = "openhdr"
      /\ UNCHANGED <<log, synced, dhdr, act, index, nextOffset, mapped, pc, copy>>
  BY DEF ClearActiveSnapshot
<1>2. h \in Headers /\ HeaderOK(h)
  BY WrittenHeaders DEF IInv, EngineTypeOK
<1>3. op' \in Ops
  BY <1>1 DEF IInv, EngineTypeOK, Ops
<1> HIDE DEF h
<1>4. FileTypeOK'
  BY <1>1, <1>2, <1>3 DEF FileTypeOK, IInv
<1>5. EngineTypeOK'
  BY <1>1, <1>2, <1>3 DEF EngineTypeOK, PCs, IInv
<1>6. TruncationPointInFile'
  BY <1>1, <1>2, <1>3 DEF TruncationPointInFile, FileTypeOK, EngineTypeOK, IInv
<1>7. HeadersOK'
  BY <1>1, <1>2, <1>3 DEF HeadersOK, FileTypeOK, EngineTypeOK, IInv
<1>8. (PendingTail /\ DownInv)'
  BY <1>1, <1>2, <1>3 DEF PendingTail, DownInv, IInv
<1>9. QED  BY <1>4, <1>5, <1>6, <1>7, <1>8 DEF IInv

\* Its write fails and the handles are released.
LEMMA ClearActiveSnapshotFailsKeeps ==
  ASSUME IInv, ClearActiveSnapshotFails
  PROVE  IInv'
<1>1. /\ hdr' \in {hdr, [hdr EXCEPT ![act] = TornHeader]} /\ Forget
      /\ UNCHANGED <<log, synced, dhdr, copy>>
  BY DEF ClearActiveSnapshotFails
<1>2. Len(log) \in Nat
  BY DEF IInv, FileTypeOK
<1>3. FileTypeOK'
  BY <1>1, <1>2, ForgetType, WrittenHeaders DEF FileTypeOK, IInv
<1>4. EngineTypeOK'
  BY <1>1, <1>2, ForgetType, WrittenHeaders DEF EngineTypeOK, PCs, IInv
<1>5. TruncationPointInFile'
  BY <1>1, <1>2, ForgetType, WrittenHeaders DEF TruncationPointInFile, FileTypeOK, EngineTypeOK, IInv
<1>6. HeadersOK'
  BY <1>1, <1>2, ForgetType, WrittenHeaders DEF HeadersOK, FileTypeOK, EngineTypeOK, IInv
<1>7. (PendingTail /\ DownInv)'
  BY <1>1, <1>2, ForgetType, WrittenHeaders DEF PendingTail, DownInv, IInv
<1>8. QED  BY <1>3, <1>4, <1>5, <1>6, <1>7 DEF IInv

\* Open hands the engine to its caller.
LEMMA OpenDoneKeeps ==
  ASSUME IInv, OpenDone
  PROVE  IInv'
<1>1. /\ op' = NoOp /\ pc' = "idle" /\ copy' = <<>>
      /\ UNCHANGED <<log, hdr, synced, dhdr, act, head, index, nextOffset, mapped>>
  BY DEF OpenDone, file
<1>2. op' \in Ops /\ copy' \in Seq(Cells)
  BY <1>1 DEF Ops, NoOp
<1>3. FileTypeOK'
  BY <1>1, <1>2 DEF FileTypeOK, IInv
<1>4. EngineTypeOK'
  BY <1>1, <1>2 DEF EngineTypeOK, PCs, IInv
<1>5. TruncationPointInFile'
  BY <1>1, <1>2 DEF TruncationPointInFile, FileTypeOK, EngineTypeOK, IInv
<1>6. HeadersOK'
  BY <1>1, <1>2 DEF HeadersOK, FileTypeOK, EngineTypeOK, IInv
<1>7. (PendingTail /\ DownInv)'
  BY <1>1, <1>2 DEF PendingTail, DownInv, IInv
<1>8. QED  BY <1>3, <1>4, <1>5, <1>6, <1>7 DEF IInv

\* A freshly created file satisfies the invariant.
LEMMA InitEstablishes == Init => IInv
<1> SUFFICES ASSUME Init PROVE IInv
  OBVIOUS
<1>1. /\ log = <<>> /\ copy = <<>> /\ hdr = [s \in Slots |-> NewHeader] /\ dhdr = hdr
      /\ synced = 0 /\ act = 0 /\ head = NewHeader /\ index = NoIndex /\ nextOffset = 1
      /\ mapped = 0 /\ pc = "idle" /\ op = NoOp
  BY DEF Init
<1>2. FileTypeOK
  BY <1>1, WrittenHeaders DEF FileTypeOK
<1>3. EngineTypeOK
  BY <1>1, WrittenHeaders DEF EngineTypeOK, NoIndex, NoOp, Ops, PCs, Slots
<1>4. TruncationPointInFile /\ HeadersOK /\ PendingTail /\ DownInv
  BY <1>1, WrittenHeaders DEF TruncationPointInFile, HeadersOK, PendingTail, DownInv
<1>5. QED  BY <1>2, <1>3, <1>4 DEF IInv

\* Every step of the engine, its failures and the machine's, or none, keeps it.
LEMMA StepKeeps == IInv /\ [Next]_vars => IInv'
<1> SUFFICES ASSUME IInv, [Next]_vars PROVE IInv'
  OBVIOUS
<1>1. CASE Writer
  <2>1. ASSUME NEW recs \in Batches(Key \X Payload), WriteRecordBatch(recs)  PROVE IInv'
    BY <2>1, RequestsAreFrames, StartAppendKeeps DEF WriteRecordBatch
  <2>2. ASSUME NEW ks \in Batches(Key), DeleteRecordBatch(ks)  PROVE IInv'
    BY <2>2, RequestsAreFrames, StartAppendKeeps DEF DeleteRecordBatch
  <2>3. CASE TrimTailSnapshot      BY <2>3, TruncateKeeps
  <2>4. CASE TrimFails             BY <2>4, TrimFailsKeeps
  <2>5. CASE WriteNullSnapshotHeader
    <3>1. pc = "nullhdr"
      BY <2>5 DEF WriteNullSnapshotHeader, WriteInactiveHeader
    <3>2. QED  BY <2>5, <3>1, NextHeaders, WriteInactiveHeaderKeeps DEF WriteNullSnapshotHeader
  <2>6. CASE WriteInactiveHeaderFails("nullhdr")
    BY <2>6, WriteInactiveHeaderFailsKeeps
  <2>7. CASE SwitchNullHeader      BY <2>7, SwitchKeeps
  <2>8. CASE HeaderSyncFails       BY <2>8, SyncOutcomesKeep
  <2>9. CASE AppendFrames          BY <2>9, AppendFramesKeeps
  <2>10. CASE AppendFails          BY <2>10, AppendFailsKeeps
  <2>11. CASE UndoAppendFails      BY <2>11, UndoAppendFailsKeeps
  <2>12. CASE SyncAndIndex         BY <2>12, SyncAndIndexKeeps
  <2>13. CASE SyncFails            BY <2>13, SyncOutcomesKeep
  <2>14. QED
    BY <1>1, <2>1, <2>2, <2>3, <2>4, <2>5, <2>6, <2>7, <2>8, <2>9, <2>10, <2>11, <2>12, <2>13
       DEF Writer
<1>2. CASE Checkpointer
  <2>1. CASE Checkpoint \/ Close   BY <2>1, AppendSnapshotKeeps DEF Checkpoint, Close
  <2>2. CASE \E kind \in {"checkpoint", "close"} : AppendSnapshotFails(kind)
    BY <2>2, AppendSnapshotFailsKeeps
  <2>3. CASE SyncSnapshot \/ SyncSnapshotFails \/ SwitchRemapFails
    BY <2>3, SyncOutcomesKeep
  <2>4. CASE WriteCheckpointHeader
    <3>1. pc = "ckpthdr"
      BY <2>4 DEF WriteCheckpointHeader, WriteInactiveHeader
    <3>2. QED  BY <2>4, <3>1, NextHeaders, WriteInactiveHeaderKeeps DEF WriteCheckpointHeader
  <2>5. CASE WriteInactiveHeaderFails("ckpthdr")
    BY <2>5, WriteInactiveHeaderFailsKeeps
  <2>6. CASE SwitchCheckpointHeader  BY <2>6, SwitchKeeps
  <2>7. CASE ShutdownHandles \/ ShutdownSyncFails
    BY <2>7, ShutdownKeeps
  <2>8. QED  BY <1>2, <2>1, <2>2, <2>3, <2>4, <2>5, <2>6, <2>7 DEF Checkpointer
<1>3. CASE Opener
  <2>1. CASE Open                      BY <2>1, OpenKeeps
  <2>2. CASE OpenTruncate              BY <2>2, TruncateKeeps
  <2>3. CASE OpenTruncateFails         BY <2>3, OpenTruncateFailsKeeps
  <2>4. CASE ClearActiveSnapshot       BY <2>4, ClearActiveSnapshotKeeps
  <2>5. CASE ClearActiveSnapshotFails  BY <2>5, ClearActiveSnapshotFailsKeeps
  <2>6. CASE OpenDone                  BY <2>6, OpenDoneKeeps
  <2>7. QED  BY <1>3, <2>1, <2>2, <2>3, <2>4, <2>5, <2>6 DEF Opener
<1>4. CASE Compact     BY <1>4, CompactKeeps
<1>5. CASE SwapInCopy  BY <1>5, SwapInCopyKeeps
<1>6. CASE Crash       BY <1>6, CrashKeeps
<1>7. CASE UNCHANGED vars
  BY <1>7 DEF IInv, vars, file, mem, FileTypeOK, EngineTypeOK, TruncationPointInFile, HeadersOK,
              PendingTail, DownInv
<1>8. QED  BY <1>1, <1>2, <1>3, <1>4, <1>5, <1>6, <1>7 DEF Next

\* The inductive invariant of the file's shape.
THEOREM Invariance == Spec => []IInv
  BY InitEstablishes, StepKeeps, PTL DEF Spec

\* The file and the engine's memory keep their types through crashes, recovery
\* and failed I/O calls; what is known to be flushed never exceeds the file.
THEOREM FileTypeCorrectness == Spec => [](FileTypeOK /\ EngineTypeOK)
<1>1. IInv => FileTypeOK /\ EngineTypeOK
  BY DEF IInv
<1>2. QED  BY Invariance, <1>1, PTL

\* The record area ends inside the file, whichever I/O calls fail and wherever
\* crashes fall, so truncateTail neither grows the file nor cuts the headers.
THEOREM TruncationStaysInFile == Spec => []TruncationPointInFile
<1>1. IInv => TruncationPointInFile
  BY DEF IInv
<1>2. QED  BY Invariance, <1>1, PTL
-----------------------------------------------------------------------------
(* What the index and the snapshots name. *)

\* The calls whose failure leaves a header, or the cells it names, out of step
\* with the engine, and the flush that ends Close.
HeaderCalls == {"trim", "nullhdr", "nullsync", "ckptsync", "ckptremap", "openhdr", "shutdown"}

\* A crash finds the active header on disk.  Only clearActiveSnapshot can leave
\* it elsewhere: it rewrites the slot in place without a Sync.
ClearReachesDisk == [][Crash => hdr[act] = dhdr[act]]_vars

Opening == pc \in {"opentrunc", "openhdr"}
Running == pc # "down" /\ ~Opening

\* A header of commit c in slot s gives way to the active one.
GivesWay(s, c) == IF s = 0 THEN c < head.commit ELSE c <= head.commit

\* A snapshot that loads indexes only the record area that its header ends.
Good(l, h) == SnapshotLoads(l, h) => \A k \in Key : l[h.snap].idx[k] < h.recEnd

\* A header a restart can work from.
Usable(l, h) == Good(l, h) /\ h.commit \in Nat

\* The snapshot a header names is in the file.
Named(l, h) == h.snap # 0 => h.snap <= Len(l) /\ IsBlob(l[h.snap])

\* An index over l that names flushed frames only, s cells being flushed.
FlushedIndex(idx, l, e, s) == SoundIndex(idx, l, e) /\ \A k \in Key : idx[k] <= s

\* Every snapshot in l does so for the records before it.
BlobsIn(l, s) ==
  \A p \in 1..Len(l) : IsBlob(l[p]) => FlushedIndex(l[p].idx, l, p, s)

\* The file that CompactTo wrote is sound too.
CopySound == \A p \in 1..Len(copy) : IsBlob(copy[p]) => SoundIndex(copy[p].idx, copy, p)

\* What the running operation has put at the end of the file.
TailInv ==
  /\ pc = "sync" => /\ nextOffset = Len(log) + 1
                    /\ \A i \in 1..Len(op.frames) : log[BatchStart + i] = op.frames[i]
  /\ pc \in {"blobsync", "ckpthdr", "ckptsync"} => Len(log) > 0 /\ log[Len(log)] = Blob(index)

\* Open starts from a file with nothing in the page cache.
FlushInv == pc \in {"down", "opentrunc", "openhdr"} => synced = Len(log)

\* The header a restart would select is in a slot of its own rank.
RankInv ==
  /\ pc = "down" => dhdr = hdr
  /\ pc # "down" =>
       /\ hdr[act] = head /\ head.commit \in Nat
       /\ GivesWay(1 - act, dhdr[1 - act].commit)
       /\ IF pc \in {"nullsync", "ckptsync"} THEN hdr[1 - act].commit = head.commit + 1
          ELSE GivesWay(1 - act, hdr[1 - act].commit)
  /\ pc = "opentrunc" => dhdr = hdr

\* The snapshot it names is its own, or is gone, or is cleared by this Open.
NameInv ==
  /\ pc = "down" => Usable(log, hdr[ActiveSlot(hdr)])
  /\ pc # "down" => Good(log, head)
  /\ Running /\ pc \notin {"nullhdr", "nullsync"} => Named(log, head)
  /\ pc = "nullsync" => hdr[1 - act].snap = 0
  /\ pc = "ckptsync" => hdr[1 - act].snap = Len(log) /\ hdr[1 - act].recEnd = nextOffset
  /\ Opening => op.kind \in {"open", "openclear"}
  /\ Opening /\ op.kind = "open" => Named(log, head) /\ (pc = "opentrunc" => head.snap < nextOffset)

\* The inductive invariant behind index, trim and header choice.
SInv ==
  /\ FlushedIndex(index, log, nextOffset, synced) /\ BlobsIn(log, synced) /\ CopySound
  /\ TailInv /\ FlushInv /\ RankInv /\ NameInv
-----------------------------------------------------------------------------
\* l is where m begins.
Extends(l, m) == Len(l) <= Len(m) /\ \A i \in 1..Len(l) : m[i] = l[i]

\* A log and what a truncate at n leaves of it.
LEMMA TruncatedExtends ==
  ASSUME NEW l \in Seq(Cells), NEW n \in 1..(Len(l) + 1)
  PROVE  Extends(SubSeq(l, 1, n - 1), l)
<1>1. Len(SubSeq(l, 1, n - 1)) = n - 1 /\ n - 1 \in Nat /\ n - 1 <= Len(l)
  BY Truncated
<1>2. \A i \in 1..(n - 1) : SubSeq(l, 1, n - 1)[i] = l[i]
  BY <1>1, SubSeqProperties
<1>3. QED  BY <1>1, <1>2 DEF Extends

\* Appending one piece after another appends them together.
LEMMA RegroupCells ==
  ASSUME NEW l \in Seq(Cells), NEW p \in Seq(Cells), NEW q \in Seq(Cells)
  PROVE  (l \o p) \o q = l \o (p \o q)
BY ConcatAssociative

\* Appending leaves the cells before it.
LEMMA ConcatExtends ==
  ASSUME NEW l \in Seq(Cells), NEW m \in Seq(Cells)
  PROVE  /\ Extends(l, l \o m) /\ Len(l \o m) = Len(l) + Len(m) /\ l \o m \in Seq(Cells)
         /\ \A i \in 1..Len(m) : (l \o m)[Len(l) + i] = m[i]
<1>1. /\ l \o m \in Seq(Cells) /\ Len(l \o m) = Len(l) + Len(m)
      /\ \A i \in 1..(Len(l) + Len(m)) : (l \o m)[i] = IF i <= Len(l) THEN l[i] ELSE m[i - Len(l)]
  BY ConcatProperties
<1>2. Len(l) \in Nat /\ Len(m) \in Nat
  OBVIOUS
<1>3. ASSUME NEW i \in 1..Len(m)  PROVE (l \o m)[Len(l) + i] = m[i]
  <2>1. Len(l) + i \in 1..(Len(l) + Len(m)) /\ ~(Len(l) + i <= Len(l)) /\ (Len(l) + i) - Len(l) = i
    BY <1>2
  <2>2. QED  BY <1>1, <2>1
<1>4. \A i \in 1..Len(l) : i \in 1..(Len(l) + Len(m)) /\ i <= Len(l)
  BY <1>2
<1>5. QED  BY <1>1, <1>2, <1>3, <1>4 DEF Extends

\* An index stays sound when the file grows, and when it is cut behind what the
\* index names.
LEMMA SoundOver ==
  ASSUME NEW l \in Seq(Cells), NEW m \in Seq(Cells), NEW idx \in [Key -> Nat], NEW e \in Nat,
         SoundIndex(idx, l, e),
         Extends(l, m) \/ (Extends(m, l) /\ \A k \in Key : idx[k] <= Len(m))
  PROVE  SoundIndex(idx, m, e)
<1> SUFFICES ASSUME NEW k \in Key, idx[k] # 0
             PROVE  /\ idx[k] < e /\ idx[k] <= Len(m)
                    /\ IsFrame(m[idx[k]]) /\ m[idx[k]].key = k /\ m[idx[k]].val # None
  BY DEF SoundIndex
<1>1. /\ idx[k] < e /\ idx[k] <= Len(l)
      /\ IsFrame(l[idx[k]]) /\ l[idx[k]].key = k /\ l[idx[k]].val # None
  BY DEF SoundIndex
<1>2. idx[k] \in Nat /\ Len(l) \in Nat /\ Len(m) \in Nat
  OBVIOUS
<1>3. idx[k] <= Len(m) /\ m[idx[k]] = l[idx[k]]
  BY <1>1, <1>2 DEF Extends
<1>4. QED  BY <1>1, <1>3

\* An index over a longer record area.
LEMMA SoundBelow ==
  ASSUME NEW l, NEW idx \in [Key -> Nat], NEW d \in Nat, NEW e \in Nat, d <= e, SoundIndex(idx, l, d)
  PROVE  SoundIndex(idx, l, e)
BY DEF SoundIndex

\* Blobs in a file that grows by cells whose blobs, if any, are sound.
LEMMA BlobsGrow ==
  ASSUME NEW l \in Seq(Cells), NEW m \in Seq(Cells), NEW s \in Nat, NEW t \in Nat, s <= t,
         BlobsIn(l, s), Extends(l, m),
         \A p \in (Len(l) + 1)..Len(m) : IsBlob(m[p]) => FlushedIndex(m[p].idx, m, p, t)
  PROVE  BlobsIn(m, t)
<1> SUFFICES ASSUME NEW p \in 1..Len(m), IsBlob(m[p])  PROVE FlushedIndex(m[p].idx, m, p, t)
  BY DEF BlobsIn
<1>1. CASE p \in 1..Len(l)
  <2>1. m[p] = l[p] /\ FlushedIndex(l[p].idx, l, p, s)
    BY <1>1 DEF Extends, BlobsIn
  <2>2. PICK idx \in [Key -> Nat] : idx = l[p].idx
    BY <1>1, <2>1, CellShapes
  <2>3. SoundIndex(idx, m, p) /\ \A k \in Key : idx[k] <= t
    BY <2>1, <2>2, SoundOver DEF FlushedIndex
  <2>4. QED  BY <2>1, <2>2, <2>3 DEF FlushedIndex
<1>2. CASE p \notin 1..Len(l)
  BY <1>2
<1>3. QED  BY <1>1, <1>2

\* Blobs in a file that is cut, and flushed.
LEMMA BlobsCut ==
  ASSUME NEW l \in Seq(Cells), NEW m \in Seq(Cells), NEW s \in Nat, BlobsIn(l, s), Extends(m, l)
  PROVE  BlobsIn(m, Len(m))
<1> SUFFICES ASSUME NEW p \in 1..Len(m), IsBlob(m[p])  PROVE FlushedIndex(m[p].idx, m, p, Len(m))
  BY DEF BlobsIn
<1>1. m[p] = l[p] /\ p \in 1..Len(l)
  BY DEF Extends
<1>2. FlushedIndex(l[p].idx, l, p, s)
  BY <1>1 DEF BlobsIn
<1>3. PICK idx \in [Key -> Nat] : idx = l[p].idx
  BY <1>1, CellShapes
<1>4. \A k \in Key : idx[k] <= Len(m)
  <2>1. \A k \in Key : idx[k] = 0 \/ idx[k] < p
    BY <1>2, <1>3 DEF FlushedIndex, SoundIndex
  <2>2. QED  BY <2>1
<1>5. SoundIndex(idx, m, p)
  <2>1. SoundIndex(idx, l, p) /\ p \in Nat
    BY <1>2, <1>3 DEF FlushedIndex
  <2>2. QED  BY <1>4, <2>1, SoundOver
<1>6. QED  BY <1>1, <1>3, <1>4, <1>5 DEF FlushedIndex

\* A header's word about its snapshot survives the same.
LEMMA GoodOver ==
  ASSUME NEW l \in Seq(Cells), NEW m \in Seq(Cells), NEW h \in Headers, Good(l, h),
         Extends(m, l) \/ (Extends(l, m) /\ Named(l, h))
  PROVE  Good(m, h) /\ (Extends(l, m) /\ Named(l, h) => Named(m, h))
<1>1. h.snap \in Nat /\ Len(l) \in Nat /\ Len(m) \in Nat
  BY DEF Headers
<1>2. h.snap # 0 /\ Extends(l, m) /\ Named(l, h) => h.snap \in 1..Len(l) /\ m[h.snap] = l[h.snap]
  BY <1>1 DEF Extends, Named
<1>3. Extends(m, l) /\ h.snap \in 1..Len(m) => h.snap \in 1..Len(l) /\ m[h.snap] = l[h.snap]
  BY <1>1 DEF Extends
<1>4. ASSUME SnapshotLoads(m, h)  PROVE \A k \in Key : m[h.snap].idx[k] < h.recEnd
  <2>1. h.snap \in 1..Len(m) /\ h.snap # 0
    BY <1>1, <1>4 DEF SnapshotLoads
  <2>2. h.snap \in 1..Len(l) /\ m[h.snap] = l[h.snap]
    BY <1>2, <1>3, <2>1
  <2>3. SnapshotLoads(l, h)
    BY <1>4, <2>2 DEF SnapshotLoads
  <2>4. QED  BY <2>2, <2>3 DEF Good
<1>5. Extends(l, m) /\ Named(l, h) => Named(m, h)
  BY <1>1, <1>2 DEF Named, Extends
<1>6. QED  BY <1>4, <1>5 DEF Good
-----------------------------------------------------------------------------
\* What a crash leaves of a file whose first s cells were flushed.
Survives(l, m, s) ==
  /\ Len(m) <= Len(l) /\ s <= Len(m)
  /\ \A i \in 1..s : m[i] = l[i]
  /\ \A i \in 1..Len(m) : m[i] = l[i] \/ m[i].kind \in {"torn", "zero"}

\* A crash keeps the flushed cells and writes no frame and no blob.
LEMMA CrashSurvives ==
  ASSUME IInv, IInv', Crash
  PROVE  Survives(log, log', synced)
<1>a. PICK n \in synced..Len(log), r \in Residue : \E lost \in SUBSET ((synced + 1)..n) :
        log' = [i \in 1..n |-> IF i \in lost THEN Junk(r) ELSE log[i]]
  BY DEF Crash
<1>1. PICK lost \in SUBSET ((synced + 1)..n) :
        log' = [i \in 1..n |-> IF i \in lost THEN Junk(r) ELSE log[i]]
  BY <1>a
<1>2. n \in Nat /\ n <= Len(log) /\ synced \in Nat /\ synced <= n
  BY DEF IInv, FileTypeOK
<1>3. log' \in Seq(Cells) /\ DOMAIN log' = 1..n
  BY <1>1 DEF IInv, FileTypeOK
<1>4. Len(log') = n
  BY <1>2, <1>3, LenProperties
<1>5. \A i \in 1..synced : i \in 1..n /\ i \notin lost
  BY <1>2
<1>6. \A i \in 1..synced : log'[i] = log[i]
  BY <1>1, <1>5
<1>7. r \in {"torn", "zero"}
  BY ConstantsOK
<1>8. \A i \in 1..n : log'[i] = log[i] \/ log'[i].kind \in {"torn", "zero"}
  BY <1>1, <1>7 DEF Junk
<1>9. QED  BY <1>2, <1>4, <1>6, <1>8 DEF Survives

\* So it leaves no blob that was not there, each naming flushed cells only, and
\* no header that names another header's snapshot.
LEMMA SurvivorsSound ==
  ASSUME NEW l \in Seq(Cells), NEW m \in Seq(Cells), NEW s \in Nat, BlobsIn(l, s), Survives(l, m, s)
  PROVE  /\ BlobsIn(m, Len(m))
         /\ \A h \in Headers : Good(l, h) => Good(m, h)
<1>1. Len(l) \in Nat /\ Len(m) \in Nat
  OBVIOUS
<1>2. \A p \in 1..Len(m) : IsBlob(m[p]) => p \in 1..Len(l) /\ m[p] = l[p]
  BY <1>1 DEF Survives, IsBlob
<1>3. ASSUME NEW p \in 1..Len(m), IsBlob(m[p])  PROVE FlushedIndex(m[p].idx, m, p, Len(m))
  <2>1. p \in 1..Len(l) /\ m[p] = l[p] /\ FlushedIndex(l[p].idx, l, p, s)
    BY <1>2, <1>3 DEF BlobsIn
  <2>2. PICK idx \in [Key -> Nat] : idx = l[p].idx
    BY <1>3, <2>1, CellShapes
  <2>3. SoundIndex(idx, l, p) /\ \A k \in Key : idx[k] <= s
    BY <2>1, <2>2 DEF FlushedIndex
  <2>4. ASSUME NEW k \in Key, idx[k] # 0
        PROVE  /\ idx[k] < p /\ idx[k] <= Len(m)
               /\ IsFrame(m[idx[k]]) /\ m[idx[k]].key = k /\ m[idx[k]].val # None
    <3>1. /\ idx[k] < p /\ idx[k] <= s
          /\ IsFrame(l[idx[k]]) /\ l[idx[k]].key = k /\ l[idx[k]].val # None
      BY <2>3, <2>4 DEF SoundIndex
    <3>2. idx[k] \in Nat
      OBVIOUS
    <3>3. idx[k] <= Len(m) /\ m[idx[k]] = l[idx[k]]
      BY <1>1, <2>4, <3>1, <3>2 DEF Survives
    <3>4. QED  BY <3>1, <3>3
  <2>5. \A k \in Key : idx[k] <= Len(m)
    BY <1>1, <2>3 DEF Survives
  <2>6. QED  BY <2>1, <2>2, <2>4, <2>5 DEF FlushedIndex, SoundIndex
<1>4. ASSUME NEW h \in Headers, Good(l, h)  PROVE Good(m, h)
  <2>1. SnapshotLoads(m, h) => h.snap \in 1..Len(m) /\ IsBlob(m[h.snap])
    BY DEF SnapshotLoads
  <2>2. SnapshotLoads(m, h) => SnapshotLoads(l, h) /\ m[h.snap] = l[h.snap]
    BY <1>2, <2>1 DEF SnapshotLoads
  <2>3. QED  BY <1>4, <2>2 DEF Good
<1>5. QED  BY <1>3, <1>4 DEF BlobsIn

\* The index Open builds is sound below the record-area end it computes, if the
\* blobs are and the header's snapshot is its own.
LEMMA RecoveredSound ==
  ASSUME NEW l \in Seq(Cells), NEW h \in Headers, HeaderOK(h), BlobsIn(l, Len(l)), Good(l, h)
  PROVE  FlushedIndex(RecoveredIndex(l, h), l, RecoveredNextOffset(l, h), Len(l))
<1> DEFINE s == ScanStart(l, h)
           e == ScanEnd(l, h, s)
           n == RecoveredNextOffset(l, h)
<1>1. /\ s \in 1..(Len(l) + 1) /\ e \in s..(Len(l) + 1) /\ BaseIndex(l, h) \in [Key -> Nat]
      /\ n \in 1..(Len(l) + 1) /\ RecoveredIndex(l, h) \in [Key -> Nat]
  BY BaseBounds, ScanEndBounds, RecoveredBounds
<1>2. PICK base \in [Key -> Nat] : base = BaseIndex(l, h)
  BY <1>1
<1>3. RecoveredIndex(l, h) = Replay(l, base, s, e)
  BY <1>2 DEF RecoveredIndex
<1>4. n = e \/ (e = s /\ SnapshotLoads(l, h) /\ n = h.recEnd)
  <2>1. CASE ~ScanTruncates(l, h, s) /\ SnapshotLoads(l, h) /\ e = s
    <3>1. h.snap \in 1..Len(l) /\ h.recEnd \in 1..h.snap
      BY <2>1 DEF SnapshotLoads, HeaderOK
    <3>2. h.recEnd \in 1..h.snap /\ h.recEnd <= Len(l) + 1 /\ RecoverRecordAreaEnd(l, h) = h.recEnd
      BY <3>1 DEF RecoverRecordAreaEnd
    <3>3. QED  BY <2>1, <3>2 DEF RecoveredNextOffset
  <2>2. CASE ~(~ScanTruncates(l, h, s) /\ SnapshotLoads(l, h) /\ e = s)
    BY <2>2 DEF RecoveredNextOffset
  <2>3. QED  BY <2>1, <2>2
<1>5. ASSUME NEW k \in Key, base[k] # 0
      PROVE  /\ base[k] < n /\ base[k] <= Len(l)
             /\ IsFrame(l[base[k]]) /\ l[base[k]].key = k /\ l[base[k]].val # None
  <2>1. SnapshotLoads(l, h)
    BY <1>2, <1>5 DEF BaseIndex, NoIndex
  <2>2. h.snap \in 1..Len(l) /\ IsBlob(l[h.snap]) /\ base = l[h.snap].idx /\ s = h.snap + 1
    BY <1>2, <2>1 DEF SnapshotLoads, BaseIndex, ScanStart
  <2>3. SoundIndex(base, l, h.snap) /\ base[k] < h.recEnd
    BY <2>1, <2>2 DEF BlobsIn, FlushedIndex, Good
  <2>4. /\ base[k] < h.snap /\ base[k] <= Len(l)
        /\ IsFrame(l[base[k]]) /\ l[base[k]].key = k /\ l[base[k]].val # None
    BY <1>5, <2>3 DEF SoundIndex
  <2>5. base[k] < n
    <3>1. base[k] \in Nat /\ h.snap \in Nat /\ h.recEnd \in Nat /\ e \in Nat /\ s <= e
      BY <1>1, <2>2 DEF Headers
    <3> HIDE DEF s, e, n
    <3>2. QED  BY <1>4, <2>2, <2>3, <2>4, <3>1
  <2>6. QED  BY <2>4, <2>5
<1>6. ASSUME NEW k \in Key, RecoveredIndex(l, h)[k] # 0
      PROVE  LET i == RecoveredIndex(l, h)[k]
             IN  /\ i < n /\ i <= Len(l) /\ IsFrame(l[i]) /\ l[i].key = k /\ l[i].val # None
  <2> DEFINE F == FramesOf(l, k, s, e)
  <2>1. RecoveredIndex(l, h)[k] = IF F = {} THEN base[k]
                                  ELSE IF l[Last(F)].val = None THEN 0 ELSE Last(F)
    BY <1>3 DEF Replay
  <2>2. CASE F = {}
    BY <1>5, <1>6, <2>1, <2>2
  <2>3. CASE F # {}
    <3>1. F \in SUBSET (0..Len(l)) /\ Len(l) \in Nat
      BY <1>1 DEF FramesOf
    <3>2. Last(F) \in F
      BY <2>3, <3>1, LastIsMember
    <3>3. Last(F) \in s..(e - 1) /\ IsFrame(l[Last(F)]) /\ l[Last(F)].key = k
      BY <3>2 DEF FramesOf
    <3>4. RecoveredIndex(l, h)[k] = Last(F) /\ l[Last(F)].val # None
      BY <1>6, <2>1, <2>3
    <3>5. Last(F) < n /\ Last(F) <= Len(l)
      <4> HIDE DEF s, e, n, F
      <4>1. QED  BY <1>1, <1>4, <3>1, <3>3
    <3>6. QED  BY <3>3, <3>4, <3>5
  <2>4. QED  BY <2>2, <2>3
<1>7. \A k \in Key : RecoveredIndex(l, h)[k] <= Len(l)
  <2>1. \A k \in Key : RecoveredIndex(l, h)[k] # 0 => RecoveredIndex(l, h)[k] <= Len(l)
    BY <1>6
  <2>2. QED  BY <1>1, <2>1
<1>8. SoundIndex(RecoveredIndex(l, h), l, n)
  BY <1>6 DEF SoundIndex
<1>9. QED  BY <1>7, <1>8 DEF FlushedIndex
-----------------------------------------------------------------------------
\* A restart selects the slot the engine holds active.
LEMMA ActiveIsSelected ==
  ASSUME NEW hs \in [Slots -> Headers], NEW a \in Slots, NEW c \in Nat, hs[a].commit = c,
         IF 1 - a = 0 THEN hs[1 - a].commit < c ELSE hs[1 - a].commit <= c
  PROVE  ActiveSlot(hs) = a
<1>1. hs[0].commit \in Int /\ hs[1].commit \in Int
  BY DEF Headers, Slots
<1>2. CASE a = 0
  BY <1>1, <1>2 DEF ActiveSlot
<1>3. CASE a = 1
  BY <1>1, <1>3 DEF ActiveSlot
<1>4. QED  BY <1>2, <1>3 DEF Slots

\* An engine that has forgotten its index names nothing.
LEMMA NothingNamed ==
  ASSUME NEW l \in Seq(Cells), NEW e \in Nat, NEW s \in Nat
  PROVE  FlushedIndex(NoIndex, l, e, s)
BY DEF FlushedIndex, SoundIndex, NoIndex

\* A step of a running operation that writes neither header, or spoils the
\* inactive one, and leaves what the index, the snapshots and the copy name.
RunsOn ==
  /\ pc \notin {"down", "nullsync", "ckptsync"} /\ Named(log, head)
  /\ pc' \notin {"down", "nullhdr", "nullsync", "ckptsync", "opentrunc", "openhdr"}
  /\ FlushedIndex(index', log', nextOffset', synced') /\ BlobsIn(log', synced')
  /\ CopySound' /\ TailInv'
  /\ Extends(log, log') /\ head' = head /\ act' = act
  /\ hdr' = hdr \/ hdr' = [hdr EXCEPT ![1 - act] = TornHeader]
  /\ dhdr' = dhdr \/ dhdr' = hdr'

\* Such a step keeps the index, the snapshots and the headers sound.
LEMMA RunsOnKeeps ==
  ASSUME IInv, IInv', SInv, RunsOn
  PROVE  SInv'
<1>1. act \in Slots /\ 1 - act \in Slots /\ 1 - act # act /\ hdr \in [Slots -> Headers]
  BY DEF IInv, EngineTypeOK, FileTypeOK, Slots
<1>2. TornHeader.commit = -1
  BY DEF TornHeader
<1>3. /\ hdr[act] = head /\ head.commit \in Nat
      /\ GivesWay(1 - act, dhdr[1 - act].commit) /\ GivesWay(1 - act, hdr[1 - act].commit)
  BY DEF SInv, RankInv, RunsOn
<1>4. hdr'[act] = head /\ GivesWay(1 - act, hdr'[1 - act].commit)
  <2>1. CASE hdr' = hdr
    BY <1>3, <2>1
  <2>2. CASE hdr' = [hdr EXCEPT ![1 - act] = TornHeader]
    <3>1. hdr'[act] = head /\ hdr'[1 - act].commit = -1
      BY <1>1, <1>2, <1>3, <2>2
    <3>2. QED  BY <1>3, <3>1 DEF GivesWay
  <2>3. QED  BY <2>1, <2>2 DEF RunsOn
<1>5. GivesWay(1 - act, dhdr'[1 - act].commit)
  BY <1>3, <1>4 DEF RunsOn
<1>6. RankInv'
  <2>1. \A t, c : GivesWay(t, c)' <=> GivesWay(t, c)
    BY DEF GivesWay, RunsOn
  <2>2. QED  BY <1>3, <1>4, <1>5 DEF RankInv, RunsOn, GivesWay
<1>7. Good(log', head) /\ Named(log', head)
  <2>1. Good(log, head) /\ Named(log, head) /\ Extends(log, log')
    BY DEF SInv, NameInv, RunsOn
  <2>2. log \in Seq(Cells) /\ log' \in Seq(Cells) /\ head \in Headers
    BY DEF IInv, FileTypeOK, EngineTypeOK
  <2>3. QED  BY <2>1, <2>2, GoodOver
<1>8. NameInv'
  BY <1>7 DEF NameInv, RunsOn, Opening, Running
<1>9. FlushInv'
  BY DEF FlushInv, RunsOn
<1>10. QED  BY <1>6, <1>8, <1>9 DEF SInv, RunsOn

\* The blobs and the index when more of the same file is known to be flushed.
LEMMA FlushedMore ==
  ASSUME NEW l \in Seq(Cells), NEW s \in Nat, NEW t \in Nat, s <= t
  PROVE  /\ BlobsIn(l, s) => BlobsIn(l, t)
         /\ \A idx \in [Key -> Nat], e \in Nat : FlushedIndex(idx, l, e, s) => FlushedIndex(idx, l, e, t)
<1>1. \A idx \in [Key -> Nat], e \in Nat : FlushedIndex(idx, l, e, s) => FlushedIndex(idx, l, e, t)
  BY DEF FlushedIndex
<1>2. ASSUME BlobsIn(l, s), NEW p \in 1..Len(l), IsBlob(l[p])  PROVE FlushedIndex(l[p].idx, l, p, t)
  <2>1. l[p].idx \in [Key -> Nat] /\ FlushedIndex(l[p].idx, l, p, s) /\ p \in Nat
    BY <1>2, CellShapes DEF BlobsIn
  <2>2. QED  BY <1>1, <2>1
<1>3. QED  BY <1>1, <1>2 DEF BlobsIn

\* The steps that leave the file's cells and the index: the start of a batch, the
\* flushes of a batch and of a snapshot, a write that is undone, a header write
\* that fails, Compact, and the end of Open.
Quiet ==
  /\ log' = log /\ index' = index /\ nextOffset' = nextOffset /\ head' = head /\ act' = act
  /\ synced' = synced \/ synced' = Len(log)
  /\ hdr' = hdr \/ hdr' = [hdr EXCEPT ![1 - act] = TornHeader]
  /\ dhdr' = dhdr \/ dhdr' = hdr'
  /\ CopySound'
  /\ pc \notin {"down", "nullhdr", "nullsync", "ckptsync", "opentrunc"}
  /\ pc = "openhdr" => op.kind = "open"
  /\ pc' \notin {"down", "nullhdr", "nullsync", "ckptsync", "opentrunc", "openhdr", "sync"}
  /\ pc' \in {"blobsync", "ckpthdr"} => pc \in {"blobsync", "ckpthdr"}

\* Such a step keeps the index, the snapshots and the headers sound.
LEMMA QuietKeeps ==
  ASSUME IInv, IInv', SInv, Quiet
  PROVE  SInv'
<1>1. log \in Seq(Cells) /\ synced \in Nat /\ synced' \in Nat /\ synced <= synced' /\ Len(log) \in Nat
      /\ index \in [Key -> Nat] /\ nextOffset \in Nat
  BY DEF IInv, FileTypeOK, EngineTypeOK, Quiet
<1>2. FlushedIndex(index, log, nextOffset, synced') /\ BlobsIn(log, synced')
  BY <1>1, FlushedMore DEF SInv
<1>3. TailInv'
  BY DEF SInv, TailInv, Quiet, Blob
<1>4. Named(log, head)
  BY DEF SInv, NameInv, Quiet, Running, Opening
<1>5. Extends(log, log')
  BY <1>1 DEF Extends, Quiet
<1>6. RunsOn
  BY <1>2, <1>3, <1>4, <1>5 DEF RunsOn, Quiet
<1>7. QED  BY <1>6, RunsOnKeeps

\* The steps that leave log, index and header in use alone are quiet.
LEMMA QuietSteps ==
  ASSUME IInv, SInv,
         \/ \E frames \in Seq(Frames) : StartAppend(frames)
         \/ AppendFails \/ SyncFails \/ SyncSnapshot \/ SyncSnapshotFails
         \/ WriteInactiveHeaderFails("ckpthdr") \/ OpenDone
  PROVE  Quiet
<1>1. CopySound
  BY DEF SInv
<1>2. CASE \E frames \in Seq(Frames) : StartAppend(frames)
  BY <1>1, <1>2 DEF Quiet, StartAppend, Idle, file, mem, CopySound
<1>3. CASE AppendFails
  <2>1. SubSeq(log, 1, (Len(log) + 1) - 1) = log
    BY DEF IInv, FileTypeOK
  <2>2. log' = log /\ synced' = Len(log) /\ dhdr' = hdr /\ hdr' = hdr
    BY <1>3, <2>1 DEF AppendFails, TruncateTail, Flush
  <2>3. QED  BY <1>1, <1>3, <2>2 DEF Quiet, AppendFails, Return, CopySound
<1>4. CASE SyncFails
  BY <1>1, <1>4 DEF Quiet, SyncFails, Flush, Return, mem, CopySound
<1>5. CASE SyncSnapshot
  BY <1>1, <1>5 DEF Quiet, SyncSnapshot, Flush, CopySound
<1>6. CASE SyncSnapshotFails
  BY <1>1, <1>6 DEF Quiet, SyncSnapshotFails, Flush, Return, mem, CopySound
<1>7. CASE WriteInactiveHeaderFails("ckpthdr")
  BY <1>1, <1>7 DEF Quiet, WriteInactiveHeaderFails, Return, mem, CopySound
<1>8. CASE OpenDone
  BY <1>8 DEF Quiet, OpenDone, file, CopySound
<1>9. QED  BY <1>2, <1>3, <1>4, <1>5, <1>6, <1>7, <1>8

\* CompactTo's copy: a frame for every live key with what a read of it answers,
\* then a snapshot that names them.
LEMMA CopyShape ==
  ASSUME IInv, IInv', Compact
  PROVE  \E n \in Nat, idx \in [Key -> Nat] :
           /\ Len(copy') = n + 1 /\ copy'[n + 1] = Blob(idx)
           /\ \A i \in 1..n : \E k \in LiveKeys : copy'[i] = Frame(k, Stored(k))
           /\ \A k \in Key : IF k \in LiveKeys
                            THEN idx[k] \in 1..n /\ copy'[idx[k]] = Frame(k, Stored(k))
                            ELSE idx[k] = 0
<1>1. PICK s \in [1..Cardinality(LiveKeys) -> LiveKeys] :
        /\ {s[i] : i \in DOMAIN s} = LiveKeys
        /\ copy' = [i \in DOMAIN s |-> Frame(s[i], Stored(s[i]))]
                     \o <<Blob([k \in Key |-> IF k \in LiveKeys
                                              THEN CHOOSE i \in DOMAIN s : s[i] = k ELSE 0])>>
  BY DEF Compact
<1> DEFINE n == Cardinality(LiveKeys)
           recs == [i \in DOMAIN s |-> Frame(s[i], Stored(s[i]))]
           idx == [k \in Key |-> IF k \in LiveKeys THEN CHOOSE i \in DOMAIN s : s[i] = k ELSE 0]
<1>2. n \in Nat
  <2>1. IsFiniteSet(LiveKeys)
    BY ConstantsOK, FS_Subset DEF LiveKeys
  <2>2. QED  BY <2>1, FS_CardinalityType
<1>3. ASSUME NEW k \in LiveKeys  PROVE idx[k] \in 1..n /\ s[idx[k]] = k
  <2>1. \E i \in DOMAIN s : s[i] = k
    BY <1>1
  <2>2. idx[k] = CHOOSE i \in DOMAIN s : s[i] = k
    BY DEF LiveKeys
  <2>3. QED  BY <2>1, <2>2
<1>4. \A k \in Key : k \notin LiveKeys => idx[k] = 0
  OBVIOUS
<1>5. /\ DOMAIN recs = 1..n
      /\ \A i \in 1..n : recs[i] = Frame(s[i], Stored(s[i])) /\ s[i] \in LiveKeys
  OBVIOUS
<1>6. idx \in [Key -> Nat]
  <2>1. \A k \in Key : idx[k] \in Nat
    <3> HIDE DEF idx
    <3>1. \A k \in LiveKeys : idx[k] \in Nat
      BY <1>2, <1>3
    <3>2. QED  BY <1>4, <3>1
  <2>2. QED  BY <2>1
<1>7. copy' = recs \o <<Blob(idx)>> /\ copy' \in Seq(Cells)
  BY <1>1 DEF IInv, FileTypeOK
<1>8. recs \in Seq({recs[i] : i \in 1..n}) /\ Len(recs) = n
  <2>1. recs \in Seq({recs[i] : i \in 1..n})
    BY <1>2, <1>5, IsASeq
  <2>2. QED  BY <1>2, <1>5, <2>1, LenProperties
<1> HIDE DEF recs, idx, n
<1>9. /\ Len(copy') = n + 1 /\ copy'[n + 1] = Blob(idx)
      /\ \A i \in 1..n : copy'[i] = recs[i]
  BY <1>2, <1>7, <1>8, ConcatProperties
<1>10. \A i \in 1..n : \E k \in LiveKeys : copy'[i] = Frame(k, Stored(k))
  BY <1>5, <1>9
<1>11. \A k \in LiveKeys : idx[k] \in 1..n /\ copy'[idx[k]] = Frame(k, Stored(k))
  BY <1>3, <1>5, <1>9
<1>12. QED  BY <1>2, <1>4, <1>6, <1>9, <1>10, <1>11

\* Compact copies live records of the index, and its own index over the copy.
LEMMA CompactSound ==
  ASSUME IInv, IInv', SInv, Compact
  PROVE  SInv'
<1>1. PICK n \in Nat, idx \in [Key -> Nat] :
        /\ Len(copy') = n + 1 /\ copy'[n + 1] = Blob(idx)
        /\ \A i \in 1..n : \E k \in LiveKeys : copy'[i] = Frame(k, Stored(k))
        /\ \A k \in Key : IF k \in LiveKeys
                         THEN idx[k] \in 1..n /\ copy'[idx[k]] = Frame(k, Stored(k))
                         ELSE idx[k] = 0
  BY CopyShape
<1>2. \A k \in LiveKeys : k \in Key /\ Stored(k) # None
  BY DEF SInv, FlushedIndex, SoundIndex, LiveKeys, Stored
<1>3. ASSUME NEW p \in 1..Len(copy'), IsBlob(copy'[p])  PROVE SoundIndex(copy'[p].idx, copy', p)
  <2>1. p = n + 1
    <3>1. ASSUME p \in 1..n  PROVE FALSE
      <4>1. PICK k \in LiveKeys : copy'[p] = Frame(k, Stored(k))
        BY <1>1, <3>1
      <4>2. QED  BY <1>3, <4>1 DEF Frame, IsBlob
    <3>2. QED  BY <1>1, <3>1
  <2>2. copy'[p].idx = idx
    BY <1>1, <2>1 DEF Blob
  <2>3. ASSUME NEW k \in Key, idx[k] # 0
        PROVE  /\ idx[k] < p /\ idx[k] <= Len(copy')
               /\ IsFrame(copy'[idx[k]]) /\ copy'[idx[k]].key = k /\ copy'[idx[k]].val # None
    <3>1. k \in LiveKeys
      BY <1>1, <2>3
    <3>2. idx[k] \in 1..n /\ copy'[idx[k]] = Frame(k, Stored(k)) /\ Stored(k) # None
      BY <1>1, <1>2, <3>1
    <3>3. QED  BY <1>1, <2>1, <3>2 DEF Frame, IsFrame
  <2>4. QED  BY <2>2, <2>3 DEF SoundIndex
<1>4. CopySound'
  BY <1>3 DEF CopySound
<1>5. Quiet
  BY <1>4 DEF Quiet, Compact, Idle, file, mem
<1>6. QED  BY <1>5, QuietKeeps

\* The steps that put cells behind the file: a batch, what is left of one, a
\* snapshot of the index, what is left of one.
LEMMA GrowingSound ==
  ASSUME IInv, IInv', SInv,
         \/ AppendFrames \/ UndoAppendFails
         \/ \E kind \in {"checkpoint", "close"} : AppendSnapshot(kind) \/ AppendSnapshotFails(kind)
  PROVE  SInv'
<1>1. /\ log \in Seq(Cells) /\ log' \in Seq(Cells) /\ synced \in Nat /\ op.frames \in Seq(Frames)
      /\ op.frames \in Seq(Cells) /\ index \in [Key -> Nat]
      /\ nextOffset \in Nat /\ nextOffset' \in Nat /\ Len(log) \in Nat /\ Len(log') \in Nat
      /\ nextOffset <= Len(log) + 1
  BY DEF IInv, FileTypeOK, EngineTypeOK, TruncationPointInFile, Ops, Cells
<1>2. /\ pc \in {"append", "idle"} /\ pc' \in {"sync", "idle", "shutdown", "blobsync"}
      /\ hdr' = hdr /\ dhdr' = dhdr /\ synced' = synced /\ index' = index
      /\ head' = head /\ act' = act /\ copy' = copy
  BY DEF AppendFrames, UndoAppendFails, AppendSnapshot, AppendSnapshotFails, Return, Idle, mem
<1>3. CASE AppendFrames
  <2>1. /\ log' = log \o op.frames /\ nextOffset' = Len(log') + 1 /\ op' = op /\ pc' = "sync"
    BY <1>3 DEF AppendFrames
  <2>2. /\ Extends(log, log') /\ Len(log') = Len(log) + Len(op.frames)
        /\ \A i \in 1..Len(op.frames) : log'[Len(log) + i] = op.frames[i]
    BY <1>1, <2>1, ConcatExtends
  <2>3. \A i \in 1..Len(op.frames) : ~IsBlob(op.frames[i])
    <3>1. \A i \in 1..Len(op.frames) : op.frames[i] \in Frames
      BY <1>1
    <3>2. \A f \in Frames : ~IsBlob(f)
      BY DEF Frames, IsBlob
    <3>3. QED  BY <3>1, <3>2
  <2>4. \A p \in (Len(log) + 1)..Len(log') : ~IsBlob(log'[p])
    <3>1. ASSUME NEW p \in (Len(log) + 1)..Len(log')  PROVE ~IsBlob(log'[p])
      <4>1. Len(op.frames) \in Nat
        BY <1>1
      <4>2. p - Len(log) \in 1..Len(op.frames) /\ Len(log) + (p - Len(log)) = p
        BY <1>1, <2>2, <4>1
      <4>3. QED  BY <2>2, <2>3, <4>2
    <3>2. QED  BY <3>1
  <2>5. TailInv'
    <3>1. BatchStart' = Len(log)
      BY <1>1, <2>1, <2>2 DEF BatchStart
    <3>2. QED  BY <2>1, <2>2, <3>1 DEF TailInv
  <2>6. FlushedIndex(index, log', nextOffset', synced)
    <3>1. SoundIndex(index, log, nextOffset)
      BY DEF SInv, FlushedIndex
    <3>2. SoundIndex(index, log', nextOffset)
      BY <1>1, <2>2, <3>1, SoundOver
    <3>3. nextOffset <= nextOffset'
      BY <1>1, <2>1, <2>2
    <3>4. SoundIndex(index, log', nextOffset')
      BY <1>1, <3>2, <3>3, SoundBelow
    <3>5. QED  BY <3>4 DEF SInv, FlushedIndex
  <2>7. BlobsIn(log', synced)
    BY <1>1, <2>2, <2>4, BlobsGrow DEF SInv
  <2>8. Named(log, head) /\ CopySound'
    BY <1>2 DEF SInv, NameInv, CopySound, Running, Opening
  <2>9. QED  BY <1>2, <2>1, <2>2, <2>5, <2>6, <2>7, <2>8, RunsOnKeeps DEF RunsOn
<1>4. CASE \E kind \in {"checkpoint", "close"} : AppendSnapshot(kind)
  <2>1. log' = Append(log, Blob(index)) /\ nextOffset' = nextOffset /\ pc' = "blobsync"
    BY <1>4 DEF AppendSnapshot, mem
  <2>2. Extends(log, log') /\ Len(log') = Len(log) + 1 /\ log'[Len(log')] = Blob(index)
    BY <1>1, <2>1 DEF Extends
  <2>3. SoundIndex(index, log, nextOffset) /\ \A k \in Key : index[k] <= synced
    BY DEF SInv, FlushedIndex
  <2>4. SoundIndex(index, log', nextOffset)
    BY <1>1, <2>2, <2>3, SoundOver
  <2>5. SoundIndex(index, log', Len(log'))
    BY <1>1, <2>2, <2>4, SoundBelow
  <2>6. \A p \in (Len(log) + 1)..Len(log') : log'[p].idx = index /\ p = Len(log')
    BY <1>1, <2>2 DEF Blob
  <2>7. \A p \in (Len(log) + 1)..Len(log') : FlushedIndex(log'[p].idx, log', p, synced)
    BY <2>3, <2>5, <2>6 DEF FlushedIndex
  <2>8. BlobsIn(log', synced)
    BY <1>1, <2>2, <2>7, BlobsGrow DEF SInv
  <2>9. TailInv'
    BY <1>2, <2>1, <2>2 DEF TailInv
  <2>10. Named(log, head) /\ CopySound'
    BY <1>2 DEF SInv, NameInv, CopySound, Running, Opening
  <2>11. FlushedIndex(index, log', nextOffset, synced)
    BY <2>3, <2>4 DEF FlushedIndex
  <2>12. QED  BY <1>2, <2>1, <2>2, <2>8, <2>9, <2>10, <2>11, RunsOnKeeps DEF RunsOn
<1>5. ASSUME NEW tail \in Seq(Cells), log' = log \o tail, nextOffset' = nextOffset,
             pc' \in {"idle", "shutdown"}, \A i \in 1..Len(tail) : ~IsBlob(tail[i])
      PROVE  SInv'
  <2>1. /\ Extends(log, log') /\ Len(log') = Len(log) + Len(tail)
        /\ \A i \in 1..Len(tail) : log'[Len(log) + i] = tail[i]
    BY <1>1, <1>5, ConcatExtends
  <2>2. ASSUME NEW p \in (Len(log) + 1)..Len(log')  PROVE ~IsBlob(log'[p])
    <3>1. Len(tail) \in Nat
      BY <1>5
    <3>2. p - Len(log) \in 1..Len(tail) /\ Len(log) + (p - Len(log)) = p
      BY <1>1, <2>1, <3>1
    <3>3. QED  BY <1>5, <2>1, <3>2
  <2>3. BlobsIn(log', synced)
    <3>1. BlobsIn(log, synced) /\ synced <= synced
      BY <1>1 DEF SInv
    <3>2. \A p \in (Len(log) + 1)..Len(log') :
            IsBlob(log'[p]) => FlushedIndex(log'[p].idx, log', p, synced)
      BY <2>2
    <3>3. QED  BY <1>1, <2>1, <3>1, <3>2, BlobsGrow
  <2>4. SoundIndex(index, log, nextOffset)
    BY DEF SInv, FlushedIndex
  <2>5. SoundIndex(index, log', nextOffset)
    BY <1>1, <2>1, <2>4, SoundOver
  <2>6. FlushedIndex(index, log', nextOffset, synced)
    BY <2>5 DEF SInv, FlushedIndex
  <2>7. TailInv'
    BY <1>5 DEF TailInv
  <2>8. Named(log, head) /\ CopySound'
    BY <1>2 DEF SInv, NameInv, CopySound, Running, Opening
  <2>9. QED  BY <1>2, <1>5, <2>1, <2>3, <2>6, <2>7, <2>8, RunsOnKeeps DEF RunsOn
<1>6. Junk("torn") \in Cells /\ ~IsBlob(Junk("torn")) /\ <<>> \in Seq(Cells) /\ log \o <<>> = log
  BY <1>1 DEF Junk, Cells, IsBlob
<1>7. CASE UndoAppendFails
  <2>1. nextOffset' = nextOffset /\ pc' \in {"idle", "shutdown"}
    BY <1>7 DEF UndoAppendFails, Return
  <2>2. CASE log' = log
    <3>1. PICK tail \in Seq(Cells) : tail = <<>>
      BY <1>6
    <3>2. log' = log \o tail /\ \A i \in 1..Len(tail) : ~IsBlob(tail[i])
      BY <1>6, <2>2, <3>1
    <3>3. QED  BY <1>5, <2>1, <3>2
  <2>3. CASE \E n \in 0..(Len(op.frames) - 1) :
               log' = (log \o SubSeq(op.frames, 1, n)) \o <<Junk("torn")>>
    <3>1. PICK n \in 0..(Len(op.frames) - 1) :
            log' = (log \o SubSeq(op.frames, 1, n)) \o <<Junk("torn")>>
      BY <2>3
    <3>2. PICK part \in Seq(Frames) : part = SubSeq(op.frames, 1, n)
      <4>1. n \in Nat /\ n <= Len(op.frames) /\ Len(op.frames) \in Nat
        BY <1>1
      <4>2. SubSeq(op.frames, 1, n) \in Seq(Frames)
        BY <1>1, <4>1, SubSeqProperties
      <4>3. QED  BY <4>2
    <3>3. part \in Seq(Cells) /\ \A i \in 1..Len(part) : ~IsBlob(part[i])
      BY <3>2 DEF Cells, Frames, IsBlob
    <3>4. PICK tail : tail = part \o <<Junk("torn")>>
      OBVIOUS
    <3>5. /\ tail \in Seq(Cells) /\ Len(tail) = Len(part) + 1
          /\ \A i \in 1..Len(tail) : tail[i] = IF i <= Len(part) THEN part[i] ELSE Junk("torn")
      BY <1>6, <3>3, <3>4
    <3>6. \A i \in 1..Len(tail) : ~IsBlob(tail[i])
      BY <1>6, <3>3, <3>5
    <3>7. log' = log \o tail
      <4>1. <<Junk("torn")>> \in Seq(Cells) /\ log \in Seq(Cells) /\ part \in Seq(Cells)
        BY <1>1, <1>6, <3>3
      <4>2. (log \o part) \o <<Junk("torn")>> = log \o (part \o <<Junk("torn")>>)
        BY <4>1, RegroupCells
      <4>3. QED  BY <3>1, <3>2, <3>4, <4>2
    <3>8. QED  BY <1>5, <2>1, <3>5, <3>6, <3>7
  <2>4. QED  BY <1>7, <2>2, <2>3 DEF UndoAppendFails
<1>8. CASE \E kind \in {"checkpoint", "close"} : AppendSnapshotFails(kind)
  <2>1. /\ nextOffset' = nextOffset /\ pc' \in {"idle", "shutdown"}
        /\ log' = log \/ log' = Append(log, Junk("torn"))
    BY <1>8 DEF AppendSnapshotFails, mem
  <2>2. Append(log, Junk("torn")) = log \o <<Junk("torn")>>
    BY <1>1, <1>6
  <2>3. PICK tail : tail = <<Junk("torn")>>
    OBVIOUS
  <2>4. tail \in Seq(Cells) /\ \A i \in 1..Len(tail) : ~IsBlob(tail[i])
    BY <1>6, <2>3
  <2>5. PICK none \in Seq(Cells) : none = <<>>
    BY <1>6
  <2>6. log \o none = log /\ \A i \in 1..Len(none) : ~IsBlob(none[i])
    BY <1>6, <2>5
  <2>7. CASE log' = log
    BY <1>5, <2>1, <2>6, <2>7
  <2>8. CASE log' = Append(log, Junk("torn"))
    BY <1>5, <2>1, <2>2, <2>3, <2>4, <2>8
  <2>9. QED  BY <2>1, <2>7, <2>8
<1>9. QED  BY <1>3, <1>4, <1>7, <1>8

\* The batch is on disk: the index names its frames.
LEMMA SyncAndIndexSound ==
  ASSUME IInv, IInv', SInv, SyncAndIndex
  PROVE  SInv'
<1>1. /\ log \in Seq(Cells) /\ synced \in Nat /\ synced <= Len(log) /\ op.frames \in Seq(Frames)
      /\ index \in [Key -> Nat] /\ nextOffset \in Nat /\ Len(log) \in Nat
      /\ Len(op.frames) \in Nat /\ Len(op.frames) <= Len(log) /\ pc = "sync"
  BY DEF IInv, FileTypeOK, EngineTypeOK, PendingTail, Ops, SyncAndIndex
<1>2. /\ log' = log /\ hdr' = hdr /\ dhdr' = hdr /\ synced' = Len(log) /\ index' = IndexAfterBatch
      /\ nextOffset' = nextOffset /\ head' = head /\ act' = act /\ copy' = <<>>
      /\ pc' \in {"idle", "shutdown"}
  BY DEF SyncAndIndex, Flush, Return
<1>3. /\ nextOffset = Len(log) + 1
      /\ \A i \in 1..Len(op.frames) : log[BatchStart + i] = op.frames[i]
  BY <1>1 DEF SInv, TailInv
<1>4. SoundIndex(index, log, nextOffset) /\ BlobsIn(log, synced)
  BY DEF SInv, FlushedIndex
<1>5. ASSUME NEW k \in Key, IndexAfterBatch[k] # 0
      PROVE  LET i == IndexAfterBatch[k]
             IN  i < nextOffset /\ i <= Len(log) /\ IsFrame(log[i]) /\ log[i].key = k /\ log[i].val # None
  <2>1. IndexAfterBatch[k] = IF InBatch(k) = {} THEN index[k]
                             ELSE IF op.frames[Last(InBatch(k))].val = None THEN 0
                             ELSE BatchStart + Last(InBatch(k))
    BY DEF IndexAfterBatch
  <2>2. CASE InBatch(k) = {}
    BY <1>4, <1>5, <2>1, <2>2 DEF SoundIndex
  <2>3. CASE InBatch(k) # {}
    <3>1. InBatch(k) \in SUBSET (0..Len(op.frames))
      BY <1>1 DEF InBatch
    <3>2. Last(InBatch(k)) \in InBatch(k)
      BY <1>1, <2>3, <3>1, LastIsMember
    <3>3. PICK i \in 1..Len(op.frames) : i = Last(InBatch(k)) /\ op.frames[i].key = k
      <4>1. DOMAIN op.frames = 1..Len(op.frames)
        BY <1>1
      <4>2. Last(InBatch(k)) \in DOMAIN op.frames /\ op.frames[Last(InBatch(k))].key = k
        BY <3>2 DEF InBatch
      <4>3. QED  BY <4>1, <4>2
    <3>4. IndexAfterBatch[k] = BatchStart + i /\ op.frames[i].val # None
      BY <1>5, <2>1, <2>3, <3>3
    <3>5. log[BatchStart + i] = op.frames[i] /\ IsFrame(op.frames[i])
      <4>1. op.frames[i] \in Frames
        BY <1>1
      <4>2. QED  BY <1>3, <4>1 DEF Frames, IsFrame
    <3>6. BatchStart + i <= Len(log) /\ BatchStart + i < nextOffset
      <4>1. PICK n \in Nat, m \in Nat : n = Len(log) /\ m = Len(op.frames)
        BY <1>1
      <4>2. BatchStart = n - m /\ nextOffset = n + 1 /\ i \in 1..m
        BY <1>3, <4>1 DEF BatchStart
      <4>3. BatchStart + i <= n /\ BatchStart + i < nextOffset
        BY <4>2
      <4>4. QED  BY <4>1, <4>3
    <3>7. QED  BY <3>3, <3>4, <3>5, <3>6
  <2>4. QED  BY <2>2, <2>3
<1>6. SoundIndex(IndexAfterBatch, log, nextOffset)
  BY <1>5 DEF SoundIndex
<1>7. \A k \in Key : IndexAfterBatch[k] <= Len(log)
  <2>1. \A k \in Key : IndexAfterBatch[k] # 0 => IndexAfterBatch[k] <= Len(log)
    BY <1>5
  <2>2. QED  BY <1>1, <2>1
<1>8. FlushedIndex(index', log', nextOffset', synced') /\ BlobsIn(log', synced')
  BY <1>1, <1>2, <1>4, <1>6, <1>7, FlushedMore DEF FlushedIndex
<1>9. Named(log, head) /\ CopySound' /\ TailInv'
  BY <1>1, <1>2 DEF SInv, NameInv, CopySound, TailInv, Running, Opening
<1>10. Extends(log, log')
  BY <1>1, <1>2 DEF Extends
<1>11. QED  BY <1>1, <1>2, <1>8, <1>9, <1>10, RunsOnKeeps DEF RunsOn

\* The inactive slot receives a header that outranks the active one.
LEMMA HeaderWritten ==
  ASSUME IInv, IInv', SInv, WriteNullSnapshotHeader \/ WriteCheckpointHeader
  PROVE  SInv'
<1>1. act \in Slots /\ 1 - act \in Slots /\ 1 - act # act /\ hdr \in [Slots -> Headers]
  BY DEF IInv, EngineTypeOK, FileTypeOK, Slots
<1>2. PICK h : /\ hdr' = [hdr EXCEPT ![1 - act] = h] /\ h.commit = head.commit + 1
               /\ \/ pc = "nullhdr" /\ pc' = "nullsync" /\ h.snap = 0
                  \/ /\ pc = "ckpthdr" /\ pc' = "ckptsync"
                     /\ h.snap = Len(log) /\ h.recEnd = nextOffset
  <2>1. CASE WriteNullSnapshotHeader
    <3>1. NullHeader.commit = head.commit + 1 /\ NullHeader.snap = 0
      BY DEF NullHeader, IInv, EngineTypeOK, Headers
    <3>2. QED  BY <2>1, <3>1 DEF WriteNullSnapshotHeader, WriteInactiveHeader
  <2>2. CASE WriteCheckpointHeader
    <3>1. /\ CheckpointHeader.commit = head.commit + 1 /\ CheckpointHeader.snap = Len(log)
          /\ CheckpointHeader.recEnd = nextOffset
      BY DEF CheckpointHeader
    <3>2. QED  BY <2>2, <3>1 DEF WriteCheckpointHeader, WriteInactiveHeader
  <2>3. QED  BY <2>1, <2>2
<1>3. /\ log' = log /\ synced' = synced /\ dhdr' = dhdr /\ index' = index /\ nextOffset' = nextOffset
      /\ head' = head /\ act' = act /\ copy' = copy
  BY DEF WriteNullSnapshotHeader, WriteCheckpointHeader, WriteInactiveHeader, mem
<1>4. hdr'[act] = hdr[act] /\ hdr'[1 - act] = h
  BY <1>1, <1>2
<1>5. FlushedIndex(index, log, nextOffset, synced)' /\ BlobsIn(log, synced)' /\ CopySound'
  BY <1>3 DEF SInv, CopySound
<1>6. TailInv' /\ FlushInv'
  BY <1>2, <1>3 DEF SInv, TailInv, FlushInv
<1>7. RankInv'
  BY <1>2, <1>3, <1>4 DEF SInv, RankInv, GivesWay
<1>8. NameInv'
  BY <1>2, <1>3, <1>4 DEF SInv, NameInv, Running, Opening
<1>9. QED  BY <1>5, <1>6, <1>7, <1>8 DEF SInv

\* The header just written names nothing, or the snapshot at the end of the file.
LEMMA WrittenNames ==
  ASSUME IInv, SInv, pc \in {"nullsync", "ckptsync"}
  PROVE  Good(log, hdr[1 - act]) /\ Named(log, hdr[1 - act])
<1>1. CASE pc = "nullsync"
  <2>1. hdr[1 - act].snap = 0
    BY <1>1 DEF SInv, NameInv
  <2>2. QED  BY <2>1 DEF Good, Named, SnapshotLoads
<1>2. CASE pc = "ckptsync"
  <2>1. hdr[1 - act].snap = Len(log) /\ hdr[1 - act].recEnd = nextOffset
    BY <1>2 DEF SInv, NameInv
  <2>2. Len(log) > 0 /\ log[Len(log)] = Blob(index) /\ Len(log) \in Nat
    BY <1>2 DEF SInv, TailInv, IInv, FileTypeOK
  <2>3. log[Len(log)].idx = index /\ IsBlob(log[Len(log)])
    BY <2>2 DEF Blob, IsBlob
  <2>4. \A k \in Key : index[k] < nextOffset
    <3>1. \A k \in Key : index[k] # 0 => index[k] < nextOffset
      BY DEF SInv, FlushedIndex, SoundIndex
    <3>2. nextOffset \in Nat /\ 0 < nextOffset
      BY DEF IInv, TruncationPointInFile, EngineTypeOK, FileTypeOK
    <3>3. QED  BY <3>1, <3>2
  <2>5. QED  BY <2>1, <2>2, <2>3, <2>4 DEF Good, Named
<1>3. QED  BY <1>1, <1>2

\* switchHeader: the header just written is on disk and in use.
LEMMA SwitchSound ==
  ASSUME IInv, IInv', SInv, SwitchNullHeader \/ SwitchCheckpointHeader
  PROVE  SInv'
<1>1. /\ act \in Slots /\ 1 - act \in Slots /\ 1 - (1 - act) = act /\ 1 - act # act
      /\ log \in Seq(Cells) /\ synced \in Nat /\ synced <= Len(log) /\ Len(log) \in Nat
      /\ index \in [Key -> Nat] /\ nextOffset \in Nat
  BY DEF IInv, EngineTypeOK, FileTypeOK, Slots
<1>2. /\ pc \in {"nullsync", "ckptsync"} /\ pc' \in {"append", "idle", "shutdown"}
      /\ log' = log /\ hdr' = hdr /\ synced' = Len(log) /\ dhdr' = hdr
      /\ act' = 1 - act /\ head' = hdr[1 - act] /\ index' = index /\ nextOffset' = nextOffset
      /\ copy' = copy
  BY DEF SwitchNullHeader, SwitchCheckpointHeader, Flush, Return
<1>3. FlushedIndex(index, log, nextOffset, Len(log)) /\ BlobsIn(log, Len(log))
  BY <1>1, FlushedMore DEF SInv
<1>4. CopySound' /\ TailInv' /\ FlushInv'
  BY <1>2 DEF SInv, CopySound, TailInv, FlushInv
<1>5. hdr[act] = head /\ head.commit \in Nat /\ hdr[1 - act].commit = head.commit + 1
  BY <1>2 DEF SInv, RankInv
<1>6. RankInv'
  <2>1. hdr'[act'] = head' /\ head'.commit \in Nat /\ 1 - act' = act
    BY <1>1, <1>2, <1>5
  <2>2. hdr'[1 - act'].commit < head'.commit /\ dhdr'[1 - act'].commit < head'.commit
    BY <1>2, <1>5, <2>1
  <2>3. hdr'[1 - act'].commit <= head'.commit /\ dhdr'[1 - act'].commit <= head'.commit
    BY <1>2, <1>5, <2>1
  <2>4. QED  BY <1>2, <2>1, <2>2, <2>3 DEF RankInv, GivesWay
<1>7. Good(log, head') /\ Named(log, head')
  BY <1>2, WrittenNames
<1>8. NameInv'
  BY <1>2, <1>7 DEF NameInv, Running, Opening
<1>9. QED  BY <1>2, <1>3, <1>4, <1>6, <1>8 DEF SInv

\* trimTailSnapshot's truncate and Open's cut behind what the index names.
LEMMA TruncateSound ==
  ASSUME IInv, IInv', SInv, TrimTailSnapshot \/ OpenTruncate
  PROVE  SInv'
<1>1. /\ log \in Seq(Cells) /\ log' \in Seq(Cells) /\ synced \in Nat /\ index \in [Key -> Nat]
      /\ nextOffset \in Nat /\ nextOffset \in 1..(Len(log) + 1) /\ head \in Headers
      /\ hdr \in [Slots -> Headers] /\ Len(log) \in Nat
  BY DEF IInv, FileTypeOK, EngineTypeOK, TruncationPointInFile
<1>2. /\ log' = SubSeq(log, 1, nextOffset - 1) /\ hdr' = hdr /\ synced' = Len(log') /\ dhdr' = hdr
      /\ act' = act /\ head' = head /\ index' = index /\ nextOffset' = nextOffset
      /\ op' = op /\ copy' = copy
      /\ (pc = "trim" /\ pc' = "nullhdr") \/ (pc = "opentrunc" /\ pc' = "openhdr")
  BY DEF TrimTailSnapshot, OpenTruncate, TruncateTail, Flush
<1>3. Extends(log', log) /\ Len(log') = nextOffset - 1
  BY <1>1, <1>2, Truncated, TruncatedExtends
<1>4. SoundIndex(index, log, nextOffset) /\ BlobsIn(log, synced)
  BY DEF SInv, FlushedIndex
<1>5. \A k \in Key : index[k] <= Len(log')
  <2>1. \A k \in Key : index[k] # 0 => index[k] < nextOffset
    BY <1>4 DEF SoundIndex
  <2>2. QED  BY <1>1, <1>3, <2>1
<1>6. SoundIndex(index, log', nextOffset)
  BY <1>1, <1>3, <1>4, <1>5, SoundOver
<1>7. FlushedIndex(index', log', nextOffset', synced')
  BY <1>2, <1>5, <1>6 DEF FlushedIndex
<1>8. BlobsIn(log', synced')
  BY <1>1, <1>2, <1>3, <1>4, BlobsCut
<1>9. CopySound' /\ TailInv' /\ FlushInv'
  BY <1>2 DEF SInv, CopySound, TailInv, FlushInv
<1>10. RankInv'
  BY <1>2 DEF SInv, RankInv, GivesWay
<1>11. Good(log', head)
  <2>1. Good(log, head)
    BY <1>2 DEF SInv, NameInv
  <2>2. QED  BY <1>1, <1>3, <2>1, GoodOver
<1>12. ASSUME pc = "opentrunc", op.kind = "open"  PROVE Named(log', head)
  <2>1. Named(log, head) /\ head.snap < nextOffset
    BY <1>12 DEF SInv, NameInv, Opening
  <2>2. head.snap \in Nat
    BY <1>1 DEF Headers
  <2>3. head.snap # 0 => head.snap \in 1..Len(log') /\ head.snap <= Len(log')
    BY <1>1, <1>3, <2>1, <2>2
  <2>4. head.snap # 0 => log'[head.snap] = log[head.snap]
    BY <1>3, <2>3 DEF Extends
  <2>5. QED  BY <2>1, <2>3, <2>4 DEF Named
<1>13. NameInv'
  BY <1>2, <1>11, <1>12 DEF SInv, NameInv, Running, Opening
<1>14. QED  BY <1>7, <1>8, <1>9, <1>10, <1>13 DEF SInv

\* What a file is left with when the engine lets go of it.
LetGo ==
  /\ Forget /\ copy' = copy
  /\ BlobsIn(log', Len(log')) /\ synced' = Len(log') /\ dhdr' = hdr'
  /\ Usable(log', hdr'[ActiveSlot(hdr')])

\* A file the engine lets go of, by Close or by a crash, is sound for the next Open.
LEMMA LetGoKeeps ==
  ASSUME IInv, IInv', SInv, LetGo
  PROVE  SInv'
<1>1. log' \in Seq(Cells) /\ Len(log') \in Nat
  BY DEF IInv, FileTypeOK
<1>2. pc' = "down" /\ index' = NoIndex /\ nextOffset' = 1
  BY DEF LetGo, Forget
<1>3. FlushedIndex(index', log', nextOffset', synced')
  BY <1>1, <1>2, NothingNamed DEF LetGo
<1>4. CopySound' /\ TailInv' /\ FlushInv' /\ RankInv'
  BY <1>2 DEF SInv, CopySound, TailInv, FlushInv, RankInv, LetGo
<1>5. NameInv'
  BY <1>2 DEF NameInv, LetGo, Running, Opening
<1>6. QED  BY <1>3, <1>4, <1>5 DEF SInv, LetGo

\* Unless a header has just been written, a restart selects the active one.
LEMMA ActiveHead ==
  ASSUME IInv, SInv, pc \notin {"down", "nullsync", "ckptsync"}
  PROVE  hdr[act] = head /\ ActiveSlot(hdr) = act /\ head.commit \in Nat
<1>1. hdr[act] = head /\ head.commit \in Nat /\ GivesWay(1 - act, hdr[1 - act].commit)
  BY DEF SInv, RankInv
<1>2. PICK c \in Nat : c = head.commit
  BY <1>1
<1>3. IF 1 - act = 0 THEN hdr[1 - act].commit < c ELSE hdr[1 - act].commit <= c
  BY <1>1, <1>2 DEF GivesWay
<1>4. hdr[act].commit = c /\ hdr \in [Slots -> Headers] /\ act \in Slots
  BY <1>1, <1>2 DEF IInv, FileTypeOK, EngineTypeOK
<1>5. QED  BY <1>1, <1>3, <1>4, ActiveIsSelected

\* shutdownHandles, and Open giving up on its truncate.
LEMMA LetGoSteps ==
  ASSUME IInv, IInv', SInv, ShutdownHandles \/ OpenTruncateFails
  PROVE  SInv'
<1>1. /\ log \in Seq(Cells) /\ log' \in Seq(Cells) /\ synced \in Nat /\ synced <= Len(log)
      /\ head \in Headers /\ act \in Slots /\ hdr \in [Slots -> Headers] /\ Len(log) \in Nat
      /\ nextOffset \in 1..(Len(log) + 1)
  BY DEF IInv, FileTypeOK, EngineTypeOK, TruncationPointInFile
<1>2. pc \in {"shutdown", "opentrunc"}
  BY DEF ShutdownHandles, OpenTruncateFails
<1>3. hdr[act] = head /\ ActiveSlot(hdr) = act /\ head.commit \in Nat
  BY <1>2, ActiveHead
<1>4. Good(log, head) /\ BlobsIn(log, synced)
  BY <1>2 DEF SInv, NameInv
<1>5. CASE ShutdownHandles
  <2>1. /\ Forget /\ copy' = copy /\ log' = log /\ hdr' = hdr /\ synced' = Len(log') /\ dhdr' = hdr'
    BY <1>5 DEF ShutdownHandles, Flush
  <2>2. BlobsIn(log', Len(log'))
    BY <1>1, <1>4, <2>1, FlushedMore
  <2>3. QED  BY <1>3, <1>4, <2>1, <2>2, LetGoKeeps DEF LetGo, Usable
<1>6. CASE OpenTruncateFails
  <2>1. /\ Forget /\ copy' = copy /\ log' \in {log, SubSeq(log, 1, nextOffset - 1)}
        /\ hdr' = hdr /\ dhdr' = dhdr /\ pc = "opentrunc"
        /\ synced' = IF synced < Len(log') THEN synced ELSE Len(log')
    BY <1>6 DEF OpenTruncateFails
  <2>2. synced = Len(log) /\ dhdr = hdr
    BY <2>1 DEF SInv, FlushInv, RankInv
  <2>3. Extends(log', log)
    <3>1. Extends(log, log)
      BY <1>1 DEF Extends
    <3>2. QED  BY <1>1, <2>1, <3>1, TruncatedExtends
  <2>4. synced' = Len(log')
    BY <1>1, <2>1, <2>2, <2>3 DEF Extends
  <2>5. BlobsIn(log', Len(log')) /\ Good(log', head)
    BY <1>1, <1>4, <2>3, BlobsCut, GoodOver
  <2>6. QED  BY <1>3, <2>1, <2>2, <2>4, <2>5, LetGoKeeps DEF LetGo, Usable
<1>7. QED  BY <1>5, <1>6

\* A crash.  The active header is on disk, the other slot holds what was written
\* to it, what was there before, or nothing: a restart selects the active
\* header, or one that was written to replace it.
LEMMA CrashSelects ==
  ASSUME IInv, IInv', SInv, Crash, hdr[act] = dhdr[act]
  PROVE  /\ pc # "down"
         /\ \/ hdr'[ActiveSlot(hdr')] = head
            \/ pc \in {"nullsync", "ckptsync"} /\ hdr'[ActiveSlot(hdr')] = hdr[1 - act]
<1>1. /\ hdr \in [Slots -> Headers] /\ dhdr \in [Slots -> Headers] /\ hdr' \in [Slots -> Headers]
      /\ act \in Slots /\ 1 - act \in Slots /\ 1 - act # act /\ Len(log) \in Nat
  BY DEF IInv, FileTypeOK, EngineTypeOK, Slots
<1>2. pc # "down"
  <2>1. pc = "down" => synced = Len(log) /\ dhdr = hdr
    BY DEF SInv, FlushInv, RankInv
  <2>2. pc # "down" \/ synced < Len(log) \/ hdr # dhdr
    BY DEF Crash
  <2>3. ~(Len(log) < Len(log))
    BY <1>1
  <2>4. QED  BY <2>1, <2>2, <2>3
<1>3. hdr[act] = head /\ head.commit \in Nat
  BY <1>2 DEF SInv, RankInv
<1>4. PICK h \in [Slots -> {"new", "old", "torn"}] :
        /\ \A t \in Slots : hdr[t] = dhdr[t] => h[t] = "new"
        /\ hdr' = [t \in Slots |-> CASE h[t] = "new" -> hdr[t]
                                     [] h[t] = "old" -> dhdr[t]
                                     [] h[t] = "torn" -> TornHeader]
  BY DEF Crash
<1>5. hdr'[act] = head
  BY <1>1, <1>3, <1>4
<1>6. hdr'[1 - act] = hdr[1 - act] \/ hdr'[1 - act] = dhdr[1 - act] \/ hdr'[1 - act] = TornHeader
  BY <1>1, <1>4
<1>7. GivesWay(1 - act, dhdr[1 - act].commit) /\ GivesWay(1 - act, TornHeader.commit)
  <2>1. GivesWay(1 - act, dhdr[1 - act].commit)
    BY <1>2 DEF SInv, RankInv
  <2>2. TornHeader.commit = -1
    BY DEF TornHeader
  <2>3. QED  BY <1>3, <2>1, <2>2 DEF GivesWay
<1>8. ASSUME GivesWay(1 - act, hdr'[1 - act].commit)  PROVE hdr'[ActiveSlot(hdr')] = head
  <2>1. PICK c \in Nat : c = head.commit
    BY <1>3
  <2>2. IF 1 - act = 0 THEN hdr'[1 - act].commit < c ELSE hdr'[1 - act].commit <= c
    BY <1>8, <2>1 DEF GivesWay
  <2>3. ActiveSlot(hdr') = act
    BY <1>1, <1>5, <2>1, <2>2, ActiveIsSelected
  <2>4. QED  BY <1>5, <2>3
<1>9. ASSUME hdr'[1 - act] = hdr[1 - act], pc \notin {"nullsync", "ckptsync"}
      PROVE  hdr'[ActiveSlot(hdr')] = head
  <2>1. GivesWay(1 - act, hdr[1 - act].commit)
    BY <1>2, <1>9 DEF SInv, RankInv
  <2>2. QED  BY <1>8, <1>9, <2>1
<1>10. ActiveSlot(hdr') \in {act, 1 - act}
  BY <1>1 DEF ActiveSlot, Slots
<1>11. QED  BY <1>2, <1>5, <1>6, <1>7, <1>8, <1>9, <1>10

\* So the file a crash leaves is one a restart can work from.
LEMMA CrashSound ==
  ASSUME IInv, IInv', SInv, Crash, hdr[act] = dhdr[act]
  PROVE  SInv'
<1>1. /\ log \in Seq(Cells) /\ log' \in Seq(Cells) /\ synced \in Nat /\ head \in Headers
      /\ 1 - act \in Slots /\ hdr[1 - act] \in Headers
  BY DEF IInv, FileTypeOK, EngineTypeOK, Slots
<1>2. /\ pc # "down"
      /\ \/ hdr'[ActiveSlot(hdr')] = head
         \/ pc \in {"nullsync", "ckptsync"} /\ hdr'[ActiveSlot(hdr')] = hdr[1 - act]
  BY CrashSelects
<1>3. BlobsIn(log, synced) /\ Good(log, head) /\ head.commit \in Nat
  BY <1>2 DEF SInv, NameInv, RankInv
<1>4. BlobsIn(log', Len(log')) /\ \A h \in Headers : Good(log, h) => Good(log', h)
  BY <1>1, <1>3, CrashSurvives, SurvivorsSound
<1>5. pc \in {"nullsync", "ckptsync"} => Good(log', hdr[1 - act]) /\ hdr[1 - act].commit \in Nat
  <2>1. pc \in {"nullsync", "ckptsync"} => hdr[1 - act].commit \in Nat
    BY <1>3 DEF SInv, RankInv
  <2>2. pc \in {"nullsync", "ckptsync"} => Good(log, hdr[1 - act])
    BY WrittenNames
  <2>3. QED  BY <1>1, <1>4, <2>1, <2>2
<1>6. Usable(log', hdr'[ActiveSlot(hdr')])
  BY <1>1, <1>2, <1>3, <1>4, <1>5 DEF Usable
<1>7. Forget /\ copy' = copy /\ synced' = Len(log') /\ dhdr' = hdr'
  BY DEF Crash, Flush
<1>8. QED  BY <1>4, <1>6, <1>7, LetGoKeeps DEF LetGo

\* The copy in place of the file is sound.
LEMMA SwapInCopySound ==
  ASSUME IInv, IInv', SInv, SwapInCopy
  PROVE  SInv'
<1> DEFINE h == [commit |-> 1, snap |-> Len(copy), len |-> Len(copy), recEnd |-> Len(copy)]
<1>1. /\ log' = copy /\ hdr' = [hdr EXCEPT ![0] = NewHeader, ![1] = h]
      /\ synced' = Len(log') /\ dhdr' = hdr' /\ copy' = <<>> /\ pc = "down" /\ pc' = "down"
      /\ index' = index /\ nextOffset' = nextOffset
  BY DEF SwapInCopy, Flush, mem
<1>2. /\ copy \in Seq(Cells) /\ Len(copy) \in Nat /\ hdr \in [Slots -> Headers] /\ nextOffset = 1
      /\ index \in [Key -> Nat]
  BY <1>1 DEF IInv, FileTypeOK, EngineTypeOK, DownInv
<1>3. h.commit = 1 /\ h.snap = Len(copy) /\ h.recEnd = Len(copy)
  OBVIOUS
<1> HIDE DEF h
<1>4. hdr'[0] = NewHeader /\ hdr'[1] = h
  BY <1>1, <1>2 DEF Slots
<1>5. ActiveSlot(hdr') = 1
  <2>1. hdr'[0].commit = 0 /\ hdr'[1].commit = 1
    BY <1>3, <1>4 DEF NewHeader
  <2>2. QED  BY <2>1 DEF ActiveSlot
<1>6. ASSUME NEW p \in 1..Len(copy), IsBlob(copy[p])  PROVE FlushedIndex(copy[p].idx, copy, p, Len(copy))
  <2>1. SoundIndex(copy[p].idx, copy, p) /\ copy[p].idx \in [Key -> Nat]
    BY <1>2, <1>6, CellShapes DEF SInv, CopySound
  <2>2. \A k \in Key : copy[p].idx[k] # 0 => copy[p].idx[k] <= Len(copy)
    BY <2>1 DEF SoundIndex
  <2>3. \A k \in Key : copy[p].idx[k] <= Len(copy)
    BY <1>2, <2>2
  <2>4. QED  BY <2>1, <2>3 DEF FlushedIndex
<1>7. BlobsIn(log', synced')
  BY <1>1, <1>6 DEF BlobsIn
<1>8. Good(log', h)
  <2>1. ASSUME SnapshotLoads(copy, h), NEW k \in Key  PROVE copy[h.snap].idx[k] < h.recEnd
    <3>1. Len(copy) \in 1..Len(copy) /\ IsBlob(copy[Len(copy)])
      BY <1>3, <2>1 DEF SnapshotLoads
    <3>2. FlushedIndex(copy[Len(copy)].idx, copy, Len(copy), Len(copy))
      BY <1>6, <3>1
    <3>3. copy[Len(copy)].idx[k] # 0 => copy[Len(copy)].idx[k] < Len(copy)
      BY <3>2 DEF FlushedIndex, SoundIndex
    <3>4. copy[Len(copy)].idx[k] < Len(copy)
      BY <1>2, <3>1, <3>3
    <3>5. QED  BY <1>3, <3>4
  <2>2. QED  BY <1>1, <2>1 DEF Good
<1>9. \A k \in Key : index[k] = 0
  <2>1. \A k \in Key : index[k] # 0 => index[k] < nextOffset
    BY DEF SInv, FlushedIndex, SoundIndex
  <2>2. QED  BY <1>2, <2>1
<1>10. FlushedIndex(index', log', nextOffset', synced')
  BY <1>1, <1>2, <1>9 DEF FlushedIndex, SoundIndex
<1>11. CopySound' /\ TailInv' /\ FlushInv' /\ RankInv'
  BY <1>1 DEF CopySound, TailInv, FlushInv, RankInv
<1>12. NameInv'
  BY <1>1, <1>3, <1>4, <1>5, <1>8 DEF NameInv, Usable, Running, Opening
<1>13. QED  BY <1>7, <1>10, <1>11, <1>12 DEF SInv

\* Open, up to its first write: the index it builds is sound, and its header's
\* snapshot is in the file or about to be cleared.
LEMMA OpenSound ==
  ASSUME IInv, IInv', SInv, Open
  PROVE  SInv'
<1> DEFINE a == ActiveSlot(hdr)
           h == hdr[a]
           s == ScanStart(log, h)
<1>1. /\ act' = a /\ head' = h /\ index' = RecoveredIndex(log, h)
      /\ nextOffset' = RecoveredNextOffset(log, h) /\ pc = "down" /\ ~IsTorn(h)
      /\ log' = log /\ hdr' = hdr /\ synced' = synced /\ dhdr' = dhdr /\ copy' = copy
      /\ op'.kind = (IF SnapshotCorrupt(log, h) THEN "openclear" ELSE "open")
      /\ pc' = (IF ScanTruncates(log, h, s) THEN "opentrunc" ELSE "openhdr")
  BY DEF Open, file
<1>2. /\ a \in Slots /\ h \in Headers /\ HeaderOK(h) /\ log \in Seq(Cells) /\ Len(log) \in Nat
      /\ hdr \in [Slots -> Headers]
  BY DEF ActiveSlot, Slots, IInv, FileTypeOK, HeadersOK
<1>3. synced = Len(log) /\ dhdr = hdr /\ BlobsIn(log, synced) /\ Good(log, h)
  BY <1>1 DEF SInv, FlushInv, RankInv, NameInv, Usable
<1>4. FlushedIndex(RecoveredIndex(log, h), log, RecoveredNextOffset(log, h), Len(log))
  BY <1>2, <1>3, RecoveredSound
<1>5. h.commit \in Nat
  BY <1>1, <1>2 DEF IsTorn, Headers
<1>6. IF 1 - a = 0 THEN hdr[1 - a].commit < h.commit ELSE hdr[1 - a].commit <= h.commit
  <2>1. hdr[0].commit \in Int /\ hdr[1].commit \in Int
    BY <1>2 DEF Headers, Slots
  <2>2. QED  BY <2>1 DEF ActiveSlot
<1>7. ~SnapshotCorrupt(log, h) => Named(log, h)
  BY DEF SnapshotCorrupt, SnapshotLoads, Named
<1>8. ~SnapshotCorrupt(log, h) /\ ScanTruncates(log, h, s) => h.snap < RecoveredNextOffset(log, h)
  <2>1. s \in 1..(Len(log) + 1) /\ ScanEnd(log, h, s) \in s..(Len(log) + 1) /\ h.snap \in Nat
    BY <1>2, BaseBounds, ScanEndBounds DEF Headers
  <2>2. ScanTruncates(log, h, s) => RecoveredNextOffset(log, h) = ScanEnd(log, h, s)
    BY DEF RecoveredNextOffset
  <2>3. ~SnapshotCorrupt(log, h) => h.snap = 0 \/ s = h.snap + 1
    BY DEF SnapshotCorrupt, ScanStart
  <2> HIDE DEF s, h, a
  <2>4. QED  BY <1>2, <2>1, <2>2, <2>3
<1> HIDE DEF s, h, a
<1>9. CopySound' /\ TailInv' /\ FlushInv'
  BY <1>1, <1>3 DEF SInv, CopySound, TailInv, FlushInv
<1>10. RankInv'
  BY <1>1, <1>3, <1>5, <1>6 DEF RankInv, GivesWay, h
<1>11. NameInv'
  BY <1>1, <1>3, <1>7, <1>8 DEF NameInv, Running, Opening
<1>12. QED  BY <1>1, <1>3, <1>4, <1>9, <1>10, <1>11 DEF SInv

\* clearActiveSnapshot: the header keeps its rank and names nothing.
LEMMA ClearSound ==
  ASSUME IInv, IInv', SInv, ClearActiveSnapshot
  PROVE  SInv'
<1> DEFINE h == [head EXCEPT !.snap = 0, !.len = 0]
<1>1. /\ head' = h /\ hdr' = [hdr EXCEPT ![act] = h] /\ pc = "openhdr" /\ pc' = "openhdr"
      /\ log' = log /\ synced' = synced /\ dhdr' = dhdr /\ act' = act /\ index' = index
      /\ nextOffset' = nextOffset /\ copy' = copy /\ op'.kind = "open"
  BY DEF ClearActiveSnapshot, IInv, EngineTypeOK, Ops
<1>2. h.commit = head.commit /\ h.snap = 0
  BY DEF IInv, EngineTypeOK, Headers
<1> HIDE DEF h
<1>3. act \in Slots /\ 1 - act \in Slots /\ 1 - act # act /\ hdr \in [Slots -> Headers]
  BY DEF IInv, EngineTypeOK, FileTypeOK, Slots
<1>4. hdr'[act] = h /\ hdr'[1 - act] = hdr[1 - act]
  BY <1>1, <1>3
<1>5. FlushedIndex(index, log, nextOffset, synced)' /\ BlobsIn(log, synced)'
  BY <1>1 DEF SInv
<1>6. CopySound' /\ TailInv' /\ FlushInv'
  BY <1>1 DEF SInv, CopySound, TailInv, FlushInv
<1>7. RankInv'
  BY <1>1, <1>2, <1>4 DEF SInv, RankInv, GivesWay
<1>8. Good(log, h) /\ Named(log, h)
  BY <1>2 DEF Good, Named, SnapshotLoads
<1>9. NameInv'
  BY <1>1, <1>8 DEF NameInv, Running, Opening
<1>10. QED  BY <1>5, <1>6, <1>7, <1>9 DEF SInv
-----------------------------------------------------------------------------
\* No call of HeaderCalls fails.
HeaderCallsOK == Faults \cap HeaderCalls = {}

\* A freshly created file is sound.
LEMMA InitSound == Init => SInv
<1> SUFFICES ASSUME Init PROVE SInv
  OBVIOUS
<1>1. /\ log = <<>> /\ copy = <<>> /\ hdr = [s \in Slots |-> NewHeader] /\ dhdr = hdr
      /\ synced = 0 /\ act = 0 /\ head = NewHeader /\ index = NoIndex /\ nextOffset = 1
      /\ pc = "idle"
  BY DEF Init
<1>2. log \in Seq(Cells) /\ Len(log) = 0 /\ Len(copy) = 0
  BY <1>1
<1>3. FlushedIndex(index, log, nextOffset, synced)
  BY <1>1, <1>2, NothingNamed
<1>4. BlobsIn(log, synced) /\ CopySound /\ TailInv /\ FlushInv
  BY <1>1, <1>2 DEF BlobsIn, CopySound, TailInv, FlushInv
<1>5. hdr[0] = NewHeader /\ hdr[1] = NewHeader /\ NewHeader.commit = 0 /\ NewHeader.snap = 0
  BY <1>1 DEF Slots, NewHeader
<1>6. RankInv
  BY <1>1, <1>5 DEF RankInv, GivesWay
<1>7. NameInv
  BY <1>1, <1>5 DEF NameInv, Good, Named, SnapshotLoads, Running, Opening
<1>8. QED  BY <1>3, <1>4, <1>6, <1>7 DEF SInv

\* Every step keeps it, if no call of HeaderCalls fails and a crash finds the
\* active header on disk.
LEMMA StepSound ==
  ASSUME HeaderCallsOK, IInv, IInv', SInv, [Next]_vars, [Crash => hdr[act] = dhdr[act]]_vars
  PROVE  SInv'
<1>1. \A c \in HeaderCalls : c \notin Faults
  BY DEF HeaderCallsOK
<1> USE DEF HeaderCalls
<1>2. CASE Writer
  <2>1. ASSUME NEW recs \in Batches(Key \X Payload), WriteRecordBatch(recs)  PROVE SInv'
    <3>1. \E frames \in Seq(Frames) : StartAppend(frames)
      BY <2>1, RequestsAreFrames DEF WriteRecordBatch
    <3>2. QED  BY <3>1, QuietSteps, QuietKeeps
  <2>2. ASSUME NEW ks \in Batches(Key), DeleteRecordBatch(ks)  PROVE SInv'
    <3>1. \E frames \in Seq(Frames) : StartAppend(frames)
      BY <2>2, RequestsAreFrames DEF DeleteRecordBatch
    <3>2. QED  BY <3>1, QuietSteps, QuietKeeps
  <2>3. CASE TrimTailSnapshot         BY <2>3, TruncateSound
  <2>4. CASE TrimFails                BY <1>1, <2>4 DEF TrimFails, Fails
  <2>5. CASE WriteNullSnapshotHeader  BY <2>5, HeaderWritten
  <2>6. CASE WriteInactiveHeaderFails("nullhdr")
    BY <1>1, <2>6 DEF WriteInactiveHeaderFails, Fails
  <2>7. CASE SwitchNullHeader         BY <2>7, SwitchSound
  <2>8. CASE HeaderSyncFails          BY <1>1, <2>8 DEF HeaderSyncFails, Fails
  <2>9. CASE AppendFrames             BY <2>9, GrowingSound
  <2>10. CASE AppendFails             BY <2>10, QuietSteps, QuietKeeps
  <2>11. CASE UndoAppendFails         BY <2>11, GrowingSound
  <2>12. CASE SyncAndIndex            BY <2>12, SyncAndIndexSound
  <2>13. CASE SyncFails               BY <2>13, QuietSteps, QuietKeeps
  <2>14. QED
    BY <1>2, <2>1, <2>2, <2>3, <2>4, <2>5, <2>6, <2>7, <2>8, <2>9, <2>10, <2>11, <2>12, <2>13
       DEF Writer
<1>3. CASE Checkpointer
  <2>1. CASE Checkpoint \/ Close
    <3>1. \E kind \in {"checkpoint", "close"} : AppendSnapshot(kind)
      BY <2>1 DEF Checkpoint, Close
    <3>2. QED  BY <3>1, GrowingSound
  <2>2. CASE \E kind \in {"checkpoint", "close"} : AppendSnapshotFails(kind)
    BY <2>2, GrowingSound
  <2>3. CASE SyncSnapshot             BY <2>3, QuietSteps, QuietKeeps
  <2>4. CASE SyncSnapshotFails        BY <2>4, QuietSteps, QuietKeeps
  <2>5. CASE WriteCheckpointHeader    BY <2>5, HeaderWritten
  <2>6. CASE WriteInactiveHeaderFails("ckpthdr")
    BY <2>6, QuietSteps, QuietKeeps
  <2>7. CASE SwitchCheckpointHeader   BY <2>7, SwitchSound
  <2>8. CASE SwitchRemapFails         BY <1>1, <2>8 DEF SwitchRemapFails
  <2>9. CASE ShutdownHandles          BY <2>9, LetGoSteps
  <2>10. CASE ShutdownSyncFails       BY <1>1, <2>10 DEF ShutdownSyncFails, Fails
  <2>11. QED
    BY <1>3, <2>1, <2>2, <2>3, <2>4, <2>5, <2>6, <2>7, <2>8, <2>9, <2>10 DEF Checkpointer
<1>4. CASE Opener
  <2>1. CASE Open                      BY <2>1, OpenSound
  <2>2. CASE OpenTruncate              BY <2>2, TruncateSound
  <2>3. CASE OpenTruncateFails         BY <2>3, LetGoSteps
  <2>4. CASE ClearActiveSnapshot       BY <2>4, ClearSound
  <2>5. CASE ClearActiveSnapshotFails  BY <1>1, <2>5 DEF ClearActiveSnapshotFails, Fails
  <2>6. CASE OpenDone                  BY <2>6, QuietSteps, QuietKeeps
  <2>7. QED  BY <1>4, <2>1, <2>2, <2>3, <2>4, <2>5, <2>6 DEF Opener
<1>5. CASE Compact     BY <1>5, CompactSound
<1>6. CASE SwapInCopy  BY <1>6, SwapInCopySound
<1>7. CASE Crash /\ vars' # vars
  <2>1. hdr[act] = dhdr[act]
    BY <1>7
  <2>2. QED  BY <1>7, <2>1, CrashSound
<1>8. CASE UNCHANGED vars
  <2>1. /\ log' = log /\ synced' = synced /\ hdr' = hdr /\ dhdr' = dhdr /\ act' = act /\ head' = head
        /\ index' = index /\ nextOffset' = nextOffset /\ pc' = pc /\ op' = op /\ copy' = copy
    BY <1>8 DEF vars, file, mem
  <2>2. FlushedIndex(index, log, nextOffset, synced)' /\ BlobsIn(log, synced)' /\ CopySound'
    BY <2>1 DEF SInv, FlushedIndex, SoundIndex, BlobsIn, CopySound
  <2>3. TailInv' /\ FlushInv'
    BY <2>1 DEF SInv, TailInv, FlushInv, BatchStart
  <2>4. RankInv' /\ NameInv'
    BY <2>1 DEF SInv, RankInv, NameInv, GivesWay, Running, Opening
  <2>5. QED  BY <2>2, <2>3, <2>4 DEF SInv
<1>9. QED  BY <1>2, <1>3, <1>4, <1>5, <1>6, <1>7, <1>8 DEF Next

\* The inductive invariant of what the index and the snapshots name.
THEOREM SoundInvariance ==
  ASSUME HeaderCallsOK
  PROVE  Spec /\ ClearReachesDisk => []SInv
<1>1. SInv /\ IInv /\ IInv' /\ [Next]_vars /\ [Crash => hdr[act] = dhdr[act]]_vars => SInv'
  BY StepSound
<1>2. QED  BY InitSound, Invariance, <1>1, PTL DEF Spec, ClearReachesDisk

\* The index and every snapshot in the file name live frames of the keys they
\* index, below the end of the record area: ReadRecord never answers a key with
\* the ErrCorruption of an index that disagrees with the log.
THEOREM IndexIsSound ==
  ASSUME HeaderCallsOK
  PROVE  Spec /\ ClearReachesDisk => []IndexNamesOwnRecord
<1>1. SInv => IndexNamesOwnRecord
  BY DEF SInv, FlushedIndex, BlobsIn, IndexNamesOwnRecord
<1>2. QED  BY SoundInvariance, <1>1, PTL

\* truncateTail, called to trim a tail snapshot, cuts no record that a key of
\* the index still answers with.
THEOREM TrimKeepsRecords ==
  ASSUME HeaderCallsOK
  PROVE  Spec /\ ClearReachesDisk => []TrimCutsNoRecord
<1>1. IInv /\ SInv => TrimCutsNoRecord
  <2> SUFFICES ASSUME IInv, SInv, NEW k \in Key  PROVE index[k] < nextOffset
    BY DEF TrimCutsNoRecord
  <2>1. index[k] # 0 => index[k] < nextOffset
    BY DEF SInv, FlushedIndex, SoundIndex
  <2>2. nextOffset \in Nat /\ 0 < nextOffset /\ index[k] \in Nat
    BY DEF IInv, TruncationPointInFile, EngineTypeOK, FileTypeOK
  <2>3. QED  BY <2>1, <2>2
<1>2. QED  BY SoundInvariance, Invariance, <1>1, PTL

\* Between operations the slot the engine believes active is the one a restart
\* would select, and it is outranked by the header the engine writes next.
THEOREM ActiveHeaderNewest ==
  ASSUME HeaderCallsOK
  PROVE  Spec /\ ClearReachesDisk => []ActiveHeaderIsNewest
<1>1. IInv /\ SInv => ActiveHeaderIsNewest
  <2> SUFFICES ASSUME IInv, SInv, pc = "idle"
               PROVE  /\ ActiveSlot(hdr) = act /\ hdr[act].commit = head.commit
                      /\ hdr[1 - act].commit <= head.commit + 1
    BY DEF ActiveHeaderIsNewest, Idle
  <2>1. hdr[act] = head /\ ActiveSlot(hdr) = act /\ head.commit \in Nat
    BY ActiveHead
  <2>2. hdr[1 - act].commit \in Int
    <3>1. hdr[1 - act] \in Headers
      BY DEF IInv, FileTypeOK, EngineTypeOK, Slots
    <3>2. QED  BY <3>1 DEF Headers
  <2>3. hdr[1 - act].commit <= head.commit + 1
    BY <2>1, <2>2 DEF SInv, RankInv, GivesWay
  <2>4. QED  BY <2>1, <2>3
<1>2. QED  BY SoundInvariance, Invariance, <1>1, PTL

\* Open always finds a header it can read: torn slots alone never cost the file,
\* as long as the rewrite in place reaches the disk before a crash.
THEOREM OpenFindsHeader ==
  ASSUME HeaderCallsOK
  PROVE  Spec /\ ClearReachesDisk => []SomeHeaderValid
<1>1. IInv /\ SInv => SomeHeaderValid
  <2> SUFFICES ASSUME IInv, SInv  PROVE hdr[ActiveSlot(hdr)].commit # -1
    BY DEF SomeHeaderValid, IsTorn
  <2>1. CASE pc = "down"
    <3>1. hdr[ActiveSlot(hdr)].commit \in Nat
      BY <2>1 DEF SInv, NameInv, Usable
    <3>2. QED  BY <3>1
  <2>2. CASE pc # "down"
    <3>1. hdr[act].commit \in Nat
      BY <2>2 DEF SInv, RankInv
    <3>2. hdr[0].commit \in Int /\ hdr[1].commit \in Int /\ act \in {0, 1}
      <4>1. hdr[0] \in Headers /\ hdr[1] \in Headers /\ act \in {0, 1}
        BY DEF IInv, FileTypeOK, EngineTypeOK, Slots
      <4>2. QED  BY <4>1 DEF Headers
    <3>3. QED  BY <3>1, <3>2 DEF ActiveSlot
  <2>3. QED  BY <2>1, <2>2
<1>2. QED  BY SoundInvariance, Invariance, <1>1, PTL
-----------------------------------------------------------------------------
(* What a restart brings back. *)

\* The values of the keys: what a read, a tombstone or an absent key answers.
Answers == Payload \cup {None}

\* The value an index entry stands for.
ValueAt(l, i) == IF i = 0 THEN None ELSE l[i].val

\* An index over l answers a.
Answering(l, idx, a) == \A k \in Key : a[k] = ValueAt(l, idx[k])

\* Among the first s cells of l and below cell e there is a frame of k that holds
\* v, or v is the absent value, and no frame of k behind it holds a value that is
\* neither v nor in D.
Based(l, s, e, k, v, D) ==
  \E p \in 0..s :
    /\ p < e
    /\ IF p = 0 THEN v = None ELSE IsFrame(l[p]) /\ l[p].key = k /\ l[p].val = v
    /\ \A i \in (p + 1)..Len(l) : IsFrame(l[i]) /\ l[i].key = k => l[i].val \in D \cup {v}

\* So it is for every key: a holds the values, d the values in doubt.
AllBased(l, s, e, a, d) == \A k \in Key : Based(l, s, e, k, a[k], d[k])

\* No frame lies behind the snapshot h names.
LastFrames(l, h) == h.snap # 0 => \A i \in h.snap..Len(l) : ~IsFrame(l[i])

\* If the snapshot loads, it answers a.
SnapHolds(l, s, h, a, d) ==
  SnapshotLoads(l, h) => Answering(l, l[h.snap].idx, a) /\ AllBased(l, s, h.recEnd, a, d)

NoZero(l) == \A i \in 1..Len(l) : l[i].kind # "zero"
-----------------------------------------------------------------------------
\* More is flushed, the record area grows, more is in doubt.
LEMMA BasedMore ==
  ASSUME NEW l, NEW s \in Nat, NEW t \in Nat, NEW e \in Nat, NEW f \in Nat, NEW k, NEW v,
         NEW D, NEW C, s <= t, e <= f, D \subseteq C, Based(l, s, e, k, v, D)
  PROVE  Based(l, t, f, k, v, C)
<1>1. PICK p \in 0..s :
        /\ p < e
        /\ IF p = 0 THEN v = None ELSE IsFrame(l[p]) /\ l[p].key = k /\ l[p].val = v
        /\ \A i \in (p + 1)..Len(l) : IsFrame(l[i]) /\ l[i].key = k => l[i].val \in D \cup {v}
  BY DEF Based
<1>2. p \in 0..t /\ p < f
  BY <1>1
<1>3. \A i \in (p + 1)..Len(l) : IsFrame(l[i]) /\ l[i].key = k => l[i].val \in C \cup {v}
  BY <1>1
<1>4. QED  BY <1>1, <1>2, <1>3 DEF Based

\* The file grows: the frames of k it grows by are in doubt.
LEMMA BasedOver ==
  ASSUME NEW l \in Seq(Cells), NEW m \in Seq(Cells), NEW s \in Nat, s <= Len(l), NEW e \in Nat,
         NEW k, NEW v, NEW D, Extends(l, m), Based(l, s, e, k, v, D),
         \A i \in (Len(l) + 1)..Len(m) : IsFrame(m[i]) /\ m[i].key = k => m[i].val \in D
  PROVE  Based(m, s, e, k, v, D)
<1>1. PICK p \in 0..s :
        /\ p < e
        /\ IF p = 0 THEN v = None ELSE IsFrame(l[p]) /\ l[p].key = k /\ l[p].val = v
        /\ \A i \in (p + 1)..Len(l) : IsFrame(l[i]) /\ l[i].key = k => l[i].val \in D \cup {v}
  BY DEF Based
<1>2. Len(l) \in Nat /\ Len(m) \in Nat /\ p \in Nat /\ p <= Len(l)
  OBVIOUS
<1>3. p # 0 => m[p] = l[p]
  BY <1>2 DEF Extends
<1>4. ASSUME NEW i \in (p + 1)..Len(m), IsFrame(m[i]), m[i].key = k  PROVE m[i].val \in D \cup {v}
  <2>1. CASE i <= Len(l)
    <3>1. i \in (p + 1)..Len(l) /\ m[i] = l[i]
      BY <1>2, <2>1 DEF Extends
    <3>2. QED  BY <1>1, <1>4, <3>1
  <2>2. CASE ~(i <= Len(l))
    <3>1. i \in (Len(l) + 1)..Len(m)
      BY <1>2, <2>2
    <3>2. QED  BY <1>4, <3>1
  <2>3. QED  BY <2>1, <2>2
<1>5. QED  BY <1>1, <1>3, <1>4 DEF Based

\* The file is cut behind the record area, or a crash takes unflushed cells.
LEMMA BasedUnder ==
  ASSUME NEW l \in Seq(Cells), NEW m \in Seq(Cells), NEW s \in Nat, s <= Len(l), NEW e \in Nat,
         NEW k, NEW v, NEW D, Based(l, s, e, k, v, D),
         \/ Extends(m, l) /\ e <= Len(m) + 1
         \/ Survives(l, m, s)
  PROVE  Based(m, Len(m), e, k, v, D)
<1>1. PICK p \in 0..s :
        /\ p < e
        /\ IF p = 0 THEN v = None ELSE IsFrame(l[p]) /\ l[p].key = k /\ l[p].val = v
        /\ \A i \in (p + 1)..Len(l) : IsFrame(l[i]) /\ l[i].key = k => l[i].val \in D \cup {v}
  BY DEF Based
<1>2. Len(l) \in Nat /\ Len(m) \in Nat /\ p \in Nat
  OBVIOUS
<1>3. p \in 0..Len(m) /\ (p # 0 => m[p] = l[p])
  BY <1>1, <1>2 DEF Extends, Survives
<1>4. \A i \in 1..Len(m) : IsFrame(m[i]) => i \in 1..Len(l) /\ m[i] = l[i]
  BY <1>2 DEF Extends, Survives, IsFrame
<1>5. ASSUME NEW i \in (p + 1)..Len(m), IsFrame(m[i]), m[i].key = k  PROVE m[i].val \in D \cup {v}
  <2>1. i \in 1..Len(m)
    BY <1>2
  <2>2. i \in (p + 1)..Len(l) /\ m[i] = l[i]
    BY <1>2, <1>4, <1>5, <2>1
  <2>3. QED  BY <1>1, <1>5, <2>2
<1>6. QED  BY <1>1, <1>3, <1>5 DEF Based

\* If no frame lies at or behind e, the last frame of k below e says what k is.
LEMMA LastFrameHolds ==
  ASSUME NEW l \in Seq(Cells), NEW e \in 1..(Len(l) + 1), NEW k, NEW s \in Nat, s <= Len(l),
         NEW f \in Nat, NEW v, NEW D, Based(l, s, f, k, v, D),
         \A i \in e..Len(l) : ~IsFrame(l[i])
  PROVE  LET F == FramesOf(l, k, 1, e)
             w == IF F = {} THEN None ELSE l[Last(F)].val
         IN  w \in D \cup {v} /\ Based(l, Len(l), e, k, w, {})
<1> DEFINE F == FramesOf(l, k, 1, e)
           w == IF F = {} THEN None ELSE l[Last(F)].val
<1>1. PICK p \in 0..s :
        /\ IF p = 0 THEN v = None ELSE IsFrame(l[p]) /\ l[p].key = k /\ l[p].val = v
        /\ \A i \in (p + 1)..Len(l) : IsFrame(l[i]) /\ l[i].key = k => l[i].val \in D \cup {v}
  BY DEF Based
<1>2. Len(l) \in Nat /\ p \in Nat /\ e \in Nat /\ p <= Len(l)
  OBVIOUS
<1>3. \A i \in 1..Len(l) : IsFrame(l[i]) /\ l[i].key = k => i \in F
  <2>1. \A i \in 1..Len(l) : IsFrame(l[i]) => i \in 1..(e - 1)
    BY <1>2
  <2>2. QED  BY <2>1 DEF FramesOf
<1>4. F \in SUBSET (0..Len(l))
  BY <1>2 DEF FramesOf
<1>5. CASE F = {}
  <2>1. p = 0
    BY <1>1, <1>2, <1>3, <1>5
  <2>2. w \in D \cup {v}
    BY <1>1, <1>5, <2>1
  <2>3. \A i \in (0 + 1)..Len(l) : ~(IsFrame(l[i]) /\ l[i].key = k)
    BY <1>2, <1>3, <1>5
  <2>4. w = None /\ 0 \in 0..Len(l) /\ 0 < e
    BY <1>2, <1>5
  <2> HIDE DEF w, F
  <2>5. Based(l, Len(l), e, k, w, {})
    BY <2>3, <2>4 DEF Based
  <2>6. QED  BY <2>2, <2>5 DEF w, F
<1>6. CASE F # {}
  <2>1. Last(F) \in F /\ \A j \in F : j <= Last(F)
    BY <1>2, <1>4, <1>6, LastIsMember
  <2>2. PICK q \in 1..(e - 1) : q = Last(F) /\ IsFrame(l[q]) /\ l[q].key = k
    BY <2>1 DEF FramesOf
  <2>3. w = l[q].val
    BY <1>6, <2>2
  <2>4. q \in Nat /\ q < e /\ q \in 0..Len(l) /\ q # 0
    BY <1>2, <2>2
  <2>5. p <= q
    <3>1. p # 0 => p \in F
      BY <1>1, <1>2, <1>3
    <3>2. QED  BY <1>2, <2>1, <2>2, <2>4, <3>1
  <2>6. w \in D \cup {v}
    <3>1. CASE p = q
      BY <1>1, <2>3, <2>4, <3>1
    <3>2. CASE p # q
      <4>1. q \in (p + 1)..Len(l)
        BY <1>2, <2>4, <2>5, <3>2
      <4>2. QED  BY <1>1, <2>2, <2>3, <4>1
    <3>3. QED  BY <3>1, <3>2
  <2>7. \A i \in (q + 1)..Len(l) : ~(IsFrame(l[i]) /\ l[i].key = k)
    BY <1>2, <1>3, <2>1, <2>2, <2>4
  <2> HIDE DEF w, F
  <2>8. Based(l, Len(l), e, k, w, {})
    BY <2>2, <2>3, <2>4, <2>7 DEF Based
  <2>9. QED  BY <2>6, <2>8 DEF w, F
<1>7. QED  BY <1>5, <1>6

\* The scan runs to the last frame: without zero fill it stops only where none
\* follows, or in the snapshot area, where there is none.
LEMMA ScanReachesLast ==
  ASSUME NEW l \in Seq(Cells), NEW h \in Headers, NoZero(l), LastFrames(l, h),
         NEW s \in 1..(Len(l) + 1)
  PROVE  \A i \in ScanEnd(l, h, s)..Len(l) : ~IsFrame(l[i])
<1> DEFINE S == ScanStops(l, h, s)
           e == ScanEnd(l, h, s)
<1>1. S \subseteq s..Len(l) /\ Len(l) \in Nat
  BY DEF ScanStops
<1>2. CASE S = {}
  <2>1. e = Len(l) + 1
    BY <1>2 DEF ScanEnd
  <2>2. QED  BY <1>1, <2>1
<1>3. CASE S # {}
  <2>1. e = First(S) /\ First(S) \in S
    BY <1>1, <1>3, FirstIsMember DEF ScanEnd
  <2>2. /\ e \in 1..Len(l) /\ ~IsFrame(l[e])
        /\ CursorInSnapshotArea(h, e) \/ \A j \in (e + 1)..Len(l) : ~IsFrame(l[j])
    BY <1>1, <2>1 DEF ScanStops, NoZero
  <2>3. CASE CursorInSnapshotArea(h, e)
    <3>1. h.snap # 0 /\ h.snap <= e /\ h.snap \in Nat
      BY <2>2, <2>3 DEF CursorInSnapshotArea, Headers
    <3>2. \A i \in e..Len(l) : i \in h.snap..Len(l)
      BY <1>1, <2>2, <3>1
    <3>3. QED  BY <3>1, <3>2 DEF LastFrames
  <2>4. CASE \A j \in (e + 1)..Len(l) : ~IsFrame(l[j])
    <3> HIDE DEF e
    <3>1. ASSUME NEW i \in e..Len(l)  PROVE ~IsFrame(l[i])
      <4>1. i = e \/ i \in (e + 1)..Len(l)
        BY <1>1, <2>2
      <4>2. QED  BY <2>2, <2>4, <4>1
    <3>2. QED  BY <3>1 DEF e
  <2>5. QED  BY <2>2, <2>3, <2>4
<1>4. QED  BY <1>2, <1>3

\* Without zero fill the scan asks for truncation unless it ran to the end of
\* the file.
LEMMA ScanCuts ==
  ASSUME NEW l \in Seq(Cells), NEW h \in Headers, NoZero(l), NEW s \in 1..(Len(l) + 1)
  PROVE  ScanTruncates(l, h, s) <=> ScanEnd(l, h, s) <= Len(l)
<1>1. ScanEnd(l, h, s) \in 1..(Len(l) + 1)
  BY ScanEndBounds
<1>2. ScanEnd(l, h, s) <= Len(l) => l[ScanEnd(l, h, s)].kind # "zero"
  BY <1>1 DEF NoZero
<1>3. QED  BY <1>2 DEF ScanTruncates

\* What holds of a file holds below the end of its last frame.
LEMMA BasedBelow ==
  ASSUME NEW l \in Seq(Cells), NEW e \in 1..(Len(l) + 1), NEW s \in Nat, s <= Len(l), NEW f \in Nat,
         NEW k, NEW v, NEW D, Based(l, s, f, k, v, D), \A i \in e..Len(l) : ~IsFrame(l[i])
  PROVE  Based(l, s, e, k, v, D)
<1>1. PICK p \in 0..s :
        /\ IF p = 0 THEN v = None ELSE IsFrame(l[p]) /\ l[p].key = k /\ l[p].val = v
        /\ \A i \in (p + 1)..Len(l) : IsFrame(l[i]) /\ l[i].key = k => l[i].val \in D \cup {v}
  BY DEF Based
<1>2. p < e
  <2>1. p \in Nat /\ e \in Nat /\ Len(l) \in Nat /\ p <= Len(l)
    OBVIOUS
  <2>2. p # 0 => IsFrame(l[p])
    BY <1>1
  <2>3. QED  BY <2>1, <2>2
<1>3. QED  BY <1>1, <1>2 DEF Based

\* A snapshot that loads and that no frame follows is the recovered index, and
\* Open cuts what follows it.
LEMMA SnapshotRecovered ==
  ASSUME NEW l \in Seq(Cells), NEW h \in Headers, HeaderOK(h), NoZero(l), LastFrames(l, h),
         SnapshotLoads(l, h)
  PROVE  /\ RecoveredIndex(l, h) = l[h.snap].idx
         /\ IF ScanTruncates(l, h, ScanStart(l, h)) THEN RecoveredNextOffset(l, h) = h.snap + 1
            ELSE RecoveredNextOffset(l, h) = h.recEnd /\ h.snap = Len(l)
<1> DEFINE s == ScanStart(l, h)
           e == ScanEnd(l, h, s)
<1>1. /\ h.snap \in 1..Len(l) /\ IsBlob(l[h.snap]) /\ s = h.snap + 1 /\ BaseIndex(l, h) = l[h.snap].idx
      /\ h.recEnd \in 1..h.snap /\ Len(l) \in Nat
  BY DEF SnapshotLoads, ScanStart, BaseIndex, HeaderOK
<1>2. l[h.snap].idx \in [Key -> Nat]
  BY <1>1, CellShapes
<1>3. \A i \in s..Len(l) : ~IsFrame(l[i])
  <2>1. \A i \in s..Len(l) : i \in h.snap..Len(l)
    BY <1>1
  <2>2. QED  BY <1>1, <2>1 DEF LastFrames
<1>4. s \in 1..(Len(l) + 1) /\ e \in s..(Len(l) + 1)
  BY <1>1, ScanEndBounds
<1>5. e = s
  <2>1. CASE s = Len(l) + 1
    BY <1>1, <1>4, <2>1
  <2>2. CASE s <= Len(l)
    <3>1. s \in s..Len(l) /\ CursorInSnapshotArea(h, s)
      BY <1>1, <2>2 DEF CursorInSnapshotArea
    <3>2. s \in ScanStops(l, h, s)
      BY <1>3, <3>1 DEF ScanStops
    <3>3. ScanStops(l, h, s) \in SUBSET Nat
      BY <1>1 DEF ScanStops
    <3>4. First(ScanStops(l, h, s)) <= s /\ e = First(ScanStops(l, h, s))
      BY <3>2, <3>3, FirstIsMember DEF ScanEnd
    <3>5. QED  BY <1>1, <1>4, <3>4
  <2>3. QED  BY <1>1, <1>4, <2>1, <2>2
<1>6. \A k \in Key : FramesOf(l, k, s, e) = {}
  <2>1. s..(e - 1) = {}
    BY <1>1, <1>5
  <2>2. QED  BY <2>1 DEF FramesOf
<1>7. RecoveredIndex(l, h) = l[h.snap].idx
  <2>1. RecoveredIndex(l, h) = [k \in Key |-> l[h.snap].idx[k]]
    BY <1>1, <1>6 DEF RecoveredIndex, Replay
  <2>2. QED  BY <1>2, <2>1
<1>8. ScanTruncates(l, h, s) <=> e <= Len(l)
  BY <1>4, ScanCuts
<1>9. CASE ScanTruncates(l, h, s)
  BY <1>1, <1>5, <1>7, <1>9 DEF RecoveredNextOffset
<1>10. CASE ~ScanTruncates(l, h, s)
  <2>1. h.snap = Len(l)
    <3> HIDE DEF s, e
    <3>1. QED  BY <1>1, <1>4, <1>5, <1>8, <1>10
  <2>2. h.recEnd \in 1..h.snap /\ h.recEnd <= Len(l) + 1 /\ RecoverRecordAreaEnd(l, h) = h.recEnd
    BY <1>1 DEF RecoverRecordAreaEnd
  <2>3. RecoveredNextOffset(l, h) = h.recEnd
    BY <1>5, <1>10, <2>2 DEF RecoveredNextOffset
  <2>4. QED  BY <1>7, <1>10, <2>1, <2>3
<1>11. QED  BY <1>9, <1>10

\* Open answers each key with a value that was acknowledged or in doubt, and
\* that a frame below the record-area end still holds.
LEMMA RecoveredHolds ==
  ASSUME NEW l \in Seq(Cells), NEW h \in Headers, HeaderOK(h), NoZero(l), LastFrames(l, h),
         NEW a, NEW d, AllBased(l, Len(l), Len(l) + 1, a, d), SnapHolds(l, Len(l), h, a, d)
  PROVE  /\ AllBased(l, Len(l), RecoveredNextOffset(l, h), a, d)
         /\ \A k \in Key :
              LET v == ValueAt(l, RecoveredIndex(l, h)[k])
              IN  /\ v \in d[k] \cup {a[k]}
                  /\ SnapshotLoads(l, h) => v = a[k]
                  /\ ~SnapshotLoads(l, h) => Based(l, Len(l), RecoveredNextOffset(l, h), k, v, {})
<1>1. Len(l) \in Nat /\ Len(l) + 1 \in Nat
  OBVIOUS
<1>2. CASE SnapshotLoads(l, h)
  <2>1. Answering(l, l[h.snap].idx, a) /\ AllBased(l, Len(l), h.recEnd, a, d)
    BY <1>2 DEF SnapHolds
  <2>2. /\ RecoveredIndex(l, h) = l[h.snap].idx
        /\ RecoveredNextOffset(l, h) \in {h.snap + 1, h.recEnd}
    BY <1>2, SnapshotRecovered
  <2>3. h.recEnd \in Nat /\ h.snap \in Nat /\ h.recEnd <= h.snap
    BY <1>2 DEF HeaderOK, SnapshotLoads, Headers
  <2>4. RecoveredNextOffset(l, h) \in Nat /\ h.recEnd <= RecoveredNextOffset(l, h)
    BY <2>2, <2>3
  <2>5. AllBased(l, Len(l), RecoveredNextOffset(l, h), a, d)
    BY <1>1, <2>1, <2>3, <2>4, BasedMore DEF AllBased
  <2>6. \A k \in Key : ValueAt(l, RecoveredIndex(l, h)[k]) = a[k]
    BY <2>1, <2>2 DEF Answering
  <2>7. QED  BY <1>2, <2>5, <2>6
<1>3. CASE ~SnapshotLoads(l, h)
  <2> DEFINE e == ScanEnd(l, h, 1)
  <2>1. /\ ScanStart(l, h) = 1 /\ BaseIndex(l, h) = NoIndex
        /\ RecoveredNextOffset(l, h) = e /\ RecoveredIndex(l, h) = Replay(l, NoIndex, 1, e)
    BY <1>3 DEF ScanStart, BaseIndex, RecoveredNextOffset, RecoveredIndex
  <2>2. 1 \in 1..(Len(l) + 1) /\ e \in 1..(Len(l) + 1)
    BY <1>1, ScanEndBounds
  <2>3. \A i \in e..Len(l) : ~IsFrame(l[i])
    BY <2>2, ScanReachesLast
  <2> HIDE DEF e
  <2>4. ASSUME NEW k \in Key
        PROVE  LET v == ValueAt(l, RecoveredIndex(l, h)[k])
               IN  /\ v \in d[k] \cup {a[k]} /\ Based(l, Len(l), e, k, v, {})
                   /\ Based(l, Len(l), e, k, a[k], d[k])
    <3> DEFINE F == FramesOf(l, k, 1, e)
    <3>1. PICK w : w = IF F = {} THEN None ELSE l[Last(F)].val
      OBVIOUS
    <3>2. Based(l, Len(l), Len(l) + 1, k, a[k], d[k]) /\ Len(l) <= Len(l)
      BY <1>1 DEF AllBased
    <3>3. w \in d[k] \cup {a[k]} /\ Based(l, Len(l), e, k, w, {})
      BY <1>1, <2>2, <2>3, <3>1, <3>2, LastFrameHolds
    <3>4. Based(l, Len(l), e, k, a[k], d[k])
      BY <1>1, <2>2, <2>3, <3>2, BasedBelow
    <3>5. RecoveredIndex(l, h)[k] = IF F = {} THEN 0 ELSE IF l[Last(F)].val = None THEN 0 ELSE Last(F)
      BY <2>1 DEF Replay, NoIndex
    <3>6. F # {} => Last(F) # 0
      <4>1. F \in SUBSET (0..Len(l)) /\ 0 \notin F
        BY <1>1, <2>2 DEF FramesOf
      <4>2. QED  BY <1>1, <4>1, LastIsMember
    <3>7. ValueAt(l, RecoveredIndex(l, h)[k]) = w
      BY <3>1, <3>5, <3>6 DEF ValueAt
    <3>8. QED  BY <3>3, <3>4, <3>7
  <2>5. QED  BY <1>3, <2>1, <2>4 DEF AllBased
<1>4. QED  BY <1>2, <1>3
\* Appending extends the file.
LEMMA AppendedExtends ==
  ASSUME IInv, IInv',
         \/ AppendFrames \/ UndoAppendFails
         \/ \E kind \in {"checkpoint", "close"} : AppendSnapshot(kind) \/ AppendSnapshotFails(kind)
  PROVE  Extends(log, log')
<1>1. log \in Seq(Cells) /\ log' \in Seq(Cells) /\ op.frames \in Seq(Frames) /\ op.frames \in Seq(Cells)
      /\ Extends(log, log)
  BY DEF IInv, FileTypeOK, EngineTypeOK, Ops, Cells, Extends
<1>2. \A c : Len(Append(log, c)) = Len(log) + 1 /\ \A i \in 1..Len(log) : Append(log, c)[i] = log[i]
  BY <1>1
<1>3. \A c : Extends(log, Append(log, c))
  BY <1>1, <1>2 DEF Extends
<1>4. CASE AppendFrames
  BY <1>1, <1>4, ConcatExtends DEF AppendFrames
<1>5. CASE \E kind \in {"checkpoint", "close"} : AppendSnapshot(kind) \/ AppendSnapshotFails(kind)
  BY <1>1, <1>3, <1>5 DEF AppendSnapshot, AppendSnapshotFails
<1>6. CASE UndoAppendFails
  <2>1. CASE log' = log
    BY <1>1, <2>1
  <2>2. CASE \E n \in 0..(Len(op.frames) - 1) :
               log' = (log \o SubSeq(op.frames, 1, n)) \o <<Junk("torn")>>
    <3>1. PICK n \in 0..(Len(op.frames) - 1) :
            log' = (log \o SubSeq(op.frames, 1, n)) \o <<Junk("torn")>>
      BY <2>2
    <3>2. PICK part \in Seq(Cells) : part = SubSeq(op.frames, 1, n)
      <4>1. n \in Nat /\ n <= Len(op.frames) /\ Len(op.frames) \in Nat
        BY <1>1
      <4>2. SubSeq(op.frames, 1, n) \in Seq(Cells)
        BY <1>1, <4>1, SubSeqProperties
      <4>3. QED  BY <4>2
    <3>3. <<Junk("torn")>> \in Seq(Cells)
      BY DEF Junk, Cells
    <3>4. PICK m \in Seq(Cells) : m = log \o part /\ Extends(log, m)
      BY <1>1, <3>2, ConcatExtends
    <3>5. log' = m \o <<Junk("torn")>> /\ Extends(m, log')
      BY <3>1, <3>2, <3>3, <3>4, ConcatExtends
    <3>6. QED  BY <1>1, <3>4, <3>5 DEF Extends
  <2>3. QED  BY <1>6, <2>1, <2>2 DEF UndoAppendFails
<1>7. QED  BY <1>4, <1>5, <1>6

\* The last frame of a key in the batch.
LEMMA LastOfBatch ==
  ASSUME op.frames \in Seq(Frames), NEW k \in Key, InBatch(k) # {}
  PROVE  /\ \E i \in 1..Len(op.frames) : i = Last(InBatch(k)) /\ op.frames[i].key = k
         /\ \A j \in 1..Len(op.frames) : op.frames[j].key = k => j <= Last(InBatch(k))
<1>1. DOMAIN op.frames = 1..Len(op.frames) /\ Len(op.frames) \in Nat
  OBVIOUS
<1>2. InBatch(k) \in SUBSET (0..Len(op.frames))
  BY <1>1 DEF InBatch
<1>3. Last(InBatch(k)) \in InBatch(k) /\ \A j \in InBatch(k) : j <= Last(InBatch(k))
  BY <1>1, <1>2, LastIsMember
<1>4. QED  BY <1>1, <1>3 DEF InBatch

\* It lies in the file where the acknowledgement looks for it.
LEMMA BatchInFile ==
  ASSUME IInv, pc = "sync", NEW i \in 1..Len(op.frames)
  PROVE  BatchStart + i \in 1..Len(log)
<1>1. PICK n \in Nat, m \in Nat : n = Len(log) /\ m = Len(op.frames) /\ m <= n
  BY DEF IInv, FileTypeOK, EngineTypeOK, Ops, PendingTail
<1>2. BatchStart = n - m /\ i \in 1..m
  BY <1>1 DEF BatchStart
<1>3. BatchStart + i \in 1..n
  BY <1>1, <1>2
<1>4. QED  BY <1>1, <1>3
-----------------------------------------------------------------------------
\* The type index b lists the keys of idx under the types of their records.
Listed(b, l, idx) == \A k \in Key : b[k] = IF idx[k] = 0 THEN {} ELSE {l[idx[k]].val.rt}

\* A mapping of m cells that is not dropped reaches every entry of idx.
Reaches(m, idx) == m = 0 \/ \A k \in Key : idx[k] <= m

\* A running engine answers what was acknowledged and lists what it answers, and
\* its mapping reaches what it answers; one that opens a file has mapped all of it.
AnswerInv ==
  /\ Running => /\ Answering(log, index, acked) /\ Listed(byType, log, index)
                /\ Reaches(mapped, index)
  /\ Opening => mapped = Len(log)

\* The running steps that acknowledge nothing: the file grows, or is cut behind
\* what the index names.
Silent ==
  /\ Running /\ index' = index /\ acked' = acked /\ byType' = byType
  /\ Extends(log, log') \/ Extends(log', log)
  /\ mapped' \in {0, mapped, Len(log')}
  /\ pc' \notin {"opentrunc", "openhdr"}

\* Such a step changes no answer and no entry of the type index.
LEMMA SilentKeeps ==
  ASSUME IInv, IInv', SInv, SInv', AnswerInv, Silent
  PROVE  AnswerInv'
<1>1. ASSUME NEW k \in Key, index[k] # 0  PROVE log'[index[k]] = log[index[k]]
  <2>1. index[k] <= Len(log) /\ index[k] <= Len(log') /\ index[k] \in Nat
    <3>1. index[k] <= Len(log) /\ index[k] \in Nat
      BY <1>1 DEF SInv, FlushedIndex, SoundIndex, IInv, EngineTypeOK
    <3>2. index'[k] # 0 => index'[k] <= Len(log')
      BY DEF SInv, FlushedIndex, SoundIndex
    <3>3. QED  BY <1>1, <3>1, <3>2 DEF Silent
  <2>2. Len(log) \in Nat /\ Len(log') \in Nat
    BY DEF IInv, FileTypeOK
  <2>3. QED  BY <1>1, <2>1, <2>2 DEF Silent, Extends
<1>2. Answering(log', index, acked) /\ Listed(byType, log', index)
  BY <1>1 DEF AnswerInv, Silent, Answering, ValueAt, Listed
<1>3. Reaches(mapped', index)
  <2>1. \A k \in Key : index[k] <= Len(log')
    <3>1. \A k \in Key : index'[k] # 0 => index'[k] <= Len(log')
      BY DEF SInv, FlushedIndex, SoundIndex
    <3>2. Len(log') \in Nat /\ index' = index
      BY DEF IInv, FileTypeOK, Silent
    <3>3. QED  BY <3>1, <3>2
  <2>2. QED  BY <2>1 DEF AnswerInv, Silent, Reaches
<1>4. QED  BY <1>2, <1>3 DEF AnswerInv, Silent, Running, Opening

\* All running steps but the acknowledgement of a batch are silent.
LEMMA SilentSteps ==
  ASSUME IInv, IInv',
         \/ \E frames \in Seq(Frames) : StartAppend(frames)
         \/ TrimTailSnapshot \/ WriteNullSnapshotHeader \/ SwitchNullHeader
         \/ AppendFrames \/ AppendFails \/ UndoAppendFails \/ SyncFails
         \/ \E kind \in {"checkpoint", "close"} : AppendSnapshot(kind) \/ AppendSnapshotFails(kind)
         \/ SyncSnapshot \/ SyncSnapshotFails \/ WriteCheckpointHeader
         \/ WriteInactiveHeaderFails("ckpthdr") \/ SwitchCheckpointHeader \/ Compact
  PROVE  Silent
<1>1. log \in Seq(Cells) /\ log' \in Seq(Cells) /\ Len(log) \in Nat /\ Extends(log, log)
  BY DEF IInv, FileTypeOK, Extends
<1>2. CASE \/ \E frames \in Seq(Frames) : StartAppend(frames)
           \/ WriteNullSnapshotHeader \/ SwitchNullHeader \/ SyncFails
           \/ SyncSnapshot \/ SyncSnapshotFails \/ WriteCheckpointHeader
           \/ WriteInactiveHeaderFails("ckpthdr") \/ SwitchCheckpointHeader \/ Compact
  <2>1. /\ log' = log /\ index' = index /\ acked' = acked /\ byType' = byType
        /\ mapped' \in {mapped, Len(log)}
        /\ pc \notin {"down", "opentrunc", "openhdr"} /\ pc' \notin {"opentrunc", "openhdr"}
    BY <1>2 DEF StartAppend, WriteNullSnapshotHeader, SwitchNullHeader, SyncFails, SyncSnapshot,
            SyncSnapshotFails, WriteCheckpointHeader, WriteInactiveHeader, WriteInactiveHeaderFails,
            SwitchCheckpointHeader, Compact, Idle, Return, file, mem, host
  <2>2. QED  BY <1>1, <2>1 DEF Silent, Running, Opening
<1>3. CASE TrimTailSnapshot \/ AppendFails
  <2>1. /\ \/ log' = SubSeq(log, 1, nextOffset - 1) /\ mapped' = nextOffset - 1
           \/ log' = SubSeq(log, 1, (Len(log) + 1) - 1) /\ mapped' = (Len(log) + 1) - 1
        /\ index' = index /\ acked' = acked /\ byType' = byType
        /\ pc \notin {"down", "opentrunc", "openhdr"} /\ pc' \notin {"opentrunc", "openhdr"}
    BY <1>3 DEF TrimTailSnapshot, AppendFails, TruncateTail, Return, host
  <2>2. nextOffset \in 1..(Len(log) + 1) /\ (Len(log) + 1) \in 1..(Len(log) + 1)
    BY <1>1 DEF IInv, TruncationPointInFile
  <2>3. Extends(log', log)
    BY <1>1, <2>1, <2>2, TruncatedExtends
  <2>4. mapped' = Len(log')
    BY <1>1, <2>1, <2>2, Truncated
  <2>5. QED  BY <2>1, <2>3, <2>4 DEF Silent, Running, Opening
<1>4. CASE \/ AppendFrames \/ UndoAppendFails
           \/ \E kind \in {"checkpoint", "close"} : AppendSnapshot(kind) \/ AppendSnapshotFails(kind)
  <2>1. /\ index' = index /\ acked' = acked /\ byType' = byType /\ mapped' \in {0, mapped}
        /\ pc \notin {"down", "opentrunc", "openhdr"} /\ pc' \notin {"opentrunc", "openhdr"}
    BY <1>4 DEF AppendFrames, UndoAppendFails, AppendSnapshot, AppendSnapshotFails, Idle, Return, mem, host
  <2>2. Extends(log, log')
    BY <1>4, AppendedExtends
  <2>3. QED  BY <2>1, <2>2 DEF Silent, Running, Opening
<1>5. QED  BY <1>2, <1>3, <1>4

\* The batch that is acknowledged: its keys answer its last frames and are
\* listed under their types.
LEMMA SyncAndIndexAnswers ==
  ASSUME IInv, IInv', SInv, SInv', AnswerInv, SyncAndIndex
  PROVE  AnswerInv'
<1>1. /\ log \in Seq(Cells) /\ op.frames \in Seq(Frames) /\ index \in [Key -> Nat]
      /\ Len(log) \in Nat /\ pc = "sync" /\ nextOffset = Len(log) + 1
      /\ \A i \in 1..Len(op.frames) : log[BatchStart + i] = op.frames[i]
  BY DEF IInv, FileTypeOK, EngineTypeOK, Ops, SyncAndIndex, SInv, TailInv
<1>2. /\ log' = log /\ index' = IndexAfterBatch /\ byType' = ByTypeAfterBatch
      /\ acked' = [k \in Key |-> IF InBatch(k) = {} THEN acked[k] ELSE op.frames[Last(InBatch(k))].val]
      /\ pc' \in {"idle", "shutdown"}
  BY DEF SyncAndIndex, Return
<1>3. Answering(log, index, acked) /\ Listed(byType, log, index)
  BY <1>1 DEF AnswerInv, Running, Opening
<1>4. ASSUME NEW k \in Key
      PROVE  /\ acked'[k] = ValueAt(log, IndexAfterBatch[k])
             /\ ByTypeAfterBatch[k] = IF IndexAfterBatch[k] = 0 THEN {}
                                      ELSE {log[IndexAfterBatch[k]].val.rt}
  <2>1. CASE InBatch(k) = {}
    <3>1. IndexAfterBatch[k] = index[k] /\ ByTypeAfterBatch[k] = byType[k] /\ acked'[k] = acked[k]
      BY <1>2, <2>1 DEF IndexAfterBatch, ByTypeAfterBatch
    <3>2. QED  BY <1>3, <3>1 DEF Answering, Listed
  <2>2. CASE InBatch(k) # {}
    <3>1. PICK i \in 1..Len(op.frames) : i = Last(InBatch(k)) /\ op.frames[i].key = k
      BY <1>1, <2>2, LastOfBatch
    <3>2. PICK v : v = op.frames[i].val
      OBVIOUS
    <3>3. BatchStart + i # 0 /\ log[BatchStart + i].val = v
      <4>1. BatchStart + i # 0
        BY <1>1, <3>1, BatchInFile
      <4>2. QED  BY <1>1, <3>1, <3>2, <4>1
    <3>4. /\ IndexAfterBatch[k] = IF v = None THEN 0 ELSE BatchStart + i
          /\ acked'[k] = v
      BY <1>2, <2>2, <3>1, <3>2 DEF IndexAfterBatch
    <3>5. acked'[k] = ValueAt(log, IndexAfterBatch[k])
      BY <3>3, <3>4 DEF ValueAt
    <3> DEFINE left == RecordTypeAt(log, Len(log), index[k])
                         \cup {op.frames[j].val.rt : j \in {m \in InBatch(k) : op.frames[m].val # None}}
    <3>6. ByTypeAfterBatch[k] = IF v = None THEN byType[k] \ left ELSE (byType[k] \ left) \cup {v.rt}
      BY <2>2, <3>1, <3>2 DEF ByTypeAfterBatch
    <3>7. byType[k] \subseteq RecordTypeAt(log, Len(log), index[k])
      <4>1. index[k] # 0 => index[k] \in 1..Len(log)
        BY <1>1 DEF SInv, FlushedIndex, SoundIndex
      <4>2. QED  BY <1>3, <4>1 DEF Listed, RecordTypeAt
    <3>8. byType[k] \ left = {}
      BY <3>7
    <3>9. ByTypeAfterBatch[k] = IF v = None THEN {} ELSE {v.rt}
      BY <3>6, <3>8
    <3>10. QED  BY <3>3, <3>4, <3>5, <3>9
  <2>3. QED  BY <2>1, <2>2
<1>5. Answering(log, index', acked') /\ Listed(byType', log, index')
  BY <1>2, <1>4 DEF Answering, Listed
<1>6. Reaches(mapped', index')
  <2>1. mapped' = Len(log') /\ Len(log') \in Nat
    BY <1>1 DEF SyncAndIndex
  <2>2. \A k \in Key : index'[k] # 0 => index'[k] <= Len(log')
    BY DEF SInv, FlushedIndex, SoundIndex
  <2>3. QED  BY <2>1, <2>2 DEF Reaches
<1>7. QED  BY <1>2, <1>5, <1>6 DEF AnswerInv, Opening

\* Open hands over an engine that answers what it recovered and lists it.
LEMMA OpeningAnswers ==
  ASSUME IInv, IInv', SInv, AnswerInv, Open \/ OpenTruncate \/ ClearActiveSnapshot \/ OpenDone
  PROVE  AnswerInv'
<1>1. log \in Seq(Cells) /\ Len(log) \in Nat /\ index \in [Key -> Nat]
  BY DEF IInv, FileTypeOK, EngineTypeOK
<1>2. CASE Open
  <2>1. mapped' = Len(log) /\ log' = log /\ pc' \in {"opentrunc", "openhdr"}
    BY <1>2 DEF Open, file
  <2>2. QED  BY <2>1 DEF AnswerInv, Running, Opening
<1>3. CASE OpenTruncate
  <2>1. log' = SubSeq(log, 1, nextOffset - 1) /\ mapped' = nextOffset - 1 /\ pc' = "openhdr"
    BY <1>3 DEF OpenTruncate, TruncateTail
  <2>2. Len(log') = nextOffset - 1
    BY <1>1, <2>1, Truncated DEF IInv, TruncationPointInFile
  <2>3. QED  BY <2>1, <2>2 DEF AnswerInv, Running, Opening
<1>4. CASE ClearActiveSnapshot
  BY <1>4 DEF ClearActiveSnapshot, AnswerInv, Running, Opening
<1>5. CASE OpenDone
  <2>1. /\ pc = "openhdr" /\ pc' = "idle" /\ log' = log /\ index' = index
        /\ byType' = RebuildByAgentType(log, mapped, index) /\ acked' = [k \in Key |-> Stored(k)]
        /\ mapped' = mapped
    BY <1>5 DEF OpenDone, file
  <2>2. mapped = Len(log)
    BY <2>1 DEF AnswerInv, Opening
  <2>3. Answering(log, index, acked')
    BY <2>1 DEF Answering, ValueAt, Stored
  <2>4. \A k \in Key : index[k] # 0 => index[k] \in 1..Len(log)
    BY <1>1 DEF SInv, FlushedIndex, SoundIndex
  <2>5. Listed(byType', log, index)
    <3>1. \A k \in Key : index[k] = 0 => index[k] \notin 1..Len(log)
      BY <1>1
    <3>2. QED  BY <2>1, <2>2, <2>4, <3>1 DEF Listed, RebuildByAgentType, RecordTypeAt
  <2>6. Reaches(mapped', index)
    BY <1>1, <2>1, <2>2, <2>4 DEF Reaches
  <2>7. QED  BY <2>1, <2>3, <2>5, <2>6 DEF AnswerInv, Opening
<1>6. QED  BY <1>2, <1>3, <1>4, <1>5

\* Every step keeps the answers equal to what was acknowledged.
LEMMA StepAnswers ==
  ASSUME HeaderCallsOK, IInv, IInv', SInv, SInv', AnswerInv, [Next]_vars
  PROVE  AnswerInv'
<1>1. \A c \in HeaderCalls : c \notin Faults
  BY DEF HeaderCallsOK
<1> USE DEF HeaderCalls
<1>2. ASSUME Silent  PROVE AnswerInv'
  BY <1>2, SilentKeeps
<1>3. ASSUME pc' = "down"  PROVE AnswerInv'
  BY <1>3 DEF AnswerInv, Running, Opening
<1>4. CASE Writer
  <2>1. ASSUME NEW recs \in Batches(Key \X Payload), WriteRecordBatch(recs)  PROVE Silent
    <3>1. \E frames \in Seq(Frames) : StartAppend(frames)
      BY <2>1, RequestsAreFrames DEF WriteRecordBatch
    <3>2. QED  BY <3>1, SilentSteps
  <2>2. ASSUME NEW ks \in Batches(Key), DeleteRecordBatch(ks)  PROVE Silent
    <3>1. \E frames \in Seq(Frames) : StartAppend(frames)
      BY <2>2, RequestsAreFrames DEF DeleteRecordBatch
    <3>2. QED  BY <3>1, SilentSteps
  <2>3. CASE \/ TrimTailSnapshot \/ WriteNullSnapshotHeader \/ SwitchNullHeader
             \/ AppendFrames \/ AppendFails \/ UndoAppendFails \/ SyncFails
    BY <1>2, <2>3, SilentSteps
  <2>4. CASE TrimFails \/ WriteInactiveHeaderFails("nullhdr") \/ HeaderSyncFails
    BY <1>1, <2>4 DEF TrimFails, WriteInactiveHeaderFails, HeaderSyncFails, Fails
  <2>5. CASE SyncAndIndex
    BY <2>5, SyncAndIndexAnswers
  <2>6. QED  BY <1>2, <1>4, <2>1, <2>2, <2>3, <2>4, <2>5 DEF Writer
<1>5. CASE Checkpointer
  <2>1. CASE \/ Checkpoint \/ Close
             \/ \E kind \in {"checkpoint", "close"} : AppendSnapshotFails(kind)
    <3>1. \E kind \in {"checkpoint", "close"} : AppendSnapshot(kind) \/ AppendSnapshotFails(kind)
      BY <2>1 DEF Checkpoint, Close
    <3>2. QED  BY <1>2, <3>1, SilentSteps
  <2>2. CASE \/ SyncSnapshot \/ SyncSnapshotFails \/ WriteCheckpointHeader
             \/ WriteInactiveHeaderFails("ckpthdr") \/ SwitchCheckpointHeader
    BY <1>2, <2>2, SilentSteps
  <2>3. CASE SwitchRemapFails
    BY <1>1, <2>3 DEF SwitchRemapFails
  <2>4. CASE ShutdownHandles \/ ShutdownSyncFails
    BY <1>3, <2>4 DEF ShutdownHandles, ShutdownSyncFails, Forget
  <2>5. QED  BY <1>5, <2>1, <2>2, <2>3, <2>4 DEF Checkpointer
<1>6. CASE Opener
  <2>1. CASE Open \/ OpenTruncate \/ ClearActiveSnapshot \/ OpenDone
    BY <2>1, OpeningAnswers
  <2>2. CASE OpenTruncateFails \/ ClearActiveSnapshotFails
    BY <1>3, <2>2 DEF OpenTruncateFails, ClearActiveSnapshotFails, Forget
  <2>3. QED  BY <1>6, <2>1, <2>2 DEF Opener
<1>7. CASE Compact
  BY <1>2, <1>7, SilentSteps
<1>8. CASE SwapInCopy \/ Crash
  BY <1>3, <1>8 DEF SwapInCopy, Crash, Forget
<1>9. CASE UNCHANGED vars
  BY <1>9 DEF AnswerInv, vars, file, mem, host, Running, Opening
<1>10. QED  BY <1>4, <1>5, <1>6, <1>7, <1>8, <1>9 DEF Next

\* The engine answers what it acknowledged.
THEOREM AnswerInvariance ==
  ASSUME HeaderCallsOK
  PROVE  Spec /\ ClearReachesDisk => []AnswerInv
<1>1. Init => AnswerInv
  <2> SUFFICES ASSUME Init PROVE AnswerInv
    OBVIOUS
  <2>1. /\ pc = "idle" /\ index = [k \in Key |-> 0] /\ byType = [k \in Key |-> {}]
        /\ acked = [k \in Key |-> None] /\ mapped = 0
    BY DEF Init, NoIndex
  <2>2. QED  BY <2>1 DEF AnswerInv, Answering, ValueAt, Listed, Reaches, Opening
<1>2. AnswerInv /\ IInv /\ IInv' /\ SInv /\ SInv' /\ [Next]_vars => AnswerInv'
  BY StepAnswers
<1>3. QED  BY Invariance, SoundInvariance, <1>1, <1>2, PTL DEF Spec

\* Between operations a read answers what was acknowledged or recovered,
\* whatever failed before; only while a failed undo leaves the mapping dropped
\* does every stored record answer ErrCorruption instead (ReadRecord, undoAppend).
THEOREM ReadsAnswer ==
  ASSUME HeaderCallsOK
  PROVE  Spec /\ ClearReachesDisk => []ReadsAnswerStore
<1>1. IInv /\ SInv /\ AnswerInv => ReadsAnswerStore
  <2> SUFFICES ASSUME IInv, SInv, AnswerInv, Idle, NEW k \in Key
               PROVE  ReadRecord(k) = IF mapped = 0 /\ acked[k] # None THEN {} ELSE {acked[k]}
    BY DEF ReadsAnswerStore
  <2>1. acked[k] = ValueAt(log, index[k]) /\ Reaches(mapped, index)
    BY DEF AnswerInv, Answering, Idle, Running, Opening
  <2>2. index[k] \in Nat /\ mapped \in Nat
    BY DEF IInv, EngineTypeOK
  <2>3. index[k] # 0 => /\ index[k] <= Len(log) /\ IsFrame(log[index[k]])
                        /\ log[index[k]].val # None
    BY DEF SInv, FlushedIndex, SoundIndex
  <2>4. CASE index[k] = 0
    BY <2>1, <2>4 DEF ReadRecord, ValueAt
  <2>5. CASE index[k] # 0
    <3>1. acked[k] = log[index[k]].val /\ acked[k] # None
      BY <2>1, <2>3, <2>5 DEF ValueAt
    <3>2. Readable(k) <=> mapped # 0
      BY <2>1, <2>2, <2>3, <2>5 DEF Readable, Reaches
    <3>3. QED  BY <2>5, <3>1, <3>2 DEF ReadRecord
  <2>6. QED  BY <2>4, <2>5
<1>2. QED  BY Invariance, SoundInvariance, AnswerInvariance, <1>1, PTL

\* Between operations IndexByType enumerates what the primary index holds, each
\* key under the type of its record.
THEOREM TypeIndexAgreement ==
  ASSUME HeaderCallsOK
  PROVE  Spec /\ ClearReachesDisk => []TypeIndexAgrees
<1>1. AnswerInv => TypeIndexAgrees
  BY DEF AnswerInv, Listed, TypeIndexAgrees, Idle, Running, Opening
<1>2. QED  BY AnswerInvariance, <1>1, PTL
-----------------------------------------------------------------------------
(* Durability: no acknowledged update is lost, none reappears unasked. *)

\* The header a restart would work from, of those the engine has settled on.
Chosen == IF pc = "down" THEN hdr[ActiveSlot(hdr)] ELSE head

\* Where the record area of the file ends.
AreaEnd == IF pc = "down" THEN Len(log) + 1 ELSE nextOffset

\* The host's knowledge is of values, and no crash has left zero fill.
PlainInv ==
  /\ acked \in [Key -> Answers] /\ limbo \in [Key -> SUBSET Answers]
  /\ NoZero(log) /\ NoZero(copy)

\* A header that names a snapshot names the end of what is mapped, so that a
\* batch trims it first and no frame ever follows it.
MapInv ==
  /\ pc \in {"idle", "trim", "blobsync"} => head.snap = 0 \/ head.snap = mapped
  /\ pc \in {"append", "sync"} => head.snap = 0
  /\ pc = "openhdr" /\ op.kind = "open" => head.snap = 0 \/ head.snap = Len(log)
  /\ pc = "opentrunc" /\ op.kind = "open" => head.snap = 0 \/ head.snap = nextOffset - 1

\* A batch in the file is in doubt until it is acknowledged.
DoubtInv ==
  pc = "sync" => \A i \in 1..Len(op.frames) : op.frames[i].val \in limbo[op.frames[i].key]

\* The file holds what was acknowledged, and so does the snapshot a restart loads.
HeldInv ==
  /\ AllBased(log, synced, AreaEnd, acked, limbo)
  /\ LastFrames(log, Chosen) /\ SnapHolds(log, synced, Chosen, acked, limbo)

\* What Open has recovered was acknowledged or in doubt.
OpenInv ==
  Opening => \A k \in Key : /\ Stored(k) \in limbo[k] \cup {acked[k]}
                            /\ Based(log, synced, nextOffset, k, Stored(k), limbo[k])
                            /\ SnapshotLoads(log, head) => Stored(k) = acked[k]

\* A copy answers what was acknowledged when it was made, and nothing was since.
CopyInv ==
  copy # <<>> => /\ IsBlob(copy[Len(copy)]) /\ Answering(copy, copy[Len(copy)].idx, acked)
                 /\ AllBased(copy, Len(copy), Len(copy), acked, limbo)

\* The inductive invariant behind durability.
DInv == PlainInv /\ MapInv /\ DoubtInv /\ HeldInv /\ OpenInv /\ CopyInv
-----------------------------------------------------------------------------
\* A snapshot goes on holding what it holds while the file grows behind it by
\* cells that are no frames.
LEMMA HoldsOver ==
  ASSUME NEW l \in Seq(Cells), NEW m \in Seq(Cells), NEW s \in Nat, NEW t \in Nat, s <= t, s <= Len(l),
         NEW h \in Headers, NEW a, NEW d, NEW c, \A k \in Key : d[k] \subseteq c[k],
         BlobsIn(l, s), Named(l, h), Extends(l, m), LastFrames(l, h), SnapHolds(l, s, h, a, d),
         h.snap # 0 => \A i \in (Len(l) + 1)..Len(m) : ~IsFrame(m[i])
  PROVE  LastFrames(m, h) /\ SnapHolds(m, t, h, a, c)
<1>1. h.snap \in Nat /\ Len(l) \in Nat /\ Len(m) \in Nat /\ h.recEnd \in Nat
  BY DEF Headers
<1>2. ASSUME h.snap # 0, NEW i \in h.snap..Len(m)  PROVE ~IsFrame(m[i])
  <2>1. CASE i <= Len(l)
    <3>1. i \in h.snap..Len(l) /\ m[i] = l[i]
      BY <1>1, <1>2, <2>1 DEF Extends
    <3>2. QED  BY <1>2, <3>1 DEF LastFrames
  <2>2. CASE ~(i <= Len(l))
    <3>1. i \in (Len(l) + 1)..Len(m)
      BY <1>1, <2>2
    <3>2. QED  BY <1>2, <3>1
  <2>3. QED  BY <2>1, <2>2
<1>3. ASSUME SnapshotLoads(m, h)
      PROVE  Answering(m, m[h.snap].idx, a) /\ AllBased(m, t, h.recEnd, a, c)
  <2>1. h.snap # 0 /\ h.snap \in 1..Len(l) /\ m[h.snap] = l[h.snap]
    BY <1>1, <1>3 DEF SnapshotLoads, Named, Extends
  <2>2. SnapshotLoads(l, h)
    BY <1>3, <2>1 DEF SnapshotLoads
  <2>3. Answering(l, l[h.snap].idx, a) /\ AllBased(l, s, h.recEnd, a, d)
    BY <2>2 DEF SnapHolds
  <2>4. PICK idx \in [Key -> Nat] : idx = l[h.snap].idx
    BY <2>1, <2>2, CellShapes DEF SnapshotLoads
  <2>5. \A k \in Key : idx[k] \in Nat /\ idx[k] <= Len(l)
    <3>1. \A k \in Key : idx[k] <= s
      BY <2>1, <2>2, <2>4 DEF BlobsIn, FlushedIndex, SnapshotLoads
    <3>2. QED  BY <1>1, <3>1
  <2>6. \A k \in Key : idx[k] # 0 => m[idx[k]] = l[idx[k]]
    BY <1>1, <2>5 DEF Extends
  <2>7. Answering(m, m[h.snap].idx, a)
    BY <2>1, <2>3, <2>4, <2>6 DEF Answering, ValueAt
  <2>8. ASSUME NEW k \in Key  PROVE Based(m, t, h.recEnd, k, a[k], c[k])
    <3>1. Based(l, s, h.recEnd, k, a[k], d[k]) /\ d[k] \subseteq c[k]
      BY <2>3 DEF AllBased
    <3>2. \A i \in (Len(l) + 1)..Len(m) : ~IsFrame(m[i])
      BY <2>1
    <3>3. Based(m, s, h.recEnd, k, a[k], d[k])
      BY <1>1, <3>1, <3>2, BasedOver
    <3>4. h.recEnd <= h.recEnd
      BY <1>1
    <3>5. QED  BY <1>1, <3>1, <3>3, <3>4, BasedMore
  <2>9. QED  BY <2>7, <2>8 DEF AllBased
<1>4. QED  BY <1>2, <1>3 DEF LastFrames, SnapHolds

\* And when the file is cut, or a crash takes unflushed cells.
LEMMA HoldsUnder ==
  ASSUME NEW l \in Seq(Cells), NEW m \in Seq(Cells), NEW s \in Nat, s <= Len(l),
         NEW h \in Headers, HeaderOK(h), NEW a, NEW d,
         BlobsIn(l, s), LastFrames(l, h), SnapHolds(l, s, h, a, d),
         Extends(m, l) \/ Survives(l, m, s)
  PROVE  LastFrames(m, h) /\ SnapHolds(m, Len(m), h, a, d)
<1>1. h.snap \in Nat /\ Len(l) \in Nat /\ Len(m) \in Nat /\ h.recEnd \in Nat
  BY DEF Headers
<1>2. ASSUME NEW i \in 1..Len(m), IsFrame(m[i]) \/ IsBlob(m[i])  PROVE i \in 1..Len(l) /\ m[i] = l[i]
  <2>1. CASE Extends(m, l)
    BY <1>1, <2>1 DEF Extends
  <2>2. CASE Survives(l, m, s)
    BY <1>1, <1>2, <2>2 DEF Survives, IsFrame, IsBlob
  <2>3. QED  BY <2>1, <2>2
<1>3. ASSUME h.snap # 0, NEW i \in h.snap..Len(m)  PROVE ~IsFrame(m[i])
  <2>1. i \in 1..Len(m)
    BY <1>1, <1>3
  <2>2. IsFrame(m[i]) => i \in h.snap..Len(l) /\ m[i] = l[i]
    BY <1>1, <1>2, <2>1
  <2>3. QED  BY <1>3, <2>2 DEF LastFrames
<1>4. ASSUME SnapshotLoads(m, h)
      PROVE  Answering(m, m[h.snap].idx, a) /\ AllBased(m, Len(m), h.recEnd, a, d)
  <2>1. h.snap \in 1..Len(m) /\ h.snap \in 1..Len(l) /\ m[h.snap] = l[h.snap] /\ IsBlob(l[h.snap])
    BY <1>2, <1>4 DEF SnapshotLoads
  <2>2. SnapshotLoads(l, h)
    BY <1>4, <2>1 DEF SnapshotLoads
  <2>3. Answering(l, l[h.snap].idx, a) /\ AllBased(l, s, h.recEnd, a, d)
    BY <2>2 DEF SnapHolds
  <2>4. PICK idx \in [Key -> Nat] : idx = l[h.snap].idx
    BY <2>1, CellShapes
  <2>5. \A k \in Key : idx[k] # 0 => idx[k] < h.snap /\ idx[k] <= s
    BY <2>1, <2>4 DEF BlobsIn, FlushedIndex, SoundIndex
  <2>6. \A k \in Key : idx[k] # 0 => idx[k] \in 1..Len(m) /\ idx[k] \in 1..s
    BY <1>1, <2>1, <2>5
  <2>7. \A k \in Key : idx[k] # 0 => m[idx[k]] = l[idx[k]]
    BY <1>1, <2>6 DEF Extends, Survives
  <2>8. Answering(m, m[h.snap].idx, a)
    BY <2>1, <2>3, <2>4, <2>7 DEF Answering, ValueAt
  <2>9. h.recEnd <= Len(m) + 1
    BY <1>1, <2>1 DEF HeaderOK
  <2>10. ASSUME NEW k \in Key  PROVE Based(m, Len(m), h.recEnd, k, a[k], d[k])
    <3>1. Based(l, s, h.recEnd, k, a[k], d[k])
      BY <2>3 DEF AllBased
    <3>2. QED  BY <1>1, <2>9, <3>1, BasedUnder
  <2>11. QED  BY <2>8, <2>10 DEF AllBased
<1>5. QED  BY <1>3, <1>4 DEF LastFrames, SnapHolds

\* A running step that acknowledges nothing and keeps the header in use.
Carries ==
  /\ Running /\ pc' \notin {"down", "opentrunc", "openhdr"}
  /\ acked' = acked /\ head' = head
  /\ limbo' \in [Key -> SUBSET Answers] /\ (\A k \in Key : limbo[k] \subseteq limbo'[k])
  /\ synced <= synced' /\ nextOffset <= nextOffset'
  /\ Extends(log, log') /\ ((log' = log /\ synced' = synced) \/ Named(log, head))
  /\ \A i \in (Len(log) + 1)..Len(log') :
       IsFrame(log'[i]) => head.snap = 0 /\ log'[i].val \in limbo'[log'[i].key]
  /\ NoZero(log') /\ NoZero(copy') /\ MapInv' /\ DoubtInv' /\ CopyInv'

\* Such a step loses nothing that was acknowledged.
LEMMA CarriesKeeps ==
  ASSUME IInv, IInv', SInv, DInv, Carries
  PROVE  DInv'
<1>1. /\ log \in Seq(Cells) /\ log' \in Seq(Cells) /\ synced \in Nat /\ synced' \in Nat
      /\ synced <= Len(log) /\ nextOffset \in Nat /\ nextOffset' \in Nat /\ head \in Headers
      /\ Len(log) \in Nat /\ Len(log') \in Nat
  BY DEF IInv, FileTypeOK, EngineTypeOK
<1>2. Chosen = head /\ Chosen' = head /\ AreaEnd = nextOffset /\ AreaEnd' = nextOffset'
  BY DEF Carries, Chosen, AreaEnd, Running
<1>3. /\ AllBased(log, synced, nextOffset, acked, limbo)
      /\ LastFrames(log, head) /\ SnapHolds(log, synced, head, acked, limbo)
  BY <1>2 DEF DInv, HeldInv
<1>4. ASSUME NEW k \in Key  PROVE Based(log', synced', nextOffset', k, acked[k], limbo'[k])
  <2>1. Based(log, synced, nextOffset, k, acked[k], limbo[k]) /\ limbo[k] \subseteq limbo'[k]
    BY <1>3 DEF AllBased, Carries
  <2>2. synced <= synced /\ nextOffset <= nextOffset
    BY <1>1
  <2>3. Based(log, synced, nextOffset, k, acked[k], limbo'[k])
    BY <1>1, <2>1, <2>2, BasedMore
  <2>4. \A i \in (Len(log) + 1)..Len(log') :
          IsFrame(log'[i]) /\ log'[i].key = k => log'[i].val \in limbo'[k]
    BY DEF Carries
  <2>5. Extends(log, log') /\ synced <= synced' /\ nextOffset <= nextOffset'
    BY DEF Carries
  <2>6. Based(log', synced, nextOffset, k, acked[k], limbo'[k])
    BY <1>1, <2>3, <2>4, <2>5, BasedOver
  <2>7. limbo'[k] \subseteq limbo'[k]
    OBVIOUS
  <2>8. QED  BY <1>1, <2>5, <2>6, <2>7, BasedMore
<1>5. LastFrames(log', head) /\ SnapHolds(log', synced', head, acked, limbo')
  <2>1. CASE log' = log /\ synced' = synced
    <3>1. ASSUME SnapshotLoads(log, head), NEW k \in Key
          PROVE  Based(log, synced, head.recEnd, k, acked[k], limbo'[k])
      <4>1. Based(log, synced, head.recEnd, k, acked[k], limbo[k]) /\ limbo[k] \subseteq limbo'[k]
        BY <1>3, <3>1 DEF SnapHolds, AllBased, Carries
      <4>2. head.recEnd \in Nat /\ head.recEnd <= head.recEnd /\ synced <= synced
        BY <1>1 DEF Headers
      <4>3. QED  BY <1>1, <4>1, <4>2, BasedMore
    <3>2. QED  BY <1>3, <2>1, <3>1 DEF SnapHolds, AllBased
  <2>2. CASE Named(log, head)
    <3>1. \A k \in Key : limbo[k] \subseteq limbo'[k]
      BY DEF Carries
    <3>2. BlobsIn(log, synced) /\ Extends(log, log') /\ synced <= synced'
      BY DEF SInv, Carries
    <3>3. head.snap # 0 => \A i \in (Len(log) + 1)..Len(log') : ~IsFrame(log'[i])
      BY DEF Carries
    <3>4. PICK c : c = limbo'
      OBVIOUS
    <3>5. QED  BY <1>1, <1>3, <2>2, <3>1, <3>2, <3>3, HoldsOver
  <2>3. QED  BY <2>1, <2>2 DEF Carries
<1>6. HeldInv'
  <2>1. acked' = acked
    BY DEF Carries
  <2>2. AllBased(log', synced', nextOffset', acked, limbo')
    BY <1>4 DEF AllBased
  <2>3. QED  BY <1>2, <1>5, <2>1, <2>2 DEF HeldInv
<1>7. OpenInv'
  BY DEF OpenInv, Carries, Opening
<1>8. PlainInv'
  BY DEF PlainInv, DInv, Carries
<1>9. QED  BY <1>6, <1>7, <1>8 DEF DInv, Carries

\* The copy goes on answering what is acknowledged.
LEMMA CopyKeeps ==
  ASSUME IInv, DInv, copy' = copy, acked' = acked, \A k \in Key : limbo[k] \subseteq limbo'[k]
  PROVE  CopyInv'
<1>1. copy \in Seq(Cells) /\ Len(copy) \in Nat /\ Len(copy) <= Len(copy)
  BY DEF IInv, FileTypeOK
<1>2. ASSUME copy # <<>>, NEW k \in Key
      PROVE  Based(copy, Len(copy), Len(copy), k, acked[k], limbo'[k])
  <2>1. Based(copy, Len(copy), Len(copy), k, acked[k], limbo[k]) /\ limbo[k] \subseteq limbo'[k]
    BY <1>2 DEF DInv, CopyInv, AllBased
  <2>2. QED  BY <1>1, <2>1, BasedMore
<1>3. copy # <<>> => AllBased(copy, Len(copy), Len(copy), acked, limbo')
  BY <1>2 DEF AllBased
<1>4. copy # <<>> => IsBlob(copy[Len(copy)]) /\ Answering(copy, copy[Len(copy)].idx, acked)
  BY DEF DInv, CopyInv
<1>5. QED  BY <1>3, <1>4 DEF CopyInv

\* The steps that leave the cells alone: the start of a batch, the flush of a
\* batch that fails, of a snapshot, and the write of a header.
LEMMA StillHolds ==
  ASSUME IInv, IInv', SInv, DInv,
         \/ \E frames \in Seq(Frames) : StartAppend(frames)
         \/ AppendFails \/ SyncFails \/ SyncSnapshot \/ SyncSnapshotFails
         \/ WriteNullSnapshotHeader \/ WriteCheckpointHeader
  PROVE  DInv'
<1>1. /\ log \in Seq(Cells) /\ Len(log) \in Nat /\ synced \in Nat /\ synced <= Len(log)
      /\ nextOffset \in Nat /\ Extends(log, log)
  BY DEF IInv, FileTypeOK, EngineTypeOK, Extends
<1>2. SubSeq(log, 1, (Len(log) + 1) - 1) = log
  BY <1>1
<1>3. /\ log' = log /\ acked' = acked /\ limbo' = limbo /\ head' = head /\ nextOffset' = nextOffset
      /\ copy' = copy /\ (synced' = synced \/ synced' = Len(log))
      /\ pc \in {"idle", "append", "sync", "blobsync", "nullhdr", "ckpthdr"}
      /\ pc = "nullhdr" => synced' = synced
      /\ pc' \notin {"down", "opentrunc", "openhdr", "sync"}
  BY <1>2 DEF StartAppend, AppendFails, SyncFails, SyncSnapshot, SyncSnapshotFails,
     WriteNullSnapshotHeader, WriteCheckpointHeader, WriteInactiveHeader, TruncateTail, Flush, Idle,
     Return, file, mem, host
<1>4. MapInv'
  <2>1. MapInv
    BY DEF DInv
  <2>2. CASE \E frames \in Seq(Frames) : StartAppend(frames)
    BY <2>1, <2>2 DEF StartAppend, MapInv, TailSnapshot, Idle, mem
  <2>3. CASE AppendFails \/ SyncFails
    BY <1>3, <2>1, <2>3 DEF AppendFails, SyncFails, MapInv, Return
  <2>4. CASE SyncSnapshot \/ WriteNullSnapshotHeader \/ WriteCheckpointHeader
    BY <2>4 DEF SyncSnapshot, WriteNullSnapshotHeader, WriteCheckpointHeader, WriteInactiveHeader, MapInv
  <2>5. CASE SyncSnapshotFails
    BY <2>1, <2>5 DEF SyncSnapshotFails, MapInv, Return, mem
  <2>6. QED  BY <2>2, <2>3, <2>4, <2>5
<1>5. CopyInv'
  BY <1>3, CopyKeeps
<1>6. Named(log, head) \/ pc = "nullhdr"
  BY <1>3 DEF SInv, NameInv, Running, Opening
<1>7. Carries
  <2>1. DoubtInv'
    BY <1>3 DEF DoubtInv
  <2>2. limbo' \in [Key -> SUBSET Answers] /\ NoZero(log') /\ NoZero(copy')
    BY <1>3 DEF DInv, PlainInv
  <2>3. synced <= synced' /\ nextOffset <= nextOffset'
    BY <1>1, <1>3
  <2>4. \A i \in (Len(log) + 1)..Len(log') : FALSE
    BY <1>1, <1>3
  <2>5. Extends(log, log') /\ ((log' = log /\ synced' = synced) \/ Named(log, head))
    BY <1>1, <1>3, <1>6
  <2>6. Running
    BY <1>3 DEF Running, Opening
  <2>7. QED  BY <1>3, <1>4, <1>5, <2>1, <2>2, <2>3, <2>4, <2>5, <2>6 DEF Carries
<1>8. QED  BY <1>7, CarriesKeeps

\* A batch puts its own values in doubt, and only values.
LEMMA DoubtGrows ==
  ASSUME op.frames \in Seq(Frames), limbo \in [Key -> SUBSET Answers]
  PROVE  /\ InDoubt(op.frames) \in [Key -> SUBSET Answers]
         /\ \A k \in Key : limbo[k] \subseteq InDoubt(op.frames)[k]
         /\ \A i \in 1..Len(op.frames) :
              op.frames[i] \in Frames /\ op.frames[i].val \in InDoubt(op.frames)[op.frames[i].key]
<1>1. DOMAIN op.frames = 1..Len(op.frames) /\ \A i \in DOMAIN op.frames : op.frames[i] \in Frames
  OBVIOUS
<1>2. \A f \in Frames : f.key \in Key /\ f.val \in Answers
  BY DEF Frames, Answers
<1>3. ASSUME NEW k \in Key  PROVE InDoubt(op.frames)[k] \in SUBSET Answers /\ limbo[k] \subseteq InDoubt(op.frames)[k]
  BY <1>1, <1>2 DEF InDoubt
<1>4. ASSUME NEW i \in 1..Len(op.frames)
      PROVE  op.frames[i] \in Frames /\ op.frames[i].val \in InDoubt(op.frames)[op.frames[i].key]
  <2>1. op.frames[i] \in Frames /\ op.frames[i].key \in Key /\ i \in DOMAIN op.frames
    BY <1>1, <1>2
  <2>2. QED  BY <2>1 DEF InDoubt
<1>5. InDoubt(op.frames) \in [Key -> SUBSET Answers]
  <2>1. DOMAIN InDoubt(op.frames) = Key /\ InDoubt(op.frames) = [k \in Key |-> InDoubt(op.frames)[k]]
    BY DEF InDoubt
  <2>2. QED  BY <1>3, <2>1
<1>6. QED  BY <1>3, <1>4, <1>5

\* The cells behind log in a file that grows by tail are those of tail.
LEMMA TailCells ==
  ASSUME NEW l \in Seq(Cells), NEW t \in Seq(Cells)
  PROVE  /\ \A i \in (Len(l) + 1)..Len(l \o t) : \E j \in 1..Len(t) : (l \o t)[i] = t[j]
         /\ NoZero(l) /\ NoZero(t) => NoZero(l \o t)
<1>1. Len(l) \in Nat /\ Len(t) \in Nat
  OBVIOUS
<1>2. /\ Extends(l, l \o t) /\ Len(l \o t) = Len(l) + Len(t)
      /\ \A i \in 1..Len(t) : (l \o t)[Len(l) + i] = t[i]
  BY ConcatExtends
<1>3. PICK m : m = l \o t
  OBVIOUS
<1>4. ASSUME NEW i \in (Len(l) + 1)..Len(m)  PROVE \E j \in 1..Len(t) : m[i] = t[j]
  <2>1. i - Len(l) \in 1..Len(t) /\ Len(l) + (i - Len(l)) = i
    BY <1>1, <1>2, <1>3
  <2>2. m[i] = t[i - Len(l)]
    BY <1>2, <1>3, <2>1
  <2>3. QED  BY <2>1, <2>2
<1>5. ASSUME NoZero(l), NoZero(t), NEW i \in 1..Len(m)  PROVE m[i].kind # "zero"
  <2>1. CASE i <= Len(l)
    <3>1. i \in 1..Len(l) /\ m[i] = l[i]
      BY <1>1, <1>2, <1>3, <2>1 DEF Extends
    <3>2. QED  BY <1>5, <3>1 DEF NoZero
  <2>2. CASE ~(i <= Len(l))
    <3>1. i \in (Len(l) + 1)..Len(m)
      BY <1>1, <1>2, <1>3, <2>2
    <3>2. QED  BY <1>4, <1>5, <3>1 DEF NoZero
  <2>3. QED  BY <2>1, <2>2
<1>6. QED  BY <1>3, <1>4, <1>5 DEF NoZero

\* A running step that puts cells behind the file, the frames among them in
\* doubt, and touches nothing else a restart works from.
Grows(tail) ==
  /\ log' = log \o tail /\ NoZero(tail)
  /\ \A j \in 1..Len(tail) :
       IsFrame(tail[j]) => head.snap = 0 /\ tail[j].val \in limbo'[tail[j].key]
  /\ pc \in {"append", "idle"} /\ pc' \notin {"down", "opentrunc", "openhdr"}
  /\ acked' = acked /\ head' = head /\ copy' = copy /\ synced' = synced
  /\ limbo' = limbo \/ limbo' = InDoubt(op.frames)
  /\ nextOffset <= nextOffset' /\ MapInv' /\ DoubtInv'

\* It keeps what the file holds.
LEMMA GrowsKeeps ==
  ASSUME IInv, IInv', SInv, DInv, NEW tail \in Seq(Cells), Grows(tail)
  PROVE  DInv'
<1>1. log \in Seq(Cells) /\ op.frames \in Seq(Frames) /\ synced \in Nat /\ Len(log) \in Nat
  BY DEF IInv, FileTypeOK, EngineTypeOK, Ops
<1>2. limbo \in [Key -> SUBSET Answers] /\ NoZero(log) /\ NoZero(copy)
  BY DEF DInv, PlainInv
<1>3. limbo' \in [Key -> SUBSET Answers] /\ \A k \in Key : limbo[k] \subseteq limbo'[k]
  BY <1>1, <1>2, DoubtGrows DEF Grows
<1>4. Extends(log, log') /\ NoZero(log')
  BY <1>1, <1>2, ConcatExtends, TailCells DEF Grows
<1>5. \A i \in (Len(log) + 1)..Len(log') :
        IsFrame(log'[i]) => head.snap = 0 /\ log'[i].val \in limbo'[log'[i].key]
  <2>1. ASSUME NEW i \in (Len(log) + 1)..Len(log')  PROVE \E j \in 1..Len(tail) : log'[i] = tail[j]
    BY <1>1, TailCells DEF Grows
  <2>2. QED  BY <2>1 DEF Grows
<1>6. CopyInv'
  BY <1>3, CopyKeeps DEF Grows
<1>7. Running /\ Named(log, head)
  BY DEF Grows, SInv, NameInv, Running, Opening
<1>8. Carries
  <2>1. synced <= synced' /\ NoZero(copy')
    BY <1>1, <1>2 DEF Grows
  <2>2. QED  BY <1>3, <1>4, <1>5, <1>6, <1>7, <2>1 DEF Carries, Grows
<1>9. QED  BY <1>8, CarriesKeeps

\* A batch that reaches the file hides nothing that was acknowledged.
LEMMA AppendFramesHolds ==
  ASSUME IInv, IInv', SInv, DInv, AppendFrames
  PROVE  DInv'
<1>1. log \in Seq(Cells) /\ op.frames \in Seq(Frames) /\ op.frames \in Seq(Cells)
      /\ nextOffset \in Nat /\ nextOffset <= Len(log) + 1 /\ Len(log) \in Nat
  BY DEF IInv, FileTypeOK, EngineTypeOK, Ops, Cells, TruncationPointInFile
<1>2. /\ pc = "append" /\ pc' = "sync" /\ log' = log \o op.frames /\ nextOffset' = Len(log') + 1
      /\ limbo' = InDoubt(op.frames) /\ op' = op /\ acked' = acked /\ head' = head /\ copy' = copy
      /\ synced' = synced
  BY DEF AppendFrames
<1>3. limbo \in [Key -> SUBSET Answers] /\ head.snap = 0
  BY <1>2 DEF DInv, PlainInv, MapInv
<1>4. \A i \in 1..Len(op.frames) :
        op.frames[i] \in Frames /\ op.frames[i].val \in InDoubt(op.frames)[op.frames[i].key]
  BY <1>1, <1>3, DoubtGrows
<1>5. NoZero(op.frames)
  <2>1. \A f \in Frames : f.kind # "zero"
    BY DEF Frames
  <2>2. QED  BY <1>4, <2>1 DEF NoZero
<1>6. nextOffset <= nextOffset'
  <2>1. Len(log') = Len(log) + Len(op.frames) /\ Len(op.frames) \in Nat
    BY <1>1, <1>2, ConcatExtends
  <2>2. QED  BY <1>1, <1>2, <2>1
<1>7. MapInv' /\ DoubtInv'
  BY <1>2, <1>3, <1>4 DEF MapInv, DoubtInv
<1>8. Grows(op.frames)
  BY <1>2, <1>3, <1>4, <1>5, <1>6, <1>7 DEF Grows
<1>9. QED  BY <1>1, <1>8, GrowsKeeps

\* What is left of a batch whose write and whose undo failed.
LEMMA UndoAppendFailsHolds ==
  ASSUME IInv, IInv', SInv, DInv, UndoAppendFails
  PROVE  DInv'
<1>1. log \in Seq(Cells) /\ op.frames \in Seq(Frames) /\ nextOffset \in Nat
  BY DEF IInv, FileTypeOK, EngineTypeOK, Ops
<1>2. /\ pc = "append" /\ pc' \in {"idle", "shutdown"} /\ nextOffset' = nextOffset
      /\ limbo' = InDoubt(op.frames) /\ acked' = acked /\ head' = head /\ copy' = copy
      /\ synced' = synced
  BY DEF UndoAppendFails, Return
<1>3. limbo \in [Key -> SUBSET Answers] /\ head.snap = 0
  BY <1>2 DEF DInv, PlainInv, MapInv
<1>4. \A i \in 1..Len(op.frames) :
        op.frames[i] \in Frames /\ op.frames[i].val \in InDoubt(op.frames)[op.frames[i].key]
  BY <1>1, <1>3, DoubtGrows
<1>5. MapInv' /\ DoubtInv' /\ nextOffset <= nextOffset'
  BY <1>1, <1>2, <1>3 DEF MapInv, DoubtInv
<1>6. ASSUME NEW tail \in Seq(Cells), log' = log \o tail,
             \A j \in 1..Len(tail) : \/ tail[j] = Junk("torn")
                                     \/ \E i \in 1..Len(op.frames) : tail[j] = op.frames[i]
      PROVE  DInv'
  <2>1. \A f \in Frames : f.kind # "zero"
    BY DEF Frames
  <2>2. Junk("torn").kind = "torn"
    BY DEF Junk
  <2>3. NoZero(tail)
    BY <1>4, <1>6, <2>1, <2>2 DEF NoZero
  <2>4. \A j \in 1..Len(tail) : IsFrame(tail[j]) => tail[j].val \in limbo'[tail[j].key]
    BY <1>2, <1>4, <1>6, <2>2 DEF IsFrame
  <2>5. Grows(tail)
    BY <1>2, <1>3, <1>5, <1>6, <2>3, <2>4 DEF Grows
  <2>6. QED  BY <2>5, GrowsKeeps
<1>7. Junk("torn") \in Cells /\ <<>> \in Seq(Cells) /\ log \o <<>> = log
  BY <1>1 DEF Junk, Cells
<1>8. CASE log' = log
  <2>1. PICK tail \in Seq(Cells) : tail = <<>>
    BY <1>7
  <2>2. log' = log \o tail /\ \A j \in 1..Len(tail) : FALSE
    BY <1>7, <1>8, <2>1
  <2>3. QED  BY <1>6, <2>2
<1>9. CASE \E n \in 0..(Len(op.frames) - 1) :
             log' = (log \o SubSeq(op.frames, 1, n)) \o <<Junk("torn")>>
  <2>1. PICK n \in 0..(Len(op.frames) - 1) :
          log' = (log \o SubSeq(op.frames, 1, n)) \o <<Junk("torn")>>
    BY <1>9
  <2>2. n \in Nat /\ n <= Len(op.frames) /\ Len(op.frames) \in Nat
    BY <1>1
  <2>3. PICK part \in Seq(Frames) : part = SubSeq(op.frames, 1, n) /\ Len(part) = n
                                    /\ \A i \in 1..n : part[i] = op.frames[i]
    <3>1. SubSeq(op.frames, 1, n) \in Seq(Frames) /\ Len(SubSeq(op.frames, 1, n)) = n
      BY <1>1, <2>2, SubSeqProperties
    <3>2. \A i \in 1..n : SubSeq(op.frames, 1, n)[i] = op.frames[i]
      BY <1>1, <2>2, SubSeqProperties
    <3>3. QED  BY <3>1, <3>2
  <2>4. part \in Seq(Cells) /\ <<Junk("torn")>> \in Seq(Cells)
    BY <1>7, <2>3 DEF Cells
  <2>5. PICK tail : tail = part \o <<Junk("torn")>>
    OBVIOUS
  <2>6. /\ tail \in Seq(Cells) /\ Len(tail) = Len(part) + 1
        /\ \A i \in 1..Len(tail) : tail[i] = IF i <= Len(part) THEN part[i] ELSE Junk("torn")
    BY <1>7, <2>4, <2>5
  <2>7. ASSUME NEW j \in 1..Len(tail)
        PROVE  tail[j] = Junk("torn") \/ \E i \in 1..Len(op.frames) : tail[j] = op.frames[i]
    <3>1. CASE j <= n
      <4>1. j \in 1..n /\ j \in 1..Len(op.frames) /\ tail[j] = part[j]
        BY <2>2, <2>3, <2>6, <3>1
      <4>2. QED  BY <2>3, <4>1
    <3>2. CASE ~(j <= n)
      BY <2>3, <2>6, <3>2
    <3>3. QED  BY <3>1, <3>2
  <2>8. log' = log \o tail
    <3>1. (log \o part) \o <<Junk("torn")>> = log \o (part \o <<Junk("torn")>>)
      BY <1>1, <2>4
    <3>2. QED  BY <2>1, <2>3, <2>5, <3>1
  <2>9. QED  BY <1>6, <2>6, <2>7, <2>8
<1>10. QED  BY <1>8, <1>9 DEF UndoAppendFails

\* A snapshot at the end of the file, or what is left of one.
LEMMA AppendSnapshotHolds ==
  ASSUME IInv, IInv', SInv, DInv,
         \E kind \in {"checkpoint", "close"} : AppendSnapshot(kind) \/ AppendSnapshotFails(kind)
  PROVE  DInv'
<1>1. log \in Seq(Cells) /\ log' \in Seq(Cells) /\ nextOffset \in Nat /\ index \in [Key -> Nat]
  BY DEF IInv, FileTypeOK, EngineTypeOK
<1>2. /\ pc = "idle" /\ pc' \in {"blobsync", "idle", "shutdown"} /\ nextOffset' = nextOffset
      /\ limbo' = limbo /\ acked' = acked /\ head' = head /\ copy' = copy /\ synced' = synced
      /\ mapped' = mapped
      /\ log' = log \/ log' = Append(log, Blob(index)) \/ log' = Append(log, Junk("torn"))
  BY DEF AppendSnapshot, AppendSnapshotFails, Idle, mem, host
<1>3. MapInv' /\ DoubtInv' /\ nextOffset <= nextOffset'
  BY <1>1, <1>2 DEF DInv, MapInv, DoubtInv
<1>4. ASSUME NEW tail \in Seq(Cells), log' = log \o tail,
             \A j \in 1..Len(tail) : tail[j].kind \in {"snap", "torn"}
      PROVE  DInv'
  <2>1. NoZero(tail) /\ \A j \in 1..Len(tail) : ~IsFrame(tail[j])
    BY <1>4 DEF NoZero, IsFrame
  <2>2. Grows(tail)
    BY <1>2, <1>3, <1>4, <2>1 DEF Grows
  <2>3. QED  BY <2>2, GrowsKeeps
<1>5. ASSUME NEW c \in {Blob(index), Junk("torn")}, log' = Append(log, c)  PROVE DInv'
  <2>1. c \in Cells /\ c.kind \in {"snap", "torn"}
    BY <1>1, <1>5 DEF Blob, Junk, Cells
  <2>2. PICK tail : tail = <<c>>
    OBVIOUS
  <2>3. tail \in Seq(Cells) /\ Len(tail) = 1 /\ tail[1] = c /\ log' = log \o tail
    <3>1. tail \in Seq(Cells) /\ Len(tail) = 1 /\ tail[1] = c
      BY <2>1, <2>2
    <3>2. Append(log, c) = log \o <<c>>
      BY <1>1, <2>1
    <3>3. QED  BY <1>5, <2>2, <3>1, <3>2
  <2>4. \A j \in 1..Len(tail) : tail[j].kind \in {"snap", "torn"}
    BY <2>1, <2>3
  <2>5. QED  BY <1>4, <2>3, <2>4
<1>6. CASE log' = log
  <2>1. PICK tail : tail = <<>>
    OBVIOUS
  <2>2. tail \in Seq(Cells) /\ log' = log \o tail /\ \A j \in 1..Len(tail) : FALSE
    BY <1>1, <1>6, <2>1
  <2>3. QED  BY <1>4, <2>2
<1>7. QED  BY <1>2, <1>5, <1>6

\* Nothing is in doubt.
NoDoubt == [k \in Key |-> {}]

\* Compact's copy answers what was acknowledged and holds nothing else.
LEMMA CompactExact ==
  ASSUME IInv, IInv', AnswerInv, Compact
  PROVE  /\ IsBlob(copy'[Len(copy')]) /\ Answering(copy', copy'[Len(copy')].idx, acked)
         /\ AllBased(copy', Len(copy'), Len(copy'), acked, NoDoubt) /\ NoZero(copy')
<1>1. PICK n \in Nat, idx \in [Key -> Nat] :
        /\ Len(copy') = n + 1 /\ copy'[n + 1] = Blob(idx)
        /\ \A i \in 1..n : \E k \in LiveKeys : copy'[i] = Frame(k, Stored(k))
        /\ \A k \in Key : IF k \in LiveKeys
                         THEN idx[k] \in 1..n /\ copy'[idx[k]] = Frame(k, Stored(k))
                         ELSE idx[k] = 0
  BY CopyShape
<1>2. PICK c \in Seq(Cells) : c = copy'
  BY DEF IInv, FileTypeOK
<1>3. pc = "idle"
  BY DEF Compact, Idle
<1>4. \A k \in Key : acked[k] = Stored(k) /\ (k \notin LiveKeys => acked[k] = None)
  BY <1>3 DEF AnswerInv, Running, Opening, Answering, ValueAt, Stored, LiveKeys
<1>5. \A i \in 1..(n + 1) : IF i = n + 1 THEN c[i].kind = "snap"
                            ELSE \E k \in LiveKeys : c[i] = Frame(k, Stored(k))
  <2>1. \A i \in 1..(n + 1) : i # n + 1 => i \in 1..n
    BY <1>1
  <2>2. c[n + 1].kind = "snap"
    BY <1>1, <1>2 DEF Blob
  <2>3. QED  BY <1>1, <1>2, <2>1, <2>2
<1>6. NoZero(copy')
  <2>1. ASSUME NEW i \in 1..(n + 1)  PROVE c[i].kind # "zero"
    <3>1. CASE i = n + 1
      BY <1>5, <3>1
    <3>2. CASE i # n + 1
      <4>1. PICK k \in LiveKeys : c[i] = Frame(k, Stored(k))
        BY <1>5, <3>2
      <4>2. QED  BY <4>1 DEF Frame
    <3>3. QED  BY <3>1, <3>2
  <2>2. QED  BY <1>1, <1>2, <2>1 DEF NoZero
<1>7. ASSUME NEW k \in Key  PROVE acked[k] = ValueAt(c, idx[k]) /\ Based(c, n + 1, n + 1, k, acked[k], {})
  <2>1. ASSUME NEW i \in 1..(n + 1), IsFrame(c[i]), c[i].key = k
        PROVE  k \in LiveKeys /\ c[i].val = acked[k]
    <3>1. PICK j \in LiveKeys : c[i] = Frame(j, Stored(j))
      BY <1>5, <2>1 DEF IsFrame
    <3>2. j = k /\ c[i].val = Stored(j)
      BY <2>1, <3>1 DEF Frame
    <3>3. QED  BY <1>4, <3>2
  <2>2. CASE k \in LiveKeys
    <3>1. PICK p \in 1..n : p = idx[k] /\ c[p] = Frame(k, Stored(k))
      BY <1>1, <1>2, <2>2
    <3>2. IsFrame(c[p]) /\ c[p].key = k /\ c[p].val = acked[k]
      BY <1>4, <3>1 DEF Frame, IsFrame
    <3>3. p # 0 /\ p \in 0..(n + 1) /\ p < n + 1
      BY <3>1
    <3>4. \A i \in (p + 1)..Len(c) : i \in 1..(n + 1)
      BY <1>1, <1>2, <3>1
    <3>5. Based(c, n + 1, n + 1, k, acked[k], {})
      BY <2>1, <3>2, <3>3, <3>4 DEF Based
    <3>6. QED  BY <3>1, <3>2, <3>3, <3>5 DEF ValueAt
  <2>3. CASE k \notin LiveKeys
    <3>1. idx[k] = 0 /\ acked[k] = None
      BY <1>1, <1>4, <2>3
    <3>2. \A i \in (0 + 1)..Len(c) : i \in 1..(n + 1)
      BY <1>1, <1>2
    <3>3. 0 \in 0..(n + 1) /\ 0 < n + 1
      BY <1>1
    <3>4. Based(c, n + 1, n + 1, k, acked[k], {})
      BY <2>1, <2>3, <3>1, <3>2, <3>3 DEF Based
    <3>5. QED  BY <3>1, <3>4 DEF ValueAt
  <2>4. QED  BY <2>2, <2>3
<1>8. QED
  <2>1. IsBlob(c[n + 1]) /\ c[n + 1].idx = idx /\ Len(c) = n + 1
    BY <1>1, <1>2 DEF Blob, IsBlob
  <2>2. Answering(c, idx, acked) /\ AllBased(c, n + 1, n + 1, acked, NoDoubt)
    BY <1>7 DEF Answering, AllBased, NoDoubt
  <2>3. QED  BY <1>2, <1>6, <2>1, <2>2

\* What holds with nothing in doubt holds.
LEMMA ExactIsBased ==
  ASSUME NEW l, NEW s \in Nat, NEW e \in Nat, NEW a, NEW d, AllBased(l, s, e, a, NoDoubt)
  PROVE  AllBased(l, s, e, a, d)
<1>1. ASSUME NEW k \in Key  PROVE Based(l, s, e, k, a[k], d[k])
  <2>1. Based(l, s, e, k, a[k], {}) /\ {} \subseteq d[k] /\ s <= s /\ e <= e
    BY DEF AllBased, NoDoubt
  <2>2. QED  BY <2>1, BasedMore
<1>2. QED  BY <1>1 DEF AllBased

\* Compact leaves the engine alone.
LEMMA CompactHolds ==
  ASSUME IInv, IInv', SInv, AnswerInv, DInv, Compact
  PROVE  DInv'
<1>1. /\ log' = log /\ synced' = synced /\ head' = head /\ nextOffset' = nextOffset /\ mapped' = mapped
      /\ pc = "idle" /\ pc' = "idle" /\ op' = op /\ acked' = acked /\ limbo' = limbo
  BY DEF Compact, Idle, file, mem, host
<1>2. /\ IsBlob(copy'[Len(copy')]) /\ Answering(copy', copy'[Len(copy')].idx, acked)
      /\ AllBased(copy', Len(copy'), Len(copy'), acked, NoDoubt) /\ NoZero(copy')
  BY CompactExact
<1>3. CopyInv'
  <2>1. Len(copy') \in Nat
    BY DEF IInv, FileTypeOK
  <2>2. AllBased(copy', Len(copy'), Len(copy'), acked, limbo)
    BY <1>2, <2>1, ExactIsBased
  <2>3. QED  BY <1>1, <1>2, <2>2 DEF CopyInv
<1>4. Carries
  <2>1. Running /\ Named(log, head)
    BY <1>1 DEF SInv, NameInv, Running, Opening
  <2>2. log \in Seq(Cells) /\ Len(log) \in Nat /\ synced \in Nat /\ nextOffset \in Nat /\ Extends(log, log)
    BY DEF IInv, FileTypeOK, EngineTypeOK, Extends
  <2>3. \A i \in (Len(log) + 1)..Len(log') : FALSE
    BY <1>1, <2>2
  <2>4. MapInv' /\ DoubtInv'
    BY <1>1 DEF DInv, MapInv, DoubtInv
  <2>5. limbo' \in [Key -> SUBSET Answers] /\ NoZero(log')
    BY <1>1 DEF DInv, PlainInv
  <2>6. synced <= synced' /\ nextOffset <= nextOffset' /\ Extends(log, log')
    BY <1>1, <2>2
  <2>7. QED  BY <1>1, <1>2, <1>3, <2>1, <2>3, <2>4, <2>5, <2>6 DEF Carries
<1>5. QED  BY <1>4, CarriesKeeps

\* The last frame of a key in a batch that is acknowledged is flushed, and no
\* frame of the key follows it.
LEMMA BatchBased ==
  ASSUME IInv, SInv, SyncAndIndex, NEW k \in Key, InBatch(k) # {}
  PROVE  Based(log, Len(log), nextOffset, k, acked'[k], {})
<1>1. /\ log \in Seq(Cells) /\ op.frames \in Seq(Frames) /\ Len(log) \in Nat
      /\ pc = "sync" /\ nextOffset = Len(log) + 1
      /\ \A i \in 1..Len(op.frames) : log[BatchStart + i] = op.frames[i]
  BY DEF IInv, FileTypeOK, EngineTypeOK, Ops, SyncAndIndex, SInv, TailInv
<1>2. acked'[k] = op.frames[Last(InBatch(k))].val
  BY DEF SyncAndIndex
<1>3. PICK i \in 1..Len(op.frames) :
        /\ i = Last(InBatch(k)) /\ op.frames[i].key = k
        /\ \A j \in 1..Len(op.frames) : op.frames[j].key = k => j <= i
  BY <1>1, LastOfBatch
<1>4. acked'[k] = op.frames[i].val
  BY <1>2, <1>3
<1>5. PICK p \in 1..Len(log) : p = BatchStart + i
  BY <1>1, BatchInFile
<1>6. op.frames[i] \in Frames
  BY <1>1
<1>7. log[p] = op.frames[i] /\ IsFrame(log[p]) /\ log[p].key = k /\ log[p].val = acked'[k]
  BY <1>1, <1>3, <1>4, <1>5, <1>6 DEF IsFrame, Frames
<1>8. ASSUME NEW q \in (p + 1)..Len(log), IsFrame(log[q]), log[q].key = k  PROVE FALSE
  <2>1. PICK n \in Nat, m \in Nat : n = Len(log) /\ m = Len(op.frames)
    BY <1>1
  <2>2. PICK b \in Int : b = BatchStart /\ b = n - m
    <3>1. BatchStart = n - m
      BY <2>1 DEF BatchStart
    <3>2. n - m \in Int
      BY <2>1
    <3>3. QED  BY <3>1, <3>2
  <2>3. p = b + i /\ i \in 1..m /\ q \in (p + 1)..n /\ p \in Int
    BY <1>5, <2>1, <2>2
  <2>4. q - b \in 1..m /\ b + (q - b) = q /\ ~(q - b <= i)
    BY <2>2, <2>3
  <2>5. log[q] = op.frames[q - BatchStart]
    BY <1>1, <2>1, <2>2, <2>4
  <2>6. QED  BY <1>3, <1>8, <2>1, <2>2, <2>4, <2>5
<1>9. p \in 0..Len(log) /\ p < nextOffset /\ p # 0
  BY <1>1
<1>10. QED  BY <1>7, <1>8, <1>9 DEF Based

\* When a batch is acknowledged, the file holds its values, flushed.
LEMMA SyncAndIndexHolds ==
  ASSUME IInv, IInv', SInv, DInv, SyncAndIndex
  PROVE  DInv'
<1>1. /\ log \in Seq(Cells) /\ op.frames \in Seq(Frames) /\ Len(log) \in Nat /\ synced \in Nat
      /\ synced <= Len(log) /\ pc = "sync" /\ nextOffset = Len(log) + 1
      /\ \A i \in 1..Len(op.frames) : log[BatchStart + i] = op.frames[i]
  BY DEF IInv, FileTypeOK, EngineTypeOK, Ops, SyncAndIndex, SInv, TailInv
<1>2. /\ log' = log /\ synced' = Len(log) /\ head' = head /\ nextOffset' = nextOffset
      /\ acked' = [k \in Key |-> IF InBatch(k) = {} THEN acked[k] ELSE op.frames[Last(InBatch(k))].val]
      /\ limbo' = [k \in Key |-> IF InBatch(k) = {} THEN limbo[k] ELSE {}]
      /\ copy' = <<>> /\ pc' \in {"idle", "shutdown"}
  BY DEF SyncAndIndex, Flush, Return
<1>3. head.snap = 0 /\ Chosen = head /\ Chosen' = head /\ AreaEnd = nextOffset /\ AreaEnd' = nextOffset
  BY <1>1, <1>2 DEF DInv, MapInv, Chosen, AreaEnd
<1>4. AllBased(log, synced, nextOffset, acked, limbo)
  BY <1>3 DEF DInv, HeldInv
<1>5. ASSUME NEW k \in Key  PROVE Based(log, Len(log), nextOffset, k, acked'[k], limbo'[k])
  <2>1. CASE InBatch(k) = {}
    <3>1. acked'[k] = acked[k] /\ limbo'[k] = limbo[k]
      BY <1>2, <2>1
    <3>2. Based(log, synced, nextOffset, k, acked[k], limbo[k])
      BY <1>4 DEF AllBased
    <3>3. nextOffset \in Nat /\ nextOffset <= nextOffset
      BY <1>1
    <3>4. QED  BY <1>1, <3>1, <3>2, <3>3, BasedMore
  <2>2. CASE InBatch(k) # {}
    <3>1. limbo'[k] = {}
      BY <1>2, <2>2
    <3>2. QED  BY <2>2, <3>1, BatchBased
  <2>3. QED  BY <2>1, <2>2
<1>6. HeldInv'
  <2>1. LastFrames(log, head) /\ ~SnapshotLoads(log, head)
    BY <1>1, <1>3 DEF LastFrames, SnapshotLoads
  <2>2. AllBased(log, Len(log), nextOffset, acked', limbo')
    BY <1>5 DEF AllBased
  <2>3. QED  BY <1>2, <1>3, <2>1, <2>2 DEF HeldInv, SnapHolds
<1>7. PlainInv'
  <2>1. acked \in [Key -> Answers] /\ limbo \in [Key -> SUBSET Answers] /\ NoZero(log)
    BY DEF DInv, PlainInv
  <2>2. ASSUME NEW k \in Key  PROVE acked'[k] \in Answers
    <3>1. CASE InBatch(k) = {}
      BY <1>2, <2>1, <3>1
    <3>2. CASE InBatch(k) # {}
      <4>1. PICK i \in 1..Len(op.frames) : i = Last(InBatch(k))
        BY <1>1, <3>2, LastOfBatch
      <4>2. op.frames[i] \in Frames
        BY <1>1
      <4>3. acked'[k] = op.frames[i].val /\ op.frames[i].val \in Answers
        BY <1>2, <3>2, <4>1, <4>2 DEF Frames, Answers
      <4>4. QED  BY <4>3
    <3>3. QED  BY <3>1, <3>2
  <2>3. acked' \in [Key -> Answers]
    BY <1>2, <2>2
  <2>4. limbo' \in [Key -> SUBSET Answers]
    BY <1>2, <2>1
  <2>5. NoZero(copy')
    BY <1>2 DEF NoZero
  <2>6. QED  BY <1>2, <2>1, <2>3, <2>4, <2>5 DEF PlainInv
<1>8. MapInv' /\ DoubtInv' /\ OpenInv' /\ CopyInv'
  BY <1>2, <1>3 DEF MapInv, DoubtInv, OpenInv, CopyInv, Opening
<1>9. QED  BY <1>6, <1>7, <1>8 DEF DInv

\* A cut at the record-area end cuts nothing the index names.
LEMMA CutAnswers ==
  ASSUME IInv, SInv, TrimTailSnapshot \/ OpenTruncate
  PROVE  /\ Extends(log', log) /\ Len(log') = nextOffset - 1 /\ Len(log') \in Nat
         /\ \A k \in Key : Stored(k)' = Stored(k)
<1>1. /\ log \in Seq(Cells) /\ nextOffset \in Nat /\ nextOffset \in 1..(Len(log) + 1)
      /\ index \in [Key -> Nat]
  BY DEF IInv, FileTypeOK, EngineTypeOK, TruncationPointInFile
<1>2. log' = SubSeq(log, 1, nextOffset - 1) /\ index' = index
  BY DEF TrimTailSnapshot, OpenTruncate, TruncateTail
<1>3. Extends(log', log) /\ Len(log') = nextOffset - 1 /\ Len(log') \in Nat
  BY <1>1, <1>2, Truncated, TruncatedExtends
<1>4. ASSUME NEW k \in Key  PROVE Stored(k)' = Stored(k)
  <2>1. index[k] # 0 => index[k] < nextOffset
    BY DEF SInv, FlushedIndex, SoundIndex
  <2>2. index[k] # 0 => index[k] \in 1..Len(log')
    BY <1>1, <1>3, <2>1
  <2>3. index[k] # 0 => log'[index[k]] = log[index[k]]
    BY <1>3, <2>2 DEF Extends
  <2>4. QED  BY <1>2, <2>3 DEF Stored
<1>5. QED  BY <1>3, <1>4

\* A cut at the record-area end leaves every value acknowledged and every
\* snapshot that still loads.
LEMMA CutHolds ==
  ASSUME IInv, IInv', SInv, DInv, TrimTailSnapshot \/ OpenTruncate
  PROVE  DInv'
<1>1. /\ log \in Seq(Cells) /\ log' \in Seq(Cells) /\ synced \in Nat /\ synced <= Len(log)
      /\ nextOffset \in Nat /\ nextOffset \in 1..(Len(log) + 1) /\ head \in Headers /\ HeaderOK(head)
      /\ Len(log) \in Nat /\ index \in [Key -> Nat]
  BY DEF IInv, FileTypeOK, EngineTypeOK, TruncationPointInFile, HeadersOK
<1>2. /\ log' = SubSeq(log, 1, nextOffset - 1) /\ synced' = Len(log')
      /\ head' = head /\ index' = index /\ nextOffset' = nextOffset
      /\ op' = op /\ copy' = copy /\ acked' = acked /\ limbo' = limbo
      /\ (pc = "trim" /\ pc' = "nullhdr") \/ (pc = "opentrunc" /\ pc' = "openhdr")
  BY DEF TrimTailSnapshot, OpenTruncate, TruncateTail, Flush, host
<1>3. Extends(log', log) /\ Len(log') = nextOffset - 1 /\ Len(log') \in Nat
  BY CutAnswers
<1>4. nextOffset <= Len(log') + 1
  BY <1>1, <1>3
<1>5. Chosen = head /\ Chosen' = head /\ AreaEnd = nextOffset /\ AreaEnd' = nextOffset
  BY <1>2 DEF Chosen, AreaEnd
<1>6. /\ AllBased(log, synced, nextOffset, acked, limbo)
      /\ LastFrames(log, head) /\ SnapHolds(log, synced, head, acked, limbo) /\ BlobsIn(log, synced)
  BY <1>5 DEF DInv, HeldInv, SInv
<1>7. HeldInv'
  <2>1. ASSUME NEW k \in Key  PROVE Based(log', Len(log'), nextOffset, k, acked[k], limbo[k])
    <3>1. Based(log, synced, nextOffset, k, acked[k], limbo[k])
      BY <1>6 DEF AllBased
    <3>2. QED  BY <1>1, <1>3, <1>4, <3>1, BasedUnder
  <2>2. LastFrames(log', head) /\ SnapHolds(log', Len(log'), head, acked, limbo)
    BY <1>1, <1>3, <1>6, HoldsUnder
  <2>3. AllBased(log', Len(log'), nextOffset, acked, limbo)
    BY <2>1 DEF AllBased
  <2>4. QED  BY <1>2, <1>5, <2>2, <2>3 DEF HeldInv
<1>8. CopyInv'
  BY <1>2, CopyKeeps
<1>9. PlainInv'
  <2>1. acked \in [Key -> Answers] /\ limbo \in [Key -> SUBSET Answers] /\ NoZero(log) /\ NoZero(copy)
    BY DEF DInv, PlainInv
  <2>2. ASSUME NEW i \in 1..Len(log')  PROVE log'[i].kind # "zero"
    <3>1. log'[i] = log[i] /\ i \in 1..Len(log)
      BY <1>1, <1>3 DEF Extends
    <3>2. QED  BY <2>1, <3>1 DEF NoZero
  <2>3. NoZero(log')
    BY <2>2 DEF NoZero
  <2>4. QED  BY <1>2, <2>1, <2>3 DEF PlainInv
<1>10. DoubtInv'
  BY <1>2 DEF DoubtInv
<1>11. MapInv'
  BY <1>2, <1>3 DEF DInv, MapInv
<1>12. OpenInv'
  <2>1. CASE pc = "trim"
    BY <1>2, <2>1 DEF OpenInv, Opening
  <2>2. CASE pc = "opentrunc"
    <3>1. ASSUME NEW k \in Key
          PROVE  /\ Stored(k)' \in limbo[k] \cup {acked[k]}
                 /\ Based(log', Len(log'), nextOffset, k, Stored(k)', limbo[k])
                 /\ SnapshotLoads(log', head) => Stored(k)' = acked[k]
      <4>1. /\ Stored(k) \in limbo[k] \cup {acked[k]}
            /\ Based(log, synced, nextOffset, k, Stored(k), limbo[k])
            /\ SnapshotLoads(log, head) => Stored(k) = acked[k]
        BY <2>2 DEF DInv, OpenInv, Opening
      <4>2. Stored(k)' = Stored(k)
        BY CutAnswers
      <4>3. SnapshotLoads(log', head) => SnapshotLoads(log, head)
        BY <1>1, <1>3 DEF SnapshotLoads, Extends
      <4>4. PICK v : v = Stored(k)
        OBVIOUS
      <4>5. Based(log', Len(log'), nextOffset, k, v, limbo[k])
        BY <1>1, <1>3, <1>4, <4>1, <4>4, BasedUnder
      <4>6. QED  BY <4>1, <4>2, <4>3, <4>4, <4>5
    <3>2. QED  BY <1>2, <3>1 DEF OpenInv
  <2>3. QED  BY <1>2, <2>1, <2>2
<1>13. QED  BY <1>7, <1>8, <1>9, <1>10, <1>11, <1>12 DEF DInv

\* A header that has been written holds what the file holds: it names no snapshot,
\* or the one of the index, which answers what was acknowledged.
LEMMA NewHolds ==
  ASSUME IInv, SInv, AnswerInv, DInv, pc \in {"nullsync", "ckptsync"}
  PROVE  LastFrames(log, hdr[1 - act]) /\ SnapHolds(log, synced, hdr[1 - act], acked, limbo)
<1>1. CASE pc = "nullsync"
  <2>1. hdr[1 - act].snap = 0
    BY <1>1 DEF SInv, NameInv
  <2>2. 0 \notin 1..Len(log)
    BY DEF IInv, FileTypeOK
  <2>3. QED  BY <2>1, <2>2 DEF LastFrames, SnapHolds, SnapshotLoads
<1>2. CASE pc = "ckptsync"
  <2>1. hdr[1 - act].snap = Len(log) /\ hdr[1 - act].recEnd = nextOffset
    BY <1>2 DEF SInv, NameInv
  <2>2. Len(log) > 0 /\ log[Len(log)] = Blob(index) /\ Len(log) \in Nat
    BY <1>2 DEF SInv, TailInv, IInv, FileTypeOK
  <2>3. log[Len(log)].idx = index /\ ~IsFrame(log[Len(log)])
    BY <2>2 DEF Blob, IsFrame
  <2>4. \A i \in Len(log)..Len(log) : ~IsFrame(log[i])
    BY <2>2, <2>3
  <2>5. Answering(log, index, acked)
    BY <1>2 DEF AnswerInv, Running, Opening
  <2>6. AllBased(log, synced, nextOffset, acked, limbo)
    BY <1>2 DEF DInv, HeldInv, AreaEnd
  <2>7. QED  BY <2>1, <2>3, <2>4, <2>5, <2>6 DEF LastFrames, SnapHolds
<1>3. QED  BY <1>1, <1>2

\* switchHeader puts such a header in use and nothing is lost.
LEMMA SwitchHolds ==
  ASSUME IInv, IInv', SInv, AnswerInv, DInv, SwitchNullHeader \/ SwitchCheckpointHeader
  PROVE  DInv'
<1>1. /\ log \in Seq(Cells) /\ synced \in Nat /\ synced <= Len(log) /\ Len(log) \in Nat
      /\ nextOffset \in Nat /\ hdr[1 - act] \in Headers
  BY DEF IInv, EngineTypeOK, FileTypeOK, Slots
<1>2. /\ pc \in {"nullsync", "ckptsync"} /\ pc' \in {"append", "idle", "shutdown"}
      /\ pc' = "append" => pc = "nullsync"
      /\ log' = log /\ synced' = Len(log) /\ head' = hdr[1 - act] /\ nextOffset' = nextOffset
      /\ pc = "ckptsync" => mapped' = Len(log)
      /\ copy' = copy /\ acked' = acked /\ limbo' = limbo
  BY DEF SwitchNullHeader, SwitchCheckpointHeader, Flush, Return, host
<1>3. PICK h \in Headers : h = hdr[1 - act]
  BY <1>1
<1>4. LastFrames(log, h) /\ SnapHolds(log, synced, h, acked, limbo) /\ Named(log, h)
      /\ BlobsIn(log, synced)
  BY <1>2, <1>3, NewHolds, WrittenNames DEF SInv
<1>5. Extends(log, log) /\ \A i \in (Len(log) + 1)..Len(log) : FALSE
  BY <1>1 DEF Extends
<1>6. \A k \in Key : limbo[k] \subseteq limbo[k]
  OBVIOUS
<1>7. SnapHolds(log, Len(log), h, acked, limbo)
  BY <1>1, <1>4, <1>5, <1>6, HoldsOver
<1>8. AllBased(log, Len(log), nextOffset, acked, limbo)
  <2>1. ASSUME NEW k \in Key  PROVE Based(log, Len(log), nextOffset, k, acked[k], limbo[k])
    <3>1. Based(log, synced, nextOffset, k, acked[k], limbo[k])
      BY <1>2 DEF DInv, HeldInv, AreaEnd, AllBased
    <3>2. nextOffset <= nextOffset
      BY <1>1
    <3>3. QED  BY <1>1, <1>6, <3>1, <3>2, BasedMore
  <2>2. QED  BY <2>1 DEF AllBased
<1>9. HeldInv'
  <2>1. Chosen' = h /\ AreaEnd' = nextOffset
    BY <1>2, <1>3 DEF Chosen, AreaEnd
  <2>2. QED  BY <1>2, <1>4, <1>7, <1>8, <2>1 DEF HeldInv
<1>10. MapInv'
  <2>1. (pc = "nullsync" => h.snap = 0) /\ (pc = "ckptsync" => h.snap = Len(log))
    BY <1>3 DEF SInv, NameInv
  <2>2. head' = h
    BY <1>2, <1>3
  <2>3. QED  BY <1>2, <2>1, <2>2 DEF MapInv
<1>11. CopyInv'
  BY <1>2, CopyKeeps
<1>12. PlainInv' /\ DoubtInv' /\ OpenInv'
  BY <1>2 DEF DInv, PlainInv, DoubtInv, OpenInv, Opening
<1>13. QED  BY <1>9, <1>10, <1>11, <1>12 DEF DInv

\* The engine lets go of the file: what it leaves there is what a restart needs.
LEMMA LetGoHolds ==
  ASSUME IInv, IInv', SInv, DInv, pc # "down", Forget, copy' = copy, acked' = acked, limbo' = limbo,
         NoZero(log'), synced' = Len(log'), NEW h \in Headers, HeaderOK(h),
         hdr'[ActiveSlot(hdr')] = h, LastFrames(log, h), SnapHolds(log, synced, h, acked, limbo),
         \/ Extends(log', log) /\ nextOffset <= Len(log') + 1
         \/ Survives(log, log', synced)
  PROVE  DInv'
<1>1. /\ log \in Seq(Cells) /\ log' \in Seq(Cells) /\ synced \in Nat /\ synced <= Len(log)
      /\ nextOffset \in Nat /\ Len(log') \in Nat
  BY DEF IInv, FileTypeOK, EngineTypeOK
<1>2. pc' = "down"
  BY DEF Forget
<1>3. ASSUME NEW k \in Key  PROVE Based(log', Len(log'), Len(log') + 1, k, acked[k], limbo[k])
  <2>1. Based(log, synced, nextOffset, k, acked[k], limbo[k])
    BY DEF DInv, HeldInv, AreaEnd, AllBased
  <2>2. Based(log', Len(log'), nextOffset, k, acked[k], limbo[k])
    BY <1>1, <2>1, BasedUnder
  <2>3. /\ Len(log') + 1 \in 1..(Len(log') + 1) /\ Len(log') <= Len(log')
        /\ \A i \in (Len(log') + 1)..Len(log') : ~IsFrame(log'[i])
    BY <1>1
  <2>4. QED  BY <1>1, <2>2, <2>3, BasedBelow
<1>4. LastFrames(log', h) /\ SnapHolds(log', Len(log'), h, acked, limbo)
  BY <1>1, HoldsUnder DEF SInv
<1>5. HeldInv'
  <2>1. Chosen' = h /\ AreaEnd' = Len(log') + 1
    BY <1>2 DEF Chosen, AreaEnd
  <2>2. AllBased(log', Len(log'), Len(log') + 1, acked, limbo)
    BY <1>3 DEF AllBased
  <2>3. QED  BY <1>4, <2>1, <2>2 DEF HeldInv
<1>6. CopyInv'
  BY CopyKeeps
<1>7. PlainInv' /\ MapInv' /\ DoubtInv' /\ OpenInv'
  BY <1>2 DEF DInv, PlainInv, MapInv, DoubtInv, OpenInv, Opening
<1>8. QED  BY <1>5, <1>6, <1>7 DEF DInv

\* shutdownHandles, and Open giving up on its truncate.
LEMMA LetGoStepsHold ==
  ASSUME IInv, IInv', SInv, DInv, ShutdownHandles \/ OpenTruncateFails
  PROVE  DInv'
<1>1. /\ log \in Seq(Cells) /\ log' \in Seq(Cells) /\ synced \in Nat /\ synced <= Len(log)
      /\ head \in Headers /\ HeaderOK(head) /\ act \in Slots /\ Len(log) \in Nat
      /\ nextOffset \in 1..(Len(log) + 1) /\ nextOffset \in Nat
  BY DEF IInv, FileTypeOK, EngineTypeOK, TruncationPointInFile, HeadersOK
<1>2. pc \in {"shutdown", "opentrunc"}
  BY DEF ShutdownHandles, OpenTruncateFails
<1>3. hdr[act] = head /\ ActiveSlot(hdr) = act
  BY <1>2, ActiveHead
<1>4. LastFrames(log, head) /\ SnapHolds(log, synced, head, acked, limbo)
  BY <1>2 DEF DInv, HeldInv, Chosen
<1>5. /\ Forget /\ copy' = copy /\ acked' = acked /\ limbo' = limbo /\ hdr' = hdr
      /\ log' = log \/ log' = SubSeq(log, 1, nextOffset - 1)
  BY DEF ShutdownHandles, OpenTruncateFails, host
<1>6. Extends(log', log) /\ nextOffset <= Len(log') + 1
  <2>1. CASE log' = log
    BY <1>1, <2>1 DEF Extends
  <2>2. CASE log' = SubSeq(log, 1, nextOffset - 1)
    <3>1. Extends(log', log) /\ Len(log') = nextOffset - 1
      BY <1>1, <2>2, Truncated, TruncatedExtends
    <3>2. QED  BY <1>1, <3>1
  <2>3. QED  BY <1>5, <2>1, <2>2
<1>7. synced' = Len(log')
  <2>1. CASE ShutdownHandles
    BY <2>1 DEF ShutdownHandles, Flush
  <2>2. CASE OpenTruncateFails
    <3>1. synced = Len(log)
      BY <2>2 DEF OpenTruncateFails, SInv, FlushInv
    <3>2. synced' = IF synced < Len(log') THEN synced ELSE Len(log')
      BY <2>2 DEF OpenTruncateFails
    <3>3. QED  BY <1>1, <1>6, <3>1, <3>2 DEF Extends
  <2>3. QED  BY <2>1, <2>2
<1>8. NoZero(log')
  <2>1. NoZero(log)
    BY DEF DInv, PlainInv
  <2>2. \A i \in 1..Len(log') : i \in 1..Len(log) /\ log'[i] = log[i]
    BY <1>1, <1>6 DEF Extends
  <2>3. QED  BY <2>1, <2>2 DEF NoZero
<1>9. hdr'[ActiveSlot(hdr')] = head /\ pc # "down"
  BY <1>2, <1>3, <1>5
<1>10. QED  BY <1>1, <1>4, <1>5, <1>6, <1>7, <1>8, <1>9, LetGoHolds

\* A crash loses nothing that was acknowledged.
LEMMA CrashHolds ==
  ASSUME "zero" \notin Residue, IInv, IInv', SInv, AnswerInv, DInv, Crash, hdr[act] = dhdr[act]
  PROVE  DInv'
<1>1. /\ log' \in Seq(Cells) /\ head \in Headers /\ HeaderOK(head)
      /\ 1 - act \in Slots /\ hdr[1 - act] \in Headers /\ HeaderOK(hdr[1 - act])
  BY DEF IInv, FileTypeOK, EngineTypeOK, HeadersOK, Slots
<1>2. /\ pc # "down"
      /\ \/ hdr'[ActiveSlot(hdr')] = head
         \/ pc \in {"nullsync", "ckptsync"} /\ hdr'[ActiveSlot(hdr')] = hdr[1 - act]
  BY CrashSelects
<1>3. Survives(log, log', synced)
  BY CrashSurvives
<1>4. Forget /\ copy' = copy /\ acked' = acked /\ limbo' = limbo /\ synced' = Len(log')
  BY DEF Crash, Flush, host
<1>5. NoZero(log')
  <2>1. PICK n \in synced..Len(log), r \in Residue : \E lost \in SUBSET ((synced + 1)..n) :
          log' = [i \in 1..n |-> IF i \in lost THEN Junk(r) ELSE log[i]]
    BY DEF Crash
  <2>2. PICK lost \in SUBSET ((synced + 1)..n) :
          log' = [i \in 1..n |-> IF i \in lost THEN Junk(r) ELSE log[i]]
    BY <2>1
  <2>3. n \in Nat /\ n <= Len(log) /\ Len(log) \in Nat /\ NoZero(log)
    BY DEF IInv, FileTypeOK, DInv, PlainInv
  <2>4. DOMAIN log' = 1..Len(log') /\ DOMAIN log' = 1..n
    BY <1>1, <2>2, LenProperties
  <2>5. \A i \in 1..n : i \in 1..Len(log)
    BY <2>3
  <2>6. Junk(r).kind # "zero"
    BY <2>1 DEF Junk
  <2>7. \A i \in 1..n : log'[i] = Junk(r) \/ log'[i] = log[i]
    BY <2>2
  <2>8. \A i \in 1..n : log'[i].kind # "zero"
    BY <2>3, <2>5, <2>6, <2>7 DEF NoZero
  <2>9. QED  BY <2>4, <2>8 DEF NoZero
<1>6. LastFrames(log, head) /\ SnapHolds(log, synced, head, acked, limbo)
  BY <1>2 DEF DInv, HeldInv, Chosen
<1>7. pc \in {"nullsync", "ckptsync"} =>
        LastFrames(log, hdr[1 - act]) /\ SnapHolds(log, synced, hdr[1 - act], acked, limbo)
  BY NewHolds
<1>8. CASE hdr'[ActiveSlot(hdr')] = head
  BY <1>1, <1>2, <1>3, <1>4, <1>5, <1>6, <1>8, LetGoHolds
<1>9. CASE pc \in {"nullsync", "ckptsync"} /\ hdr'[ActiveSlot(hdr')] = hdr[1 - act]
  BY <1>1, <1>2, <1>3, <1>4, <1>5, <1>7, <1>9, LetGoHolds
<1>10. QED  BY <1>2, <1>8, <1>9

\* The copy in place of the file holds what was acknowledged.
LEMMA SwapInCopyHolds ==
  ASSUME IInv, IInv', SInv, DInv, SwapInCopy
  PROVE  DInv'
<1> DEFINE h == [commit |-> 1, snap |-> Len(copy), len |-> Len(copy), recEnd |-> Len(copy)]
<1>1. /\ log' = copy /\ hdr' = [hdr EXCEPT ![0] = NewHeader, ![1] = h]
      /\ synced' = Len(log') /\ copy' = <<>> /\ copy # <<>> /\ pc' = "down"
      /\ acked' = acked /\ limbo' = limbo
  BY DEF SwapInCopy, Flush, host
<1>2. copy \in Seq(Cells) /\ Len(copy) \in Nat /\ hdr \in [Slots -> Headers]
  BY DEF IInv, FileTypeOK
<1>3. h.commit = 1 /\ h.snap = Len(copy) /\ h.recEnd = Len(copy)
  OBVIOUS
<1> HIDE DEF h
<1>4. hdr'[ActiveSlot(hdr')] = h
  <2>1. hdr'[0] = NewHeader /\ hdr'[1] = h
    BY <1>1, <1>2 DEF Slots
  <2>2. hdr'[0].commit = 0 /\ hdr'[1].commit = 1
    BY <1>3, <2>1 DEF NewHeader
  <2>3. ActiveSlot(hdr') = 1
    BY <2>2 DEF ActiveSlot
  <2>4. QED  BY <2>1, <2>3
<1>5. /\ IsBlob(copy[Len(copy)]) /\ Answering(copy, copy[Len(copy)].idx, acked)
      /\ AllBased(copy, Len(copy), Len(copy), acked, limbo)
  BY <1>1 DEF DInv, CopyInv
<1>6. LastFrames(copy, h) /\ SnapHolds(copy, Len(copy), h, acked, limbo)
  <2>1. \A i \in Len(copy)..Len(copy) : ~IsFrame(copy[i])
    BY <1>2, <1>5 DEF IsFrame, IsBlob
  <2>2. QED  BY <1>3, <1>5, <2>1 DEF LastFrames, SnapHolds
<1>7. ASSUME NEW k \in Key  PROVE Based(copy, Len(copy), Len(copy) + 1, k, acked[k], limbo[k])
  <2>1. Based(copy, Len(copy), Len(copy), k, acked[k], limbo[k])
    BY <1>5 DEF AllBased
  <2>2. Len(copy) <= Len(copy) + 1 /\ Len(copy) <= Len(copy) /\ Len(copy) + 1 \in Nat
    BY <1>2
  <2>3. QED  BY <1>2, <2>1, <2>2, BasedMore
<1>8. HeldInv'
  <2>1. Chosen' = h /\ AreaEnd' = Len(copy) + 1
    BY <1>1, <1>4 DEF Chosen, AreaEnd
  <2>2. AllBased(copy, Len(copy), Len(copy) + 1, acked, limbo)
    BY <1>7 DEF AllBased
  <2>3. QED  BY <1>1, <1>6, <2>1, <2>2 DEF HeldInv
<1>9. PlainInv'
  <2>1. NoZero(copy')
    BY <1>1 DEF NoZero
  <2>2. QED  BY <1>1, <2>1 DEF DInv, PlainInv
<1>10. MapInv' /\ DoubtInv' /\ OpenInv' /\ CopyInv'
  BY <1>1 DEF MapInv, DoubtInv, OpenInv, CopyInv, Opening
<1>11. QED  BY <1>8, <1>9, <1>10 DEF DInv

\* Open recovers, of each key, a value that was acknowledged or in doubt.
LEMMA OpenHolds ==
  ASSUME IInv, IInv', SInv, DInv, Open
  PROVE  DInv'
<1>1. PICK h : h = hdr[ActiveSlot(hdr)]
  OBVIOUS
<1>2. /\ head' = h /\ index' = RecoveredIndex(log, h) /\ nextOffset' = RecoveredNextOffset(log, h)
      /\ log' = log /\ synced' = synced /\ copy' = copy /\ acked' = acked /\ limbo' = limbo
      /\ pc = "down"
      /\ op'.kind = (IF SnapshotCorrupt(log, h) THEN "openclear" ELSE "open")
      /\ pc' = (IF ScanTruncates(log, h, ScanStart(log, h)) THEN "opentrunc" ELSE "openhdr")
  BY <1>1 DEF Open, file, host
<1>3. h \in Headers /\ HeaderOK(h) /\ log \in Seq(Cells) /\ Len(log) \in Nat /\ nextOffset' \in Nat
  BY <1>1 DEF ActiveSlot, Slots, IInv, FileTypeOK, EngineTypeOK, HeadersOK
<1>4. synced = Len(log)
  BY <1>2 DEF SInv, FlushInv
<1>5. /\ AllBased(log, Len(log), Len(log) + 1, acked, limbo) /\ NoZero(log)
      /\ LastFrames(log, h) /\ SnapHolds(log, Len(log), h, acked, limbo)
  BY <1>1, <1>2, <1>4 DEF DInv, PlainInv, HeldInv, Chosen, AreaEnd
<1>6. /\ AllBased(log, Len(log), nextOffset', acked, limbo)
      /\ \A k \in Key :
           LET v == ValueAt(log, index'[k])
           IN  /\ v \in limbo[k] \cup {acked[k]}
               /\ SnapshotLoads(log, h) => v = acked[k]
               /\ ~SnapshotLoads(log, h) => Based(log, Len(log), nextOffset', k, v, {})
  BY <1>2, <1>3, <1>5, RecoveredHolds
<1>7. HeldInv'
  <2>1. Chosen' = h /\ AreaEnd' = nextOffset'
    BY <1>2 DEF Chosen, AreaEnd
  <2>2. QED  BY <1>2, <1>4, <1>5, <1>6, <2>1 DEF HeldInv
<1>8. OpenInv'
  <2>1. ASSUME NEW k \in Key
        PROVE  /\ Stored(k)' \in limbo[k] \cup {acked[k]}
               /\ Based(log, Len(log), nextOffset', k, Stored(k)', limbo[k])
               /\ SnapshotLoads(log, h) => Stored(k)' = acked[k]
    <3>1. PICK v : v = ValueAt(log, index'[k])
      OBVIOUS
    <3>2. Stored(k)' = v
      BY <1>2, <3>1 DEF Stored, ValueAt
    <3>3. /\ v \in limbo[k] \cup {acked[k]}
          /\ SnapshotLoads(log, h) => v = acked[k]
          /\ ~SnapshotLoads(log, h) => Based(log, Len(log), nextOffset', k, v, {})
      BY <1>6, <3>1
    <3>4. Based(log, Len(log), nextOffset', k, v, limbo[k])
      <4>1. CASE SnapshotLoads(log, h)
        BY <1>6, <3>3, <4>1 DEF AllBased
      <4>2. CASE ~SnapshotLoads(log, h)
        <5>1. {} \subseteq limbo[k] /\ Len(log) <= Len(log) /\ nextOffset' <= nextOffset'
          BY <1>3
        <5>2. QED  BY <1>3, <3>3, <4>2, <5>1, BasedMore
      <4>3. QED  BY <4>1, <4>2
    <3>5. QED  BY <3>2, <3>3, <3>4
  <2>2. QED  BY <1>2, <1>4, <2>1 DEF OpenInv
<1>9. MapInv'
  <2>1. pc' \in {"opentrunc", "openhdr"}
    BY <1>2
  <2>2. CASE op'.kind = "open" /\ h.snap # 0
    <3>1. SnapshotLoads(log, h)
      BY <1>2, <2>2 DEF SnapshotCorrupt
    <3>2. IF ScanTruncates(log, h, ScanStart(log, h)) THEN nextOffset' = h.snap + 1
          ELSE h.snap = Len(log)
      BY <1>2, <1>3, <1>5, <3>1, SnapshotRecovered
    <3>3. nextOffset' = h.snap + 1 => h.snap = nextOffset' - 1
      BY <1>3 DEF Headers
    <3>4. QED  BY <1>2, <2>1, <3>2, <3>3 DEF MapInv
  <2>3. CASE op'.kind # "open" \/ h.snap = 0
    BY <1>2, <2>1, <2>3 DEF MapInv
  <2>4. QED  BY <2>2, <2>3
<1>10. CopyInv'
  BY <1>2, CopyKeeps
<1>11. PlainInv' /\ DoubtInv'
  BY <1>2 DEF DInv, PlainInv, DoubtInv
<1>12. QED  BY <1>7, <1>8, <1>9, <1>10, <1>11 DEF DInv

\* clearActiveSnapshot: the header names nothing and the file is the same.
LEMMA ClearHolds ==
  ASSUME IInv, IInv', SInv, DInv, ClearActiveSnapshot
  PROVE  DInv'
<1>1. /\ pc = "openhdr" /\ pc' = "openhdr" /\ log' = log /\ synced' = synced /\ index' = index
      /\ nextOffset' = nextOffset /\ copy' = copy /\ acked' = acked /\ limbo' = limbo
  BY DEF ClearActiveSnapshot, host
<1>2. head'.snap = 0
  <2>1. head' = [head EXCEPT !.snap = 0, !.len = 0] /\ head \in Headers
    BY DEF ClearActiveSnapshot, IInv, EngineTypeOK
  <2>2. QED  BY <2>1 DEF Headers
<1>3. ~SnapshotLoads(log, head') /\ LastFrames(log, head')
  <2>1. 0 \notin 1..Len(log)
    BY DEF IInv, FileTypeOK
  <2>2. QED  BY <1>2, <2>1 DEF SnapshotLoads, LastFrames
<1>4. HeldInv'
  <2>1. AllBased(log, synced, nextOffset, acked, limbo)
    BY <1>1 DEF DInv, HeldInv, AreaEnd
  <2>2. Chosen' = head' /\ AreaEnd' = nextOffset
    BY <1>1 DEF Chosen, AreaEnd
  <2>3. QED  BY <1>1, <1>3, <2>1, <2>2 DEF HeldInv, SnapHolds
<1>5. OpenInv'
  <2>1. ASSUME NEW k \in Key
        PROVE  /\ Stored(k)' \in limbo[k] \cup {acked[k]}
               /\ Based(log, synced, nextOffset, k, Stored(k)', limbo[k])
    <3>1. Stored(k)' = Stored(k)
      BY <1>1 DEF Stored
    <3>2. QED  BY <1>1, <3>1 DEF DInv, OpenInv, Opening
  <2>2. QED  BY <1>1, <1>3, <2>1 DEF OpenInv
<1>6. CopyInv'
  BY <1>1, CopyKeeps
<1>7. PlainInv' /\ DoubtInv' /\ MapInv'
  BY <1>1, <1>2 DEF DInv, PlainInv, DoubtInv, MapInv
<1>8. QED  BY <1>4, <1>5, <1>6, <1>7 DEF DInv

\* The engine is handed over: what it answers is now what is acknowledged.
LEMMA OpenDoneHolds ==
  ASSUME IInv, IInv', SInv, AnswerInv, DInv, OpenDone
  PROVE  DInv'
<1>1. /\ pc = "openhdr" /\ op.kind = "open" /\ pc' = "idle" /\ log' = log /\ synced' = synced
      /\ head' = head /\ nextOffset' = nextOffset /\ mapped' = mapped /\ copy' = <<>>
      /\ acked' = [k \in Key |-> Stored(k)] /\ limbo' = limbo
  BY DEF OpenDone, file
<1>2. \A k \in Key : /\ Stored(k) \in limbo[k] \cup {acked[k]}
                     /\ Based(log, synced, nextOffset, k, Stored(k), limbo[k])
                     /\ SnapshotLoads(log, head) => Stored(k) = acked[k]
  BY <1>1 DEF DInv, OpenInv, Opening
<1>3. LastFrames(log, head) /\ SnapHolds(log, synced, head, acked, limbo)
  BY <1>1 DEF DInv, HeldInv, Chosen
<1>4. HeldInv'
  <2>1. AllBased(log, synced, nextOffset, acked', limbo)
    BY <1>1, <1>2 DEF AllBased
  <2>2. SnapHolds(log, synced, head, acked', limbo)
    <3>1. SUFFICES ASSUME SnapshotLoads(log, head)
                   PROVE  Answering(log, log[head.snap].idx, acked')
                          /\ AllBased(log, synced, head.recEnd, acked', limbo)
      BY DEF SnapHolds
    <3>2. \A k \in Key : acked'[k] = acked[k]
      BY <1>1, <1>2, <3>1
    <3>3. QED  BY <1>3, <3>1, <3>2 DEF SnapHolds, Answering, AllBased
  <2>3. Chosen' = head /\ AreaEnd' = nextOffset
    BY <1>1 DEF Chosen, AreaEnd
  <2>4. QED  BY <1>1, <1>3, <2>1, <2>2, <2>3 DEF HeldInv
<1>5. MapInv'
  <2>1. mapped = Len(log) /\ (head.snap = 0 \/ head.snap = Len(log))
    BY <1>1 DEF AnswerInv, Opening, DInv, MapInv
  <2>2. QED  BY <1>1, <2>1 DEF MapInv
<1>6. PlainInv'
  <2>1. acked \in [Key -> Answers] /\ limbo \in [Key -> SUBSET Answers] /\ NoZero(log)
    BY DEF DInv, PlainInv
  <2>2. \A k \in Key : Stored(k) \in Answers
    BY <1>2, <2>1
  <2>3. NoZero(copy')
    BY <1>1 DEF NoZero
  <2>4. QED  BY <1>1, <2>1, <2>2, <2>3 DEF PlainInv
<1>7. DoubtInv' /\ OpenInv' /\ CopyInv'
  BY <1>1 DEF DoubtInv, OpenInv, CopyInv, Opening
<1>8. QED  BY <1>4, <1>5, <1>6, <1>7 DEF DInv
-----------------------------------------------------------------------------
\* The calls that may fail include neither these nor the write of a checkpoint's
\* header, and a crash leaves no zero fill.
DurableOK == HeaderCallsOK /\ "ckpthdr" \notin Faults /\ "zero" \notin Residue

\* A freshly created file holds what was acknowledged: nothing.
LEMMA InitHolds == Init => DInv
<1> SUFFICES ASSUME Init PROVE DInv
  OBVIOUS
<1>1. /\ log = <<>> /\ copy = <<>> /\ synced = 0 /\ head = NewHeader /\ nextOffset = 1 /\ pc = "idle"
      /\ acked = [k \in Key |-> None] /\ limbo = [k \in Key |-> {}]
  BY DEF Init
<1>2. Len(log) = 0 /\ head.snap = 0
  BY <1>1 DEF NewHeader
<1>3. ASSUME NEW k \in Key  PROVE Based(log, synced, nextOffset, k, acked[k], limbo[k])
  <2>1. \A i \in (0 + 1)..Len(log) : FALSE
    BY <1>2
  <2>2. 0 \in 0..synced /\ 0 < nextOffset /\ acked[k] = None
    BY <1>1
  <2>3. QED  BY <2>1, <2>2 DEF Based
<1>4. HeldInv
  <2>1. Chosen = head /\ AreaEnd = nextOffset
    BY <1>1 DEF Chosen, AreaEnd
  <2>2. 0 \notin 1..Len(log)
    BY <1>2
  <2>3. QED  BY <1>2, <1>3, <2>1, <2>2 DEF HeldInv, AllBased, LastFrames, SnapHolds, SnapshotLoads
<1>5. PlainInv
  <2>1. NoZero(log) /\ NoZero(copy)
    BY <1>1 DEF NoZero
  <2>2. acked \in [Key -> Answers] /\ limbo \in [Key -> SUBSET Answers]
    BY <1>1 DEF Answers
  <2>3. QED  BY <2>1, <2>2 DEF PlainInv
<1>6. MapInv /\ DoubtInv /\ OpenInv /\ CopyInv
  BY <1>1, <1>2 DEF MapInv, DoubtInv, OpenInv, CopyInv, Opening
<1>7. QED  BY <1>4, <1>5, <1>6 DEF DInv

\* Every step keeps what was acknowledged in the file.
LEMMA StepHolds ==
  ASSUME DurableOK, IInv, IInv', SInv, AnswerInv, DInv, [Next]_vars,
         [Crash => hdr[act] = dhdr[act]]_vars
  PROVE  DInv'
<1>1. (\A c \in HeaderCalls : c \notin Faults) /\ "ckpthdr" \notin Faults /\ "zero" \notin Residue
  BY DEF DurableOK, HeaderCallsOK
<1> USE DEF HeaderCalls
<1>2. CASE Writer
  <2>1. ASSUME NEW recs \in Batches(Key \X Payload), WriteRecordBatch(recs)  PROVE DInv'
    <3>1. \E frames \in Seq(Frames) : StartAppend(frames)
      BY <2>1, RequestsAreFrames DEF WriteRecordBatch
    <3>2. QED  BY <3>1, StillHolds
  <2>2. ASSUME NEW ks \in Batches(Key), DeleteRecordBatch(ks)  PROVE DInv'
    <3>1. \E frames \in Seq(Frames) : StartAppend(frames)
      BY <2>2, RequestsAreFrames DEF DeleteRecordBatch
    <3>2. QED  BY <3>1, StillHolds
  <2>3. CASE WriteNullSnapshotHeader \/ AppendFails \/ SyncFails
    BY <2>3, StillHolds
  <2>4. CASE TrimFails \/ WriteInactiveHeaderFails("nullhdr") \/ HeaderSyncFails
    BY <1>1, <2>4 DEF TrimFails, WriteInactiveHeaderFails, HeaderSyncFails, Fails
  <2>5. CASE TrimTailSnapshot
    BY <2>5, CutHolds
  <2>6. CASE SwitchNullHeader
    BY <2>6, SwitchHolds
  <2>7. CASE AppendFrames
    BY <2>7, AppendFramesHolds
  <2>8. CASE UndoAppendFails
    BY <2>8, UndoAppendFailsHolds
  <2>9. CASE SyncAndIndex
    BY <2>9, SyncAndIndexHolds
  <2>10. QED  BY <1>2, <2>1, <2>2, <2>3, <2>4, <2>5, <2>6, <2>7, <2>8, <2>9 DEF Writer
<1>3. CASE Checkpointer
  <2>1. CASE \/ Checkpoint \/ Close
             \/ \E kind \in {"checkpoint", "close"} : AppendSnapshotFails(kind)
    <3>1. \E kind \in {"checkpoint", "close"} : AppendSnapshot(kind) \/ AppendSnapshotFails(kind)
      BY <2>1 DEF Checkpoint, Close
    <3>2. QED  BY <3>1, AppendSnapshotHolds
  <2>2. CASE SyncSnapshot \/ SyncSnapshotFails \/ WriteCheckpointHeader
    BY <2>2, StillHolds
  <2>3. CASE SwitchRemapFails \/ WriteInactiveHeaderFails("ckpthdr") \/ ShutdownSyncFails
    BY <1>1, <2>3 DEF SwitchRemapFails, WriteInactiveHeaderFails, ShutdownSyncFails, Fails
  <2>4. CASE SwitchCheckpointHeader
    BY <2>4, SwitchHolds
  <2>5. CASE ShutdownHandles
    BY <2>5, LetGoStepsHold
  <2>6. QED  BY <1>3, <2>1, <2>2, <2>3, <2>4, <2>5 DEF Checkpointer
<1>4. CASE Opener
  <2>1. CASE Open
    BY <2>1, OpenHolds
  <2>2. CASE OpenTruncate
    BY <2>2, CutHolds
  <2>3. CASE OpenTruncateFails
    BY <2>3, LetGoStepsHold
  <2>4. CASE ClearActiveSnapshot
    BY <2>4, ClearHolds
  <2>5. CASE ClearActiveSnapshotFails
    BY <1>1, <2>5 DEF ClearActiveSnapshotFails, Fails
  <2>6. CASE OpenDone
    BY <2>6, OpenDoneHolds
  <2>7. QED  BY <1>4, <2>1, <2>2, <2>3, <2>4, <2>5, <2>6 DEF Opener
<1>5. CASE Compact
  BY <1>5, CompactHolds
<1>6. CASE SwapInCopy
  BY <1>6, SwapInCopyHolds
<1>7. CASE Crash /\ vars' # vars
  <2>1. hdr[act] = dhdr[act]
    BY <1>7
  <2>2. QED  BY <1>1, <1>7, <2>1, CrashHolds
<1>8. CASE UNCHANGED vars
  <2>1. /\ log' = log /\ synced' = synced /\ hdr' = hdr /\ head' = head /\ index' = index
        /\ nextOffset' = nextOffset /\ mapped' = mapped /\ pc' = pc /\ op' = op /\ copy' = copy
        /\ acked' = acked /\ limbo' = limbo
    BY <1>8 DEF vars, file, mem, host
  <2>2. QED  BY <2>1 DEF DInv, PlainInv, MapInv, DoubtInv, HeldInv, OpenInv, CopyInv, Chosen, AreaEnd,
                 Opening, Stored
<1>9. QED  BY <1>2, <1>3, <1>4, <1>5, <1>6, <1>7, <1>8 DEF Next

\* The file of a running engine holds every acknowledged value, and so does the
\* snapshot a restart would load.
THEOREM DurableInvariance ==
  ASSUME DurableOK
  PROVE  Spec /\ ClearReachesDisk => []DInv
<1>1. HeaderCallsOK
  BY DEF DurableOK
<1>2. DInv /\ IInv /\ IInv' /\ SInv /\ AnswerInv /\ [Next]_vars /\ [Crash => hdr[act] = dhdr[act]]_vars
        => DInv'
  BY StepHolds
<1>3. Spec /\ ClearReachesDisk => []SInv
  BY <1>1, SoundInvariance
<1>4. Spec /\ ClearReachesDisk => []AnswerInv
  BY <1>1, AnswerInvariance
<1>5. QED  BY InitHolds, Invariance, <1>2, <1>3, <1>4, PTL DEF Spec, ClearReachesDisk

\* A batch that reaches the file is an attempt of the store.
LEMMA AttemptMaps ==
  ASSUME IInv, DInv, AppendFrames \/ UndoAppendFails
  PROVE  Store!Attempt
<1>1. limbo' = InDoubt(op.frames) /\ acked' = acked
  BY DEF AppendFrames, UndoAppendFails
<1>2. limbo \in [Key -> SUBSET Answers] /\ op.frames \in Seq(Frames)
  BY DEF DInv, PlainInv, IInv, EngineTypeOK, Ops
<1>3. limbo' \in [Key -> SUBSET Answers] /\ \A k \in Key : limbo[k] \subseteq limbo'[k]
  BY <1>1, <1>2, DoubtGrows
<1>4. QED  BY <1>1, <1>3 DEF Store!Attempt, Store!Possible, Answers

\* A batch that is flushed and indexed is acknowledged, each of its keys with a
\* value that was in doubt.
LEMMA AcknowledgeMaps ==
  ASSUME IInv, DInv, SyncAndIndex
  PROVE  \E K \in SUBSET Key : Store!Acknowledge(K)
<1> DEFINE K == {k \in Key : InBatch(k) # {}}
<1>1. /\ pc = "sync"
      /\ acked' = [k \in Key |-> IF InBatch(k) = {} THEN acked[k] ELSE op.frames[Last(InBatch(k))].val]
      /\ limbo' = [k \in Key |-> IF InBatch(k) = {} THEN limbo[k] ELSE {}]
  BY DEF SyncAndIndex
<1>2. op.frames \in Seq(Frames)
  BY DEF IInv, EngineTypeOK, Ops
<1>3. ASSUME NEW k \in K  PROVE acked'[k] \in limbo[k]
  <2>1. k \in Key /\ InBatch(k) # {}
    OBVIOUS
  <2>2. PICK i \in 1..Len(op.frames) : i = Last(InBatch(k)) /\ op.frames[i].key = k
    BY <1>2, <2>1, LastOfBatch
  <2>3. acked'[k] = op.frames[i].val
    BY <1>1, <2>1, <2>2
  <2>4. QED  BY <1>1, <2>2, <2>3 DEF DInv, DoubtInv
<1>4. acked' = [k \in Key |-> IF k \in K THEN acked'[k] ELSE acked[k]]
  BY <1>1
<1>5. limbo' = [k \in Key |-> IF k \in K THEN {} ELSE limbo[k]]
  BY <1>1
<1> HIDE DEF K
<1>6. Store!Acknowledge(K)
  BY <1>3, <1>4, <1>5 DEF Store!Acknowledge
<1>7. QED  BY <1>6 DEF K

\* An Open that succeeds is a restart: each key answers what was acknowledged or
\* a value that was in doubt.
LEMMA RestartMaps ==
  ASSUME DInv, OpenDone
  PROVE  Store!Restart
<1>1. pc = "openhdr" /\ acked' = [k \in Key |-> Stored(k)] /\ limbo' = limbo
  BY DEF OpenDone
<1>2. \A k \in Key : Stored(k) \in limbo[k] \cup {acked[k]}
  BY <1>1 DEF DInv, OpenInv, Opening
<1>3. acked' = [k \in Key |-> acked'[k]] /\ \A k \in Key : acked'[k] \in {acked[k]} \cup limbo[k]
  BY <1>1, <1>2
<1>4. QED  BY <1>1, <1>3 DEF Store!Restart

\* No other step touches what the host knows.
LEMMA HostSteps ==
  ASSUME [Next]_vars
  PROVE  \/ AppendFrames \/ UndoAppendFails \/ SyncAndIndex \/ OpenDone
         \/ acked' = acked /\ limbo' = limbo
<1>1. CASE Writer
  BY <1>1 DEF Writer, WriteRecordBatch, DeleteRecordBatch, StartAppend, TrimTailSnapshot, TrimFails,
     WriteNullSnapshotHeader, WriteInactiveHeader, WriteInactiveHeaderFails, SwitchNullHeader,
     HeaderSyncFails, AppendFails, SyncFails, host
<1>2. CASE Checkpointer
  BY <1>2 DEF Checkpointer, Checkpoint, Close, AppendSnapshot, AppendSnapshotFails, SyncSnapshot,
     SyncSnapshotFails, WriteCheckpointHeader, WriteInactiveHeader, WriteInactiveHeaderFails,
     SwitchCheckpointHeader, SwitchRemapFails, ShutdownHandles, ShutdownSyncFails, host
<1>3. CASE Opener
  BY <1>3 DEF Opener, Open, OpenTruncate, OpenTruncateFails, ClearActiveSnapshot,
     ClearActiveSnapshotFails, host
<1>4. CASE Compact \/ SwapInCopy \/ Crash
  BY <1>4 DEF Compact, SwapInCopy, Crash, host
<1>5. CASE UNCHANGED vars
  BY <1>5 DEF vars, host
<1>6. QED  BY <1>1, <1>2, <1>3, <1>4, <1>5 DEF Next

\* The engine implements the map of DurableStore: across crashes, torn writes,
\* failed appends and flushes, Close and reopen and the swap of a compacted copy,
\* an acknowledged update is never lost, and what a restart brings back without
\* having been acknowledged was asked for and still in doubt.
THEOREM DurableRefinement ==
  ASSUME DurableOK
  PROVE  Spec /\ ClearReachesDisk => Durable
<1>1. Init => Store!Init
  BY DEF Init, Store!Init
<1>2. IInv /\ DInv /\ [Next]_vars => [Store!Next]_(Store!vars)
  <2> SUFFICES ASSUME IInv, DInv, [Next]_vars  PROVE [Store!Next]_(Store!vars)
    OBVIOUS
  <2>1. CASE AppendFrames \/ UndoAppendFails
    BY <2>1, AttemptMaps DEF Store!Next
  <2>2. CASE SyncAndIndex
    BY <2>2, AcknowledgeMaps DEF Store!Next
  <2>3. CASE OpenDone
    BY <2>3, RestartMaps DEF Store!Next
  <2>4. CASE acked' = acked /\ limbo' = limbo
    BY <2>4 DEF Store!vars
  <2>5. QED  BY <2>1, <2>2, <2>3, <2>4, HostSteps
<1>3. QED  BY <1>1, <1>2, Invariance, DurableInvariance, PTL DEF Spec, Durable, Store!Spec
-----------------------------------------------------------------------------
(* The snapshot and a scan of the same bytes. *)

\* Unless a flush or an undo fails, the last frame of each key in the file is
\* what was acknowledged, but for the keys of a batch that is being flushed and
\* for what a crash left, which the next Open answers.
ExactHeld ==
  Running => \A k \in Key : (pc = "sync" => InBatch(k) = {}) =>
                              Based(log, synced, nextOffset, k, acked[k], {})

\* What Open answers is the last frame of each key.
ExactOpen == Opening => \A k \in Key : Based(log, synced, nextOffset, k, Stored(k), {})

\* Nothing in a compacted file is in doubt.
ExactCopy == copy # <<>> => AllBased(copy, Len(copy), Len(copy), acked, NoDoubt)

\* The inductive invariant behind the agreement of snapshot and scan.
XInv ==
  /\ ExactHeld /\ ExactOpen /\ ExactCopy
  /\ SnapHolds(log, synced, Chosen, acked, NoDoubt)

\* A running step that acknowledges nothing, keeps the header in use and puts no
\* frame into the file.
Steady ==
  /\ Running /\ pc # "sync" /\ pc' \notin {"down", "opentrunc", "openhdr", "sync"}
  /\ acked' = acked /\ head' = head /\ ExactCopy'
  /\ synced <= synced' /\ nextOffset <= nextOffset'
  /\ Extends(log, log') /\ ((log' = log /\ synced' = synced) \/ Named(log, head))
  /\ \A i \in (Len(log) + 1)..Len(log') : ~IsFrame(log'[i])

\* It keeps the file exact.
LEMMA SteadyKeeps ==
  ASSUME IInv, IInv', SInv, DInv, XInv, Steady
  PROVE  XInv'
<1>1. /\ log \in Seq(Cells) /\ log' \in Seq(Cells) /\ synced \in Nat /\ synced' \in Nat
      /\ synced <= Len(log) /\ nextOffset \in Nat /\ nextOffset' \in Nat /\ head \in Headers
  BY DEF IInv, FileTypeOK, EngineTypeOK
<1>2. Chosen = head /\ Chosen' = head
  BY DEF Steady, Chosen, Running
<1>3. ASSUME NEW k \in Key  PROVE Based(log', synced', nextOffset', k, acked[k], {})
  <2>1. Based(log, synced, nextOffset, k, acked[k], {})
    BY DEF XInv, ExactHeld, Steady
  <2>2. \A i \in (Len(log) + 1)..Len(log') : IsFrame(log'[i]) /\ log'[i].key = k => log'[i].val \in {}
    BY DEF Steady
  <2>3. Extends(log, log') /\ synced <= synced' /\ nextOffset <= nextOffset' /\ {} \subseteq {}
    BY DEF Steady
  <2>4. Based(log', synced, nextOffset, k, acked[k], {})
    BY <1>1, <2>1, <2>2, <2>3, BasedOver
  <2>5. QED  BY <1>1, <2>3, <2>4, BasedMore
<1>4. SnapHolds(log', synced', head, acked, NoDoubt)
  <2>1. SnapHolds(log, synced, head, acked, NoDoubt) /\ LastFrames(log, head) /\ BlobsIn(log, synced)
    BY <1>2 DEF XInv, DInv, HeldInv, SInv
  <2>2. CASE log' = log /\ synced' = synced
    BY <2>1, <2>2
  <2>3. CASE Named(log, head)
    <3>1. \A k \in Key : NoDoubt[k] \subseteq NoDoubt[k]
      OBVIOUS
    <3>2. Extends(log, log') /\ synced <= synced'
          /\ (head.snap # 0 => \A i \in (Len(log) + 1)..Len(log') : ~IsFrame(log'[i]))
      BY DEF Steady
    <3>3. QED  BY <1>1, <2>1, <2>3, <3>1, <3>2, HoldsOver
  <2>4. QED  BY <2>2, <2>3 DEF Steady
<1>5. ExactHeld' /\ ExactOpen'
  BY <1>3 DEF ExactHeld, ExactOpen, Opening, Steady
<1>6. QED  BY <1>2, <1>4, <1>5 DEF XInv, Steady

\* Which steps these are: the start of a batch, a write undone, the snapshot,
\* what is left of one, the headers, and Compact.
LEMMA SteadySteps ==
  ASSUME IInv, IInv', SInv, AnswerInv, XInv,
         \/ \E frames \in Seq(Frames) : StartAppend(frames)
         \/ AppendFails \/ SyncSnapshot \/ SyncSnapshotFails
         \/ \E kind \in {"checkpoint", "close"} : AppendSnapshot(kind) \/ AppendSnapshotFails(kind)
         \/ WriteNullSnapshotHeader \/ WriteCheckpointHeader \/ Compact
  PROVE  Steady
<1>1. /\ log \in Seq(Cells) /\ log' \in Seq(Cells) /\ Len(log) \in Nat /\ synced \in Nat
      /\ synced <= Len(log) /\ nextOffset \in Nat /\ Extends(log, log)
  BY DEF IInv, FileTypeOK, EngineTypeOK, Extends
<1>2. SubSeq(log, 1, (Len(log) + 1) - 1) = log
  BY <1>1
<1>3. CASE \E kind \in {"checkpoint", "close"} : AppendSnapshot(kind) \/ AppendSnapshotFails(kind)
  <2>1. /\ pc = "idle" /\ pc' \in {"blobsync", "idle", "shutdown"} /\ nextOffset' = nextOffset
        /\ acked' = acked /\ head' = head /\ copy' = copy /\ synced' = synced
        /\ log' = log \/ log' = Append(log, Blob(index)) \/ log' = Append(log, Junk("torn"))
    BY <1>3 DEF AppendSnapshot, AppendSnapshotFails, Idle, mem, host
  <2>2. Extends(log, log')
    BY <1>3, AppendedExtends
  <2>3. Running /\ Named(log, head)
    BY <2>1 DEF SInv, NameInv, Running, Opening
  <2>4. ~IsFrame(Blob(index)) /\ ~IsFrame(Junk("torn"))
    BY DEF Blob, Junk, IsFrame
  <2>5. \A c : Len(Append(log, c)) = Len(log) + 1 /\ Append(log, c)[Len(log) + 1] = c
    BY <1>1
  <2>6. ASSUME NEW i \in (Len(log) + 1)..Len(log')  PROVE ~IsFrame(log'[i])
    <3>1. log' # log
      BY <1>1
    <3>2. PICK c : log' = Append(log, c) /\ ~IsFrame(c)
      BY <2>1, <2>4, <3>1
    <3>3. i = Len(log) + 1
      BY <1>1, <2>5, <3>2
    <3>4. QED  BY <2>5, <3>2, <3>3
  <2>7. ExactCopy'
    BY <2>1 DEF XInv, ExactCopy
  <2>8. synced <= synced' /\ nextOffset <= nextOffset'
    BY <1>1, <2>1
  <2>9. QED  BY <2>1, <2>2, <2>3, <2>6, <2>7, <2>8 DEF Steady
<1>4. ASSUME log' = log, acked' = acked, head' = head, nextOffset' = nextOffset,
             synced' = synced \/ synced' = Len(log), pc = "nullhdr" => synced' = synced, ExactCopy',
             pc \in {"idle", "append", "blobsync", "nullhdr", "ckpthdr"},
             pc' \notin {"down", "opentrunc", "openhdr", "sync"}
      PROVE  Steady
  <2>1. Named(log, head) \/ pc = "nullhdr"
    BY <1>4 DEF SInv, NameInv, Running, Opening
  <2>2. synced <= synced' /\ nextOffset <= nextOffset' /\ Extends(log, log')
    BY <1>1, <1>4
  <2>3. \A i \in (Len(log) + 1)..Len(log') : FALSE
    BY <1>1, <1>4
  <2>4. QED  BY <1>4, <2>1, <2>2, <2>3 DEF Steady, Running, Opening
<1>5. CASE Compact
  <2>1. /\ log' = log /\ synced' = synced /\ head' = head /\ nextOffset' = nextOffset
        /\ pc = "idle" /\ pc' = "idle" /\ acked' = acked
    BY <1>5 DEF Compact, Idle, file, mem, host
  <2>2. ExactCopy'
    BY <1>5, <2>1, CompactExact DEF ExactCopy
  <2>3. QED  BY <1>4, <2>1, <2>2
<1>6. CASE \/ \E frames \in Seq(Frames) : StartAppend(frames)
           \/ AppendFails \/ SyncSnapshot \/ SyncSnapshotFails
           \/ WriteNullSnapshotHeader \/ WriteCheckpointHeader
  <2>1. /\ log' = log /\ acked' = acked /\ head' = head /\ nextOffset' = nextOffset
        /\ copy' = copy /\ (synced' = synced \/ synced' = Len(log))
        /\ pc \in {"idle", "append", "blobsync", "nullhdr", "ckpthdr"}
        /\ pc = "nullhdr" => synced' = synced
        /\ pc' \notin {"down", "opentrunc", "openhdr", "sync"}
    BY <1>2, <1>6 DEF StartAppend, AppendFails, SyncSnapshot, SyncSnapshotFails,
       WriteNullSnapshotHeader, WriteCheckpointHeader, WriteInactiveHeader, TruncateTail, Flush, Idle,
       Return, file, mem, host
  <2>2. ExactCopy'
    BY <2>1 DEF XInv, ExactCopy
  <2>3. QED  BY <1>4, <2>1, <2>2
<1>7. QED  BY <1>3, <1>5, <1>6

\* A batch in the file says nothing of the keys it does not touch.
LEMMA AppendFramesExact ==
  ASSUME IInv, IInv', SInv, DInv, XInv, AppendFrames
  PROVE  XInv'
<1>1. /\ log \in Seq(Cells) /\ log' \in Seq(Cells) /\ op.frames \in Seq(Frames) /\ op.frames \in Seq(Cells)
      /\ synced \in Nat /\ synced <= Len(log) /\ nextOffset \in Nat /\ nextOffset' \in Nat
      /\ nextOffset <= Len(log) + 1 /\ Len(log) \in Nat
  BY DEF IInv, FileTypeOK, EngineTypeOK, Ops, Cells, TruncationPointInFile
<1>2. /\ pc = "append" /\ pc' = "sync" /\ log' = log \o op.frames /\ nextOffset' = Len(log') + 1
      /\ op' = op /\ acked' = acked /\ head' = head /\ copy' = copy /\ synced' = synced
  BY DEF AppendFrames
<1>3. Extends(log, log') /\ Len(log') = Len(log) + Len(op.frames) /\ Len(op.frames) \in Nat
  BY <1>1, <1>2, ConcatExtends
<1>4. nextOffset <= nextOffset'
  BY <1>1, <1>2, <1>3
<1>5. ASSUME NEW k \in Key, InBatch(k) = {}  PROVE Based(log', synced, nextOffset', k, acked[k], {})
  <2>1. Based(log, synced, nextOffset, k, acked[k], {})
    BY <1>2 DEF XInv, ExactHeld, Running, Opening
  <2>2. ASSUME NEW i \in (Len(log) + 1)..Len(log'), IsFrame(log'[i]), log'[i].key = k  PROVE FALSE
    <3>1. PICK j \in 1..Len(op.frames) : log'[i] = op.frames[j]
      BY <1>1, <1>2, TailCells
    <3>2. j \in DOMAIN op.frames /\ op.frames[j].key = k
      BY <1>1, <2>2, <3>1
    <3>3. QED  BY <1>5, <3>2 DEF InBatch
  <2>3. Based(log', synced, nextOffset, k, acked[k], {})
    BY <1>1, <1>3, <2>1, <2>2, BasedOver
  <2>4. synced <= synced /\ {} \subseteq {}
    BY <1>1
  <2>5. QED  BY <1>1, <1>4, <2>3, <2>4, BasedMore
<1>6. ExactHeld'
  <2>1. \A k \in Key : InBatch(k)' = InBatch(k)
    BY <1>2 DEF InBatch
  <2>2. QED  BY <1>2, <1>5, <2>1 DEF ExactHeld
<1>7. ~SnapshotLoads(log', head) /\ Chosen' = head
  BY <1>1, <1>2 DEF DInv, MapInv, SnapshotLoads, Chosen
<1>8. QED  BY <1>2, <1>6, <1>7 DEF XInv, ExactOpen, ExactCopy, Opening, SnapHolds

\* When a batch is acknowledged, its frames are the last ones of their keys.
LEMMA SyncAndIndexExact ==
  ASSUME IInv, IInv', SInv, DInv, XInv, SyncAndIndex
  PROVE  XInv'
<1>1. /\ synced \in Nat /\ synced <= Len(log) /\ Len(log) \in Nat /\ nextOffset \in Nat
  BY DEF IInv, FileTypeOK, EngineTypeOK
<1>2. /\ log' = log /\ synced' = Len(log) /\ head' = head /\ nextOffset' = nextOffset /\ pc = "sync"
      /\ acked' = [k \in Key |-> IF InBatch(k) = {} THEN acked[k] ELSE op.frames[Last(InBatch(k))].val]
      /\ copy' = <<>> /\ pc' \in {"idle", "shutdown"}
  BY DEF SyncAndIndex, Flush, Return
<1>3. ASSUME NEW k \in Key  PROVE Based(log, Len(log), nextOffset, k, acked'[k], {})
  <2>1. CASE InBatch(k) = {}
    <3>1. Based(log, synced, nextOffset, k, acked[k], {}) /\ acked'[k] = acked[k]
      BY <1>2, <2>1 DEF XInv, ExactHeld, Running, Opening
    <3>2. nextOffset <= nextOffset /\ {} \subseteq {}
      BY <1>1
    <3>3. QED  BY <1>1, <3>1, <3>2, BasedMore
  <2>2. CASE InBatch(k) # {}
    BY <2>2, BatchBased
  <2>3. QED  BY <2>1, <2>2
<1>4. ~SnapshotLoads(log, head) /\ Chosen' = head
  BY <1>1, <1>2 DEF DInv, MapInv, SnapshotLoads, Chosen
<1>5. ExactHeld'
  BY <1>2, <1>3 DEF ExactHeld
<1>6. QED  BY <1>2, <1>4, <1>5 DEF XInv, ExactOpen, ExactCopy, Opening, SnapHolds

\* A cut at the record-area end leaves the file exact.
LEMMA CutExact ==
  ASSUME IInv, IInv', SInv, DInv, XInv, TrimTailSnapshot \/ OpenTruncate
  PROVE  XInv'
<1>1. /\ log \in Seq(Cells) /\ log' \in Seq(Cells) /\ synced \in Nat /\ synced <= Len(log)
      /\ nextOffset \in Nat /\ head \in Headers /\ HeaderOK(head)
  BY DEF IInv, FileTypeOK, EngineTypeOK, HeadersOK
<1>2. /\ synced' = Len(log') /\ head' = head /\ nextOffset' = nextOffset /\ copy' = copy /\ acked' = acked
      /\ (pc = "trim" /\ pc' = "nullhdr") \/ (pc = "opentrunc" /\ pc' = "openhdr")
  BY DEF TrimTailSnapshot, OpenTruncate, TruncateTail, Flush, host
<1>3. /\ Extends(log', log) /\ Len(log') = nextOffset - 1 /\ Len(log') \in Nat
      /\ \A k \in Key : Stored(k)' = Stored(k)
  BY CutAnswers
<1>4. nextOffset <= Len(log') + 1
  BY <1>1, <1>3
<1>5. ASSUME NEW k \in Key, NEW v, Based(log, synced, nextOffset, k, v, {})
      PROVE  Based(log', Len(log'), nextOffset, k, v, {})
  BY <1>1, <1>3, <1>4, <1>5, BasedUnder
<1>6. ExactHeld'
  <2>1. pc = "trim" => \A k \in Key : Based(log, synced, nextOffset, k, acked[k], {})
    BY DEF XInv, ExactHeld, Running, Opening
  <2>2. QED  BY <1>2, <1>5, <2>1 DEF ExactHeld, Running, Opening
<1>7. ExactOpen'
  <2>1. pc = "opentrunc" => \A k \in Key : Based(log, synced, nextOffset, k, Stored(k), {})
    BY DEF XInv, ExactOpen, Opening
  <2>2. QED  BY <1>2, <1>3, <1>5, <2>1 DEF ExactOpen, Opening
<1>8. SnapHolds(log', Len(log'), head, acked, NoDoubt)
  <2>1. /\ SnapHolds(log, synced, head, acked, NoDoubt) /\ LastFrames(log, head) /\ BlobsIn(log, synced)
    BY <1>2 DEF XInv, DInv, HeldInv, SInv, Chosen
  <2>2. QED  BY <1>1, <1>3, <2>1, HoldsUnder
<1>9. Chosen' = head /\ ExactCopy'
  BY <1>2 DEF Chosen, XInv, ExactCopy
<1>10. QED  BY <1>2, <1>6, <1>7, <1>8, <1>9 DEF XInv

\* The header that has been written names no snapshot or that of an exact file.
LEMMA NewExact ==
  ASSUME IInv, SInv, AnswerInv, DInv, XInv, pc \in {"nullsync", "ckptsync"}
  PROVE  SnapHolds(log, synced, hdr[1 - act], acked, NoDoubt)
<1>1. SnapHolds(log, synced, hdr[1 - act], acked, limbo)
  BY NewHolds
<1>2. ASSUME SnapshotLoads(log, hdr[1 - act])
      PROVE  AllBased(log, synced, hdr[1 - act].recEnd, acked, NoDoubt)
  <2>1. pc = "ckptsync"
    <3>1. pc = "nullsync" => hdr[1 - act].snap = 0
      BY DEF SInv, NameInv
    <3>2. 0 \notin 1..Len(log)
      BY DEF IInv, FileTypeOK
    <3>3. QED  BY <1>2, <3>1, <3>2 DEF SnapshotLoads
  <2>2. hdr[1 - act].recEnd = nextOffset
    BY <2>1 DEF SInv, NameInv
  <2>3. \A k \in Key : Based(log, synced, nextOffset, k, acked[k], {})
    BY <2>1 DEF XInv, ExactHeld, Running, Opening
  <2>4. QED  BY <2>2, <2>3 DEF AllBased, NoDoubt
<1>3. QED  BY <1>1, <1>2 DEF SnapHolds

\* switchHeader puts such a header in use and the file stays exact.
LEMMA SwitchExact ==
  ASSUME IInv, IInv', SInv, AnswerInv, DInv, XInv, SwitchNullHeader \/ SwitchCheckpointHeader
  PROVE  XInv'
<1>1. /\ log \in Seq(Cells) /\ synced \in Nat /\ synced <= Len(log) /\ Len(log) \in Nat
      /\ nextOffset \in Nat /\ hdr[1 - act] \in Headers
  BY DEF IInv, EngineTypeOK, FileTypeOK, Slots
<1>2. /\ pc \in {"nullsync", "ckptsync"} /\ pc' \in {"append", "idle", "shutdown"}
      /\ log' = log /\ synced' = Len(log) /\ head' = hdr[1 - act] /\ nextOffset' = nextOffset
      /\ copy' = copy /\ acked' = acked
  BY DEF SwitchNullHeader, SwitchCheckpointHeader, Flush, Return, host
<1>3. PICK h \in Headers : h = hdr[1 - act]
  BY <1>1
<1>4. LastFrames(log, h) /\ SnapHolds(log, synced, h, acked, NoDoubt) /\ Named(log, h)
      /\ BlobsIn(log, synced)
  BY <1>2, <1>3, NewHolds, NewExact, WrittenNames DEF SInv
<1>5. Extends(log, log) /\ \A i \in (Len(log) + 1)..Len(log) : FALSE
  BY <1>1 DEF Extends
<1>6. \A k \in Key : NoDoubt[k] \subseteq NoDoubt[k]
  OBVIOUS
<1>7. SnapHolds(log, Len(log), h, acked, NoDoubt)
  BY <1>1, <1>4, <1>5, <1>6, HoldsOver
<1>8. ASSUME NEW k \in Key  PROVE Based(log, Len(log), nextOffset, k, acked[k], {})
  <2>1. Based(log, synced, nextOffset, k, acked[k], {})
    BY <1>2 DEF XInv, ExactHeld, Running, Opening
  <2>2. nextOffset <= nextOffset /\ {} \subseteq {}
    BY <1>1
  <2>3. QED  BY <1>1, <2>1, <2>2, BasedMore
<1>9. Chosen' = h /\ ExactCopy' /\ ExactHeld' /\ ExactOpen'
  BY <1>2, <1>3, <1>8 DEF Chosen, XInv, ExactCopy, ExactHeld, ExactOpen, Opening
<1>10. QED  BY <1>2, <1>7, <1>9 DEF XInv

\* An engine that lets go of the file, or is made to, leaves a snapshot that is exact.
LEMMA LetGoExact ==
  ASSUME IInv, IInv', SInv, AnswerInv, DInv, XInv,
         ShutdownHandles \/ OpenTruncateFails \/ (Crash /\ hdr[act] = dhdr[act])
  PROVE  XInv'
<1>1. /\ log \in Seq(Cells) /\ log' \in Seq(Cells) /\ synced \in Nat /\ synced <= Len(log)
      /\ Len(log) \in Nat /\ nextOffset \in 1..(Len(log) + 1)
      /\ head \in Headers /\ HeaderOK(head) /\ hdr[1 - act] \in Headers /\ HeaderOK(hdr[1 - act])
  BY DEF IInv, FileTypeOK, EngineTypeOK, HeadersOK, TruncationPointInFile, Slots
<1>2. /\ pc' = "down" /\ copy' = copy /\ acked' = acked
  BY DEF ShutdownHandles, OpenTruncateFails, Crash, Forget, host
<1>3. /\ pc # "down"
      /\ \/ hdr'[ActiveSlot(hdr')] = head
         \/ pc \in {"nullsync", "ckptsync"} /\ hdr'[ActiveSlot(hdr')] = hdr[1 - act]
  <2>1. CASE ShutdownHandles \/ OpenTruncateFails
    <3>1. pc \in {"shutdown", "opentrunc"} /\ hdr' = hdr
      BY <2>1 DEF ShutdownHandles, OpenTruncateFails
    <3>2. QED  BY <3>1, ActiveHead
  <2>2. CASE Crash /\ hdr[act] = dhdr[act]
    BY <2>2, CrashSelects
  <2>3. QED  BY <2>1, <2>2
<1>4. Extends(log', log) \/ Survives(log, log', synced)
  <2>1. CASE ShutdownHandles
    BY <1>1, <2>1 DEF ShutdownHandles, Extends
  <2>2. CASE OpenTruncateFails
    <3>1. log' = log \/ log' = SubSeq(log, 1, nextOffset - 1)
      BY <2>2 DEF OpenTruncateFails
    <3>2. Extends(log, log)
      BY <1>1 DEF Extends
    <3>3. QED  BY <1>1, <3>1, <3>2, TruncatedExtends
  <2>3. CASE Crash
    BY <2>3, CrashSurvives
  <2>4. QED  BY <2>1, <2>2, <2>3
<1>5. synced' = Len(log')
  <2>1. SInv'
    BY CrashSound, LetGoSteps
  <2>2. QED  BY <1>2, <2>1 DEF SInv, FlushInv
<1>6. PICK h \in Headers : /\ h = hdr'[ActiveSlot(hdr')] /\ HeaderOK(h)
                           /\ LastFrames(log, h) /\ SnapHolds(log, synced, h, acked, NoDoubt)
  <2>1. LastFrames(log, head) /\ SnapHolds(log, synced, head, acked, NoDoubt)
    BY <1>3 DEF DInv, HeldInv, XInv, Chosen
  <2>2. pc \in {"nullsync", "ckptsync"} =>
          LastFrames(log, hdr[1 - act]) /\ SnapHolds(log, synced, hdr[1 - act], acked, NoDoubt)
    BY NewHolds, NewExact
  <2>3. QED  BY <1>1, <1>3, <2>1, <2>2
<1>7. SnapHolds(log', Len(log'), h, acked, NoDoubt)
  BY <1>1, <1>4, <1>6, HoldsUnder DEF SInv
<1>8. Chosen' = h /\ ExactCopy' /\ ExactHeld' /\ ExactOpen'
  BY <1>2, <1>6 DEF Chosen, XInv, ExactCopy, ExactHeld, ExactOpen, Running, Opening
<1>9. QED  BY <1>2, <1>5, <1>7, <1>8 DEF XInv

\* The copy in place of the file is exact.
LEMMA SwapInCopyExact ==
  ASSUME IInv, IInv', SInv, DInv, XInv, SwapInCopy
  PROVE  XInv'
<1>1. /\ log' = copy /\ synced' = Len(log') /\ copy' = <<>> /\ copy # <<>> /\ pc' = "down"
      /\ acked' = acked
      /\ hdr' = [hdr EXCEPT ![0] = NewHeader,
                            ![1] = [commit |-> 1, snap |-> Len(copy), len |-> Len(copy),
                                    recEnd |-> Len(copy)]]
  BY DEF SwapInCopy, Flush, host
<1>2. hdr'[ActiveSlot(hdr')].snap = Len(copy) /\ hdr'[ActiveSlot(hdr')].recEnd = Len(copy)
  <2>1. hdr \in [Slots -> Headers]
    BY DEF IInv, FileTypeOK
  <2>2. /\ hdr'[0] = NewHeader
        /\ hdr'[1] = [commit |-> 1, snap |-> Len(copy), len |-> Len(copy), recEnd |-> Len(copy)]
    BY <1>1, <2>1 DEF Slots
  <2>3. hdr'[0].commit = 0 /\ hdr'[1].commit = 1 /\ hdr'[1].snap = Len(copy) /\ hdr'[1].recEnd = Len(copy)
    BY <2>2 DEF NewHeader
  <2>4. ActiveSlot(hdr') = 1
    BY <2>3 DEF ActiveSlot
  <2>5. QED  BY <2>3, <2>4
<1>3. PICK h : h = hdr'[ActiveSlot(hdr')]
  OBVIOUS
<1>4. SnapHolds(copy, Len(copy), h, acked, NoDoubt)
  BY <1>1, <1>2, <1>3 DEF DInv, CopyInv, XInv, ExactCopy, SnapHolds
<1>5. Chosen' = h /\ ExactCopy' /\ ExactHeld' /\ ExactOpen'
  BY <1>1, <1>3 DEF Chosen, ExactCopy, ExactHeld, ExactOpen, Running, Opening
<1>6. QED  BY <1>1, <1>4, <1>5 DEF XInv

\* What Open recovers is exact: a scan takes the last frame of each key, and a
\* snapshot that loads is of an exact file.
LEMMA OpenExact ==
  ASSUME IInv, IInv', SInv, DInv, XInv, Open
  PROVE  XInv'
<1>1. PICK h : h = hdr[ActiveSlot(hdr)]
  OBVIOUS
<1>2. /\ head' = h /\ index' = RecoveredIndex(log, h) /\ nextOffset' = RecoveredNextOffset(log, h)
      /\ log' = log /\ synced' = synced /\ copy' = copy /\ acked' = acked /\ pc = "down"
      /\ pc' \in {"opentrunc", "openhdr"}
  BY <1>1 DEF Open, file, host
<1>3. h \in Headers /\ HeaderOK(h) /\ log \in Seq(Cells) /\ Len(log) \in Nat /\ nextOffset' \in Nat
  BY <1>1 DEF ActiveSlot, Slots, IInv, FileTypeOK, EngineTypeOK, HeadersOK
<1>4. synced = Len(log)
  BY <1>2 DEF SInv, FlushInv
<1>5. /\ AllBased(log, Len(log), Len(log) + 1, acked, limbo) /\ NoZero(log)
      /\ LastFrames(log, h) /\ SnapHolds(log, Len(log), h, acked, limbo)
      /\ SnapHolds(log, Len(log), h, acked, NoDoubt)
  BY <1>1, <1>2, <1>4 DEF DInv, PlainInv, HeldInv, XInv, Chosen, AreaEnd
<1>6. ASSUME NEW k \in Key  PROVE Based(log, Len(log), nextOffset', k, Stored(k)', {})
  <2>1. PICK v : v = ValueAt(log, index'[k]) /\ Stored(k)' = v
    BY <1>2 DEF Stored, ValueAt
  <2>2. /\ SnapshotLoads(log, h) => v = acked[k]
        /\ ~SnapshotLoads(log, h) => Based(log, Len(log), nextOffset', k, v, {})
    BY <1>2, <1>3, <1>5, <2>1, RecoveredHolds
  <2>3. CASE SnapshotLoads(log, h)
    <3>1. Based(log, Len(log), h.recEnd, k, acked[k], {})
      BY <1>5, <2>3 DEF SnapHolds, AllBased, NoDoubt
    <3>2. h.recEnd \in Nat /\ h.snap \in Nat /\ h.recEnd <= h.snap
      BY <1>3, <2>3 DEF HeaderOK, SnapshotLoads, Headers
    <3>3. nextOffset' \in {h.snap + 1, h.recEnd}
      BY <1>2, <1>3, <1>5, <2>3, SnapshotRecovered
    <3>4. h.recEnd <= nextOffset' /\ Len(log) <= Len(log) /\ {} \subseteq {}
      BY <1>3, <3>2, <3>3
    <3>5. Based(log, Len(log), nextOffset', k, acked[k], {})
      BY <1>3, <3>1, <3>2, <3>4, BasedMore
    <3>6. QED  BY <2>1, <2>2, <2>3, <3>5
  <2>4. CASE ~SnapshotLoads(log, h)
    BY <2>1, <2>2, <2>4
  <2>5. QED  BY <2>3, <2>4
<1>7. ExactOpen'
  BY <1>2, <1>4, <1>6 DEF ExactOpen
<1>8. Chosen' = h /\ ExactCopy' /\ ExactHeld'
  BY <1>2 DEF Chosen, XInv, ExactCopy, ExactHeld, Running, Opening
<1>9. QED  BY <1>2, <1>4, <1>5, <1>7, <1>8 DEF XInv

\* The rest of Open: the header loses its snapshot, the engine is handed over.
LEMMA OpenedExact ==
  ASSUME IInv, IInv', SInv, DInv, XInv, ClearActiveSnapshot \/ OpenDone
  PROVE  XInv'
<1>1. CASE ClearActiveSnapshot
  <2>1. /\ pc = "openhdr" /\ pc' = "openhdr" /\ log' = log /\ synced' = synced /\ index' = index
        /\ nextOffset' = nextOffset /\ copy' = copy /\ acked' = acked
    BY <1>1 DEF ClearActiveSnapshot, host
  <2>2. head'.snap = 0
    <3>1. head' = [head EXCEPT !.snap = 0, !.len = 0] /\ head \in Headers
      BY <1>1 DEF ClearActiveSnapshot, IInv, EngineTypeOK
    <3>2. QED  BY <3>1 DEF Headers
  <2>3. ~SnapshotLoads(log, head') /\ Chosen' = head'
    <3>1. 0 \notin 1..Len(log)
      BY DEF IInv, FileTypeOK
    <3>2. QED  BY <2>1, <2>2, <3>1 DEF SnapshotLoads, Chosen
  <2>4. \A k \in Key : Stored(k)' = Stored(k)
    BY <2>1 DEF Stored
  <2>5. ExactOpen' /\ ExactHeld' /\ ExactCopy'
    BY <2>1, <2>4 DEF XInv, ExactOpen, ExactHeld, ExactCopy, Opening, Running
  <2>6. QED  BY <2>1, <2>3, <2>5 DEF XInv, SnapHolds
<1>2. CASE OpenDone
  <2>1. /\ pc = "openhdr" /\ pc' = "idle" /\ log' = log /\ synced' = synced
        /\ head' = head /\ nextOffset' = nextOffset /\ copy' = <<>>
        /\ acked' = [k \in Key |-> Stored(k)]
    BY <1>2 DEF OpenDone, file
  <2>2. \A k \in Key : Based(log, synced, nextOffset, k, Stored(k), {})
    BY <2>1 DEF XInv, ExactOpen, Opening
  <2>3. ExactHeld' /\ ExactOpen' /\ ExactCopy'
    BY <2>1, <2>2 DEF ExactHeld, ExactOpen, ExactCopy, Opening
  <2>4. ASSUME SnapshotLoads(log, head)
        PROVE  /\ Answering(log, log[head.snap].idx, acked')
               /\ AllBased(log, synced, head.recEnd, acked', NoDoubt)
    <3>1. \A k \in Key : acked'[k] = acked[k]
      BY <2>1, <2>4 DEF DInv, OpenInv, Opening
    <3>2. /\ Answering(log, log[head.snap].idx, acked)
          /\ AllBased(log, synced, head.recEnd, acked, NoDoubt)
      BY <2>1, <2>4 DEF XInv, SnapHolds, Chosen
    <3>3. QED  BY <3>1, <3>2 DEF Answering, AllBased
  <2>5. QED  BY <2>1, <2>3, <2>4 DEF XInv, SnapHolds, Chosen
<1>3. QED  BY <1>1, <1>2
-----------------------------------------------------------------------------
\* Neither a flush of a batch nor the undo of one fails.
ScanOK == DurableOK /\ "sync" \notin Faults /\ "undo" \notin Faults

\* A freshly created file is exact.
LEMMA InitExact == Init => XInv
<1> SUFFICES ASSUME Init PROVE XInv
  OBVIOUS
<1>1. /\ log = <<>> /\ copy = <<>> /\ synced = 0 /\ head = NewHeader /\ nextOffset = 1 /\ pc = "idle"
      /\ acked = [k \in Key |-> None]
  BY DEF Init
<1>2. Len(log) = 0 /\ head.snap = 0 /\ Chosen = head
  BY <1>1 DEF NewHeader, Chosen
<1>3. ASSUME NEW k \in Key  PROVE Based(log, synced, nextOffset, k, acked[k], {})
  <2>1. \A i \in (0 + 1)..Len(log) : FALSE
    BY <1>2
  <2>2. 0 \in 0..synced /\ 0 < nextOffset /\ acked[k] = None
    BY <1>1
  <2>3. QED  BY <2>1, <2>2 DEF Based
<1>4. 0 \notin 1..Len(log)
  BY <1>2
<1>5. QED  BY <1>1, <1>2, <1>3, <1>4 DEF XInv, ExactHeld, ExactOpen, ExactCopy, Opening, SnapHolds,
           SnapshotLoads

\* Every step keeps the file exact.
LEMMA StepExact ==
  ASSUME ScanOK, IInv, IInv', SInv, AnswerInv, DInv, XInv, [Next]_vars,
         [Crash => hdr[act] = dhdr[act]]_vars
  PROVE  XInv'
<1>1. /\ \A c \in HeaderCalls : c \notin Faults
      /\ "ckpthdr" \notin Faults /\ "sync" \notin Faults /\ "undo" \notin Faults
  BY DEF ScanOK, DurableOK, HeaderCallsOK
<1> USE DEF HeaderCalls
<1>2. ASSUME Steady  PROVE XInv'
  BY <1>2, SteadyKeeps
<1>3. CASE Writer
  <2>1. ASSUME NEW recs \in Batches(Key \X Payload), WriteRecordBatch(recs)  PROVE Steady
    <3>1. \E frames \in Seq(Frames) : StartAppend(frames)
      BY <2>1, RequestsAreFrames DEF WriteRecordBatch
    <3>2. QED  BY <3>1, SteadySteps
  <2>2. ASSUME NEW ks \in Batches(Key), DeleteRecordBatch(ks)  PROVE Steady
    <3>1. \E frames \in Seq(Frames) : StartAppend(frames)
      BY <2>2, RequestsAreFrames DEF DeleteRecordBatch
    <3>2. QED  BY <3>1, SteadySteps
  <2>3. CASE WriteNullSnapshotHeader \/ AppendFails
    BY <1>2, <2>3, SteadySteps
  <2>4. CASE \/ TrimFails \/ WriteInactiveHeaderFails("nullhdr") \/ HeaderSyncFails
             \/ UndoAppendFails \/ SyncFails
    BY <1>1, <2>4 DEF TrimFails, WriteInactiveHeaderFails, HeaderSyncFails, UndoAppendFails, SyncFails, Fails
  <2>5. CASE TrimTailSnapshot
    BY <2>5, CutExact
  <2>6. CASE SwitchNullHeader
    BY <2>6, SwitchExact
  <2>7. CASE AppendFrames
    BY <2>7, AppendFramesExact
  <2>8. CASE SyncAndIndex
    BY <2>8, SyncAndIndexExact
  <2>9. QED  BY <1>2, <1>3, <2>1, <2>2, <2>3, <2>4, <2>5, <2>6, <2>7, <2>8 DEF Writer
<1>4. CASE Checkpointer
  <2>1. CASE \/ Checkpoint \/ Close
             \/ \E kind \in {"checkpoint", "close"} : AppendSnapshotFails(kind)
    <3>1. \E kind \in {"checkpoint", "close"} : AppendSnapshot(kind) \/ AppendSnapshotFails(kind)
      BY <2>1 DEF Checkpoint, Close
    <3>2. QED  BY <1>2, <3>1, SteadySteps
  <2>2. CASE SyncSnapshot \/ SyncSnapshotFails \/ WriteCheckpointHeader
    BY <1>2, <2>2, SteadySteps
  <2>3. CASE SwitchRemapFails \/ WriteInactiveHeaderFails("ckpthdr") \/ ShutdownSyncFails
    BY <1>1, <2>3 DEF SwitchRemapFails, WriteInactiveHeaderFails, ShutdownSyncFails, Fails
  <2>4. CASE SwitchCheckpointHeader
    BY <2>4, SwitchExact
  <2>5. CASE ShutdownHandles
    BY <2>5, LetGoExact
  <2>6. QED  BY <1>4, <2>1, <2>2, <2>3, <2>4, <2>5 DEF Checkpointer
<1>5. CASE Opener
  <2>1. CASE Open
    BY <2>1, OpenExact
  <2>2. CASE OpenTruncate
    BY <2>2, CutExact
  <2>3. CASE OpenTruncateFails
    BY <2>3, LetGoExact
  <2>4. CASE ClearActiveSnapshot \/ OpenDone
    BY <2>4, OpenedExact
  <2>5. CASE ClearActiveSnapshotFails
    BY <1>1, <2>5 DEF ClearActiveSnapshotFails, Fails
  <2>6. QED  BY <1>5, <2>1, <2>2, <2>3, <2>4, <2>5 DEF Opener
<1>6. CASE Compact
  BY <1>2, <1>6, SteadySteps
<1>7. CASE SwapInCopy
  BY <1>7, SwapInCopyExact
<1>8. CASE Crash /\ vars' # vars
  <2>1. hdr[act] = dhdr[act]
    BY <1>8
  <2>2. QED  BY <1>8, <2>1, LetGoExact
<1>9. CASE UNCHANGED vars
  <2>1. /\ log' = log /\ synced' = synced /\ hdr' = hdr /\ head' = head /\ index' = index
        /\ nextOffset' = nextOffset /\ pc' = pc /\ op' = op /\ copy' = copy /\ acked' = acked
    BY <1>9 DEF vars, file, mem, host
  <2>2. QED  BY <2>1 DEF XInv, ExactHeld, ExactOpen, ExactCopy, Chosen, Opening, Running, Stored, InBatch
<1>10. QED  BY <1>3, <1>4, <1>5, <1>6, <1>7, <1>8, <1>9 DEF Next

\* The file of an engine that runs is exact, and so is the snapshot a restart
\* would load.
THEOREM ExactInvariance ==
  ASSUME ScanOK
  PROVE  Spec /\ ClearReachesDisk => []XInv
<1>1. DurableOK /\ HeaderCallsOK
  BY DEF ScanOK, DurableOK
<1>2. XInv /\ IInv /\ IInv' /\ SInv /\ AnswerInv /\ DInv /\ [Next]_vars
        /\ [Crash => hdr[act] = dhdr[act]]_vars => XInv'
  BY StepExact
<1>3. Spec /\ ClearReachesDisk => []SInv
  BY <1>1, SoundInvariance
<1>4. Spec /\ ClearReachesDisk => []AnswerInv
  BY <1>1, AnswerInvariance
<1>5. Spec /\ ClearReachesDisk => []DInv
  BY <1>1, DurableInvariance
<1>6. QED  BY InitExact, Invariance, <1>2, <1>3, <1>4, <1>5, PTL DEF Spec, ClearReachesDisk

\* Between operations the snapshot and a scan of the whole file give the same
\* answers, unless a batch reported as failed was left in the log.
THEOREM SnapshotMatchesScan ==
  ASSUME ScanOK
  PROVE  Spec /\ ClearReachesDisk => []SnapshotAgreesWithScan
<1>1. IInv /\ AnswerInv /\ XInv => SnapshotAgreesWithScan
  <2> SUFFICES ASSUME IInv, AnswerInv, XInv, Idle, NEW k \in Key
               PROVE  LET scan == Replay(log, NoIndex, 1, Len(log) + 1)
                      IN  Stored(k) = IF scan[k] = 0 THEN None ELSE log[scan[k]].val
    BY DEF SnapshotAgreesWithScan
  <2> DEFINE F == FramesOf(log, k, 1, Len(log) + 1)
             scan == Replay(log, NoIndex, 1, Len(log) + 1)
  <2>1. /\ log \in Seq(Cells) /\ Len(log) \in Nat /\ synced \in Nat /\ synced <= Len(log)
        /\ nextOffset \in Nat
    BY DEF IInv, FileTypeOK, EngineTypeOK
  <2>2. Stored(k) = acked[k] /\ Based(log, synced, nextOffset, k, acked[k], {})
    BY DEF Idle, AnswerInv, Answering, ValueAt, Stored, XInv, ExactHeld, Running, Opening
  <2>3. PICK w : w = IF F = {} THEN None ELSE log[Last(F)].val
    OBVIOUS
  <2>4. /\ Len(log) + 1 \in 1..(Len(log) + 1)
        /\ \A i \in (Len(log) + 1)..Len(log) : ~IsFrame(log[i])
    BY <2>1
  <2>5. w \in {} \cup {acked[k]}
    BY <2>1, <2>2, <2>3, <2>4, LastFrameHolds
  <2>6. scan[k] = IF F = {} THEN 0 ELSE IF log[Last(F)].val = None THEN 0 ELSE Last(F)
    BY DEF Replay, NoIndex
  <2>7. F # {} => Last(F) # 0
    <3>1. F \in SUBSET (0..Len(log)) /\ 0 \notin F
      BY <2>1 DEF FramesOf
    <3>2. QED  BY <2>1, <3>1, LastIsMember
  <2> HIDE DEF F, scan
  <2>8. w = IF scan[k] = 0 THEN None ELSE log[scan[k]].val
    BY <2>3, <2>6, <2>7
  <2>9. QED  BY <2>2, <2>5, <2>8 DEF scan
<1>2. DurableOK /\ HeaderCallsOK
  BY DEF ScanOK, DurableOK
<1>3. Spec /\ ClearReachesDisk => []AnswerInv
  BY <1>2, AnswerInvariance
<1>4. QED  BY Invariance, ExactInvariance, <1>1, <1>3, PTL
=============================================================================
