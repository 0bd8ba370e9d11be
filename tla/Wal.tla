-------------------------------- MODULE Wal --------------------------------
(***************************************************************************)
(* The write-ahead log of xerv-core (xerv-core/src/wal/writer): segment    *)
(* files wal_<sequence>.log, a BufWriter in front of the current one, the  *)
(* three sync strategies, rotation, purging, and what a crash leaves.      *)
(*                                                                         *)
(* Wal::write, sync, flush and rotate_locked run under one mutex, so each  *)
(* is one action.  purge_old_segments drops the mutex between reading the  *)
(* current sequence number and deleting files, so it is two.               *)
(*                                                                         *)
(* A record is its position in the order of writes, the segment it was     *)
(* written to and the byte offset at which it ends there: all that         *)
(* rotation, reopening and replay depend on.                               *)
(***************************************************************************)
EXTENDS Naturals, FiniteSets

CONSTANTS
  MaxRecords,    \* bound: number of records the writers offer
  MaxRestarts,   \* bound: number of crashes and shutdowns
  MaxFileSize,   \* WalConfig::max_file_size
  ReopenSize,    \* the 32 MiB literal of find_or_create_wal_file
  RecordSizes,   \* lengths a serialized record may have
  SyncOnWrite,   \* WalConfig::sync_on_write
  GroupCommit,   \* WalConfig::group_commit.is_some()
  MaxBatchSize,  \* GroupCommitConfig::max_batch_size
  KeepCounts,    \* arguments of purge_old_segments
  RotateErrors   \* where rotate_locked may fail once flushed: "open", "lock"

ASSUME WalConfigAssumption ==
  /\ MaxRecords \in Nat /\ MaxRestarts \in Nat
  /\ MaxFileSize \in Nat /\ ReopenSize \in Nat
  /\ RecordSizes \subseteq Nat \ {0}
  /\ SyncOnWrite \in BOOLEAN /\ GroupCommit \in BOOLEAN
  /\ MaxBatchSize \in Nat
  /\ KeepCounts \subseteq Nat
  /\ RotateErrors \subseteq {"open", "lock"}

VARIABLES
  segs,      \* segment files in the directory, by sequence number
  written,   \* records the operating system holds in those files
  synced,    \* records among them that sync_data has made durable
  torn,      \* segments that hold a partly written record
  buf,       \* BufWriter: records not yet handed to the operating system
  current,   \* segment the open handle writes to
  sequence,  \* WalInner::sequence
  file_size, \* WalInner::file_size
  pending,   \* GroupCommitState::pending_writes
  up,        \* the process that owns the log is running
  purging,   \* what a purge has read and not yet acted on: {} or {sequence}
  offered,   \* number of records the writers have offered
  restarts,  \* number of crashes and shutdowns so far
  acked,     \* history: records for which write returned Ok
  purged     \* history: records whose segment was deleted

vars == <<segs, written, synced, torn, buf, current, sequence, file_size,
          pending, up, purging, offered, restarts, acked, purged>>

Record == [id : Nat, seg : Nat, end : Nat]
In(rs, s) == {r \in rs : r.seg = s}

TypeOK ==
  /\ segs \subseteq Nat /\ torn \subseteq segs
  /\ written \subseteq Record /\ synced \subseteq written /\ buf \subseteq Record
  /\ current \in Nat /\ sequence \in Nat /\ file_size \in Nat
  /\ pending \in Nat /\ up \in BOOLEAN
  /\ purging \subseteq Nat
  /\ offered \in Nat /\ restarts \in Nat
  /\ acked \subseteq Record /\ purged \subseteq Record

\* An empty directory, before Wal::open.
Init ==
  /\ segs = {} /\ written = {} /\ synced = {} /\ torn = {} /\ buf = {}
  /\ current = 0 /\ sequence = 0 /\ file_size = 0 /\ pending = 0
  /\ up = FALSE /\ purging = {} /\ offered = 0 /\ restarts = 0
  /\ acked = {} /\ purged = {}

-----------------------------------------------------------------------------
(* The writer's view during one call: what rotation and write_all have made *)
(* of the files and of the buffer, before any sync.                         *)
Unrotated ==
  [segs |-> segs, written |-> written, buf |-> buf, current |-> current,
   sequence |-> sequence, size |-> file_size]

\* BufWriter::flush.  Records for a segment that was unlinked reach no file.
Flushed(w) ==
  [w EXCEPT !.written = w.written \cup {r \in w.buf : r.seg \in w.segs},
            !.buf = {}]

\* rotate_locked: the old segment is flushed, not synced, and left behind.
Rotated ==
  [segs |-> segs \cup {sequence + 1}, written |-> Flushed(Unrotated).written,
   buf |-> {}, current |-> sequence + 1, sequence |-> sequence + 1, size |-> 0]

MustRotate(len) == file_size + len > MaxFileSize

Prepared(len) == IF MustRotate(len) THEN Rotated ELSE Unrotated

NewRecord(w, len) == [id |-> offered + 1, seg |-> w.current, end |-> w.size + len]

Spills == {"none", "old", "all"}

(* BufWriter::write_all: the record is buffered, or what was buffered goes  *)
(* to the operating system first, or the record goes there as well.         *)
Buffered(w, len, spill) ==
  LET r == NewRecord(w, len)
      b == [(IF spill = "none" THEN w ELSE Flushed(w)) EXCEPT
              !.buf = @ \cup {r}, !.size = w.size + len]
  IN IF spill = "all" THEN Flushed(b) ELSE b

\* What a call leaves in memory and in the files, synced or not.
Installed(w) ==
  /\ segs' = w.segs /\ written' = w.written /\ buf' = w.buf
  /\ current' = w.current /\ sequence' = w.sequence /\ file_size' = w.size

\* Mutant: sync_data is called before the BufWriter is flushed.
SyncFileUnflushed(w) ==
  Installed(w) /\ synced' = synced \cup In(w.written \cup w.buf, w.current)
\* Mutant: the BufWriter is flushed and sync_data is left out.
SyncFileUnsynced(w) == Installed(Flushed(w)) /\ UNCHANGED synced
\* Wal::sync_file: BufWriter::flush, then sync_data on the open segment only.
SyncFile(w) ==
  /\ Installed(Flushed(w))
  /\ synced' = synced \cup In(Flushed(w).written, w.current)

NoSync(w) == Installed(w) /\ UNCHANGED synced

(* GroupCommitState::should_sync after record_write; elapsed tells whether  *)
(* max_delay_ms has passed since the last sync.                             *)
ShouldSync(elapsed) == pending + 1 >= MaxBatchSize \/ elapsed

\* The sync strategy Wal::write applies once the record is in the BufWriter.
SyncStrategy(w, elapsed) ==
  \/ SyncOnWrite /\ SyncFile(w) /\ UNCHANGED pending
  \/ /\ ~SyncOnWrite /\ GroupCommit /\ ShouldSync(elapsed)
     /\ SyncFile(w) /\ pending' = 0
  \/ /\ ~SyncOnWrite /\ GroupCommit /\ ~ShouldSync(elapsed)
     /\ NoSync(w) /\ pending' = pending + 1
  \/ ~SyncOnWrite /\ ~GroupCommit /\ NoSync(w) /\ UNCHANGED pending

\* Wal::write returning Ok.
Write(len, spill, elapsed) ==
  /\ up /\ offered < MaxRecords
  /\ SyncStrategy(Buffered(Prepared(len), len, spill), elapsed)
  /\ acked' = acked \cup {NewRecord(Prepared(len), len)}
  /\ offered' = offered + 1
  /\ UNCHANGED <<torn, up, purging, restarts, purged>>

-----------------------------------------------------------------------------
(* Wal::write returning Err.                                                *)

WriteFailed ==
  /\ up /\ offered < MaxRecords
  /\ offered' = offered + 1
  /\ UNCHANGED <<torn, up, purging, restarts, acked, purged>>

(* rotate_locked fails after its flush: sequence is already incremented,    *)
(* the handle and file_size are the old ones, and when only the lock failed *)
(* the new segment exists.                                                  *)
WriteFailsInRotate(len, step) ==
  /\ WriteFailed
  /\ MustRotate(len)
  /\ NoSync([Flushed(Unrotated) EXCEPT
               !.sequence = sequence + 1,
               !.segs = IF step = "lock" THEN @ \cup {sequence + 1} ELSE @])
  /\ UNCHANGED pending

(* The flush of a rotation fails, or write_all fails to make room in the    *)
(* BufWriter; the record is nowhere.                                        *)
WriteFailsInBuffer(len) ==
  /\ WriteFailed
  /\ NoSync(Unrotated) \/ NoSync(Prepared(len))
  /\ UNCHANGED pending

\* Mutant: the counter is reset before the sync it waits for.
WriteFailsInSyncReset(len, spill, elapsed) ==
  /\ WriteFailed
  /\ SyncOnWrite \/ (GroupCommit /\ ShouldSync(elapsed))
  /\ NoSync(Buffered(Prepared(len), len, spill))
  /\ pending' = 0

(* sync_file fails: the record stays in the BufWriter or with the operating *)
(* system, and in group commit mode it stays counted as pending.            *)
WriteFailsInSync(len, spill, elapsed) ==
  /\ WriteFailed
  /\ SyncOnWrite \/ (GroupCommit /\ ShouldSync(elapsed))
  /\ NoSync(Buffered(Prepared(len), len, spill))
  /\ pending' = IF SyncOnWrite THEN pending ELSE pending + 1

-----------------------------------------------------------------------------
\* Wal::sync: sync_file, then reset_after_sync.
Sync ==
  /\ up
  /\ SyncFile(Unrotated)
  /\ pending' = 0
  /\ UNCHANGED <<torn, up, purging, offered, restarts, acked, purged>>

\* Wal::flush: the same two file calls; the group commit counter stays.
Flush ==
  /\ up
  /\ SyncFile(Unrotated)
  /\ UNCHANGED <<torn, pending, up, purging, offered, restarts, acked, purged>>

\* Wal::sync or Wal::flush returning Err from sync_data.
SyncFails ==
  /\ up
  /\ NoSync(Flushed(Unrotated))
  /\ UNCHANGED <<torn, pending, up, purging, offered, restarts, acked, purged>>

\* purge_old_segments up to drop(inner).
PurgeRead ==
  /\ up /\ purging = {}
  /\ purging' = {sequence}
  /\ UNCHANGED <<segs, written, synced, torn, buf, current, sequence, file_size,
                 pending, up, offered, restarts, acked, purged>>

\* Mutant: a segment counts itself among the newer ones.
DoomedOffByOne(keep) ==
  {s \in segs : /\ Cardinality({x \in segs : x >= s}) >= keep
                /\ s \notin purging}

\* All but the keep newest segments, never the sequence number read before.
Doomed(keep) ==
  {s \in segs : /\ Cardinality({x \in segs : x > s}) >= keep
                /\ s \notin purging}

\* purge_old_segments from read_dir on.
PurgeDelete(keep) ==
  /\ up /\ purging # {}
  /\ segs' = segs \ Doomed(keep)
  /\ written' = {r \in written : r.seg \in segs'}
  /\ synced' = {r \in synced : r.seg \in segs'}
  /\ torn' = torn \cap segs'
  /\ purged' = purged \cup (written \ written')
  /\ purging' = {}
  /\ UNCHANGED <<buf, current, sequence, file_size, pending, up, offered,
                 restarts, acked>>

-----------------------------------------------------------------------------
Down ==
  /\ up /\ restarts < MaxRestarts
  /\ up' = FALSE /\ buf' = {} /\ purging' = {}
  /\ restarts' = restarts + 1
  /\ UNCHANGED <<segs, current, sequence, file_size, pending, offered, acked,
                 purged>>

\* The process dies: what the BufWriter holds is gone.
ProcessCrash == Down /\ UNCHANGED <<written, synced, torn>>

\* Drop for Wal: the BufWriter is flushed, not synced.
Shutdown ==
  /\ Down
  /\ written' = Flushed(Unrotated).written
  /\ UNCHANGED <<synced, torn>>

\* What may be left of a segment: everything durable, and a prefix.
Survives(kept) ==
  /\ synced \subseteq kept
  /\ \A r \in kept, q \in written : q.seg = r.seg /\ q.id < r.id => q \in kept

(* The machine dies: of each segment the durable part survives, possibly    *)
(* more, possibly followed by the beginning of the next record.             *)
PowerLoss ==
  /\ Down
  /\ \E kept \in SUBSET written :
       /\ Survives(kept)
       /\ written' = kept /\ synced' = kept
       /\ \E t \in SUBSET {r.seg : r \in written \ kept} : torn' = torn \cup t

\* File::metadata().len(): where the last record ends, and at least a byte
\* more when a torn one follows.
Ends(s) == {0} \cup {r.end : r \in In(written, s)}
SegmentLen(s, last) == last + (IF s \in torn THEN 1 ELSE 0)

\* Wal::open once find_or_create_wal_file has settled on segment s.
OpenAt(s, len) ==
  /\ ~up
  /\ segs' = segs \cup {s}
  /\ current' = s /\ sequence' = s /\ file_size' = len
  /\ buf' = {} /\ pending' = 0 /\ up' = TRUE
  /\ UNCHANGED <<written, synced, torn, purging, offered, restarts, acked, purged>>

\* Mutant: the first segment found is reopened.
OpenFirst ==
  \/ segs = {} /\ OpenAt(0, 0)
  \/ \E s \in segs : \E last \in Ends(s) :
       /\ \A e \in Ends(s) : e <= last
       /\ OpenAt(s, SegmentLen(s, last))

\* find_or_create_wal_file: the newest segment, or the one after it when that
\* one is large already.
Open ==
  \/ segs = {} /\ OpenAt(0, 0)
  \/ \E s \in segs : \E last \in Ends(s) :
       /\ \A x \in segs : x <= s
       /\ \A e \in Ends(s) : e <= last
       /\ IF SegmentLen(s, last) > ReopenSize
          THEN OpenAt(s + 1, 0)
          ELSE OpenAt(s, SegmentLen(s, last))

Next ==
  \/ \E len \in RecordSizes, spill \in Spills, elapsed \in BOOLEAN :
       Write(len, spill, elapsed)
  \/ \E len \in RecordSizes, spill \in Spills, elapsed \in BOOLEAN :
       WriteFailsInSync(len, spill, elapsed)
  \/ \E len \in RecordSizes : WriteFailsInBuffer(len)
  \/ \E len \in RecordSizes, step \in RotateErrors : WriteFailsInRotate(len, step)
  \/ Sync
  \/ Flush
  \/ SyncFails
  \/ PurgeRead
  \/ \E keep \in KeepCounts : PurgeDelete(keep)
  \/ ProcessCrash
  \/ Shutdown
  \/ PowerLoss
  \/ Open

Spec == Init /\ [][Next]_vars

-----------------------------------------------------------------------------
(***************************************************************************)
(* With sync_on_write, a record for which Wal::write returned Ok is on     *)
(* disk until purge_old_segments removes its segment: no rotation, purge,  *)
(* failed write or crash in between loses it.                              *)
(***************************************************************************)
AckedDurable == SyncOnWrite => acked \ purged \subseteq synced

(***************************************************************************)
(* WalReader::read_from visits the segments by sequence number; the        *)
(* records then come in the order in which Wal::write accepted them,       *)
(* whatever rotations, failed rotations and reopenings happened.           *)
(***************************************************************************)
ReplayInOrder == \A r, q \in written : r.seg < q.seg => r.id < q.id

(***************************************************************************)
(* purge_old_segments ("never delete current", wal.rs) leaves the file the *)
(* open handle appends to in the directory.                                *)
(***************************************************************************)
LiveSegmentKept == up => current \in segs

(***************************************************************************)
(* In group commit mode a zero GroupCommitState counter means that no      *)
(* acknowledged record is left in the BufWriter: the counter is reset only *)
(* after what it counts has been handed on.                                *)
(***************************************************************************)
ZeroPendingMeansFlushed ==
  ~SyncOnWrite /\ GroupCommit /\ pending = 0 => acked \cap buf = {}

(***************************************************************************)
(* Wal::sync ("useful when you need to ensure durability before            *)
(* proceeding", wal.rs) makes every acknowledged record of the open        *)
(* segment durable.  It does nothing for a segment that rotate_locked has  *)
(* left behind flushed and not synced.                                     *)
(***************************************************************************)
SyncMakesDurable ==
  [][Sync => In(acked \cap (buf \cup written), current) \subseteq synced']_vars
=============================================================================
