----------------------------- MODULE WalProofs -----------------------------
(***************************************************************************)
(* Proofs about Wal, for every size limit, batch size, record length and   *)
(* number of crashes.  They hold for the configurations in which rotation  *)
(* never creates a segment it cannot lock and purging keeps a segment.     *)
(* Then proofs about Snapshots, as a part of Journal, for all traces,      *)
(* nodes, calls, file lengths and retention counts.                        *)
(***************************************************************************)
EXTENDS Journal, TLAPS, FiniteSetTheorems, Sequences, WellFoundedInduction

SafeConfig == 0 \notin KeepCounts /\ "lock" \notin RotateErrors

ViewType ==
  [segs : SUBSET Nat, written : SUBSET Record, buf : SUBSET Record,
   current : Nat, sequence : Nat, size : Nat]

(* What holds of the files and the buffer between any two calls, n being    *)
(* the number of records offered: the open segment is the newest one, the   *)
(* buffer is for it, and the order of segments is the order of records.     *)
View(w, n) ==
  /\ w \in ViewType
  /\ w.current \in w.segs /\ w.current <= w.sequence
  /\ \A s \in w.segs : s <= w.current
  /\ \A r \in w.written : r.seg \in w.segs
  /\ \A r \in w.buf : r.seg = w.current
  /\ \A r \in w.written \cup w.buf : r.id <= n
  /\ \A r, q \in w.written \cup w.buf : r.seg < q.seg => r.id < q.id

(* The inductive invariant.  While the process is down there is no open     *)
(* segment, and what remains is a statement about the files.                *)
WalInv ==
  /\ TypeOK
  /\ AckedDurable
  /\ up => View(Unrotated, offered)
  /\ ~up => buf = {}
  /\ \A r \in written : r.seg \in segs /\ r.id <= offered
  /\ ReplayInOrder

\* The fields of the view before any rotation.
LEMMA UnrotatedFields ==
  /\ Unrotated.segs = segs /\ Unrotated.written = written
  /\ Unrotated.buf = buf /\ Unrotated.current = current
  /\ Unrotated.sequence = sequence /\ Unrotated.size = file_size
BY DEF Unrotated

\* Flushing hands the buffer to the open segment and changes nothing else.
LEMMA FlushedView ==
  ASSUME NEW w, NEW n \in Nat, View(w, n)
  PROVE  /\ View(Flushed(w), n)
         /\ Flushed(w).written = w.written \cup w.buf
         /\ Flushed(w).segs = w.segs /\ Flushed(w).buf = {}
         /\ Flushed(w).current = w.current /\ Flushed(w).size = w.size
         /\ Flushed(w).sequence = w.sequence
<1>1. /\ Flushed(w).written = w.written \cup {r \in w.buf : r.seg \in w.segs}
      /\ Flushed(w).segs = w.segs /\ Flushed(w).buf = {}
      /\ Flushed(w).current = w.current /\ Flushed(w).size = w.size
      /\ Flushed(w).sequence = w.sequence
      /\ Flushed(w) \in ViewType
  BY DEF View, ViewType, Flushed
<1>2. {r \in w.buf : r.seg \in w.segs} = w.buf
  BY DEF View
<1>3. View(Flushed(w), n)
  BY <1>1, <1>2 DEF View
<1> QED
  BY <1>1, <1>2, <1>3

\* Rotation opens a segment above every other one.
LEMMA RotatedView ==
  ASSUME NEW n \in Nat, View(Unrotated, n)
  PROVE  /\ View(Rotated, n)
         /\ Rotated.written = written \cup buf /\ Rotated.buf = {}
<1> DEFINE f == Flushed(Unrotated)
<1>1. View(f, n) /\ f.written = written \cup buf /\ f.buf = {} /\ f.segs = segs
      /\ f.current = current /\ f.sequence = sequence
  BY FlushedView, UnrotatedFields
<1>2. sequence \in Nat /\ segs \subseteq Nat /\ current <= sequence /\ current \in Nat
  BY UnrotatedFields DEF View, ViewType
<1>3. f \in ViewType
  BY <1>1 DEF View
<1>4. /\ Rotated.segs = segs \cup {sequence + 1} /\ Rotated.written = f.written
      /\ Rotated.buf = {} /\ Rotated.current = sequence + 1
      /\ Rotated.sequence = sequence + 1 /\ Rotated.size = 0
  BY DEF Rotated
<1>5. Rotated \in ViewType
  BY <1>2, <1>3 DEF Rotated, ViewType
<1> HIDE DEF f
<1>6. View(Rotated, n)
  <2>1. \A s \in segs : s <= current
    BY <1>1 DEF View
  <2>2. \A s \in Rotated.segs : s <= Rotated.current
    <3> SUFFICES ASSUME NEW s \in segs \cup {sequence + 1}
                 PROVE  s <= sequence + 1
      BY <1>4
    <3>1. CASE s \in segs
      <4>1. s \in Nat /\ s <= current
        BY <2>1, <1>2, <3>1
      <4> QED
        BY <4>1, <1>2
    <3> QED
      BY <3>1, <1>2
  <2>3. \A x, y \in Rotated.written \cup Rotated.buf : x.seg < y.seg => x.id < y.id
    BY <1>1, <1>4 DEF View
  <2>4. \A r \in Rotated.written \cup Rotated.buf : r.id <= n
    BY <1>1, <1>4 DEF View
  <2>5. \A r \in Rotated.written : r.seg \in Rotated.segs
    BY <1>1, <1>4 DEF View
  <2>6. Rotated.current \in Rotated.segs /\ Rotated.current <= Rotated.sequence
    BY <1>2, <1>4
  <2> QED
    BY <1>4, <1>5, <2>2, <2>3, <2>4, <2>5, <2>6 DEF View
<1> QED
  BY <1>1, <1>4, <1>6

\* Rotated or not, the view is good and no record has gone.
LEMMA PreparedView ==
  ASSUME NEW n \in Nat, View(Unrotated, n), NEW len
  PROVE  /\ View(Prepared(len), n)
         /\ Prepared(len).written \cup Prepared(len).buf = written \cup buf
BY RotatedView, UnrotatedFields DEF Prepared

\* A new record goes to the open segment and comes after every other one.
LEMMA BufferedView ==
  ASSUME NEW w, NEW len \in Nat, NEW spill \in Spills, View(w, offered),
         offered \in Nat
  PROVE  /\ View(Buffered(w, len, spill), offered + 1)
         /\ Buffered(w, len, spill).current = w.current
         /\ NewRecord(w, len) \in Record
         /\ NewRecord(w, len).seg = w.current
         /\ Buffered(w, len, spill).written \cup Buffered(w, len, spill).buf
              = w.written \cup w.buf \cup {NewRecord(w, len)}
         /\ NewRecord(w, len).id = offered + 1
<1> DEFINE r == NewRecord(w, len)
           v == IF spill = "none" THEN w ELSE Flushed(w)
           b == [v EXCEPT !.buf = @ \cup {r}, !.size = w.size + len]
<1>1. /\ View(v, offered) /\ v.current = w.current /\ v.size = w.size
      /\ v.written \cup v.buf = w.written \cup w.buf
  BY FlushedView DEF View, ViewType
<1>2. r \in Record /\ r.seg = w.current /\ r.id = offered + 1
  BY DEF NewRecord, Record, View, ViewType
<1>3. v \in ViewType /\ w.size \in Nat /\ v.buf \in SUBSET Record
  BY <1>1 DEF View, ViewType
<1> HIDE DEF v, r
<1>4. /\ b.segs = v.segs /\ b.written = v.written /\ b.buf = v.buf \cup {r}
      /\ b.current = v.current /\ b.sequence = v.sequence
  BY <1>3 DEF ViewType
<1>t. b \in ViewType
  <2>1. v.buf \cup {r} \in SUBSET Record /\ w.size + len \in Nat
    BY <1>2, <1>3
  <2> QED
    BY <1>3, <2>1 DEF ViewType
<1> HIDE DEF b
<1>5. \A x \in v.written \cup v.buf : x.seg <= w.current /\ x.seg \in Nat /\ x.id \in Nat
  BY <1>1 DEF View, ViewType, Record
<1>6. \A x, y \in b.written \cup b.buf : x.seg < y.seg => x.id < y.id
  BY <1>1, <1>2, <1>4, <1>5 DEF View, ViewType
<1>7. View(b, offered + 1)
  BY <1>1, <1>2, <1>4, <1>6, <1>5, <1>t DEF View
<1>8. View(Flushed(b), offered + 1) /\ Flushed(b).written = b.written \cup b.buf
      /\ Flushed(b).buf = {} /\ Flushed(b).current = b.current
  BY <1>7, FlushedView
<1>9. Buffered(w, len, spill) = IF spill = "all" THEN Flushed(b) ELSE b
  BY DEF Buffered, b, v, r
<1> QED
  BY <1>1, <1>2, <1>4, <1>7, <1>8, <1>9 DEF r

-----------------------------------------------------------------------------
\* Wal::open on an empty directory establishes the invariant.
THEOREM InitInv == Init => WalInv
<1> SUFFICES ASSUME Init
             PROVE  WalInv
  OBVIOUS
<1>1. TypeOK
  BY DEF Init, TypeOK
<1>2. AckedDurable /\ ReplayInOrder /\ \A r \in written : r.seg \in segs /\ r.id <= offered
  BY DEF Init, AckedDurable, ReplayInOrder
<1>3. ~up /\ buf = {}
  BY DEF Init
<1> QED
  BY <1>1, <1>2, <1>3 DEF WalInv

(* A call that leaves view w behind, syncing nothing it did not have to,    *)
(* preserves the invariant when it acknowledges no record.                  *)
LEMMA InstalledInv ==
  ASSUME TypeOK, up' = TRUE, NEW w, View(w, offered'), Installed(w),
         offered' \in Nat, pending' \in Nat, AckedDurable',
         written \subseteq w.written, synced' \subseteq w.written,
         segs \subseteq w.segs,
         UNCHANGED <<torn, purging, restarts, purged>>, acked' \subseteq Record
  PROVE  WalInv'
<1>1. /\ segs' \subseteq Nat /\ written' \subseteq Record /\ buf' \subseteq Record
      /\ current' \in Nat /\ sequence' \in Nat /\ file_size' \in Nat
  BY DEF Installed, View, ViewType
<1>2. TypeOK'
  BY <1>1 DEF TypeOK, Installed
<1>3. Unrotated' = w
  BY DEF Unrotated, Installed, View, ViewType
<1>4. View(Unrotated', offered')
  BY <1>3
<1>5. \A r \in written' : r.seg \in segs' /\ r.id <= offered'
  BY DEF View, Installed
<1>6. ReplayInOrder'
  BY DEF ReplayInOrder, View, Installed
<1> QED
  BY <1>2, <1>4, <1>5, <1>6 DEF WalInv, View

-----------------------------------------------------------------------------
(* A successful write: rotation and buffering keep the view good and lose   *)
(* no record, and with sync_on_write the new record is durable at once.     *)
LEMMA WriteInv ==
  ASSUME WalInv, NEW len \in RecordSizes, NEW spill \in Spills,
         NEW elapsed \in BOOLEAN, Write(len, spill, elapsed)
  PROVE  WalInv'
<1> DEFINE p == Prepared(len)
           r == NewRecord(p, len)
           w == Buffered(p, len, spill)
<1>1. up /\ View(Unrotated, offered) /\ offered \in Nat /\ len \in Nat /\ TypeOK
  BY WalConfigAssumption DEF WalInv, Write, TypeOK
<1>2. View(p, offered) /\ p.written \cup p.buf = written \cup buf
  BY <1>1, PreparedView
<1>3. /\ View(w, offered + 1) /\ r \in Record /\ r.seg = w.current
      /\ w.written \cup w.buf = written \cup buf \cup {r}
  BY <1>1, <1>2, BufferedView
<1>4. /\ View(Flushed(w), offered + 1)
      /\ Flushed(w).written = written \cup buf \cup {r}
      /\ Flushed(w).current = w.current
  BY <1>1, <1>3, FlushedView
<1>5. segs \subseteq w.segs /\ written \subseteq w.written
  BY DEF Prepared, Buffered, Flushed, Rotated, Unrotated
<1>6. segs \subseteq Flushed(w).segs
  BY <1>5, <1>3, <1>1, FlushedView
<1>7. /\ up' = TRUE /\ offered' = offered + 1 /\ acked' = acked \cup {r}
      /\ UNCHANGED <<torn, purging, restarts, purged>>
      /\ SyncStrategy(w, elapsed)
  BY <1>1 DEF Write, TypeOK
<1>8. acked' \subseteq Record /\ synced \subseteq written /\ pending \in Nat
  BY <1>1, <1>3, <1>7 DEF TypeOK
<1> HIDE DEF p, r, w
<1>9. CASE SyncFile(w) /\ pending' \in Nat
  <2>1. synced \subseteq synced' /\ r \in synced' /\ synced' \subseteq Flushed(w).written
    BY <1>3, <1>4, <1>8, <1>9 DEF SyncFile, In
  <2>2. AckedDurable'
    BY <1>7, <2>1 DEF AckedDurable, WalInv
  <2>3. /\ View(Flushed(w), offered') /\ Installed(Flushed(w))
        /\ written \subseteq Flushed(w).written /\ offered' \in Nat
    BY <1>1, <1>4, <1>7, <1>9 DEF SyncFile
  <2> QED
    BY <1>1, <1>6, <1>7, <1>8, <1>9, <2>1, <2>2, <2>3, InstalledInv
<1>10. CASE ~SyncOnWrite /\ NoSync(w) /\ pending' \in Nat
  <2>1. AckedDurable' /\ synced' \subseteq w.written
    BY <1>5, <1>8, <1>10 DEF AckedDurable, NoSync
  <2> QED
    BY <1>1, <1>3, <1>5, <1>7, <1>8, <1>10, <2>1, InstalledInv DEF NoSync
<1> QED
  BY <1>7, <1>8, <1>9, <1>10 DEF SyncStrategy

\* A call that leaves a good view behind and syncs or acknowledges nothing.
LEMMA NoSyncInv ==
  ASSUME WalInv, up' = TRUE, NEW w, View(w, offered'), NoSync(w),
         offered' \in Nat, pending' \in Nat,
         written \subseteq w.written, segs \subseteq w.segs,
         UNCHANGED <<torn, purging, restarts, acked, purged>>
  PROVE  WalInv'
<1>1. TypeOK /\ synced' \subseteq w.written /\ acked' \subseteq Record
  BY DEF WalInv, TypeOK, NoSync
<1>2. AckedDurable'
  BY DEF WalInv, AckedDurable, NoSync
<1> QED
  BY <1>1, <1>2, InstalledInv DEF NoSync

\* Offering a record that is not buffered changes nothing.
LEMMA ViewWeaken ==
  ASSUME NEW w, NEW n \in Nat, View(w, n)
  PROVE  View(w, n + 1)
BY DEF View, ViewType, Record

\* A write whose sync fails: the record is buffered or written, not acknowledged.
LEMMA WriteFailsInSyncInv ==
  ASSUME WalInv, NEW len \in RecordSizes, NEW spill \in Spills,
         NEW elapsed \in BOOLEAN, WriteFailsInSync(len, spill, elapsed)
  PROVE  WalInv'
<1> DEFINE p == Prepared(len)
           w == Buffered(p, len, spill)
<1>1. up /\ View(Unrotated, offered) /\ offered \in Nat /\ len \in Nat /\ TypeOK
  BY WalConfigAssumption DEF WalInv, WriteFailsInSync, WriteFailed, TypeOK
<1>2. View(p, offered)
  BY <1>1, PreparedView
<1>3. View(w, offered + 1)
  BY <1>1, <1>2, BufferedView
<1>4. segs \subseteq w.segs /\ written \subseteq w.written
  BY DEF Prepared, Buffered, Flushed, Rotated, Unrotated
<1>5. NoSync(w) /\ pending' \in Nat /\ up' = TRUE
  BY <1>1 DEF WriteFailsInSync, WriteFailed, TypeOK
<1>6. offered' = offered + 1 /\ UNCHANGED <<torn, purging, restarts, acked, purged>>
  BY DEF WriteFailsInSync, WriteFailed
<1> HIDE DEF w
<1> QED
  BY <1>1, <1>3, <1>4, <1>5, <1>6, NoSyncInv

\* A write that fails before its record is buffered, rotated or not.
LEMMA WriteFailsInBufferInv ==
  ASSUME WalInv, NEW len \in RecordSizes, WriteFailsInBuffer(len)
  PROVE  WalInv'
<1>1. up /\ View(Unrotated, offered) /\ offered \in Nat /\ TypeOK
  BY DEF WalInv, WriteFailsInBuffer, WriteFailed, TypeOK
<1>2. PICK w \in {Unrotated, Prepared(len)} : NoSync(w)
  <2>1. NoSync(Unrotated) \/ NoSync(Prepared(len))
    BY DEF WriteFailsInBuffer
  <2> QED
    BY <2>1, Zenon
<1>3. View(w, offered)
  BY <1>1, PreparedView
<1>4. View(w, offered + 1)
  BY <1>1, <1>3, ViewWeaken
<1>5. segs \subseteq w.segs /\ written \subseteq w.written
  BY DEF Prepared, Flushed, Rotated, Unrotated
<1>6. pending' \in Nat /\ up' = TRUE
  BY <1>1 DEF WriteFailsInBuffer, WriteFailed, TypeOK
<1>7. offered' = offered + 1 /\ UNCHANGED <<torn, purging, restarts, acked, purged>>
  BY DEF WriteFailsInBuffer, WriteFailed
<1> QED
  BY <1>1, <1>2, <1>4, <1>5, <1>6, <1>7, NoSyncInv

\* A rotation that fails after its flush leaves the old segment open.
LEMMA WriteFailsInRotateInv ==
  ASSUME SafeConfig, WalInv, NEW len \in RecordSizes, NEW step \in RotateErrors,
         WriteFailsInRotate(len, step)
  PROVE  WalInv'
<1> DEFINE f == Flushed(Unrotated)
           w == [f EXCEPT !.sequence = sequence + 1, !.segs = @]
<1>1. up /\ View(Unrotated, offered) /\ offered \in Nat /\ TypeOK /\ step # "lock"
  BY DEF WalInv, WriteFailsInRotate, WriteFailed, TypeOK, SafeConfig
<1>2. View(f, offered) /\ f.written = written \cup buf /\ f.segs = segs
      /\ f.current = current /\ f.sequence = sequence
  BY <1>1, FlushedView, UnrotatedFields
<1>3. NoSync(w) /\ pending' \in Nat /\ up' = TRUE
  BY <1>1 DEF WriteFailsInRotate, WriteFailed, TypeOK
<1>4. offered' = offered + 1 /\ UNCHANGED <<torn, purging, restarts, acked, purged>>
  BY DEF WriteFailsInRotate, WriteFailed
<1>5. sequence \in Nat /\ f \in ViewType
  BY <1>1, <1>2 DEF TypeOK, View
<1> HIDE DEF f
<1>6. /\ w.segs = f.segs /\ w.written = f.written /\ w.buf = f.buf
      /\ w.current = f.current /\ w.sequence = sequence + 1
  BY <1>5 DEF ViewType
<1>t. w \in ViewType
  <2>1. sequence + 1 \in Nat /\ f.segs \in SUBSET Nat
    BY <1>5 DEF ViewType
  <2> QED
    BY <1>5, <2>1 DEF ViewType
<1> HIDE DEF w
<1>7. View(w, offered)
  BY <1>2, <1>5, <1>6, <1>t DEF View, ViewType
<1>8. View(w, offered + 1)
  BY <1>1, <1>7, ViewWeaken
<1> QED
  BY <1>1, <1>2, <1>3, <1>4, <1>6, <1>8, NoSyncInv

\* Wal::sync and Wal::flush, whether sync_data succeeds or not.
LEMMA SyncInv ==
  ASSUME WalInv, Sync \/ Flush \/ SyncFails
  PROVE  WalInv'
<1> DEFINE f == Flushed(Unrotated)
<1>1. up /\ View(Unrotated, offered) /\ offered \in Nat /\ TypeOK
  BY DEF WalInv, Sync, Flush, SyncFails, TypeOK
<1>2. View(f, offered) /\ f.written = written \cup buf /\ f.segs = segs
  BY <1>1, FlushedView, UnrotatedFields
<1>3. /\ up' = TRUE /\ offered' = offered /\ pending' \in Nat
      /\ UNCHANGED <<torn, purging, restarts, acked, purged>>
  <2>1. up = TRUE /\ pending \in Nat
    BY <1>1 DEF TypeOK
  <2>2. CASE Sync
    BY <2>1, <2>2 DEF Sync
  <2>3. CASE Flush
    BY <2>1, <2>3 DEF Flush
  <2>4. CASE SyncFails
    BY <2>1, <2>4 DEF SyncFails
  <2> QED
    BY <2>2, <2>3, <2>4
<1>4. CASE SyncFile(Unrotated)
  <2>1. Installed(f) /\ synced \subseteq synced' /\ synced' \subseteq f.written
    BY <1>1, <1>2, <1>4 DEF SyncFile, In, TypeOK
  <2>2. AckedDurable' /\ acked' \subseteq Record
    BY <1>1, <1>3, <2>1 DEF WalInv, AckedDurable, TypeOK
  <2> HIDE DEF f
  <2> QED
    BY <1>1, <1>2, <1>3, <2>1, <2>2, InstalledInv
<1>5. CASE NoSync(f)
  <2> HIDE DEF f
  <2> QED
    BY <1>1, <1>2, <1>3, <1>5, NoSyncInv
<1> QED
  BY <1>4, <1>5 DEF Sync, Flush, SyncFails

(* A purge that keeps at least one segment keeps the newest, which is the   *)
(* open one.                                                                *)
LEMMA PurgeInv ==
  ASSUME SafeConfig, WalInv, NEW keep \in KeepCounts, PurgeDelete(keep)
  PROVE  WalInv'
<1>0. keep \in Nat /\ ~(0 >= keep)
  <2>1. KeepCounts \subseteq Nat
    BY WalConfigAssumption
  <2>2. keep # 0
    BY DEF SafeConfig
  <2> QED
    BY <2>1, <2>2
<1>1. up /\ View(Unrotated, offered) /\ TypeOK
  BY DEF WalInv, PurgeDelete
<1>2. \A s \in segs : s \in Nat /\ s <= current
  BY <1>1, UnrotatedFields DEF View, ViewType
<1>3. current \in segs /\ current \in Nat
  BY <1>1, UnrotatedFields DEF View, ViewType
<1>4. {x \in segs : x > current} = {}
  <2>1. \A x \in segs : ~(x > current)
    BY <1>2, <1>3
  <2> QED
    BY <2>1, Zenon
<1>5. Cardinality({x \in segs : x > current}) = 0
  BY <1>4, FS_EmptySet
<1>6. current \notin Doomed(keep)
  BY <1>0, <1>5 DEF Doomed
<1>7. segs' \subseteq segs /\ current \in segs'
  BY <1>3, <1>6 DEF PurgeDelete
<1>8. /\ written' = {r \in written : r.seg \in segs'} /\ written' \subseteq written
      /\ synced' = {r \in synced : r.seg \in segs'}
      /\ torn' = torn \cap segs' /\ purging' = {}
      /\ purged' = purged \cup (written \ written')
      /\ UNCHANGED <<buf, current, sequence, file_size, pending, up, offered,
                     restarts, acked>>
  BY DEF PurgeDelete
<1>9. AckedDurable'
  BY <1>1, <1>8 DEF WalInv, AckedDurable, TypeOK
<1>10. TypeOK'
  BY <1>1, <1>7, <1>8 DEF TypeOK
<1>11. View(Unrotated', offered')
  <2>1. Unrotated' = [segs |-> segs', written |-> written', buf |-> buf,
                      current |-> current, sequence |-> sequence,
                      size |-> file_size]
    BY <1>8 DEF Unrotated
  <2>2. Unrotated' \in ViewType
    BY <1>10, <1>8, <2>1 DEF TypeOK, ViewType
  <2> QED
    BY <1>1, <1>7, <1>8, <2>1, <2>2, UnrotatedFields DEF View
<1>12. ReplayInOrder'
  BY <1>8 DEF WalInv, ReplayInOrder
<1> QED
  BY <1>1, <1>8, <1>9, <1>10, <1>11, <1>12 DEF WalInv, View

\* Of a crash only the files remain, and of a machine crash a prefix of each.
LEMMA DownInv ==
  ASSUME WalInv, ProcessCrash \/ Shutdown \/ PowerLoss
  PROVE  WalInv'
<1>1. TypeOK /\ up /\ View(Unrotated, offered)
  BY DEF WalInv, ProcessCrash, Shutdown, PowerLoss, Down
<1>2. /\ up' = FALSE /\ buf' = {} /\ purging' = {} /\ restarts' = restarts + 1
      /\ UNCHANGED <<segs, current, sequence, file_size, pending, offered, acked,
                     purged>>
  BY DEF ProcessCrash, Shutdown, PowerLoss, Down
<1>3. /\ Flushed(Unrotated).written = written \cup buf
      /\ View(Flushed(Unrotated), offered) /\ Flushed(Unrotated).segs = segs
  BY <1>1, FlushedView, UnrotatedFields DEF TypeOK
<1>4. /\ synced \subseteq synced' /\ synced' \subseteq written'
      /\ written' \subseteq written \cup buf /\ torn' \subseteq segs
  <2>1. CASE ProcessCrash
    BY <1>1, <2>1 DEF ProcessCrash, TypeOK
  <2>2. CASE Shutdown
    BY <1>1, <1>3, <2>2 DEF Shutdown, TypeOK
  <2>3. CASE PowerLoss
    <3>1. PICK kept \in SUBSET written :
            /\ Survives(kept)
            /\ written' = kept /\ synced' = kept
            /\ \E t \in SUBSET {r.seg : r \in written \ kept} : torn' = torn \cup t
      BY <2>3 DEF PowerLoss
    <3>2. \A r \in written : r.seg \in segs
      BY DEF WalInv
    <3> QED
      BY <1>1, <3>1, <3>2 DEF Survives, TypeOK
  <2> QED
    BY <2>1, <2>2, <2>3
<1>5. \A r \in written \cup buf : r.seg \in segs /\ r.id <= offered
  BY <1>3 DEF View
<1>6. \A r, q \in written \cup buf : r.seg < q.seg => r.id < q.id
  BY <1>1, UnrotatedFields DEF View
<1>7. TypeOK'
  <2>1. written' \subseteq Record /\ restarts' \in Nat
    BY <1>1, <1>2, <1>4 DEF TypeOK
  <2> QED
    BY <1>1, <1>2, <1>4, <2>1 DEF TypeOK
<1>8. AckedDurable'
  BY <1>2, <1>4 DEF WalInv, AckedDurable
<1>9. ReplayInOrder'
  BY <1>4, <1>6 DEF ReplayInOrder
<1>10. \A r \in written' : r.seg \in segs' /\ r.id <= offered'
  BY <1>2, <1>4, <1>5
<1> QED
  BY <1>2, <1>7, <1>8, <1>9, <1>10 DEF WalInv

\* Reopening continues in the newest segment or in one above it.
LEMMA OpenInv ==
  ASSUME WalInv, Open
  PROVE  WalInv'
<1>1. PICK s \in Nat, len \in Nat : OpenAt(s, len) /\ \A x \in segs : x <= s
  <2>1. CASE segs = {} /\ OpenAt(0, 0)
    BY <2>1
  <2>2. CASE \E s \in segs : \E last \in Ends(s) :
               /\ \A x \in segs : x <= s
               /\ \A e \in Ends(s) : e <= last
               /\ IF SegmentLen(s, last) > ReopenSize
                  THEN OpenAt(s + 1, 0)
                  ELSE OpenAt(s, SegmentLen(s, last))
    <3>0. PICK s \in segs : \E last \in Ends(s) :
            /\ \A x \in segs : x <= s
            /\ IF SegmentLen(s, last) > ReopenSize
               THEN OpenAt(s + 1, 0)
               ELSE OpenAt(s, SegmentLen(s, last))
      BY <2>2
    <3>1. PICK last \in Ends(s) :
            /\ \A x \in segs : x <= s
            /\ IF SegmentLen(s, last) > ReopenSize
               THEN OpenAt(s + 1, 0)
               ELSE OpenAt(s, SegmentLen(s, last))
      BY <3>0
    <3>2. segs \subseteq Nat /\ written \subseteq Record
      BY DEF WalInv, TypeOK
    <3>3. last \in Nat
      BY <3>2 DEF Ends, In, Record
    <3>4. SegmentLen(s, last) \in Nat /\ s \in Nat /\ s + 1 \in Nat
      BY <3>2, <3>3 DEF SegmentLen
    <3>5. \A x \in segs : x <= s + 1
      BY <3>1, <3>2
    <3> QED
      BY <3>1, <3>4, <3>5
  <2> QED
    BY <2>1, <2>2 DEF Open
<1>2. TypeOK /\ buf = {} /\ ~up
  BY <1>1 DEF WalInv, OpenAt
<1>3. /\ segs' = segs \cup {s} /\ current' = s /\ sequence' = s /\ file_size' = len
      /\ buf' = {} /\ pending' = 0 /\ up' = TRUE
      /\ UNCHANGED <<written, synced, torn, purging, offered, restarts, acked, purged>>
  BY <1>1 DEF OpenAt
<1>4. TypeOK'
  BY <1>2, <1>3 DEF TypeOK
<1>5. View(Unrotated', offered')
  <2>1. Unrotated' = [segs |-> segs', written |-> written, buf |-> {},
                      current |-> s, sequence |-> s, size |-> len]
    BY <1>3 DEF Unrotated
  <2>2. Unrotated' \in ViewType
    BY <1>4, <1>3, <2>1 DEF TypeOK, ViewType
  <2>3. \A x \in segs' : x <= s
    BY <1>1, <1>3
  <2> QED
    BY <1>3, <2>1, <2>2, <2>3 DEF View, WalInv, ReplayInOrder
<1> QED
  BY <1>3, <1>4, <1>5 DEF WalInv, AckedDurable, ReplayInOrder, View

\* Every operation, failure, crash and reopening preserves the invariant.
THEOREM NextInv ==
  ASSUME SafeConfig, WalInv, [Next]_vars
  PROVE  WalInv'
<1>1. CASE UNCHANGED vars
  BY <1>1 DEF vars, WalInv, TypeOK, AckedDurable, View, ViewType, Unrotated,
              ReplayInOrder
<1>2. CASE PurgeRead
  <2>1. sequence \in Nat /\ TypeOK
    BY DEF WalInv, TypeOK
  <2>2. TypeOK'
    BY <1>2, <2>1 DEF PurgeRead, TypeOK
  <2>3. Unrotated' = Unrotated
    BY <1>2 DEF PurgeRead, Unrotated
  <2> QED
    BY <1>2, <2>2, <2>3 DEF PurgeRead, WalInv, AckedDurable, View, ReplayInOrder
<1> QED
  BY <1>1, <1>2, WriteInv, WriteFailsInSyncInv, WriteFailsInBufferInv,
     WriteFailsInRotateInv, SyncInv, PurgeInv, DownInv, OpenInv DEF Next

(***************************************************************************)
(* Type correctness of every behaviour of the log, for every size limit,   *)
(* batch size, record length and number of crashes.                        *)
(***************************************************************************)
THEOREM TypeCorrect ==
  ASSUME SafeConfig
  PROVE  Spec => []TypeOK
<1>1. WalInv /\ [Next]_vars => WalInv'
  BY NextInv
<1>2. WalInv => TypeOK
  BY DEF WalInv
<1> QED
  BY <1>1, <1>2, InitInv, PTL DEF Spec

(***************************************************************************)
(* With sync_on_write, no acknowledged record is lost to rotation, purging *)
(* of other segments, failed writes, or crashes.                           *)
(***************************************************************************)
THEOREM Durability ==
  ASSUME SafeConfig
  PROVE  Spec => []AckedDurable
<1>1. WalInv /\ [Next]_vars => WalInv'
  BY NextInv
<1>2. WalInv => AckedDurable
  BY DEF WalInv
<1> QED
  BY <1>1, <1>2, InitInv, PTL DEF Spec

(***************************************************************************)
(* Replaying the segments by sequence number yields the records in the     *)
(* order in which Wal::write accepted them.                                *)
(***************************************************************************)
THEOREM ReplayOrder ==
  ASSUME SafeConfig
  PROVE  Spec => []ReplayInOrder
<1>1. WalInv /\ [Next]_vars => WalInv'
  BY NextInv
<1>2. WalInv => ReplayInOrder
  BY DEF WalInv
<1> QED
  BY <1>1, <1>2, InitInv, PTL DEF Spec

(***************************************************************************)
(* purge_old_segments never removes the segment being written.             *)
(***************************************************************************)
THEOREM LiveSegment ==
  ASSUME SafeConfig
  PROVE  Spec => []LiveSegmentKept
<1>1. WalInv /\ [Next]_vars => WalInv'
  BY NextInv
<1>2. WalInv => LiveSegmentKept
  BY UnrotatedFields DEF WalInv, LiveSegmentKept, View
<1> QED
  BY <1>1, <1>2, InitInv, PTL DEF Spec

-----------------------------------------------------------------------------
(* What Wal::sync has done when it returns Ok: the acknowledged records of  *)
(* the open segment are durable, because the segment is still a file of the *)
(* directory, so that flushing the buffer loses none of them.               *)
LEMMA SyncCovers ==
  ASSUME WalInv, Sync
  PROVE  In(acked \cap (buf \cup written), current) \subseteq synced'
<1>1. current \in segs
  BY UnrotatedFields DEF WalInv, View, Sync
<1>2. /\ Flushed(Unrotated).written = written \cup {r \in buf : r.seg \in segs}
      /\ Unrotated.current = current
  BY DEF Flushed, Unrotated
<1>3. synced' = synced \cup In(Flushed(Unrotated).written, current)
  BY <1>2 DEF Sync, SyncFile
<1> QED
  BY <1>1, <1>2, <1>3 DEF In

(***************************************************************************)
(* Every successful Wal::sync makes the acknowledged records of the open   *)
(* segment durable, whatever rotations, purges, failures and crashes came  *)
(* before it.                                                              *)
(***************************************************************************)
THEOREM SyncDurable ==
  ASSUME SafeConfig
  PROVE  Spec => SyncMakesDurable
<1>1. WalInv /\ [Next]_vars => WalInv'
  BY NextInv
<1>2. WalInv /\ [Next]_vars
        => [Sync => In(acked \cap (buf \cup written), current) \subseteq synced']_vars
  BY SyncCovers
<1> QED
  BY <1>1, <1>2, InitInv, PTL DEF Spec, SyncMakesDurable

-----------------------------------------------------------------------------
(* The counter of group commit.  It is inductive with its type alone, so    *)
(* this holds of every configuration, the unsafe ones included.             *)
PendingInv == pending \in Nat /\ ZeroPendingMeansFlushed

(* A call that empties the BufWriter, or leaves no record there that was    *)
(* not there before, cannot break it.                                       *)
LEMMA EmptierBuffer ==
  ASSUME PendingInv, pending' \in Nat, UNCHANGED acked,
         buf' = {} \/ (buf' \subseteq buf /\ UNCHANGED pending)
  PROVE  PendingInv'
BY DEF PendingInv, ZeroPendingMeansFlushed

\* The views have the fields of a record, so that flushing empties the buffer.
LEMMA FlushEmpties ==
  /\ Flushed(Unrotated).buf = {}
  /\ \A len, spill : Flushed(Buffered(Prepared(len), len, spill)).buf = {}
<1>1. Flushed(Unrotated).buf = {}
  BY DEF Flushed, Unrotated
<1>2. ASSUME NEW len, NEW spill
      PROVE  Flushed(Buffered(Prepared(len), len, spill)).buf = {}
  <2> DEFINE p == Prepared(len)
             v == IF spill = "none" THEN p ELSE Flushed(p)
             b == [v EXCEPT !.buf = @ \cup {NewRecord(p, len)}, !.size = p.size + len]
  <2>1. "buf" \in DOMAIN p
    BY DEF Prepared, Rotated, Unrotated
  <2> HIDE DEF p
  <2>2. \A x : "buf" \in DOMAIN x => "buf" \in DOMAIN Flushed(x) /\ Flushed(x).buf = {}
    BY DEF Flushed
  <2>3. "buf" \in DOMAIN b
    BY <2>1, <2>2
  <2>4. Buffered(p, len, spill) = IF spill = "all" THEN Flushed(b) ELSE b
    BY DEF Buffered
  <2> HIDE DEF b
  <2> QED
    BY <2>2, <2>3, <2>4 DEF p
<1> QED
  BY <1>1, <1>2

\* Wal::write with either outcome of the sync strategy.
LEMMA WritePending ==
  ASSUME PendingInv, NEW len, NEW spill, NEW elapsed, Write(len, spill, elapsed)
  PROVE  PendingInv'
<1> DEFINE w == Buffered(Prepared(len), len, spill)
<1>1. SyncStrategy(w, elapsed)
  BY DEF Write
<1> HIDE DEF w
<1>2. CASE SyncOnWrite \/ ~GroupCommit
  BY <1>1, <1>2 DEF SyncStrategy, PendingInv, ZeroPendingMeansFlushed
<1>3. CASE ~SyncOnWrite /\ GroupCommit /\ ShouldSync(elapsed)
  <2>1. pending' = 0 /\ buf' = Flushed(w).buf
    BY <1>1, <1>3 DEF SyncStrategy, SyncFile, Installed
  <2>2. CASE buf' = {}
    BY <2>1, <2>2 DEF PendingInv, ZeroPendingMeansFlushed
  <2>3. Flushed(w).buf = {}
    BY FlushEmpties DEF w
  <2> QED
    BY <2>1, <2>2, <2>3
<1>4. CASE ~SyncOnWrite /\ GroupCommit /\ ~ShouldSync(elapsed)
  <2>1. pending' = pending + 1
    BY <1>1, <1>4 DEF SyncStrategy
  <2> QED
    BY <2>1 DEF PendingInv, ZeroPendingMeansFlushed
<1> QED
  BY <1>2, <1>3, <1>4

\* Wal::write returning Err leaves the counter alone or counts the record.
LEMMA WriteFailsPending ==
  ASSUME PendingInv,
         \/ \E len \in RecordSizes, spill \in Spills, elapsed \in BOOLEAN :
              WriteFailsInSync(len, spill, elapsed)
         \/ \E len \in RecordSizes : WriteFailsInBuffer(len)
         \/ \E len \in RecordSizes, step \in RotateErrors : WriteFailsInRotate(len, step)
  PROVE  PendingInv'
<1>1. UNCHANGED acked
  BY DEF WriteFailsInSync, WriteFailsInBuffer, WriteFailsInRotate, WriteFailed
<1>2. CASE \E len \in RecordSizes, spill \in Spills, elapsed \in BOOLEAN :
             WriteFailsInSync(len, spill, elapsed)
  <2>1. CASE SyncOnWrite
    BY <1>2, <2>1 DEF WriteFailsInSync, PendingInv, ZeroPendingMeansFlushed
  <2>2. CASE ~SyncOnWrite
    BY <1>2, <2>2 DEF WriteFailsInSync, PendingInv, ZeroPendingMeansFlushed
  <2> QED
    BY <2>1, <2>2
<1>3. CASE \E len \in RecordSizes : WriteFailsInBuffer(len)
  <2>1. PICK len \in RecordSizes : WriteFailsInBuffer(len)
    BY <1>3
  <2>2. Unrotated.buf = buf /\ Prepared(len).buf \subseteq buf
    BY DEF Unrotated, Prepared, Rotated
  <2>3. buf' \subseteq buf /\ UNCHANGED pending
    BY <2>1, <2>2 DEF WriteFailsInBuffer, NoSync, Installed
  <2> QED
    BY <1>1, <2>3, EmptierBuffer DEF PendingInv
<1>4. CASE \E len \in RecordSizes, step \in RotateErrors : WriteFailsInRotate(len, step)
  <2>1. buf' = {} /\ UNCHANGED pending
    BY <1>4 DEF WriteFailsInRotate, NoSync, Installed, Flushed, Unrotated
  <2> QED
    BY <1>1, <2>1, EmptierBuffer DEF PendingInv
<1> QED
  BY <1>2, <1>3, <1>4

\* Everything else empties the BufWriter or does not touch it.
LEMMA OthersPending ==
  ASSUME PendingInv,
         \/ Sync \/ Flush \/ SyncFails \/ PurgeRead
         \/ \E keep \in KeepCounts : PurgeDelete(keep)
         \/ ProcessCrash \/ Shutdown \/ PowerLoss \/ Open \/ UNCHANGED vars
  PROVE  PendingInv'
<1>1. CASE Sync \/ Flush \/ SyncFails
  <2>1. buf' = {} /\ pending' \in {0, pending} /\ UNCHANGED acked
    BY <1>1, FlushEmpties DEF Sync, Flush, SyncFails, SyncFile, NoSync, Installed
  <2> QED
    BY <2>1, EmptierBuffer DEF PendingInv
<1>2. CASE PurgeRead \/ (\E keep \in KeepCounts : PurgeDelete(keep)) \/ UNCHANGED vars
  BY <1>2 DEF PurgeRead, PurgeDelete, vars, PendingInv, ZeroPendingMeansFlushed
<1>3. CASE ProcessCrash \/ Shutdown \/ PowerLoss \/ Open
  <2>1. buf' = {} /\ pending' \in {0, pending} /\ UNCHANGED acked
    BY <1>3 DEF ProcessCrash, Shutdown, PowerLoss, Down, Open, OpenAt
  <2> QED
    BY <2>1, EmptierBuffer DEF PendingInv
<1> QED
  BY <1>1, <1>2, <1>3

(***************************************************************************)
(* In group commit mode a zero counter means that no acknowledged record   *)
(* is left in the BufWriter, whatever writes, syncs, flushes and rotations *)
(* fail, for every batch size.                                             *)
(***************************************************************************)
THEOREM ZeroPending == Spec => []ZeroPendingMeansFlushed
<1>1. Init => PendingInv
  BY DEF Init, PendingInv, ZeroPendingMeansFlushed
<1>2. PendingInv /\ [Next]_vars => PendingInv'
  BY WritePending, WriteFailsPending, OthersPending DEF Next
<1>3. PendingInv => ZeroPendingMeansFlushed
  BY DEF PendingInv
<1> QED
  BY <1>1, <1>2, <1>3, PTL DEF Spec

(* The log of the journal behaves as the log alone does, so that all of the *)
(* above holds of the journal too.                                          *)
THEOREM JournalIsLog == JournalSpec => Spec
<1>1. JournalInit => Init
  BY DEF JournalInit
<1>2. [JournalNext]_journal => [Next]_vars
  BY DEF JournalNext, journal
<1> QED
  BY <1>1, <1>2, PTL DEF JournalSpec, Spec

-----------------------------------------------------------------------------
(* Snapshots.  Replay is followed record by record, so that the first       *)
(* record at which a claim fails can be looked at.                          *)

LogRecord ==
  [type : {"TraceStart", "NodeStart", "NodeDone", "TraceComplete", "TraceSuspended", "TraceResumed"},
   trace : TraceIds, node : NodeIds \cup {0}]

TraceState ==
  LET N == SUBSET (NodeIds \cup {0}) IN
  [started : N, completed : N, last : N, suspended : N, metadata : BOOLEAN]

\* A map from traces to their states.
Traces(x) == DOMAIN x \subseteq TraceIds /\ \A t \in DOMAIN x : x[t] \in TraceState

SameState(a, b) ==
  a.started = b.started /\ a.completed = b.completed /\ a.last = b.last /\ a.suspended = b.suspended

Alike(x, y) == DOMAIN x = DOMAIN y /\ \A t \in DOMAIN x : SameState(x[t], y[t])

(* Every part of a is as in w or as in q.                                   *)
Between(a, w, q) ==
  /\ \A n : (n \in a.started <=> n \in w.started) \/ (n \in a.started <=> n \in q.started)
  /\ \A n : (n \in a.completed <=> n \in w.completed) \/ (n \in a.completed <=> n \in q.completed)
  /\ a.last = w.last \/ a.last = q.last
  /\ a.suspended = w.suspended \/ a.suspended = q.suspended

(* Records that were applied already are applied once more: x is what comes *)
(* of that so far, w what the log said at that point, q what it said at the *)
(* end.                                                                     *)
Repeating(x, w, q) ==
  \A t \in TraceIds :
    \/ t \in DOMAIN x /\ t \in DOMAIN w /\ SameState(x[t], w[t])
    \/ t \notin DOMAIN x /\ t \notin DOMAIN w
    \/ /\ t \in DOMAIN x <=> t \in DOMAIN q
       /\ t \in DOMAIN x /\ t \in DOMAIN w => Between(x[t], w[t], q[t])

LEMMA UpdatedState ==
  ASSUME NEW s \in TraceState, NEW r \in LogRecord, r.type \notin {"TraceStart", "TraceComplete"}
  PROVE  W!Updated(s, r) \in TraceState
<1>1. r.node \in NodeIds \cup {0} /\ r.type \in {"NodeStart", "NodeDone", "TraceSuspended", "TraceResumed"}
  BY DEF LogRecord
<1>2. CASE r.type = "NodeStart"
  BY <1>1, <1>2 DEF W!Updated, TraceState
<1>3. CASE r.type = "NodeDone"
  BY <1>1, <1>3 DEF W!Updated, TraceState
<1>4. CASE r.type = "TraceSuspended"
  BY <1>1, <1>4 DEF W!Updated, TraceState
<1>5. CASE r.type = "TraceResumed"
  BY <1>1, <1>5 DEF W!Updated, TraceState
<1> QED
  BY <1>1, <1>2, <1>3, <1>4, <1>5

Updates(s, r, u) ==
  /\ r.type = "NodeStart" =>
       u.started = s.started \cup {r.node} /\ u.completed = s.completed /\ u.last = s.last /\ u.suspended = s.suspended
  /\ r.type = "NodeDone" =>
       /\ u.started = s.started \ {r.node} /\ u.completed = s.completed \cup {r.node}
       /\ u.last = {r.node} /\ u.suspended = s.suspended
  /\ r.type = "TraceSuspended" =>
       u.started = s.started /\ u.completed = s.completed /\ u.last = s.last /\ u.suspended = {r.node}
  /\ r.type = "TraceResumed" =>
       u.started = s.started /\ u.completed = s.completed /\ u.last = s.last /\ u.suspended = {}

LEMMA UpdatedFields ==
  ASSUME NEW s \in TraceState, NEW r \in LogRecord, r.type \notin {"TraceStart", "TraceComplete"}
  PROVE  Updates(s, r, W!Updated(s, r))
<1>0. r.type \in {"NodeStart", "NodeDone", "TraceSuspended", "TraceResumed"}
  BY DEF LogRecord
<1>1. CASE r.type = "NodeStart"
  BY <1>1 DEF W!Updated, TraceState, Updates
<1>2. CASE r.type = "NodeDone"
  BY <1>2 DEF W!Updated, TraceState, Updates
<1>3. CASE r.type = "TraceSuspended"
  BY <1>3 DEF W!Updated, TraceState, Updates
<1>4. CASE r.type = "TraceResumed"
  BY <1>4 DEF W!Updated, TraceState, Updates
<1> QED
  BY <1>0, <1>1, <1>2, <1>3, <1>4

LEMMA UpdatedSame ==
  ASSUME NEW a \in TraceState, NEW b \in TraceState, NEW r \in LogRecord, r.type \notin {"TraceStart", "TraceComplete"},
         SameState(a, b)
  PROVE  SameState(W!Updated(a, r), W!Updated(b, r))
<1>1. r.type \in {"NodeStart", "NodeDone", "TraceSuspended", "TraceResumed"}
  BY DEF LogRecord
<1>2. Updates(a, r, W!Updated(a, r)) /\ Updates(b, r, W!Updated(b, r))
  BY UpdatedFields
<1> QED
  BY <1>1, <1>2 DEF SameState, Updates

LEMMA UpdatedBetween ==
  ASSUME NEW a \in TraceState, NEW w \in TraceState, NEW q \in TraceState,
         NEW r \in LogRecord, r.type \notin {"TraceStart", "TraceComplete"}, Between(a, w, q)
  PROVE  Between(W!Updated(a, r), W!Updated(w, r), q)
<1>1. r.type \in {"NodeStart", "NodeDone", "TraceSuspended", "TraceResumed"}
  BY DEF LogRecord
<1> DEFINE u == W!Updated(a, r)
           v == W!Updated(w, r)
<1>2. Updates(a, r, u) /\ Updates(w, r, v)
  BY UpdatedFields
<1> SUFFICES Between(u, v, q)
  OBVIOUS
<1> HIDE DEF u, v
<1>3. CASE r.type = "NodeStart"
  BY <1>2, <1>3 DEF Between, Updates
<1>4. CASE r.type = "NodeDone"
  BY <1>2, <1>4 DEF Between, Updates
<1>5. CASE r.type = "TraceSuspended"
  BY <1>2, <1>5 DEF Between, Updates
<1>6. CASE r.type = "TraceResumed"
  BY <1>2, <1>6 DEF Between, Updates
<1> QED
  BY <1>1, <1>3, <1>4, <1>5, <1>6

\* What one record does to the traces.
Applies(x, r, y) ==
  /\ Traces(y)
  /\ \A t \in TraceIds : t # r.trace => (t \in DOMAIN y <=> t \in DOMAIN x)
  /\ \A t \in DOMAIN x : t # r.trace => y[t] = x[t]
  /\ r.type = "TraceStart" => r.trace \in DOMAIN y /\ y[r.trace] = W!Fresh
  /\ r.type = "TraceComplete" => r.trace \notin DOMAIN y
  /\ r.type \notin {"TraceStart", "TraceComplete"} =>
       /\ r.trace \in DOMAIN y <=> r.trace \in DOMAIN x
       /\ r.trace \in DOMAIN x => y[r.trace] = W!Updated(x[r.trace], r)

LEMMA Applied ==
  ASSUME NEW x, Traces(x), NEW r \in LogRecord
  PROVE  Applies(x, r, W!ApplyRecord(x, r))
<1> DEFINE y == W!ApplyRecord(x, r)
<1>1. r.trace \in TraceIds
  BY DEF LogRecord
<1>2. CASE r.type = "TraceStart"
  <2>1. y = [t \in DOMAIN x \cup {r.trace} |-> IF t = r.trace THEN W!Fresh ELSE x[t]]
    BY <1>2 DEF W!ApplyRecord
  <2>2. W!Fresh \in TraceState
    BY DEF W!Fresh, TraceState
  <2> QED
    BY <1>1, <1>2, <2>1, <2>2 DEF Traces, Applies
<1>3. CASE r.type = "TraceComplete"
  <2>1. y = [t \in DOMAIN x \ {r.trace} |-> x[t]]
    BY <1>3 DEF W!ApplyRecord
  <2> QED
    BY <1>1, <1>3, <2>1 DEF Traces, Applies
<1>4. CASE r.type \notin {"TraceStart", "TraceComplete"}
  <2>1. y = [t \in DOMAIN x |-> IF t = r.trace THEN W!Updated(x[t], r) ELSE x[t]]
    BY <1>4 DEF W!ApplyRecord
  <2>2. \A t \in DOMAIN x : W!Updated(x[t], r) \in TraceState
    BY <1>4, UpdatedState DEF Traces
  <2> QED
    BY <1>1, <1>4, <2>1, <2>2 DEF Traces, Applies
<1> QED
  BY <1>2, <1>3, <1>4

LEMMA AppliedRepeating ==
  ASSUME NEW x, NEW w, NEW q, Traces(x), Traces(w), Traces(q), NEW r \in LogRecord, Repeating(x, w, q)
  PROVE  Repeating(W!ApplyRecord(x, r), W!ApplyRecord(w, r), q)
<1> DEFINE y == W!ApplyRecord(x, r)
           v == W!ApplyRecord(w, r)
<1>1. Applies(x, r, y) /\ Applies(w, r, v)
  BY Applied
<1> HIDE DEF y, v
<1>2. ASSUME NEW t \in TraceIds
      PROVE  \/ t \in DOMAIN y /\ t \in DOMAIN v /\ SameState(y[t], v[t])
             \/ t \notin DOMAIN y /\ t \notin DOMAIN v
             \/ /\ t \in DOMAIN y <=> t \in DOMAIN q
                /\ t \in DOMAIN y /\ t \in DOMAIN v => Between(y[t], v[t], q[t])
  <2>1. CASE t # r.trace
    BY <1>1, <2>1 DEF Applies, Repeating
  <2>2. CASE t = r.trace /\ r.type = "TraceStart"
    BY <1>1, <2>2 DEF Applies, SameState
  <2>3. CASE t = r.trace /\ r.type = "TraceComplete"
    BY <1>1, <2>3 DEF Applies
  <2>4. CASE t = r.trace /\ r.type \notin {"TraceStart", "TraceComplete"}
    <3>1. /\ t \in DOMAIN y <=> t \in DOMAIN x
          /\ t \in DOMAIN v <=> t \in DOMAIN w
          /\ t \in DOMAIN x => y[t] = W!Updated(x[t], r)
          /\ t \in DOMAIN w => v[t] = W!Updated(w[t], r)
      BY <1>1, <2>4 DEF Applies
    <3>2. CASE t \in DOMAIN x /\ t \in DOMAIN w /\ SameState(x[t], w[t])
      <4>1. SameState(y[t], v[t])
        BY <2>4, <3>1, <3>2, UpdatedSame DEF Traces
      <4> QED
        BY <3>1, <3>2, <4>1
    <3>3. CASE t \in DOMAIN x /\ t \in DOMAIN w /\ t \in DOMAIN q /\ Between(x[t], w[t], q[t])
      <4>1. Between(y[t], v[t], q[t])
        BY <2>4, <3>1, <3>3, UpdatedBetween DEF Traces
      <4> QED
        BY <3>1, <3>3, <4>1
    <3> QED
      BY <3>1, <3>2, <3>3 DEF Repeating
  <2> QED
    BY <2>1, <2>2, <2>3, <2>4
<1>3. Repeating(y, v, q)
  BY <1>2 DEF Repeating
<1> QED
  BY <1>3 DEF y, v

LEMMA AppliedAlike ==
  ASSUME NEW x, NEW w, Traces(x), Traces(w), NEW r \in LogRecord, Alike(x, w)
  PROVE  Alike(W!ApplyRecord(x, r), W!ApplyRecord(w, r))
<1> DEFINE y == W!ApplyRecord(x, r)
           v == W!ApplyRecord(w, r)
<1>1. Applies(x, r, y) /\ Applies(w, r, v)
  BY Applied
<1> HIDE DEF y, v
<1>2. ASSUME NEW t \in TraceIds
      PROVE  /\ t \in DOMAIN y <=> t \in DOMAIN v
             /\ t \in DOMAIN y => SameState(y[t], v[t])
  <2>1. CASE t # r.trace
    BY <1>1, <2>1 DEF Applies, Alike
  <2>2. CASE t = r.trace /\ r.type = "TraceStart"
    BY <1>1, <2>2 DEF Applies, SameState
  <2>3. CASE t = r.trace /\ r.type = "TraceComplete"
    BY <1>1, <2>3 DEF Applies
  <2>4. CASE t = r.trace /\ r.type \notin {"TraceStart", "TraceComplete"}
    <3>1. /\ t \in DOMAIN y <=> t \in DOMAIN x
          /\ t \in DOMAIN v <=> t \in DOMAIN w
          /\ t \in DOMAIN x => y[t] = W!Updated(x[t], r)
          /\ t \in DOMAIN w => v[t] = W!Updated(w[t], r)
      BY <1>1, <2>4 DEF Applies
    <3>2. t \in DOMAIN x => SameState(W!Updated(x[t], r), W!Updated(w[t], r))
      BY <2>4, UpdatedSame DEF Traces, Alike
    <3> QED
      BY <3>1, <3>2 DEF Alike
  <2> QED
    BY <2>1, <2>2, <2>3, <2>4
<1>3. Alike(y, v)
  BY <1>1, <1>2 DEF Alike, Applies, Traces
<1> QED
  BY <1>3 DEF y, v

\* Before the first repetition, and after the last one.
LEMMA RepeatingEnds ==
  ASSUME NEW x, NEW w, NEW q, Traces(x), Traces(w), Traces(q)
  PROVE  /\ Alike(x, q) => Repeating(x, w, q)
         /\ Repeating(x, q, q) => Alike(x, q)
<1>1. ASSUME Alike(x, q) PROVE Repeating(x, w, q)
  BY <1>1 DEF Alike, Repeating, Between, SameState
<1>2. ASSUME Repeating(x, q, q) PROVE Alike(x, q)
  <2>1. ASSUME NEW t \in TraceIds, t \in DOMAIN x \/ t \in DOMAIN q
        PROVE  t \in DOMAIN x /\ t \in DOMAIN q /\ SameState(x[t], q[t])
    <3>1. CASE t \in DOMAIN x /\ t \in DOMAIN q /\ Between(x[t], q[t], q[t])
      <4>1. x[t] \in TraceState /\ q[t] \in TraceState
        BY <3>1 DEF Traces
      <4>2. x[t].started = q[t].started /\ x[t].completed = q[t].completed
        BY <3>1 DEF Between
      <4> QED
        BY <3>1, <4>2 DEF Between, SameState
    <3> QED
      BY <1>2, <2>1, <3>1 DEF Repeating
  <2> QED
    BY <2>1 DEF Alike, Traces
<1> QED
  BY <1>1, <1>2

-----------------------------------------------------------------------------
(* The least of some numbers, the largest of some of the first n, and       *)
(* counting up to a number.                                                 *)
LEMMA LeastNumber ==
  ASSUME NEW I \in SUBSET Nat, I # {}
  PROVE  \E x \in I : \A y \in I : x <= y
<1>1. PICK x \in I : \A y \in I : ~(<<y, x>> \in OpToRel(<, Nat))
  BY NatLessThanWellFounded, WFMin
<1>2. ASSUME NEW y \in I PROVE x <= y
  <2>1. <<y, x>> \in Nat \X Nat /\ <<y, x>>[1] = y /\ <<y, x>>[2] = x
    OBVIOUS
  <2>2. ~(y < x)
    BY <1>1, <2>1 DEF OpToRel
  <2> QED
    BY <2>2
<1> QED
  BY <1>2

LEMMA LargestNumber ==
  ASSUME NEW n \in Nat, NEW I \in SUBSET (0 .. n), I # {}
  PROVE  W!Max(I) \in I
<1> DEFINE J == {n - x : x \in I}
<1>1. \A x \in I : n - x \in Nat /\ n - x \in J
  OBVIOUS
<1>2. J \in SUBSET Nat /\ J # {}
  BY <1>1
<1>3. PICK z \in J : \A y \in J : z <= y
  BY <1>2, LeastNumber
<1>4. PICK x \in I : z = n - x
  BY <1>3
<1>5. ASSUME NEW y \in I PROVE x >= y
  <2>1. n - y \in J /\ x \in 0 .. n /\ y \in 0 .. n
    OBVIOUS
  <2>2. n - x <= n - y
    BY <1>3, <1>4, <2>1
  <2> QED
    BY <2>1, <2>2
<1> QED
  BY <1>5 DEF W!Max

LEMMA Counting ==
  ASSUME NEW m \in Nat, NEW reached, 0 \in reached,
         \A k \in 1 .. m : k - 1 \in reached => k \in reached
  PROVE  \A k \in 0 .. m : k \in reached
<1> DEFINE missed == {k \in 0 .. m : k \notin reached}
<1>1. SUFFICES ASSUME missed # {} PROVE FALSE
  OBVIOUS
<1>2. missed \in SUBSET Nat
  OBVIOUS
<1>3. PICK x \in missed : \A y \in missed : x <= y
  <2> HIDE DEF missed
  <2> QED
    BY <1>1, <1>2, LeastNumber
<1>4. x \in 1 .. m /\ x - 1 \in 0 .. m
  <2>1. x \in 0 .. m /\ x # 0
    OBVIOUS
  <2> QED
    BY <2>1
<1>5. x - 1 \notin missed
  <2> HIDE DEF missed
  <2> QED
    BY <1>3, <1>4
<1> QED
  BY <1>4, <1>5

(* f has the traces after each of the records rs, those in S being applied  *)
(* to the traces s.                                                         *)
FoldStep(f, rs, s, S, k) ==
  IF k = 0 THEN s ELSE IF k \in S THEN W!ApplyRecord(f[k - 1], rs[k]) ELSE f[k - 1]

Fold(f, rs, s, S) ==
  /\ DOMAIN f = 0 .. Len(rs) /\ f[0] = s
  /\ \A k \in 1 .. Len(rs) : f[k] = IF k \in S THEN W!ApplyRecord(f[k - 1], rs[k]) ELSE f[k - 1]

Recursion(f, rs, s, S) == f = [k \in 0 .. Len(rs) |-> FoldStep(f, rs, s, S, k)]

LEMMA FoldExists ==
  ASSUME NEW rs \in Seq(LogRecord), NEW s, NEW S
  PROVE  \E f : Recursion(f, rs, s, S)
<1> DEFINE built == {n \in Nat : \E f : f = [k \in 0 .. n |-> FoldStep(f, rs, s, S, k)]}
<1>1. 0 \in built
  <2> DEFINE f == [k \in 0 .. 0 |-> s]
  <2>1. f = [k \in 0 .. 0 |-> FoldStep(f, rs, s, S, k)]
    BY DEF FoldStep
  <2> QED
    BY <2>1
<1>2. ASSUME NEW n \in 1 .. Len(rs), n - 1 \in built PROVE n \in built
  <2>1. n \in Nat /\ n - 1 \in Nat
    OBVIOUS
  <2>2. PICK f : f = [k \in 0 .. n - 1 |-> FoldStep(f, rs, s, S, k)]
    BY <1>2
  <2> DEFINE g == [k \in 0 .. n |-> IF k = n THEN FoldStep(f, rs, s, S, n) ELSE f[k]]
  <2>3. ASSUME NEW k \in 0 .. n PROVE g[k] = FoldStep(g, rs, s, S, k)
    <3>1. CASE k = 0
      BY <3>1, <2>1, <2>2 DEF FoldStep
    <3>2. CASE k # 0
      <4>1. k - 1 \in 0 .. n - 1 /\ k - 1 # n /\ g[k - 1] = f[k - 1]
        BY <3>2, <2>1
      <4>2. FoldStep(g, rs, s, S, k) = FoldStep(f, rs, s, S, k)
        BY <4>1 DEF FoldStep
      <4>3. CASE k = n
        BY <4>2, <4>3
      <4>4. CASE k # n
        BY <4>2, <4>4, <2>1, <2>2
      <4> QED
        BY <4>3, <4>4
    <3> QED
      BY <3>1, <3>2
  <2>4. g = [k \in 0 .. n |-> g[k]]
    OBVIOUS
  <2> HIDE DEF g
  <2>5. g = [k \in 0 .. n |-> FoldStep(g, rs, s, S, k)]
    BY <2>3, <2>4
  <2> QED
    BY <2>1, <2>5
<1>3. Len(rs) \in Nat
  OBVIOUS
<1> HIDE DEF built
<1>4. \A k \in 0 .. Len(rs) : k \in built
  BY <1>1, <1>2, <1>3, Counting
<1> QED
  BY <1>3, <1>4 DEF built, Recursion

LEMMA ReplayedIs ==
  ASSUME records \in Seq(LogRecord), NEW s, NEW S
  PROVE  Fold(W!Replayed(s, S), records, s, S)
<1> DEFINE f == W!Replayed(s, S)
<1>1. \E g : Recursion(g, records, s, S)
  BY FoldExists
<1>2. f = [k \in 0 .. Len(records) |-> FoldStep(f, records, s, S, k)]
  BY <1>1 DEF Recursion, FoldStep, W!Replayed
<1> HIDE DEF f
<1>3. Len(records) \in Nat
  OBVIOUS
<1>4. Fold(f, records, s, S)
  BY <1>2, <1>3 DEF Fold, FoldStep
<1> QED
  BY <1>4 DEF f

LEMMA FoldTyped ==
  ASSUME NEW rs \in Seq(LogRecord), NEW s, NEW S, NEW f, Fold(f, rs, s, S), Traces(s)
  PROVE  \A k \in 0 .. Len(rs) : Traces(f[k])
<1> DEFINE typed == {k \in Nat : Traces(f[k])}
<1>1. 0 \in typed /\ Len(rs) \in Nat
  BY DEF Fold
<1>2. ASSUME NEW k \in 1 .. Len(rs), k - 1 \in typed PROVE k \in typed
  <2>1. Traces(f[k - 1]) /\ rs[k] \in LogRecord /\ k \in Nat
    BY <1>2
  <2>2. Traces(W!ApplyRecord(f[k - 1], rs[k]))
    BY <2>1, Applied DEF Applies
  <2> QED
    BY <2>1, <2>2 DEF Fold
<1> HIDE DEF typed
<1>3. \A k \in 0 .. Len(rs) : k \in typed
  BY <1>1, <1>2, Counting
<1> QED
  BY <1>3 DEF typed

LEMMA FoldAgrees ==
  ASSUME NEW rs \in Seq(LogRecord), NEW zs \in Seq(LogRecord), NEW s, NEW S, NEW Z, NEW f, NEW g,
         Fold(f, rs, s, S), Fold(g, zs, s, Z),
         NEW n \in Nat, n <= Len(rs), n <= Len(zs),
         \A k \in 1 .. n : rs[k] = zs[k] /\ (k \in S <=> k \in Z)
  PROVE  \A k \in 0 .. n : f[k] = g[k]
<1> DEFINE same == {k \in Nat : f[k] = g[k]}
<1>1. 0 \in same
  BY DEF Fold
<1>2. ASSUME NEW k \in 1 .. n, k - 1 \in same PROVE k \in same
  <2>1. k \in 1 .. Len(rs) /\ k \in 1 .. Len(zs) /\ f[k - 1] = g[k - 1] /\ k \in Nat
    BY <1>2
  <2> QED
    BY <2>1 DEF Fold
<1> HIDE DEF same
<1>3. \A k \in 0 .. n : k \in same
  BY <1>1, <1>2, Counting
<1> QED
  BY <1>3 DEF same

(* Replaying from a position on top of what the log said at a later point   *)
(* leads to what the log says.                                              *)
LEMMA ReplayedTwice ==
  ASSUME NEW rs \in Seq(LogRecord), NEW f, NEW g, NEW s, NEW S, NEW e, Traces(s), Traces(e),
         Fold(f, rs, s, S), Fold(g, rs, e, 1 .. Len(rs)),
         NEW p \in Nat, NEW q \in Nat, NEW m \in Nat, p <= q, q <= m, m <= Len(rs),
         \A k \in 1 .. m : k \in S <=> k > p,
         Alike(s, g[q])
  PROVE  Alike(f[m], g[m])
<1>0. \A k \in 0 .. Len(rs) : Traces(f[k]) /\ Traces(g[k])
  BY FoldTyped
<1>1. Len(rs) \in Nat /\ Traces(g[q])
  BY <1>0
<1> DEFINE Right(k) ==
             /\ k <= p => f[k] = s
             /\ p <= k /\ k <= q => Repeating(f[k], g[k], g[q])
             /\ q <= k => Alike(f[k], g[k])
           right == {k \in Nat : Right(k)}
<1>2. f[0] = s /\ (p = 0 => Repeating(f[0], g[0], g[q])) /\ (q = 0 => Alike(f[0], g[0]))
  <2>1. f[0] = s /\ Traces(g[0])
    BY <1>0, <1>1 DEF Fold
  <2> QED
    BY <2>1, <1>1, RepeatingEnds
<1>3. 0 \in right
  BY <1>2
<1>4. ASSUME NEW k \in 1 .. m, k - 1 \in right PROVE k \in right
  <2>1. k \in Nat /\ k \in 1 .. Len(rs) /\ k - 1 \in 0 .. Len(rs) /\ k \in 0 .. Len(rs) /\ rs[k] \in LogRecord
    BY <1>1
  <2>2. g[k] = W!ApplyRecord(g[k - 1], rs[k]) /\ Traces(f[k - 1]) /\ Traces(g[k - 1]) /\ Traces(f[k]) /\ Traces(g[k])
    BY <2>1, <1>0 DEF Fold
  <2>3. CASE k <= p
    <3>1. f[k] = f[k - 1] /\ f[k - 1] = s
      BY <2>1, <2>3, <1>4 DEF Fold
    <3>2. Repeating(f[k], g[k], g[q])
      BY <3>1, <2>2, <1>1, RepeatingEnds
    <3>3. q <= k => q = k
      BY <2>1, <2>3
    <3> QED
      BY <3>1, <3>2, <3>3, <2>1, <2>3
  <2>4. CASE k > p
    <3>1. f[k] = W!ApplyRecord(f[k - 1], rs[k])
      BY <2>1, <2>4 DEF Fold
    <3>2. CASE k <= q
      <4>1. Repeating(f[k - 1], g[k - 1], g[q])
        BY <1>4, <2>1, <2>4, <3>2
      <4>2. Repeating(f[k], g[k], g[q])
        BY <4>1, <3>1, <2>1, <2>2, <1>1, AppliedRepeating
      <4>3. q <= k => Alike(f[k], g[k])
        BY <4>2, <3>2, <2>1, <2>2, <1>1, RepeatingEnds
      <4> QED
        BY <4>2, <4>3, <2>1, <2>4
    <3>3. CASE k > q
      <4>1. Alike(f[k - 1], g[k - 1])
        BY <1>4, <2>1, <3>3
      <4>2. Alike(f[k], g[k])
        BY <4>1, <3>1, <2>1, <2>2, AppliedAlike
      <4> QED
        BY <4>2, <2>1, <2>4, <3>3
    <3> QED
      BY <3>2, <3>3, <2>1
  <2> QED
    BY <2>3, <2>4, <2>1
<1> HIDE DEF right
<1>5. \A k \in 0 .. m : k \in right
  BY <1>3, <1>4, Counting
<1> QED
  BY <1>5 DEF right

-----------------------------------------------------------------------------
(* The inductive invariant of the snapshots: a clean one has what the log   *)
(* said at some point between its position and what is flushed, which no    *)
(* crash takes back; and above an id that is gone, or is to go, there are   *)
(* as many as are to be retained.                                           *)

Maps == UNION {[T -> TraceState] : T \in SUBSET TraceIds}

SnapTypes ==
  /\ records \in Seq(LogRecord) /\ flushed \in Nat /\ flushed <= Len(records) /\ next_id \in Nat
  /\ made \subseteq Nat /\ \E n \in Nat : DOMAIN snaps \subseteq 0 .. n
  /\ \A id \in DOMAIN snaps : snaps[id] \in [position : Nat, states : Maps, readable : BOOLEAN, clean : BOOLEAN]
  /\ taking \in [Calls -> [pc : {"idle", "states", "write", "list", "remove"}, position : Nat,
                           states : Maps \cup {<<>>}, clean : BOOLEAN, id : Nat, doomed : SUBSET Nat]]

Sound(p, s) == \E q \in p .. flushed : Alike(s, W!After(q))

SnapSound ==
  /\ \A id \in DOMAIN snaps : snaps[id].clean => Sound(snaps[id].position, snaps[id].states)
  /\ \A c \in Calls : taking[c].pc = "write" =>
       taking[c].states \in Maps /\ (taking[c].clean => Sound(taking[c].position, taking[c].states))

Enough(ids, id) == Cardinality({j \in ids : j > id}) >= RetentionCount

SnapKept ==
  /\ \A id \in made \ DOMAIN snaps : Enough(DOMAIN snaps, id)
  /\ \A c \in Calls : \A id \in taking[c].doomed : Enough(DOMAIN snaps, id)

SnapInv == SnapTypes /\ SnapSound /\ SnapKept

LEMMA MapIs ==
  ASSUME NEW x \in Maps \cup {<<>>}
  PROVE  Traces(x)
<1>1. CASE x \in Maps
  <2>1. PICK T \in SUBSET TraceIds : x \in [T -> TraceState]
    BY <1>1 DEF Maps
  <2> QED
    BY <2>1 DEF Traces
<1>2. CASE x = <<>>
  BY <1>2 DEF Traces
<1> QED
  BY <1>1, <1>2

LEMMA Bare ==
  ASSUME NEW x, NEW y, Traces(x), Traces(y)
  PROVE  /\ W!SnapshotStates(x) \in Maps /\ Alike(W!SnapshotStates(x), x)
         /\ Alike(x, y) => W!SnapshotStates(x) = W!SnapshotStates(y)
         /\ Alike(x, y) => Alike(W!SnapshotStates(x), y)
<1> DEFINE b(z) == W!SnapshotStates(z)
           Cleared(s) == [s EXCEPT !.metadata = FALSE]
<1>1. ASSUME NEW s \in TraceState
      PROVE  /\ Cleared(s) \in TraceState /\ SameState(Cleared(s), s)
             /\ Cleared(s) = [started |-> s.started, completed |-> s.completed, last |-> s.last,
                              suspended |-> s.suspended, metadata |-> FALSE]
  <2>1. Cleared(s) \in TraceState
    BY DEF TraceState
  <2>2. SameState(Cleared(s), s)
    BY DEF TraceState, SameState
  <2>3. Cleared(s) = [started |-> s.started, completed |-> s.completed, last |-> s.last,
                      suspended |-> s.suspended, metadata |-> FALSE]
    <3>1. ASSUME NEW u \in TraceState
          PROVE  u = [started |-> u.started, completed |-> u.completed, last |-> u.last,
                      suspended |-> u.suspended, metadata |-> u.metadata]
      BY DEF TraceState
    <3>2. Cleared(s).metadata = FALSE
      BY DEF TraceState
    <3> HIDE DEF Cleared
    <3> QED
      BY <2>1, <2>2, <3>1, <3>2 DEF SameState
  <2> QED
    BY <2>1, <2>2, <2>3
<1>2. /\ DOMAIN b(x) = DOMAIN x /\ \A t \in DOMAIN x : b(x)[t] = Cleared(x[t])
      /\ DOMAIN b(y) = DOMAIN y /\ \A t \in DOMAIN y : b(y)[t] = Cleared(y[t])
      /\ b(x) = [t \in DOMAIN x |-> Cleared(x[t])]
      /\ b(y) = [t \in DOMAIN y |-> Cleared(y[t])]
  BY DEF W!SnapshotStates
<1> HIDE DEF Cleared, b
<1>3. b(x) \in Maps
  <2>0. \A t \in DOMAIN x : Cleared(x[t]) \in TraceState
    BY <1>1 DEF Traces
  <2>1. b(x) \in [DOMAIN x -> TraceState]
    BY <1>2, <2>0
  <2> QED
    BY <2>1 DEF Maps, Traces
<1>4. Alike(b(x), x)
  BY <1>1, <1>2 DEF Alike, Traces
<1>5. ASSUME Alike(x, y) PROVE b(x) = b(y) /\ Alike(b(x), y)
  <2>1. DOMAIN x = DOMAIN y /\ \A t \in DOMAIN x : x[t] \in TraceState /\ y[t] \in TraceState /\ SameState(x[t], y[t])
    BY <1>5 DEF Alike, Traces
  <2>2. ASSUME NEW t \in DOMAIN x PROVE Cleared(x[t]) = Cleared(y[t])
    <3>1. Cleared(x[t]) = [started |-> x[t].started, completed |-> x[t].completed, last |-> x[t].last,
                           suspended |-> x[t].suspended, metadata |-> FALSE]
      BY <1>1, <2>1
    <3>2. Cleared(y[t]) = [started |-> y[t].started, completed |-> y[t].completed, last |-> y[t].last,
                           suspended |-> y[t].suspended, metadata |-> FALSE]
      BY <1>1, <2>1
    <3> QED
      BY <3>1, <3>2, <2>1 DEF SameState
  <2>3. b(x) = b(y)
    BY <1>2, <2>1, <2>2
  <2>4. Alike(b(x), y)
    BY <1>4, <2>1 DEF Alike, SameState
  <2> QED
    BY <2>3, <2>4
<1> QED
  BY <1>3, <1>4, <1>5 DEF b

\* What the log says at a point, now and after a step that keeps the records up to there.
LEMMA AfterIs ==
  ASSUME records \in Seq(LogRecord)
  PROVE  /\ W!After(0) = <<>>
         /\ \A k \in 0 .. Len(records) : Traces(W!After(k))
<1> DEFINE g == W!Replayed(<<>>, 1 .. Len(records))
<1>1. Fold(g, records, <<>>, 1 .. Len(records)) /\ \A k : W!After(k) = g[k]
  BY ReplayedIs DEF W!After
<1> HIDE DEF g
<1>2. Traces(<<>>)
  BY MapIs
<1>3. \A k \in 0 .. Len(records) : Traces(g[k])
  BY <1>1, <1>2, FoldTyped
<1> QED
  BY <1>1, <1>3 DEF Fold

LEMMA AfterStays ==
  ASSUME records \in Seq(LogRecord), records' \in Seq(LogRecord), NEW n \in Nat,
         n <= Len(records), n <= Len(records'), \A k \in 1 .. n : records'[k] = records[k]
  PROVE  \A k \in 0 .. n : W!After(k)' = W!After(k)
<1> DEFINE f == W!Replayed(<<>>, 1 .. Len(records))
           g == f'
<1>1. Fold(f, records, <<>>, 1 .. Len(records))
  BY ReplayedIs
<1>2. Fold(g, records', <<>>, 1 .. Len(records'))
  <2>1. \E h : Recursion(h, records', <<>>, 1 .. Len(records'))
    BY FoldExists
  <2>2. g = [k \in 0 .. Len(records') |-> FoldStep(g, records', <<>>, 1 .. Len(records'), k)]
    BY <2>1 DEF Recursion, FoldStep, W!Replayed
  <2> HIDE DEF g
  <2>3. Len(records') \in Nat
    OBVIOUS
  <2> QED
    BY <2>2, <2>3 DEF Fold, FoldStep
<1>3. (\A k : W!After(k) = f[k]) /\ (\A k : W!After(k)' = g[k])
  BY DEF W!After
<1> HIDE DEF f, g
<1>4. \A k \in 1 .. n : k \in 1 .. Len(records) <=> k \in 1 .. Len(records')
  OBVIOUS
<1>5. \A k \in 0 .. n : f[k] = g[k]
  BY <1>1, <1>2, <1>4, FoldAgrees
<1> QED
  BY <1>3, <1>5

\* The snapshot that recovery starts from, and what comes of it.
LEMMA LatestIs ==
  ASSUME SnapTypes, SnapSound
  PROVE  /\ W!LoadLatest.position \in Nat /\ Traces(W!LoadLatest.states) /\ W!LoadLatest.clean \in BOOLEAN
         /\ W!LoadLatest.clean => Sound(W!LoadLatest.position, W!LoadLatest.states)
<1>1. CASE W!Readable = {}
  <2>1. W!LoadLatest = [position |-> 0, states |-> <<>>, clean |-> TRUE]
    BY <1>1 DEF W!LoadLatest
  <2>2. 0 \in 0 .. flushed /\ Alike(<<>>, W!After(0))
    BY AfterIs DEF SnapTypes, Alike
  <2>3. Sound(0, <<>>)
    BY <2>2 DEF Sound
  <2>4. Traces(<<>>)
    BY MapIs
  <2> QED
    BY <2>1, <2>3, <2>4
<1>2. CASE W!Readable # {}
  <2> DEFINE id == W!Max(W!Readable)
  <2>1. PICK n \in Nat : DOMAIN snaps \subseteq 0 .. n
    BY DEF SnapTypes
  <2>2. W!Readable \in SUBSET (0 .. n) /\ W!Readable \subseteq DOMAIN snaps
    BY <2>1 DEF W!Readable
  <2>3. id \in DOMAIN snaps
    BY <1>2, <2>2, LargestNumber
  <2>4. W!LoadLatest = snaps[id]
    BY <1>2 DEF W!LoadLatest
  <2> HIDE DEF id
  <2>5. snaps[id] \in [position : Nat, states : Maps, readable : BOOLEAN, clean : BOOLEAN]
    BY <2>3 DEF SnapTypes
  <2>6. snaps[id].position \in Nat /\ snaps[id].states \in Maps /\ snaps[id].clean \in BOOLEAN
    BY <2>5
  <2>7. Traces(snaps[id].states)
    BY <2>6, MapIs
  <2>8. snaps[id].clean => Sound(snaps[id].position, snaps[id].states)
    BY <2>3 DEF SnapSound
  <2> QED
    BY <2>4, <2>6, <2>7, <2>8
<1> QED
  BY <1>1, <1>2

LEMMA RecoveredIs ==
  ASSUME SnapTypes, SnapSound
  PROVE  /\ Traces(W!Recovered)
         /\ W!LoadLatest.clean /\ W!Covered => Alike(W!Recovered, W!After(flushed))
<1> DEFINE p == W!LoadLatest.position
           s == W!LoadLatest.states
           S == W!ReadFrom(p)
           f == W!Replayed(s, S)
           g == W!Replayed(<<>>, 1 .. Len(records))
<1>1. /\ p \in Nat /\ Traces(s) /\ Traces(<<>>) /\ records \in Seq(LogRecord)
      /\ flushed \in Nat /\ flushed <= Len(records) /\ Len(records) \in Nat
  BY LatestIs, MapIs DEF SnapTypes
<1>2. Fold(f, records, s, S) /\ Fold(g, records, <<>>, 1 .. Len(records))
  BY <1>1, ReplayedIs
<1>3. W!Recovered = f[flushed] /\ \A k : W!After(k) = g[k]
  BY DEF W!Recovered, W!GetIncompleteTracesFrom, W!After
<1>4. W!Covered => \A k \in 1 .. flushed : k \in S <=> k > p
  BY DEF W!Covered, W!ReadFrom
<1>5. W!LoadLatest.clean => \E q \in p .. flushed : Alike(s, g[q])
  <2>1. W!LoadLatest.clean => Sound(p, s)
    BY LatestIs
  <2> HIDE DEF p, s, g
  <2> QED
    BY <2>1, <1>3 DEF Sound
<1> HIDE DEF p, s, S, f, g
<1>6. Traces(f[flushed])
  <2>1. \A k \in 0 .. Len(records) : Traces(f[k])
    BY <1>1, <1>2, FoldTyped
  <2> QED
    BY <1>1, <2>1
<1>7. ASSUME W!LoadLatest.clean, W!Covered PROVE Alike(f[flushed], g[flushed])
  <2>1. PICK q \in p .. flushed : Alike(s, g[q])
    BY <1>5, <1>7
  <2>2. \A k \in 1 .. flushed : k \in S <=> k > p
    BY <1>4, <1>7
  <2>3. q \in Nat /\ p <= q /\ q <= flushed
    BY <1>1
  <2> QED
    BY <1>1, <1>2, <2>1, <2>2, <2>3, ReplayedTwice
<1> QED
  BY <1>3, <1>6, <1>7

\* What is next written is a record of a trace that is known, or of a new one.
LEMMA NextRecordIs ==
  ASSUME SnapTypes, NEW r \in W!NextRecords
  PROVE  r \in LogRecord
<1> DEFINE x == W!Whole
<1>1. Traces(x)
  <2>1. Len(records) \in 0 .. Len(records) /\ records \in Seq(LogRecord)
    BY DEF SnapTypes
  <2> QED
    BY <2>1, AfterIs DEF W!Whole
<1> HIDE DEF x
<1>2. CASE \E t \in TraceIds : r = W!Record("TraceStart", t, 0)
  BY <1>2 DEF W!Record, LogRecord
<1>3. ASSUME NEW t \in DOMAIN x,
             \/ r = W!Record("TraceResumed", t, 0) \/ r = W!Record("TraceComplete", t, 0)
             \/ \E n \in NodeIds \cup x[t].started :
                  r \in {W!Record("NodeStart", t, n), W!Record("NodeDone", t, n), W!Record("TraceSuspended", t, n)}
      PROVE  r \in LogRecord
  <2>1. t \in TraceIds /\ x[t].started \subseteq NodeIds \cup {0}
    BY <1>1 DEF Traces, TraceState
  <2> QED
    BY <1>3, <2>1 DEF W!Record, LogRecord
<1>4. \/ \E t \in TraceIds : r = W!Record("TraceStart", t, 0)
      \/ \E t \in DOMAIN x :
           \/ r = W!Record("TraceResumed", t, 0) \/ r = W!Record("TraceComplete", t, 0)
           \/ \E n \in NodeIds \cup x[t].started :
                r \in {W!Record("NodeStart", t, n), W!Record("NodeDone", t, n), W!Record("TraceSuspended", t, n)}
  BY DEF W!NextRecords, x
<1> QED
  BY <1>2, <1>3, <1>4

-----------------------------------------------------------------------------
\* The records that are flushed are kept.
LogGrows ==
  /\ records' \in Seq(LogRecord) /\ flushed' \in Nat /\ flushed <= flushed' /\ flushed' <= Len(records')
  /\ \A k \in 1 .. flushed : records'[k] = records[k]

LEMMA SoundStays ==
  ASSUME SnapTypes, LogGrows, NEW p \in Nat, NEW s, Sound(p, s)
  PROVE  \E q \in p .. flushed' : Alike(s, W!After(q)')
<1>1. PICK q \in p .. flushed : Alike(s, W!After(q))
  BY DEF Sound
<1>2. /\ records \in Seq(LogRecord) /\ records' \in Seq(LogRecord) /\ flushed \in Nat /\ flushed' \in Nat
      /\ flushed <= Len(records) /\ flushed <= flushed' /\ flushed' <= Len(records')
      /\ Len(records) \in Nat /\ Len(records') \in Nat
  BY DEF SnapTypes, LogGrows
<1>3. flushed <= Len(records')
  BY <1>2
<1>4. \A k \in 0 .. flushed : W!After(k)' = W!After(k)
  BY <1>2, <1>3, AfterStays DEF LogGrows
<1>5. q \in 0 .. flushed /\ q \in p .. flushed'
  BY <1>2
<1> QED
  BY <1>1, <1>4, <1>5

CallType ==
  [pc : {"idle", "states", "write", "list", "remove"}, position : Nat,
   states : Maps \cup {<<>>}, clean : BOOLEAN, id : Nat, doomed : SUBSET Nat]

SnapType == [position : Nat, states : Maps, readable : BOOLEAN, clean : BOOLEAN]

LEMMA IdleIs == W!Idle \in CallType /\ W!Idle.pc = "idle" /\ W!Idle.doomed = {}
BY DEF W!Idle, CallType

\* A step of the log, or a crash.
LEMMA LogStep ==
  ASSUME SnapInv, LogGrows, snaps' = snaps, made' = made, next_id' \in Nat,
         taking' = taking \/ taking' = [c \in Calls |-> W!Idle]
  PROVE  SnapInv'
<1>1. SnapTypes /\ SnapSound /\ SnapKept
  BY DEF SnapInv
<1>2. taking \in [Calls -> CallType] /\ \A id \in DOMAIN snaps : snaps[id] \in SnapType
  BY <1>1 DEF SnapTypes, CallType, SnapType
<1>3. taking' \in [Calls -> CallType] /\ \A c \in Calls : taking'[c] = taking[c] \/ taking'[c] = W!Idle
  BY <1>2, IdleIs
<1>4. SnapTypes'
  BY <1>1, <1>3 DEF SnapTypes, LogGrows, CallType
<1>5. SnapKept'
  BY <1>1, <1>3, IdleIs DEF SnapKept
<1>6. ASSUME NEW id \in DOMAIN snaps, snaps[id].clean
      PROVE  \E q \in snaps[id].position .. flushed' : Alike(snaps[id].states, W!After(q)')
  <2>1. Sound(snaps[id].position, snaps[id].states) /\ snaps[id].position \in Nat
    BY <1>1, <1>2, <1>6 DEF SnapSound, SnapType
  <2> QED
    BY <1>1, <2>1, SoundStays
<1>7. ASSUME NEW c \in Calls, taking'[c].pc = "write"
      PROVE  /\ taking'[c].states \in Maps
             /\ taking'[c].clean => \E q \in taking'[c].position .. flushed' : Alike(taking'[c].states, W!After(q)')
  <2>1. taking'[c] = taking[c]
    BY <1>3, <1>7, IdleIs
  <2>2. taking[c].states \in Maps /\ taking[c].position \in Nat
        /\ (taking[c].clean => Sound(taking[c].position, taking[c].states))
    BY <1>1, <1>2, <1>7, <2>1 DEF SnapSound, CallType
  <2> QED
    BY <1>1, <2>1, <2>2, SoundStays
<1>8. SnapSound'
  BY <1>6, <1>7 DEF SnapSound, Sound
<1> QED
  BY <1>4, <1>5, <1>8 DEF SnapInv

\* A step of a call of create_snapshot.
LEMMA CallStep ==
  ASSUME SnapInv, UNCHANGED <<records, flushed>>, NEW c \in Calls, NEW to \in CallType,
         taking' = [taking EXCEPT ![c] = to], next_id' \in Nat, made' \subseteq Nat,
         \E n \in Nat : DOMAIN snaps' \subseteq 0 .. n,
         \A id \in DOMAIN snaps' : snaps'[id] \in SnapType,
         \A id \in DOMAIN snaps' : \/ id \in DOMAIN snaps /\ snaps'[id] = snaps[id]
                                   \/ snaps'[id].clean => Sound(snaps'[id].position, snaps'[id].states),
         to.pc = "write" => to.states \in Maps /\ (to.clean => Sound(to.position, to.states)),
         SnapKept'
  PROVE  SnapInv'
<1>1. SnapTypes /\ SnapSound
  BY DEF SnapInv
<1>2. taking \in [Calls -> CallType]
  BY <1>1 DEF SnapTypes, CallType
<1>3. taking' \in [Calls -> CallType] /\ taking'[c] = to /\ \A d \in Calls : d # c => taking'[d] = taking[d]
  BY <1>2
<1>4. LogGrows
  BY <1>1 DEF LogGrows, SnapTypes
<1>5. SnapTypes'
  BY <1>1, <1>3 DEF SnapTypes, CallType, SnapType
<1>6. ASSUME NEW id \in DOMAIN snaps', snaps'[id].clean
      PROVE  \E q \in snaps'[id].position .. flushed' : Alike(snaps'[id].states, W!After(q)')
  <2>1. Sound(snaps'[id].position, snaps'[id].states) /\ snaps'[id].position \in Nat
    BY <1>1, <1>6 DEF SnapSound, SnapType
  <2> QED
    BY <1>1, <1>4, <2>1, SoundStays
<1>7. ASSUME NEW d \in Calls, taking'[d].pc = "write"
      PROVE  /\ taking'[d].states \in Maps
             /\ taking'[d].clean => \E q \in taking'[d].position .. flushed' : Alike(taking'[d].states, W!After(q)')
  <2>1. taking'[d].states \in Maps /\ taking'[d].position \in Nat
        /\ (taking'[d].clean => Sound(taking'[d].position, taking'[d].states))
    <3>1. CASE d = c
      BY <1>3, <1>7, <3>1 DEF CallType
    <3>2. CASE d # c
      BY <1>1, <1>2, <1>3, <1>7, <3>2 DEF SnapSound, CallType
    <3> QED
      BY <3>1, <3>2
  <2> QED
    BY <1>1, <1>4, <2>1, SoundStays
<1>8. SnapSound'
  BY <1>6, <1>7 DEF SnapSound, Sound
<1> QED
  BY <1>5, <1>8 DEF SnapInv

\* Above an id there are no fewer when more are there, and still enough when one is gone that had enough above it.
LEMMA EnoughStays ==
  ASSUME NEW n \in Nat, NEW ids \in SUBSET (0 .. n), NEW id \in Nat, Enough(ids, id)
  PROVE  /\ \A d \in Nat : Enough(ids \cup {d}, id)
         /\ \A d \in Nat : Enough(ids, d) => Enough(ids \ {d}, id)
<1> DEFINE above(S, k) == {j \in S : j > k}
<1>0. IsFiniteSet(0 .. n)
  BY FS_Interval
<1>1. IsFiniteSet(ids) /\ RetentionCount \in Nat
  BY <1>0, FS_Subset, JournalAssumption DEF W!SnapshotConstants
<1>2. ASSUME NEW S, NEW T, IsFiniteSet(T), S \subseteq T, Cardinality(S) >= RetentionCount
      PROVE  Cardinality(T) >= RetentionCount
  <2>1. IsFiniteSet(S) /\ Cardinality(S) <= Cardinality(T) /\ Cardinality(S) \in Nat /\ Cardinality(T) \in Nat
    BY <1>2, FS_Subset, FS_CardinalityType
  <2> QED
    BY <1>1, <1>2, <2>1
<1>3. ASSUME NEW d \in Nat PROVE Enough(ids \cup {d}, id)
  <2>1. IsFiniteSet(above(ids \cup {d}, id)) /\ above(ids, id) \subseteq above(ids \cup {d}, id)
    <3>1. IsFiniteSet(ids \cup {d})
      BY <1>1, FS_AddElement
    <3> QED
      BY <3>1, FS_Subset
  <2> HIDE DEF above
  <2> QED
    BY <1>2, <2>1 DEF Enough, above
<1>4. ASSUME NEW d \in Nat, Enough(ids, d) PROVE Enough(ids \ {d}, id)
  <2>1. IsFiniteSet(above(ids \ {d}, id))
    BY <1>1, FS_Subset
  <2>2. CASE id < d
    <3>1. above(ids, d) \subseteq above(ids \ {d}, id)
      <4>1. ASSUME NEW j \in ids, j > d PROVE j > id /\ j # d
        <5>1. j \in Nat
          OBVIOUS
        <5> QED
          BY <2>2, <4>1, <5>1
      <4> QED
        BY <4>1
    <3> QED
      BY <1>2, <1>4, <2>1, <3>1 DEF Enough
  <2>3. CASE ~(id < d)
    <3>1. above(ids, id) \subseteq above(ids \ {d}, id)
      BY <2>3
    <3> QED
      BY <1>2, <2>1, <3>1 DEF Enough
  <2> QED
    BY <2>2, <2>3
<1> QED
  BY <1>3, <1>4
LEMMA SnapStarts ==
  ASSUME W!Init
  PROVE  SnapInv
<1>1. records = <<>> /\ flushed = 0 /\ snaps = <<>> /\ made = {} /\ next_id = 1 /\ taking = [c \in Calls |-> W!Idle]
  BY DEF W!Init
<1>2. DOMAIN snaps = {} /\ records \in Seq(LogRecord) /\ Len(records) = 0 /\ DOMAIN snaps \subseteq 0 .. 0
  BY <1>1
<1>3. taking \in [Calls -> CallType] /\ \A c \in Calls : taking[c] = W!Idle
  BY <1>1, IdleIs
<1>4. SnapTypes
  BY <1>1, <1>2, <1>3 DEF SnapTypes, CallType
<1>5. SnapSound
  BY <1>2, <1>3, IdleIs DEF SnapSound
<1>6. SnapKept
  BY <1>1, <1>3, IdleIs DEF SnapKept
<1> QED
  BY <1>4, <1>5, <1>6 DEF SnapInv

\* Write, Flush and Purge.
LEMMA LogIsWritten ==
  ASSUME SnapInv, (\E r \in W!NextRecords : W!Write(r)) \/ W!Flush \/ W!Purge
  PROVE  SnapInv'
<1>1. SnapTypes
  BY DEF SnapInv
<1>2. records \in Seq(LogRecord) /\ flushed \in Nat /\ flushed <= Len(records) /\ next_id \in Nat /\ Len(records) \in Nat
  BY <1>1 DEF SnapTypes
<1>3. CASE \E r \in W!NextRecords : W!Write(r)
  <2>1. PICK r \in W!NextRecords : W!Write(r)
    BY <1>3
  <2>2. r \in LogRecord
    BY <1>1, NextRecordIs
  <2>3. /\ records' = Append(records, r) /\ UNCHANGED <<snaps, made, next_id, taking>>
        /\ flushed' = Len(records) + 1 \/ flushed' = Len(records) \/ flushed' = flushed
    BY <2>1 DEF W!Write
  <2>4. /\ records' \in Seq(LogRecord) /\ Len(records') = Len(records) + 1
        /\ \A k \in 1 .. Len(records) : records'[k] = records[k]
    BY <1>2, <2>2, <2>3
  <2>5. LogGrows
    BY <1>2, <2>3, <2>4 DEF LogGrows
  <2> QED
    BY <1>2, <2>3, <2>5, LogStep
<1>4. CASE W!Flush \/ W!Purge
  <2>1. /\ UNCHANGED <<records, snaps, made, next_id, taking>>
        /\ flushed' = Len(records) \/ flushed' = flushed
    BY <1>4 DEF W!Flush, W!Purge
  <2>2. LogGrows
    BY <1>2, <2>1 DEF LogGrows
  <2> QED
    BY <1>2, <2>1, <2>2, LogStep
<1> QED
  BY <1>3, <1>4

LEMMA LogSurvives ==
  ASSUME SnapInv, W!Crash
  PROVE  SnapInv'
<1>1. SnapTypes
  BY DEF SnapInv
<1>2. records \in Seq(LogRecord) /\ flushed \in Nat /\ flushed <= Len(records) /\ next_id \in Nat /\ Len(records) \in Nat
  BY <1>1 DEF SnapTypes
<1>3. PICK k \in flushed .. Len(records) : records' = SubSeq(records, 1, k) /\ flushed' = k
  BY DEF W!Crash
<1>4. /\ taking' = [c \in Calls |-> W!Idle] /\ UNCHANGED <<snaps, made>>
      /\ next_id' = IF DOMAIN snaps = {} THEN 1 ELSE W!Max(DOMAIN snaps) + 1
  BY DEF W!Crash
<1>5. next_id' \in Nat
  <2>1. PICK n \in Nat : DOMAIN snaps \subseteq 0 .. n
    BY <1>1 DEF SnapTypes
  <2>2. DOMAIN snaps # {} => W!Max(DOMAIN snaps) \in DOMAIN snaps
    BY <2>1, LargestNumber
  <2>3. CASE DOMAIN snaps = {}
    BY <1>4, <2>3
  <2>4. CASE DOMAIN snaps # {}
    <3> DEFINE top == W!Max(DOMAIN snaps)
    <3>1. top \in Nat /\ next_id' = top + 1
      BY <1>4, <2>1, <2>2, <2>4
    <3> HIDE DEF top
    <3> QED
      BY <3>1
  <2> QED
    BY <2>3, <2>4
<1>6. /\ records' \in Seq(LogRecord) /\ Len(records') = k
      /\ \A j \in 1 .. k : records'[j] = records[j]
  BY <1>2, <1>3
<1>7. LogGrows
  BY <1>2, <1>3, <1>6 DEF LogGrows
<1> QED
  BY <1>4, <1>5, <1>7, LogStep

\* A file that cannot be read any more is as sound as before.
LEMMA SnapSpoils ==
  ASSUME SnapInv, W!Spoil
  PROVE  SnapInv'
<1>1. SnapTypes /\ SnapSound /\ SnapKept
  BY DEF SnapInv
<1>2. UNCHANGED <<records, flushed, made, next_id, taking>>
  BY DEF W!Spoil, W!KeepLog
<1>3. PICK d \in DOMAIN snaps : snaps' = [snaps EXCEPT ![d].readable = FALSE]
  BY DEF W!Spoil, W!Readable
<1>4. /\ DOMAIN snaps' = DOMAIN snaps
      /\ \A id \in DOMAIN snaps : id # d => snaps'[id] = snaps[id]
      /\ snaps'[d] = [snaps[d] EXCEPT !.readable = FALSE]
  BY <1>3
<1>5. ASSUME NEW id \in DOMAIN snaps
      PROVE  /\ snaps'[id] \in SnapType /\ snaps'[id].position = snaps[id].position
             /\ snaps'[id].states = snaps[id].states /\ snaps'[id].clean = snaps[id].clean
             /\ snaps[id].position \in Nat
  <2>1. snaps[id] \in SnapType
    BY <1>1 DEF SnapTypes, SnapType
  <2> QED
    BY <1>4, <2>1 DEF SnapType
<1>6. LogGrows
  BY <1>1, <1>2 DEF LogGrows, SnapTypes
<1>7. SnapTypes'
  BY <1>1, <1>2, <1>4, <1>5 DEF SnapTypes, SnapType
<1>8. SnapKept'
  BY <1>1, <1>2, <1>4 DEF SnapKept
<1>9. ASSUME NEW id \in DOMAIN snaps', snaps'[id].clean
      PROVE  \E q \in snaps'[id].position .. flushed' : Alike(snaps'[id].states, W!After(q)')
  <2>1. Sound(snaps[id].position, snaps[id].states)
    BY <1>1, <1>4, <1>5, <1>9 DEF SnapSound
  <2> QED
    BY <1>1, <1>4, <1>5, <1>6, <2>1, SoundStays
<1>10. ASSUME NEW c \in Calls, taking'[c].pc = "write"
       PROVE  /\ taking'[c].states \in Maps
              /\ taking'[c].clean => \E q \in taking'[c].position .. flushed' : Alike(taking'[c].states, W!After(q)')
  <2>1. taking[c].states \in Maps /\ taking[c].position \in Nat
        /\ (taking[c].clean => Sound(taking[c].position, taking[c].states))
    BY <1>1, <1>2, <1>10 DEF SnapSound, SnapTypes
  <2> QED
    BY <1>1, <1>2, <1>6, <2>1, SoundStays
<1>11. SnapSound'
  BY <1>9, <1>10 DEF SnapSound, Sound
<1> QED
  BY <1>7, <1>8, <1>11 DEF SnapInv
\* What a call holds, by the type of its fields.
LEMMA CallIs ==
  ASSUME SnapInv, NEW c \in Calls
  PROVE  /\ taking[c] \in CallType /\ taking[c].position \in Nat /\ taking[c].clean \in BOOLEAN
         /\ taking[c].id \in Nat /\ taking[c].doomed \in SUBSET Nat
         /\ taking[c].pc = "write" =>
              taking[c].states \in Maps /\ (taking[c].clean => Sound(taking[c].position, taking[c].states))
<1>1. taking \in [Calls -> CallType] /\ SnapSound
  BY DEF SnapInv, SnapTypes, CallType
<1> QED
  BY <1>1 DEF CallType, SnapSound

\* TakePosition, TakeStates, WriteFails and List leave the snapshots alone.
LEMMA CallAlone ==
  ASSUME SnapInv, UNCHANGED <<records, flushed, snaps, made>>, next_id' \in Nat, NEW c \in Calls, NEW to \in CallType,
         taking' = [taking EXCEPT ![c] = to],
         to.pc = "write" => to.states \in Maps /\ (to.clean => Sound(to.position, to.states)),
         \A id \in to.doomed : Enough(DOMAIN snaps, id)
  PROVE  SnapInv'
<1>1. SnapTypes /\ SnapKept /\ taking \in [Calls -> CallType]
  BY DEF SnapInv, SnapTypes, CallType
<1>2. SnapKept'
  BY <1>1 DEF SnapKept
<1>3. /\ made' \subseteq Nat /\ \E n \in Nat : DOMAIN snaps' \subseteq 0 .. n
      /\ \A id \in DOMAIN snaps' : snaps'[id] \in SnapType
      /\ \A id \in DOMAIN snaps' : id \in DOMAIN snaps /\ snaps'[id] = snaps[id]
  BY <1>1 DEF SnapTypes, SnapType
<1> QED
  BY <1>2, <1>3, CallStep

LEMMA PositionTaken ==
  ASSUME SnapInv, NEW c \in Calls, W!TakePosition(c)
  PROVE  SnapInv'
<1> DEFINE to == [W!Idle EXCEPT !.pc = "states", !.position = Len(records)]
<1>1. UNCHANGED <<records, flushed, snaps, made, next_id>> /\ taking' = [taking EXCEPT ![c] = to]
  BY DEF W!TakePosition, W!Step, W!KeepLog
<1>2. Len(records) \in Nat /\ next_id \in Nat
  BY DEF SnapInv, SnapTypes
<1>3. to \in CallType /\ to.pc = "states" /\ to.doomed = {}
  BY <1>2 DEF W!Idle, CallType
<1> HIDE DEF to
<1> QED
  BY <1>1, <1>2, <1>3, CallAlone

LEMMA StatesTaken ==
  ASSUME SnapInv, NEW c \in Calls, W!TakeStates(c)
  PROVE  SnapInv'
<1> DEFINE x == W!SnapshotStates(W!Recovered)
           clean == W!LoadLatest.clean /\ W!Covered /\ flushed >= taking[c].position
           to == [taking[c] EXCEPT !.pc = "write", !.states = x, !.clean = clean, !.id = next_id]
<1>1. /\ UNCHANGED <<records, flushed, snaps, made>> /\ taking' = [taking EXCEPT ![c] = to]
      /\ next_id' = next_id + 1
  BY DEF W!TakeStates, W!Step, W!KeepLog
<1>2. SnapTypes /\ SnapSound /\ SnapKept
  BY DEF SnapInv
<1>3. next_id \in Nat /\ flushed \in Nat /\ records \in Seq(LogRecord) /\ flushed <= Len(records)
  BY <1>2 DEF SnapTypes
<1>4. taking[c] \in CallType /\ taking[c].position \in Nat
  BY CallIs
<1>5. x \in Maps /\ (clean => Sound(taking[c].position, x))
  <2>1. Traces(W!Recovered) /\ Traces(W!After(flushed))
    <3>1. flushed \in 0 .. Len(records)
      BY <1>3
    <3> QED
      BY <1>2, <1>3, <3>1, RecoveredIs, AfterIs
  <2>2. x \in Maps
    BY <2>1, Bare
  <2>3. ASSUME clean PROVE Sound(taking[c].position, x)
    <3>1. Alike(W!Recovered, W!After(flushed))
      BY <1>2, <2>3, RecoveredIs
    <3>2. Alike(x, W!After(flushed))
      BY <2>1, <3>1, Bare
    <3>3. flushed \in taking[c].position .. flushed
      BY <1>3, <1>4, <2>3
    <3> QED
      BY <3>2, <3>3 DEF Sound
  <2> QED
    BY <2>2, <2>3
<1>6. clean \in BOOLEAN
  <2>1. (W!Covered) \in BOOLEAN
    BY DEF W!Covered
  <2>2. W!LoadLatest.clean \in BOOLEAN
    BY <1>2, LatestIs
  <2> QED
    BY <2>1, <2>2
<1> HIDE DEF x, clean
<1>7. /\ to \in CallType /\ to.position = taking[c].position /\ to.states = x /\ to.clean = clean
      /\ to.doomed = taking[c].doomed
  BY <1>3, <1>4, <1>5, <1>6 DEF CallType
<1> HIDE DEF to
<1>8. to.pc = "write" => to.states \in Maps /\ (to.clean => Sound(to.position, to.states))
  BY <1>5, <1>7
<1>9. \A id \in to.doomed : Enough(DOMAIN snaps, id)
  BY <1>2, <1>7 DEF SnapKept
<1>10. next_id' \in Nat
  BY <1>1, <1>3
<1> QED
  BY <1>1, <1>7, <1>8, <1>9, <1>10, CallAlone

LEMMA SnapWritten ==
  ASSUME SnapInv, NEW c \in Calls, W!Rename(c)
  PROVE  SnapInv'
<1> DEFINE to == [taking[c] EXCEPT !.pc = "list"]
           d == taking[c].id
           new == [position |-> taking[c].position, states |-> taking[c].states,
                   readable |-> TRUE, clean |-> taking[c].clean]
<1>1. /\ UNCHANGED <<records, flushed, next_id>> /\ taking' = [taking EXCEPT ![c] = to]
      /\ made' = made \cup {d} /\ taking[c].pc = "write"
      /\ snaps' = [id \in DOMAIN snaps \cup {d} |-> IF id # d THEN snaps[id] ELSE new]
  BY DEF W!Rename, W!Step, W!KeepLog
<1>2. SnapTypes /\ SnapSound /\ SnapKept
  BY DEF SnapInv
<1>3. /\ taking[c] \in CallType /\ d \in Nat /\ taking[c].position \in Nat /\ taking[c].clean \in BOOLEAN
      /\ taking[c].states \in Maps /\ (taking[c].clean => Sound(taking[c].position, taking[c].states))
  BY <1>1, CallIs
<1>4. new \in SnapType /\ (new.clean => Sound(new.position, new.states))
  BY <1>3 DEF SnapType
<1>5. to \in CallType /\ to.pc = "list" /\ to.doomed = taking[c].doomed
  BY <1>3 DEF CallType
<1> HIDE DEF to, new, d
<1>6. /\ DOMAIN snaps' = DOMAIN snaps \cup {d} /\ snaps'[d] = new
      /\ \A id \in DOMAIN snaps : id # d => snaps'[id] = snaps[id]
  BY <1>1
<1>7. PICK n \in Nat : DOMAIN snaps \subseteq 0 .. n
  BY <1>2 DEF SnapTypes
<1>8. \E m \in Nat : DOMAIN snaps' \subseteq 0 .. m
  <2>1. n + d \in Nat /\ \A id \in DOMAIN snaps' : id \in 0 .. n + d
    BY <1>3, <1>6, <1>7
  <2> QED
    BY <2>1
<1>9. SnapKept'
  <2>1. \A id \in Nat : Enough(DOMAIN snaps, id) => Enough(DOMAIN snaps', id)
    BY <1>3, <1>6, <1>7, EnoughStays
  <2>2. made \subseteq Nat /\ \A e \in Calls : taking[e].doomed \subseteq Nat
    BY <1>2, CallIs DEF SnapTypes
  <2>3. \A id \in made' \ DOMAIN snaps' : id \in made \ DOMAIN snaps
    BY <1>1, <1>6
  <2>4. \A e \in Calls : taking'[e].doomed = taking[e].doomed
    BY <1>1, <1>2, <1>5 DEF SnapTypes
  <2> QED
    BY <1>2, <2>1, <2>2, <2>3, <2>4 DEF SnapKept
<1>10. made' \subseteq Nat /\ next_id' \in Nat
  BY <1>1, <1>2, <1>3 DEF SnapTypes
<1>11. /\ \A id \in DOMAIN snaps' : snaps'[id] \in SnapType
       /\ \A id \in DOMAIN snaps' : \/ id \in DOMAIN snaps /\ snaps'[id] = snaps[id]
                                    \/ snaps'[id].clean => Sound(snaps'[id].position, snaps'[id].states)
  BY <1>2, <1>4, <1>6 DEF SnapTypes, SnapType
<1> QED
  BY <1>1, <1>5, <1>8, <1>9, <1>10, <1>11, CallStep

LEMMA SnapNotWritten ==
  ASSUME SnapInv, NEW c \in Calls, W!WriteFails(c)
  PROVE  SnapInv'
<1>1. UNCHANGED <<records, flushed, snaps, made, next_id>> /\ taking' = [taking EXCEPT ![c] = W!Idle]
  BY DEF W!WriteFails, W!Step, W!KeepLog
<1>2. next_id \in Nat
  BY DEF SnapInv, SnapTypes
<1> QED
  BY <1>1, <1>2, IdleIs, CallAlone

LEMMA OldListed ==
  ASSUME SnapInv, NEW c \in Calls, W!List(c)
  PROVE  SnapInv'
<1> DEFINE old == W!Oldest(DOMAIN snaps)
           to == [taking[c] EXCEPT !.pc = "remove", !.doomed = old]
<1>1. UNCHANGED <<records, flushed, snaps, made, next_id>> /\ taking' = [taking EXCEPT ![c] = to]
  BY DEF W!List, W!Step, W!KeepLog
<1>2. next_id \in Nat /\ DOMAIN snaps \subseteq Nat
  BY DEF SnapInv, SnapTypes
<1>3. \A S : W!Cardinality(S) = Cardinality(S)
  BY Zenon DEF W!Cardinality, Cardinality
<1>4. old \in SUBSET Nat /\ \A id \in old : Enough(DOMAIN snaps, id)
  BY <1>2, <1>3 DEF W!Oldest, Enough
<1>5. taking[c] \in CallType
  BY CallIs
<1> HIDE DEF old
<1>6. to \in CallType /\ to.pc = "remove" /\ to.doomed = old
  BY <1>4, <1>5 DEF CallType
<1> HIDE DEF to
<1> QED
  BY <1>1, <1>2, <1>4, <1>6, CallAlone

LEMMA OldRemoved ==
  ASSUME SnapInv, NEW c \in Calls, W!RemoveOld(c)
  PROVE  SnapInv'
<1> DEFINE doomed == taking[c].doomed
           d == W!Min(doomed)
           to == [taking[c] EXCEPT !.doomed = doomed \ {d}]
<1>1. UNCHANGED <<records, flushed, made, next_id>>
  BY DEF W!RemoveOld, W!KeepLog
<1>2. SnapTypes /\ SnapSound /\ SnapKept /\ next_id \in Nat /\ made \subseteq Nat
  BY DEF SnapInv, SnapTypes
<1>3. taking[c] \in CallType /\ doomed \in SUBSET Nat /\ \A id \in doomed : Enough(DOMAIN snaps, id)
  BY <1>2, CallIs DEF SnapKept
<1>4. CASE taking' = [taking EXCEPT ![c] = W!Idle] /\ snaps' = snaps
  BY <1>1, <1>2, <1>4, IdleIs, CallAlone
<1>5. CASE /\ doomed # {} /\ taking[c].pc = "remove" /\ taking' = [taking EXCEPT ![c] = to]
           /\ snaps' \in {snaps, [id \in DOMAIN snaps \ {d} |-> snaps[id]]}
  <2>1. d \in doomed
    <3>1. PICK x \in doomed : \A y \in doomed : x <= y
      BY <1>3, <1>5, LeastNumber
    <3> QED
      BY <3>1 DEF W!Min
  <2>2. d \in Nat /\ Enough(DOMAIN snaps, d)
    BY <1>3, <2>1
  <2> HIDE DEF d
  <2>3. to \in CallType /\ to.pc = "remove" /\ to.doomed = doomed \ {d}
    BY <1>3, <1>5 DEF CallType
  <2> HIDE DEF to
  <2>4. PICK n \in Nat : DOMAIN snaps \subseteq 0 .. n
    BY <1>2 DEF SnapTypes
  <2>5. /\ DOMAIN snaps' = DOMAIN snaps \/ DOMAIN snaps' = DOMAIN snaps \ {d}
        /\ \A id \in DOMAIN snaps' : id \in DOMAIN snaps /\ snaps'[id] = snaps[id]
    BY <1>5
  <2>6. DOMAIN snaps' \subseteq 0 .. n
    BY <2>4, <2>5
  <2>7. SnapKept'
    <3>1. \A id \in Nat : Enough(DOMAIN snaps, id) => Enough(DOMAIN snaps', id)
      BY <2>2, <2>4, <2>5, EnoughStays
    <3>2. \A e \in Calls : taking[e].doomed \subseteq Nat /\ taking'[e].doomed \subseteq taking[e].doomed
      <4>1. \A e \in Calls : taking[e].doomed \subseteq Nat
        BY CallIs
      <4>2. \A e \in Calls : taking'[e].doomed \subseteq taking[e].doomed
        BY <1>2, <1>5, <2>3 DEF SnapTypes
      <4> QED
        BY <4>1, <4>2
    <3>3. \A id \in made \ DOMAIN snaps' : id \in Nat /\ (id \in made \ DOMAIN snaps \/ id = d)
      BY <1>2, <2>5
    <3> QED
      BY <1>1, <1>2, <2>2, <3>1, <3>2, <3>3 DEF SnapKept
  <2>8. \A id \in DOMAIN snaps' : snaps'[id] \in SnapType
    BY <1>2, <2>5 DEF SnapTypes, SnapType
  <2> QED
    BY <1>1, <1>2, <1>5, <2>3, <2>5, <2>6, <2>7, <2>8, CallStep
<1>6. \/ taking' = [taking EXCEPT ![c] = W!Idle] /\ snaps' = snaps
      \/ /\ doomed # {} /\ taking[c].pc = "remove" /\ taking' = [taking EXCEPT ![c] = to]
         /\ snaps' \in {snaps, [id \in DOMAIN snaps \ {d} |-> snaps[id]]}
  BY DEF W!RemoveOld, W!Step
<1> QED
  BY <1>4, <1>5, <1>6

LEMMA SnapStep ==
  ASSUME SnapInv, W!Next \/ UNCHANGED snapshots
  PROVE  SnapInv'
<1>1. CASE UNCHANGED snapshots
  <2>1. UNCHANGED <<records, flushed, snaps, made, next_id, taking>> /\ SnapTypes
    BY <1>1 DEF snapshots, SnapInv
  <2>2. LogGrows /\ next_id' \in Nat
    BY <2>1 DEF LogGrows, SnapTypes
  <2> QED
    BY <2>1, <2>2, LogStep
<1>2. CASE W!Next
  BY <1>2, LogIsWritten, LogSurvives, SnapSpoils, PositionTaken, StatesTaken, SnapWritten, SnapNotWritten,
     OldListed, OldRemoved DEF W!Next
<1> QED
  BY <1>1, <1>2

LEMMA SnapTells ==
  ASSUME SnapInv
  PROVE  W!SnapshotsSound
<1>1. SnapTypes /\ SnapSound /\ SnapKept
  BY DEF SnapInv
<1>2. W!NewestKept
  <2>1. \A S : W!Cardinality(S) = Cardinality(S)
    BY Zenon DEF W!Cardinality, Cardinality
  <2> QED
    BY <1>1, <2>1 DEF W!NewestKept, SnapKept, Enough
<1>3. W!SnapshotRecovers
  <2>1. records \in Seq(LogRecord) /\ flushed \in 0 .. Len(records)
    BY <1>1 DEF SnapTypes
  <2>2. Traces(W!Recovered) /\ Traces(W!After(flushed))
    BY <1>1, <2>1, RecoveredIs, AfterIs
  <2>3. W!LoadLatest.clean /\ W!Covered => Alike(W!Recovered, W!After(flushed))
    BY <1>1, RecoveredIs
  <2> QED
    BY <2>2, <2>3, Bare DEF W!SnapshotRecovers
<1> QED
  BY <1>2, <1>3 DEF W!SnapshotsSound

(* In every behaviour of the journal, recovery from the latest snapshot     *)
(* that can be read gives what replaying every flushed record would, and    *)
(* cleanup_old_snapshots leaves the newest snapshots alone.                 *)
THEOREM SnapshotsAreSound == JournalSpec => []SnapshotsSound
<1>1. JournalInit => SnapInv
  BY SnapStarts DEF JournalInit
<1>2. SnapInv /\ [JournalNext]_journal => SnapInv'
  <2>1. [JournalNext]_journal => W!Next \/ UNCHANGED snapshots
    BY DEF JournalNext, journal
  <2> QED
    BY <2>1, SnapStep
<1>3. SnapInv => SnapshotsSound
  BY SnapTells DEF SnapshotsSound
<1> QED
  BY <1>1, <1>2, <1>3, PTL DEF JournalSpec
=============================================================================
