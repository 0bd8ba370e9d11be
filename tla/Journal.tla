------------------------------ MODULE Journal ------------------------------
(***************************************************************************)
(* The write-ahead log with what belongs to it and is modelled apart: the  *)
(* bytes of its records, and its snapshots.  A behaviour is one of one of  *)
(* the three; which one is chosen at first.                                *)
(***************************************************************************)
EXTENDS Wal

CONSTANTS
  Base, Samples, MaxAppends, MaxDamage,
  TraceIds, NodeIds, Calls, PerFile, RetentionCount, MaxLogged, MaxSnapshots, MaxStops

VARIABLES
  part,
  file, logged, flipped,
  records, flushed, gone, snaps, made, next_id, taking, stops

B == INSTANCE WalRecords
W == INSTANCE Snapshots WITH MaxRecords <- MaxLogged

ASSUME JournalAssumption == W!SnapshotConstants

bytes == <<file, logged, flipped>>
snapshots == <<records, flushed, gone, snaps, made, next_id, taking, stops>>
journal == <<part, vars, bytes, snapshots>>

JournalInit == part \in {"log", "bytes", "snapshots"} /\ Init /\ B!Init /\ W!Init

JournalNext ==
  /\ UNCHANGED part
  /\ \/ part = "log" /\ Next /\ UNCHANGED <<bytes, snapshots>>
     \/ part = "bytes" /\ B!Next /\ UNCHANGED <<vars, snapshots>>
     \/ part = "snapshots" /\ W!Next /\ UNCHANGED <<vars, bytes>>

JournalSpec == JournalInit /\ [][JournalNext]_journal

(* Bytes of the log: an undamaged log reads as it was written, a torn tail  *)
(* or a changed payload costs what it may cost, and nothing is invented.    *)
RecordsKept == part = "bytes" => B!RecordsKept

(* Snapshots: recovery from one is as good as replaying the whole log.      *)
SnapshotsSound == part = "snapshots" => W!SnapshotsSound

\* Records of three types, with and without an error and metadata.
Sample(y, t, o, e, m) == [type |-> y, trace |-> t, node |-> 1, output |-> o, error |-> e, metadata |-> m]
SomeRecords ==
  {Sample(0, 1, 0, <<>>, <<>>), Sample(3, 2, 0, << <<2>> >>, << <<>> >>), Sample(6, 2, 9, <<>>, << <<9, 3>> >>)}
=============================================================================
