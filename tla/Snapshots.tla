----------------------------- MODULE Snapshots -----------------------------
(***************************************************************************)
(* Snapshots of the write-ahead log (xerv-core wal/snapshot_manager.rs)    *)
(* and replay from one (wal/writer/reader.rs).  Nothing in the repository  *)
(* calls create_snapshot yet; it is given the position of the log and then *)
(* what replaying the files yields, in the order of its parameters.  The   *)
(* files hold the records one after the other, so that a position is a     *)
(* number of records; whether a snapshot is due depends on the clock.      *)
(***************************************************************************)
EXTENDS Integers, FiniteSets, FiniteSetsExt, Sequences

CONSTANTS
  TraceIds, NodeIds,
  Calls,          \* calls of create_snapshot
  PerFile,        \* records in a file of the log
  RetentionCount, \* SnapshotConfig
  MaxRecords, MaxSnapshots, MaxStops  \* bounds

VARIABLES
  records,       \* the records: [type, trace, node]
  flushed,   \* how many of them are in the files
  gone,    \* how many files have been purged
  snaps,     \* snapshot files: id -> [position, states, readable, clean]
  made,      \* history: the ids of all snapshots ever written
  next_id,
  taking,    \* a call: [pc, position, states, clean, id, doomed]
  stops      \* crashes and files that became unreadable

vars == <<records, flushed, gone, snaps, made, next_id, taking, stops>>

SnapshotConstants ==
  /\ PerFile \in Nat \ {0} /\ RetentionCount \in Nat
  /\ MaxRecords \in Nat /\ MaxSnapshots \in Nat /\ MaxStops \in Nat

Idle == [pc |-> "idle", position |-> 0, states |-> <<>>, clean |-> FALSE, id |-> 0, doomed |-> {}]

Init ==
  /\ records = <<>> /\ flushed = 0 /\ gone = 0 /\ snaps = <<>> /\ made = {} /\ next_id = 1
  /\ taking = [c \in Calls |-> Idle] /\ stops = 0

-----------------------------------------------------------------------------
(* Replay: apply_record_to_traces.  started_nodes is a list from which a    *)
(* node is removed with all its copies, so a set does.                      *)

Fresh == [started |-> {}, completed |-> {}, last |-> {}, suspended |-> {}, metadata |-> FALSE]

Updated(s, r) ==
  CASE r.type = "NodeStart" -> [s EXCEPT !.started = @ \cup {r.node}]
    [] r.type = "NodeDone" ->
         [s EXCEPT !.last = {r.node}, !.started = @ \ {r.node}, !.completed = @ \cup {r.node}]
    [] r.type = "TraceSuspended" -> [s EXCEPT !.suspended = {r.node}, !.metadata = TRUE]
    [] r.type = "TraceResumed" -> [s EXCEPT !.suspended = {}]

ApplyRecord(states, r) ==
  CASE r.type = "TraceStart" ->
         [t \in DOMAIN states \cup {r.trace} |-> IF t = r.trace THEN Fresh ELSE states[t]]
    [] r.type = "TraceComplete" -> [t \in DOMAIN states \ {r.trace} |-> states[t]]
    [] OTHER -> [t \in DOMAIN states |-> IF t = r.trace THEN Updated(states[t], r) ELSE states[t]]

FileOf(i) == (i - 1) \div PerFile

\* Mutant: the record at the position counts as one before it.
ReadFromNext(position) == {i \in 1 .. flushed : i > position + 1 /\ FileOf(i) >= gone}

\* read_from: the files before the position are skipped, and the bytes before it.
ReadFrom(position) == {i \in 1 .. flushed : i > position /\ FileOf(i) >= gone}

\* The traces after each record, when those in read are applied.
Replayed(states, read) ==
  LET traces[k \in 0 .. Len(records)] ==
        IF k = 0 THEN states
        ELSE IF k \in read THEN ApplyRecord(traces[k - 1], records[k]) ELSE traces[k - 1]
  IN  traces

GetIncompleteTracesFrom(position, states) == Replayed(states, ReadFrom(position))[flushed]

\* What the first k records say.
After(k) == Replayed(<<>>, 1 .. Len(records))[k]

\* load_latest: the newest that can be read.
Readable == {id \in DOMAIN snaps : snaps[id].readable}
LoadLatest ==
  IF Readable = {} THEN [position |-> 0, states |-> <<>>, clean |-> TRUE] ELSE snaps[Max(Readable)]

Recovered == GetIncompleteTracesFrom(LoadLatest.position, LoadLatest.states)

\* No file that is needed after the latest snapshot has been purged.
Covered == \A i \in 1..flushed : i > LoadLatest.position => FileOf(i) >= gone

-----------------------------------------------------------------------------
(* The log is written as the executor does, into a buffer or to the file.   *)
Whole == After(Len(records))
Unused(t) == \A i \in DOMAIN records : records[i].trace # t
Record(y, t, n) == [type |-> y, trace |-> t, node |-> n]

NextRecords ==
  {Record("TraceStart", t, 0) : t \in {u \in TraceIds : Unused(u)}}
    \cup UNION {
      LET s == Whole[t] IN
      IF s.suspended # {} THEN {Record("TraceResumed", t, 0)}
      ELSE {Record("NodeStart", t, n) : n \in NodeIds \ s.completed}
             \cup {Record("NodeDone", t, n) : n \in s.started}
             \cup {Record("TraceSuspended", t, n) : n \in s.started}
             \cup {Record("TraceComplete", t, 0)}
      : t \in DOMAIN Whole}

\* Rotation flushes the file that is full.
Write(r) ==
  /\ Len(records) < MaxRecords
  /\ records' = Append(records, r)
  /\ flushed' \in {Len(records) + 1, IF Len(records) % PerFile = 0 THEN Len(records) ELSE flushed}
  /\ UNCHANGED <<gone, snaps, made, next_id, taking, stops>>

Flush ==
  /\ flushed < Len(records) /\ flushed' = Len(records)
  /\ UNCHANGED <<records, gone, snaps, made, next_id, taking, stops>>

\* purge_old_segments, keeping the last file at least.
Purge ==
  /\ records # <<>> /\ gone < FileOf(Len(records)) /\ gone' = gone + 1
  /\ UNCHANGED <<records, flushed, snaps, made, next_id, taking, stops>>

\* The process dies; the buffer may have been written in part.
Crash ==
  /\ stops < MaxStops /\ stops' = stops + 1
  /\ \E k \in flushed .. Len(records) : records' = SubSeq(records, 1, k) /\ flushed' = k
  /\ taking' = [c \in Calls |-> Idle]
  /\ next_id' = IF DOMAIN snaps = {} THEN 1 ELSE Max(DOMAIN snaps) + 1
  /\ UNCHANGED <<gone, snaps, made>>

-----------------------------------------------------------------------------
(* create_snapshot.                                                         *)
Step(c, from, to) == taking[c].pc = from /\ taking' = [taking EXCEPT ![c] = to]
KeepLog == UNCHANGED <<records, flushed, gone>>

\* get_current_position counts what is in the buffer.
TakePosition(c) ==
  /\ Cardinality(DOMAIN snaps) < MaxSnapshots /\ next_id <= MaxSnapshots + 1
  /\ Step(c, "idle", [Idle EXCEPT !.pc = "states", !.position = Len(records)])
  /\ KeepLog /\ UNCHANGED <<snaps, made, next_id, stops>>

\* A state has no place for the metadata of a suspension.
SnapshotStates(states) == [t \in DOMAIN states |-> [states[t] EXCEPT !.metadata = FALSE]]

TakeStates(c) ==
  /\ Step(c, "states", [taking[c] EXCEPT !.pc = "write", !.states = SnapshotStates(Recovered),
                                         !.clean = LoadLatest.clean /\ Covered /\ flushed >= taking[c].position,
                                         !.id = next_id])
  /\ next_id' = next_id + 1
  /\ KeepLog /\ UNCHANGED <<snaps, made, stops>>

\* write_snapshot: into a temporary file, which is then renamed.
Rename(c) ==
  /\ Step(c, "write", [taking[c] EXCEPT !.pc = "list"])
  /\ snaps' = [id \in DOMAIN snaps \cup {taking[c].id} |->
                IF id # taking[c].id THEN snaps[id]
                ELSE [position |-> taking[c].position, states |-> taking[c].states,
                      readable |-> TRUE, clean |-> taking[c].clean]]
  /\ made' = made \cup {taking[c].id}
  /\ KeepLog /\ UNCHANGED <<next_id, stops>>

WriteFails(c) == Step(c, "write", Idle) /\ KeepLog /\ UNCHANGED <<snaps, made, next_id, stops>>

\* cleanup_old_snapshots: the oldest of those there are.
Oldest(ids) == {id \in ids : Cardinality({j \in ids : j > id}) >= RetentionCount}

List(c) ==
  /\ Step(c, "list", [taking[c] EXCEPT !.pc = "remove", !.doomed = Oldest(DOMAIN snaps)])
  /\ KeepLog /\ UNCHANGED <<snaps, made, next_id, stops>>

RemoveOld(c) ==
  LET doomed == taking[c].doomed IN
  /\ \/ /\ doomed = {} /\ Step(c, "remove", Idle) /\ UNCHANGED snaps
     \/ /\ doomed # {}
        /\ Step(c, "remove", [taking[c] EXCEPT !.doomed = doomed \ {Min(doomed)}])
        /\ snaps' \in {snaps, [id \in DOMAIN snaps \ {Min(doomed)} |-> snaps[id]]}
  /\ KeepLog /\ UNCHANGED <<made, next_id, stops>>

\* load_snapshot refuses a file with a bad header, length or body.
Spoil ==
  /\ stops < MaxStops /\ stops' = stops + 1
  /\ \E id \in Readable : snaps' = [snaps EXCEPT ![id].readable = FALSE]
  /\ KeepLog /\ UNCHANGED <<made, next_id, taking>>

Next ==
  \/ \E r \in NextRecords : Write(r)
  \/ Flush \/ Purge \/ Crash \/ Spoil
  \/ \E c \in Calls : TakePosition(c) \/ TakeStates(c) \/ Rename(c) \/ WriteFails(c) \/ List(c) \/ RemoveOld(c)

Spec == Init /\ [][Next]_vars

-----------------------------------------------------------------------------
(* Recovery from the latest snapshot that can be read gives what replaying  *)
(* every record ever flushed would: also when records are written between   *)
(* the position and the states of a snapshot, and are then applied twice,   *)
(* and when older snapshots, older files and the end of the log are gone.   *)
(* (But for the metadata of a suspension; and provided that nothing before  *)
(* the position was still in the buffer when the states were read, and that *)
(* no file behind the position is purged.)                                  *)
SnapshotRecovers ==
  LoadLatest.clean /\ Covered =>
    SnapshotStates(Recovered) = SnapshotStates(After(flushed))

(* cleanup_old_snapshots never removes one of the newest RetentionCount.    *)
NewestKept ==
  \A id \in made \ DOMAIN snaps : Cardinality({j \in DOMAIN snaps : j > id}) >= RetentionCount

(* What is needed to recover is kept, and recovery is right.                *)
SnapshotsSound == NewestKept /\ SnapshotRecovers
=============================================================================
