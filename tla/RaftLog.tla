------------------------------- MODULE RaftLog -------------------------------
(***************************************************************************)
(* LogStorage of xerv-cluster (raft/storage/*.rs): the Raft log of a node  *)
(* in memory and in segment files, with its metadata and vote.  A file is  *)
(* named by a multiple of SEGMENT_MAX_ENTRIES; purging and truncating go   *)
(* from file to file, and a crash may come between two of them.  What      *)
(* OpenRaft asks for is external: it appends after its last entry,         *)
(* truncates what is not committed, and purges up to a snapshot, which may *)
(* lie beyond the end of the log.                                          *)
(***************************************************************************)
EXTENDS Integers, Sequences, FiniteSets

CONSTANTS
  SegmentMax,   \* SEGMENT_MAX_ENTRIES
  MaxIndex,     \* bound on the indices
  MaxTerm,      \* bound on the terms
  NoSegment

RaftLogConstants == SegmentMax \in Nat \ {0} /\ {MaxIndex, MaxTerm} \subseteq Nat

Indices == 0 .. MaxIndex
Entries == [index : Indices, term : 1 .. MaxTerm]
Firsts == {i \in Indices : i % SegmentMax = 0}
NoIndex == -1

VARIABLES
  logs,       \* in memory: index -> entry
  purged, committed, vote,   \* in memory: last_purged_log_id, committed, vote
  active,     \* active_segment: [first, count] or NoSegment
  files,      \* segment files: first index -> sequence of entries
  meta,       \* meta.json and vote.json: [purged, committed, vote]
  torn,       \* does a file end in half a line?
  legacy,     \* indices of the entries in the old logs.json
  job,        \* [op, at, todo]: the files that purge or truncate has to visit, in order
  up,         \* "up", "down", "migrating" or "unreadable"
  acked,      \* entries whose append was reported, and not truncated since
  misfiled,   \* has a file ever held an entry past its end?
  interrupted \* has a crash ever come between the files of a job?

mem == <<logs, purged, committed, vote, active>>
disk == <<files, meta, torn, legacy>>
ghosts == <<acked, misfiled, interrupted>>
vars == <<mem, disk, job, up, ghosts>>

NoJob == [op |-> "none", at |-> 0, todo |-> {}]
Idle == up = "up" /\ job = NoJob

Init ==
  /\ logs = <<>> /\ purged = NoIndex /\ committed = NoIndex /\ vote = 0
  /\ active = NoSegment
  /\ files = <<>> /\ meta = [purged |-> NoIndex, committed |-> NoIndex, vote |-> 0]
  /\ torn = FALSE /\ legacy \in {{}, 0 .. SegmentMax}
  /\ job = NoJob /\ up = "down"
  /\ acked = {[index |-> i, term |-> 1] : i \in legacy} /\ misfiled = FALSE /\ interrupted = FALSE

-----------------------------------------------------------------------------
Without(f, S) == [x \in DOMAIN f \ S |-> f[x]]
With(f, x, v) == [y \in DOMAIN f \cup {x} |-> IF y = x THEN v ELSE f[y]]
Largest(S) == CHOOSE x \in S : \A y \in S : y <= x
Smallest(S) == CHOOSE x \in S : \A y \in S : x <= y
Ordered(S) == CHOOSE s \in [1 .. Cardinality(S) -> S] : \A m, n \in DOMAIN s : m < n => s[m] < s[n]

\* get_log_state
LastIndex == IF DOMAIN logs = {} THEN purged ELSE Largest(DOMAIN logs)
LastTerm == IF DOMAIN logs = {} THEN 1 ELSE logs[LastIndex].term

Aligned(i) == (i \div SegmentMax) * SegmentMax

Misfiled(fs) ==
  \E f \in DOMAIN fs : \E n \in DOMAIN fs[f] : fs[f][n].index >= f + SegmentMax

\* A crash ends the process and its memory.
Forget ==
  /\ up' = "down" /\ job' = NoJob
  /\ logs' = <<>> /\ active' = NoSegment
  /\ purged' = NoIndex /\ committed' = NoIndex /\ vote' = 0
Note == misfiled' = (misfiled \/ Misfiled(files'))

(* append_entries, one entry: a missing or full segment is replaced by the  *)
(* one that the index is aligned to, opened for appending.                  *)
Full == active = NoSegment \/ active.count >= SegmentMax

Segment(e) == IF Full THEN [first |-> Aligned(e.index), count |-> 0] ELSE active

AppendTo(e) ==
  LET f == Segment(e).first IN
  With(files, f, Append(IF f \in DOMAIN files THEN files[f] ELSE <<>>, e))

AppendEntry(e) ==
  /\ Idle /\ e.index = LastIndex + 1 /\ e.term >= LastTerm
  /\ files' = AppendTo(e) /\ logs' = With(logs, e.index, e)
  /\ active' = [Segment(e) EXCEPT !.count = @ + 1]
  /\ acked' = {a \in acked : a.index # e.index} \cup {e}
  /\ Note
  /\ UNCHANGED <<purged, committed, vote, meta, torn, legacy, job, up, interrupted>>

\* A crash in the middle of an append: the entry is in the file, or half of it.
CrashInAppend(e) ==
  /\ Idle /\ e.index = LastIndex + 1 /\ e.term >= LastTerm
  /\ \/ files' = AppendTo(e) /\ torn' = torn
     \/ files' = files /\ torn' = TRUE
  /\ Forget /\ Note
  /\ UNCHANGED <<meta, legacy, acked, interrupted>>

-----------------------------------------------------------------------------
SaveCommitted(i) ==
  /\ Idle /\ i \in DOMAIN logs /\ i > committed
  /\ committed' = i
  /\ meta' = [meta EXCEPT !.committed = i, !.purged = purged]
  /\ UNCHANGED <<logs, purged, vote, active, files, torn, legacy, job, up, ghosts>>

\* Votes are numbered up to MaxVote; the file is replaced by renaming.
MaxVote == 1
SaveVote ==
  /\ Idle /\ vote < MaxVote
  /\ vote' = vote + 1 /\ meta' = [meta EXCEPT !.vote = vote']
  /\ UNCHANGED <<logs, purged, committed, active, files, torn, legacy, job, up, ghosts>>

(* purge_entries: memory first, then the files by number, then meta.json.   *)
PurgeBegin(i) ==
  /\ Idle /\ i > purged /\ (i <= committed \/ i >= LastIndex)
  /\ purged' = i
  /\ logs' = Without(logs, {j \in DOMAIN logs : j <= i})
  /\ job' = [op |-> "purge", at |-> i, todo |-> DOMAIN files]
  /\ acked' = {e \in acked : e.index > i}
  /\ UNCHANGED <<committed, vote, active, disk, up, misfiled, interrupted>>

\* Mutant: a file is deleted when its first entry is purged.
PurgeableEarly(f, i) == f <= i

Purgeable(f, i) == f + SegmentMax - 1 <= i

IsActive(f) == active # NoSegment /\ active.first = f
Close(f) == active' = IF IsActive(f) THEN NoSegment ELSE active

PurgeFile ==
  LET f == Smallest(job.todo) IN
  /\ up = "up" /\ job.op = "purge" /\ job.todo # {}
  /\ IF Purgeable(f, job.at)
     THEN files' = Without(files, {f}) /\ Close(f)
     ELSE UNCHANGED <<files, active>>
  /\ job' = [job EXCEPT !.todo = @ \ {f}]
  /\ UNCHANGED <<logs, purged, committed, vote, meta, torn, legacy, up, ghosts>>

PurgeEnd ==
  /\ up = "up" /\ job.op = "purge" /\ job.todo = {}
  /\ meta' = [meta EXCEPT !.purged = purged, !.committed = committed]
  /\ job' = NoJob
  /\ UNCHANGED <<mem, files, torn, legacy, up, ghosts>>

(* truncate_entries: a file past the point is deleted, the one that may     *)
(* hold it is rewritten from memory and becomes the active segment.         *)
TruncateBegin(i) ==
  /\ Idle /\ i \in DOMAIN logs /\ i > committed
  /\ logs' = Without(logs, {j \in DOMAIN logs : j >= i})
  /\ job' = [op |-> "truncate", at |-> i, todo |-> DOMAIN files]
  /\ acked' = {e \in acked : e.index < i}
  /\ UNCHANGED <<purged, committed, vote, active, disk, up, misfiled, interrupted>>

EntriesOf(l, S) == [n \in 1 .. Cardinality(S) |-> l[Ordered(S)[n]]]
Rewritten(f, i) == EntriesOf(logs, {j \in DOMAIN logs : f <= j /\ j < i})

TruncateFile ==
  LET f == Smallest(job.todo)
      kept == Rewritten(f, job.at) IN
  /\ up = "up" /\ job.op = "truncate" /\ job.todo # {}
  /\ CASE f >= job.at \/ (f + SegmentMax > job.at /\ kept = <<>>) ->
            files' = Without(files, {f}) /\ Close(f)
       [] f < job.at /\ f + SegmentMax > job.at /\ kept # <<>> ->
            files' = With(files, f, kept) /\ active' = [first |-> f, count |-> Len(kept)]
       [] OTHER -> UNCHANGED <<files, active>>
  /\ job' = IF job.todo = {f} THEN NoJob ELSE [job EXCEPT !.todo = @ \ {f}]
  /\ UNCHANGED <<logs, purged, committed, vote, meta, torn, legacy, up, ghosts>>

-----------------------------------------------------------------------------
Crash ==
  /\ up \in {"up", "migrating"} /\ Forget
  /\ interrupted' = (interrupted \/ job # NoJob)
  /\ UNCHANGED <<disk, acked, misfiled>>

\* load_segments: the files in order, a later line replaces an earlier one.
LinesOf(i, f) == {n \in DOMAIN files[f] : files[f][n].index = i}
Indexed == UNION {{files[f][n].index : n \in DOMAIN files[f]} : f \in DOMAIN files}
LastLine(i) ==
  LET f == Largest({g \in DOMAIN files : LinesOf(i, g) # {}}) IN files[f][Largest(LinesOf(i, f))]
Loaded == [i \in Indexed |-> LastLine(i)]

LastSegment ==
  IF DOMAIN files = {} THEN NoSegment
  ELSE LET f == Largest(DOMAIN files)
           count == Cardinality({i \in DOMAIN Loaded : i >= f}) IN
       IF count < SegmentMax THEN [first |-> f, count |-> count] ELSE NoSegment

\* LogStorage::open fails on half a line.
Open ==
  /\ up = "down"
  /\ IF torn THEN up' = "unreadable" /\ UNCHANGED mem
     ELSE /\ up' = IF legacy = {} THEN "up" ELSE "migrating"
          /\ logs' = Loaded /\ active' = LastSegment
          /\ purged' = meta.purged /\ committed' = meta.committed /\ vote' = meta.vote
  /\ UNCHANGED <<disk, job, ghosts>>

(* migrate_from_single_file: the entries of logs.json are put into memory   *)
(* and all of it into files; the old file is removed last.                  *)
Migrate ==
  /\ up = "migrating" /\ legacy # {}
  /\ logs' = [i \in DOMAIN logs \cup legacy |->
               IF i \in legacy THEN [index |-> i, term |-> 1] ELSE logs[i]]
  /\ LET firsts == {Aligned(i) : i \in DOMAIN logs'}
         flushed == [f \in firsts |-> EntriesOf(logs', {i \in DOMAIN logs' : Aligned(i) = f})]
         f == Largest(firsts) IN
     /\ files' = [g \in DOMAIN files \cup firsts |-> IF g \in firsts THEN flushed[g] ELSE files[g]]
     /\ active' = IF Len(flushed[f]) < SegmentMax
                  THEN [first |-> f, count |-> Len(flushed[f])] ELSE NoSegment
  /\ \/ legacy' = {} /\ up' = "up"
     \/ UNCHANGED <<legacy, up>>   \* a crash may come before the removal
  /\ UNCHANGED <<purged, committed, vote, meta, torn, job, ghosts>>

Next ==
  \/ \E e \in Entries : AppendEntry(e) \/ CrashInAppend(e)
  \/ \E i \in Indices : SaveCommitted(i) \/ PurgeBegin(i) \/ TruncateBegin(i)
  \/ SaveVote
  \/ PurgeFile \/ PurgeEnd \/ TruncateFile \/ Crash \/ Open \/ Migrate

Spec == Init /\ [][Next]_vars

-----------------------------------------------------------------------------
(* An entry whose append was reported is in the log until it is truncated   *)
(* or purged, through any crash, as long as no file has held an entry past  *)
(* its end; and unless a crash has interrupted a purge or a truncation, the *)
(* log goes on from the last purged entry without a gap.  (Files are gone   *)
(* before meta.json says so, and earlier files before later ones.)          *)
EntriesKept ==
  /\ up = "up" /\ ~misfiled =>
       \A e \in acked : e.index > purged => e.index \in DOMAIN logs /\ logs[e.index] = e
  /\ Idle /\ ~misfiled /\ ~interrupted =>
       \A i \in purged + 1 .. LastIndex : i \in DOMAIN logs

(* "All entries in this segment are purged, delete the file": what          *)
(* purge_entries deletes with a file has an index up to the purged one.     *)
PurgedOnly ==
  LET f == Smallest(job.todo) IN
  job.op = "purge" /\ job.todo # {} /\ Purgeable(f, job.at) =>
    \A n \in DOMAIN files[f] : files[f][n].index <= job.at
=============================================================================
