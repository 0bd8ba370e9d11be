------------------------------ MODULE Storage ------------------------------
(***************************************************************************)
(* What is kept, in stores that share no state with one another: the arena *)
(* of a trace, its compaction, the log of a Raft node on disk, the         *)
(* replicated state of the cluster, the registries of schemas and of       *)
(* migrations, and the collectors of logs.  A behaviour is one of one of   *)
(* them; which one is chosen at first.  The last three share the variables *)
(* s1 to s10.                                                              *)
(***************************************************************************)
EXTENDS Arena

CONSTANTS
  DataOffset, BufferLength, AllocSizes, Threshold, MinDead, MaxGen,
  SegmentMax, MaxIndex, MaxTerm, NoSegment,
  Replicas, PipelineIds, TraceIds, NodeIds, SnapshotThreshold, MaxLog, Opening,
  Admin, Nobody,
  Clients,        \* threads and processes
  Hashes, Keys, MaxMigrations, Questions, Infos, MaxSchemas, MaxPersists,
  Collectors, Said, Subscribers, Requests, Numbers, MaxLogs

VARIABLES
  part,
  allocs, generation, total, dead, buffer, top,
  logs, purged, committed, vote, active, files, meta, torn, legacy, job, up,
  acked, misfiled, interrupted,
  log, results, applied, st, snapshot, kept, stage, repeated,
  s1, s2, s3, s4, s5, s6, s7, s8, s9, s10

M == INSTANCE Compaction WITH Capacity <- BufferLength, Sizes <- AllocSizes
L == INSTANCE RaftLog
C == INSTANCE Cluster
E == INSTANCE Migrations WITH Users <- Clients,
       migrations <- s1, direct <- s2, edges <- s3, calls <- s4, question <- s5, answer <- s6
H == INSTANCE Schemas WITH Processes <- Clients,
       schemas <- s1, by_hash <- s2, versions <- s3, replaced <- s4, live <- s5, temp <- s6,
       content <- s7, persisting <- s8, raced <- s9
G == INSTANCE Logs WITH Writers <- Clients,
       buffer <- s1, next_log <- s2, subscribed <- s3, writing <- s4, count <- s5, pushed <- s6,
       heard <- s7, polled <- s8, stats <- s9, reader <- s10

ASSUME StorageAssumption ==
  /\ M!CompactionConstants /\ L!RaftLogConstants /\ C!ClusterConstants
  /\ E!MigrationsConstants /\ H!SchemasConstants /\ G!LogsConstants

compaction == <<allocs, generation, total, dead, buffer, top>>
raftlog == <<logs, purged, committed, vote, active, files, meta, torn, legacy, job, up,
             acked, misfiled, interrupted>>
replicated == <<log, results, applied, st, snapshot, kept, stage, repeated>>
shared == <<s1, s2, s3, s4, s5, s6, s7, s8, s9, s10>>
storage == <<part, vars, compaction, raftlog, replicated, shared>>

Free10 == s10 = <<>>
Free7 == s7 = <<>> /\ s8 = <<>> /\ s9 = <<>> /\ Free10
Free1 == s1 = <<>> /\ s2 = <<>> /\ s3 = <<>> /\ s4 = <<>> /\ s5 = <<>> /\ s6 = <<>> /\ Free7

StorageInit ==
  /\ part \in {"arena", "compaction", "raft log", "cluster", "migrations", "schemas", "logs"}
  /\ Init /\ M!Init /\ L!Init /\ C!Init
  /\ part # "raft log" => legacy = {}   \* any will do
  /\ \/ part = "migrations" /\ E!Init /\ Free7
     \/ part = "schemas" /\ H!Init /\ Free10
     \/ part = "logs" /\ G!Init
     \/ part \notin {"migrations", "schemas", "logs"} /\ Free1

StorageNext ==
  /\ UNCHANGED part
  /\ \/ part = "arena" /\ Next /\ UNCHANGED <<compaction, raftlog, replicated, shared>>
     \/ part = "compaction" /\ M!Next /\ UNCHANGED <<vars, raftlog, replicated, shared>>
     \/ part = "raft log" /\ L!Next /\ UNCHANGED <<vars, compaction, replicated, shared>>
     \/ part = "cluster" /\ C!Next /\ UNCHANGED <<vars, compaction, raftlog, shared>>
     \/ /\ \/ part = "migrations" /\ E!Next /\ UNCHANGED <<s7, s8, s9, s10>>
           \/ part = "schemas" /\ H!Next /\ UNCHANGED s10
           \/ part = "logs" /\ G!Next
        /\ UNCHANGED <<vars, compaction, raftlog, replicated>>

StorageSpec == StorageInit /\ [][StorageNext]_storage

(* Compaction: live bytes are kept unless a later allocation overruns them, *)
(* allocations stay apart and the totals agree with the table.              *)
CompactionKeeps == M!BytesKept /\ [](part = "compaction" => M!TrackerRight)

(* Raft log: no reported entry is lost.                                     *)
EntriesKept == part = "raft log" => L!EntriesKept

(* Cluster: replicas that have applied as much are in the same state, and   *)
(* the count of active traces is right.                                     *)
ClusterAgrees == part = "cluster" => C!ReplicasAgree /\ C!ActiveMatches

(* Schemas: migrations are found and their locks are taken in an order      *)
(* without a cycle, and compatibility means what it says; what is           *)
(* registered and persisted is kept.                                        *)
SchemasEvolve ==
  /\ part = "migrations" => E!EvolutionRight
  /\ part = "schemas" => H!SchemasKept

(* Logs: readers, subscribers and queries see what was logged.              *)
LogsRight == part = "logs" => G!LogsRight
=============================================================================
