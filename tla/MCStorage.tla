----------------------------- MODULE MCStorage -----------------------------
(* What the registries and the collectors of Storage are given.             *)
EXTENDS Storage, FiniteSets, Sequences, SequencesExt, TLC

\* Compaction: a third of the arena must be dead.
Third == [num |-> 1, den |-> 3]

\* Cluster: a pipeline runs, and a trace of it has started or may be started again.
MCOpening == <<"DeployPipeline", "StartPipeline", "StartTrace">>

\* Threads and processes are interchangeable, and so are replicas.
Symmetry == Permutations(Clients) \cup Permutations(Replicas)

(* Schemas and migrations: every pair of small schemas, and of ranges.      *)
MCKeys == {<<1, 2>>, <<2, 3>>, <<1, 3>>}
SomeSchemas == UNION {[names -> [type : {"i32", "str"}, optional : BOOLEAN]] : names \in SUBSET {"a", "b"}}
Versions == {<<1, 0>>, <<1, 1>>, <<2, 0>>}
Ranges ==
  {r \in [min : Versions, max : Versions, open : BOOLEAN] : r.open \/ r.min = r.max \/ r.min = <<1, 0>> \/ r.max = <<2, 0>>}
MCQuestions == {<<>>} \cup [from : SomeSchemas, to : SomeSchemas] \cup [r : Ranges, s : Ranges]
Info(version, minor, hash) == [family |-> "Order", version |-> version, minor |-> minor, hash |-> hash]
MCInfos == {Info(1, 0, 11), Info(1, 0, 12), Info(1, 1, 13), Info(2, 0, 20)}

(* Logs: a small ring, and one of none that takes errors only.              *)
Context(t) == [trace |-> t, node |-> "n1", pipeline |-> "p1"]
Event(level, trace) ==
  [id |-> 0, level |-> level, category |-> "node", message |-> {"a"},
   trace |-> trace, node |-> "none", pipeline |-> "none"]
MCSaid ==
  {[event |-> Event(5, "none"), context |-> Context("t1")], [event |-> Event(2, "t2"), context |-> Context("t1")]}
MCCollectors == <<[capacity |-> 2, filter |-> <<>>], [capacity |-> 0, filter |-> [min |-> 4]]>>
Param(key, value) == [key |-> key, value |-> value]
MCRequests ==
  SeqOf({Param("level", "warning"), Param("level", "bad"), Param("trace_id", "t1"), Param("trace_id", "t2"),
         Param("category", "node"), Param("category", "trace"), Param("limit", "1")}, 2)
MCNumbers == "1" :> 1
=============================================================================
