--------------------------- MODULE StorageProofs ---------------------------
(***************************************************************************)
(* Proofs about the stores of Storage, for any number of replicas,         *)
(* pipelines, traces and commands, and about the graph of migrations and   *)
(* the search in it.  Each store has its own inductive invariant; the      *)
(* steps of the others leave its variables alone.                          *)
(***************************************************************************)
EXTENDS Storage, FiniteSets, FiniteSetTheorems, FunctionTheorems, Sequences, WellFoundedInduction, TLAPS

\* A behaviour stays with its store, whose variables no other one changes.
LEMMA PartSteps ==
  ASSUME [StorageNext]_storage
  PROVE  /\ part' = part
         /\ part = "cluster" => C!Next \/ UNCHANGED replicated
         /\ L!Next \/ UNCHANGED raftlog
BY DEF StorageNext, storage, replicated, raftlog

-----------------------------------------------------------------------------
(* The cluster: a replica's state and snapshot are the results of a prefix  *)
(* of the log, and a trace whose pipeline is not marked is where its client *)
(* believes it to be.                                                       *)

Statuses == {"none", "Running", "Suspended", "Completed", "Failed"}
States == {"none", "Initializing", "Running", "Paused", "Draining", "Stopped"}
TraceInfo == [status : Statuses, pipeline : PipelineIds \cup {Nobody}, nodes : Nat]
PipelineInfo == [state : States, active : Nat]
ClusterState ==
  [traces : [TraceIds -> TraceInfo], pipelines : [PipelineIds -> PipelineInfo], nodes : SUBSET NodeIds]

Commands ==
  [op : {"StartTrace", "CompleteNode", "CompleteTrace", "FailTrace", "SuspendTrace", "ResumeTrace",
         "DeployPipeline", "StartPipeline", "PausePipeline", "ResumePipeline", "DrainPipeline",
         "StopPipeline", "UndeployPipeline", "RegisterNode", "DeregisterNode"},
   id : TraceIds \cup PipelineIds \cup NodeIds, pipeline : PipelineIds \cup {Nobody}]

\* A trace that is known has a pipeline.
Sound(s) ==
  /\ s \in ClusterState
  /\ \A t \in TraceIds : s.traces[t].status = "none" <=> s.traces[t].pipeline = Nobody

ResultsRight ==
  /\ log \in Seq(Commands)
  /\ results \in Seq(ClusterState) /\ Len(results) = Len(log) + 1
  /\ results[1] = C!Empty
  /\ \A i \in 1 .. Len(log) : results[i + 1] = C!Apply(results[i], log[i])

ReplicasRight ==
  /\ applied \in [Replicas -> Nat] /\ st \in [Replicas -> ClusterState]
  /\ snapshot \in [Replicas -> [index : Nat, st : ClusterState]]
  /\ \A r \in Replicas :
       /\ applied[r] <= Len(log) /\ st[r] = results[applied[r] + 1]
       /\ snapshot[r].index <= Len(log) /\ snapshot[r].st = results[snapshot[r].index + 1]

\* What a client believes of a trace, beside its status and its pipeline.
Believed(b, tr) ==
  \/ b = "new" /\ tr.status = "none"
  \/ b = "Running" /\ tr.status = "Running"
  \/ b = "Suspended" /\ tr.status = "Suspended"
  \/ b = "over" /\ tr.status \in {"Completed", "Failed"}

Counted(s, p) ==
  /\ IsFiniteSet(C!ActiveTraces(s, p))
  /\ C!Deployed(s, p) => s.pipelines[p].active = Cardinality(C!ActiveTraces(s, p))

CountsRight ==
  /\ stage \in [TraceIds -> {"new", "Running", "Suspended", "over"}]
  /\ Sound(C!Latest)
  /\ \A t \in TraceIds : C!Latest.traces[t].pipeline \in repeated \/ Believed(stage[t], C!Latest.traces[t])
  /\ \A p \in PipelineIds \ repeated : Counted(C!Latest, p)

ClusterParts == ResultsRight /\ ReplicasRight /\ CountsRight
ClusterInv == part = "cluster" => ClusterParts

LEMMA ClusterAssumed == Nobody \notin PipelineIds /\ Admin \notin TraceIds
BY StorageAssumption DEF C!ClusterConstants

\* What a step does to a trace and to a pipeline, whatever the command is.
LEMMA SetTrace ==
  ASSUME NEW s, Sound(s), NEW t \in TraceIds, NEW v \in Statuses \ {"none"}, C!Known(s, t)
  PROVE  /\ Sound(C!SetStatus(s, t, v))
         /\ C!SetStatus(s, t, v).pipelines = s.pipelines
         /\ C!SetStatus(s, t, v).traces[t].status = v
         /\ \A u \in TraceIds : C!SetStatus(s, t, v).traces[u].pipeline = s.traces[u].pipeline
         /\ \A u \in TraceIds \ {t} : C!SetStatus(s, t, v).traces[u] = s.traces[u]
BY DEF Sound, ClusterState, TraceInfo, C!SetStatus, C!Known

LEMMA OneLessRight ==
  ASSUME NEW s, Sound(s), NEW p \in PipelineIds
  PROVE  /\ Sound(C!OneLess(s, p))
         /\ C!OneLess(s, p).traces = s.traces
         /\ \A q \in PipelineIds \ {p} : C!OneLess(s, p).pipelines[q] = s.pipelines[q]
         /\ C!OneLess(s, p).pipelines[p].state = s.pipelines[p].state
         /\ C!Deployed(s, p) /\ s.pipelines[p].active > 0
              => C!OneLess(s, p).pipelines[p].active = s.pipelines[p].active - 1
BY DEF Sound, ClusterState, PipelineInfo, C!OneLess, C!Deployed

\* The client of t believes b of it, unless its pipeline is marked.
Follows(s, rep, t, b) == s.traces[t].pipeline \in rep \/ Believed(b, s.traces[t])
AllCounted(s, rep) == \A p \in PipelineIds \ rep : Counted(s, p)

\* The counts stay right when the unmarked pipelines keep their active traces.
LEMMA CountsStay ==
  ASSUME NEW s, NEW n, NEW rep, AllCounted(s, rep),
         \A p \in PipelineIds \ rep :
           /\ C!ActiveTraces(n, p) = C!ActiveTraces(s, p)
           /\ C!Deployed(n, p) => C!Deployed(s, p) /\ n.pipelines[p].active = s.pipelines[p].active
  PROVE  AllCounted(n, rep)
BY DEF AllCounted, Counted

LEMMA StartCounts ==
  ASSUME NEW s, Sound(s), NEW rep, NEW t \in TraceIds, NEW p \in PipelineIds,
         Follows(s, rep, t, "new"), AllCounted(s, rep)
  PROVE  LET n == C!ApplyStartTrace(s, t, p) IN
         /\ Sound(n) /\ AllCounted(n, rep)
         /\ \A u \in TraceIds \ {t} : n.traces[u] = s.traces[u]
         /\ IF s.pipelines[p].state = "Running"
            THEN n.traces[t].status = "Running" /\ n.traces[t].pipeline = p ELSE n = s
<1> DEFINE n == C!ApplyStartTrace(s, t, p)
<1>1. CASE s.pipelines[p].state # "Running"
  BY <1>1 DEF C!ApplyStartTrace
<1>2. CASE s.pipelines[p].state = "Running"
  <2>1. /\ n.traces = [s.traces EXCEPT ![t] = [status |-> "Running", pipeline |-> p, nodes |-> 0]]
        /\ n.pipelines = [s.pipelines EXCEPT ![p].active = @ + 1]
        /\ n.nodes = s.nodes /\ n \in ClusterState
    <3>1. /\ n = [s EXCEPT !.pipelines = [s.pipelines EXCEPT ![p].active = @ + 1],
                          !.traces = [s.traces EXCEPT ![t] = [status |-> "Running", pipeline |-> p, nodes |-> 0]]]
          /\ s \in ClusterState
      BY <1>2 DEF C!ApplyStartTrace, Sound
    <3>2. [s.pipelines EXCEPT ![p].active = @ + 1] \in [PipelineIds -> PipelineInfo]
      BY <3>1 DEF ClusterState, PipelineInfo
    <3>3. [s.traces EXCEPT ![t] = [status |-> "Running", pipeline |-> p, nodes |-> 0]] \in [TraceIds -> TraceInfo]
      BY <3>1 DEF ClusterState, TraceInfo, Statuses
    <3> QED
      BY <3>1, <3>2, <3>3 DEF ClusterState
  <2>2. Sound(n)
    BY <2>1, ClusterAssumed DEF Sound, ClusterState, TraceInfo
  <2>3. \A q \in PipelineIds \ rep : t \notin C!ActiveTraces(s, q)
    BY ClusterAssumed DEF Follows, Believed, C!ActiveTraces, C!Active
  <2>4. ASSUME NEW q \in PipelineIds \ rep PROVE Counted(n, q)
    <3>1. Counted(s, q)
      BY DEF AllCounted
    <3>2. CASE q = p
      <4>1. C!ActiveTraces(n, p) = C!ActiveTraces(s, p) \cup {t}
        BY <2>1 DEF C!ActiveTraces, C!Active, Sound, ClusterState
      <4>2. n.pipelines[p].active = s.pipelines[p].active + 1 /\ C!Deployed(s, p)
        BY <1>2, <2>1 DEF Sound, ClusterState, PipelineInfo, C!Deployed
      <4>3. /\ IsFiniteSet(C!ActiveTraces(s, p) \cup {t})
            /\ Cardinality(C!ActiveTraces(s, p) \cup {t}) = Cardinality(C!ActiveTraces(s, p)) + 1
        BY <2>3, <3>1, <3>2, FS_AddElement DEF Counted
      <4> QED
        BY <3>1, <3>2, <4>1, <4>2, <4>3 DEF Counted
    <3>3. CASE q # p
      <4>1. C!ActiveTraces(n, q) = C!ActiveTraces(s, q)
        BY <2>1, <2>3, <3>3 DEF C!ActiveTraces, Sound, ClusterState
      <4>2. n.pipelines[q] = s.pipelines[q]
        BY <2>1, <3>3 DEF Sound, ClusterState
      <4> QED
        BY <3>1, <4>1, <4>2 DEF Counted, C!Deployed
    <3> QED
      BY <3>2, <3>3
  <2> QED
    BY <1>2, <2>1, <2>2, <2>4 DEF AllCounted, Sound, ClusterState
<1> QED
  BY <1>1, <1>2

\* A trace that ends, completed or failed.
End(s, t, v) == IF C!Known(s, t) THEN C!OneLess(C!SetStatus(s, t, v), s.traces[t].pipeline) ELSE s

LEMMA EndCounts ==
  ASSUME NEW s, Sound(s), NEW rep, NEW t \in TraceIds, NEW v \in {"Completed", "Failed"},
         Follows(s, rep, t, "Running"), AllCounted(s, rep)
  PROVE  LET n == End(s, t, v) IN
         /\ Sound(n) /\ AllCounted(n, rep)
         /\ \A u \in TraceIds \ {t} : n.traces[u] = s.traces[u]
         /\ n.traces[t].pipeline = s.traces[t].pipeline
         /\ IF C!Known(s, t) THEN n.traces[t].status = v ELSE n = s
<1> DEFINE n == End(s, t, v)
           p == s.traces[t].pipeline
           m == C!SetStatus(s, t, v)
<1>1. CASE ~C!Known(s, t)
  BY <1>1 DEF End
<1>2. CASE C!Known(s, t)
  <2>1. p \in PipelineIds
    BY <1>2 DEF Sound, ClusterState, TraceInfo, C!Known
  <2>2. n = C!OneLess(m, p)
    BY <1>2 DEF End
  <2>3. v \in Statuses \ {"none"}
    BY DEF Statuses
  <2>4. /\ Sound(m) /\ m.pipelines = s.pipelines /\ m.traces[t].status = v
        /\ \A u \in TraceIds : m.traces[u].pipeline = s.traces[u].pipeline
        /\ \A u \in TraceIds \ {t} : m.traces[u] = s.traces[u]
    BY <1>2, <2>3, SetTrace
  <2>5. /\ Sound(n) /\ n.traces = m.traces
        /\ \A q \in PipelineIds \ {p} : n.pipelines[q] = s.pipelines[q]
        /\ n.pipelines[p].state = s.pipelines[p].state
        /\ C!Deployed(s, p) /\ s.pipelines[p].active > 0
             => n.pipelines[p].active = s.pipelines[p].active - 1
    <3> HIDE DEF n, m
    <3>1. /\ Sound(C!OneLess(m, p)) /\ C!OneLess(m, p).traces = m.traces
          /\ \A q \in PipelineIds \ {p} : C!OneLess(m, p).pipelines[q] = m.pipelines[q]
          /\ C!OneLess(m, p).pipelines[p].state = m.pipelines[p].state
          /\ C!Deployed(m, p) /\ m.pipelines[p].active > 0
               => C!OneLess(m, p).pipelines[p].active = m.pipelines[p].active - 1
      BY <2>1, <2>4, OneLessRight
    <3> QED
      BY <2>2, <2>4, <3>1 DEF C!Deployed
  <2>6. ASSUME NEW q \in PipelineIds \ rep PROVE Counted(n, q)
    <3>1. Counted(s, q)
      BY DEF AllCounted
    <3>2. CASE q = p
      <4>1. s.traces[t].status = "Running"
        BY <3>2 DEF Follows, Believed
      <4>2. t \in C!ActiveTraces(s, p)
        BY <4>1 DEF C!ActiveTraces, C!Active
      <4>3. C!ActiveTraces(n, p) = C!ActiveTraces(s, p) \ {t}
        BY <2>4, <2>5 DEF C!ActiveTraces, C!Active
      <4>4. /\ IsFiniteSet(C!ActiveTraces(s, p) \ {t})
            /\ Cardinality(C!ActiveTraces(s, p) \ {t}) = Cardinality(C!ActiveTraces(s, p)) - 1
        BY <3>1, <3>2, <4>2, FS_RemoveElement DEF Counted
      <4>5. Cardinality(C!ActiveTraces(s, p)) > 0
        BY <3>1, <3>2, <4>2, FS_EmptySet, FS_CardinalityType DEF Counted
      <4> QED
        BY <2>5, <3>1, <3>2, <4>3, <4>4, <4>5 DEF Counted, C!Deployed
    <3>3. CASE q # p
      <4>1. C!ActiveTraces(n, q) = C!ActiveTraces(s, q)
        BY <2>4, <2>5, <3>3 DEF C!ActiveTraces
      <4> QED
        BY <2>5, <3>1, <3>3, <4>1 DEF Counted, C!Deployed
    <3> QED
      BY <3>2, <3>3
  <2> HIDE DEF n, m
  <2> QED
    BY <1>2, <2>4, <2>5, <2>6 DEF AllCounted, n
<1> QED
  BY <1>1, <1>2

\* A trace that is suspended or resumed stays active.
LEMMA SwitchCounts ==
  ASSUME NEW s, Sound(s), NEW rep, NEW t \in TraceIds, NEW v \in C!Active, C!Known(s, t),
         s.traces[t].pipeline \in rep \/ s.traces[t].status \in C!Active, AllCounted(s, rep)
  PROVE  LET n == C!SetStatus(s, t, v) IN
         /\ Sound(n) /\ AllCounted(n, rep)
         /\ \A u \in TraceIds \ {t} : n.traces[u] = s.traces[u]
         /\ n.traces[t].pipeline = s.traces[t].pipeline /\ n.traces[t].status = v
<1> DEFINE n == C!SetStatus(s, t, v)
<1>1. v \in Statuses \ {"none"}
  BY DEF Statuses, C!Active
<1>2. /\ Sound(n) /\ n.pipelines = s.pipelines /\ n.traces[t].status = v
      /\ \A u \in TraceIds : n.traces[u].pipeline = s.traces[u].pipeline
      /\ \A u \in TraceIds \ {t} : n.traces[u] = s.traces[u]
  BY <1>1, SetTrace
<1> HIDE DEF n
<1>3. \A p \in PipelineIds \ rep : C!ActiveTraces(n, p) = C!ActiveTraces(s, p)
  BY <1>2 DEF C!ActiveTraces
<1>4. AllCounted(n, rep)
  BY <1>2, <1>3, CountsStay DEF C!Deployed
<1> QED
  BY <1>2, <1>4 DEF n

LEMMA NodeCounts ==
  ASSUME NEW s, Sound(s), NEW rep, NEW t \in TraceIds, AllCounted(s, rep)
  PROVE  LET n == C!ApplyCompleteNode(s, t) IN
         /\ Sound(n) /\ AllCounted(n, rep)
         /\ \A u \in TraceIds : n.traces[u].pipeline = s.traces[u].pipeline /\ n.traces[u].status = s.traces[u].status
<1> DEFINE n == C!ApplyCompleteNode(s, t)
<1>1. /\ Sound(n) /\ n.pipelines = s.pipelines
      /\ \A u \in TraceIds : n.traces[u].pipeline = s.traces[u].pipeline /\ n.traces[u].status = s.traces[u].status
  <2>1. CASE ~C!Known(s, t)
    BY <2>1 DEF C!ApplyCompleteNode
  <2>2. CASE C!Known(s, t)
    <3> DEFINE traces == [s.traces EXCEPT ![t].nodes = @ + 1]
    <3>1. /\ traces \in [TraceIds -> TraceInfo]
          /\ \A u \in TraceIds : traces[u].pipeline = s.traces[u].pipeline /\ traces[u].status = s.traces[u].status
      BY DEF Sound, ClusterState, TraceInfo
    <3>2. n = [s EXCEPT !.traces = traces]
      BY <2>2 DEF C!ApplyCompleteNode
    <3> HIDE DEF n, traces
    <3>3. n \in ClusterState /\ n.traces = traces /\ n.pipelines = s.pipelines
      BY <3>1, <3>2 DEF Sound, ClusterState
    <3> QED
      BY <3>1, <3>3 DEF Sound
  <2> QED
    BY <2>1, <2>2
<1> HIDE DEF n
<1>2. \A p \in PipelineIds \ rep : C!ActiveTraces(n, p) = C!ActiveTraces(s, p)
  BY <1>1 DEF C!ActiveTraces
<1> QED
  BY <1>1, <1>2, CountsStay DEF n, C!Deployed

\* A pipeline without active traces, or a marked one, may start from nothing.
LEMMA AfreshCounts ==
  ASSUME NEW s, Sound(s), NEW rep, NEW p \in PipelineIds, AllCounted(s, rep),
         C!ActiveTraces(s, p) = {} \/ p \in rep,
         NEW d \in PipelineInfo, d.active = 0
  PROVE  LET n == [s EXCEPT !.pipelines = [s.pipelines EXCEPT ![p] = d]] IN
         Sound(n) /\ AllCounted(n, rep) /\ n.traces = s.traces
<1> DEFINE n == [s EXCEPT !.pipelines = [s.pipelines EXCEPT ![p] = d]]
<1>1. /\ Sound(n) /\ n.traces = s.traces /\ n.pipelines[p] = d
      /\ \A q \in PipelineIds \ {p} : n.pipelines[q] = s.pipelines[q]
  <2>1. [s.pipelines EXCEPT ![p] = d] \in [PipelineIds -> PipelineInfo]
    BY DEF Sound, ClusterState
  <2>2. n \in ClusterState /\ n.traces = s.traces /\ n.pipelines = [s.pipelines EXCEPT ![p] = d]
    BY <2>1 DEF Sound, ClusterState
  <2> HIDE DEF n
  <2> QED
    BY <2>2 DEF Sound, ClusterState
<1>2. \A q \in PipelineIds : C!ActiveTraces(n, q) = C!ActiveTraces(s, q)
  BY <1>1 DEF C!ActiveTraces
<1>3. ASSUME NEW q \in PipelineIds \ rep PROVE Counted(n, q)
  <2>1. CASE q = p
    BY <1>1, <1>2, <2>1, FS_EmptySet DEF Counted
  <2>2. CASE q # p
    BY <1>1, <1>2, <2>2 DEF AllCounted, Counted, C!Deployed
  <2> QED
    BY <2>1, <2>2
<1> QED
  BY <1>1, <1>3 DEF AllCounted

\* A pipeline that is deployed or undeployed while a trace is under way is marked.
LEMMA DeployCounts ==
  ASSUME NEW s, Sound(s), NEW rep, NEW p \in PipelineIds, AllCounted(s, rep),
         C!ActiveTraces(s, p) = {} \/ p \in rep
  PROVE  /\ Sound(C!ApplyDeployPipeline(s, p)) /\ AllCounted(C!ApplyDeployPipeline(s, p), rep)
         /\ C!ApplyDeployPipeline(s, p).traces = s.traces
         /\ Sound(C!ApplyUndeployPipeline(s, p)) /\ AllCounted(C!ApplyUndeployPipeline(s, p), rep)
         /\ C!ApplyUndeployPipeline(s, p).traces = s.traces
<1>1. \A d \in PipelineInfo : d.active = 0 =>
        LET n == [s EXCEPT !.pipelines = [s.pipelines EXCEPT ![p] = d]] IN
        Sound(n) /\ AllCounted(n, rep) /\ n.traces = s.traces
  BY AfreshCounts
<1> DEFINE first == [state |-> "Initializing", active |-> 0]
<1>2. /\ first \in PipelineInfo /\ first.active = 0
      /\ C!Absent \in PipelineInfo /\ C!Absent.active = 0
  BY DEF PipelineInfo, States, C!Absent
<1>3. /\ C!ApplyDeployPipeline(s, p) = [s EXCEPT !.pipelines = [s.pipelines EXCEPT ![p] = first]]
      /\ C!ApplyUndeployPipeline(s, p) = [s EXCEPT !.pipelines = [s.pipelines EXCEPT ![p] = C!Absent]]
  BY DEF C!ApplyDeployPipeline, C!ApplyUndeployPipeline
<1> QED
  BY <1>1, <1>2, <1>3, Zenon

LEMMA StateCounts ==
  ASSUME NEW s, Sound(s), NEW rep, NEW p \in PipelineIds, NEW v \in States \ {"none"}, AllCounted(s, rep),
         C!Deployed(s, p)
  PROVE  /\ Sound(C!SetState(s, p, v)) /\ AllCounted(C!SetState(s, p, v), rep)
         /\ C!SetState(s, p, v).traces = s.traces
<1> DEFINE n == C!SetState(s, p, v)
<1>1. /\ Sound(n) /\ n.traces = s.traces
      /\ \A q \in PipelineIds : n.pipelines[q].active = s.pipelines[q].active /\ (C!Deployed(n, q) => C!Deployed(s, q))
  BY DEF Sound, ClusterState, PipelineInfo, C!SetState, C!Deployed
<1> HIDE DEF n
<1>2. \A q \in PipelineIds : C!ActiveTraces(n, q) = C!ActiveTraces(s, q)
  BY <1>1 DEF C!ActiveTraces
<1> QED
  BY <1>1, <1>2, CountsStay DEF n

LEMMA MemberCounts ==
  ASSUME NEW s, Sound(s), NEW rep, NEW N \in SUBSET NodeIds, AllCounted(s, rep)
  PROVE  LET n == [s EXCEPT !.nodes = N] IN Sound(n) /\ AllCounted(n, rep) /\ n.traces = s.traces
<1> DEFINE n == [s EXCEPT !.nodes = N]
<1>1. Sound(n) /\ n.traces = s.traces /\ n.pipelines = s.pipelines
  BY DEF Sound, ClusterState
<1> HIDE DEF n
<1>2. \A q \in PipelineIds : C!ActiveTraces(n, q) = C!ActiveTraces(s, q)
  BY <1>1 DEF C!ActiveTraces
<1> QED
  BY <1>1, <1>2, CountsStay DEF n, C!Deployed

AdminOps == {"DeployPipeline", "StartPipeline", "PausePipeline", "ResumePipeline",
             "DrainPipeline", "StopPipeline", "UndeployPipeline"}

LEMMA AdminKeeps ==
  ASSUME NEW cmd \in C!AdminCommands, NEW s, Sound(s), NEW rep, AllCounted(s, rep),
         cmd.op \in {"DeployPipeline", "UndeployPipeline"} => C!ActiveTraces(s, cmd.id) = {} \/ cmd.id \in rep
  PROVE  LET n == C!Apply(s, cmd) IN
         cmd \in Commands /\ Sound(n) /\ AllCounted(n, rep) /\ n.traces = s.traces
<1> DEFINE n == C!Apply(s, cmd)
<1>1. \/ \E p \in PipelineIds, op \in AdminOps : cmd = [op |-> op, id |-> p, pipeline |-> Nobody]
      \/ \E m \in NodeIds, op \in {"RegisterNode", "DeregisterNode"} : cmd = [op |-> op, id |-> m, pipeline |-> Nobody]
  BY DEF C!AdminCommands, C!Command, AdminOps
<1>2. cmd \in Commands
  BY <1>1 DEF Commands, AdminOps
<1>3. CASE cmd.op \in AdminOps
  <2>1. cmd.id \in PipelineIds
    BY <1>1, <1>3 DEF AdminOps
  <2>2. CASE cmd.op = "DeployPipeline"
    BY <1>2, <2>1, <2>2, DeployCounts DEF C!Apply
  <2>3. CASE cmd.op = "UndeployPipeline"
    BY <1>2, <2>1, <2>3, DeployCounts DEF C!Apply
  <2>4. CASE cmd.op = "ResumePipeline"
    <3>1. n = IF s.pipelines[cmd.id].state = "Paused" THEN C!SetState(s, cmd.id, "Running") ELSE s
      BY <2>4 DEF C!Apply, C!ApplyResumePipeline
    <3> QED
      BY <1>2, <2>1, <3>1, StateCounts DEF C!Deployed, States
  <2>5. CASE cmd.op \in {"StartPipeline", "PausePipeline", "DrainPipeline", "StopPipeline"}
    <3>1. \E v \in States \ {"none"} : n = IF C!Deployed(s, cmd.id) THEN C!SetState(s, cmd.id, v) ELSE s
      BY <2>5 DEF C!Apply, C!ApplyPipelineStateChange, States
    <3> QED
      BY <1>2, <2>1, <3>1, StateCounts
  <2> QED
    BY <1>3, <2>2, <2>3, <2>4, <2>5 DEF AdminOps
<1>4. CASE cmd.op \in {"RegisterNode", "DeregisterNode"}
  <2>1. cmd.id \in NodeIds
    BY <1>1, <1>4 DEF AdminOps
  <2>2. \E N \in SUBSET NodeIds : n = [s EXCEPT !.nodes = N]
    BY <1>4, <2>1 DEF C!Apply, C!ApplyRegisterNode, C!ApplyDeregisterNode, Sound, ClusterState
  <2> QED
    BY <1>2, <2>2, MemberCounts
<1> QED
  BY <1>1, <1>3, <1>4

\* An accepted command takes its trace where the client will believe it to be.
LEMMA TraceKeeps ==
  ASSUME NEW t \in TraceIds, NEW cmd \in C!TraceCommands(t), NEW rep,
         stage[t] \in {"new", "Running", "Suspended", "over"},
         Sound(C!Latest), AllCounted(C!Latest, rep), Follows(C!Latest, rep, t, stage[t])
  PROVE  LET s == C!Latest
             n == C!Apply(s, cmd)
         IN  /\ cmd \in Commands /\ cmd.op \notin {"DeployPipeline", "UndeployPipeline"}
             /\ Sound(n) /\ AllCounted(n, rep)
             /\ \A u \in TraceIds \ {t} : n.traces[u].pipeline = s.traces[u].pipeline /\ n.traces[u].status = s.traces[u].status
             /\ n.traces[t].pipeline \in {s.traces[t].pipeline, cmd.pipeline}
             /\ IF C!Accepted(cmd) THEN Follows(n, rep, t, C!After(cmd)) ELSE n = s
<1> DEFINE s == C!Latest
           n == C!Apply(s, cmd)
<1>1. CASE stage[t] = "new"
  <2> PICK p \in PipelineIds : cmd = [op |-> "StartTrace", id |-> t, pipeline |-> p]
    BY <1>1 DEF C!TraceCommands, C!Command
  <2>1. cmd \in Commands /\ cmd.op = "StartTrace" /\ cmd.pipeline = p
    BY DEF Commands
  <2>2. n = C!ApplyStartTrace(s, t, p)
    BY DEF C!Apply
  <2>3. /\ C!Accepted(cmd) <=> s.pipelines[p].state = "Running"
        /\ C!After(cmd) = "Running"
    BY DEF C!Accepted, C!After
  <2> HIDE DEF s, n
  <2>4. /\ Sound(n) /\ AllCounted(n, rep)
        /\ \A u \in TraceIds \ {t} : n.traces[u] = s.traces[u]
        /\ IF s.pipelines[p].state = "Running"
           THEN n.traces[t].status = "Running" /\ n.traces[t].pipeline = p ELSE n = s
    BY <1>1, <2>2, StartCounts DEF s
  <2> QED
    BY <2>1, <2>3, <2>4 DEF s, n, Follows, Believed
<1>2. CASE stage[t] = "Running"
  <2> PICK op \in {"CompleteNode", "CompleteTrace", "FailTrace", "SuspendTrace"} :
        cmd = [op |-> op, id |-> t, pipeline |-> Nobody]
    BY <1>2 DEF C!TraceCommands, C!Command
  <2>1. cmd \in Commands /\ cmd.op = op /\ cmd.id = t
    BY DEF Commands
  <2>2. C!Accepted(cmd) <=> C!Known(s, t)
    BY DEF C!Accepted
  <2>3. CASE op = "CompleteNode"
    <3>1. n = C!ApplyCompleteNode(s, t) /\ C!After(cmd) = "Running"
      BY <2>3 DEF C!Apply, C!After
    <3> HIDE DEF s, n
    <3>2. /\ Sound(n) /\ AllCounted(n, rep)
          /\ \A u \in TraceIds : n.traces[u].pipeline = s.traces[u].pipeline /\ n.traces[u].status = s.traces[u].status
      BY <3>1, NodeCounts DEF s
    <3>3. ~C!Known(s, t) => n = s
      BY <3>1 DEF C!ApplyCompleteNode
    <3> QED
      BY <1>2, <2>1, <2>2, <2>3, <3>1, <3>2, <3>3 DEF s, n, Follows, Believed
  <2>4. CASE op \in {"CompleteTrace", "FailTrace"}
    <3>1. PICK v \in {"Completed", "Failed"} : n = End(s, t, v)
      BY <2>4 DEF C!Apply, C!ApplyCompleteTrace, C!ApplyFailTrace, End
    <3>2. C!After(cmd) = "over"
      BY <2>4 DEF C!After
    <3> HIDE DEF s, n
    <3>3. /\ Sound(n) /\ AllCounted(n, rep)
          /\ \A u \in TraceIds \ {t} : n.traces[u] = s.traces[u]
          /\ n.traces[t].pipeline = s.traces[t].pipeline
          /\ IF C!Known(s, t) THEN n.traces[t].status = v ELSE n = s
      BY <1>2, <3>1, EndCounts DEF s
    <3> QED
      BY <2>1, <2>2, <2>4, <3>2, <3>3 DEF s, n, Follows, Believed
  <2>5. CASE op = "SuspendTrace"
    <3>1. n = (IF C!Known(s, t) THEN C!SetStatus(s, t, "Suspended") ELSE s) /\ C!After(cmd) = "Suspended"
      BY <2>5 DEF C!Apply, C!ApplySuspendTrace, C!After
    <3> HIDE DEF s, n
    <3>2. s.traces[t].pipeline \in rep \/ s.traces[t].status \in C!Active
      BY <1>2 DEF s, Follows, Believed, C!Active
    <3>3. CASE ~C!Known(s, t)
      BY <2>1, <2>2, <2>5, <3>1, <3>3 DEF s, n
    <3>4. CASE C!Known(s, t)
      <4>1. /\ Sound(n) /\ AllCounted(n, rep)
            /\ \A u \in TraceIds \ {t} : n.traces[u] = s.traces[u]
            /\ n.traces[t].pipeline = s.traces[t].pipeline /\ n.traces[t].status = "Suspended"
        BY <3>1, <3>2, <3>4, SwitchCounts DEF s, C!Active
      <4> QED
        BY <2>1, <2>2, <2>5, <3>1, <3>4, <4>1 DEF s, n, Follows, Believed
    <3> QED
      BY <3>3, <3>4
  <2> QED
    BY <2>3, <2>4, <2>5
<1>3. CASE stage[t] = "Suspended"
  <2>1. cmd = [op |-> "ResumeTrace", id |-> t, pipeline |-> Nobody]
    BY <1>3 DEF C!TraceCommands, C!Command
  <2>2. cmd \in Commands /\ cmd.op = "ResumeTrace"
    BY <2>1 DEF Commands
  <2>3. /\ n = IF s.traces[t].status = "Suspended" THEN C!SetStatus(s, t, "Running") ELSE s
        /\ C!After(cmd) = "Running" /\ (C!Accepted(cmd) <=> s.traces[t].status = "Suspended")
    BY <2>1 DEF C!Apply, C!ApplyResumeTrace, C!After, C!Accepted
  <2> HIDE DEF s, n
  <2>4. CASE s.traces[t].status # "Suspended"
    BY <2>2, <2>3, <2>4 DEF s, n
  <2>5. CASE s.traces[t].status = "Suspended"
    <3>1. /\ Sound(n) /\ AllCounted(n, rep)
          /\ \A u \in TraceIds \ {t} : n.traces[u] = s.traces[u]
          /\ n.traces[t].pipeline = s.traces[t].pipeline /\ n.traces[t].status = "Running"
      BY <2>3, <2>5, SwitchCounts DEF s, C!Active, C!Known
    <3> QED
      BY <2>2, <2>3, <2>5, <3>1 DEF s, n, Follows, Believed
  <2> QED
    BY <2>4, <2>5
<1>4. stage[t] # "over"
  BY DEF C!TraceCommands
<1> QED
  BY <1>1, <1>2, <1>3, <1>4

\* The log and the results of its commands grow together.
LEMMA CommitResults ==
  ASSUME ResultsRight, ReplicasRight, NEW cmd \in Commands, NEW n \in ClusterState,
         n = C!Apply(C!Latest, cmd),
         log' = Append(log, cmd), results' = Append(results, n), UNCHANGED <<applied, st, snapshot>>
  PROVE  ResultsRight' /\ ReplicasRight' /\ C!Latest' = n
<1>1. /\ Len(log) \in Nat /\ Len(results) = Len(log) + 1
      /\ log' \in Seq(Commands) /\ results' \in Seq(ClusterState)
      /\ Len(log') = Len(log) + 1 /\ Len(results') = Len(results) + 1
  BY DEF ResultsRight
<1>2. /\ \A i \in 1 .. Len(results) : results'[i] = results[i]
      /\ results'[Len(results) + 1] = n
      /\ \A i \in 1 .. Len(log) : log'[i] = log[i]
      /\ log'[Len(log) + 1] = cmd
  BY <1>1 DEF ResultsRight
<1>3. C!Latest' = n
  BY <1>1, <1>2 DEF C!Latest
<1>4. \A i \in 1 .. Len(log') : results'[i + 1] = C!Apply(results'[i], log'[i])
  <2> TAKE i \in 1 .. Len(log')
  <2>1. CASE i \in 1 .. Len(log)
    BY <1>1, <1>2, <2>1 DEF ResultsRight
  <2>2. CASE i = Len(log) + 1
    BY <1>1, <1>2, <2>2 DEF C!Latest
  <2> QED
    BY <1>1, <2>1, <2>2
<1>5. ResultsRight'
  <2>1. \A i \in 1 .. Len(log') : results'[i + 1] = C!Apply(results'[i], log'[i])
    BY <1>4
  <2> QED
    BY <1>1, <1>2, <2>1 DEF ResultsRight, C!Empty, C!NoTrace, C!Absent
<1>6. ReplicasRight'
  BY <1>1, <1>2 DEF ReplicasRight
<1> QED
  BY <1>3, <1>5, <1>6

\* A command of a trace, answered or not.
LEMMA TraceCommits ==
  ASSUME ClusterParts, NEW t \in TraceIds, NEW cmd \in C!TraceCommands(t), C!Commit(t, cmd)
  PROVE  ClusterParts'
<1> DEFINE s == C!Latest
           n == C!Apply(s, cmd)
<1> USE DEF ClusterParts
<1>1. /\ stage \in [TraceIds -> {"new", "Running", "Suspended", "over"}]
      /\ Sound(s) /\ AllCounted(s, repeated) /\ \A u \in TraceIds : Follows(s, repeated, u, stage[u])
  BY DEF CountsRight, AllCounted, Follows
<1>2. /\ cmd \in Commands /\ cmd.op \notin {"DeployPipeline", "UndeployPipeline"}
      /\ Sound(n) /\ AllCounted(n, repeated)
      /\ \A u \in TraceIds \ {t} : n.traces[u].pipeline = s.traces[u].pipeline /\ n.traces[u].status = s.traces[u].status
      /\ n.traces[t].pipeline \in {s.traces[t].pipeline, cmd.pipeline}
      /\ IF C!Accepted(cmd) THEN Follows(n, repeated, t, C!After(cmd)) ELSE n = s
  BY <1>1, TraceKeeps
<1>3. /\ log' = Append(log, cmd) /\ results' = Append(results, n)
      /\ UNCHANGED <<applied, st, snapshot>>
      /\ \/ /\ stage' = IF C!Accepted(cmd) THEN [stage EXCEPT ![t] = C!After(cmd)] ELSE stage
            /\ repeated' = repeated
         \/ /\ stage' = stage
            /\ repeated' = repeated \cup {cmd.pipeline, s.traces[t].pipeline}
  BY <1>2, ClusterAssumed DEF C!Commit, C!Upsets, C!About, C!replicas
<1>4. C!After(cmd) \in {"Running", "Suspended", "over"}
  BY DEF C!After
<1> HIDE DEF s, n
<1>5. ResultsRight' /\ ReplicasRight' /\ C!Latest' = n
  BY <1>2, <1>3, CommitResults DEF s, n, Sound
<1>6. /\ stage' \in [TraceIds -> {"new", "Running", "Suspended", "over"}]
      /\ AllCounted(n, repeated')
  BY <1>1, <1>2, <1>3, <1>4 DEF AllCounted
<1>7. \A u \in TraceIds : Follows(n, repeated', u, stage'[u])
  BY <1>1, <1>2, <1>3 DEF Follows, Believed
<1>8. CountsRight'
  BY <1>2, <1>5, <1>6, <1>7 DEF CountsRight, AllCounted, Follows
<1> QED
  BY <1>5, <1>8

LEMMA AdminCommits ==
  ASSUME ClusterParts, NEW cmd \in C!AdminCommands, C!Commit(Admin, cmd)
  PROVE  ClusterParts'
<1> DEFINE s == C!Latest
           n == C!Apply(s, cmd)
<1> USE DEF ClusterParts
<1>1. /\ Sound(s) /\ AllCounted(s, repeated) /\ \A u \in TraceIds : Follows(s, repeated, u, stage[u])
      /\ stage \in [TraceIds -> {"new", "Running", "Suspended", "over"}]
  BY DEF CountsRight, AllCounted, Follows
<1>2. /\ log' = Append(log, cmd) /\ results' = Append(results, n)
      /\ UNCHANGED <<applied, st, snapshot, stage>>
      /\ repeated' = IF C!Upsets(cmd) THEN repeated \cup {cmd.id} ELSE repeated
  BY ClusterAssumed DEF C!Commit, C!About, C!replicas
<1>3. /\ AllCounted(s, repeated')
      /\ cmd.op \in {"DeployPipeline", "UndeployPipeline"} => C!ActiveTraces(s, cmd.id) = {} \/ cmd.id \in repeated'
  BY <1>1, <1>2 DEF AllCounted, C!Upsets
<1> HIDE DEF s
<1>4. cmd \in Commands /\ Sound(n) /\ AllCounted(n, repeated') /\ n.traces = s.traces
  BY <1>1, <1>3, AdminKeeps
<1> HIDE DEF n
<1>5. ResultsRight' /\ ReplicasRight' /\ C!Latest' = n
  BY <1>2, <1>4, CommitResults DEF s, n, Sound
<1>6. CountsRight'
  BY <1>1, <1>2, <1>4, <1>5 DEF CountsRight, AllCounted, Follows
<1> QED
  BY <1>5, <1>6

\* The replicas change neither the log nor what the clients know.
LEMMA ReplicaSteps ==
  ASSUME ClusterParts, NEW r \in Replicas,
         \/ C!ApplyEntry(r) \/ C!BuildSnapshot(r) \/ C!Purge(r) \/ C!Restart(r)
         \/ \E q \in Replicas \ {r} : C!InstallSnapshot(r, q)
  PROVE  ClusterParts'
<1> USE DEF ClusterParts
<1>1. UNCHANGED <<log, results, stage, repeated>>
  BY DEF C!ApplyEntry, C!BuildSnapshot, C!Purge, C!Restart, C!InstallSnapshot, C!clients
<1>2. ResultsRight' /\ CountsRight'
  BY <1>1 DEF ResultsRight, CountsRight, C!Latest, C!Empty, C!NoTrace, C!Absent
<1>3. Len(log) \in Nat /\ C!Empty \in ClusterState
  BY DEF ResultsRight, ClusterState, TraceInfo, PipelineInfo, Statuses, States, C!Empty, C!NoTrace, C!Absent
<1>4. ReplicasRight'
  <2>1. CASE C!ApplyEntry(r)
    <3>1. applied[r] \in Nat /\ applied[r] + 1 \in 1 .. Len(log) /\ applied'[r] = applied[r] + 1
      BY <1>3, <2>1 DEF ReplicasRight, C!ApplyEntry
    <3>2. st'[r] = results[applied[r] + 2] /\ st'[r] \in ClusterState
      <4>1. st'[r] = C!Apply(results[applied[r] + 1], log[applied[r] + 1])
        BY <2>1, <3>1 DEF ReplicasRight, C!ApplyEntry
      <4>2. results[(applied[r] + 1) + 1] = C!Apply(results[applied[r] + 1], log[applied[r] + 1])
        BY <3>1 DEF ResultsRight
      <4>3. (applied[r] + 1) + 1 = applied[r] + 2 /\ applied[r] + 2 \in 1 .. Len(results)
        BY <1>3, <3>1 DEF ResultsRight
      <4> QED
        BY <4>1, <4>2, <4>3 DEF ResultsRight
    <3> QED
      BY <1>1, <1>3, <2>1, <3>1, <3>2 DEF ReplicasRight, C!ApplyEntry
  <2>2. CASE C!BuildSnapshot(r)
    BY <1>1, <2>2 DEF ReplicasRight, C!BuildSnapshot
  <2>3. CASE C!Purge(r)
    BY <1>1, <2>3 DEF ReplicasRight, C!Purge
  <2>4. CASE C!Restart(r)
    <3>1. results[0 + 1] = C!Empty
      BY DEF ResultsRight
    <3> QED
      BY <1>1, <1>3, <2>4, <3>1 DEF ReplicasRight, C!Restart, C!NoSnapshot
  <2>5. ASSUME NEW q \in Replicas \ {r}, C!InstallSnapshot(r, q) PROVE ReplicasRight'
    BY <1>1, <2>5 DEF ReplicasRight, C!InstallSnapshot
  <2> QED
    BY <2>1, <2>2, <2>3, <2>4, <2>5
<1> QED
  BY <1>2, <1>4

LEMMA ClusterStarts == StorageInit => ClusterInv
<1> SUFFICES ASSUME StorageInit PROVE ClusterParts
  BY DEF ClusterInv
<1>1. /\ log = <<>> /\ results = <<C!Empty>> /\ stage = [t \in TraceIds |-> "new"] /\ repeated = {}
      /\ applied = [r \in Replicas |-> 0] /\ st = [r \in Replicas |-> C!Empty]
      /\ snapshot = [r \in Replicas |-> [index |-> 0, st |-> C!Empty]]
  BY DEF StorageInit, C!Init, C!NoSnapshot
<1>2. /\ C!Empty \in ClusterState
      /\ \A t \in TraceIds : C!Empty.traces[t].status = "none" /\ C!Empty.traces[t].pipeline = Nobody
      /\ \A p \in PipelineIds : C!Empty.pipelines[p].state = "none"
  BY DEF ClusterState, TraceInfo, PipelineInfo, Statuses, States, C!Empty, C!NoTrace, C!Absent
<1>3. ResultsRight
  <2>1. log \in Seq(Commands) /\ Len(log) = 0
    BY <1>1
  <2>2. results \in Seq(ClusterState) /\ Len(results) = 1 /\ results[1] = C!Empty
    BY <1>1, <1>2
  <2> QED
    BY <2>1, <2>2 DEF ResultsRight
<1>4. ReplicasRight
  BY <1>1, <1>2 DEF ReplicasRight
<1>5. CountsRight
  <2>1. C!Latest = C!Empty
    BY <1>1 DEF C!Latest
  <2>2. \A p \in PipelineIds : C!ActiveTraces(C!Empty, p) = {}
    BY <1>2 DEF C!ActiveTraces, C!Active
  <2> QED
    BY <1>1, <1>2, <2>1, <2>2, FS_EmptySet DEF CountsRight, Sound, Believed, Counted, C!Deployed
<1> QED
  BY <1>3, <1>4, <1>5 DEF ClusterParts

LEMMA ClusterKept == ClusterInv /\ [StorageNext]_storage => ClusterInv'
<1> SUFFICES ASSUME ClusterParts, part = "cluster", [StorageNext]_storage PROVE ClusterParts'
  BY PartSteps DEF ClusterInv
<1>1. C!Next \/ UNCHANGED replicated
  BY PartSteps
<1>2. CASE UNCHANGED replicated
  BY <1>2 DEF replicated, ClusterParts, ResultsRight, ReplicasRight, CountsRight, C!Latest,
              C!Empty, C!NoTrace, C!Absent
<1>3. CASE C!Next
  BY <1>3, TraceCommits, AdminCommits, ReplicaSteps DEF C!Next, C!Execute
<1> QED
  BY <1>1, <1>2, <1>3

\* The cardinality that Cluster takes from FiniteSets is the one of the library.
LEMMA SameCardinality == \A S : C!Cardinality(S) = Cardinality(S)
BY Zenon DEF C!Cardinality, Cardinality

(* A replica of the cluster is in the state that the commands up to its     *)
(* last applied one lead to, through restarts and snapshots of others, and  *)
(* active_traces of a pipeline is the number of its running and suspended   *)
(* traces unless a lost answer or a new deployment set them at odds         *)
(* (apply_command, install_snapshot).  For any number of replicas,          *)
(* pipelines, traces and commands.                                          *)
THEOREM ClusterAgreesAlways == StorageSpec => []ClusterAgrees
<1>1. ClusterInv => ClusterAgrees
  BY SameCardinality DEF ClusterInv, ClusterParts, ReplicasRight, CountsRight, Counted, ClusterAgrees,
         C!ReplicasAgree, C!ActiveMatches
<1> QED
  BY <1>1, ClusterStarts, ClusterKept, PTL DEF StorageSpec

-----------------------------------------------------------------------------
(* Facts about numbers, files and orders that the Raft log rests on.         *)

\* The least of some numbers.
LEMMA LeastNumber ==
  ASSUME NEW I \in SUBSET Nat, I # {}
  PROVE  \E x \in I : \A y \in I : x <= y
<1>1. \E x \in I : \A y \in I : ~(<<y, x>> \in OpToRel(<, Nat))
  BY NatLessThanWellFounded, WFMin
<1>2. PICK x \in I : \A y \in I : ~(<<y, x>> \in OpToRel(<, Nat))
  BY <1>1
<1>3. ASSUME NEW y \in I PROVE x <= y
  <2>1. <<y, x>> \in Nat \X Nat /\ <<y, x>>[1] = y /\ <<y, x>>[2] = x
    OBVIOUS
  <2>2. ~(y < x)
    BY <1>2, <2>1 DEF OpToRel
  <2> QED
    BY <2>2
<1> QED
  BY <1>3

\* Largest and Smallest choose what their names say.
LEMMA LargestIn ==
  ASSUME NEW n \in Nat, NEW I \in SUBSET (0 .. n), I # {}
  PROVE  L!Largest(I) \in I /\ \A y \in I : y <= L!Largest(I)
<1> DEFINE J == {n - x : x \in I}
<1>1. J \in SUBSET Nat /\ J # {}
  <2>1. PICK x : x \in I
    OBVIOUS
  <2>2. n - x \in J
    BY <2>1
  <2>3. \A y \in I : n - y \in Nat
    OBVIOUS
  <2> QED
    BY <2>2, <2>3
<1>2. PICK z \in J : \A y \in J : z <= y
  BY <1>1, LeastNumber
<1>3. PICK x \in I : z = n - x
  BY <1>2
<1>4. ASSUME NEW y \in I PROVE y <= x
  <2>1. n - y \in J /\ x \in 0 .. n /\ y \in 0 .. n
    OBVIOUS
  <2>2. n - x <= n - y
    BY <1>2, <1>3, <2>1
  <2> QED
    BY <2>1, <2>2
<1> QED
  BY <1>4 DEF L!Largest

LEMMA SmallestIn ==
  ASSUME NEW I \in SUBSET Nat, I # {}
  PROVE  L!Smallest(I) \in I
BY LeastNumber DEF L!Smallest

\* The file of an index.
LEMMA AlignedBounds ==
  ASSUME NEW i \in Nat
  PROVE  /\ L!Aligned(i) \in Nat
         /\ L!Aligned(i) <= i /\ i < L!Aligned(i) + SegmentMax
<1>1. SegmentMax \in Nat /\ SegmentMax > 0
  BY StorageAssumption DEF L!RaftLogConstants
<1>2. i = SegmentMax * (i \div SegmentMax) + (i % SegmentMax) /\ i % SegmentMax \in 0 .. SegmentMax - 1
  BY <1>1, SMT
<1>3. i \div SegmentMax \in Nat
  BY <1>1, SMT
<1>4. (i \div SegmentMax) * SegmentMax = SegmentMax * (i \div SegmentMax)
  BY <1>1, <1>3, SMT
<1>5. (i \div SegmentMax) * SegmentMax \in Nat
  BY <1>1, <1>3, SMT
<1> QED
  BY <1>1, <1>2, <1>4, <1>5 DEF L!Aligned

LEMMA SameFile ==
  ASSUME NEW i \in Nat, NEW j \in Nat, L!Aligned(i) <= j, j < L!Aligned(i) + SegmentMax
  PROVE  L!Aligned(j) = L!Aligned(i)
<1> DEFINE q == i \div SegmentMax
           d == j \div SegmentMax
<1>1. SegmentMax \in Nat /\ SegmentMax > 0
  BY StorageAssumption DEF L!RaftLogConstants
<1>2. q \in Nat /\ d \in Nat
  BY <1>1, SMT
<1>3. L!Aligned(i) = q * SegmentMax /\ L!Aligned(j) = d * SegmentMax
  BY DEF L!Aligned
<1>4. d * SegmentMax <= j /\ j < d * SegmentMax + SegmentMax
  BY <1>3, AlignedBounds
<1>5. q * SegmentMax <= j /\ j < q * SegmentMax + SegmentMax
  BY <1>3
<1> HIDE DEF q, d
<1>6. q * SegmentMax \in Nat /\ d * SegmentMax \in Nat
  BY <1>1, <1>2, SMT
<1>7. CASE d < q
  <2>1. (d + 1) * SegmentMax <= q * SegmentMax
    BY <1>1, <1>2, <1>7, SMT
  <2>2. (d + 1) * SegmentMax = d * SegmentMax + SegmentMax
    BY <1>1, <1>2, SMT
  <2> QED
    BY <2>1, <2>2, <1>1, <1>4, <1>5, <1>6
<1>8. CASE q < d
  <2>1. (q + 1) * SegmentMax <= d * SegmentMax
    BY <1>1, <1>2, <1>8, SMT
  <2>2. (q + 1) * SegmentMax = q * SegmentMax + SegmentMax
    BY <1>1, <1>2, SMT
  <2> QED
    BY <2>1, <2>2, <1>1, <1>4, <1>5, <1>6
<1>9. CASE q = d
  BY <1>9, <1>3
<1> QED
  BY <1>2, <1>7, <1>8, <1>9

-----------------------------------------------------------------------------
(* A file that is written from memory has the entries in their order.       *)
Increasing(S) == {s \in [1 .. Cardinality(S) -> S] : \A m, n \in DOMAIN s : m < n => s[m] < s[n]}

LEMMA CanBeOrdered ==
  ASSUME NEW b \in Nat, NEW S \in SUBSET (0 .. b)
  PROVE  IsFiniteSet(S) /\ Increasing(S) # {}
<1> DEFINE Bad == {n \in Nat : \E T \in SUBSET (0 .. b) : Cardinality(T) = n /\ Increasing(T) = {}}
<1>0. ASSUME NEW T \in SUBSET (0 .. b) PROVE IsFiniteSet(T) /\ Cardinality(T) \in Nat
  <2>1. IsFiniteSet(0 .. b)
    BY FS_Interval
  <2>2. IsFiniteSet(T)
    BY <2>1, FS_Subset
  <2> QED
    BY <2>2, FS_CardinalityType
<1>1. CASE Bad = {}
  BY <1>1, <1>0
<1>2. CASE Bad # {}
  <2>1. PICK n \in Bad : \A m \in Bad : n <= m
    BY <1>2, LeastNumber
  <2>2. PICK T \in SUBSET (0 .. b) : Cardinality(T) = n /\ Increasing(T) = {}
    BY <2>1
  <2>3. T # {}
    <3>1. SUFFICES ASSUME T = {} PROVE FALSE
      OBVIOUS
    <3>2. Cardinality(T) = 0
      BY <3>1, FS_EmptySet
    <3>3. [x \in 1 .. 0 |-> x] \in Increasing(T)
      BY <3>1, <3>2 DEF Increasing
    <3> QED
      BY <3>3, <2>2
  <2> DEFINE t == L!Largest(T)
  <2>5. t \in T /\ \A y \in T : y <= t
    BY <2>3, LargestIn
  <2> HIDE DEF t
  <2> DEFINE U == T \ {t}
  <2>6. U \in SUBSET (0 .. b) /\ Cardinality(U) = n - 1 /\ n - 1 \in Nat /\ n \in Nat
    <3>1. Cardinality(U) = Cardinality(T) - 1
      BY <1>0, <2>5, FS_RemoveElement
    <3>2. Cardinality(U) \in Nat
      BY <1>0
    <3> QED
      BY <3>1, <3>2, <2>2, <1>0
  <2>7. Increasing(U) # {}
    <3>1. n - 1 \notin Bad
      BY <2>1, <2>6
    <3> QED
      BY <3>1, <2>6
  <2>8. PICK s : s \in Increasing(U)
    BY <2>7
  <2> DEFINE u == [k \in 1 .. n |-> IF k = n THEN t ELSE s[k]]
  <2>9. s \in [1 .. n - 1 -> U] /\ \A k, m \in 1 .. n - 1 : k < m => s[k] < s[m]
    BY <2>8, <2>6 DEF Increasing
  <2>10. u \in [1 .. n -> T]
    BY <2>9, <2>5, <2>6
  <2>11. ASSUME NEW k \in 1 .. n, NEW m \in 1 .. n, k < m PROVE u[k] < u[m]
    <3>1. k \in 1 .. n - 1 /\ u[k] = s[k] /\ s[k] \in U
      BY <2>9, <2>11, <2>6
    <3>2. CASE m = n
      <4>1. u[m] = t /\ u[k] \in T /\ u[k] # t
        BY <3>1, <3>2
      <4> HIDE DEF u
      <4>2. u[k] \in 0 .. b /\ t \in 0 .. b /\ u[k] <= t
        BY <4>1, <2>5
      <4> QED
        BY <4>1, <4>2
    <3>3. CASE m # n
      BY <3>1, <3>3, <2>9, <2>11, <2>6
    <3> QED
      BY <3>2, <3>3
  <2>12. u \in Increasing(T)
    <3> HIDE DEF u
    <3> QED
      BY <2>10, <2>11, <2>2 DEF Increasing
  <2> QED
    BY <2>12, <2>2
<1> QED
  BY <1>1, <1>2

LEMMA OrderedIs ==
  ASSUME NEW b \in Nat, NEW S \in SUBSET (0 .. b)
  PROVE  /\ L!Ordered(S) \in [1 .. L!Cardinality(S) -> S]
         /\ L!Cardinality(S) = Cardinality(S) /\ Cardinality(S) \in Nat
         /\ \A x \in S : \E n \in 1 .. Cardinality(S) : L!Ordered(S)[n] = x
<1>1. \A X : L!Cardinality(X) = Cardinality(X)
  BY Zenon DEF Cardinality, L!Cardinality
<1> DEFINE s == L!Ordered(S)
<1>2. s \in Increasing(S)
  BY <1>1, CanBeOrdered DEF Increasing, L!Ordered
<1> HIDE DEF s
<1>3. s \in [1 .. Cardinality(S) -> S] /\ \A m, n \in 1 .. Cardinality(S) : m < n => s[m] < s[n]
  BY <1>2 DEF Increasing
<1>4. Cardinality(S) \in Nat
  BY CanBeOrdered, FS_CardinalityType
<1> DEFINE R == {s[n] : n \in 1 .. Cardinality(S)}
<1>5. s \in Bijection(1 .. Cardinality(S), R)
  <2>1. s \in [1 .. Cardinality(S) -> R]
    BY <1>3
  <2>2. ASSUME NEW m \in 1 .. Cardinality(S), NEW n \in 1 .. Cardinality(S), m # n PROVE s[m] # s[n]
    <3>0. m < n \/ n < m
      BY <1>4, <2>2
    <3>1. s[m] \in 0 .. b /\ s[n] \in 0 .. b
      BY <1>3
    <3>2. s[m] < s[n] \/ s[n] < s[m]
      BY <1>3, <3>0
    <3> QED
      BY <3>1, <3>2
  <2>3. s \in Injection(1 .. Cardinality(S), R)
    BY <2>1, <2>2 DEF Injection, IsInjective
  <2>4. s \in Surjection(1 .. Cardinality(S), R)
    BY <2>1 DEF Surjection
  <2> QED
    BY <2>3, <2>4 DEF Bijection
<1>6. Cardinality(R) = Cardinality(S)
  <2>1. IsFiniteSet(1 .. Cardinality(S)) /\ Cardinality(1 .. Cardinality(S)) = Cardinality(S)
    BY <1>4, FS_Interval
  <2> QED
    BY <2>1, <1>5, FS_Bijection DEF ExistsBijection
<1>7. R \in SUBSET S
  BY <1>3
<1>8. R = S
  <2> HIDE DEF R
  <2> QED
    BY <1>6, <1>7, CanBeOrdered, FS_Subset
<1> QED
  BY <1>1, <1>3, <1>4, <1>8 DEF s

\* Sequence q has the values of l on S, and nothing else.
Transcribes(q, l, S) ==
  /\ \A n \in DOMAIN q : \E i \in S : q[n] = l[i]
  /\ \A i \in S : \E n \in DOMAIN q : q[n] = l[i]

LEMMA EntriesOfIs ==
  ASSUME NEW b \in Nat, NEW S \in SUBSET (0 .. b), NEW V, NEW l, \A i \in S : l[i] \in V
  PROVE  /\ L!EntriesOf(l, S) \in Seq(V)
         /\ S # {} <=> L!EntriesOf(l, S) # <<>>
         /\ Transcribes(L!EntriesOf(l, S), l, S)
<1> DEFINE N == Cardinality(S)
           s == L!Ordered(S)
           q == L!EntriesOf(l, S)
<1>1. s \in [1 .. N -> S] /\ N \in Nat /\ \A x \in S : \E n \in 1 .. N : s[n] = x
  BY OrderedIs
<1>2. q = [n \in 1 .. N |-> l[s[n]]]
  BY OrderedIs DEF L!EntriesOf
<1> HIDE DEF s, N, q
<1>3. \A n \in 1 .. N : s[n] \in S /\ q[n] = l[s[n]] /\ q[n] \in V
  BY <1>1, <1>2
<1>4. q \in [1 .. N -> V] /\ DOMAIN q = 1 .. N
  BY <1>2, <1>3
<1>5. q \in Seq(V) /\ Len(q) = N
  BY <1>1, <1>4
<1>6. S # {} <=> q # <<>>
  <2>1. ASSUME S # {} PROVE q # <<>>
    <3>1. PICK x : x \in S
      BY <2>1
    <3>2. PICK n \in 1 .. N : s[n] = x
      BY <1>1, <3>1
    <3> QED
      BY <3>2, <1>1, <1>5
  <2>2. ASSUME q # <<>> PROVE S # {}
    <3>1. N # 0
      BY <2>2, <1>5
    <3>2. 1 \in 1 .. N
      BY <3>1, <1>1
    <3> QED
      BY <3>2, <1>3
  <2> QED
    BY <2>1, <2>2
<1>7. \A n \in DOMAIN q : \E i \in S : q[n] = l[i]
  BY <1>3, <1>4
<1>8. \A i \in S : \E n \in DOMAIN q : q[n] = l[i]
  BY <1>1, <1>3, <1>4
<1> QED
  BY <1>5, <1>6, <1>7, <1>8 DEF q, Transcribes

-----------------------------------------------------------------------------
(* The Raft log: what is in memory is in the files, each entry once and in  *)
(* the file it belongs to; what is in the files and not in memory has been  *)
(* purged, or is what a truncation has still to delete.                     *)

Top == MaxIndex + SegmentMax
LogEntries == [index : 0 .. Top, term : Nat]
OldEntry(i) == [index |-> i, term |-> 1]

Lines(fs) == UNION {{fs[f][n] : n \in DOMAIN fs[f]} : f \in DOMAIN fs}

RaftTypes ==
  /\ DOMAIN logs \subseteq 0 .. Top /\ \A i \in DOMAIN logs : logs[i] \in LogEntries /\ logs[i].index = i
  /\ DOMAIN files \subseteq 0 .. Top /\ \A f \in DOMAIN files : files[f] \in Seq(LogEntries) /\ files[f] # <<>>
  /\ purged \in -1 .. Top /\ committed \in Int /\ vote \in Int
  /\ meta \in [purged : -1 .. Top, committed : Int, vote : Int]
  /\ legacy \in {{}, 0 .. SegmentMax}
  /\ job \in [op : {"none", "purge", "truncate"}, at : 0 .. Top, todo : SUBSET DOMAIN files]
  /\ job.op = "none" => job = L!NoJob
  /\ up \in {"up", "down", "migrating", "unreadable"} /\ (up # "up" => job = L!NoJob)
  /\ active = NoSegment \/ active \in [first : DOMAIN files, count : Nat]

\* Every line is in the file of its index, and no index has two different lines.
Filed ==
  /\ \A f \in DOMAIN files : \A n \in DOMAIN files[f] : L!Aligned(files[f][n].index) = f
  /\ \A a, b \in Lines(files) : a.index = b.index => a = b

Backed == \A i \in DOMAIN logs : logs[i] \in Lines(files)

Cut(i) == job.op = "truncate" /\ i >= job.at

\* If something has been purged from memory, all of it has.
Accounted ==
  \A a \in Lines(files) :
    \/ a.index \in DOMAIN logs
    \/ Cut(a.index) /\ L!Aligned(a.index) \in job.todo
    \/ ~Cut(a.index) /\ a.index <= purged /\ \A j \in DOMAIN logs : j > purged

JobRight ==
  /\ job.op = "purge" => job.at = purged /\ \A i \in DOMAIN logs : i > purged
  /\ job.op = "truncate" => \A i \in DOMAIN logs : i < job.at

AckedHeld == \A e \in acked : e.index \in DOMAIN logs /\ logs[e.index] = e

AckedFiled == legacy = {} => \A e \in acked : e \in Lines(files)

\* Until the old file is gone nothing happens but its migration.
Legacy ==
  legacy # {} =>
    /\ up # "up" /\ meta.purged = -1
    /\ acked = {OldEntry(i) : i \in legacy}
    /\ Lines(files) \in {{}, {OldEntry(i) : i \in legacy}}

Migrating == up = "migrating" => legacy # {} /\ purged = -1 /\ \A i \in DOMAIN logs : i \in legacy /\ logs[i] = OldEntry(i)

Gaps ==
  ~interrupted =>
    /\ up = "up" => /\ \A j \in DOMAIN logs : \A i \in purged + 1 .. j : i \in DOMAIN logs
                    /\ job.op # "purge" => meta.purged = purged
    /\ up # "up" => \A a \in Lines(files) : \A i \in meta.purged + 1 .. a.index : \E b \in Lines(files) : b.index = i

RaftInv ==
  ~misfiled =>
    /\ RaftTypes /\ Filed /\ AckedFiled /\ Legacy /\ Migrating /\ Gaps
    /\ up = "up" => Backed /\ Accounted /\ JobRight /\ AckedHeld

LEMMA TopIs == Top \in Nat /\ MaxIndex \in Nat /\ SegmentMax \in Nat /\ SegmentMax > 0 /\ MaxIndex <= Top /\ SegmentMax <= Top
BY StorageAssumption DEF L!RaftLogConstants, Top

\* The last index.
LEMMA LastIs ==
  ASSUME RaftTypes
  PROVE  /\ L!LastIndex \in Int /\ L!LastIndex >= -1
         /\ DOMAIN logs = {} => L!LastIndex = purged
         /\ DOMAIN logs # {} => L!LastIndex \in DOMAIN logs
         /\ \A j \in DOMAIN logs : j <= L!LastIndex
<1>1. CASE DOMAIN logs = {}
  BY <1>1, TopIs DEF L!LastIndex, RaftTypes
<1>2. CASE DOMAIN logs # {}
  <2>1. L!Largest(DOMAIN logs) \in DOMAIN logs /\ \A y \in DOMAIN logs : y <= L!Largest(DOMAIN logs)
    BY <1>2, TopIs, LargestIn DEF RaftTypes
  <2> QED
    BY <1>2, <2>1, TopIs DEF L!LastIndex, RaftTypes
<1> QED
  BY <1>1, <1>2

\* What the lines of the files are after a file was appended to, replaced or deleted.
LEMMA LineIs ==
  ASSUME NEW fs, NEW a
  PROVE  a \in Lines(fs) <=> \E f \in DOMAIN fs : \E n \in DOMAIN fs[f] : fs[f][n] = a
BY DEF Lines

LEMMA LinesTyped ==
  ASSUME RaftTypes, Filed
  PROVE  /\ \A a \in Lines(files) : a \in LogEntries /\ L!Aligned(a.index) \in DOMAIN files
         /\ \A f \in DOMAIN files : \E a \in Lines(files) : L!Aligned(a.index) = f
<1>1. ASSUME NEW a \in Lines(files) PROVE a \in LogEntries /\ L!Aligned(a.index) \in DOMAIN files
  <2>1. PICK f \in DOMAIN files : \E n \in DOMAIN files[f] : files[f][n] = a
    BY LineIs
  <2>2. PICK n \in DOMAIN files[f] : files[f][n] = a
    BY <2>1
  <2>3. files[f] \in Seq(LogEntries)
    BY DEF RaftTypes
  <2> QED
    BY <2>2, <2>3 DEF Filed
<1>2. ASSUME NEW f \in DOMAIN files PROVE \E a \in Lines(files) : L!Aligned(a.index) = f
  <2>1. files[f] \in Seq(LogEntries) /\ files[f] # <<>>
    BY DEF RaftTypes
  <2>2. 1 \in DOMAIN files[f]
    BY <2>1
  <2> QED
    BY <2>2, LineIs DEF Filed
<1> QED
  BY <1>1, <1>2

LEMMA LinesWithout ==
  ASSUME NEW fs, NEW f, \A g \in DOMAIN fs : \A n \in DOMAIN fs[g] : L!Aligned(fs[g][n].index) = g
  PROVE  Lines(L!Without(fs, {f})) = {a \in Lines(fs) : L!Aligned(a.index) # f}
<1> DEFINE gs == L!Without(fs, {f})
<1>1. DOMAIN gs = DOMAIN fs \ {f} /\ \A g \in DOMAIN gs : gs[g] = fs[g]
  BY DEF L!Without
<1> HIDE DEF gs
<1>2. ASSUME NEW a \in Lines(gs) PROVE a \in Lines(fs) /\ L!Aligned(a.index) # f
  BY <1>1, LineIs
<1>3. ASSUME NEW a \in Lines(fs), L!Aligned(a.index) # f PROVE a \in Lines(gs)
  BY <1>1, <1>3, LineIs
<1> QED
  BY <1>2, <1>3 DEF gs

LEMMA LinesWith ==
  ASSUME NEW fs, NEW f, NEW q, \A g \in DOMAIN fs : \A n \in DOMAIN fs[g] : L!Aligned(fs[g][n].index) = g
  PROVE  Lines(L!With(fs, f, q)) = {a \in Lines(fs) : L!Aligned(a.index) # f} \cup {q[n] : n \in DOMAIN q}
<1> DEFINE gs == L!With(fs, f, q)
<1>1. DOMAIN gs = DOMAIN fs \cup {f} /\ gs[f] = q /\ \A g \in DOMAIN fs : g # f => gs[g] = fs[g]
  BY DEF L!With
<1> HIDE DEF gs
<1>2. ASSUME NEW a \in Lines(gs) PROVE a \in {b \in Lines(fs) : L!Aligned(b.index) # f} \cup {q[n] : n \in DOMAIN q}
  <2>1. PICK g \in DOMAIN gs : \E n \in DOMAIN gs[g] : gs[g][n] = a
    BY LineIs
  <2>2. CASE g = f
    BY <2>1, <2>2, <1>1
  <2>3. CASE g # f
    BY <2>1, <2>3, <1>1, LineIs
  <2> QED
    BY <2>2, <2>3
<1>3. ASSUME NEW a \in Lines(fs), L!Aligned(a.index) # f PROVE a \in Lines(gs)
  BY <1>1, <1>3, LineIs
<1>4. ASSUME NEW n \in DOMAIN q PROVE q[n] \in Lines(gs)
  BY <1>1, LineIs
<1> QED
  BY <1>2, <1>3, <1>4 DEF gs

OldLines(fs, f) == IF f \in DOMAIN fs THEN fs[f] ELSE <<>>
AppendedTo(fs, f, a) == L!With(fs, f, Append(OldLines(fs, f), a))

LineAdded(fs, f, a, gs) ==
  /\ DOMAIN gs = DOMAIN fs \cup {f} /\ \A g \in DOMAIN fs : g # f => gs[g] = fs[g]
  /\ gs[f] \in Seq(LogEntries) /\ gs[f] # <<>>
  /\ Lines(gs) = Lines(fs) \cup {a}
  /\ \E n \in DOMAIN gs[f] : gs[f][n] = a
  /\ \A n \in DOMAIN gs[f] : gs[f][n] = a \/ (f \in DOMAIN fs /\ n \in DOMAIN fs[f] /\ gs[f][n] = fs[f][n])

LEMMA LinesAppend ==
  ASSUME NEW fs, NEW f, NEW a \in LogEntries, \A g \in DOMAIN fs : fs[g] \in Seq(LogEntries)
  PROVE  LineAdded(fs, f, a, AppendedTo(fs, f, a))
<1> DEFINE gs == AppendedTo(fs, f, a)
           old == OldLines(fs, f)
           new == Append(old, a)
<1>1. old \in Seq(LogEntries)
  <2>1. CASE f \in DOMAIN fs
    BY <2>1 DEF OldLines
  <2>2. CASE f \notin DOMAIN fs
    BY <2>2 DEF OldLines
  <2> QED
    BY <2>1, <2>2
<1>2. f \notin DOMAIN fs => old = <<>>
  BY DEF OldLines
<1>3. f \in DOMAIN fs => old = fs[f]
  BY DEF OldLines
<1> HIDE DEF old
<1>4. /\ new \in Seq(LogEntries) /\ new # <<>> /\ DOMAIN new = 1 .. Len(old) + 1 /\ DOMAIN old = 1 .. Len(old)
      /\ Len(old) \in Nat /\ new[Len(old) + 1] = a /\ \A n \in 1 .. Len(old) : new[n] = old[n]
  BY <1>1
<1>5. DOMAIN gs = DOMAIN fs \cup {f} /\ gs[f] = new /\ \A g \in DOMAIN fs : g # f => gs[g] = fs[g]
  BY DEF L!With, AppendedTo, old
<1> HIDE DEF gs, new
<1>6. ASSUME NEW b \in Lines(gs) PROVE b \in Lines(fs) \cup {a}
  <2>1. PICK g \in DOMAIN gs : \E n \in DOMAIN gs[g] : gs[g][n] = b
    BY LineIs
  <2>2. PICK n \in DOMAIN gs[g] : gs[g][n] = b
    BY <2>1
  <2>3. CASE g # f
    BY <2>1, <2>3, <1>5, LineIs
  <2>4. CASE g = f /\ n = Len(old) + 1
    BY <2>2, <2>4, <1>4, <1>5
  <2>5. CASE g = f /\ n # Len(old) + 1
    <3>1. n \in 1 .. Len(old) /\ new[n] = b
      BY <2>2, <2>5, <1>4, <1>5
    <3>2. n \in DOMAIN old /\ old[n] = b
      BY <3>1, <1>4
    <3>3. f \in DOMAIN fs
      BY <3>2, <1>2
    <3> QED
      BY <3>2, <3>3, <1>3, LineIs
  <2> QED
    BY <2>3, <2>4, <2>5
<1>7. a \in Lines(gs)
  <2>1. Len(old) + 1 \in DOMAIN new
    BY <1>4
  <2> QED
    BY <2>1, <1>4, <1>5, LineIs
<1>8. ASSUME NEW b \in Lines(fs) PROVE b \in Lines(gs)
  <2>1. PICK g \in DOMAIN fs : \E n \in DOMAIN fs[g] : fs[g][n] = b
    BY LineIs
  <2>2. PICK n \in DOMAIN fs[g] : fs[g][n] = b
    BY <2>1
  <2>3. CASE g # f
    BY <2>2, <2>3, <1>5, LineIs
  <2>4. CASE g = f
    <3>1. n \in 1 .. Len(old) /\ old[n] = b
      BY <2>2, <2>4, <1>3, <1>4
    <3>2. n \in DOMAIN new /\ new[n] = b
      BY <3>1, <1>4
    <3> QED
      BY <3>2, <1>5, LineIs
  <2> QED
    BY <2>3, <2>4
<1>9. \E n \in DOMAIN new : new[n] = a
  <2>1. Len(old) + 1 \in DOMAIN new
    BY <1>4
  <2> QED
    BY <2>1, <1>4
<1>10. ASSUME NEW n \in DOMAIN new PROVE new[n] = a \/ (f \in DOMAIN fs /\ n \in DOMAIN fs[f] /\ new[n] = fs[f][n])
  <2>1. CASE n = Len(old) + 1
    BY <2>1, <1>4
  <2>2. CASE n # Len(old) + 1
    <3>1. n \in 1 .. Len(old) /\ n \in DOMAIN old /\ new[n] = old[n]
      BY <2>2, <1>4
    <3>2. f \in DOMAIN fs
      BY <3>1, <1>2
    <3> QED
      BY <3>1, <3>2, <1>3
  <2> QED
    BY <2>1, <2>2
<1> QED
  BY <1>4, <1>5, <1>6, <1>7, <1>8, <1>9, <1>10 DEF gs, LineAdded

LEMMA RaftStarts ==
  ASSUME L!Init
  PROVE  RaftInv
<1>1. Lines(files) = {}
  BY DEF L!Init, Lines
<1>2. DOMAIN logs = {} /\ DOMAIN files = {}
  BY DEF L!Init
<1>3. RaftTypes
  <2>1. meta \in [purged : -1 .. Top, committed : Int, vote : Int] /\ purged \in -1 .. Top
    BY TopIs DEF L!Init, L!NoIndex
  <2>2. job \in [op : {"none", "purge", "truncate"}, at : 0 .. Top, todo : SUBSET DOMAIN files]
    BY TopIs DEF L!Init, L!NoJob
  <2> QED
    BY <1>2, <2>1, <2>2 DEF L!Init, RaftTypes, L!NoIndex
<1>4. Filed /\ Migrating /\ Gaps
  BY <1>1, <1>2 DEF L!Init, Filed, Migrating, Gaps
<1>5. acked = {OldEntry(i) : i \in legacy}
  BY DEF L!Init, OldEntry
<1>6. AckedFiled
  BY <1>5 DEF AckedFiled
<1>7. meta.purged = -1 /\ up = "down" /\ ~misfiled
  BY DEF L!Init, L!NoIndex
<1>8. Legacy
  BY <1>1, <1>5, <1>7 DEF Legacy
<1> QED
  BY <1>3, <1>4, <1>6, <1>7, <1>8 DEF RaftInv

LEMMA Appended ==
  ASSUME RaftInv, ~misfiled, L!Idle, NEW e \in L!Entries, e.index = L!LastIndex + 1,
         NEW fs, fs = L!AppendTo(e), ~L!Misfiled(fs)
  PROVE  /\ e \in LogEntries /\ \A a \in Lines(files) : a.index < e.index
         /\ Lines(fs) = Lines(files) \cup {e}
         /\ DOMAIN files \subseteq DOMAIN fs /\ DOMAIN fs \subseteq 0 .. Top
         /\ L!Segment(e).first \in DOMAIN fs
         /\ L!Segment(e) \in [first : DOMAIN fs, count : Nat]
         /\ \A f \in DOMAIN fs : fs[f] \in Seq(LogEntries) /\ fs[f] # <<>>
         /\ \A f \in DOMAIN fs : \A n \in DOMAIN fs[f] : L!Aligned(fs[f][n].index) = f
<1>1. RaftTypes /\ Filed /\ Accounted
  BY DEF RaftInv, L!Idle
<1>2. e \in LogEntries /\ e.index \in 0 .. MaxIndex
  BY TopIs, StorageAssumption DEF L!Entries, L!Indices, LogEntries, L!RaftLogConstants
<1>3. ASSUME NEW a \in Lines(files) PROVE a.index < e.index /\ a \in LogEntries
  <2>1. a \in LogEntries
    BY <1>1, LinesTyped
  <2>2. a.index \in DOMAIN logs \/ (a.index <= purged /\ \A j \in DOMAIN logs : j > purged)
    BY <1>1 DEF Accounted, Cut, L!Idle, L!NoJob
  <2>3. purged \in Int /\ DOMAIN logs \subseteq Int
    BY <1>1 DEF RaftTypes
  <2>4. a.index \in Int /\ L!LastIndex \in Int
    BY <1>1, <2>1, LastIs, TopIs DEF LogEntries
  <2>5. a.index <= L!LastIndex
    <3>1. CASE a.index \in DOMAIN logs
      BY <3>1, <1>1, LastIs
    <3>2. CASE a.index <= purged /\ \A j \in DOMAIN logs : j > purged
      <4>1. L!LastIndex = purged \/ L!LastIndex > purged
        BY <3>2, <1>1, LastIs
      <4> QED
        BY <4>1, <3>2, <2>3, <2>4
    <3> QED
      BY <2>2, <3>1, <3>2
  <2> QED
    BY <2>1, <2>4, <2>5
<1> DEFINE f == L!Segment(e).first
<1>4. fs = AppendedTo(files, f, e)
  BY DEF L!AppendTo, AppendedTo, OldLines
<1>5. \A g \in DOMAIN files : files[g] \in Seq(LogEntries) /\ files[g] # <<>>
  BY <1>1 DEF RaftTypes
<1> HIDE DEF f
<1>6. /\ DOMAIN fs = DOMAIN files \cup {f} /\ \A g \in DOMAIN files : g # f => fs[g] = files[g]
      /\ fs[f] \in Seq(LogEntries) /\ fs[f] # <<>>
      /\ Lines(fs) = Lines(files) \cup {e}
      /\ \E n \in DOMAIN fs[f] : fs[f][n] = e
      /\ \A n \in DOMAIN fs[f] : fs[f][n] = e \/ (f \in DOMAIN files /\ n \in DOMAIN files[f] /\ fs[f][n] = files[f][n])
  <2>1. LineAdded(files, f, e, fs)
    BY <1>2, <1>4, <1>5, LinesAppend
  <2> QED
    BY <2>1 DEF LineAdded
<1>8. L!Aligned(e.index) \in Nat /\ L!Aligned(e.index) <= e.index
  BY <1>2, TopIs, AlignedBounds
<1>9. f \in 0 .. Top /\ L!Aligned(e.index) = f /\ L!Segment(e) \in [first : {f}, count : Nat]
  <2>1. CASE L!Full
    <3>1. L!Segment(e) = [first |-> L!Aligned(e.index), count |-> 0]
      BY <2>1 DEF L!Segment
    <3>2. f = L!Aligned(e.index)
      BY <3>1 DEF f
    <3> QED
      BY <3>1, <3>2, <1>8, <1>2, TopIs
  <2>2. CASE ~L!Full
    <3>1. L!Segment(e) = active /\ active \in [first : DOMAIN files, count : Nat]
      BY <2>2, <1>1 DEF L!Segment, L!Full, RaftTypes
    <3>2. f = active.first /\ f \in DOMAIN files
      BY <3>1 DEF f
    <3>3. PICK a \in Lines(files) : L!Aligned(a.index) = f
      BY <3>2, <1>1, LinesTyped
    <3>4. a.index \in Nat /\ a.index < e.index /\ f <= a.index /\ f \in Nat
      BY <3>3, <1>3, TopIs, AlignedBounds DEF LogEntries
    <3>5. PICK n \in DOMAIN fs[f] : fs[f][n] = e
      BY <1>6
    <3>6. ~(e.index >= f + SegmentMax)
      BY <3>5, <1>6 DEF L!Misfiled
    <3>7. L!Aligned(e.index) = L!Aligned(a.index)
      BY <3>3, <3>4, <3>6, <1>2, TopIs, SameFile
    <3> QED
      BY <3>1, <3>2, <3>3, <3>7, <1>1 DEF RaftTypes
  <2> QED
    BY <2>1, <2>2
<1>10. DOMAIN files \subseteq 0 .. Top
  BY <1>1 DEF RaftTypes
<1>11. ASSUME NEW g \in DOMAIN fs PROVE fs[g] \in Seq(LogEntries) /\ fs[g] # <<>>
  BY <1>5, <1>6
<1>12. ASSUME NEW g \in DOMAIN fs, NEW n \in DOMAIN fs[g] PROVE L!Aligned(fs[g][n].index) = g
  <2>1. CASE g # f
    BY <2>1, <1>1, <1>6 DEF Filed
  <2>2. CASE g = f
    BY <2>2, <1>1, <1>6, <1>9 DEF Filed
  <2> QED
    BY <2>1, <2>2
<1>13. f = L!Segment(e).first
  BY DEF f
<1> QED
  BY <1>2, <1>3, <1>6, <1>9, <1>10, <1>11, <1>12, <1>13

\* While the node is up there is no old file any more.
LEMMA UpParts ==
  ASSUME RaftInv, ~misfiled, up = "up"
  PROVE  /\ RaftTypes /\ Filed /\ Gaps /\ Backed /\ Accounted /\ JobRight /\ AckedHeld
         /\ legacy = {} /\ \A e \in acked : e \in Lines(files)
BY DEF RaftInv, Legacy, AckedFiled

LEMMA RaftAppend ==
  ASSUME RaftInv, ~misfiled', NEW e \in L!Entries, L!AppendEntry(e)
  PROVE  RaftInv'
<1> USE DEF L!AppendEntry
<1>1. ~misfiled /\ ~L!Misfiled(files') /\ L!Idle /\ up = "up" /\ job = L!NoJob
  BY DEF L!Note, L!Idle
<1>2. /\ RaftTypes /\ Filed /\ Gaps /\ Backed /\ Accounted /\ JobRight /\ AckedHeld
      /\ legacy = {} /\ \A a \in acked : a \in Lines(files)
  BY <1>1, UpParts
<1>3. /\ e \in LogEntries /\ \A a \in Lines(files) : a.index < e.index
      /\ Lines(files') = Lines(files) \cup {e}
      /\ DOMAIN files \subseteq DOMAIN files' /\ DOMAIN files' \subseteq 0 .. Top
      /\ L!Segment(e) \in [first : DOMAIN files', count : Nat]
      /\ \A f \in DOMAIN files' : files'[f] \in Seq(LogEntries) /\ files'[f] # <<>>
      /\ \A f \in DOMAIN files' : \A n \in DOMAIN files'[f] : L!Aligned(files'[f][n].index) = f
  BY <1>1, Appended
<1>4. DOMAIN logs' = DOMAIN logs \cup {e.index} /\ logs'[e.index] = e /\ \A i \in DOMAIN logs : i # e.index => logs'[i] = logs[i]
  BY DEF L!With
<1>5. e.index \in 0 .. Top /\ \A i \in DOMAIN logs : i # e.index
  BY <1>2, <1>3 DEF LogEntries, Backed, RaftTypes
<1>6. L!LastIndex \in Int /\ e.index = L!LastIndex + 1 /\ (DOMAIN logs = {} => L!LastIndex = purged)
      /\ (DOMAIN logs # {} => L!LastIndex \in DOMAIN logs) /\ \A j \in DOMAIN logs : j <= L!LastIndex
  BY <1>2, LastIs
<1>7. RaftTypes'
  <2>1. active' \in [first : DOMAIN files', count : Nat]
    BY <1>3
  <2>2. job' \in [op : {"none", "purge", "truncate"}, at : 0 .. Top, todo : SUBSET DOMAIN files'] /\ job' = L!NoJob
    BY <1>1, TopIs DEF L!NoJob
  <2>3. DOMAIN logs' \subseteq 0 .. Top /\ \A i \in DOMAIN logs' : logs'[i] \in LogEntries /\ logs'[i].index = i
    BY <1>2, <1>3, <1>4, <1>5 DEF RaftTypes
  <2> QED
    BY <1>1, <1>2, <1>3, <2>1, <2>2, <2>3 DEF RaftTypes
<1>8. Filed'
  <2>1. \A a, b \in Lines(files') : a.index = b.index => a = b
    <3>1. \A a \in Lines(files) : a.index # e.index
      BY <1>2, <1>3, LinesTyped, TopIs DEF LogEntries
    <3> QED
      BY <1>2, <1>3, <3>1 DEF Filed
  <2> QED
    BY <1>3, <2>1 DEF Filed
<1>9. \A a \in acked' : a \in Lines(files')
  BY <1>2, <1>3
<1>10. Backed' /\ AckedHeld'
  BY <1>2, <1>3, <1>4, <1>5 DEF Backed, AckedHeld
<1>11. Accounted'
  <2>1. ASSUME NEW a \in Lines(files) PROVE a.index \in DOMAIN logs \/ (a.index <= purged /\ \A j \in DOMAIN logs : j > purged)
    BY <1>1, <1>2 DEF Accounted, Cut, L!NoJob
  <2>2. (\A j \in DOMAIN logs : j > purged) => \A j \in DOMAIN logs' : j > purged
    <3>1. SUFFICES ASSUME \A j \in DOMAIN logs : j > purged PROVE e.index > purged
      BY <1>4
    <3>2. purged \in Int
      BY <1>2 DEF RaftTypes
    <3>3. CASE DOMAIN logs = {}
      BY <3>2, <3>3, <1>6
    <3>4. CASE DOMAIN logs # {}
      <4>1. L!LastIndex > purged
        BY <3>1, <3>4, <1>6
      <4> QED
        BY <4>1, <3>2, <1>6
    <3> QED
      BY <3>3, <3>4
  <2>3. \A i : ~Cut(i)'
    BY <1>1 DEF Cut, L!NoJob
  <2> QED
    BY <1>3, <1>4, <2>1, <2>2, <2>3 DEF Accounted
<1>12. Gaps'
  <2>1. ASSUME ~interrupted, NEW j \in DOMAIN logs', NEW i \in purged + 1 .. j PROVE i \in DOMAIN logs'
    <3>0. purged \in Int /\ DOMAIN logs \subseteq Int
      BY <1>2 DEF RaftTypes
    <3>1. CASE j \in DOMAIN logs
      BY <3>1, <2>1, <1>1, <1>2, <1>4 DEF Gaps
    <3>2. CASE j = e.index /\ i # e.index
      <4>1. i \in purged + 1 .. L!LastIndex
        BY <3>2, <1>5, <1>6, <3>0
      <4>2. ASSUME DOMAIN logs = {} PROVE FALSE
        <5>1. L!LastIndex = purged
          BY <4>2, <1>6
        <5> QED
          BY <4>1, <5>1, <3>0
      <4> QED
        BY <4>1, <4>2, <2>1, <1>1, <1>2, <1>4, <1>6 DEF Gaps
    <3> QED
      BY <3>1, <3>2, <1>4
  <2> QED
    BY <2>1, <1>1, <1>2 DEF Gaps
<1>13. JobRight' /\ Legacy' /\ Migrating' /\ AckedFiled' /\ up' = "up"
  BY <1>1, <1>2, <1>9 DEF JobRight, Legacy, Migrating, AckedFiled, L!NoJob
<1> QED
  BY <1>7, <1>8, <1>10, <1>11, <1>12, <1>13 DEF RaftInv

\* The process has stopped, with nothing under way, and the files have what was in memory.
LEMMA RaftStops ==
  ASSUME RaftInv, ~misfiled, up = "up", L!Forget, UNCHANGED <<meta, legacy, acked>>,
         Lines(files) \subseteq Lines(files'), Filed',
         DOMAIN files' \subseteq 0 .. Top /\ \A f \in DOMAIN files' : files'[f] \in Seq(LogEntries) /\ files'[f] # <<>>,
         ~interrupted' => \A a \in Lines(files') : \A i \in meta.purged + 1 .. a.index : \E b \in Lines(files') : b.index = i
  PROVE  RaftInv'
<1>1. /\ RaftTypes /\ legacy = {} /\ \A a \in acked : a \in Lines(files)
  BY UpParts
<1>2. up' = "down" /\ job' = L!NoJob /\ logs' = <<>> /\ active' = NoSegment /\ purged' = -1 /\ committed' = -1 /\ vote' = 0
  BY DEF L!Forget, L!NoIndex
<1>3. job' \in [op : {"none", "purge", "truncate"}, at : 0 .. Top, todo : SUBSET DOMAIN files']
  BY <1>2, TopIs DEF L!NoJob
<1>4. DOMAIN logs' = {}
  BY <1>2
<1>5. RaftTypes'
  BY <1>1, <1>2, <1>3, <1>4, TopIs DEF RaftTypes
<1>6. AckedFiled' /\ Legacy' /\ Migrating' /\ Gaps'
  BY <1>1, <1>2 DEF AckedFiled, Legacy, Migrating, Gaps
<1> QED
  BY <1>2, <1>5, <1>6 DEF RaftInv

LEMMA NoGapOnDisk ==
  ASSUME RaftInv, ~misfiled, L!Idle, ~interrupted
  PROVE  /\ meta.purged = purged
         /\ \A i \in purged + 1 .. L!LastIndex : \E b \in Lines(files) : b.index = i
         /\ \A a \in Lines(files) : \A i \in purged + 1 .. a.index : \E b \in Lines(files) : b.index = i
<1>1. up = "up" /\ job = L!NoJob /\ job.op = "none"
  BY DEF L!Idle, L!NoJob
<1>2. RaftTypes /\ Filed /\ Gaps /\ Backed /\ Accounted
  BY <1>1, UpParts
<1>3. meta.purged = purged /\ \A j \in DOMAIN logs : \A i \in purged + 1 .. j : i \in DOMAIN logs
  BY <1>1, <1>2 DEF Gaps
<1>4. \A i \in DOMAIN logs : logs[i] \in Lines(files) /\ logs[i].index = i
  BY <1>2 DEF Backed, RaftTypes
<1>5. purged \in Int
  BY <1>2 DEF RaftTypes
<1>6. ASSUME NEW i \in purged + 1 .. L!LastIndex PROVE i \in DOMAIN logs
  <2>1. ASSUME DOMAIN logs = {} PROVE FALSE
    <3>1. L!LastIndex = purged
      BY <2>1, <1>2, LastIs
    <3> QED
      BY <3>1, <1>5
  <2>2. L!LastIndex \in DOMAIN logs
    BY <2>1, <1>2, LastIs
  <2> QED
    BY <2>2, <1>3
<1>7. ASSUME NEW a \in Lines(files), NEW i \in purged + 1 .. a.index PROVE i \in DOMAIN logs
  <2>1. a.index \in DOMAIN logs \/ a.index <= purged
    BY <1>1, <1>2 DEF Accounted, Cut
  <2>2. a.index \in Int
    BY <1>2, LinesTyped, TopIs DEF LogEntries
  <2>3. ~(a.index <= purged)
    BY <2>2, <1>5
  <2> QED
    BY <2>1, <2>3, <1>3
<1> QED
  BY <1>3, <1>4, <1>6, <1>7

LEMMA RaftCrashInAppend ==
  ASSUME RaftInv, ~misfiled', NEW e \in L!Entries, L!CrashInAppend(e)
  PROVE  RaftInv'
<1>1. /\ ~misfiled /\ ~L!Misfiled(files') /\ L!Idle /\ up = "up" /\ e.index = L!LastIndex + 1
      /\ L!Forget /\ UNCHANGED <<meta, legacy, acked>> /\ interrupted' = interrupted
  BY DEF L!Note, L!Idle, L!CrashInAppend
<1>2. files' = L!AppendTo(e) \/ files' = files
  BY DEF L!CrashInAppend
<1>3. RaftTypes /\ Filed
  BY <1>1, UpParts
<1>4. CASE files' = L!AppendTo(e)
  <2>1. /\ e \in LogEntries /\ \A a \in Lines(files) : a.index < e.index
        /\ Lines(files') = Lines(files) \cup {e}
        /\ DOMAIN files' \subseteq 0 .. Top
        /\ \A f \in DOMAIN files' : files'[f] \in Seq(LogEntries) /\ files'[f] # <<>>
        /\ \A f \in DOMAIN files' : \A n \in DOMAIN files'[f] : L!Aligned(files'[f][n].index) = f
    BY <1>1, <1>4, Appended
  <2>2. Filed'
    <3>1. \A a \in Lines(files) : a.index # e.index
      BY <1>3, <2>1, LinesTyped, TopIs DEF LogEntries
    <3> QED
      BY <1>3, <2>1, <3>1 DEF Filed
  <2>3. ASSUME ~interrupted, NEW a \in Lines(files'), NEW i \in meta.purged + 1 .. a.index
        PROVE  \E b \in Lines(files') : b.index = i
    <3>1. CASE a \in Lines(files)
      BY <3>1, <2>1, <2>3, <1>1, NoGapOnDisk
    <3>2. CASE a = e /\ i = e.index
      BY <3>2, <2>1
    <3>3. CASE a = e /\ i # e.index
      <4>1. meta.purged = purged /\ purged \in Int /\ L!LastIndex \in Int
        BY <2>3, <1>1, <1>3, NoGapOnDisk, LastIs DEF RaftTypes
      <4>2. i \in purged + 1 .. L!LastIndex
        BY <3>3, <4>1, <1>1
      <4> QED
        BY <4>2, <2>1, <2>3, <1>1, NoGapOnDisk
    <3> QED
      BY <3>1, <3>2, <3>3, <2>1
  <2> QED
    BY <1>1, <2>1, <2>2, <2>3, RaftStops
<1>5. CASE files' = files
  <2>1. Filed' /\ Lines(files') = Lines(files)
    BY <1>3, <1>5 DEF Filed
  <2>2. ~interrupted => \A a \in Lines(files') : \A i \in meta.purged + 1 .. a.index : \E b \in Lines(files') : b.index = i
    BY <1>1, <2>1, NoGapOnDisk
  <2> QED
    BY <1>1, <1>3, <1>5, <2>1, <2>2, RaftStops DEF RaftTypes
<1> QED
  BY <1>2, <1>4, <1>5

LEMMA RaftCrash ==
  ASSUME RaftInv, ~misfiled', L!Crash
  PROVE  RaftInv'
<1>1. /\ ~misfiled /\ up \in {"up", "migrating"} /\ L!Forget /\ UNCHANGED <<files, meta, legacy, acked>>
      /\ interrupted' = (interrupted \/ job # L!NoJob)
  BY DEF L!Crash, L!disk
<1>2. RaftTypes /\ Filed
  BY <1>1 DEF RaftInv
<1>3. Filed' /\ Lines(files') = Lines(files)
  BY <1>1, <1>2 DEF Filed
<1>4. CASE up = "up"
  <2>1. ~interrupted' => \A a \in Lines(files') : \A i \in meta.purged + 1 .. a.index : \E b \in Lines(files') : b.index = i
    <3>1. ~interrupted' => ~interrupted /\ L!Idle
      BY <1>1, <1>4 DEF L!Idle
    <3> QED
      BY <1>1, <1>3, <3>1, NoGapOnDisk
  <2> QED
    BY <1>1, <1>2, <1>3, <1>4, <2>1, RaftStops DEF RaftTypes
<1>5. CASE up = "migrating"
  <2>1. up' = "down" /\ job' = L!NoJob /\ logs' = <<>> /\ active' = NoSegment /\ purged' = -1 /\ committed' = -1 /\ vote' = 0
    BY <1>1 DEF L!Forget, L!NoIndex
  <2>2. job' \in [op : {"none", "purge", "truncate"}, at : 0 .. Top, todo : SUBSET DOMAIN files']
    BY <2>1, TopIs DEF L!NoJob
  <2>3. DOMAIN logs' = {}
    BY <2>1
  <2>4. RaftTypes'
    BY <1>1, <1>2, <2>1, <2>2, <2>3, TopIs DEF RaftTypes
  <2>5. AckedFiled' /\ Legacy' /\ Migrating' /\ Gaps'
    BY <1>1, <1>3, <1>5, <2>1 DEF RaftInv, AckedFiled, Legacy, Migrating, Gaps
  <2> QED
    BY <1>3, <2>1, <2>4, <2>5 DEF RaftInv
<1> QED
  BY <1>1, <1>4, <1>5

\* Steps that write meta.json or vote.json only.
LEMMA RaftSaves ==
  ASSUME RaftInv, ~misfiled',
         (\E i \in L!Indices : L!SaveCommitted(i)) \/ L!SaveVote \/ L!PurgeEnd
  PROVE  RaftInv'
<1>1. /\ ~misfiled /\ up = "up" /\ up' = up
      /\ UNCHANGED <<logs, purged, active, files, legacy, acked, interrupted>>
      /\ job' = job \/ (job.op = "purge" /\ job' = L!NoJob)
  <2>1. CASE \E i \in L!Indices : L!SaveCommitted(i)
    <3>1. PICK i \in L!Indices : L!SaveCommitted(i)
      BY <2>1
    <3> QED
      BY <3>1 DEF L!SaveCommitted, L!Idle, L!ghosts
  <2>2. CASE L!SaveVote
    BY <2>2 DEF L!SaveVote, L!Idle, L!ghosts
  <2>3. CASE L!PurgeEnd
    BY <2>3 DEF L!PurgeEnd, L!mem, L!ghosts
  <2> QED
    BY <2>1, <2>2, <2>3
<1>2. RaftTypes /\ Filed /\ Gaps /\ Backed /\ Accounted /\ JobRight /\ AckedHeld
      /\ legacy = {} /\ \A a \in acked : a \in Lines(files)
  BY <1>1, UpParts
<1>3. /\ meta' \in [purged : -1 .. Top, committed : Int, vote : Int] /\ committed' \in Int /\ vote' \in Int
      /\ meta'.purged = purged \/ (meta'.purged = meta.purged /\ job' = job)
  <2>1. CASE \E i \in L!Indices : L!SaveCommitted(i)
    <3>1. PICK i \in L!Indices : L!SaveCommitted(i)
      BY <2>1
    <3>0. i \in Int
      BY TopIs DEF L!Indices
    <3>2. committed' = i /\ meta' = [meta EXCEPT !.committed = i, !.purged = purged] /\ vote' = vote
      BY <3>1 DEF L!SaveCommitted
    <3>3. meta \in [purged : -1 .. Top, committed : Int, vote : Int] /\ purged \in -1 .. Top /\ vote \in Int
      BY <1>2 DEF RaftTypes
    <3> QED
      BY <3>0, <3>2, <3>3
  <2>2. CASE L!SaveVote
    <3>1. vote \in Int /\ committed \in Int /\ meta \in [purged : -1 .. Top, committed : Int, vote : Int]
      BY <1>2 DEF RaftTypes
    <3>2. vote' = vote + 1 /\ meta' = [meta EXCEPT !.vote = vote'] /\ committed' = committed /\ job' = job
      BY <2>2 DEF L!SaveVote
    <3> QED
      BY <3>1, <3>2
  <2>3. CASE L!PurgeEnd
    BY <2>3, <1>2 DEF L!PurgeEnd, L!mem, RaftTypes
  <2> QED
    BY <2>1, <2>2, <2>3
<1>4. job' \in [op : {"none", "purge", "truncate"}, at : 0 .. Top, todo : SUBSET DOMAIN files] /\ (job'.op = "none" => job' = L!NoJob)
  BY <1>1, <1>2, TopIs DEF RaftTypes, L!NoJob
<1>5. RaftTypes'
  BY <1>1, <1>2, <1>3, <1>4 DEF RaftTypes
<1>6. Lines(files') = Lines(files) /\ Filed' /\ Backed' /\ AckedHeld'
  BY <1>1, <1>2 DEF Filed, Backed, AckedHeld
<1>7. Accounted' /\ JobRight'
  BY <1>1, <1>2, <1>6 DEF Accounted, Cut, JobRight, L!NoJob
<1>8. Gaps'
  BY <1>1, <1>2, <1>3 DEF Gaps
<1>9. Legacy' /\ Migrating' /\ AckedFiled'
  BY <1>1, <1>2, <1>6 DEF Legacy, Migrating, AckedFiled
<1> QED
  BY <1>5, <1>6, <1>7, <1>8, <1>9 DEF RaftInv

LEMMA RaftPurgeBegin ==
  ASSUME RaftInv, ~misfiled', NEW i \in L!Indices, L!PurgeBegin(i)
  PROVE  RaftInv'
<1>1. /\ ~misfiled /\ L!Idle /\ up = "up" /\ up' = up /\ job = L!NoJob /\ i > purged /\ purged' = i
      /\ logs' = L!Without(logs, {j \in DOMAIN logs : j <= i})
      /\ job' = [op |-> "purge", at |-> i, todo |-> DOMAIN files]
      /\ acked' = {e \in acked : e.index > i}
      /\ UNCHANGED <<committed, vote, active, files, meta, legacy, interrupted>>
  BY DEF L!PurgeBegin, L!Idle, L!disk
<1>2. RaftTypes /\ Filed /\ Gaps /\ Backed /\ Accounted /\ JobRight /\ AckedHeld
      /\ legacy = {} /\ \A a \in acked : a \in Lines(files)
  BY <1>1, UpParts
<1>3. i \in 0 .. Top /\ i \in Int /\ purged \in Int /\ DOMAIN logs \subseteq Int
  BY <1>2, TopIs DEF L!Indices, RaftTypes
<1>4. DOMAIN logs' = {j \in DOMAIN logs : j > i} /\ \A j \in DOMAIN logs' : logs'[j] = logs[j]
  BY <1>1, <1>3 DEF L!Without
<1>5. RaftTypes'
  <2>1. job' \in [op : {"none", "purge", "truncate"}, at : 0 .. Top, todo : SUBSET DOMAIN files'] /\ job'.op # "none"
    BY <1>1, <1>3
  <2>2. DOMAIN logs' \subseteq 0 .. Top /\ \A j \in DOMAIN logs' : logs'[j] \in LogEntries /\ logs'[j].index = j
    BY <1>2, <1>4 DEF RaftTypes
  <2>3. purged' \in -1 .. Top
    BY <1>1, <1>3, TopIs
  <2> QED
    BY <1>1, <1>2, <2>1, <2>2, <2>3 DEF RaftTypes
<1>6. Lines(files') = Lines(files) /\ Filed' /\ Backed'
  BY <1>1, <1>2, <1>4 DEF Filed, Backed
<1>7. AckedHeld' /\ AckedFiled'
  BY <1>1, <1>2, <1>4, <1>6 DEF AckedHeld, AckedFiled
<1>8. JobRight'
  BY <1>1, <1>4 DEF JobRight
<1>9. Accounted'
  <2>1. ASSUME NEW a \in Lines(files) PROVE a.index \in DOMAIN logs' \/ a.index <= i
    <3>1. a.index \in DOMAIN logs \/ a.index <= purged
      BY <1>1, <1>2 DEF Accounted, Cut, L!NoJob
    <3>2. a.index \in Int
      BY <1>2, LinesTyped, TopIs DEF LogEntries
    <3> QED
      BY <3>1, <3>2, <1>1, <1>3, <1>4
  <2>2. \A j : ~Cut(j)'
    BY <1>1 DEF Cut
  <2> QED
    BY <1>1, <1>4, <1>6, <2>1, <2>2 DEF Accounted
<1>10. Gaps'
  <2>1. ASSUME ~interrupted, NEW j \in DOMAIN logs', NEW k \in i + 1 .. j PROVE k \in DOMAIN logs'
    <3>1. j \in DOMAIN logs /\ j \in Int /\ k \in Int /\ k > i /\ k \in purged + 1 .. j
      BY <1>1, <1>3, <1>4
    <3>2. k \in DOMAIN logs
      BY <3>1, <2>1, <1>1, <1>2 DEF Gaps
    <3> QED
      BY <3>1, <3>2, <1>4
  <2> QED
    BY <2>1, <1>1 DEF Gaps
<1>11. Legacy' /\ Migrating'
  BY <1>1, <1>2 DEF Legacy, Migrating
<1> QED
  BY <1>5, <1>6, <1>7, <1>8, <1>9, <1>10, <1>11 DEF RaftInv

LEMMA RaftTruncateBegin ==
  ASSUME RaftInv, ~misfiled', NEW i \in L!Indices, L!TruncateBegin(i)
  PROVE  RaftInv'
<1>1. /\ ~misfiled /\ L!Idle /\ up = "up" /\ up' = up /\ job = L!NoJob
      /\ logs' = L!Without(logs, {j \in DOMAIN logs : j >= i})
      /\ job' = [op |-> "truncate", at |-> i, todo |-> DOMAIN files]
      /\ acked' = {e \in acked : e.index < i}
      /\ UNCHANGED <<purged, committed, vote, active, files, meta, legacy, interrupted>>
  BY DEF L!TruncateBegin, L!Idle, L!disk
<1>2. RaftTypes /\ Filed /\ Gaps /\ Backed /\ Accounted /\ JobRight /\ AckedHeld
      /\ legacy = {} /\ \A a \in acked : a \in Lines(files)
  BY <1>1, UpParts
<1>3. i \in 0 .. Top /\ i \in Int /\ purged \in Int /\ DOMAIN logs \subseteq Int
  BY <1>2, TopIs DEF L!Indices, RaftTypes
<1>4. DOMAIN logs' = {j \in DOMAIN logs : j < i} /\ \A j \in DOMAIN logs' : logs'[j] = logs[j]
  BY <1>1, <1>3 DEF L!Without
<1>5. RaftTypes'
  <2>1. job' \in [op : {"none", "purge", "truncate"}, at : 0 .. Top, todo : SUBSET DOMAIN files'] /\ job'.op # "none"
    BY <1>1, <1>3
  <2>2. DOMAIN logs' \subseteq 0 .. Top /\ \A j \in DOMAIN logs' : logs'[j] \in LogEntries /\ logs'[j].index = j
    BY <1>2, <1>4 DEF RaftTypes
  <2> QED
    BY <1>1, <1>2, <2>1, <2>2 DEF RaftTypes
<1>6. Lines(files') = Lines(files) /\ Filed' /\ Backed'
  BY <1>1, <1>2, <1>4 DEF Filed, Backed
<1>7. AckedHeld' /\ AckedFiled'
  BY <1>1, <1>2, <1>4, <1>6 DEF AckedHeld, AckedFiled
<1>8. JobRight'
  BY <1>1, <1>4 DEF JobRight
<1>9. Accounted'
  <2>1. \A j : Cut(j)' <=> j >= i
    BY <1>1 DEF Cut
  <2>2. ASSUME NEW a \in Lines(files)
        PROVE  \/ a.index \in DOMAIN logs'
               \/ a.index >= i /\ L!Aligned(a.index) \in DOMAIN files
               \/ ~(a.index >= i) /\ a.index <= purged /\ \A j \in DOMAIN logs' : j > purged
    <3>1. a.index \in DOMAIN logs \/ (a.index <= purged /\ \A j \in DOMAIN logs : j > purged)
      BY <1>1, <1>2 DEF Accounted, Cut, L!NoJob
    <3>2. a.index \in Int /\ L!Aligned(a.index) \in DOMAIN files
      BY <1>2, LinesTyped, TopIs DEF LogEntries
    <3> QED
      BY <3>1, <3>2, <1>3, <1>4
  <2> QED
    BY <1>1, <1>6, <2>1, <2>2 DEF Accounted
<1>10. Gaps'
  <2>1. ASSUME ~interrupted, NEW j \in DOMAIN logs', NEW k \in purged + 1 .. j PROVE k \in DOMAIN logs'
    <3>1. j \in DOMAIN logs /\ j \in Int /\ k \in Int /\ k < i
      BY <1>3, <1>4
    <3>2. k \in DOMAIN logs
      BY <3>1, <2>1, <1>1, <1>2 DEF Gaps
    <3> QED
      BY <3>1, <3>2, <1>4
  <2>2. ~interrupted => meta.purged = purged
    BY <1>1, <1>2 DEF Gaps, L!NoJob
  <2> QED
    BY <2>1, <2>2, <1>1 DEF Gaps
<1>11. Legacy' /\ Migrating'
  BY <1>1, <1>2 DEF Legacy, Migrating
<1> QED
  BY <1>5, <1>6, <1>7, <1>8, <1>9, <1>10, <1>11 DEF RaftInv

\* A step of a job leaves in the files what is in memory, and nothing of file f that is to be cut.
LEMMA RaftVisit ==
  ASSUME RaftInv, ~misfiled, up = "up", up' = up, UNCHANGED <<logs, purged, committed, vote, meta, legacy, acked, interrupted>>,
         NEW f \in job.todo,
         job' = [job EXCEPT !.todo = @ \ {f}] \/ (job.op = "truncate" /\ job.todo = {f} /\ job' = L!NoJob),
         \A i \in DOMAIN logs : logs[i] \in Lines(files'),
         Lines(files') \subseteq Lines(files),
         \A a \in Lines(files') : Cut(a.index) => L!Aligned(a.index) # f,
         DOMAIN files \ {f} \subseteq DOMAIN files', DOMAIN files' \subseteq DOMAIN files,
         \A g \in DOMAIN files' : files'[g] \in Seq(LogEntries) /\ files'[g] # <<>>,
         \A g \in DOMAIN files' : \A n \in DOMAIN files'[g] : L!Aligned(files'[g][n].index) = g,
         active' = NoSegment \/ active' \in [first : DOMAIN files', count : Nat]
  PROVE  RaftInv'
<1>2. RaftTypes /\ Filed /\ Gaps /\ Backed /\ Accounted /\ JobRight /\ AckedHeld
      /\ legacy = {} /\ \A a \in acked : a \in Lines(files)
  BY UpParts
<1>3. job \in [op : {"none", "purge", "truncate"}, at : 0 .. Top, todo : SUBSET DOMAIN files] /\ (job.op = "none" => job = L!NoJob)
  BY <1>2 DEF RaftTypes
<1>4. job.op # "none"
  BY <1>3 DEF L!NoJob
<1>5. /\ job' \in [op : {"none", "purge", "truncate"}, at : 0 .. Top, todo : SUBSET DOMAIN files']
      /\ job'.op = "none" => job' = L!NoJob
      /\ (job'.op = job.op /\ job'.at = job.at /\ job'.todo = job.todo \ {f}) \/ (job' = L!NoJob /\ job.op = "truncate" /\ job.todo = {f})
  <2>1. CASE job' = [job EXCEPT !.todo = @ \ {f}]
    BY <2>1, <1>3, <1>4
  <2>2. CASE job.op = "truncate" /\ job.todo = {f} /\ job' = L!NoJob
    BY <2>2, TopIs DEF L!NoJob
  <2> QED
    BY <2>1, <2>2
<1>6. RaftTypes'
  BY <1>2, <1>5 DEF RaftTypes
<1>7. Filed' /\ Backed'
  BY <1>2 DEF Filed, Backed
<1>8. AckedHeld' /\ AckedFiled' /\ Legacy' /\ Migrating'
  BY <1>2 DEF AckedHeld, AckedFiled, Legacy, Migrating
<1>9. JobRight'
  BY <1>2, <1>5 DEF JobRight, L!NoJob
<1>10. Gaps'
  BY <1>2, <1>5 DEF Gaps, L!NoJob
<1>11. Accounted'
  <2>1. ASSUME NEW a \in Lines(files')
        PROVE  \/ a.index \in DOMAIN logs
               \/ Cut(a.index) /\ L!Aligned(a.index) \in job.todo \ {f}
               \/ ~Cut(a.index) /\ a.index <= purged /\ \A j \in DOMAIN logs : j > purged
    BY <1>2 DEF Accounted
  <2>2. CASE job'.op = job.op /\ job'.at = job.at /\ job'.todo = job.todo \ {f}
    <3>1. \A j : Cut(j)' <=> Cut(j)
      BY <2>2 DEF Cut
    <3> QED
      BY <2>1, <2>2, <3>1 DEF Accounted
  <2>3. CASE job' = L!NoJob /\ job.op = "truncate" /\ job.todo = {f}
    <3>1. \A j : ~Cut(j)'
      BY <2>3 DEF Cut, L!NoJob
    <3> QED
      BY <2>1, <2>3, <3>1 DEF Accounted
  <2> QED
    BY <1>5, <2>2, <2>3
<1> QED
  BY <1>6, <1>7, <1>8, <1>9, <1>10, <1>11 DEF RaftInv

\* Deleting a file, and closing it if it is the active one.
LEMMA FileDeleted ==
  ASSUME RaftTypes, Filed, NEW f \in DOMAIN files, files' = L!Without(files, {f}), L!Close(f)
  PROVE  /\ DOMAIN files' = DOMAIN files \ {f}
         /\ Lines(files') = {a \in Lines(files) : L!Aligned(a.index) # f}
         /\ \A g \in DOMAIN files' : files'[g] \in Seq(LogEntries) /\ files'[g] # <<>>
         /\ \A g \in DOMAIN files' : \A n \in DOMAIN files'[g] : L!Aligned(files'[g][n].index) = g
         /\ active' = NoSegment \/ active' \in [first : DOMAIN files', count : Nat]
<1>1. DOMAIN files' = DOMAIN files \ {f} /\ \A g \in DOMAIN files' : files'[g] = files[g]
  BY DEF L!Without
<1>2. Lines(files') = {a \in Lines(files) : L!Aligned(a.index) # f}
  BY LinesWithout DEF Filed
<1>3. active' = NoSegment \/ active' \in [first : DOMAIN files', count : Nat]
  <2>1. active = NoSegment \/ active \in [first : DOMAIN files, count : Nat]
    BY DEF RaftTypes
  <2>2. CASE L!IsActive(f)
    BY <2>2 DEF L!Close
  <2>3. CASE ~L!IsActive(f) /\ active = NoSegment
    BY <2>3 DEF L!Close
  <2>4. CASE ~L!IsActive(f) /\ active # NoSegment
    <3>1. active' = active /\ active.first # f
      BY <2>4 DEF L!Close, L!IsActive
    <3>2. active = [first |-> active.first, count |-> active.count] /\ active.first \in DOMAIN files' /\ active.count \in Nat
      BY <2>1, <2>4, <3>1, <1>1
    <3> QED
      BY <3>1, <3>2
  <2> QED
    BY <2>2, <2>3, <2>4
<1>4. ASSUME NEW g \in DOMAIN files'
      PROVE  files'[g] \in Seq(LogEntries) /\ files'[g] # <<>> /\ \A n \in DOMAIN files'[g] : L!Aligned(files'[g][n].index) = g
  BY <1>1 DEF RaftTypes, Filed
<1> QED
  BY <1>1, <1>2, <1>3, <1>4, Zenon

LEMMA RaftPurgeFile ==
  ASSUME RaftInv, ~misfiled', L!PurgeFile
  PROVE  RaftInv'
<1> DEFINE f == L!Smallest(job.todo)
<1>1. /\ ~misfiled /\ up = "up" /\ up' = up /\ job.op = "purge" /\ job.todo # {}
      /\ job' = [job EXCEPT !.todo = @ \ {f}]
      /\ UNCHANGED <<logs, purged, committed, vote, meta, legacy, acked, interrupted>>
      /\ IF L!Purgeable(f, job.at) THEN files' = L!Without(files, {f}) /\ L!Close(f) ELSE UNCHANGED <<files, active>>
  BY DEF L!PurgeFile, L!ghosts
<1>2. RaftTypes /\ Filed /\ Backed /\ JobRight
  BY <1>1, UpParts
<1>3. f \in job.todo /\ f \in DOMAIN files /\ f \in Nat
  <2>1. job.todo \in SUBSET DOMAIN files /\ DOMAIN files \subseteq 0 .. Top
    BY <1>2 DEF RaftTypes
  <2>2. job.todo \in SUBSET Nat
    BY <2>1, TopIs
  <2> QED
    BY <2>1, <2>2, <1>1, SmallestIn
<1> HIDE DEF f
<1>4. \A i : ~Cut(i)
  BY <1>1 DEF Cut
<1>5. CASE L!Purgeable(f, job.at)
  <2>1. files' = L!Without(files, {f}) /\ L!Close(f)
    BY <1>1, <1>5
  <2>2. /\ DOMAIN files' = DOMAIN files \ {f}
        /\ Lines(files') = {a \in Lines(files) : L!Aligned(a.index) # f}
        /\ \A g \in DOMAIN files' : files'[g] \in Seq(LogEntries) /\ files'[g] # <<>>
        /\ \A g \in DOMAIN files' : \A n \in DOMAIN files'[g] : L!Aligned(files'[g][n].index) = g
        /\ active' = NoSegment \/ active' \in [first : DOMAIN files', count : Nat]
    BY <2>1, <1>2, <1>3, FileDeleted
  <2>3. ASSUME NEW i \in DOMAIN logs PROVE logs[i] \in Lines(files')
    <3>1. i \in Nat /\ logs[i].index = i /\ logs[i] \in Lines(files) /\ i > purged /\ purged = job.at /\ purged \in Int
      BY <1>1, <1>2, TopIs DEF RaftTypes, Backed, JobRight
    <3>2. i < L!Aligned(i) + SegmentMax
      BY <3>1, AlignedBounds
    <3>3. f + SegmentMax - 1 <= purged
      BY <1>5, <3>1 DEF L!Purgeable
    <3>4. L!Aligned(i) # f
      BY <3>1, <3>2, <3>3, <1>3, TopIs
    <3> QED
      BY <3>1, <3>4, <2>2
  <2> QED
    BY <1>1, <1>3, <1>4, <2>2, <2>3, RaftVisit
<1>6. CASE ~L!Purgeable(f, job.at)
  <2>1. files' = files /\ active' = active
    BY <1>1, <1>6
  <2>2. \A g \in DOMAIN files' : files'[g] \in Seq(LogEntries) /\ files'[g] # <<>>
    BY <2>1, <1>2 DEF RaftTypes
  <2>3. \A g \in DOMAIN files' : \A n \in DOMAIN files'[g] : L!Aligned(files'[g][n].index) = g
    BY <2>1, <1>2 DEF Filed
  <2>4. active' = NoSegment \/ active' \in [first : DOMAIN files', count : Nat]
    BY <2>1, <1>2 DEF RaftTypes
  <2>5. \A i \in DOMAIN logs : logs[i] \in Lines(files')
    BY <2>1, <1>2 DEF Backed
  <2> QED
    BY <1>1, <1>3, <1>4, <2>1, <2>2, <2>3, <2>4, <2>5, RaftVisit
<1> QED
  BY <1>5, <1>6

LEMMA RaftTruncateFile ==
  ASSUME RaftInv, ~misfiled', L!TruncateFile
  PROVE  RaftInv'
<1> DEFINE f == L!Smallest(job.todo)
           S == {j \in DOMAIN logs : f <= j /\ j < job.at}
           left == L!EntriesOf(logs, S)
           gone == f >= job.at \/ (f + SegmentMax > job.at /\ left = <<>>)
           short == f < job.at /\ f + SegmentMax > job.at /\ left # <<>>
<1>1. /\ ~misfiled /\ up = "up" /\ up' = up /\ job.op = "truncate" /\ job.todo # {}
      /\ job' = IF job.todo = {f} THEN L!NoJob ELSE [job EXCEPT !.todo = @ \ {f}]
      /\ UNCHANGED <<logs, purged, committed, vote, meta, legacy, acked, interrupted>>
      /\ CASE gone -> files' = L!Without(files, {f}) /\ L!Close(f)
           [] short -> files' = L!With(files, f, left) /\ active' = [first |-> f, count |-> Len(left)]
           [] OTHER -> UNCHANGED <<files, active>>
  BY DEF L!TruncateFile, L!Rewritten, L!ghosts
<1>2. RaftTypes /\ Filed /\ Backed /\ JobRight
  BY <1>1, UpParts
<1>3. f \in job.todo /\ f \in DOMAIN files /\ f \in Nat
  <2>1. job.todo \in SUBSET DOMAIN files /\ DOMAIN files \subseteq 0 .. Top
    BY <1>2 DEF RaftTypes
  <2>2. job.todo \in SUBSET Nat
    BY <2>1, TopIs
  <2> QED
    BY <2>1, <2>2, <1>1, SmallestIn
<1>4. job.at \in Nat
  BY <1>2, TopIs DEF RaftTypes
<1>5. /\ left \in Seq(LogEntries) /\ S # {} <=> left # <<>>
      /\ \A n \in DOMAIN left : \E i \in S : left[n] = logs[i]
      /\ \A i \in S : \E n \in DOMAIN left : left[n] = logs[i]
  <2>1. S \in SUBSET (0 .. Top) /\ \A i \in S : logs[i] \in LogEntries
    BY <1>2 DEF RaftTypes
  <2> HIDE DEF S
  <2>2. left \in Seq(LogEntries)
    BY <2>1, TopIs, EntriesOfIs
  <2>3. S # {} <=> left # <<>>
    BY <2>1, TopIs, EntriesOfIs
  <2>4. Transcribes(left, logs, S)
    BY <2>1, TopIs, EntriesOfIs
  <2> QED
    BY <2>2, <2>3, <2>4 DEF Transcribes
<1>6. ASSUME NEW i \in DOMAIN logs
      PROVE  /\ i \in Nat /\ logs[i].index = i /\ logs[i] \in Lines(files) /\ i < job.at
             /\ L!Aligned(i) = f => f <= i /\ i < f + SegmentMax /\ i \in S
  <2>1. i \in Nat /\ logs[i].index = i /\ logs[i] \in Lines(files) /\ i < job.at
    BY <1>1, <1>2, TopIs DEF RaftTypes, Backed, JobRight
  <2>2. L!Aligned(i) = f => f <= i /\ i < f + SegmentMax
    BY <2>1, AlignedBounds
  <2> QED
    BY <2>1, <2>2
<1>7. job' = [job EXCEPT !.todo = @ \ {f}] \/ (job.op = "truncate" /\ job.todo = {f} /\ job' = L!NoJob)
  BY <1>1
<1> HIDE DEF f, S, left
<1>8. CASE gone
  <2>0. ~short
    BY <1>3, <1>4, <1>8
  <2>1. files' = L!Without(files, {f}) /\ L!Close(f)
    <3> HIDE DEF gone, short
    <3> QED
      BY <1>1, <1>8, <2>0
  <2>2. /\ DOMAIN files' = DOMAIN files \ {f}
        /\ Lines(files') = {a \in Lines(files) : L!Aligned(a.index) # f}
        /\ \A g \in DOMAIN files' : files'[g] \in Seq(LogEntries) /\ files'[g] # <<>>
        /\ \A g \in DOMAIN files' : \A n \in DOMAIN files'[g] : L!Aligned(files'[g][n].index) = g
        /\ active' = NoSegment \/ active' \in [first : DOMAIN files', count : Nat]
    BY <2>1, <1>2, <1>3, FileDeleted
  <2>3. ASSUME NEW i \in DOMAIN logs PROVE logs[i] \in Lines(files')
    <3>1. L!Aligned(i) # f
      <4>1. SUFFICES ASSUME L!Aligned(i) = f PROVE FALSE
        OBVIOUS
      <4>2. i \in Nat /\ f <= i /\ i < job.at /\ i \in S
        BY <4>1, <1>6
      <4>3. left # <<>>
        BY <4>2, <1>5
      <4> QED
        BY <4>2, <4>3, <1>3, <1>4, <1>8
    <3> QED
      BY <3>1, <1>6, <2>2
  <2> QED
    BY <1>1, <1>3, <1>7, <2>2, <2>3, RaftVisit
<1>9. CASE short
  <2>0. ~gone
    BY <1>3, <1>4, <1>9
  <2>1. files' = L!With(files, f, left) /\ active' = [first |-> f, count |-> Len(left)]
    <3> HIDE DEF gone, short
    <3> QED
      BY <1>1, <1>9, <2>0
  <2>2. Lines(files') = {a \in Lines(files) : L!Aligned(a.index) # f} \cup {left[n] : n \in DOMAIN left}
    BY <2>1, <1>2, LinesWith DEF Filed
  <2>3. DOMAIN files' = DOMAIN files /\ files'[f] = left /\ \A g \in DOMAIN files : g # f => files'[g] = files[g]
    BY <2>1, <1>3 DEF L!With
  <2>4. ASSUME NEW n \in DOMAIN left PROVE left[n] \in Lines(files) /\ ~Cut(left[n].index) /\ L!Aligned(left[n].index) = f
    <3>1. PICK i \in S : left[n] = logs[i]
      BY <1>5
    <3>2. i \in DOMAIN logs /\ f <= i /\ i < job.at
      BY DEF S
    <3>3. left[n] \in Lines(files) /\ left[n].index = i /\ i \in Nat
      BY <3>1, <3>2, <1>6
    <3>4. ~Cut(i)
      BY <3>2, <3>3, <1>4 DEF Cut
    <3>5. PICK a \in Lines(files) : L!Aligned(a.index) = f
      BY <1>2, <1>3, LinesTyped
    <3>6. a.index \in Nat
      BY <1>2, LinesTyped, TopIs DEF LogEntries
    <3>7. i < f + SegmentMax
      BY <3>2, <3>3, <1>3, <1>4, <1>9, TopIs
    <3>8. L!Aligned(i) = f
      BY <3>2, <3>3, <3>5, <3>6, <3>7, SameFile
    <3> QED
      BY <3>3, <3>4, <3>8
  <2>5. Lines(files') \subseteq Lines(files) /\ \A a \in Lines(files') : Cut(a.index) => L!Aligned(a.index) # f
    BY <2>2, <2>4
  <2>6. \A g \in DOMAIN files' : files'[g] \in Seq(LogEntries) /\ files'[g] # <<>>
    BY <2>3, <1>2, <1>5, <1>9 DEF RaftTypes
  <2>7. \A g \in DOMAIN files' : \A n \in DOMAIN files'[g] : L!Aligned(files'[g][n].index) = g
    BY <2>3, <2>4, <1>2 DEF Filed
  <2>8. active' \in [first : DOMAIN files', count : Nat]
    <3>1. Len(left) \in Nat
      BY <1>5
    <3> QED
      BY <3>1, <2>1, <2>3, <1>3
  <2>9. ASSUME NEW i \in DOMAIN logs PROVE logs[i] \in Lines(files')
    BY <1>5, <1>6, <2>2
  <2> QED
    BY <1>1, <1>3, <1>7, <2>3, <2>5, <2>6, <2>7, <2>8, <2>9, RaftVisit
<1>10. CASE ~gone /\ ~short
  <2>1. files' = files /\ active' = active
    <3> HIDE DEF gone, short
    <3> QED
      BY <1>1, <1>10
  <2>2. \A g \in DOMAIN files' : files'[g] \in Seq(LogEntries) /\ files'[g] # <<>>
    BY <2>1, <1>2 DEF RaftTypes
  <2>3. \A g \in DOMAIN files' : \A n \in DOMAIN files'[g] : L!Aligned(files'[g][n].index) = g
    BY <2>1, <1>2 DEF Filed
  <2>4. active' = NoSegment \/ active' \in [first : DOMAIN files', count : Nat]
    BY <2>1, <1>2 DEF RaftTypes
  <2>5. \A i \in DOMAIN logs : logs[i] \in Lines(files')
    BY <2>1, <1>2 DEF Backed
  <2>6. ASSUME NEW a \in Lines(files'), Cut(a.index) PROVE L!Aligned(a.index) # f
    <3>1. a.index \in Nat /\ a.index >= job.at
      BY <2>1, <2>6, <1>2, LinesTyped, TopIs DEF LogEntries, Cut
    <3>2. a.index < L!Aligned(a.index) + SegmentMax
      BY <3>1, AlignedBounds
    <3>3. f + SegmentMax <= job.at
      BY <1>3, <1>4, <1>10, TopIs
    <3> QED
      BY <3>1, <3>2, <3>3, <1>3, <1>4, TopIs
  <2> QED
    BY <1>1, <1>3, <1>7, <2>1, <2>2, <2>3, <2>4, <2>5, <2>6, RaftVisit
<1> QED
  BY <1>8, <1>9, <1>10

\* What is loaded is the lines of the files.
LEMMA LoadedIs ==
  ASSUME RaftTypes, Filed
  PROVE  /\ \A a \in Lines(files) : a.index \in DOMAIN L!Loaded /\ L!Loaded[a.index] = a
         /\ \A i \in DOMAIN L!Loaded : L!Loaded[i] \in Lines(files) /\ L!Loaded[i].index = i
         /\ DOMAIN L!Loaded \subseteq 0 .. Top
<1>1. DOMAIN L!Loaded = L!Indexed /\ \A i \in L!Indexed : L!Loaded[i] = L!LastLine(i)
  BY DEF L!Loaded
<1>2. \A a \in Lines(files) : a.index \in L!Indexed
  <2>1. ASSUME NEW f \in DOMAIN files, NEW n \in DOMAIN files[f] PROVE files[f][n].index \in L!Indexed
    BY DEF L!Indexed
  <2> QED
    BY <2>1, LineIs
<1>3. ASSUME NEW i \in L!Indexed PROVE L!LastLine(i) \in Lines(files) /\ L!LastLine(i).index = i
  <2> DEFINE holding == {g \in DOMAIN files : L!LinesOf(i, g) # {}}
             f == L!Largest(holding)
             n == L!Largest(L!LinesOf(i, f))
  <2>1. PICK g \in DOMAIN files : \E m \in DOMAIN files[g] : files[g][m].index = i
    BY DEF L!Indexed
  <2>2. g \in holding
    BY <2>1 DEF L!LinesOf
  <2>3. holding \in SUBSET (0 .. Top)
    BY DEF RaftTypes
  <2>4. f \in holding
    <3> HIDE DEF holding
    <3> QED
      BY <2>2, <2>3, TopIs, LargestIn
  <2>5. f \in DOMAIN files /\ L!LinesOf(i, f) # {} /\ files[f] \in Seq(LogEntries)
    BY <2>4 DEF RaftTypes
  <2>6. L!LastLine(i) = files[f][n]
    BY DEF L!LastLine
  <2> HIDE DEF f
  <2>7. Len(files[f]) \in Nat /\ L!LinesOf(i, f) \in SUBSET (0 .. Len(files[f]))
    BY <2>5 DEF L!LinesOf
  <2>8. n \in L!LinesOf(i, f)
    BY <2>5, <2>7, LargestIn
  <2> HIDE DEF n
  <2>9. n \in DOMAIN files[f] /\ files[f][n].index = i
    BY <2>8 DEF L!LinesOf
  <2> QED
    BY <2>5, <2>6, <2>9, LineIs
<1>4. ASSUME NEW a \in Lines(files) PROVE L!Loaded[a.index] = a
  <2>1. L!Loaded[a.index] = L!LastLine(a.index) /\ L!LastLine(a.index) \in Lines(files) /\ L!LastLine(a.index).index = a.index
    BY <1>1, <1>2, <1>3
  <2> QED
    BY <2>1 DEF Filed
<1>5. ASSUME NEW i \in L!Indexed PROVE i \in 0 .. Top
  BY <1>3, LinesTyped DEF LogEntries
<1> QED
  BY <1>1, <1>2, <1>3, <1>4, <1>5

LEMMA LastSegmentIs ==
  ASSUME RaftTypes, Filed
  PROVE  L!LastSegment = NoSegment \/ L!LastSegment \in [first : DOMAIN files, count : Nat]
<1>1. CASE DOMAIN files = {}
  BY <1>1 DEF L!LastSegment
<1>2. CASE DOMAIN files # {}
  <2> DEFINE f == L!Largest(DOMAIN files)
             after == {i \in DOMAIN L!Loaded : i >= f}
  <2>1. f \in DOMAIN files
    BY <1>2, TopIs, LargestIn DEF RaftTypes
  <2>2. after \in SUBSET (0 .. Top)
    BY LoadedIs
  <2>3. L!LastSegment = NoSegment \/ L!LastSegment = [first |-> f, count |-> L!Cardinality(after)]
    BY <1>2 DEF L!LastSegment
  <2> HIDE DEF f, after
  <2>4. L!Cardinality(after) \in Nat
    BY <2>2, TopIs, OrderedIs
  <2> QED
    BY <2>1, <2>3, <2>4
<1> QED
  BY <1>1, <1>2

LEMMA RaftOpen ==
  ASSUME RaftInv, ~misfiled', L!Open
  PROVE  RaftInv'
<1>1. /\ ~misfiled /\ up = "down" /\ UNCHANGED <<files, meta, legacy, job, acked, interrupted>>
      /\ IF torn THEN up' = "unreadable" /\ UNCHANGED <<logs, purged, committed, vote, active>>
         ELSE /\ up' = IF legacy = {} THEN "up" ELSE "migrating"
              /\ logs' = L!Loaded /\ active' = L!LastSegment
              /\ purged' = meta.purged /\ committed' = meta.committed /\ vote' = meta.vote
  BY DEF L!Open, L!ghosts, L!disk, L!mem
<1>2. RaftTypes /\ Filed /\ AckedFiled /\ Legacy /\ Gaps
  BY <1>1 DEF RaftInv
<1>3. Lines(files') = Lines(files) /\ Filed' /\ AckedFiled' /\ job = L!NoJob
  BY <1>1, <1>2 DEF Filed, AckedFiled, RaftTypes
<1>4. CASE torn
  <2>1. RaftTypes' /\ Legacy' /\ Migrating' /\ Gaps'
    BY <1>1, <1>2, <1>3, <1>4 DEF RaftTypes, Legacy, Migrating, Gaps
  <2> QED
    BY <1>1, <1>3, <1>4, <2>1 DEF RaftInv
<1>5. CASE ~torn
  <2>1. /\ up' = IF legacy = {} THEN "up" ELSE "migrating"
        /\ logs' = L!Loaded /\ active' = L!LastSegment
        /\ purged' = meta.purged /\ committed' = meta.committed /\ vote' = meta.vote
    BY <1>1, <1>5
  <2>2. /\ \A a \in Lines(files) : a.index \in DOMAIN logs' /\ logs'[a.index] = a
        /\ \A i \in DOMAIN logs' : logs'[i] \in Lines(files) /\ logs'[i].index = i
        /\ DOMAIN logs' \subseteq 0 .. Top
    BY <2>1, <1>2, LoadedIs
  <2>3. active' = NoSegment \/ active' \in [first : DOMAIN files, count : Nat]
    BY <2>1, <1>2, LastSegmentIs
  <2>4. purged' \in -1 .. Top /\ committed' \in Int /\ vote' \in Int
    BY <2>1, <1>2 DEF RaftTypes
  <2>5. \A i \in DOMAIN logs' : logs'[i] \in LogEntries
    BY <2>2, <1>2, LinesTyped
  <2>6. RaftTypes'
    BY <1>1, <1>2, <1>3, <2>1, <2>2, <2>3, <2>4, <2>5 DEF RaftTypes
  <2>7. CASE legacy = {}
    <3>1. up' = "up"
      BY <2>1, <2>7
    <3>2. Legacy' /\ Migrating'
      BY <1>1, <2>7, <3>1 DEF Legacy, Migrating
    <3>3. Gaps'
      <4>1. ASSUME ~interrupted, NEW j \in DOMAIN logs', NEW i \in purged' + 1 .. j PROVE i \in DOMAIN logs'
        <5>1. logs'[j] \in Lines(files) /\ logs'[j].index = j /\ i \in meta.purged + 1 .. j
          BY <2>1, <2>2
        <5>2. PICK b \in Lines(files) : b.index = i
          BY <4>1, <5>1, <1>1, <1>2 DEF Gaps
        <5> QED
          BY <5>2, <2>2
      <4> QED
        BY <4>1, <3>1, <1>1, <2>1 DEF Gaps
    <3>4. Backed' /\ Accounted'
      BY <1>3, <2>2 DEF Backed, Accounted
    <3>5. JobRight'
      BY <1>1, <1>3 DEF JobRight, L!NoJob
    <3>6. AckedHeld'
      BY <1>1, <1>2, <2>2, <2>7 DEF AckedHeld, AckedFiled
    <3> QED
      BY <1>3, <2>6, <3>2, <3>3, <3>4, <3>5, <3>6 DEF RaftInv
  <2>8. CASE legacy # {}
    <3>1. up' = "migrating"
      BY <2>1, <2>8
    <3>2. Legacy'
      BY <1>1, <1>2, <1>3, <2>8, <3>1 DEF Legacy
    <3>3. Migrating'
      <4>1. purged' = -1 /\ Lines(files) \in {{}, {OldEntry(i) : i \in legacy}}
        BY <1>2, <2>1, <2>8 DEF Legacy
      <4>2. ASSUME NEW i \in DOMAIN logs' PROVE i \in legacy /\ logs'[i] = OldEntry(i)
        <5>1. logs'[i] \in {OldEntry(j) : j \in legacy} /\ logs'[i].index = i
          BY <4>1, <2>2
        <5>2. PICK j \in legacy : logs'[i] = OldEntry(j)
          BY <5>1
        <5>3. j = i
          BY <5>1, <5>2 DEF OldEntry
        <5> QED
          BY <5>2, <5>3
      <4> QED
        BY <4>1, <4>2, <2>8, <1>1 DEF Migrating
    <3>4. Gaps'
      BY <1>1, <1>2, <1>3, <3>1 DEF Gaps
    <3> QED
      BY <1>3, <2>6, <3>1, <3>2, <3>3, <3>4 DEF RaftInv
  <2> QED
    BY <2>7, <2>8
<1> QED
  BY <1>4, <1>5

LEMMA RaftMigrate ==
  ASSUME RaftInv, ~misfiled', L!Migrate
  PROVE  RaftInv'
<1> DEFINE all == DOMAIN logs'
           firsts == {L!Aligned(i) : i \in all}
           Part(g) == {i \in all : L!Aligned(i) = g}
           flushed == [g \in firsts |-> L!EntriesOf(logs', Part(g))]
           last == L!Largest(firsts)
<1>1. /\ ~misfiled /\ up = "migrating" /\ legacy # {}
      /\ logs' = [i \in DOMAIN logs \cup legacy |-> IF i \in legacy THEN [index |-> i, term |-> 1] ELSE logs[i]]
      /\ UNCHANGED <<purged, committed, vote, meta, job, acked, interrupted>>
      /\ (legacy' = {} /\ up' = "up") \/ (legacy' = legacy /\ up' = up)
  BY DEF L!Migrate, L!ghosts
<1>2. /\ files' = [g \in DOMAIN files \cup firsts |-> IF g \in firsts THEN flushed[g] ELSE files[g]]
      /\ active' = IF Len(flushed[last]) < SegmentMax THEN [first |-> last, count |-> Len(flushed[last])] ELSE NoSegment
  BY DEF L!Migrate
<1>3. RaftTypes /\ Filed /\ Legacy /\ Migrating /\ legacy = 0 .. SegmentMax /\ purged = -1 /\ meta.purged = -1 /\ job = L!NoJob
  BY <1>1 DEF RaftInv, RaftTypes, Legacy, Migrating
<1>4. all = legacy /\ \A i \in legacy : logs'[i] = OldEntry(i)
  BY <1>1, <1>3 DEF Migrating, OldEntry
<1>5. /\ all \in SUBSET (0 .. Top) /\ 0 \in all
      /\ \A i \in all : i \in Nat /\ OldEntry(i) \in LogEntries /\ OldEntry(i).index = i
  BY <1>3, <1>4, TopIs DEF OldEntry, LogEntries
<1>6. ASSUME NEW g \in firsts
      PROVE  /\ g \in 0 .. Top
             /\ flushed[g] \in Seq(LogEntries) /\ flushed[g] # <<>>
             /\ Transcribes(flushed[g], logs', Part(g))
  <2>1. PICK i \in all : g = L!Aligned(i)
    OBVIOUS
  <2>2. i \in 0 .. Top /\ L!Aligned(i) \in Nat /\ L!Aligned(i) <= i
    BY <1>5, AlignedBounds
  <2>3. flushed[g] = L!EntriesOf(logs', Part(g))
    OBVIOUS
  <2>4. i \in Part(g) /\ Part(g) \in SUBSET (0 .. Top) /\ \A j \in Part(g) : logs'[j] \in LogEntries
    BY <2>1, <1>4, <1>5
  <2> HIDE DEF Part, flushed
  <2>5. flushed[g] \in Seq(LogEntries)
    BY <2>3, <2>4, TopIs, EntriesOfIs
  <2>6. flushed[g] # <<>>
    BY <2>3, <2>4, TopIs, EntriesOfIs
  <2>7. Transcribes(flushed[g], logs', Part(g))
    BY <2>3, <2>4, TopIs, EntriesOfIs
  <2> QED
    BY <2>1, <2>2, <2>5, <2>6, <2>7, TopIs
<1>7. DOMAIN files \subseteq firsts
  <2>1. ASSUME NEW g \in DOMAIN files PROVE g \in firsts
    <3>1. PICK a \in Lines(files) : L!Aligned(a.index) = g
      BY <1>3, LinesTyped
    <3>2. PICK i \in legacy : a = OldEntry(i)
      BY <1>1, <1>3 DEF Legacy
    <3>3. a.index = i
      BY <3>2 DEF OldEntry
    <3> QED
      BY <3>1, <3>2, <3>3, <1>4
  <2> QED
    BY <2>1
<1>8. DOMAIN files' = firsts /\ \A g \in firsts : files'[g] = flushed[g]
  BY <1>2, <1>7
<1>9. last \in firsts
  <2>1. firsts \in SUBSET (0 .. Top)
    BY <1>6
  <2>2. firsts # {}
    BY <1>5
  <2> HIDE DEF firsts
  <2> QED
    BY <2>1, <2>2, TopIs, LargestIn
<1>10. active' = NoSegment \/ active' \in [first : DOMAIN files', count : Nat]
  <2>1. Len(flushed[last]) \in Nat
    <3>1. flushed[last] \in Seq(LogEntries)
      BY <1>6, <1>9
    <3> HIDE DEF flushed, last
    <3> QED
      BY <3>1
  <2> HIDE DEF flushed, last, firsts
  <2> QED
    BY <2>1, <1>2, <1>8, <1>9
<1>11. ASSUME NEW g \in DOMAIN files', NEW n \in DOMAIN files'[g]
       PROVE  \E i \in all : files'[g][n] = OldEntry(i) /\ L!Aligned(i) = g
  <2>1. g \in firsts /\ files'[g] = flushed[g]
    BY <1>8
  <2>2. Transcribes(flushed[g], logs', Part(g))
    BY <2>1, <1>6
  <2> HIDE DEF flushed
  <2>3. PICK i \in Part(g) : flushed[g][n] = logs'[i]
    BY <2>1, <2>2 DEF Transcribes
  <2> QED
    BY <2>1, <2>3, <1>4
<1>12. ASSUME NEW i \in all PROVE OldEntry(i) \in Lines(files')
  <2> DEFINE g == L!Aligned(i)
  <2>1. g \in firsts /\ i \in Part(g)
    OBVIOUS
  <2>2. Transcribes(flushed[g], logs', Part(g)) /\ files'[g] = flushed[g] /\ g \in DOMAIN files'
    BY <2>1, <1>6, <1>8
  <2> HIDE DEF flushed, g, Part
  <2>3. PICK n \in DOMAIN flushed[g] : flushed[g][n] = logs'[i]
    BY <2>1, <2>2 DEF Transcribes
  <2>4. files'[g][n] = OldEntry(i) /\ n \in DOMAIN files'[g]
    BY <2>2, <2>3, <1>4
  <2> QED
    BY <2>2, <2>4, LineIs
<1>13. Lines(files') = {OldEntry(i) : i \in legacy}
  <2>1. ASSUME NEW a \in Lines(files') PROVE \E i \in legacy : a = OldEntry(i)
    <3>1. PICK g \in DOMAIN files' : \E n \in DOMAIN files'[g] : files'[g][n] = a
      BY LineIs
    <3> QED
      BY <3>1, <1>4, <1>11
  <2> QED
    BY <2>1, <1>4, <1>12
<1>14. \A g \in DOMAIN files' : g \in 0 .. Top /\ files'[g] \in Seq(LogEntries) /\ files'[g] # <<>>
  BY <1>6, <1>8
<1> HIDE DEF all, firsts, Part, flushed, last
<1>15. /\ DOMAIN logs' = legacy /\ legacy \subseteq 0 .. Top
       /\ \A i \in legacy : i \in Nat /\ logs'[i] = OldEntry(i) /\ OldEntry(i) \in LogEntries /\ OldEntry(i).index = i
  BY <1>4, <1>5 DEF all
<1>16. RaftTypes'
  <2>1. legacy' \in {{}, 0 .. SegmentMax}
    BY <1>1, <1>3
  <2>2. DOMAIN logs' \subseteq 0 .. Top /\ \A i \in DOMAIN logs' : logs'[i] \in LogEntries /\ logs'[i].index = i
    BY <1>15
  <2>3. job' \in [op : {"none", "purge", "truncate"}, at : 0 .. Top, todo : SUBSET DOMAIN files'] /\ job' = L!NoJob
    BY <1>1, <1>3, TopIs DEF L!NoJob
  <2>4. up' \in {"up", "down", "migrating", "unreadable"}
    BY <1>1
  <2>5. purged' \in -1 .. Top /\ committed' \in Int /\ vote' \in Int /\ meta' \in [purged : -1 .. Top, committed : Int, vote : Int]
    BY <1>1, <1>3 DEF RaftTypes
  <2> QED
    BY <2>1, <2>2, <2>3, <2>4, <2>5, <1>10, <1>14 DEF RaftTypes
<1>17. Filed'
  <2>1. ASSUME NEW g \in DOMAIN files', NEW n \in DOMAIN files'[g] PROVE L!Aligned(files'[g][n].index) = g
    <3>1. PICK i \in all : files'[g][n] = OldEntry(i) /\ L!Aligned(i) = g
      BY <1>11
    <3> QED
      BY <3>1, <1>5
  <2>2. ASSUME NEW a \in Lines(files'), NEW b \in Lines(files'), a.index = b.index PROVE a = b
    <3>1. PICK i \in legacy : a = OldEntry(i)
      BY <1>13
    <3>2. PICK j \in legacy : b = OldEntry(j)
      BY <1>13
    <3> QED
      BY <3>1, <3>2, <2>2, <1>15
  <2> QED
    BY <2>1, <2>2 DEF Filed
<1>18. acked' = {OldEntry(i) : i \in legacy}
  BY <1>1, <1>3 DEF Legacy
<1>19. AckedFiled'
  BY <1>13, <1>18 DEF AckedFiled
<1>20. ASSUME NEW j \in legacy, NEW i \in 0 .. j PROVE i \in legacy
  BY <1>3, TopIs
<1>21. CASE legacy' = {} /\ up' = "up"
  <2>1. Legacy' /\ Migrating'
    BY <1>21 DEF Legacy, Migrating
  <2>2. Gaps'
    <3>1. ASSUME NEW j \in DOMAIN logs', NEW i \in purged' + 1 .. j PROVE i \in DOMAIN logs'
      <4>1. purged' + 1 = 0
        BY <1>1, <1>3
      <4> QED
        BY <4>1, <1>15, <1>20
    <3>2. meta'.purged = purged'
      BY <1>1, <1>3
    <3> QED
      BY <3>1, <3>2, <1>21 DEF Gaps
  <2>3. Backed' /\ Accounted'
    <3>1. \A a \in Lines(files') : a.index \in DOMAIN logs'
      BY <1>13, <1>15
    <3> QED
      BY <3>1, <1>13, <1>15 DEF Backed, Accounted
  <2>4. JobRight'
    BY <1>1, <1>3 DEF JobRight, L!NoJob
  <2>5. AckedHeld'
    BY <1>15, <1>18 DEF AckedHeld
  <2> QED
    BY <1>16, <1>17, <1>19, <2>1, <2>2, <2>3, <2>4, <2>5 DEF RaftInv
<1>22. CASE legacy' = legacy /\ up' = up
  <2>1. Legacy' /\ Migrating'
    BY <1>1, <1>3, <1>13, <1>15, <1>18, <1>22 DEF Legacy, Migrating
  <2>2. Gaps'
    <3>1. ASSUME NEW a \in Lines(files'), NEW i \in meta'.purged + 1 .. a.index PROVE \E b \in Lines(files') : b.index = i
      <4>1. PICK j \in legacy : a = OldEntry(j)
        BY <1>13
      <4>2. i \in 0 .. j
        <5>1. a.index = j
          BY <4>1, <1>15
        <5>2. meta'.purged + 1 = 0
          BY <1>1, <1>3
        <5> QED
          BY <5>1, <5>2
      <4>3. i \in legacy
        BY <4>2, <1>20
      <4> QED
        BY <4>3, <1>13, <1>15
    <3> QED
      BY <3>1, <1>1, <1>22 DEF Gaps
  <2> QED
    BY <1>1, <1>16, <1>17, <1>19, <1>22, <2>1, <2>2 DEF RaftInv
<1> QED
  BY <1>1, <1>21, <1>22

LEMMA RaftStep ==
  ASSUME RaftInv, L!Next \/ UNCHANGED raftlog
  PROVE  RaftInv'
<1>1. CASE misfiled'
  BY <1>1 DEF RaftInv
<1>2. CASE ~misfiled' /\ UNCHANGED raftlog
  <2>1. UNCHANGED <<logs, purged, committed, vote, active, files, meta, legacy, job, up, acked, misfiled, interrupted>>
    BY <1>2 DEF raftlog, L!vars, L!mem, L!disk, L!ghosts
  <2>2. RaftTypes /\ Filed /\ AckedFiled /\ Legacy /\ Migrating /\ Gaps
    BY <1>2, <2>1 DEF RaftInv
  <2>3. RaftTypes' /\ Filed' /\ AckedFiled'
    BY <2>1, <2>2 DEF RaftTypes, Filed, AckedFiled
  <2>4. Legacy' /\ Migrating' /\ Gaps'
    BY <2>1, <2>2 DEF Legacy, Migrating, Gaps
  <2>5. up' = "up" => Backed' /\ Accounted' /\ JobRight' /\ AckedHeld'
    BY <1>2, <2>1 DEF RaftInv, Backed, Accounted, Cut, JobRight, AckedHeld
  <2> QED
    BY <2>3, <2>4, <2>5 DEF RaftInv
<1>3. CASE ~misfiled' /\ L!Next
  <2>1. ASSUME NEW e \in L!Entries, L!AppendEntry(e) \/ L!CrashInAppend(e) PROVE RaftInv'
    BY <1>3, <2>1, RaftAppend, RaftCrashInAppend
  <2>2. ASSUME NEW i \in L!Indices, L!SaveCommitted(i) \/ L!PurgeBegin(i) \/ L!TruncateBegin(i) PROVE RaftInv'
    BY <1>3, <2>2, RaftSaves, RaftPurgeBegin, RaftTruncateBegin
  <2>3. CASE L!SaveVote \/ L!PurgeEnd
    BY <1>3, <2>3, RaftSaves
  <2>4. CASE L!PurgeFile \/ L!TruncateFile
    BY <1>3, <2>4, RaftPurgeFile, RaftTruncateFile
  <2>5. CASE L!Crash \/ L!Open \/ L!Migrate
    BY <1>3, <2>5, RaftCrash, RaftOpen, RaftMigrate
  <2> QED
    BY <1>3, <2>1, <2>2, <2>3, <2>4, <2>5 DEF L!Next
<1> QED
  BY <1>1, <1>2, <1>3

LEMMA RaftTells ==
  ASSUME RaftInv
  PROVE  L!EntriesKept
<1>1. ASSUME up = "up", ~misfiled, NEW e \in acked PROVE e.index \in DOMAIN logs /\ logs[e.index] = e
  BY <1>1 DEF RaftInv, AckedHeld
<1>2. ASSUME L!Idle, ~misfiled, ~interrupted, NEW i \in purged + 1 .. L!LastIndex PROVE i \in DOMAIN logs
  <2>1. RaftTypes /\ Gaps /\ up = "up" /\ purged \in Int
    BY <1>2 DEF RaftInv, L!Idle, RaftTypes
  <2>2. DOMAIN logs # {}
    <3>1. SUFFICES ASSUME DOMAIN logs = {} PROVE FALSE
      OBVIOUS
    <3>2. L!LastIndex = purged
      BY <2>1, <3>1, LastIs
    <3> QED
      BY <3>2, <2>1
  <2>3. L!LastIndex \in DOMAIN logs
    BY <2>1, <2>2, LastIs
  <2> QED
    BY <1>2, <2>1, <2>3 DEF Gaps
<1> QED
  BY <1>1, <1>2 DEF L!EntriesKept

(* An entry whose append was reported is in the Raft log of its node until  *)
(* it is truncated or purged, whatever crashes come between and wherever    *)
(* they interrupt an append, a purge, a truncation or the migration of the  *)
(* old file, as long as no file has held an entry past its end; and without *)
(* a crash inside a purge or a truncation the log has no gap                *)
(* (append_entries, purge_entries, truncate_entries, LogStorage::open).     *)
(* For every size of a segment and any number of entries.                   *)
THEOREM EntriesAreKept == StorageSpec => []EntriesKept
<1>1. StorageInit => RaftInv
  BY RaftStarts DEF StorageInit
<1>2. RaftInv /\ [StorageNext]_storage => RaftInv'
  BY PartSteps, RaftStep
<1>3. RaftInv => EntriesKept
  BY RaftTells DEF EntriesKept
<1> QED
  BY <1>1, <1>2, <1>3, PTL DEF StorageSpec

-----------------------------------------------------------------------------
(* The arena: for every capacity and every set of sizes and contents.       *)

\* The bytes a pointer stands for are in the mapping, below the position n.
Intact(p, n) ==
  /\ p.off + p.size <= n
  /\ \A i \in p.off .. p.off + p.size - 1 : mem[i] = p.byte

(***************************************************************************)
(* The inductive invariant.  Writes go behind pos, so what lies below it   *)
(* is left alone; the header never points behind pos while somebody can    *)
(* write, so what it covers is left alone as well; and what will be safe   *)
(* after the next opening is covered by the header.                        *)
(***************************************************************************)
ArenaInv ==
  /\ TypeOK
  /\ Mapped => hdr <= pos /\ \A p \in safe : Intact(p, pos)
  /\ \A p \in saved : Intact(p, hdr)
  /\ file = "absent" => ~Mapped /\ hdr = pos /\ safe = {}

-----------------------------------------------------------------------------
\* Rounding up to the alignment does not lose a byte.
LEMMA AlignedCovers ==
  ASSUME NEW size \in Nat
  PROVE  Aligned(size) \in Nat /\ Aligned(size) >= size
BY DEF Aligned, ENTRY_ALIGNMENT

LEMMA InitArena == Init => ArenaInv
<1> SUFFICES ASSUME Init PROVE ArenaInv
  OBVIOUS
<1>1. arena \in BOOLEAN /\ sync \in BOOLEAN
  BY Zenon DEF Init
<1>2. ~Mapped
  <2>1. ~(writers > 0)
    BY DEF Init
  <2>2. ~arena
    BY Zenon DEF Init
  <2> QED
    BY <2>1, <2>2, Zenon DEF Mapped
<1>3. TypeOK
  BY <1>1, ArenaAssumption DEF Init, TypeOK, Cells, HEADER_SIZE
<1> QED
  BY <1>2, <1>3 DEF Init, ArenaInv

\* A pointer's offset and size are numbers, and it points behind the header.
LEMMA PointerBounds ==
  ASSUME NEW p \in Pointers
  PROVE  p.off \in Nat /\ p.off >= HEADER_SIZE /\ p.size \in Nat
<1>1. p.off \in HEADER_SIZE .. Capacity /\ p.size \in Sizes
  BY DEF Pointers
<1>2. Sizes \subseteq Nat /\ Capacity \in Nat
  BY ArenaAssumption
<1>3. p.size \in Nat
  BY <1>1, <1>2
<1>4. p.off \in Nat /\ p.off >= HEADER_SIZE
  <2>1. \A c \in Nat : \A i \in 128 .. c : i \in Nat /\ i >= 128
    OBVIOUS
  <2> QED
    BY <1>1, <1>2, <2>1 DEF HEADER_SIZE
<1> QED
  BY <1>3, <1>4

(***************************************************************************)
(* A write leaves what is intact below pos intact, and its own output is   *)
(* intact below the new position.                                          *)
(***************************************************************************)
LEMMA WriteKeeps ==
  ASSUME TypeOK, NEW size \in Sizes, NEW byte \in Bytes,
         pos + Aligned(size) <= Capacity,
         mem' = Stored(size, byte), pos' = pos + Aligned(size)
  PROVE  /\ \A p \in Pointers, n \in Nat :
              Intact(p, n) /\ n <= pos => Intact(p, n)' /\ p.off + p.size <= pos'
         /\ \A p : p = [off |-> pos, size |-> size, byte |-> byte] => Intact(p, pos)'
         /\ mem' \in [Cells -> Bytes \cup {Zero}]
         /\ pos' \in HEADER_SIZE .. Capacity /\ pos <= pos'
<1>1. size \in Nat /\ Aligned(size) \in Nat /\ Aligned(size) >= size
  BY AlignedCovers, ArenaAssumption
<1>2. pos \in Nat /\ pos \in HEADER_SIZE .. Capacity /\ Capacity \in Nat
  BY ArenaAssumption DEF TypeOK, HEADER_SIZE
<1>3. pos' \in HEADER_SIZE .. Capacity /\ pos <= pos'
  BY <1>1, <1>2 DEF HEADER_SIZE
<1>4. mem' \in [Cells -> Bytes \cup {Zero}]
  BY DEF Stored, TypeOK
<1>5. ASSUME NEW p \in Pointers, NEW n \in Nat, Intact(p, n), n <= pos
      PROVE  Intact(p, n)' /\ p.off + p.size <= pos'
  <2>1. p.off \in Nat /\ p.off >= HEADER_SIZE /\ p.size \in Nat
    BY PointerBounds
  <2>2. p.off + p.size <= n
    BY <1>5 DEF Intact
  <2>3. ASSUME NEW i \in p.off .. p.off + p.size - 1
        PROVE  mem'[i] = p.byte
    <3>1. i \in Cells /\ i < pos
      BY <1>2, <1>5, <2>1, <2>2 DEF Cells, HEADER_SIZE
    <3>2. mem'[i] = mem[i]
      BY <3>1 DEF Stored
    <3> QED
      BY <3>2, <1>5 DEF Intact
  <2> QED
    BY <1>2, <1>3, <1>5, <2>1, <2>2, <2>3 DEF Intact, HEADER_SIZE
<1>6. ASSUME NEW p, p = [off |-> pos, size |-> size, byte |-> byte]
      PROVE  Intact(p, pos)'
  <2>1. p.off = pos /\ p.size = size /\ p.byte = byte
    BY <1>6
  <2>2. p.off + p.size <= pos'
    BY <1>1, <1>2, <2>1
  <2>3. ASSUME NEW i \in pos .. pos + size - 1
        PROVE  mem'[i] = byte
    <3>1. i \in Cells /\ ~(i < pos) /\ ~(i >= pos + Aligned(size)) /\ i < pos + size
      BY <1>1, <1>2, <1>3 DEF Cells, HEADER_SIZE
    <3> QED
      BY <3>1 DEF Stored
  <2> QED
    BY <2>1, <2>2, <2>3 DEF Intact
<1> QED
  BY <1>3, <1>4, <1>5, <1>6
-----------------------------------------------------------------------------
(***************************************************************************)
(* Every step preserves the invariant.                                     *)
(***************************************************************************)
LEMMA StepArena == ArenaInv /\ [Next]_vars => ArenaInv'
<1> SUFFICES ASSUME ArenaInv, [Next]_vars PROVE ArenaInv'
  OBVIOUS
<1> USE DEF ArenaInv
<1>1. CASE Create
  <2>1. TypeOK'
    BY <1>1, ArenaAssumption DEF Create, TypeOK
  <2> QED
    BY <1>1, <2>1 DEF Create, Intact, TypeOK, HEADER_SIZE
<1>2. CASE Open
  <2>1. TypeOK'
    BY <1>2 DEF Open, TypeOK
  <2>2. \A p \in safe' : Intact(p, pos)'
    BY <1>2 DEF Open, Intact
  <2>3. \A p \in saved' : Intact(p, hdr)'
    BY <1>2 DEF Open, Intact
  <2> QED
    BY <1>2, <2>1, <2>2, <2>3 DEF Open, TypeOK, HEADER_SIZE
<1>3. ASSUME NEW size \in Sizes, NEW byte \in Bytes, Write(size, byte)
      PROVE  ArenaInv'
  <2> DEFINE new == [off |-> pos, size |-> size, byte |-> byte]
  <2>1. /\ pos + Aligned(size) <= Capacity
        /\ mem' = Stored(size, byte) /\ pos' = pos + Aligned(size)
        /\ Mapped /\ Mapped' /\ UNCHANGED <<file, arena, writers, sync, hdr, saved>>
        /\ safe' \subseteq safe \cup {new}
    BY <1>3 DEF Write, Mapped
  <2>2. /\ \A p \in Pointers, n \in Nat :
             Intact(p, n) /\ n <= pos => Intact(p, n)' /\ p.off + p.size <= pos'
        /\ \A p : p = new => Intact(p, pos)'
        /\ mem' \in [Cells -> Bytes \cup {Zero}]
        /\ pos' \in HEADER_SIZE .. Capacity /\ pos <= pos'
    BY <2>1, WriteKeeps
  <2>3. pos \in Nat /\ hdr \in Nat /\ hdr <= pos
    BY <2>1 DEF TypeOK, HEADER_SIZE
  <2>4. new \in Pointers
    BY DEF TypeOK, Pointers
  <2>5. TypeOK'
    BY <2>1, <2>2, <2>4 DEF TypeOK
  <2>6. ASSUME NEW p \in safe' PROVE Intact(p, pos)'
    <3>1. CASE p \in safe
      <4>1. Intact(p, pos) /\ p \in Pointers
        BY <2>1, <3>1 DEF TypeOK
      <4>2. \A i \in p.off .. p.off + p.size - 1 : mem'[i] = p.byte
        BY <4>1, <2>2, <2>3 DEF Intact
      <4> QED
        BY <4>1, <4>2, <2>2, <2>3 DEF Intact
    <3>2. CASE p = new
      BY <3>2, <2>2
    <3> QED
      BY <2>1, <3>1, <3>2
  <2>7. ASSUME NEW p \in saved' PROVE Intact(p, hdr)'
    <3>1. Intact(p, hdr) /\ p \in Pointers
      BY <2>1 DEF TypeOK
    <3> QED
      BY <3>1, <2>1, <2>2, <2>3 DEF Intact
  <2>8. hdr' <= pos'
    BY <2>1, <2>2, <2>3 DEF HEADER_SIZE
  <2>9. file # "absent"
    BY <2>1, <1>3
  <2> QED
    BY <2>1, <2>5, <2>6, <2>7, <2>8, <2>9
<1>4. CASE NewWriter
  <2>1. TypeOK' /\ Mapped
    BY <1>4, ArenaAssumption DEF NewWriter, TypeOK
  <2> QED
    BY <1>4, <2>1 DEF NewWriter, Intact
<1>5. CASE DropWriter
  <2>1. TypeOK' /\ Mapped
    BY <1>5, ArenaAssumption DEF DropWriter, TypeOK, Mapped
  <2> QED
    BY <1>5, <2>1 DEF DropWriter, Intact
<1>6. CASE DropArena \/ Delete
  <2>1. Mapped
    BY <1>6 DEF DropArena, Delete, Mapped
  <2>2. TypeOK'
    BY <1>6 DEF DropArena, Delete, TypeOK
  <2>3. hdr' = pos /\ pos' = pos /\ mem' = mem /\ safe' = safe /\ saved' \subseteq safe
    BY <1>6 DEF DropArena, Delete
  <2>4. file' # "absent"
    BY <1>6, <2>1 DEF DropArena, Delete
  <2>5. \A p \in safe : p.off + p.size <= pos
                      /\ \A i \in p.off .. p.off + p.size - 1 : mem[i] = p.byte
    BY <2>1 DEF Intact
  <2> QED
    BY <2>2, <2>3, <2>4, <2>5 DEF Intact, TypeOK, HEADER_SIZE
<1>7. CASE Crash
  <2>0. arena' \in BOOLEAN
    BY <1>7, Zenon DEF Crash
  <2>1. TypeOK'
    BY <1>7, <2>0, ArenaAssumption DEF Crash, TypeOK
  <2>2. ~Mapped' /\ Mapped
    BY <1>7 DEF Crash, Mapped
  <2> QED
    BY <1>7, <2>1, <2>2 DEF Crash, Intact
<1>8. CASE UNCHANGED vars
  BY <1>8 DEF vars, TypeOK, Mapped, Intact
<1> QED
  BY <1>1, <1>2, <1>3, <1>4, <1>5, <1>6, <1>7, <1>8 DEF Next

-----------------------------------------------------------------------------
(***************************************************************************)
(* Type correctness: the write position never leaves the file.             *)
(***************************************************************************)
THEOREM ArenaTypes == Spec => []TypeOK
<1>1. ArenaInv => TypeOK
  BY DEF ArenaInv
<1> QED
  BY <1>1, InitArena, StepArena, PTL DEF Spec

(***************************************************************************)
(* Every pointer write_bytes has returned reads back what was written.     *)
(***************************************************************************)
THEOREM AppendOnly == Spec => []PointersGood
<1>1. ArenaInv => PointersGood
  BY DEF ArenaInv, PointersGood, Readable, Intact
<1> QED
  BY <1>1, InitArena, StepArena, PTL DEF Spec

(***************************************************************************)
(* What the header covers survives later writers, handles that outlive the *)
(* arena, and crashes.                                                     *)
(***************************************************************************)
THEOREM SavedForGood == Spec => []SavedSurvives
<1>1. ArenaInv => SavedSurvives
  BY DEF ArenaInv, SavedSurvives, Intact
<1> QED
  BY <1>1, InitArena, StepArena, PTL DEF Spec
-----------------------------------------------------------------------------
(* Counting up to a number: where a claim fails there is a least number at  *)
(* which it does.  With it, functions that are defined by recursion over    *)
(* numbers exist, and what they compute can be followed.                    *)
LEMMA Counting ==
  ASSUME NEW m \in Nat, NEW reached, 0 \in reached,
         \A k \in 1 .. m : k - 1 \in reached => k \in reached
  PROVE  \A k \in 0 .. m : k \in reached
<1> DEFINE missed == {k \in 0 .. m : k \notin reached}
<1>1. SUFFICES ASSUME missed # {} PROVE FALSE
  OBVIOUS
<1>2. missed \in SUBSET Nat
  OBVIOUS
<1>3. PICK x \in missed : \A y \in missed : x <= y
  <2> HIDE DEF missed
  <2> QED
    BY <1>1, <1>2, LeastNumber
<1>4. x \in 1 .. m /\ x - 1 \in 0 .. m
  <2>1. x \in 0 .. m /\ x # 0
    OBVIOUS
  <2> QED
    BY <2>1
<1>5. x - 1 \notin missed
  <2> HIDE DEF missed
  <2> QED
    BY <1>3, <1>4
<1> QED
  BY <1>4, <1>5

\* What starts with base and goes on by step, up to n.
GoesOn(f, n, V, base, step) ==
  f \in [0 .. n -> V] /\ f[0] = base /\ \A k \in 1 .. n : f[k] = step[k][f[k - 1]]

LEMMA Recurs ==
  ASSUME NEW n \in Nat, NEW V, NEW base \in V, NEW step \in [1 .. n -> [V -> V]]
  PROVE  \E f : GoesOn(f, n, V, base, step)
<1> DEFINE Built(f, m) == f \in [0 .. m -> V] /\ f[0] = base /\ \A k \in 1 .. m : f[k] = step[k][f[k - 1]]
           built == {m \in Nat : \E f : Built(f, m)}
<1>1. 0 \in built
  <2>1. Built([k \in 0 .. 0 |-> base], 0)
    OBVIOUS
  <2> QED
    BY <2>1
<1>2. ASSUME NEW m \in 1 .. n, m - 1 \in built PROVE m \in built
  <2>1. m \in Nat /\ m - 1 \in Nat
    OBVIOUS
  <2>2. PICK f : Built(f, m - 1)
    BY <1>2
  <2> DEFINE g == [k \in 0 .. m |-> IF k = m THEN step[m][f[m - 1]] ELSE f[k]]
  <2>3. \A k \in 0 .. m - 1 : f[k] \in V /\ g[k] = f[k] /\ k # m
    BY <2>1, <2>2
  <2>4. step[m][f[m - 1]] \in V
    <3>1. m - 1 \in 0 .. m - 1
      BY <2>1
    <3> QED
      BY <2>3, <3>1
  <2>5. g \in [0 .. m -> V]
    <3>1. ASSUME NEW k \in 0 .. m, k # m PROVE k \in 0 .. m - 1
      BY <2>1, <3>1
    <3>2. \A k \in 0 .. m : g[k] \in V
      BY <2>3, <2>4, <3>1
    <3>3. g = [k \in 0 .. m |-> g[k]]
      OBVIOUS
    <3> HIDE DEF g
    <3> QED
      BY <3>2, <3>3
  <2>6. ASSUME NEW k \in 1 .. m PROVE g[k] = step[k][g[k - 1]]
    <3>1. k - 1 \in 0 .. m - 1 /\ g[k - 1] = f[k - 1]
      BY <2>1, <2>3
    <3>2. CASE k = m
      <4>1. g[m] = step[m][f[m - 1]]
        BY <2>1
      <4> HIDE DEF g
      <4> QED
        BY <3>1, <3>2, <4>1
    <3>3. CASE k # m
      <4>1. k \in 1 .. m - 1 /\ k \in 0 .. m - 1
        BY <2>1, <3>3
      <4> QED
        BY <2>2, <2>3, <3>1, <4>1
    <3> QED
      BY <3>2, <3>3
  <2>7. g[0] = base
    BY <2>1, <2>2, <2>3
  <2> HIDE DEF g
  <2> QED
    BY <2>1, <2>5, <2>6, <2>7
<1>3. \A k \in 0 .. n : k \in built
  <2> HIDE DEF built
  <2> QED
    BY <1>1, <1>2, Counting
<1> QED
  BY <1>3 DEF GoesOn

-----------------------------------------------------------------------------
(* Compaction.  What is added up on the way over the offsets.               *)
Weights == [M!Offsets -> Nat]

LEMMA SumsIs ==
  ASSUME NEW w \in Weights
  PROVE  /\ M!Sums(w) \in [0 .. BufferLength -> Nat] /\ M!Sums(w)[0] = 0
         /\ \A x \in 1 .. BufferLength : x - 1 \in M!Offsets /\ M!Sums(w)[x] = M!Sums(w)[x - 1] + w[x - 1]
<1> DEFINE n == BufferLength
           s == M!Sums(w)
           Goes(f) == f = [x \in 0 .. n |-> IF x = 0 THEN 0 ELSE f[x - 1] + w[x - 1]]
<1>1. n \in Nat
  BY StorageAssumption DEF M!CompactionConstants
<1>2. \A x \in 1 .. n : x - 1 \in M!Offsets /\ w[x - 1] \in Nat /\ x - 1 \in 0 .. n
  BY <1>1 DEF M!Offsets, Weights
<1>3. \E f : Goes(f)
  <2> DEFINE V == Nat
             base == 0
             step == [k \in 1 .. n |-> [v \in V |-> v + w[k - 1]]]
  <2>1. step \in [1 .. n -> [V -> V]] /\ base \in V
    BY <1>2
  <2>2. PICK f : GoesOn(f, n, V, base, step)
    <3> HIDE DEF step, n, V, base
    <3> QED
      BY <1>1, <2>1, Recurs
  <2>3. f \in [0 .. n -> V] /\ f[0] = base /\ \A k \in 1 .. n : f[k] = step[k][f[k - 1]]
    BY <2>2 DEF GoesOn
  <2>4. ASSUME NEW k \in 0 .. n PROVE f[k] = IF k = 0 THEN 0 ELSE f[k - 1] + w[k - 1]
    <3>1. CASE k = 0
      BY <2>3, <3>1
    <3>2. CASE k # 0
      <4>1. k \in 1 .. n /\ f[k - 1] \in Nat
        BY <1>1, <1>2, <2>3, <3>2
      <4>2. step[k][f[k - 1]] = f[k - 1] + w[k - 1]
        BY <4>1
      <4> QED
        BY <2>3, <3>2, <4>1, <4>2
    <3> QED
      BY <3>1, <3>2
  <2> HIDE DEF step
  <2>5. Goes(f)
    BY <2>3, <2>4
  <2> QED
    BY <2>5
<1>4. Goes(s)
  BY <1>3 DEF M!Sums
<1> HIDE DEF s
<1>5. s[0] = 0 /\ \A x \in 1 .. n : s[x] = s[x - 1] + w[x - 1]
  BY <1>1, <1>4
<1> DEFINE typed == {x \in Nat : s[x] \in Nat}
<1>6. 0 \in typed /\ \A x \in 1 .. n : x - 1 \in typed => x \in typed
  BY <1>2, <1>5
<1>7. \A x \in 0 .. n : x \in typed
  <2> HIDE DEF typed, n
  <2> QED
    BY <1>1, <1>6, Counting
<1>8. s \in [0 .. n -> Nat]
  BY <1>4, <1>7
<1> QED
  BY <1>2, <1>5, <1>8 DEF s

\* Nothing is taken away, and where nothing lies nothing is added.
LEMMA SumsGrow ==
  ASSUME NEW w \in Weights, NEW x \in 0 .. BufferLength, NEW y \in 0 .. BufferLength, x <= y
  PROVE  /\ M!Sums(w)[x] <= M!Sums(w)[y]
         /\ (\A z \in M!Offsets : x <= z /\ z < y => w[z] = 0) => M!Sums(w)[x] = M!Sums(w)[y]
<1> DEFINE n == BufferLength
           s == M!Sums(w)
           flat(v) == \A z \in M!Offsets : x <= z /\ z < v => w[z] = 0
           right == {v \in Nat : x <= v => s[x] <= s[v] /\ (flat(v) => s[x] = s[v])}
<1>1. n \in Nat
  BY StorageAssumption DEF M!CompactionConstants
<1>2. /\ s \in [0 .. n -> Nat] /\ s[0] = 0 /\ w \in [M!Offsets -> Nat]
      /\ \A v \in 1 .. n : v - 1 \in M!Offsets /\ s[v] = s[v - 1] + w[v - 1]
  BY SumsIs DEF Weights
<1> HIDE DEF s
<1>3. 0 \in right
  <2>1. x \in Nat /\ s[x] \in Nat
    BY <1>1, <1>2
  <2> QED
    BY <2>1
<1>4. ASSUME NEW v \in 1 .. n, v - 1 \in right PROVE v \in right
  <2>1. /\ v \in Nat /\ v - 1 \in Nat /\ v - 1 \in 0 .. n /\ x \in Nat /\ s[v - 1] \in Nat /\ s[v] \in Nat /\ s[x] \in Nat
        /\ v - 1 \in M!Offsets /\ w[v - 1] \in Nat /\ s[v] = s[v - 1] + w[v - 1]
    BY <1>1, <1>2
  <2>2. CASE v <= x
    BY <2>1, <2>2
  <2>3. CASE x < v
    <3>1. x <= v - 1 /\ v - 1 < v
      BY <2>1, <2>3
    <3>2. s[x] <= s[v - 1] /\ (flat(v - 1) => s[x] = s[v - 1])
      BY <1>4, <3>1
    <3>3. s[x] <= s[v]
      BY <2>1, <3>2
    <3>4. ASSUME flat(v) PROVE s[x] = s[v]
      <4>1. flat(v - 1)
        BY <2>1, <3>4 DEF M!Offsets
      <4>2. w[v - 1] = 0
        BY <2>1, <3>1, <3>4
      <4> HIDE DEF flat
      <4> QED
        BY <2>1, <3>2, <4>1, <4>2
    <3> QED
      BY <2>1, <3>3, <3>4
  <2> QED
    BY <2>1, <2>2, <2>3
<1>5. \A v \in 0 .. n : v \in right
  <2> HIDE DEF right, n
  <2> QED
    BY <1>1, <1>3, <1>4, Counting
<1> QED
  BY <1>5 DEF s

\* One more at one place.
LEMMA SumsPoint ==
  ASSUME NEW w \in Weights, NEW v \in Weights, NEW p \in M!Offsets, NEW d \in Nat,
         v[p] = w[p] + d, \A z \in M!Offsets : z # p => v[z] = w[z]
  PROVE  M!Sums(v)[BufferLength] = M!Sums(w)[BufferLength] + d
<1> DEFINE n == BufferLength
           s == M!Sums(w)
           t == M!Sums(v)
           right == {x \in Nat : t[x] = s[x] + IF p < x THEN d ELSE 0}
<1>1. n \in Nat /\ p \in Nat /\ p < n
  BY StorageAssumption DEF M!CompactionConstants, M!Offsets
<1>2. /\ s \in [0 .. n -> Nat] /\ s[0] = 0 /\ w \in [M!Offsets -> Nat]
      /\ \A x \in 1 .. n : x - 1 \in M!Offsets /\ s[x] = s[x - 1] + w[x - 1]
  BY SumsIs DEF Weights
<1>3. /\ t \in [0 .. n -> Nat] /\ t[0] = 0 /\ v \in [M!Offsets -> Nat]
      /\ \A x \in 1 .. n : t[x] = t[x - 1] + v[x - 1]
  BY SumsIs DEF Weights
<1> HIDE DEF s, t
<1>4. 0 \in right
  BY <1>1, <1>2, <1>3
<1>5. ASSUME NEW x \in 1 .. n, x - 1 \in right PROVE x \in right
  <2>1. /\ x \in Nat /\ x - 1 \in Nat /\ x - 1 \in 0 .. n /\ s[x - 1] \in Nat
        /\ x - 1 \in M!Offsets /\ w[x - 1] \in Nat
        /\ s[x] = s[x - 1] + w[x - 1] /\ t[x] = t[x - 1] + v[x - 1]
    BY <1>1, <1>2, <1>3
  <2>2. t[x - 1] = s[x - 1] + IF p < x - 1 THEN d ELSE 0
    BY <1>5
  <2>3. CASE p = x - 1
    BY <2>1, <2>2, <2>3, <1>1
  <2>4. CASE p # x - 1
    <3>1. v[x - 1] = w[x - 1] /\ (p < x <=> p < x - 1)
      BY <2>1, <2>4, <1>1
    <3> QED
      BY <2>1, <2>2, <3>1
  <2> QED
    BY <2>3, <2>4
<1>6. \A x \in 0 .. n : x \in right
  <2> HIDE DEF right, n
  <2> QED
    BY <1>1, <1>4, <1>5, Counting
<1>7. n \in right
  <2> HIDE DEF right
  <2> QED
    BY <1>1, <1>6
<1> QED
  BY <1>1, <1>7 DEF s, t
\* A table of allocations: its types, the live ones, their sizes and how they lie.
Table(a) == a \in [DOMAIN a -> M!Entry] /\ DOMAIN a \subseteq M!Cells
LiveIn(a) == {o \in DOMAIN a : a[o].live}
SizesIn(a, S) == [o \in M!Offsets |-> IF o \in S THEN a[o].size ELSE 0]
Room(a, o) == M!AlignSize(a[o].size)
Apart(a, t) ==
  \A o \in DOMAIN a :
    /\ o % 8 = 0 /\ o + Room(a, o) <= t /\ o + Room(a, o) <= BufferLength
    /\ \A p \in DOMAIN a : o < p => o + Room(a, o) <= p

LEMMA Bounds ==
  /\ BufferLength \in Nat /\ DataOffset \in Nat /\ DataOffset % 8 = 0 /\ DataOffset <= BufferLength
  /\ \A size \in AllocSizes : size \in Nat /\ size > 0
BY StorageAssumption DEF M!CompactionConstants

LEMMA AlignIs ==
  ASSUME NEW size \in Nat
  PROVE  M!AlignSize(size) \in Nat /\ M!AlignSize(size) >= size /\ M!AlignSize(size) % 8 = 0
BY DEF M!AlignSize

LEMMA EntryIs ==
  ASSUME NEW a, Table(a), NEW o \in DOMAIN a
  PROVE  /\ o \in Nat /\ o >= DataOffset /\ o < BufferLength /\ o \in M!Offsets
         /\ a[o] \in M!Entry /\ a[o].size \in Nat /\ a[o].size > 0 /\ a[o].size \in AllocSizes /\ a[o].live \in BOOLEAN
         /\ Room(a, o) \in Nat /\ Room(a, o) >= a[o].size /\ Room(a, o) % 8 = 0
<1>1. a[o] \in M!Entry /\ o \in M!Cells
  BY DEF Table
<1>2. o \in Nat /\ o >= DataOffset /\ o < BufferLength /\ o \in M!Offsets
  BY <1>1, Bounds DEF M!Cells, M!Offsets
<1>3. a[o].size \in AllocSizes /\ a[o].live \in BOOLEAN
  BY <1>1 DEF M!Entry
<1>4. a[o].size \in Nat /\ a[o].size > 0
  BY <1>3, Bounds
<1> QED
  BY <1>1, <1>2, <1>3, <1>4, AlignIs DEF Room

LEMMA SizesTyped ==
  ASSUME NEW a, Table(a), NEW S \in SUBSET DOMAIN a
  PROVE  SizesIn(a, S) \in Weights
<1>1. \A o \in S : a[o].size \in Nat
  BY EntryIs
<1> QED
  BY <1>1 DEF SizesIn, Weights

-----------------------------------------------------------------------------
(* The plan: every live allocation goes where the one before it ends, never *)
(* to a higher place than it has.                                           *)
Planned ==
  /\ \A o \in M!Live :
       /\ M!NewOffset(o) \in Nat /\ M!NewOffset(o) >= DataOffset /\ M!NewOffset(o) % 8 = 0
       /\ M!NewOffset(o) <= o /\ M!NewOffset(o) + Room(allocs, o) <= M!NewWritePos
       /\ \A p \in M!Live : o < p => M!NewOffset(o) + Room(allocs, o) <= M!NewOffset(p)
  /\ M!NewWritePos \in Nat /\ M!NewWritePos >= DataOffset /\ M!NewWritePos <= top /\ M!NewWritePos % 8 = 0

LEMMA SpanIs ==
  ASSUME Table(allocs)
  PROVE  /\ M!Span \in [0 .. BufferLength -> Nat] /\ M!Span[0] = 0
         /\ \A x \in 1 .. BufferLength :
              M!Span[x] = M!Span[x - 1] + IF x - 1 \in M!Live THEN Room(allocs, x - 1) ELSE 0
         /\ \A x \in 0 .. BufferLength, y \in 0 .. BufferLength : x <= y => M!Span[x] <= M!Span[y]
         /\ M!Live \subseteq DOMAIN allocs
<1> DEFINE w == [o \in M!Offsets |-> IF o \in M!Live THEN M!AlignSize(allocs[o].size) ELSE 0]
<1>1. M!Live \subseteq DOMAIN allocs
  BY DEF M!Live
<1>2. w \in Weights
  <2>1. \A o \in M!Live : M!AlignSize(allocs[o].size) \in Nat
    BY <1>1, EntryIs DEF Room
  <2> QED
    BY <2>1 DEF Weights
<1>3. M!Span = M!Sums(w)
  BY DEF M!Span
<1>4. \A x \in M!Offsets : w[x] = IF x \in M!Live THEN Room(allocs, x) ELSE 0
  BY DEF Room
<1> HIDE DEF w
<1>5. /\ M!Sums(w) \in [0 .. BufferLength -> Nat] /\ M!Sums(w)[0] = 0
      /\ \A x \in 1 .. BufferLength : x - 1 \in M!Offsets /\ M!Sums(w)[x] = M!Sums(w)[x - 1] + w[x - 1]
  BY <1>2, SumsIs
<1>6. \A x \in 0 .. BufferLength, y \in 0 .. BufferLength : x <= y => M!Sums(w)[x] <= M!Sums(w)[y]
  BY <1>2, SumsGrow
<1> QED
  BY <1>1, <1>3, <1>4, <1>5, <1>6

LEMMA PlanIs ==
  ASSUME Table(allocs), Apart(allocs, top), top \in Nat, top >= DataOffset
  PROVE  Planned
<1> DEFINE n == BufferLength
           s == M!Span
           room(o) == Room(allocs, o)
<1>1. /\ s \in [0 .. n -> Nat] /\ s[0] = 0 /\ M!Live \subseteq DOMAIN allocs
      /\ \A x \in 1 .. n : s[x] = s[x - 1] + IF x - 1 \in M!Live THEN room(x - 1) ELSE 0
      /\ \A x \in 0 .. n, y \in 0 .. n : x <= y => s[x] <= s[y]
  BY SpanIs
<1>2. (\A o : M!NewOffset(o) = DataOffset + s[o]) /\ M!NewWritePos = DataOffset + s[n]
  BY DEF M!NewOffset, M!NewWritePos
<1>3. n \in Nat /\ DataOffset \in Nat /\ DataOffset % 8 = 0
  BY Bounds
<1>4. \A o \in M!Live : /\ o \in Nat /\ o < n /\ o >= DataOffset /\ room(o) \in Nat /\ room(o) > 0 /\ room(o) % 8 = 0
                        /\ o + room(o) <= top
                        /\ \A p \in M!Live : o < p => o + room(o) <= p
  <2>1. ASSUME NEW o \in M!Live
        PROVE  /\ o \in Nat /\ o < n /\ o >= DataOffset /\ room(o) \in Nat /\ room(o) > 0 /\ room(o) % 8 = 0
               /\ o + room(o) <= top
    <3>1. o \in DOMAIN allocs
      BY <1>1
    <3>2. /\ o \in Nat /\ o < n /\ o >= DataOffset /\ room(o) \in Nat /\ room(o) % 8 = 0
          /\ allocs[o].size \in Nat /\ allocs[o].size > 0 /\ room(o) >= allocs[o].size
      BY <3>1, EntryIs
    <3>3. room(o) > 0
      BY <3>2
    <3> QED
      BY <3>1, <3>2, <3>3 DEF Apart
  <2>2. \A o \in M!Live, p \in M!Live : o < p => o + room(o) <= p
    BY <1>1 DEF Apart
  <2> QED
    BY <2>1, <2>2
<1> HIDE DEF s, room
<1>5. \A o \in M!Live : o + 1 \in 0 .. n /\ o \in 0 .. n /\ s[o] \in Nat /\ s[o + 1] = s[o] + room(o) /\ s[n] \in Nat
  <2>1. ASSUME NEW o \in M!Live
        PROVE  o + 1 \in 0 .. n /\ o \in 0 .. n /\ s[o] \in Nat /\ s[o + 1] = s[o] + room(o) /\ s[n] \in Nat
    <3>1. o + 1 \in 1 .. n /\ o \in 0 .. n /\ (o + 1) - 1 = o /\ o + 1 \in 0 .. n
      BY <1>3, <1>4
    <3>2. s[o + 1] = s[o] + IF o \in M!Live THEN room(o) ELSE 0
      BY <1>1, <3>1
    <3> QED
      BY <1>1, <1>3, <3>1, <3>2
  <2> QED
    BY <2>1
<1> DEFINE packed == {x \in Nat : /\ \A y \in M!Live : x <= y => DataOffset + s[x] <= y
                                  /\ DataOffset + s[x] <= top /\ s[x] % 8 = 0}
<1>6. 0 \in packed
  BY <1>1, <1>3, <1>4
<1>7. ASSUME NEW x \in 1 .. n, x - 1 \in packed PROVE x \in packed
  <2>1. x \in Nat /\ x - 1 \in Nat /\ x - 1 \in 0 .. n /\ s[x - 1] \in Nat /\ s[x] \in Nat
    BY <1>1, <1>3
  <2>2. /\ \A y \in M!Live : x - 1 <= y => DataOffset + s[x - 1] <= y
        /\ DataOffset + s[x - 1] <= top /\ s[x - 1] % 8 = 0
    BY <1>7
  <2>3. CASE x - 1 \notin M!Live
    <3>1. s[x] = s[x - 1]
      BY <1>1, <2>1, <2>3
    <3>2. \A y \in M!Live : x <= y => x - 1 <= y
      BY <1>4, <2>1
    <3> QED
      BY <2>1, <2>2, <3>1, <3>2
  <2>4. CASE x - 1 \in M!Live
    <3>1. s[x] = s[x - 1] + room(x - 1) /\ DataOffset + s[x - 1] <= x - 1
      BY <1>1, <2>1, <2>2, <2>4
    <3>2. room(x - 1) \in Nat /\ room(x - 1) % 8 = 0 /\ (x - 1) + room(x - 1) <= top
      BY <1>4, <2>4
    <3>3. ASSUME NEW y \in M!Live, x <= y PROVE DataOffset + s[x] <= y
      <4>1. y \in Nat /\ x - 1 < y
        BY <1>4, <2>1, <3>3
      <4>2. (x - 1) + room(x - 1) <= y
        BY <1>4, <2>4, <4>1
      <4> QED
        BY <1>3, <2>1, <3>1, <3>2, <4>1, <4>2
    <3>4. s[x] % 8 = 0
      BY <2>1, <2>2, <3>1, <3>2
    <3>5. DataOffset + s[x] <= top
      BY <1>3, <2>1, <3>1, <3>2
    <3> QED
      BY <2>1, <3>3, <3>4, <3>5
  <2> QED
    BY <2>3, <2>4
<1>8. \A x \in 0 .. n : x \in packed
  <2> HIDE DEF packed, n
  <2> QED
    BY <1>3, <1>6, <1>7, Counting
<1>9. ASSUME NEW o \in M!Live
      PROVE  /\ DataOffset + s[o] \in Nat /\ DataOffset + s[o] >= DataOffset /\ (DataOffset + s[o]) % 8 = 0
             /\ DataOffset + s[o] <= o /\ (DataOffset + s[o]) + room(o) <= DataOffset + s[n]
             /\ \A p \in M!Live : o < p => (DataOffset + s[o]) + room(o) <= DataOffset + s[p]
  <2>1. o \in packed /\ s[o] \in Nat /\ s[o + 1] = s[o] + room(o) /\ o \in Nat /\ room(o) \in Nat
    BY <1>4, <1>5, <1>8
  <2>2. s[o + 1] <= s[n] /\ s[n] \in Nat
    BY <1>1, <1>3, <1>4, <1>5
  <2>3. ASSUME NEW p \in M!Live, o < p PROVE s[o + 1] <= s[p] /\ s[p] \in Nat
    <3>1. o + 1 <= p /\ p \in 0 .. n /\ o + 1 \in 0 .. n
      BY <1>4, <1>5, <2>3
    <3> QED
      BY <1>1, <3>1
  <2>4. DataOffset + s[o] <= o /\ s[o] % 8 = 0
    BY <2>1
  <2>5. (DataOffset + s[o]) % 8 = 0
    BY <1>3, <2>1, <2>4
  <2> QED
    BY <1>3, <2>1, <2>2, <2>3, <2>4, <2>5
<1>10. /\ DataOffset + s[n] \in Nat /\ DataOffset + s[n] >= DataOffset /\ DataOffset + s[n] <= top
       /\ (DataOffset + s[n]) % 8 = 0
  <2>1. n \in packed /\ s[n] \in Nat
    BY <1>1, <1>3, <1>8
  <2> QED
    BY <1>3, <2>1
<1> QED
  BY <1>2, <1>9, <1>10 DEF Planned, room
-----------------------------------------------------------------------------
(* The moves.                                                               *)
Memory == [M!Cells -> Bytes \cup {Zero}]

LEMMA MovedIs ==
  ASSUME Table(allocs), Apart(allocs, top), Planned, NEW m \in Memory, NEW o \in M!Live
  PROVE  /\ M!Moved(m, o) \in Memory
         /\ \A i \in M!Cells :
              M!Moved(m, o)[i] = IF M!NewOffset(o) <= i /\ i < M!NewOffset(o) + allocs[o].size
                                 THEN m[o + (i - M!NewOffset(o))] ELSE m[i]
<1> DEFINE to == M!NewOffset(o)
           size == allocs[o].size
<1>1. M!Moved(m, o) = [i \in M!Cells |-> IF to <= i /\ i < to + size THEN m[o + (i - to)] ELSE m[i]]
  BY DEF M!Moved
<1>2. /\ o \in Nat /\ o >= DataOffset /\ size \in Nat /\ Room(allocs, o) \in Nat /\ Room(allocs, o) >= size
      /\ o + Room(allocs, o) <= BufferLength /\ to \in Nat
  <2>1. o \in DOMAIN allocs
    BY DEF M!Live
  <2> QED
    BY <2>1, EntryIs DEF Apart, Planned
<1> HIDE DEF to, size
<1>3. ASSUME NEW i \in M!Cells, to <= i, i < to + size PROVE o + (i - to) \in M!Cells
  BY <1>2, <1>3, Bounds DEF M!Cells
<1>4. \A i \in M!Cells : (IF to <= i /\ i < to + size THEN m[o + (i - to)] ELSE m[i]) \in Bytes \cup {Zero}
  BY <1>3 DEF Memory
<1> QED
  BY <1>1, <1>4 DEF Memory, to, size

LEMMA MovesIs ==
  ASSUME Table(allocs), Apart(allocs, top), Planned, buffer \in Memory
  PROVE  /\ M!Moves \in [0 .. BufferLength -> Memory] /\ M!Moves[0] = buffer
         /\ \A k \in 1 .. BufferLength :
              M!Moves[k] = IF BufferLength - k \in M!Live THEN M!Moved(M!Moves[k - 1], BufferLength - k) ELSE M!Moves[k - 1]
<1> DEFINE n == BufferLength
           s == M!Moves
           Go(f, k) == IF n - k \in M!Live THEN M!Moved(f[k - 1], n - k) ELSE f[k - 1]
           Goes(f) == f = [k \in 0 .. n |-> IF k = 0 THEN buffer ELSE Go(f, k)]
<1>1. n \in Nat
  BY Bounds
<1>2. \A m \in Memory, o \in M!Live : M!Moved(m, o) \in Memory
  BY MovedIs
<1>3. \E f : Goes(f)
  <2> DEFINE step == [k \in 1 .. n |-> [m \in Memory |-> IF n - k \in M!Live THEN M!Moved(m, n - k) ELSE m]]
  <2>1. step \in [1 .. n -> [Memory -> Memory]]
    BY <1>2
  <2>2. PICK f : GoesOn(f, n, Memory, buffer, step)
    <3> HIDE DEF step, n
    <3> QED
      BY <1>1, <2>1, Recurs
  <2>3. f \in [0 .. n -> Memory] /\ f[0] = buffer /\ \A k \in 1 .. n : f[k] = step[k][f[k - 1]]
    BY <2>2 DEF GoesOn
  <2>4. ASSUME NEW k \in 0 .. n PROVE f[k] = IF k = 0 THEN buffer ELSE Go(f, k)
    <3>1. CASE k = 0
      BY <2>3, <3>1
    <3>2. CASE k # 0
      <4>1. k \in 1 .. n /\ k - 1 \in 0 .. n /\ f[k - 1] \in Memory
        BY <1>1, <2>3, <3>2
      <4>2. step[k][f[k - 1]] = Go(f, k)
        BY <4>1
      <4> QED
        BY <2>3, <3>2, <4>1, <4>2
    <3> QED
      BY <3>1, <3>2
  <2> HIDE DEF step, Go
  <2>5. Goes(f)
    BY <2>3, <2>4
  <2> QED
    BY <2>5
<1>4. Goes(s)
  BY <1>3 DEF M!Moves
<1> HIDE DEF s
<1>5. s[0] = buffer /\ \A k \in 1 .. n : k - 1 \in 0 .. n /\ k \in Nat /\ s[k] = Go(s, k)
  BY <1>1, <1>4
<1> DEFINE typed == {k \in Nat : s[k] \in Memory}
<1>6. 0 \in typed /\ \A k \in 1 .. n : k - 1 \in typed => k \in typed
  BY <1>2, <1>5
<1>7. \A k \in 0 .. n : k \in typed
  <2> HIDE DEF typed, n
  <2> QED
    BY <1>1, <1>6, Counting
<1>8. s \in [0 .. n -> Memory]
  <2> HIDE DEF Go
  <2> QED
    BY <1>4, <1>7
<1> QED
  BY <1>5, <1>8 DEF s

\* Before its move an allocation is where it was, and after it where it should be.
LEMMA BytesMoved ==
  ASSUME Table(allocs), Apart(allocs, top), Planned, buffer \in Memory,
         NEW o \in M!Live, ~M!Overrun(o), NEW i \in 0 .. allocs[o].size - 1
  PROVE  M!Moves[BufferLength][M!NewOffset(o) + i] = buffer[o + i]
<1> DEFINE n == BufferLength
           s == M!Moves
           new(p) == M!NewOffset(p)
           size(p) == allocs[p].size
           right == {k \in Nat : s[k][IF n - k > o THEN o + i ELSE new(o) + i] = buffer[o + i]}
<1>1. n \in Nat
  BY Bounds
<1>2. /\ s \in [0 .. n -> Memory] /\ s[0] = buffer
      /\ \A k \in 1 .. n : s[k] = IF n - k \in M!Live THEN M!Moved(s[k - 1], n - k) ELSE s[k - 1]
  BY MovesIs
<1>3. \A p \in M!Live :
        /\ p \in Nat /\ p < n /\ p >= DataOffset /\ size(p) \in Nat /\ new(p) \in Nat /\ new(p) >= DataOffset /\ new(p) <= p
        /\ p + size(p) <= n
        /\ \A q \in M!Live : p < q => new(p) + size(p) <= new(q)
  <2>1. ASSUME NEW p \in M!Live
        PROVE  /\ p \in Nat /\ p < n /\ p >= DataOffset /\ size(p) \in Nat /\ new(p) \in Nat /\ new(p) >= DataOffset /\ new(p) <= p
               /\ p + size(p) <= n /\ Room(allocs, p) \in Nat /\ Room(allocs, p) >= size(p)
    <3>1. p \in DOMAIN allocs
      BY DEF M!Live
    <3>2. p \in Nat /\ p < n /\ p >= DataOffset /\ size(p) \in Nat /\ Room(allocs, p) \in Nat /\ Room(allocs, p) >= size(p)
      BY <3>1, EntryIs
    <3>3. p + Room(allocs, p) <= n
      BY <3>1 DEF Apart
    <3>4. p + size(p) <= n
      BY <1>1, <3>2, <3>3
    <3> QED
      BY <3>2, <3>4 DEF Planned
  <2>2. ASSUME NEW p \in M!Live, NEW q \in M!Live, p < q PROVE new(p) + size(p) <= new(q)
    <3>1. new(p) + Room(allocs, p) <= new(q)
      BY <2>2 DEF Planned
    <3> HIDE DEF new, size
    <3> QED
      BY <2>1, <3>1
  <2> QED
    BY <2>1, <2>2
<1>4. \A p \in M!Live : p > o => new(p) >= o + size(o)
  <2>1. \A p \in M!Live : p > o => ~(new(p) < o + size(o))
    BY DEF M!Overrun
  <2> HIDE DEF new, size
  <2> QED
    BY <1>3, <2>1
<1>5. \A p \in M!Live, m \in Memory, c \in M!Cells :
        M!Moved(m, p)[c] = IF new(p) <= c /\ c < new(p) + size(p) THEN m[p + (c - new(p))] ELSE m[c]
  BY MovedIs
<1>6. i \in Nat /\ i < size(o) /\ o \in Nat /\ o + i \in M!Cells /\ new(o) + i \in M!Cells /\ new(o) \in Nat /\ o < n
  <2>1. i \in 0 .. size(o) - 1
    OBVIOUS
  <2> HIDE DEF new, size
  <2> QED
    BY <1>1, <1>3, <2>1, Bounds DEF M!Cells
<1> HIDE DEF s, new, size
<1>7. 0 \in right
  BY <1>1, <1>2, <1>6
<1>8. ASSUME NEW k \in 1 .. n, k - 1 \in right PROVE k \in right
  <2> DEFINE q == n - k
  <2>1. /\ k \in Nat /\ k - 1 \in Nat /\ k - 1 \in 0 .. n /\ s[k - 1] \in Memory /\ q \in Nat /\ n - (k - 1) = q + 1
        /\ s[k] = IF q \in M!Live THEN M!Moved(s[k - 1], q) ELSE s[k - 1]
    BY <1>1, <1>2
  <2>2. s[k - 1][IF q + 1 > o THEN o + i ELSE new(o) + i] = buffer[o + i]
    BY <1>8, <2>1
  <2> SUFFICES s[k][IF q > o THEN o + i ELSE new(o) + i] = buffer[o + i]
    BY <2>1
  <2> HIDE DEF q
  <2>3. CASE q \notin M!Live
    <3>1. q # o /\ (q + 1 > o <=> q > o)
      BY <1>6, <2>1, <2>3
    <3> QED
      BY <2>1, <2>2, <2>3, <3>1
  <2>4. CASE q \in M!Live /\ q > o
    <3>1. q + 1 > o /\ ~(new(q) <= o + i)
      BY <1>3, <1>4, <1>6, <2>1, <2>4
    <3>2. s[k - 1][o + i] = buffer[o + i]
      BY <2>2, <3>1
    <3>3. M!Moved(s[k - 1], q)[o + i] = s[k - 1][o + i]
      BY <1>5, <1>6, <2>1, <2>4, <3>1
    <3> QED
      BY <2>1, <2>4, <3>2, <3>3
  <2>5. CASE q = o
    <3>1. q + 1 > o /\ ~(q > o) /\ new(o) <= new(o) + i /\ new(o) + i < new(o) + size(o) /\ o + ((new(o) + i) - new(o)) = o + i
      BY <1>3, <1>6, <2>1, <2>5
    <3>2. s[k - 1][o + i] = buffer[o + i]
      BY <2>2, <3>1
    <3>3. M!Moved(s[k - 1], o)[new(o) + i] = s[k - 1][o + i]
      BY <1>5, <1>6, <2>1, <3>1
    <3> QED
      BY <2>1, <2>5, <3>1, <3>2, <3>3
  <2>6. CASE q \in M!Live /\ q < o
    <3>1. ~(q + 1 > o) /\ ~(q > o) /\ ~(new(o) + i < new(q) + size(q))
      BY <1>3, <1>6, <2>1, <2>6
    <3>2. s[k - 1][new(o) + i] = buffer[o + i]
      BY <2>2, <3>1
    <3>3. M!Moved(s[k - 1], q)[new(o) + i] = s[k - 1][new(o) + i]
      BY <1>5, <1>6, <2>1, <2>6, <3>1
    <3> QED
      BY <2>1, <2>6, <3>1, <3>2, <3>3
  <2> QED
    BY <1>6, <2>1, <2>3, <2>4, <2>5, <2>6
<1>9. \A k \in 0 .. n : k \in right
  <2> HIDE DEF right, n
  <2> QED
    BY <1>1, <1>7, <1>8, Counting
<1>10. n \in right /\ ~(n - n > o)
  <2>1. n \in 0 .. n /\ ~(n - n > o)
    BY <1>1, <1>6
  <2> HIDE DEF right
  <2> QED
    BY <1>9, <2>1
<1> QED
  BY <1>10 DEF s, new
-----------------------------------------------------------------------------
(* The inductive invariant of compaction.                                   *)
CompInv == M!TypeOK /\ M!AllocationsApart /\ M!TotalsAgree /\ top % 8 = 0

Total(a, S) == M!Sums(SizesIn(a, S))[BufferLength]
Totals(a, t, d) == t = Total(a, DOMAIN a) /\ d = Total(a, DOMAIN a \ LiveIn(a))

LEMMA CompIs ==
  ASSUME M!TypeOK, M!AllocationsApart
  PROVE  /\ Table(allocs) /\ Apart(allocs, top) /\ buffer \in Memory /\ generation \in Nat /\ total \in Nat /\ dead \in Nat
         /\ top \in Nat /\ top >= DataOffset /\ top <= BufferLength /\ M!Live = LiveIn(allocs)
<1>1. /\ Table(allocs) /\ buffer \in Memory /\ generation \in Nat /\ total \in Nat /\ dead \in Nat
      /\ top \in Nat /\ top >= DataOffset /\ top <= BufferLength
  BY Bounds DEF M!TypeOK, Table, Memory
<1>2. Apart(allocs, top)
  <2>1. ASSUME NEW o \in DOMAIN allocs
        PROVE  /\ o % 8 = 0 /\ o + Room(allocs, o) <= top /\ o + Room(allocs, o) <= BufferLength
               /\ \A p \in DOMAIN allocs : o < p => o + Room(allocs, o) <= p
    <3>1. /\ o % 8 = 0 /\ o + Room(allocs, o) <= top
          /\ \A p \in DOMAIN allocs : o < p => o + Room(allocs, o) <= p
      BY DEF M!AllocationsApart, Room
    <3>2. o \in Nat /\ Room(allocs, o) \in Nat
      BY <1>1, EntryIs
    <3>3. o + Room(allocs, o) <= BufferLength
      BY <1>1, <3>1, <3>2, Bounds
    <3> QED
      BY <3>1, <3>3
  <2> QED
    BY <2>1 DEF Apart
<1>3. M!Live = LiveIn(allocs)
  BY DEF M!Live, LiveIn
<1> QED
  BY <1>1, <1>2, <1>3

LEMMA TotalsAre ==
  /\ M!TotalsAgree <=> Totals(allocs, total, dead)
  /\ \A S : M!SizeOf(S) = Total(allocs, S)
BY DEF M!TotalsAgree, Totals, Total, SizesIn, M!SizeOf, M!Live, LiveIn

\* What there must be after a step.
LEMMA CompIsAgain ==
  ASSUME Table(allocs'), Apart(allocs', top'), Totals(allocs', total', dead'),
         generation' \in Nat \ {0}, total' \in Nat, dead' \in Nat, buffer' \in Memory, top' \in DataOffset .. BufferLength, top' % 8 = 0
  PROVE  CompInv'
<1>1. M!TypeOK'
  BY DEF M!TypeOK, Table, Memory
<1>2. M!AllocationsApart'
  BY DEF M!AllocationsApart, Apart, Room
<1>3. M!TotalsAgree'
  BY DEF M!TotalsAgree, Totals, Total, SizesIn, M!SizeOf, M!Live, LiveIn
<1> QED
  BY <1>1, <1>2, <1>3 DEF CompInv

\* Nothing has no size.
LEMMA NoneIsNothing ==
  ASSUME NEW a, Table(a)
  PROVE  Total(a, {}) = 0
<1> DEFINE w == SizesIn(a, {})
<1>1. w \in Weights /\ \A z \in M!Offsets : w[z] = 0
  BY DEF SizesIn, Weights
<1>2. BufferLength \in 0 .. BufferLength /\ 0 \in 0 .. BufferLength /\ 0 <= BufferLength
  BY Bounds
<1> HIDE DEF w
<1>3. M!Sums(w)[0] = 0 /\ M!Sums(w)[0] = M!Sums(w)[BufferLength]
  BY <1>1, <1>2, SumsIs, SumsGrow
<1> QED
  BY <1>3 DEF w, Total

LEMMA CompStarts ==
  ASSUME M!Init
  PROVE  CompInv
<1>1. allocs = <<>> /\ generation = 1 /\ total = 0 /\ dead = 0 /\ buffer = [i \in M!Cells |-> Zero] /\ top = DataOffset
  BY DEF M!Init
<1>2. DOMAIN allocs = {} /\ Table(allocs) /\ LiveIn(allocs) = {}
  BY <1>1 DEF Table, LiveIn
<1>3. M!TypeOK
  BY <1>1, <1>2, Bounds DEF M!TypeOK
<1>4. M!AllocationsApart
  BY <1>2 DEF M!AllocationsApart
<1>5. Totals(allocs, total, dead)
  <2>1. DOMAIN allocs \ LiveIn(allocs) = {}
    BY <1>2
  <2> QED
    BY <1>1, <1>2, <2>1, NoneIsNothing DEF Totals
<1> QED
  BY <1>1, <1>3, <1>4, <1>5, TotalsAre, Bounds DEF CompInv

LEMMA AllocateComp ==
  ASSUME CompInv, NEW size \in AllocSizes, NEW byte \in Bytes, M!Allocate(size, byte)
  PROVE  CompInv'
<1> DEFINE a == allocs
           b == allocs'
           n == BufferLength
           room == M!AlignSize(size)
<1>1. /\ Table(a) /\ Apart(a, top) /\ buffer \in Memory /\ generation \in Nat \ {0} /\ total \in Nat /\ dead \in Nat
      /\ top \in Nat /\ top >= DataOffset /\ top <= n /\ Totals(a, total, dead) /\ top % 8 = 0
  BY CompIs, TotalsAre DEF CompInv, M!TypeOK
<1>2. size \in Nat /\ size > 0 /\ room \in Nat /\ room >= size /\ room % 8 = 0
  <2>1. size \in Nat /\ size > 0
    BY Bounds
  <2> QED
    BY <2>1, AlignIs
<1>3. /\ top + room <= n /\ total' = total + size /\ top' = top + room /\ UNCHANGED <<generation, dead>>
      /\ b = [o \in DOMAIN a \cup {top} |->
                IF o = top THEN [size |-> size, generation |-> generation, live |-> TRUE] ELSE a[o]]
      /\ buffer' = [i \in M!Cells |-> IF top <= i /\ i < top + size THEN byte ELSE buffer[i]]
  BY DEF M!Allocate
<1>4. buffer' \in Memory
  BY <1>1, <1>3 DEF Memory
<1>5. top \in M!Offsets /\ top \in M!Cells
  BY <1>1, <1>2, <1>3, Bounds DEF M!Offsets, M!Cells
<1>6. \A o \in DOMAIN a : o \in Nat /\ Room(a, o) \in Nat /\ Room(a, o) > 0 /\ o + Room(a, o) <= top /\ o < top /\ o % 8 = 0
  <2>1. ASSUME NEW o \in DOMAIN a
        PROVE  o \in Nat /\ Room(a, o) \in Nat /\ Room(a, o) > 0 /\ o + Room(a, o) <= top /\ o < top /\ o % 8 = 0
    <3>1. o \in Nat /\ Room(a, o) \in Nat /\ a[o].size \in Nat /\ a[o].size > 0 /\ Room(a, o) >= a[o].size
      BY <1>1, EntryIs
    <3>2. o + Room(a, o) <= top /\ o % 8 = 0
      BY <1>1 DEF Apart
    <3> QED
      BY <1>1, <3>1, <3>2
  <2> QED
    BY <2>1
<1>7. /\ DOMAIN b = DOMAIN a \cup {top} /\ top \notin DOMAIN a /\ \A o \in DOMAIN a : b[o] = a[o]
      /\ b[top] = [size |-> size, generation |-> generation, live |-> TRUE]
  BY <1>1, <1>3, <1>6
<1>8. b[top].size = size /\ b[top].live /\ b[top] \in M!Entry /\ Room(b, top) = room
  BY <1>1, <1>7 DEF M!Entry, Room
<1>9. b = [o \in DOMAIN b |-> b[o]]
  BY <1>3
<1> HIDE DEF b, room
<1>10. Table(b)
  BY <1>1, <1>5, <1>7, <1>8, <1>9 DEF Table
<1>11. \A o \in DOMAIN a : Room(b, o) = Room(a, o)
  BY <1>7 DEF Room
<1>12. Apart(b, top + room)
  <2>1. ASSUME NEW o \in DOMAIN b
        PROVE  /\ o % 8 = 0 /\ o + Room(b, o) <= top + room /\ o + Room(b, o) <= n
               /\ \A p \in DOMAIN b : o < p => o + Room(b, o) <= p
    <3>1. CASE o = top
      BY <1>1, <1>2, <1>3, <1>6, <1>7, <1>8, <3>1
    <3>2. CASE o \in DOMAIN a
      <4>1. o \in Nat /\ Room(b, o) \in Nat /\ o + Room(b, o) <= top /\ o % 8 = 0
        BY <1>6, <1>11, <3>2
      <4>2. o + Room(b, o) <= top + room /\ o + Room(b, o) <= n
        BY <1>1, <1>2, <4>1, Bounds
      <4>3. \A p \in DOMAIN a : o < p => o + Room(b, o) <= p
        BY <1>1, <1>11, <3>2 DEF Apart
      <4> QED
        BY <1>7, <4>1, <4>2, <4>3
    <3> QED
      BY <1>7, <3>1, <3>2
  <2> QED
    BY <2>1 DEF Apart
<1>13. Totals(b, total + size, dead)
  <2> DEFINE w == SizesIn(a, DOMAIN a)
             v == SizesIn(b, DOMAIN b)
  <2>1. w \in Weights /\ v \in Weights
    BY <1>1, <1>10, SizesTyped
  <2>2. w[top] = 0 /\ v[top] = size /\ \A z \in M!Offsets : z # top => v[z] = w[z]
    BY <1>5, <1>7, <1>8 DEF SizesIn
  <2>3. v[top] = w[top] + size
    BY <1>2, <2>2
  <2> HIDE DEF w, v
  <2>4. M!Sums(v)[n] = M!Sums(w)[n] + size
    BY <1>2, <1>5, <2>1, <2>2, <2>3, SumsPoint
  <2>5. Total(b, DOMAIN b) = total + size
    BY <1>1, <2>4 DEF Totals, Total, w, v
  <2>6. DOMAIN b \ LiveIn(b) = DOMAIN a \ LiveIn(a)
    BY <1>7, <1>8 DEF LiveIn
  <2>7. SizesIn(b, DOMAIN b \ LiveIn(b)) = SizesIn(a, DOMAIN a \ LiveIn(a))
    BY <1>7, <2>6 DEF SizesIn
  <2> QED
    BY <1>1, <2>5, <2>7 DEF Totals, Total
<1>14. top' \in DataOffset .. n /\ top' % 8 = 0 /\ total' \in Nat
  BY <1>1, <1>2, <1>3, Bounds
<1>15. generation' \in Nat \ {0} /\ dead' \in Nat /\ Apart(b, top') /\ Totals(b, total', dead')
  BY <1>1, <1>3, <1>12, <1>13
<1> QED
  BY <1>4, <1>10, <1>14, <1>15, CompIsAgain DEF b

LEMMA MarkDeadComp ==
  ASSUME CompInv, NEW o \in DOMAIN allocs, M!MarkDead(o)
  PROVE  CompInv'
<1> DEFINE a == allocs
           b == allocs'
           n == BufferLength
<1>1. /\ Table(a) /\ Apart(a, top) /\ buffer \in Memory /\ generation \in Nat \ {0} /\ total \in Nat /\ dead \in Nat
      /\ top \in DataOffset .. n /\ Totals(a, total, dead) /\ top % 8 = 0
  BY CompIs, TotalsAre DEF CompInv, M!TypeOK
<1>2. /\ a[o].live /\ b = [a EXCEPT ![o].live = FALSE] /\ dead' = dead + a[o].size
      /\ UNCHANGED <<generation, total, buffer, top>>
  BY DEF M!MarkDead
<1>3. o \in M!Offsets /\ a[o] \in M!Entry /\ a[o].size \in Nat
  BY <1>1, EntryIs
<1>4. /\ DOMAIN b = DOMAIN a /\ (\A p \in DOMAIN a : p # o => b[p] = a[p]) /\ b[o] = [a[o] EXCEPT !.live = FALSE]
      /\ b = [p \in DOMAIN b |-> b[p]]
  BY <1>1, <1>2 DEF Table
<1>5. b[o] \in M!Entry /\ b[o].size = a[o].size /\ ~b[o].live
  BY <1>3, <1>4 DEF M!Entry
<1> HIDE DEF b
<1>6. Table(b)
  BY <1>1, <1>4, <1>5 DEF Table
<1>7. \A p \in DOMAIN a : b[p].size = a[p].size /\ Room(b, p) = Room(a, p)
  BY <1>4, <1>5 DEF Room
<1>8. Apart(b, top)
  BY <1>1, <1>4, <1>7 DEF Apart
<1>9. Totals(b, total, dead + a[o].size)
  <2>1. SizesIn(b, DOMAIN b) = SizesIn(a, DOMAIN a)
    BY <1>4, <1>7 DEF SizesIn
  <2> DEFINE w == SizesIn(a, DOMAIN a \ LiveIn(a))
             v == SizesIn(b, DOMAIN b \ LiveIn(b))
  <2>2. w \in Weights /\ v \in Weights
    BY <1>1, <1>6, SizesTyped
  <2>3. DOMAIN b \ LiveIn(b) = (DOMAIN a \ LiveIn(a)) \cup {o} /\ o \in LiveIn(a)
    BY <1>2, <1>4, <1>5 DEF LiveIn
  <2>4. w[o] = 0 /\ v[o] = a[o].size /\ \A z \in M!Offsets : z # o => v[z] = w[z]
    BY <1>3, <1>7, <2>3 DEF SizesIn
  <2>5. v[o] = w[o] + a[o].size
    BY <1>3, <2>4
  <2> HIDE DEF w, v
  <2>6. M!Sums(v)[n] = M!Sums(w)[n] + a[o].size
    BY <1>3, <2>2, <2>4, <2>5, SumsPoint
  <2> QED
    BY <1>1, <2>1, <2>6 DEF Totals, Total, w, v
<1>10. dead' \in Nat
  BY <1>1, <1>2, <1>3
<1> QED
  BY <1>1, <1>2, <1>6, <1>8, <1>9, <1>10, CompIsAgain DEF b

\* What the tracker is rebuilt from: every live allocation in its new place.
Rebuilt(b) ==
  /\ DOMAIN b = {M!NewOffset(o) : o \in M!Live} /\ b = [n \in DOMAIN b |-> b[n]]
  /\ \A o \in M!Live : LET n == M!NewOffset(o) IN
       b[n] \in M!Entry /\ b[n].size = allocs[o].size /\ b[n].live

LEMMA RebuiltIs ==
  ASSUME CompInv, NEW b, Rebuilt(b)
  PROVE  /\ Table(b) /\ Apart(b, M!NewWritePos) /\ LiveIn(b) = DOMAIN b
         /\ Total(b, DOMAIN b) = Total(allocs, M!Live)
<1> DEFINE n == BufferLength
           new(o) == M!NewOffset(o)
           room(o) == Room(allocs, o)
           end == M!NewWritePos
<1>1. /\ Table(allocs) /\ Apart(allocs, top) /\ top \in Nat /\ top >= DataOffset /\ top <= n
      /\ n \in Nat /\ DataOffset \in Nat /\ DataOffset <= n
  BY CompIs, Bounds DEF CompInv
<1>2. Planned
  BY <1>1, PlanIs
<1>3. \A o \in M!Live :
        /\ o \in DOMAIN allocs /\ o \in Nat /\ o < n /\ room(o) \in Nat /\ room(o) > 0 /\ allocs[o].size \in Nat
        /\ new(o) \in Nat /\ new(o) >= DataOffset /\ new(o) % 8 = 0 /\ new(o) + room(o) <= end
        /\ \A p \in M!Live : o < p => new(o) + room(o) <= new(p)
  <2>1. ASSUME NEW o \in M!Live
        PROVE  o \in DOMAIN allocs /\ o \in Nat /\ o < n /\ room(o) \in Nat /\ room(o) > 0 /\ allocs[o].size \in Nat
    <3>1. o \in DOMAIN allocs
      BY DEF M!Live
    <3>2. o \in Nat /\ o < n /\ room(o) \in Nat /\ room(o) >= allocs[o].size /\ allocs[o].size \in Nat /\ allocs[o].size > 0
      BY <1>1, <3>1, EntryIs
    <3> QED
      BY <3>1, <3>2
  <2> QED
    BY <1>2, <2>1 DEF Planned
<1>4. end \in Nat /\ end >= DataOffset /\ end <= n
  BY <1>1, <1>2 DEF Planned
<1>5. \A o \in M!Live : /\ new(o) \in DOMAIN b /\ b[new(o)] \in M!Entry /\ b[new(o)].size = allocs[o].size /\ b[new(o)].live
                        /\ Room(b, new(o)) = room(o)
  BY DEF Rebuilt, Room
<1>6. \A z \in DOMAIN b : \E o \in M!Live : z = new(o)
  BY DEF Rebuilt
<1> HIDE DEF new, room, end
<1>7. \A o \in M!Live : new(o) \in M!Cells /\ new(o) \in M!Offsets /\ new(o) < end
  BY <1>1, <1>3, <1>4 DEF M!Cells, M!Offsets
<1>8. Table(b)
  <2>1. \A z \in DOMAIN b : b[z] \in M!Entry /\ z \in M!Cells
    BY <1>5, <1>6, <1>7
  <2> QED
    BY <2>1 DEF Table, Rebuilt
<1>9. \A o, p \in M!Live : new(o) < new(p) => o < p
  <2>1. ASSUME NEW o \in M!Live, NEW p \in M!Live, new(o) < new(p), ~(o < p) PROVE FALSE
    <3>1. CASE o = p
      BY <1>3, <2>1, <3>1
    <3>2. CASE p < o
      <4>1. new(p) + room(p) <= new(o)
        BY <1>3, <3>2
      <4> QED
        BY <1>3, <2>1, <4>1
    <3> QED
      BY <1>3, <2>1, <3>1, <3>2
  <2> QED
    BY <2>1
<1>10. Apart(b, end)
  <2>1. ASSUME NEW y \in DOMAIN b
        PROVE  /\ y % 8 = 0 /\ y + Room(b, y) <= end /\ y + Room(b, y) <= n
               /\ \A z \in DOMAIN b : y < z => y + Room(b, y) <= z
    <3>1. PICK o \in M!Live : y = new(o)
      BY <1>6
    <3>2. Room(b, y) = room(o)
      BY <1>5, <3>1
    <3>3. y % 8 = 0 /\ y + Room(b, y) <= end
      BY <1>3, <3>1, <3>2
    <3>4. y + Room(b, y) <= n
      BY <1>1, <1>3, <1>4, <3>1, <3>2, <3>3
    <3>5. ASSUME NEW z \in DOMAIN b, y < z PROVE y + Room(b, y) <= z
      <4>1. PICK p \in M!Live : z = new(p)
        BY <1>6
      <4>2. o < p
        BY <1>9, <3>1, <3>5, <4>1
      <4> QED
        BY <1>3, <3>1, <3>2, <4>1, <4>2
    <3> QED
      BY <3>3, <3>4, <3>5
  <2> QED
    BY <2>1 DEF Apart
<1>11. LiveIn(b) = DOMAIN b
  BY <1>5, <1>6 DEF LiveIn
<1>12. Total(b, DOMAIN b) = Total(allocs, M!Live)
  <2> DEFINE w == SizesIn(allocs, M!Live)
             v == SizesIn(b, DOMAIN b)
             s == M!Sums(w)
             t == M!Sums(v)
             g == M!Span
             right == {x \in Nat : t[DataOffset + g[x]] = s[x]}
  <2>1. w \in Weights /\ v \in Weights
    BY <1>1, <1>3, <1>8, SizesTyped
  <2>2. \A o \in M!Live : w[o] = allocs[o].size /\ v[new(o)] = allocs[o].size
    <3>1. \A o \in M!Live : o \in M!Offsets
      BY <1>1, <1>3 DEF M!Offsets
    <3> QED
      BY <1>5, <1>7, <3>1 DEF SizesIn
  <2>3. (\A z \in M!Offsets : z \notin M!Live => w[z] = 0) /\ (\A z \in M!Offsets : z \notin DOMAIN b => v[z] = 0)
    BY DEF SizesIn
  <2>4. /\ g \in [0 .. n -> Nat] /\ g[0] = 0
        /\ \A x \in 1 .. n : g[x] = g[x - 1] + IF x - 1 \in M!Live THEN room(x - 1) ELSE 0
        /\ \A x \in 0 .. n, y \in 0 .. n : x <= y => g[x] <= g[y]
    BY <1>1, SpanIs DEF room
  <2>5. (\A o : new(o) = DataOffset + g[o]) /\ end = DataOffset + g[n]
    BY DEF M!NewOffset, M!NewWritePos, new, end
  <2> HIDE DEF w, v, g
  <2>6. /\ s \in [0 .. n -> Nat] /\ s[0] = 0
        /\ \A x \in 1 .. n : x - 1 \in M!Offsets /\ s[x] = s[x - 1] + w[x - 1]
        /\ t \in [0 .. n -> Nat] /\ t[0] = 0
        /\ \A x \in 1 .. n : t[x] = t[x - 1] + v[x - 1]
    BY <2>1, SumsIs
  <2>7. \A x \in 0 .. n, y \in 0 .. n :
          x <= y /\ (\A z \in M!Offsets : x <= z /\ z < y => v[z] = 0) => t[x] = t[y]
    BY <2>1, SumsGrow
  <2> HIDE DEF s, t
  <2>8. 0 \in right
    <3>1. \A z \in M!Offsets : 0 <= z /\ z < DataOffset => v[z] = 0
      <4>1. ASSUME NEW z \in M!Offsets, z < DataOffset, z \in DOMAIN b PROVE FALSE
        <5>1. PICK o \in M!Live : z = new(o)
          BY <1>6, <4>1
        <5> QED
          BY <1>1, <1>3, <4>1, <5>1
      <4> QED
        BY <2>3, <4>1
    <3>2. DataOffset \in 0 .. n /\ 0 \in 0 .. n /\ 0 <= DataOffset
      BY <1>1
    <3>3. t[0] = t[DataOffset]
      BY <2>7, <3>1, <3>2
    <3> QED
      BY <1>1, <2>4, <2>6, <3>3
  <2>9. ASSUME NEW x \in 1 .. n, x - 1 \in right PROVE x \in right
    <3>1. /\ x \in Nat /\ x - 1 \in 0 .. n /\ x - 1 \in M!Offsets /\ g[x - 1] \in Nat /\ s[x - 1] \in Nat
          /\ t[DataOffset + g[x - 1]] = s[x - 1] /\ s[x] = s[x - 1] + w[x - 1]
      <4>1. x \in Nat /\ x - 1 \in 0 .. n
        BY <1>1
      <4>2. x - 1 \in M!Offsets /\ g[x - 1] \in Nat /\ s[x - 1] \in Nat /\ s[x] = s[x - 1] + w[x - 1]
        BY <2>4, <2>6, <4>1
      <4>3. t[DataOffset + g[x - 1]] = s[x - 1]
        BY <2>9
      <4> QED
        BY <4>1, <4>2, <4>3
    <3>2. CASE x - 1 \notin M!Live
      <4>1. g[x] = g[x - 1] /\ w[x - 1] = 0
        BY <2>3, <2>4, <3>1, <3>2
      <4> QED
        BY <3>1, <4>1
    <3>3. CASE x - 1 \in M!Live
      <4> DEFINE o == x - 1
                 u == new(o)
      <4>1. /\ u \in Nat /\ room(o) \in Nat /\ room(o) > 0 /\ u + room(o) <= end /\ u = DataOffset + g[o]
            /\ g[x] = g[o] + room(o) /\ w[o] = v[u]
        BY <1>3, <2>2, <2>4, <2>5, <3>1, <3>3
      <4>2. DataOffset + g[x] = u + room(o)
        BY <1>1, <3>1, <4>1
      <4>3. u + 1 \in 1 .. n /\ u + 1 \in 0 .. n /\ u + room(o) \in 0 .. n /\ (u + 1) - 1 = u /\ u + 1 <= u + room(o)
        BY <1>1, <1>4, <4>1
      <4>4. t[u + 1] = t[u] + v[u]
        BY <2>6, <4>3
      <4>5. \A z \in M!Offsets : u + 1 <= z /\ z < u + room(o) => v[z] = 0
        <5>1. ASSUME NEW z \in M!Offsets, u + 1 <= z, z < u + room(o), z \in DOMAIN b PROVE FALSE
          <6>1. PICK p \in M!Live : z = new(p)
            BY <1>6, <5>1
          <6>2. new(o) < new(p)
            BY <1>3, <4>1, <5>1, <6>1
          <6>3. o < p
            BY <1>9, <3>3, <6>2
          <6>4. new(o) + room(o) <= new(p)
            BY <1>3, <3>3, <6>3
          <6> QED
            BY <1>3, <4>1, <5>1, <6>1, <6>4
        <5> QED
          BY <2>3, <5>1
      <4>6. t[u + 1] = t[u + room(o)]
        BY <2>7, <4>3, <4>5
      <4> QED
        BY <3>1, <4>1, <4>2, <4>4, <4>6
    <3> QED
      BY <3>2, <3>3
  <2>10. n \in right
    <3>1. \A x \in 0 .. n : x \in right
      <4> HIDE DEF right, n
      <4> QED
        BY <1>1, <2>8, <2>9, Counting
    <3> HIDE DEF right
    <3> QED
      BY <1>1, <3>1
  <2>11. t[end] = t[n]
    <3>1. \A z \in M!Offsets : end <= z /\ z < n => v[z] = 0
      <4>1. ASSUME NEW z \in M!Offsets, end <= z, z \in DOMAIN b PROVE FALSE
        <5>1. PICK o \in M!Live : z = new(o)
          BY <1>6, <4>1
        <5> QED
          BY <1>3, <1>4, <1>7, <4>1, <5>1
      <4> QED
        BY <2>3, <4>1
    <3>2. end \in 0 .. n /\ n \in 0 .. n /\ end <= n
      BY <1>1, <1>4
    <3> QED
      BY <2>7, <3>1, <3>2
  <2> QED
    BY <2>5, <2>10, <2>11 DEF Total, s, t, w, v
<1> QED
  BY <1>8, <1>10, <1>11, <1>12 DEF end
\* Compact keeps the invariant, and the bytes that are not overrun.
LEMMA CompactComp ==
  ASSUME CompInv, M!Compact
  PROVE  CompInv' /\ \A o \in M!Live : ~M!Overrun(o) => M!Kept(o)
<1> DEFINE b == allocs'
           new(o) == M!NewOffset(o)
           old(n) == CHOOSE o \in M!Live : new(o) = n
<1>1. /\ Table(allocs) /\ Apart(allocs, top) /\ buffer \in Memory /\ generation \in Nat \ {0}
      /\ top \in Nat /\ top >= DataOffset /\ top <= BufferLength
  BY CompIs DEF CompInv, M!TypeOK
<1>2. /\ buffer' = M!Moves[BufferLength] /\ generation' = generation + 1
      /\ b = [n \in {new(o) : o \in M!Live} |-> [allocs[old(n)] EXCEPT !.generation = generation + 1]]
      /\ total' = M!SizeOf(M!Live) /\ dead' = 0 /\ top' = M!NewWritePos
  BY DEF M!Compact
<1>3. Planned
  BY <1>1, PlanIs
<1>4. \A o \in M!Live : o \in DOMAIN allocs /\ o \in Nat /\ allocs[o] \in M!Entry /\ allocs[o].live /\ new(o) \in Nat
  <2>1. \A o \in M!Live : o \in DOMAIN allocs /\ allocs[o].live
    BY DEF M!Live
  <2> QED
    BY <1>1, <1>3, <2>1, EntryIs DEF Planned
<1>5. ASSUME NEW o \in M!Live PROVE old(new(o)) = o
  <2>1. old(new(o)) \in M!Live /\ new(old(new(o))) = new(o)
    OBVIOUS
  <2>2. ASSUME NEW p \in M!Live, NEW q \in M!Live, p < q PROVE new(p) # new(q)
    <3>1. new(p) + Room(allocs, p) <= new(q)
      BY <1>3, <2>2 DEF Planned
    <3>2. Room(allocs, p) \in Nat /\ Room(allocs, p) > 0
      <4>1. Room(allocs, p) \in Nat /\ Room(allocs, p) >= allocs[p].size /\ allocs[p].size \in Nat /\ allocs[p].size > 0
        BY <1>1, <1>4, EntryIs
      <4> QED
        BY <4>1
    <3> QED
      BY <1>4, <3>1, <3>2
  <2> HIDE DEF old, new
  <2> QED
    BY <1>4, <2>1, <2>2
<1>6. Rebuilt(b)
  <2>1. DOMAIN b = {new(o) : o \in M!Live} /\ b = [n \in DOMAIN b |-> b[n]]
    BY <1>2
  <2>2. ASSUME NEW o \in M!Live PROVE b[new(o)] \in M!Entry /\ b[new(o)].size = allocs[o].size /\ b[new(o)].live
    <3>1. b[new(o)] = [allocs[o] EXCEPT !.generation = generation + 1]
      <4>1. new(o) \in {new(p) : p \in M!Live}
        OBVIOUS
      <4>2. b[new(o)] = [allocs[old(new(o))] EXCEPT !.generation = generation + 1]
        <5> HIDE DEF old, new
        <5> QED
          BY <1>2, <4>1
      <4> QED
        BY <1>5, <4>2
    <3> HIDE DEF new, b
    <3> QED
      BY <1>1, <1>4, <3>1 DEF M!Entry
  <2> QED
    BY <2>1, <2>2 DEF Rebuilt
<1> HIDE DEF b, new, old
<1>7. /\ Table(b) /\ Apart(b, M!NewWritePos) /\ LiveIn(b) = DOMAIN b
      /\ Total(b, DOMAIN b) = Total(allocs, M!Live)
  BY <1>6, RebuiltIs
<1>8. Totals(b, total', dead')
  <2>1. DOMAIN b \ LiveIn(b) = {}
    BY <1>7
  <2>2. total' = Total(allocs, M!Live)
    BY <1>2, TotalsAre
  <2> QED
    BY <1>2, <1>7, <2>1, <2>2, NoneIsNothing DEF Totals
<1>9. total' \in Nat
  <2>1. SizesIn(allocs, M!Live) \in Weights
    BY <1>1, <1>4, SizesTyped
  <2>2. Total(allocs, M!Live) \in Nat
    <3>1. BufferLength \in 0 .. BufferLength
      BY Bounds
    <3> QED
      BY <2>1, <3>1, SumsIs DEF Total
  <2> QED
    BY <1>2, <2>2, TotalsAre
<1>10. M!Moves \in [0 .. BufferLength -> Memory]
  BY <1>1, <1>3, MovesIs
<1>11. buffer' \in Memory
  <2>1. BufferLength \in 0 .. BufferLength
    BY Bounds
  <2> QED
    BY <1>2, <1>10, <2>1
<1>12. top' \in DataOffset .. BufferLength /\ top' % 8 = 0 /\ generation' \in Nat \ {0} /\ dead' \in Nat
  BY <1>1, <1>2, <1>3, Bounds DEF Planned
<1>13. CompInv'
  BY <1>2, <1>7, <1>8, <1>9, <1>11, <1>12, CompIsAgain DEF b
<1>14. ASSUME NEW o \in M!Live, ~M!Overrun(o) PROVE M!Kept(o)
  <2>1. M!NewOffset(o) \in DOMAIN allocs' /\ allocs'[M!NewOffset(o)].size = allocs[o].size
    BY <1>6 DEF Rebuilt, b
  <2>2. \A i \in 0 .. allocs[o].size - 1 : buffer'[M!NewOffset(o) + i] = buffer[o + i]
    BY <1>1, <1>2, <1>3, <1>14, BytesMoved
  <2> QED
    BY <2>1, <2>2 DEF M!Kept
<1> QED
  BY <1>13, <1>14

LEMMA CompStep ==
  ASSUME CompInv, [StorageNext]_storage
  PROVE  /\ CompInv'
         /\ generation' # generation => \A o \in M!Live : ~M!Overrun(o) => M!Kept(o)
<1>1. M!Next \/ UNCHANGED compaction
  BY DEF StorageNext, storage, compaction
<1>2. CASE UNCHANGED compaction
  BY <1>2 DEF compaction, CompInv, M!TypeOK, M!AllocationsApart, M!TotalsAgree, M!SizeOf, M!Live
<1>3. CASE M!Compact
  BY <1>3, CompactComp
<1>4. CASE \E size \in AllocSizes, byte \in Bytes : M!Allocate(size, byte)
  BY <1>4, AllocateComp DEF M!Allocate
<1>5. CASE \E o \in DOMAIN allocs : M!MarkDead(o)
  BY <1>5, MarkDeadComp DEF M!MarkDead
<1> QED
  BY <1>1, <1>2, <1>3, <1>4, <1>5 DEF M!Next

(* Compaction.  For every arena, all sizes and any sequence of allocations, *)
(* deaths and compactions: what is tracked is aligned and apart, the totals *)
(* by which should_compact judges are those of the table, and a live        *)
(* allocation has in its new place the bytes it had, unless a later one was *)
(* moved over it before its turn came.                                      *)
THEOREM CompactionAlwaysKeeps == StorageSpec => CompactionKeeps
<1>1. StorageInit => CompInv
  BY CompStarts DEF StorageInit
<1>2. CompInv /\ [StorageNext]_storage => CompInv'
  BY CompStep
<1>3. CompInv /\ [StorageNext]_storage =>
        [generation' # generation => \A o \in M!Live : ~M!Overrun(o) => M!Kept(o)]_(M!vars)
  BY CompStep
<1>4. CompInv => (part = "compaction" => M!TrackerRight)
  BY DEF CompInv, M!TrackerRight
<1> QED
  BY <1>1, <1>2, <1>3, <1>4, PTL DEF StorageSpec, CompactionKeeps, M!BytesKept

-----------------------------------------------------------------------------
(* The graph of migrations: the vector, the table and the edges agree.      *)
Edges == [to : Hashes, index : Nat]
Vector == Seq([from : Hashes, to : Hashes])
TableRight ==
  /\ s1 \in Vector
  /\ DOMAIN s2 \subseteq Hashes \X Hashes
  /\ \A k \in DOMAIN s2 : s2[k] \in 1 .. Len(s1) /\ s1[s2[k]] = [from |-> k[1], to |-> k[2]]
EdgesRight ==
  /\ s3 \in [Hashes -> Seq(Edges)]
  /\ \A h \in Hashes : \A n \in 1 .. Len(s3[h]) :
       <<h, s3[h][n].to>> \in DOMAIN s2 /\ s3[h][n].index = s2[<<h, s3[h][n].to>>]
  /\ \A h, g \in Hashes : <<h, g>> \in DOMAIN s2 => \E n \in 1 .. Len(s3[h]) : s3[h][n].to = g
GraphRight == TableRight /\ EdgesRight

LEMMA HashesFinite ==
  /\ IsFiniteSet(Hashes) /\ Cardinality(Hashes) \in Nat /\ E!Cardinality(Hashes) = Cardinality(Hashes)
  /\ Keys \subseteq Hashes \X Hashes
<1>1. IsFiniteSet(Hashes) /\ Keys \subseteq Hashes \X Hashes
  BY StorageAssumption DEF E!MigrationsConstants, E!IsFiniteSet, IsFiniteSet
<1>2. E!Cardinality(Hashes) = Cardinality(Hashes)
  BY Zenon DEF E!Cardinality, Cardinality
<1> QED
  BY <1>1, <1>2, FS_CardinalityType

\* What is retained.
Retains(v, s, to, m) ==
  /\ v \in Seq(Edges)
  /\ \A e : (\E n \in 1 .. Len(v) : v[n] = e) <=> (e.to # to /\ \E n \in 1 .. m : s[n] = e)

LEMMA RetainedIs == ASSUME NEW s \in Seq(Edges), NEW to PROVE Retains(E!Retained(s, to), s, to, Len(s))
<1> DEFINE N == Len(s)
           V == Seq(Edges)
           base == <<>>
           Next1(v, n) == IF s[n].to = to THEN v ELSE Append(v, s[n])
           Goes(f) == f = [n \in 0 .. N |-> IF n = 0 THEN <<>> ELSE IF s[n].to = to THEN f[n - 1] ELSE Append(f[n - 1], s[n])]
           step == [n \in 1 .. N |-> [v \in V |-> Next1(v, n)]]
<1>1. N \in Nat /\ \A n \in 1 .. N : s[n] \in Edges
  OBVIOUS
<1>2. step \in [1 .. N -> [V -> V]] /\ base \in V
  <2>1. ASSUME NEW n \in 1 .. N, NEW v \in V PROVE Next1(v, n) \in V
    BY <1>1
  <2> QED
    BY <2>1
<1>3. PICK f : GoesOn(f, N, V, base, step)
  <2> HIDE DEF step, N, V, base
  <2> QED
    BY <1>1, <1>2, Recurs
<1>4. f \in [0 .. N -> V] /\ f[0] = <<>> /\ \A n \in 1 .. N : f[n] = Next1(f[n - 1], n)
  <2>1. f \in [0 .. N -> V] /\ f[0] = base /\ \A n \in 1 .. N : f[n] = step[n][f[n - 1]]
    BY <1>3 DEF GoesOn
  <2>2. ASSUME NEW n \in 1 .. N PROVE f[n] = Next1(f[n - 1], n)
    <3>1. n - 1 \in 0 .. N
      BY <1>1
    <3>2. f[n - 1] \in V
      BY <2>1, <3>1
    <3>3. step[n][f[n - 1]] = Next1(f[n - 1], n)
      BY <3>2
    <3> QED
      BY <2>1, <3>3
  <2> QED
    BY <2>1, <2>2
<1>5. Goes(f)
  <2> HIDE DEF V
  <2>1. ASSUME NEW n \in 0 .. N
        PROVE  f[n] = IF n = 0 THEN <<>> ELSE IF s[n].to = to THEN f[n - 1] ELSE Append(f[n - 1], s[n])
    <3>1. CASE n = 0
      BY <1>4, <3>1
    <3>2. CASE n # 0
      <4>1. n \in 1 .. N
        BY <1>1, <3>2
      <4>2. f[n] = IF s[n].to = to THEN f[n - 1] ELSE Append(f[n - 1], s[n])
        BY <1>4, <4>1, Zenon
      <4> QED
        BY <3>2, <4>2, Zenon
    <3> QED
      BY <3>1, <3>2
  <2>2. f = [n \in 0 .. N |-> f[n]]
    BY <1>4
  <2> HIDE DEF N
  <2> QED
    BY <2>1, <2>2
<1> DEFINE left == CHOOSE h : Goes(h)
<1>6. Goes(left)
  <2> HIDE DEF Goes
  <2> QED
    BY <1>5
<1>7. E!Retained(s, to) = left[N]
  BY DEF E!Retained
<1> HIDE DEF left
<1>8. left[0] = <<>> /\ \A n \in 1 .. N : left[n] = Next1(left[n - 1], n)
  <2>1. \A n \in 0 .. N : left[n] = IF n = 0 THEN <<>> ELSE IF s[n].to = to THEN left[n - 1] ELSE Append(left[n - 1], s[n])
    BY <1>1, <1>6
  <2> QED
    BY <1>1, <2>1
<1> DEFINE Right(v, m) == Retains(v, s, to, m)
           right == {m \in 0 .. N : Right(left[m], m)}
<1>p. \A m : m \in right <=> m \in 0 .. N /\ Right(left[m], m)
  <2> HIDE DEF Right
  <2> QED
    OBVIOUS
<1> HIDE DEF right
<1>9. 0 \in right
  <2>1. 1 .. 0 = {} /\ Len(<<>>) = 0 /\ <<>> \in Seq(Edges)
    OBVIOUS
  <2>2. Right(<<>>, 0)
    BY <2>1 DEF Retains
  <2> QED
    <3> HIDE DEF Right
    <3> QED
      BY <1>1, <1>8, <1>p, <2>2
<1>10. ASSUME NEW m \in 1 .. N, m - 1 \in right PROVE m \in right
  <2>1. Right(left[m - 1], m - 1) /\ m \in 0 .. N
    <3> HIDE DEF Right
    <3> QED
      BY <1>1, <1>10, <1>p
  <2>2. left[m] = Next1(left[m - 1], m)
    BY <1>8
  <2> DEFINE v == left[m - 1]
             w == left[m]
  <2>3. \A n : n \in 1 .. m <=> n \in 1 .. m - 1 \/ n = m
    BY <1>1
  <2>4. CASE s[m].to = to
    <3>1. w = v
      BY <2>2, <2>4
    <3>2. ASSUME NEW e PROVE (e.to # to /\ \E n \in 1 .. m : s[n] = e) <=> (e.to # to /\ \E n \in 1 .. m - 1 : s[n] = e)
      BY <2>3, <2>4
    <3> HIDE DEF v, w
    <3>3. Right(w, m)
      BY <2>1, <3>1, <3>2 DEF v, Retains
    <3> HIDE DEF Right
    <3> QED
      BY <1>p, <2>1, <3>3 DEF w
  <2>5. CASE s[m].to # to
    <3>1. w = Append(v, s[m]) /\ v \in Seq(Edges) /\ s[m] \in Edges
      BY <1>1, <2>1, <2>2, <2>5 DEF Retains
    <3> HIDE DEF v, w
    <3>2. w \in Seq(Edges) /\ Len(v) \in Nat /\ Len(w) = Len(v) + 1 /\ w[Len(v) + 1] = s[m] /\ \A n \in 1 .. Len(v) : w[n] = v[n]
      BY <3>1
    <3>3. ASSUME NEW e PROVE (\E n \in 1 .. Len(w) : w[n] = e) <=> (\E n \in 1 .. Len(v) : v[n] = e) \/ e = s[m]
      <4>1. \A n : n \in 1 .. Len(w) <=> n \in 1 .. Len(v) \/ n = Len(v) + 1
        BY <3>2
      <4> QED
        BY <3>2, <4>1
    <3>4. ASSUME NEW e
          PROVE  (e.to # to /\ \E n \in 1 .. m : s[n] = e) <=> (e.to # to /\ \E n \in 1 .. m - 1 : s[n] = e) \/ e = s[m]
      BY <2>3, <2>5
    <3>5. Right(w, m)
      BY <2>1, <3>2, <3>3, <3>4 DEF v, Retains
    <3> HIDE DEF Right
    <3> QED
      BY <1>p, <2>1, <3>5 DEF w
  <2> QED
    BY <2>4, <2>5
<1>11. N \in right
  <2>1. \A m \in 0 .. N : m \in right
    <3> HIDE DEF N
    <3> QED
      BY <1>1, <1>9, <1>10, Counting
  <2> QED
    BY <1>1, <2>1
<1>12. Right(left[N], N)
  <2> HIDE DEF Right
  <2> QED
    BY <1>11, <1>p
<1> QED
  BY <1>7, <1>12, Zenon

LEMMA GraphSame == ASSUME GraphRight, UNCHANGED <<s1, s2, s3>> PROVE GraphRight'
BY DEF GraphRight, TableRight, EdgesRight

LEMMA RegisterGraph ==
  ASSUME GraphRight, NEW u \in Clients, s4[u].key \in Keys, E!Register(u)
  PROVE  GraphRight'
<1> DEFINE key == s4[u].key
           a == key[1]
           b == key[2]
           new == [from |-> a, to |-> b]
           D == DOMAIN s2
<1>1. a \in Hashes /\ b \in Hashes /\ key = <<a, b>> /\ new \in [from : Hashes, to : Hashes]
  BY HashesFinite
<1>2. /\ s1 \in Vector /\ Len(s1) \in Nat /\ D \subseteq Hashes \X Hashes
      /\ s3 \in [Hashes -> Seq(Edges)]
  BY DEF GraphRight, TableRight, EdgesRight, Vector
<1>3. CASE key \in D /\ s1' = [s1 EXCEPT ![s2[key]] = new] /\ s2' = s2 /\ s3' = s3
  <2>1. s2[key] \in 1 .. Len(s1)
    BY <1>3 DEF GraphRight, TableRight, EdgesRight
  <2>2. /\ s1' \in Vector /\ Len(s1') = Len(s1) /\ s1'[s2[key]] = new
        /\ \A n \in 1 .. Len(s1) : n # s2[key] => s1'[n] = s1[n]
    <3> HIDE DEF new, key
    <3> QED
      BY <1>1, <1>2, <1>3, <2>1 DEF Vector
  <2>3. ASSUME NEW k \in D PROVE s2[k] \in 1 .. Len(s1') /\ s1'[s2[k]] = [from |-> k[1], to |-> k[2]]
    <3>1. s2[k] \in 1 .. Len(s1) /\ s1[s2[k]] = [from |-> k[1], to |-> k[2]] /\ k = <<k[1], k[2]>>
      BY <1>2 DEF GraphRight, TableRight, EdgesRight
    <3>2. CASE s2[k] = s2[key]
      <4>1. s1[s2[key]] = new
        BY <1>3 DEF GraphRight, TableRight, EdgesRight
      <4> QED
        BY <2>2, <3>1, <3>2, <4>1
    <3>3. CASE s2[k] # s2[key]
      BY <2>2, <3>1, <3>3
    <3> QED
      BY <3>2, <3>3
  <2>4. TableRight'
    BY <1>2, <1>3, <2>2, <2>3 DEF TableRight
  <2>5. EdgesRight'
    BY <1>3 DEF GraphRight, EdgesRight
  <2> QED
    BY <2>4, <2>5 DEF GraphRight
<1>4. CASE /\ key \notin D /\ s1' = Append(s1, new) /\ s2' = E!With(s2, key, Len(s1) + 1)
           /\ s3' = [s3 EXCEPT ![a] = Append(@, [to |-> b, index |-> Len(s1) + 1])]
  <2> DEFINE m == Len(s1) + 1
             e == [to |-> b, index |-> m]
             old == s3[a]
  <2>1. s1' \in Vector /\ Len(s1') = m /\ s1'[m] = new /\ \A n \in 1 .. Len(s1) : s1'[n] = s1[n]
    <3> HIDE DEF new
    <3> QED
      BY <1>1, <1>2, <1>4 DEF Vector
  <2>2. DOMAIN s2' = D \cup {key} /\ s2'[key] = m /\ \A k \in D : s2'[k] = s2[k]
    BY <1>4 DEF E!With
  <2>3. old \in Seq(Edges) /\ Len(old) \in Nat /\ e \in Edges /\ e.to = b /\ e.index = m
    <3> HIDE DEF a, b, key
    <3>1. old \in Seq(Edges)
      BY <1>1, <1>2
    <3>2. m \in Nat
      BY <1>2
    <3>3. e \in Edges /\ e.to = b /\ e.index = m
      <4> HIDE DEF m
      <4> QED
        BY <1>1, <3>2 DEF Edges
    <3> QED
      BY <3>1, <3>3
  <2>4. /\ s3' \in [Hashes -> Seq(Edges)] /\ Len(s3'[a]) = Len(old) + 1 /\ s3'[a][Len(old) + 1] = e
        /\ (\A n \in 1 .. Len(old) : s3'[a][n] = old[n]) /\ \A h \in Hashes : h # a => s3'[h] = s3[h]
    <3>1. Append(old, e) \in Seq(Edges) /\ Len(Append(old, e)) = Len(old) + 1 /\ Append(old, e)[Len(old) + 1] = e
          /\ \A n \in 1 .. Len(old) : Append(old, e)[n] = old[n]
      <4> HIDE DEF old, e
      <4> QED
        BY <2>3
    <3>2. s3' = [s3 EXCEPT ![a] = Append(old, e)]
      BY <1>4
    <3> HIDE DEF old, e, a, key
    <3> QED
      BY <1>1, <1>2, <3>1, <3>2
  <2> HIDE DEF old, e
  <2>5. ASSUME NEW k \in DOMAIN s2' PROVE s2'[k] \in 1 .. Len(s1') /\ s1'[s2'[k]] = [from |-> k[1], to |-> k[2]]
    <3>1. CASE k = key
      BY <1>1, <1>2, <2>1, <2>2, <3>1
    <3>2. CASE k # key
      <4>1. k \in D /\ s2'[k] = s2[k] /\ s2[k] \in 1 .. Len(s1) /\ s1[s2[k]] = [from |-> k[1], to |-> k[2]]
        BY <2>2, <3>2 DEF GraphRight, TableRight, EdgesRight
      <4>2. s2[k] \in 1 .. Len(s1) + 1
        BY <1>2, <4>1
      <4> HIDE DEF new, key
      <4> QED
        BY <2>1, <4>1, <4>2
    <3> QED
      BY <3>1, <3>2
  <2>6. ASSUME NEW h \in Hashes, NEW n \in 1 .. Len(s3'[h])
        PROVE  <<h, s3'[h][n].to>> \in DOMAIN s2' /\ s3'[h][n].index = s2'[<<h, s3'[h][n].to>>]
    <3>1. ASSUME NEW j \in 1 .. Len(s3[h]), s3'[h][n] = s3[h][j]
          PROVE  <<h, s3'[h][n].to>> \in DOMAIN s2' /\ s3'[h][n].index = s2'[<<h, s3'[h][n].to>>]
      <4>1. <<h, s3[h][j].to>> \in D /\ s3[h][j].index = s2[<<h, s3[h][j].to>>]
        BY DEF GraphRight, TableRight, EdgesRight
      <4> QED
        BY <2>2, <3>1, <4>1
    <3>2. CASE h # a
      BY <2>4, <3>1, <3>2
    <3>3. CASE h = a /\ n # Len(old) + 1
      <4>1. n \in 1 .. Len(old)
        BY <2>3, <2>4, <3>3
      <4> QED
        BY <2>4, <3>1, <3>3, <4>1 DEF old
    <3>4. CASE h = a /\ n = Len(old) + 1
      BY <1>1, <2>2, <2>3, <2>4, <3>4
    <3> QED
      BY <3>2, <3>3, <3>4
  <2>7. ASSUME NEW h \in Hashes, NEW g \in Hashes, <<h, g>> \in DOMAIN s2' PROVE \E n \in 1 .. Len(s3'[h]) : s3'[h][n].to = g
    <3>1. CASE <<h, g>> = key
      <4>1. h = a /\ g = b
        BY <1>1, <3>1
      <4>2. Len(old) + 1 \in 1 .. Len(s3'[a])
        BY <2>3, <2>4
      <4> QED
        BY <2>3, <2>4, <4>1, <4>2
    <3>2. CASE <<h, g>> # key
      <4>1. PICK n \in 1 .. Len(s3[h]) : s3[h][n].to = g
        BY <2>2, <2>7, <3>2 DEF GraphRight, TableRight, EdgesRight
      <4>2. CASE h # a
        BY <2>4, <4>1, <4>2
      <4>3. CASE h = a
        <5>1. n \in 1 .. Len(old) /\ n \in 1 .. Len(s3'[a]) /\ old[n].to = g
          BY <2>3, <2>4, <4>1, <4>3 DEF old
        <5> QED
          BY <2>4, <4>3, <5>1
      <4> QED
        BY <4>2, <4>3
    <3> QED
      BY <3>1, <3>2
  <2>8. DOMAIN s2' \subseteq Hashes \X Hashes
    <3> HIDE DEF a, b, key
    <3> QED
      BY <1>1, <1>2, <2>2
  <2>9. TableRight'
    BY <2>1, <2>5, <2>8 DEF TableRight
  <2>10. EdgesRight'
    BY <2>4, <2>6, <2>7 DEF EdgesRight
  <2> QED
    BY <2>9, <2>10 DEF GraphRight
<1> QED
  BY <1>3, <1>4 DEF E!Register

LEMMA UnregisterGraph ==
  ASSUME GraphRight, NEW u \in Clients, s4[u].key \in Keys, E!Unregister(u)
  PROVE  GraphRight'
<1> DEFINE key == s4[u].key
           a == key[1]
           b == key[2]
           D == DOMAIN s2
           new == E!Retained(s3[a], b)
<1>1. a \in Hashes /\ b \in Hashes /\ key = <<a, b>>
  BY HashesFinite
<1>2. /\ s1' = s1 /\ s2' = [k \in D \ {key} |-> s2[k]]
      /\ s3' = IF key \in D THEN [s3 EXCEPT ![a] = new] ELSE s3
  BY DEF E!Unregister
<1>3. DOMAIN s2' = D \ {key} /\ \A k \in D \ {key} : s2'[k] = s2[k]
  BY <1>2
<1>4. D \subseteq Hashes \X Hashes /\ s3 \in [Hashes -> Seq(Edges)]
  BY DEF GraphRight, TableRight, EdgesRight
<1>5. /\ new \in Seq(Edges)
      /\ \A e : (\E n \in 1 .. Len(new) : new[n] = e) <=> (e.to # b /\ \E n \in 1 .. Len(s3[a]) : s3[a][n] = e)
  <2>1. s3[a] \in Seq(Edges)
    BY <1>1, <1>4
  <2>2. Retains(new, s3[a], b, Len(s3[a]))
    BY <2>1, RetainedIs
  <2> QED
    BY <2>2, Zenon DEF Retains
<1> HIDE DEF new
<1>6. /\ s3' \in [Hashes -> Seq(Edges)]
      /\ \A h \in Hashes : \A n \in 1 .. Len(s3'[h]) :
           <<h, s3'[h][n].to>> # key /\ \E j \in 1 .. Len(s3[h]) : s3[h][j] = s3'[h][n]
      /\ \A h \in Hashes : \A j \in 1 .. Len(s3[h]) : <<h, s3[h][j].to>> # key => \E n \in 1 .. Len(s3'[h]) : s3'[h][n] = s3[h][j]
  <2>1. CASE key \in D
    <3>1. s3' \in [Hashes -> Seq(Edges)] /\ s3'[a] = new /\ \A h \in Hashes : h # a => s3'[h] = s3[h]
      BY <1>1, <1>2, <1>4, <1>5, <2>1
    <3>2. ASSUME NEW h \in Hashes, NEW n \in 1 .. Len(s3'[h])
          PROVE  <<h, s3'[h][n].to>> # key /\ \E j \in 1 .. Len(s3[h]) : s3[h][j] = s3'[h][n]
      <4>1. CASE h = a
        <5>1. new[n].to # b /\ \E j \in 1 .. Len(s3[a]) : s3[a][j] = new[n]
          BY <1>5, <3>1, <4>1, Zenon
        <5> QED
          BY <1>1, <3>1, <4>1, <5>1
      <4>2. CASE h # a
        BY <1>1, <3>1, <4>2
      <4> QED
        BY <4>1, <4>2
    <3>3. ASSUME NEW h \in Hashes, NEW j \in 1 .. Len(s3[h]), <<h, s3[h][j].to>> # key
          PROVE  \E n \in 1 .. Len(s3'[h]) : s3'[h][n] = s3[h][j]
      <4>1. CASE h = a
        <5>1. s3[a][j].to # b /\ j \in 1 .. Len(s3[a])
          BY <1>1, <3>3, <4>1
        <5>2. \E n \in 1 .. Len(new) : new[n] = s3[a][j]
          BY <1>5, <5>1, Zenon
        <5> QED
          BY <3>1, <4>1, <5>2
      <4>2. CASE h # a
        BY <3>1, <4>2
      <4> QED
        BY <4>1, <4>2
    <3> QED
      BY <3>1, <3>2, <3>3
  <2>2. CASE key \notin D
    BY <1>2, <1>4, <2>2 DEF GraphRight, TableRight, EdgesRight
  <2> QED
    BY <2>1, <2>2
<1>7. ASSUME NEW h \in Hashes, NEW n \in 1 .. Len(s3'[h])
      PROVE  <<h, s3'[h][n].to>> \in DOMAIN s2' /\ s3'[h][n].index = s2'[<<h, s3'[h][n].to>>]
  <2>1. <<h, s3'[h][n].to>> # key
    BY <1>6
  <2>2. PICK j \in 1 .. Len(s3[h]) : s3[h][j] = s3'[h][n]
    BY <1>6
  <2>3. <<h, s3[h][j].to>> \in D /\ s3[h][j].index = s2[<<h, s3[h][j].to>>]
    BY DEF GraphRight, TableRight, EdgesRight
  <2> QED
    BY <1>3, <2>1, <2>2, <2>3
<1>8. ASSUME NEW h \in Hashes, NEW g \in Hashes, <<h, g>> \in DOMAIN s2' PROVE \E n \in 1 .. Len(s3'[h]) : s3'[h][n].to = g
  <2>1. <<h, g>> \in D /\ <<h, g>> # key
    BY <1>3, <1>8
  <2>2. PICK j \in 1 .. Len(s3[h]) : s3[h][j].to = g
    BY <2>1 DEF GraphRight, TableRight, EdgesRight
  <2>3. PICK n \in 1 .. Len(s3'[h]) : s3'[h][n] = s3[h][j]
    BY <1>6, <2>1, <2>2
  <2> QED
    BY <2>2, <2>3
<1>9. TableRight'
  BY <1>2, <1>3, <1>4 DEF GraphRight, TableRight
<1>10. EdgesRight'
  BY <1>6, <1>7, <1>8 DEF EdgesRight
<1> QED
  BY <1>9, <1>10 DEF GraphRight

\* What is inductive about the graph; a call that changes it has a key.
GraphInv == part = "migrations" =>
  GraphRight /\ DOMAIN s4 = Clients /\ \A u \in Clients : s4[u].op \in E!Changes => s4[u].key \in Keys

LEMMA GraphStarts == StorageInit => GraphInv
<1> SUFFICES ASSUME E!Init PROVE GraphRight /\ DOMAIN s4 = Clients /\ \A u \in Clients : s4[u].op \notin E!Changes
  BY DEF StorageInit, GraphInv
<1>1. s1 = <<>> /\ s2 = <<>> /\ s3 = [h \in Hashes |-> <<>>] /\ s4 = [u \in Clients |-> E!NoCall]
  BY DEF E!Init
<1>2. GraphRight
  BY <1>1 DEF GraphRight, TableRight, EdgesRight, Edges, Vector
<1> QED
  BY <1>1, <1>2 DEF E!NoCall, E!Changes

LEMMA GraphStep == GraphInv /\ [StorageNext]_storage => GraphInv'
<1> SUFFICES ASSUME GraphInv, [StorageNext]_storage, part' = "migrations" PROVE GraphInv'
  BY DEF GraphInv
<1> DEFINE Keyed == DOMAIN s4 = Clients /\ \A u \in Clients : s4[u].op \in E!Changes => s4[u].key \in Keys
<1>1. CASE UNCHANGED storage
  <2>1. UNCHANGED <<part, s1, s2, s3, s4>>
    BY <1>1 DEF storage, shared
  <2> QED
    BY <2>1, GraphSame DEF GraphInv
<1>2. CASE StorageNext
  <2>1. part' = part /\ part = "migrations" /\ E!Next
    BY <1>2 DEF StorageNext
  <2>2. GraphRight /\ Keyed
    BY <2>1 DEF GraphInv
  <2> SUFFICES GraphRight' /\ Keyed'
    BY DEF GraphInv
  <2>3. ASSUME NEW u \in Clients, NEW op, NEW key, E!Call(u, op, key), op \in E!Changes => key \in Keys
        PROVE  GraphRight' /\ Keyed'
    <3>1. s4' = [s4 EXCEPT ![u] = [op |-> op, key |-> key, held |-> 0]] /\ UNCHANGED <<s1, s2, s3>>
      BY <2>3 DEF E!Call
    <3> QED
      BY <2>2, <2>3, <3>1, GraphSame
  <2>4. ASSUME NEW u \in Clients, NEW op, E!Through(u, op) PROVE Keyed'
    <3>1. s4' = [s4 EXCEPT ![u] = E!NoCall]
      BY <2>4 DEF E!Through
    <3>2. E!NoCall.op \notin E!Changes
      BY DEF E!NoCall, E!Changes
    <3> QED
      BY <2>2, <3>1, <3>2
  <2>5. ASSUME NEW u \in Clients, E!Lock(u) PROVE GraphRight' /\ Keyed'
    <3>1. s4' = [s4 EXCEPT ![u].held = @ + 1] /\ UNCHANGED <<s1, s2, s3>>
      BY <2>5 DEF E!Lock
    <3>2. \A v \in Clients : s4'[v].op = s4[v].op /\ s4'[v].key = s4[v].key
      BY <2>2, <3>1
    <3> QED
      BY <2>2, <3>1, <3>2, GraphSame
  <2>6. ASSUME NEW u \in Clients, E!Register(u) PROVE GraphRight' /\ Keyed'
    <3>1. E!Through(u, "register") /\ s4[u].key \in Keys
      BY <2>2, <2>6 DEF E!Register, E!Through, E!Changes
    <3> QED
      BY <2>2, <2>4, <2>6, <3>1, RegisterGraph
  <2>7. ASSUME NEW u \in Clients, E!Unregister(u) PROVE GraphRight' /\ Keyed'
    <3>1. E!Through(u, "unregister") /\ s4[u].key \in Keys
      BY <2>2, <2>7 DEF E!Unregister, E!Through, E!Changes
    <3> QED
      BY <2>2, <2>4, <2>7, <3>1, UnregisterGraph
  <2>8. ASSUME NEW u \in Clients, NEW op, E!Look(u, op) PROVE GraphRight' /\ Keyed'
    <3>1. E!Through(u, op) /\ UNCHANGED <<s1, s2, s3>>
      BY <2>8 DEF E!Look
    <3> QED
      BY <2>2, <2>4, <3>1, GraphSame
  <2>9. ASSUME E!Ask PROVE GraphRight' /\ Keyed'
    <3>1. UNCHANGED <<s1, s2, s3, s4>>
      BY <2>9 DEF E!Ask
    <3> QED
      BY <2>2, <3>1, GraphSame
  <2>10. E!Changes \cap E!Lookups = {}
    BY DEF E!Changes, E!Lookups
  <2> QED
    BY <2>1, <2>3, <2>5, <2>6, <2>7, <2>8, <2>9, <2>10 DEF E!Next
<1> QED
  BY <1>1, <1>2

LEMMA EndsAre == ASSUME GraphRight PROVE E!EndsAgree
<1> DEFINE From == UNION {E!MigrationsFrom(h) : h \in Hashes}
           To == UNION {E!MigrationsTo(h) : h \in Hashes}
<1>1. ASSUME NEW i \in From PROVE i \in To
  <2>1. PICK h \in Hashes : i \in E!MigrationsFrom(h)
    OBVIOUS
  <2>2. PICK n \in 1 .. Len(s3[h]) : i = s3[h][n].index
    BY <2>1 DEF E!MigrationsFrom, E!ToSet, GraphRight
  <2> DEFINE k == <<h, s3[h][n].to>>
  <2>3. k \in DOMAIN s2 /\ i = s2[k] /\ k[2] \in Hashes
    BY <2>2 DEF GraphRight, TableRight, EdgesRight
  <2>4. i \in E!MigrationsTo(k[2])
    <3> HIDE DEF k
    <3> QED
      BY <2>3 DEF E!MigrationsTo
  <2> QED
    BY <2>3, <2>4
<1>2. ASSUME NEW i \in To PROVE i \in From
  <2>1. PICK h \in Hashes : i \in E!MigrationsTo(h)
    OBVIOUS
  <2>2. PICK k \in DOMAIN s2 : i = s2[k]
    BY <2>1 DEF E!MigrationsTo
  <2>3. k[1] \in Hashes /\ k[2] \in Hashes /\ k = <<k[1], k[2]>>
    BY DEF GraphRight, TableRight, EdgesRight
  <2>4. PICK n \in 1 .. Len(s3[k[1]]) : s3[k[1]][n].to = k[2]
    BY <2>3 DEF GraphRight, TableRight, EdgesRight
  <2>5. s3[k[1]][n].index = i
    BY <2>2, <2>3, <2>4 DEF GraphRight, TableRight, EdgesRight
  <2>6. s3[k[1]][n] \in E!ToSet(s3[k[1]])
    BY <2>3 DEF E!ToSet, GraphRight
  <2>7. i \in E!MigrationsFrom(k[1])
    BY <2>5, <2>6 DEF E!MigrationsFrom
  <2> QED
    BY <2>3, <2>7
<1> QED
  BY <1>1, <1>2 DEF E!EndsAgree

-----------------------------------------------------------------------------
(* The search.  A ghost d has the distance of what is visited from the      *)
(* start; P has been taken from the queue, R has been scanned.  Parents are *)
(* one step nearer, the queue is ordered by distance and spans two of them, *)
(* and what is scanned leads only to what is visited.                       *)
Visits == UNION {[X -> Hashes \X Nat] : X \in SUBSET Hashes}
SearchStates == [queue : Seq(Hashes), visited : Visits, found : {<<>>} \cup (Hashes \X Nat)]
Queued(s) == {s.queue[i] : i \in 1 .. Len(s.queue)}
Tree(s, d, from, to) ==
  /\ DOMAIN s.visited \subseteq Hashes /\ from \in DOMAIN s.visited /\ to \notin DOMAIN s.visited
  /\ d \in [DOMAIN s.visited -> Nat] /\ d[from] = 0
  /\ \A h \in DOMAIN s.visited \ {from} :
       /\ s.visited[h][1] \in DOMAIN s.visited /\ d[h] = d[s.visited[h][1]] + 1
       /\ <<s.visited[h][1], h>> \in DOMAIN s2 /\ s.visited[h][2] = s2[<<s.visited[h][1], h>>]
Line(s, d, P, b) ==
  /\ s.queue \in Seq(Hashes) /\ DOMAIN s.visited = P \cup Queued(s) /\ b \in Nat
  /\ \A i \in 1 .. Len(s.queue) : s.queue[i] \notin P /\ b <= d[s.queue[i]] /\ d[s.queue[i]] <= b + 1
  /\ \A i, j \in 1 .. Len(s.queue) : i < j => s.queue[i] # s.queue[j] /\ d[s.queue[i]] <= d[s.queue[j]]
  /\ \A g \in P : d[g] <= b
Closed(s, d, R) ==
  \A g \in R : \A h \in Hashes : <<g, h>> \in DOMAIN s2 => h \in DOMAIN s.visited /\ d[h] <= d[g] + 1
Searching(s, d, P, R, b, from, to) == Tree(s, d, from, to) /\ Line(s, d, P, b) /\ Closed(s, d, R)

Scanned(s, d, c, n) == \A j \in 1 .. n : s3[c][j].to \in DOMAIN s.visited /\ d[s3[c][j].to] <= d[c] + 1
InScan(s, c, n, P, from, to) ==
  s.found = <<>> /\ c \in P /\ \E d : Searching(s, d, P, P \ {c}, d[c], from, to) /\ Scanned(s, d, c, n)
HasFound(s, from, to) ==
  \E d, P, c : /\ c \in P /\ <<c, to>> \in DOMAIN s2 /\ s.found = <<c, s2[<<c, to>>]>>
               /\ Searching(s, d, P, P \ {c}, d[c], from, to)

LEMMA VisitTyped ==
  ASSUME NEW s \in SearchStates, NEW e \in Edges, NEW c \in Hashes, NEW to
  PROVE  E!Visit(s, e, c, to) \in SearchStates
<1>1. s.queue \in Seq(Hashes) /\ s.visited \in Visits /\ e.to \in Hashes /\ e.index \in Nat
  BY DEF SearchStates, Edges
<1>2. [queue |-> s.queue, visited |-> s.visited, found |-> <<c, e.index>>] \in SearchStates
  BY <1>1 DEF SearchStates
<1>3. E!With(s.visited, e.to, <<c, e.index>>) \in Visits
  <2>1. PICK X \in SUBSET Hashes : s.visited \in [X -> Hashes \X Nat]
    BY <1>1 DEF Visits
  <2> DEFINE w == E!With(s.visited, e.to, <<c, e.index>>)
  <2>2. w = [x \in X \cup {e.to} |-> IF x = e.to THEN <<c, e.index>> ELSE s.visited[x]]
    BY <2>1 DEF E!With
  <2>3. w \in [X \cup {e.to} -> Hashes \X Nat] /\ X \cup {e.to} \in SUBSET Hashes
    BY <1>1, <2>1, <2>2
  <2> QED
    BY <2>3 DEF Visits
<1>4. [queue |-> Append(s.queue, e.to), visited |-> E!With(s.visited, e.to, <<c, e.index>>), found |-> <<>>] \in SearchStates
  <2>1. Append(s.queue, e.to) \in Seq(Hashes)
    BY <1>1
  <2> HIDE DEF E!With
  <2> QED
    BY <1>3, <2>1 DEF SearchStates
<1> QED
  BY <1>2, <1>4 DEF E!Visit

\* The edge to the end is found; another one leads to what is visited then.
LEMMA VisitGoesOn ==
  ASSUME GraphRight, NEW from, NEW to, NEW s, NEW P, NEW c \in Hashes, NEW n \in 1 .. Len(s3[c]), InScan(s, c, n - 1, P, from, to)
  PROVE  LET t == E!Visit(s, s3[c][n], c, to) IN InScan(t, c, n, P, from, to) \/ HasFound(t, from, to)
<1> DEFINE e == s3[c][n]
           t == E!Visit(s, e, c, to)
           X == DOMAIN s.visited
<1>1. s.found = <<>> /\ c \in P
  BY DEF InScan
<1>2. PICK d : Searching(s, d, P, P \ {c}, d[c], from, to) /\ Scanned(s, d, c, n - 1)
  BY DEF InScan
<1>3. <<c, e.to>> \in DOMAIN s2 /\ e.index = s2[<<c, e.to>>] /\ e.to \in Hashes /\ Len(s3[c]) \in Nat
  <2>1. s3[c] \in Seq(Edges)
    BY DEF GraphRight, EdgesRight
  <2>2. Len(s3[c]) \in Nat /\ e \in Edges
    BY <2>1
  <2>3. <<c, e.to>> \in DOMAIN s2 /\ e.index = s2[<<c, e.to>>]
    BY Zenon DEF GraphRight, EdgesRight
  <2> HIDE DEF e
  <2>4. e.to \in Hashes
    BY <2>2 DEF Edges
  <2> QED
    BY <2>2, <2>3, <2>4
<1>4. Tree(s, d, from, to) /\ Line(s, d, P, d[c]) /\ Closed(s, d, P \ {c}) /\ c \in X /\ d[c] \in Nat
  BY <1>1, <1>2 DEF Searching, Line, Tree
<1>5. \A j : j \in 1 .. n <=> j \in 1 .. n - 1 \/ j = n
  BY <1>3
<1> HIDE DEF e
<1>6. CASE e.to = to
  <2>1. t = [queue |-> s.queue, visited |-> s.visited, found |-> <<c, e.index>>]
    BY <1>1, <1>6 DEF E!Visit
  <2>2. t.queue = s.queue /\ t.visited = s.visited /\ t.found = <<c, s2[<<c, to>>]>>
    BY <1>3, <1>6, <2>1
  <2> HIDE DEF t
  <2>3. Searching(t, d, P, P \ {c}, d[c], from, to)
    <3>1. Tree(t, d, from, to)
      BY <1>4, <2>2, Zenon DEF Tree
    <3>2. Queued(t) = Queued(s)
      BY <2>2, Zenon DEF Queued
    <3>3. Line(t, d, P, d[c])
      BY <1>4, <2>2, <3>2, Zenon DEF Line
    <3>4. Closed(t, d, P \ {c})
      BY <1>4, <2>2, Zenon DEF Closed
    <3> QED
      BY <3>1, <3>3, <3>4 DEF Searching
  <2>4. HasFound(t, from, to)
    BY <1>1, <1>3, <1>6, <2>2, <2>3 DEF HasFound
  <2> QED
    BY <2>4 DEF t, e
<1>7. CASE e.to # to /\ e.to \in X /\ d[e.to] <= d[c] + 1
  <2>1. t = s
    BY <1>1, <1>7 DEF E!Visit
  <2> HIDE DEF t
  <2>2. Scanned(s, d, c, n)
    BY <1>2, <1>5, <1>7 DEF Scanned, e
  <2>3. InScan(t, c, n, P, from, to)
    BY <1>1, <1>2, <2>1, <2>2 DEF InScan
  <2> QED
    BY <2>3 DEF t, e
<1>8. ASSUME e.to \in X PROVE d[e.to] <= d[c] + 1
  <2>1. CASE e.to \in P
    <3>1. d[e.to] <= d[c] /\ d[e.to] \in Nat
      BY <1>4, <1>8, <2>1 DEF Line, Tree
    <3> QED
      BY <1>4, <3>1
  <2>2. CASE e.to \notin P
    BY <1>4, <1>8, <2>2 DEF Line, Queued
  <2> QED
    BY <2>1, <2>2
<1>9. CASE e.to # to /\ e.to \notin X
  <2> DEFINE x == e.to
             q == s.queue
             d2 == [h \in X \cup {x} |-> IF h = x THEN d[c] + 1 ELSE d[h]]
             v2 == E!With(s.visited, x, <<c, e.index>>)
  <2>1. t = [queue |-> Append(q, x), visited |-> v2, found |-> <<>>]
    BY <1>1, <1>9, Zenon DEF E!Visit
  <2>2. t.queue = Append(q, x) /\ t.visited = v2 /\ t.found = <<>>
    BY <2>1
  <2> HIDE DEF t
  <2>3. DOMAIN v2 = X \cup {x} /\ v2[x] = <<c, e.index>> /\ \A h \in X : v2[h] = s.visited[h]
    BY <1>9 DEF E!With
  <2>4. /\ x \in Hashes /\ x \notin X /\ x # to /\ x # c /\ X \subseteq Hashes
        /\ from \in X /\ to \notin X /\ d \in [X -> Nat] /\ d[from] = 0
    BY <1>3, <1>4, <1>9 DEF Tree
  <2>5. d2 \in [X \cup {x} -> Nat] /\ d2[x] = d[c] + 1 /\ \A h \in X : d2[h] = d[h]
    BY <1>4, <2>4
  <2> HIDE DEF d2, v2, X, x
  <2>6. DOMAIN t.visited = X \cup {x}
    BY <2>2, <2>3
  <2>7. Tree(t, d2, from, to)
    <3>1. ASSUME NEW h \in (X \cup {x}) \ {from}
          PROVE  /\ v2[h][1] \in X \cup {x} /\ d2[h] = d2[v2[h][1]] + 1
                 /\ <<v2[h][1], h>> \in DOMAIN s2 /\ v2[h][2] = s2[<<v2[h][1], h>>]
      <4>1. CASE h = x
        <5>1. v2[h][1] = c /\ v2[h][2] = e.index
          BY <2>3, <4>1
        <5> QED
          BY <1>3, <1>4, <2>5, <4>1, <5>1 DEF x
      <4>2. CASE h # x
        <5>1. /\ h \in X /\ s.visited[h][1] \in X /\ d[h] = d[s.visited[h][1]] + 1
              /\ <<s.visited[h][1], h>> \in DOMAIN s2 /\ s.visited[h][2] = s2[<<s.visited[h][1], h>>]
          BY <1>4, <4>2 DEF Tree, X
        <5> QED
          BY <2>3, <2>5, <5>1
      <4> QED
        BY <4>1, <4>2
    <3> QED
      BY <2>2, <2>4, <2>5, <2>6, <3>1 DEF Tree
  <2>8. /\ q \in Seq(Hashes) /\ Len(q) \in Nat /\ X = P \cup Queued(s)
        /\ \A i \in 1 .. Len(q) : q[i] \in X /\ q[i] \notin P /\ d[c] <= d[q[i]] /\ d[q[i]] <= d[c] + 1
        /\ \A i, j \in 1 .. Len(q) : i < j => q[i] # q[j] /\ d[q[i]] <= d[q[j]]
        /\ \A g \in P : d[g] <= d[c]
    <3>1. /\ q \in Seq(Hashes) /\ X = P \cup Queued(s)
          /\ \A i \in 1 .. Len(q) : q[i] \notin P /\ d[c] <= d[q[i]] /\ d[q[i]] <= d[c] + 1
          /\ \A i, j \in 1 .. Len(q) : i < j => q[i] # q[j] /\ d[q[i]] <= d[q[j]]
          /\ \A g \in P : d[g] <= d[c]
      BY <1>4, Zenon DEF Line, X
    <3>2. \A i \in 1 .. Len(q) : q[i] \in Queued(s)
      BY Zenon DEF Queued
    <3>3. Len(q) \in Nat
      BY <3>1
    <3> HIDE DEF q
    <3> QED
      BY <3>1, <3>2, <3>3
  <2>9. /\ t.queue \in Seq(Hashes) /\ Len(t.queue) = Len(q) + 1 /\ t.queue[Len(q) + 1] = x
        /\ \A i \in 1 .. Len(q) : t.queue[i] = q[i]
    BY <2>2, <2>4, <2>8
  <2>10. \A i : i \in 1 .. Len(t.queue) <=> i \in 1 .. Len(q) \/ i = Len(q) + 1
    BY <2>8, <2>9
  <2>11. Line(t, d2, P, d2[c])
    <3>1. d2[c] = d[c] /\ d2[c] \in Nat
      BY <1>4, <2>5 DEF X
    <3>2. Queued(t) = Queued(s) \cup {x}
      BY <2>9, <2>10 DEF Queued
    <3>3. ASSUME NEW i \in 1 .. Len(t.queue) PROVE t.queue[i] \notin P /\ d2[c] <= d2[t.queue[i]] /\ d2[t.queue[i]] <= d2[c] + 1
      <4>1. CASE i \in 1 .. Len(q)
        BY <2>5, <2>8, <2>9, <3>1, <4>1
      <4>2. CASE i = Len(q) + 1
        BY <2>4, <2>5, <2>8, <2>9, <3>1, <4>2
      <4> QED
        BY <2>10, <4>1, <4>2
    <3>4. ASSUME NEW i \in 1 .. Len(t.queue), NEW j \in 1 .. Len(t.queue), i < j
          PROVE  t.queue[i] # t.queue[j] /\ d2[t.queue[i]] <= d2[t.queue[j]]
      <4>1. i \in 1 .. Len(q)
        BY <2>8, <2>10, <3>4
      <4>2. t.queue[i] = q[i] /\ q[i] \in X /\ d2[q[i]] = d[q[i]] /\ d[q[i]] <= d[c] + 1
        BY <2>5, <2>8, <2>9, <4>1
      <4>3. CASE j \in 1 .. Len(q)
        BY <2>5, <2>8, <2>9, <3>4, <4>1, <4>2, <4>3
      <4>4. CASE j = Len(q) + 1
        BY <2>4, <2>5, <2>9, <4>2, <4>4
      <4> QED
        BY <2>10, <4>3, <4>4
    <3>5. \A g \in P : d2[g] <= d2[c]
      BY <2>5, <2>8, <3>1
    <3> QED
      BY <2>6, <2>8, <2>9, <3>1, <3>2, <3>3, <3>4, <3>5 DEF Line
  <2>12. Closed(t, d2, P \ {c})
    <3>1. ASSUME NEW g \in P \ {c}, NEW h \in Hashes, <<g, h>> \in DOMAIN s2 PROVE h \in DOMAIN t.visited /\ d2[h] <= d2[g] + 1
      <4>1. h \in X /\ d[h] <= d[g] + 1
        BY <1>4, <3>1 DEF Closed, X
      <4>2. g \in X
        BY <2>8
      <4> QED
        BY <2>5, <2>6, <4>1, <4>2
    <3> QED
      BY <3>1 DEF Closed
  <2>13. Scanned(t, d2, c, n)
    <3>1. ASSUME NEW j \in 1 .. n PROVE s3[c][j].to \in DOMAIN t.visited /\ d2[s3[c][j].to] <= d2[c] + 1
      <4>1. c \in X /\ d[c] \in Nat /\ d2[c] = d[c]
        BY <1>4, <2>5 DEF X
      <4>2. CASE j \in 1 .. n - 1
        <5>1. s3[c][j].to \in X /\ d[s3[c][j].to] <= d[c] + 1
          BY <1>2, <4>2 DEF Scanned, X
        <5> QED
          BY <2>5, <2>6, <4>1, <5>1
      <4>3. CASE j = n
        BY <2>5, <2>6, <4>1, <4>3 DEF x, e
      <4> QED
        BY <1>5, <4>2, <4>3
    <3> QED
      BY <3>1 DEF Scanned
  <2>14. InScan(t, c, n, P, from, to)
    BY <1>1, <2>2, <2>7, <2>11, <2>12, <2>13 DEF InScan, Searching
  <2> QED
    BY <2>14 DEF t, e
<1> QED
  BY <1>6, <1>7, <1>8, <1>9

-----------------------------------------------------------------------------
LEMMA SameCourse ==
  ASSUME NEW n \in Nat, NEW f, NEW g, f[0] = g[0], \A k \in 1 .. n : f[k - 1] = g[k - 1] => f[k] = g[k]
  PROVE  \A k \in 0 .. n : f[k] = g[k]
<1> DEFINE same == {k \in 0 .. n : f[k] = g[k]}
<1>1. 0 \in same
  OBVIOUS
<1>2. ASSUME NEW k \in 1 .. n, k - 1 \in same PROVE k \in same
  <2>1. k \in 0 .. n
    OBVIOUS
  <2>2. f[k - 1] = g[k - 1]
    BY <1>2
  <2> QED
    BY <2>1, <2>2
<1>3. \A k \in 0 .. n : k \in same
  <2> HIDE DEF same
  <2> QED
    BY <1>1, <1>2, Counting
<1> QED
  BY <1>3

\* The states of a scan.
ScanOf(f, s, c, to) ==
  /\ f \in [0 .. Len(s3[c]) -> SearchStates] /\ f[0] = s
  /\ \A n \in 1 .. Len(s3[c]) : f[n] = E!Visit(f[n - 1], s3[c][n], c, to)

LEMMA ScanIs ==
  ASSUME GraphRight, NEW s \in SearchStates, NEW c \in Hashes, NEW to
  PROVE  \E f : ScanOf(f, s, c, to) /\ E!Scan(s, c, to) = f[Len(s3[c])]
<1> DEFINE N == Len(s3[c])
           V == SearchStates
           step == [n \in 1 .. N |-> [v \in V |-> E!Visit(v, s3[c][n], c, to)]]
           Goes(f) == f = [n \in 0 .. N |-> IF n = 0 THEN s ELSE E!Visit(f[n - 1], s3[c][n], c, to)]
<1>1. N \in Nat /\ \A n \in 1 .. N : s3[c][n] \in Edges
  <2>1. s3[c] \in Seq(Edges)
    BY DEF GraphRight, EdgesRight
  <2> QED
    BY <2>1
<1>2. step \in [1 .. N -> [V -> V]]
  <2>1. ASSUME NEW n \in 1 .. N, NEW v \in V PROVE E!Visit(v, s3[c][n], c, to) \in V
    BY <1>1, VisitTyped
  <2> HIDE DEF V, N
  <2> QED
    BY <2>1
<1>3. PICK f : GoesOn(f, N, V, s, step)
  <2> HIDE DEF step, N
  <2> QED
    BY <1>1, <1>2, Recurs
<1> HIDE DEF V
<1>4. f \in [0 .. N -> V] /\ f[0] = s /\ \A n \in 1 .. N : f[n] = E!Visit(f[n - 1], s3[c][n], c, to)
  <2>1. f \in [0 .. N -> V] /\ f[0] = s /\ \A n \in 1 .. N : f[n] = step[n][f[n - 1]]
    BY <1>3 DEF GoesOn
  <2> HIDE DEF N
  <2>2. ASSUME NEW n \in 1 .. N PROVE f[n] = E!Visit(f[n - 1], s3[c][n], c, to)
    <3>1. n - 1 \in 0 .. N
      BY <1>1
    <3>2. f[n - 1] \in V
      BY <2>1, <3>1
    <3>3. step[n][f[n - 1]] = E!Visit(f[n - 1], s3[c][n], c, to)
      BY <3>2
    <3> QED
      BY <2>1, <3>3
  <2> QED
    BY <2>1, <2>2
<1>5. Goes(f)
  <2> HIDE DEF N
  <2>1. ASSUME NEW n \in 0 .. N PROVE f[n] = IF n = 0 THEN s ELSE E!Visit(f[n - 1], s3[c][n], c, to)
    <3>1. n = 0 \/ n \in 1 .. N
      BY <1>1
    <3>2. CASE n = 0
      BY <1>4, <3>2
    <3>3. CASE n # 0
      BY <1>4, <3>1, <3>3, Zenon
    <3> QED
      BY <3>2, <3>3
  <2>2. f = [n \in 0 .. N |-> f[n]]
    BY <1>4
  <2> QED
    BY <2>1, <2>2, Zenon
<1> DEFINE g == CHOOSE h : Goes(h)
<1>6. Goes(g)
  <2> HIDE DEF Goes
  <2> QED
    BY <1>5
<1>7. E!Scan(s, c, to) = g[N]
  BY DEF E!Scan
<1> HIDE DEF g, N
<1>8. g[0] = s /\ \A n \in 1 .. N : g[n] = E!Visit(g[n - 1], s3[c][n], c, to)
  <2>1. \A n \in 0 .. N : g[n] = IF n = 0 THEN s ELSE E!Visit(g[n - 1], s3[c][n], c, to)
    BY <1>6, Zenon
  <2>2. 0 \in 0 .. N /\ \A n \in 1 .. N : n \in 0 .. N /\ n # 0
    BY <1>1
  <2>3. ASSUME NEW n \in 1 .. N PROVE g[n] = E!Visit(g[n - 1], s3[c][n], c, to)
    BY <2>1, <2>2, Zenon
  <2> QED
    BY <2>1, <2>2, <2>3, Zenon
<1>9. \A n \in 0 .. N : f[n] = g[n]
  <2>1. ASSUME NEW n \in 1 .. N, f[n - 1] = g[n - 1] PROVE f[n] = g[n]
    BY <1>4, <1>8, <2>1, Zenon
  <2>2. f[0] = g[0]
    BY <1>4, <1>8, Zenon
  <2> QED
    BY <1>1, <2>1, <2>2, SameCourse
<1>10. f[N] = g[N]
  BY <1>1, <1>9
<1>11. ScanOf(f, s, c, to)
  BY <1>4 DEF ScanOf, N, V
<1> QED
  BY <1>7, <1>10, <1>11 DEF N

LEMMA FoundStays ==
  ASSUME NEW s, NEW from, NEW to, HasFound(s, from, to) PROVE s.found # <<>>
<1>1. PICK d, P, c : s.found = <<c, s2[<<c, to>>]>>
  BY Zenon DEF HasFound
<1>2. s.found[1] = c /\ Len(s.found) = 2
  BY <1>1
<1> QED
  BY <1>2

LEMMA ScanGoesOn ==
  ASSUME GraphRight, NEW from, NEW to, NEW s \in SearchStates, NEW P, NEW c \in Hashes, InScan(s, c, 0, P, from, to)
  PROVE  LET t == E!Scan(s, c, to)
         IN  t \in SearchStates /\ (InScan(t, c, Len(s3[c]), P, from, to) \/ HasFound(t, from, to))
<1> DEFINE N == Len(s3[c])
<1>1. PICK f : ScanOf(f, s, c, to) /\ E!Scan(s, c, to) = f[N]
  BY ScanIs
<1>2. N \in Nat
  <2>1. s3[c] \in Seq(Edges)
    BY DEF GraphRight, EdgesRight
  <2> QED
    BY <2>1
<1>3. f \in [0 .. N -> SearchStates] /\ f[0] = s /\ \A n \in 1 .. N : f[n] = E!Visit(f[n - 1], s3[c][n], c, to)
  BY <1>1 DEF ScanOf
<1> DEFINE Good(n) == InScan(f[n], c, n, P, from, to) \/ HasFound(f[n], from, to)
           good == {n \in 0 .. N : Good(n)}
<1>p. \A n : n \in good <=> n \in 0 .. N /\ Good(n)
  <2> HIDE DEF Good
  <2> QED
    OBVIOUS
<1> HIDE DEF good
<1>4. 0 \in good
  <2>1. Good(0)
    BY <1>3
  <2> HIDE DEF Good
  <2> QED
    BY <1>2, <1>p, <2>1
<1>5. ASSUME NEW n \in 1 .. N, n - 1 \in good PROVE n \in good
  <2>1. Good(n - 1)
    <3> HIDE DEF Good
    <3> QED
      BY <1>5, <1>p
  <2>2. f[n] = E!Visit(f[n - 1], s3[c][n], c, to)
    BY <1>3, Zenon
  <2>3. Good(n)
    <3>1. CASE InScan(f[n - 1], c, n - 1, P, from, to)
      BY <2>2, <3>1, VisitGoesOn
    <3>2. CASE HasFound(f[n - 1], from, to)
      <4>1. f[n - 1].found # <<>>
        BY <3>2, FoundStays
      <4>2. f[n] = f[n - 1]
        BY <2>2, <4>1, Zenon DEF E!Visit
      <4> QED
        BY <3>2, <4>2
    <3> QED
      BY <2>1, <3>1, <3>2
  <2>4. n \in 0 .. N
    BY <1>2
  <2> HIDE DEF Good
  <2> QED
    BY <1>p, <2>3, <2>4
<1>6. N \in good
  <2>1. \A n \in 0 .. N : n \in good
    <3> HIDE DEF N
    <3> QED
      BY <1>2, <1>4, <1>5, Counting
  <2> QED
    BY <1>2, <2>1
<1>7. Good(N) /\ f[N] \in SearchStates
  <2>1. Good(N)
    <3> HIDE DEF Good
    <3> QED
      BY <1>6, <1>p
  <2>2. N \in 0 .. N
    BY <1>2
  <2> QED
    BY <1>3, <2>1, <2>2
<1> QED
  BY <1>1, <1>7

\* What is scanned to the end leads only to what is visited.
LEMMA ScanEnds ==
  ASSUME GraphRight, NEW from, NEW to, NEW s, NEW P, NEW c \in Hashes, InScan(s, c, Len(s3[c]), P, from, to)
  PROVE  \E d : Searching(s, d, P, P, d[c], from, to)
<1>1. PICK d : Searching(s, d, P, P \ {c}, d[c], from, to) /\ Scanned(s, d, c, Len(s3[c]))
  BY DEF InScan
<1>2. Tree(s, d, from, to) /\ Line(s, d, P, d[c]) /\ Closed(s, d, P \ {c})
  BY <1>1 DEF Searching
<1>3. ASSUME NEW g \in P, NEW h \in Hashes, <<g, h>> \in DOMAIN s2 PROVE h \in DOMAIN s.visited /\ d[h] <= d[g] + 1
  <2>1. CASE g = c
    <3>1. PICK n \in 1 .. Len(s3[c]) : s3[c][n].to = h
      BY <1>3, <2>1, Zenon DEF GraphRight, EdgesRight
    <3> QED
      BY <1>1, <2>1, <3>1, Zenon DEF Scanned
  <2>2. CASE g # c
    BY <1>2, <1>3, <2>2, Zenon DEF Closed
  <2> QED
    BY <2>1, <2>2
<1>4. Closed(s, d, P)
  BY <1>3, Zenon DEF Closed
<1> QED
  BY <1>2, <1>4 DEF Searching

\* Between two rounds: as many hashes are scanned as there were rounds, or all.
Between(s, k, from, to) ==
  s.found = <<>> /\ \E d, P, b : Searching(s, d, P, P, b, from, to) /\ (Cardinality(P) = k \/ s.queue = <<>>)
Searched(s, k, from, to) == s \in SearchStates /\ (Between(s, k, from, to) \/ HasFound(s, from, to))

\* The head of the queue is taken.
LEMMA HeadTaken ==
  ASSUME NEW from, NEW to, NEW s, NEW d, NEW P, NEW b, Searching(s, d, P, P, b, from, to), s.queue # <<>>
  PROVE  LET c == Head(s.queue)
             r == [queue |-> Tail(s.queue), visited |-> s.visited, found |-> <<>>]
         IN  c \in Hashes /\ c \notin P /\ InScan(r, c, 0, P \cup {c}, from, to)
<1> DEFINE c == Head(s.queue)
           r == [queue |-> Tail(s.queue), visited |-> s.visited, found |-> <<>>]
           q == s.queue
           X == DOMAIN s.visited
<1>1. Tree(s, d, from, to) /\ Line(s, d, P, b) /\ Closed(s, d, P)
  BY DEF Searching
<1>2. /\ q \in Seq(Hashes) /\ X = P \cup Queued(s) /\ b \in Nat
      /\ \A i \in 1 .. Len(q) : q[i] \notin P /\ b <= d[q[i]] /\ d[q[i]] <= b + 1
      /\ \A i, j \in 1 .. Len(q) : i < j => q[i] # q[j] /\ d[q[i]] <= d[q[j]]
      /\ \A g \in P : d[g] <= b
  BY <1>1, Zenon DEF Line
<1>3. r.queue = Tail(q) /\ r.visited = s.visited /\ r.found = <<>>
  OBVIOUS
<1>4. \A i \in 1 .. Len(q) : q[i] \in Queued(s)
  BY Zenon DEF Queued
<1>5. \A x \in Queued(s) : \E i \in 1 .. Len(q) : x = q[i]
  BY Zenon DEF Queued
<1>6. \A x : x \in Queued(r) <=> \E i \in 1 .. Len(r.queue) : x = r.queue[i]
  BY Zenon DEF Queued
<1>7. d \in [X -> Nat]
  BY <1>1 DEF Tree
<1>8. q # <<>>
  OBVIOUS
<1> HIDE DEF q, r, X
<1>9. /\ Len(q) \in Nat /\ 1 \in 1 .. Len(q) /\ Head(q) = q[1] /\ Tail(q) \in Seq(Hashes)
      /\ Len(Tail(q)) = Len(q) - 1 /\ \A i \in 1 .. Len(Tail(q)) : Tail(q)[i] = q[i + 1] /\ i + 1 \in 1 .. Len(q)
  BY <1>2, <1>8
<1>10. c = q[1] /\ c \in Hashes /\ c \notin P /\ c \in X /\ b <= d[c] /\ d[c] <= b + 1 /\ d[c] \in Nat
  BY <1>2, <1>4, <1>7, <1>9 DEF q
<1> HIDE DEF c
<1>11. Tree(r, d, from, to)
  BY <1>1, <1>3, Zenon DEF Tree
<1>12. Closed(r, d, P)
  BY <1>1, <1>3, Zenon DEF Closed
<1>13. (P \cup {c}) \ {c} = P
  BY <1>10
<1>14. Line(r, d, P \cup {c}, d[c])
  <2>1. DOMAIN r.visited = (P \cup {c}) \cup Queued(r)
    <3>1. ASSUME NEW x \in Queued(s), x # c PROVE x \in Queued(r)
      <4>1. PICK i \in 1 .. Len(q) : x = q[i]
        BY <1>5
      <4>2. i - 1 \in 1 .. Len(Tail(q)) /\ Tail(q)[i - 1] = q[i]
        BY <1>9, <1>10, <3>1, <4>1
      <4> QED
        BY <1>3, <1>6, <4>1, <4>2
    <3>2. ASSUME NEW x \in Queued(r) PROVE x \in Queued(s)
      <4>1. PICK i \in 1 .. Len(r.queue) : x = r.queue[i]
        BY <1>6
      <4>2. i + 1 \in 1 .. Len(q) /\ x = q[i + 1]
        BY <1>3, <1>9, <4>1
      <4> QED
        BY <1>4, <4>2
    <3>3. c \in Queued(s)
      BY <1>4, <1>9, <1>10
    <3>4. X = (P \cup {c}) \cup Queued(r)
      BY <1>2, <3>1, <3>2, <3>3
    <3> QED
      BY <1>3, <3>4 DEF X
  <2>2. ASSUME NEW i \in 1 .. Len(r.queue)
        PROVE  r.queue[i] \notin P \cup {c} /\ d[c] <= d[r.queue[i]] /\ d[r.queue[i]] <= d[c] + 1
    <3>1. r.queue[i] = q[i + 1] /\ i + 1 \in 1 .. Len(q) /\ 1 < i + 1
      BY <1>3, <1>9
    <3>2. q[i + 1] \notin P /\ d[q[i + 1]] <= b + 1 /\ c # q[i + 1] /\ d[c] <= d[q[i + 1]]
      BY <1>2, <1>9, <1>10, <3>1
    <3>3. d[q[i + 1]] \in Nat
      BY <1>2, <1>4, <1>7, <3>1
    <3> QED
      BY <1>2, <1>10, <3>1, <3>2, <3>3
  <2>3. ASSUME NEW i \in 1 .. Len(r.queue), NEW j \in 1 .. Len(r.queue), i < j
        PROVE  r.queue[i] # r.queue[j] /\ d[r.queue[i]] <= d[r.queue[j]]
    <3>1. r.queue[i] = q[i + 1] /\ i + 1 \in 1 .. Len(q) /\ r.queue[j] = q[j + 1] /\ j + 1 \in 1 .. Len(q) /\ i + 1 < j + 1
      BY <1>3, <1>9, <2>3
    <3> QED
      BY <1>2, <3>1
  <2>4. ASSUME NEW g \in P \cup {c} PROVE d[g] <= d[c]
    <3>1. CASE g = c
      BY <1>10, <3>1
    <3>2. CASE g \in P
      <4>1. d[g] <= b /\ d[g] \in Nat
        BY <1>2, <1>7, <3>2
      <4> QED
        BY <1>2, <1>10, <4>1
    <3> QED
      BY <3>1, <3>2
  <2>5. r.queue \in Seq(Hashes) /\ d[c] \in Nat
    BY <1>3, <1>9, <1>10
  <2> QED
    BY <2>1, <2>2, <2>3, <2>4, <2>5 DEF Line
<1>15. Searching(r, d, P \cup {c}, (P \cup {c}) \ {c}, d[c], from, to)
  BY <1>11, <1>12, <1>13, <1>14 DEF Searching
<1>16. Scanned(r, d, c, 0)
  BY DEF Scanned
<1>17. InScan(r, c, 0, P \cup {c}, from, to)
  BY <1>3, <1>15, <1>16 DEF InScan
<1> QED
  BY <1>10, <1>17 DEF c, r

LEMMA RoundGoesOn ==
  ASSUME GraphRight, NEW from, NEW to, NEW k \in Nat \ {0}, NEW s, Searched(s, k - 1, from, to)
  PROVE  Searched(E!Round(s, to), k, from, to)
<1>1. s \in SearchStates
  BY DEF Searched
<1>2. CASE HasFound(s, from, to)
  <2>1. E!Round(s, to) = s
    BY <1>2, FoundStays, Zenon DEF E!Round
  <2> QED
    BY <1>1, <1>2, <2>1 DEF Searched
<1>3. CASE Between(s, k - 1, from, to)
  <2>1. PICK d, P, b : Searching(s, d, P, P, b, from, to) /\ (Cardinality(P) = k - 1 \/ s.queue = <<>>)
    BY <1>3, Zenon DEF Between
  <2>2. s.found = <<>>
    BY <1>3, Zenon DEF Between
  <2>3. CASE s.queue = <<>>
    <3>1. E!Round(s, to) = s
      BY <2>3, Zenon DEF E!Round
    <3>2. Between(s, k, from, to)
      BY <2>1, <2>2, <2>3, Zenon DEF Between
    <3> QED
      BY <1>1, <3>1, <3>2 DEF Searched
  <2>4. CASE s.queue # <<>>
    <3> DEFINE c == Head(s.queue)
               r == [queue |-> Tail(s.queue), visited |-> s.visited, found |-> <<>>]
               Q == P \cup {c}
               t == E!Scan(r, c, to)
    <3>1. E!Round(s, to) = t
      BY <2>2, <2>4, Zenon DEF E!Round
    <3>2. c \in Hashes /\ c \notin P /\ InScan(r, c, 0, Q, from, to)
      BY <2>1, <2>4, HeadTaken
    <3>3. r \in SearchStates
      <4>1. s.queue \in Seq(Hashes) /\ s.visited \in Visits
        BY <1>1 DEF SearchStates
      <4>2. Tail(s.queue) \in Seq(Hashes)
        BY <2>4, <4>1
      <4> QED
        BY <4>1, <4>2 DEF SearchStates
    <3> HIDE DEF r, c
    <3>4. t \in SearchStates /\ (InScan(t, c, Len(s3[c]), Q, from, to) \/ HasFound(t, from, to))
      <4> HIDE DEF Q
      <4> QED
        BY <3>2, <3>3, ScanGoesOn
    <3>5. ASSUME InScan(t, c, Len(s3[c]), Q, from, to) PROVE Between(t, k, from, to)
      <4> HIDE DEF t
      <4>1. PICK d2 : Searching(t, d2, Q, Q, d2[c], from, to)
        <5> HIDE DEF Q
        <5> QED
          BY <3>2, <3>5, ScanEnds
      <4>2. Cardinality(Q) = k
        <5>1. Cardinality(P) = k - 1
          BY <2>1, <2>4
        <5>2. P \subseteq Hashes
          BY <2>1, Zenon DEF Searching, Tree, Line
        <5>3. IsFiniteSet(P)
          BY <5>2, HashesFinite, FS_Subset
        <5>4. Cardinality(Q) = Cardinality(P) + 1
          BY <3>2, <5>3, FS_AddElement
        <5> QED
          BY <5>1, <5>4
      <4>3. t.found = <<>>
        BY <3>5 DEF InScan
      <4> QED
        BY <4>1, <4>2, <4>3, Zenon DEF Between
    <3> QED
      BY <3>1, <3>4, <3>5 DEF Searched
  <2> QED
    BY <2>3, <2>4
<1> QED
  BY <1>2, <1>3 DEF Searched

LEMMA RoundTyped == ASSUME GraphRight, NEW s \in SearchStates, NEW to PROVE E!Round(s, to) \in SearchStates
<1>1. CASE s.queue = <<>> \/ s.found # <<>>
  BY <1>1, Zenon DEF E!Round
<1>2. CASE s.queue # <<>> /\ s.found = <<>>
  <2> DEFINE c == Head(s.queue)
             r == [queue |-> Tail(s.queue), visited |-> s.visited, found |-> <<>>]
  <2>1. s.queue \in Seq(Hashes) /\ s.visited \in Visits
    BY DEF SearchStates
  <2>2. Tail(s.queue) \in Seq(Hashes) /\ c \in Hashes
    BY <1>2, <2>1
  <2>3. r \in SearchStates
    BY <2>1, <2>2 DEF SearchStates
  <2>4. E!Round(s, to) = E!Scan(r, c, to)
    BY <1>2, Zenon DEF E!Round
  <2> HIDE DEF r, c
  <2>5. PICK f : ScanOf(f, r, c, to) /\ E!Scan(r, c, to) = f[Len(s3[c])]
    BY <2>2, <2>3, ScanIs
  <2>6. Len(s3[c]) \in Nat
    <3>1. s3[c] \in Seq(Edges)
      BY <2>2 DEF GraphRight, EdgesRight
    <3> QED
      BY <3>1
  <2>7. f \in [0 .. Len(s3[c]) -> SearchStates]
    BY <2>5 DEF ScanOf
  <2>8. f[Len(s3[c])] \in SearchStates
    BY <2>6, <2>7
  <2> QED
    BY <2>4, <2>5, <2>8
<1> QED
  BY <1>1, <1>2

Beginning(from) == [queue |-> <<from>>, visited |-> [h \in {from} |-> <<from, 0>>], found |-> <<>>]

LEMMA SearchBegins ==
  ASSUME NEW from \in Hashes, NEW to, from # to PROVE Searched(Beginning(from), 0, from, to)
<1> DEFINE s == Beginning(from)
           d == [h \in {from} |-> 0]
<1>1. s.queue = <<from>> /\ s.visited = [h \in {from} |-> <<from, 0>>] /\ s.found = <<>>
  BY DEF Beginning
<1> HIDE DEF s
<1>2. Len(s.queue) = 1 /\ s.queue[1] = from /\ s.queue \in Seq(Hashes) /\ DOMAIN s.visited = {from}
  BY <1>1
<1>3. \A i : i \in 1 .. Len(s.queue) <=> i = 1
  BY <1>2
<1>4. d \in [{from} -> Nat] /\ d[from] = 0
  OBVIOUS
<1> HIDE DEF d
<1>5. Tree(s, d, from, to)
  BY <1>2, <1>4 DEF Tree
<1>6. Queued(s) = {from}
  BY <1>2, <1>3 DEF Queued
<1>7. Line(s, d, {}, 0)
  BY <1>2, <1>3, <1>4, <1>6 DEF Line
<1>8. Closed(s, d, {})
  BY DEF Closed
<1>9. Cardinality({}) = 0
  BY FS_EmptySet
<1>10. Between(s, 0, from, to)
  BY <1>1, <1>5, <1>7, <1>8, <1>9 DEF Between, Searching
<1>11. s \in SearchStates
  <2>1. <<from>> \in Seq(Hashes)
    OBVIOUS
  <2>2. [h \in {from} |-> <<from, 0>>] \in Visits
    <3>1. {from} \in SUBSET Hashes /\ [h \in {from} |-> <<from, 0>>] \in [{from} -> Hashes \X Nat]
      OBVIOUS
    <3> QED
      BY <3>1 DEF Visits
  <2> QED
    BY <2>1, <2>2 DEF s, Beginning, SearchStates
<1> QED
  BY <1>10, <1>11 DEF s, Searched

LEMMA SearchIs ==
  ASSUME GraphRight, NEW from \in Hashes, NEW to \in Hashes, from # to
  PROVE  Searched(E!Search(from, to), Cardinality(Hashes), from, to)
<1> DEFINE N == Cardinality(Hashes)
           V == SearchStates
           base == Beginning(from)
           step == [n \in 1 .. N |-> [v \in V |-> E!Round(v, to)]]
           Goes(f) == f = [n \in 0 .. N |-> IF n = 0 THEN Beginning(from) ELSE E!Round(f[n - 1], to)]
<1>1. N \in Nat
  BY HashesFinite
<1>0. Searched(Beginning(from), 0, from, to) /\ Beginning(from) \in V
  BY SearchBegins DEF Searched
<1>2. step \in [1 .. N -> [V -> V]]
  <2>1. ASSUME NEW n \in 1 .. N, NEW v \in V PROVE E!Round(v, to) \in V
    BY RoundTyped
  <2> HIDE DEF V, N
  <2> QED
    BY <2>1
<1>3. PICK f : GoesOn(f, N, V, base, step)
  <2> HIDE DEF step, N, V
  <2> QED
    BY <1>0, <1>1, <1>2, Recurs
<1> HIDE DEF V, N
<1>4. f \in [0 .. N -> V] /\ f[0] = Beginning(from) /\ \A n \in 1 .. N : f[n] = E!Round(f[n - 1], to)
  <2>1. f \in [0 .. N -> V] /\ f[0] = base /\ \A n \in 1 .. N : f[n] = step[n][f[n - 1]]
    BY <1>3 DEF GoesOn
  <2>2. ASSUME NEW n \in 1 .. N PROVE f[n] = E!Round(f[n - 1], to)
    <3>1. n - 1 \in 0 .. N
      BY <1>1
    <3>2. f[n - 1] \in V
      BY <2>1, <3>1
    <3>3. step[n][f[n - 1]] = E!Round(f[n - 1], to)
      BY <3>2
    <3> QED
      BY <2>1, <3>3
  <2> QED
    BY <2>1, <2>2
<1>5. Goes(f)
  <2>1. ASSUME NEW n \in 0 .. N PROVE f[n] = IF n = 0 THEN Beginning(from) ELSE E!Round(f[n - 1], to)
    <3>1. n = 0 \/ n \in 1 .. N
      BY <1>1
    <3>2. CASE n = 0
      BY <1>4, <3>2
    <3>3. CASE n # 0
      BY <1>4, <3>1, <3>3, Zenon
    <3> QED
      BY <3>2, <3>3
  <2>2. f = [n \in 0 .. N |-> f[n]]
    BY <1>4
  <2> QED
    BY <2>1, <2>2, Zenon
<1> DEFINE g == CHOOSE h : Goes(h)
<1>6. Goes(g)
  <2> HIDE DEF Goes
  <2> QED
    BY <1>5
<1>7. E!Search(from, to) = g[N]
  BY HashesFinite, Zenon DEF E!Search, Beginning, N
<1> HIDE DEF g
<1>8. g[0] = Beginning(from) /\ \A n \in 1 .. N : g[n] = E!Round(g[n - 1], to)
  <2>1. \A n \in 0 .. N : g[n] = IF n = 0 THEN Beginning(from) ELSE E!Round(g[n - 1], to)
    BY <1>6, Zenon
  <2>2. 0 \in 0 .. N /\ \A n \in 1 .. N : n \in 0 .. N /\ n # 0
    BY <1>1
  <2>3. ASSUME NEW n \in 1 .. N PROVE g[n] = E!Round(g[n - 1], to)
    BY <2>1, <2>2, Zenon
  <2> QED
    BY <2>1, <2>2, <2>3, Zenon
<1> DEFINE Good(n) == Searched(g[n], n, from, to)
           good == {n \in 0 .. N : Good(n)}
<1>p. \A n : n \in good <=> n \in 0 .. N /\ Good(n)
  <2> HIDE DEF Good
  <2> QED
    OBVIOUS
<1> HIDE DEF good
<1>9. 0 \in good
  <2>1. Good(0)
    BY <1>0, <1>8
  <2> HIDE DEF Good
  <2> QED
    BY <1>1, <1>p, <2>1
<1>10. ASSUME NEW n \in 1 .. N, n - 1 \in good PROVE n \in good
  <2>1. Good(n - 1)
    <3> HIDE DEF Good
    <3> QED
      BY <1>10, <1>p
  <2>2. n \in 0 .. N /\ n \in Nat \ {0}
    BY <1>1
  <2>3. Good(n)
    BY <1>8, <2>1, <2>2, RoundGoesOn
  <2> HIDE DEF Good
  <2> QED
    BY <1>p, <2>2, <2>3
<1>11. N \in good
  <2>1. \A n \in 0 .. N : n \in good
    BY <1>1, <1>9, <1>10, Counting
  <2> QED
    BY <1>1, <2>1
<1>12. Good(N)
  <2> HIDE DEF Good
  <2> QED
    BY <1>11, <1>p
<1> QED
  BY <1>7, <1>12 DEF N

\* The rounds suffice: found, or nothing is left in the queue.
LEMMA SearchEnds ==
  ASSUME GraphRight, NEW from \in Hashes, NEW to \in Hashes, from # to
  PROVE  LET s == E!Search(from, to) IN
         /\ s \in SearchStates
         /\ \/ HasFound(s, from, to)
            \/ s.found = <<>> /\ s.queue = <<>> /\ \E d, P, b : Searching(s, d, P, P, b, from, to)
<1> DEFINE s == E!Search(from, to)
           N == Cardinality(Hashes)
<1>1. Searched(s, N, from, to)
  BY SearchIs
<1> HIDE DEF s
<1>2. CASE Between(s, N, from, to)
  <2>1. PICK d, P, b : Searching(s, d, P, P, b, from, to) /\ (Cardinality(P) = N \/ s.queue = <<>>)
    BY <1>2, Zenon DEF Between
  <2>2. s.found = <<>>
    BY <1>2, Zenon DEF Between
  <2>3. P \subseteq Hashes \ {to}
    BY <2>1, Zenon DEF Searching, Tree, Line
  <2>4. IsFiniteSet(Hashes \ {to}) /\ Cardinality(Hashes \ {to}) = N - 1
    BY HashesFinite, FS_RemoveElement
  <2>5. Cardinality(P) <= N - 1 /\ Cardinality(P) \in Nat
    <3> HIDE DEF N
    <3>1. IsFiniteSet(P) /\ Cardinality(P) <= Cardinality(Hashes \ {to})
      BY <2>3, <2>4, FS_Subset
    <3>2. Cardinality(P) \in Nat
      BY <3>1, FS_CardinalityType
    <3> QED
      BY <2>4, <3>1, <3>2
  <2>6. Cardinality(P) # N
    BY <2>5, HashesFinite
  <2>7. s.found = <<>> /\ s.queue = <<>> /\ \E d3, P3, b3 : Searching(s, d3, P3, P3, b3, from, to)
    BY <2>1, <2>2, <2>6, Zenon
  <2> QED
    BY <1>1, <2>7 DEF s, Searched
<1> QED
  BY <1>1, <1>2 DEF s, Searched

-----------------------------------------------------------------------------
\* No chain leads to the end while all that is nearer than its length has been
\* scanned.
LEMMA ChainsStay ==
  ASSUME NEW from \in Hashes, NEW to \in Hashes, NEW s, NEW d, NEW R, DOMAIN s2 \subseteq Hashes \X Hashes,
         Tree(s, d, from, to), Closed(s, d, R), NEW n \in Nat \ {0}, NEW ch \in E!Chains(from, to, n),
         \A g \in DOMAIN s.visited : d[g] < n => g \in R
  PROVE  FALSE
<1> DEFINE X == DOMAIN s.visited
<1>1. from \in X /\ to \notin X /\ d \in [X -> Nat] /\ d[from] = 0 /\ X \subseteq Hashes
  BY Zenon DEF Tree
<1>2. /\ ch \in [1 .. n -> DOMAIN s2] /\ ch[1][1] = from /\ ch[n][2] = to
      /\ \A i \in 1 .. n - 1 : ch[i][2] = ch[i + 1][1]
  BY DEF E!Chains
<1>3. \A g \in R : \A h \in Hashes : <<g, h>> \in DOMAIN s2 => h \in X /\ d[h] <= d[g] + 1
  BY Zenon DEF Closed
<1>4. \A g \in X : d[g] < n => g \in R
  OBVIOUS
<1> HIDE DEF X
<1>5. ASSUME NEW i \in 1 .. n PROVE ch[i] = <<ch[i][1], ch[i][2]>> /\ ch[i][2] \in Hashes /\ ch[i] \in DOMAIN s2
  BY <1>2
<1>6. ASSUME NEW i \in 1 .. n, ch[i][1] \in X, d[ch[i][1]] <= i - 1 PROVE ch[i][2] \in X /\ d[ch[i][2]] <= i
  <2>1. d[ch[i][1]] \in Nat /\ d[ch[i][1]] < n
    BY <1>1, <1>6
  <2>2. ch[i][1] \in R
    BY <1>4, <1>6, <2>1
  <2>3. <<ch[i][1], ch[i][2]>> \in DOMAIN s2 /\ ch[i][2] \in Hashes
    <3>1. ch[i] = <<ch[i][1], ch[i][2]>> /\ ch[i][2] \in Hashes /\ ch[i] \in DOMAIN s2
      BY <1>5
    <3> QED
      BY <3>1, Zenon
  <2>4. ch[i][2] \in X /\ d[ch[i][2]] <= d[ch[i][1]] + 1
    BY <1>3, <2>2, <2>3
  <2>5. d[ch[i][2]] \in Nat
    BY <1>1, <2>4
  <2> QED
    BY <1>6, <2>1, <2>4, <2>5
<1> DEFINE Good(k) == k = 0 \/ (ch[k][2] \in X /\ d[ch[k][2]] <= k)
           good == {k \in 0 .. n : Good(k)}
<1>7. 0 \in good
  OBVIOUS
<1>8. ASSUME NEW k \in 1 .. n, k - 1 \in good PROVE k \in good
  <2>1. Good(k - 1)
    BY <1>8
  <2>2. ch[k][1] \in X /\ d[ch[k][1]] <= k - 1
    <3>1. CASE k = 1
      BY <1>1, <1>2, <3>1
    <3>2. CASE k # 1
      <4>1. k - 1 \in 1 .. n - 1 /\ k - 1 # 0 /\ (k - 1) + 1 = k
        BY <3>2
      <4>2. ch[k - 1][2] = ch[k][1]
        BY <1>2, <4>1
      <4> QED
        BY <2>1, <4>1, <4>2
    <3> QED
      BY <3>1, <3>2
  <2>3. ch[k][2] \in X /\ d[ch[k][2]] <= k
    BY <1>6, <2>2
  <2> QED
    BY <2>3
<1>9. n \in good
  <2>1. \A k \in 0 .. n : k \in good
    <3> HIDE DEF good
    <3> QED
      BY <1>7, <1>8, Counting
  <2> QED
    BY <2>1
<1>10. ch[n][2] \in X
  BY <1>9
<1> QED
  BY <1>1, <1>2, <1>10

-----------------------------------------------------------------------------
(* The way back: parents, as far as the start.                              *)
Behind(visited, from, p) ==
  IF p.at = from THEN p
  ELSE [at |-> visited[p.at][1], indices |-> <<visited[p.at][2]>> \o p.indices]
Ways(X) == [at : X, indices : Seq(Nat)]
WayOf(g, visited, from, h) ==
  /\ g \in [0 .. Cardinality(Hashes) -> Ways(DOMAIN visited)] /\ g[0] = [at |-> h, indices |-> <<>>]
  /\ \A n \in 1 .. Cardinality(Hashes) : g[n] = Behind(visited, from, g[n - 1])

LEMMA BehindTyped ==
  ASSUME NEW s \in SearchStates, NEW d, NEW from, NEW to, Tree(s, d, from, to), NEW v \in Ways(DOMAIN s.visited)
  PROVE  Behind(s.visited, from, v) \in Ways(DOMAIN s.visited)
<1> DEFINE X == DOMAIN s.visited
<1>1. v.at \in X /\ v.indices \in Seq(Nat)
  BY DEF Ways
<1>2. s.visited \in Visits
  BY DEF SearchStates
<1>3. s.visited[v.at] \in Hashes \X Nat
  BY <1>1, <1>2 DEF Visits
<1>4. s.visited[v.at][2] \in Nat
  BY <1>3
<1>5. CASE v.at = from
  BY <1>5 DEF Behind
<1>6. CASE v.at # from
  <2>1. s.visited[v.at][1] \in X
    BY <1>1, <1>6 DEF Tree
  <2>2. <<s.visited[v.at][2]>> \o v.indices \in Seq(Nat)
    BY <1>1, <1>4
  <2>3. Behind(s.visited, from, v) = [at |-> s.visited[v.at][1], indices |-> <<s.visited[v.at][2]>> \o v.indices]
    BY <1>6, Zenon DEF Behind
  <2> HIDE DEF X
  <2>4. Behind(s.visited, from, v) \in Ways(X)
    BY <2>1, <2>2, <2>3 DEF Ways
  <2> QED
    BY <2>4 DEF X
<1> QED
  BY <1>5, <1>6

LEMMA BackIs ==
  ASSUME NEW s \in SearchStates, NEW d, NEW from, NEW to, Tree(s, d, from, to), NEW c \in DOMAIN s.visited
  PROVE  \E g : WayOf(g, s.visited, from, c) /\ E!Back(s.visited, from, c) = g[Cardinality(Hashes)].indices
<1> DEFINE N == Cardinality(Hashes)
           V == Ways(DOMAIN s.visited)
           base == [at |-> c, indices |-> <<>>]
           step == [n \in 1 .. N |-> [v \in V |-> Behind(s.visited, from, v)]]
           Goes(f) == f = [n \in 0 .. N |-> IF n = 0 THEN base ELSE Behind(s.visited, from, f[n - 1])]
<1>1. N \in Nat
  BY HashesFinite
<1>0. base \in V
  BY DEF Ways
<1>2. step \in [1 .. N -> [V -> V]]
  <2>1. ASSUME NEW n \in 1 .. N, NEW v \in V PROVE Behind(s.visited, from, v) \in V
    BY BehindTyped
  <2> HIDE DEF V, N
  <2> QED
    BY <2>1
<1>3. PICK f : GoesOn(f, N, V, base, step)
  <2> HIDE DEF step, N, V, base
  <2> QED
    BY <1>0, <1>1, <1>2, Recurs
<1> HIDE DEF V, N, base
<1>4. f \in [0 .. N -> V] /\ f[0] = base /\ \A n \in 1 .. N : f[n] = Behind(s.visited, from, f[n - 1])
  <2>1. f \in [0 .. N -> V] /\ f[0] = base /\ \A n \in 1 .. N : f[n] = step[n][f[n - 1]]
    BY <1>3 DEF GoesOn
  <2>2. ASSUME NEW n \in 1 .. N PROVE f[n] = Behind(s.visited, from, f[n - 1])
    <3>1. n - 1 \in 0 .. N
      BY <1>1
    <3>2. f[n - 1] \in V
      BY <2>1, <3>1
    <3>3. step[n][f[n - 1]] = Behind(s.visited, from, f[n - 1])
      BY <3>2
    <3> QED
      BY <2>1, <3>3
  <2> QED
    BY <2>1, <2>2
<1>5. Goes(f)
  <2>1. ASSUME NEW n \in 0 .. N PROVE f[n] = IF n = 0 THEN base ELSE Behind(s.visited, from, f[n - 1])
    <3>1. n = 0 \/ n \in 1 .. N
      BY <1>1
    <3>2. CASE n = 0
      BY <1>4, <3>2
    <3>3. CASE n # 0
      BY <1>4, <3>1, <3>3, Zenon
    <3> QED
      BY <3>2, <3>3
  <2>2. f = [n \in 0 .. N |-> f[n]]
    BY <1>4
  <2> QED
    BY <2>1, <2>2, Zenon
<1> DEFINE g == CHOOSE h : Goes(h)
<1>6. Goes(g)
  <2> HIDE DEF Goes
  <2> QED
    BY <1>5
<1>7. E!Back(s.visited, from, c) = g[N].indices
  BY HashesFinite, Zenon DEF E!Back, Behind, N, base
<1> HIDE DEF g
<1>8. g[0] = base /\ \A n \in 1 .. N : g[n] = Behind(s.visited, from, g[n - 1])
  <2>1. \A n \in 0 .. N : g[n] = IF n = 0 THEN base ELSE Behind(s.visited, from, g[n - 1])
    BY <1>6, Zenon
  <2>2. 0 \in 0 .. N /\ \A n \in 1 .. N : n \in 0 .. N /\ n # 0
    BY <1>1
  <2>3. ASSUME NEW n \in 1 .. N PROVE g[n] = Behind(s.visited, from, g[n - 1])
    BY <2>1, <2>2, Zenon
  <2> QED
    BY <2>1, <2>2, <2>3, Zenon
<1>9. \A n \in 0 .. N : f[n] = g[n]
  <2>1. ASSUME NEW n \in 1 .. N, f[n - 1] = g[n - 1] PROVE f[n] = g[n]
    BY <1>4, <1>8, <2>1, Zenon
  <2>2. f[0] = g[0]
    BY <1>4, <1>8, Zenon
  <2> QED
    BY <1>1, <2>1, <2>2, SameCourse
<1>10. f[N] = g[N]
  BY <1>1, <1>9
<1>11. WayOf(f, s.visited, from, c)
  BY <1>4 DEF WayOf, N, V, base
<1> QED
  BY <1>7, <1>10, <1>11 DEF N

\* n steps back: that much nearer, and what lies between is the migrations passed.
Passed(g, d, m, X, n) ==
  /\ g[n].at \in X /\ d[g[n].at] = m - n /\ g[n].indices \in Seq(Nat) /\ Len(g[n].indices) = n
  /\ \A i \in 1 .. n : /\ <<g[n - i + 1].at, g[n - i].at>> \in DOMAIN s2
                       /\ g[n].indices[i] = s2[<<g[n - i + 1].at, g[n - i].at>>]

LEMMA PassedOne ==
  ASSUME NEW s \in SearchStates, NEW d, NEW from, NEW to, Tree(s, d, from, to), NEW c \in DOMAIN s.visited,
         NEW g, WayOf(g, s.visited, from, c), NEW n \in 1 .. Cardinality(Hashes), n <= d[c],
         Passed(g, d, d[c], DOMAIN s.visited, n - 1)
  PROVE  Passed(g, d, d[c], DOMAIN s.visited, n)
<1> DEFINE X == DOMAIN s.visited
           m == d[c]
           p == g[n - 1]
           a == p.at
           x == s.visited[a][1]
           y == s.visited[a][2]
<1>1. /\ d \in [X -> Nat] /\ d[from] = 0 /\ c \in X
      /\ \A h \in X \ {from} : /\ s.visited[h][1] \in X /\ d[h] = d[s.visited[h][1]] + 1
                               /\ <<s.visited[h][1], h>> \in DOMAIN s2 /\ s.visited[h][2] = s2[<<s.visited[h][1], h>>]
  BY Zenon DEF Tree
<1>2. n \in Nat /\ n - 1 \in Nat /\ Cardinality(Hashes) \in Nat
  BY HashesFinite
<1>3. m \in Nat
  BY <1>1
<1>4. a \in X /\ d[a] = m - (n - 1) /\ p.indices \in Seq(Nat) /\ Len(p.indices) = n - 1
  BY Zenon DEF Passed
<1>5. a # from
  BY <1>1, <1>2, <1>3, <1>4
<1>6. x \in X /\ d[a] = d[x] + 1 /\ <<x, a>> \in DOMAIN s2 /\ y = s2[<<x, a>>]
  BY <1>1, <1>4, <1>5, Zenon
<1>7. g[n] = [at |-> x, indices |-> <<y>> \o p.indices]
  <2>1. g[n] = Behind(s.visited, from, p)
    BY Zenon DEF WayOf
  <2> QED
    BY <1>5, <2>1, Zenon DEF Behind
<1>8. \A i \in 1 .. n - 1 : /\ <<g[(n - 1) - i + 1].at, g[(n - 1) - i].at>> \in DOMAIN s2
                            /\ p.indices[i] = s2[<<g[(n - 1) - i + 1].at, g[(n - 1) - i].at>>]
  BY Zenon DEF Passed
<1>9. s.visited[a] \in Hashes \X Nat
  <2>1. s.visited \in Visits
    BY DEF SearchStates
  <2> QED
    BY <1>4, <2>1 DEF Visits
<1>10. y \in Nat
  BY <1>9
<1> DEFINE q == p.indices
           t == <<y>> \o q
<1>11. g[n].at = x /\ g[n].indices = t
  BY <1>7
<1>12. q \in Seq(Nat) /\ Len(q) = n - 1
  BY <1>4
<1> HIDE DEF q, x, y
<1>13. t \in Seq(Nat) /\ Len(t) = n /\ t[1] = y /\ \A i \in 2 .. n : t[i] = q[i - 1]
  BY <1>2, <1>10, <1>12
<1>14. d[x] \in Nat
  BY <1>1, <1>6
<1>15. d[x] = m - n
  BY <1>2, <1>3, <1>4, <1>6, <1>14
<1> HIDE DEF t
<1>16. ASSUME NEW i \in 1 .. n
       PROVE  /\ <<g[n - i + 1].at, g[n - i].at>> \in DOMAIN s2
              /\ t[i] = s2[<<g[n - i + 1].at, g[n - i].at>>]
  <2>1. CASE i = 1
    <3>1. n - i + 1 = n /\ n - i = n - 1
      BY <1>2, <2>1
    <3>2. g[n - i + 1].at = x /\ g[n - i].at = a
      BY <1>11, <3>1
    <3> QED
      BY <1>6, <1>13, <2>1, <3>2
  <2>2. CASE i # 1
    <3>1. i \in 2 .. n /\ i - 1 \in 1 .. n - 1 /\ (n - 1) - (i - 1) = n - i
      BY <1>2, <2>2
    <3>2. /\ <<g[(n - 1) - (i - 1) + 1].at, g[(n - 1) - (i - 1)].at>> \in DOMAIN s2
          /\ q[i - 1] = s2[<<g[(n - 1) - (i - 1) + 1].at, g[(n - 1) - (i - 1)].at>>]
      BY <1>8, <3>1, Zenon DEF q
    <3>3. t[i] = q[i - 1]
      BY <1>13, <3>1
    <3> QED
      BY <3>1, <3>2, <3>3
  <2> QED
    BY <2>1, <2>2
<1> HIDE DEF a, p, m, X
<1>17. Passed(g, d, m, X, n)
  BY <1>6, <1>11, <1>13, <1>15, <1>16, Zenon DEF Passed
<1> QED
  BY <1>17 DEF m, X

WayEnds(g, d, c, X, from) ==
  /\ d[c] \in Nat /\ d[c] + 1 <= Cardinality(Hashes) /\ g[0].at = c /\ g[d[c]].at = from
  /\ Passed(g, d, d[c], X, d[c]) /\ g[Cardinality(Hashes)] = g[d[c]]

LEMMA WayBack ==
  ASSUME NEW s \in SearchStates, NEW d, NEW from, NEW to, Tree(s, d, from, to), NEW c \in DOMAIN s.visited,
         NEW g, WayOf(g, s.visited, from, c)
  PROVE  WayEnds(g, d, c, DOMAIN s.visited, from)
<1> DEFINE X == DOMAIN s.visited
           m == d[c]
           N == Cardinality(Hashes)
           Good(n) == n <= m => Passed(g, d, m, X, n)
           good == {n \in 0 .. N : Good(n)}
<1>1. /\ d \in [X -> Nat] /\ d[from] = 0 /\ c \in X /\ X \subseteq Hashes
      /\ \A h \in X \ {from} : s.visited[h][1] \in X /\ d[h] = d[s.visited[h][1]] + 1
  BY Zenon DEF Tree
<1>2. N \in Nat /\ IsFiniteSet(Hashes)
  BY HashesFinite
<1>3. m \in Nat
  BY <1>1
<1>4. g[0] = [at |-> c, indices |-> <<>>] /\ \A n \in 1 .. N : g[n] = Behind(s.visited, from, g[n - 1])
  BY Zenon DEF WayOf
<1>5. g[0].at = c /\ g[0].indices = <<>>
  BY <1>4
<1>p. \A n : n \in good <=> n \in 0 .. N /\ Good(n)
  <2> HIDE DEF Good
  <2> QED
    OBVIOUS
<1> HIDE DEF good
<1>6. 0 \in good
  <2>1. Good(0)
    <3>1. Len(<<>>) = 0 /\ <<>> \in Seq(Nat) /\ m - 0 = m /\ 1 .. 0 = {}
      BY <1>3
    <3> QED
      BY <1>1, <1>5, <3>1 DEF Passed
  <2> HIDE DEF Good
  <2> QED
    BY <1>2, <1>p, <2>1
<1>7. ASSUME NEW n \in 1 .. N, n - 1 \in good PROVE n \in good
  <2>1. Good(n - 1)
    <3> HIDE DEF Good
    <3> QED
      BY <1>7, <1>p
  <2>2. ASSUME n <= m PROVE Passed(g, d, m, X, n)
    <3>1. n - 1 <= m
      BY <1>3, <2>2
    <3>2. Passed(g, d, m, X, n - 1)
      BY <2>1, <3>1
    <3> QED
      BY <2>2, <3>2, PassedOne
  <2>3. Good(n) /\ n \in 0 .. N
    BY <1>2, <2>2
  <2> HIDE DEF Good
  <2> QED
    BY <1>p, <2>3
<1>8. \A n \in 0 .. N : n <= m => Passed(g, d, m, X, n)
  <2>1. \A n \in 0 .. N : n \in good
    <3> HIDE DEF N, Good
    <3> QED
      BY <1>2, <1>6, <1>7, Counting
  <2>2. \A n \in 0 .. N : Good(n)
    <3> HIDE DEF Good
    <3> QED
      BY <1>p, <2>1
  <2> QED
    BY <2>2
<1>9. \A n \in 0 .. N : n <= m => g[n].at \in X /\ d[g[n].at] = m - n
  BY <1>8, Zenon DEF Passed
<1> HIDE DEF Good, m, N, X
<1>10. ASSUME NEW k \in 0 .. N, k <= m PROVE k + 1 <= N
  <2> DEFINE w == [i \in 0 .. k |-> g[i].at]
  <2>1. ASSUME NEW i \in 0 .. k PROVE g[i].at \in X /\ d[g[i].at] = m - i
    BY <1>2, <1>3, <1>9, <1>10
  <2>2. w \in [0 .. k -> Hashes]
    BY <1>1, <2>1
  <2>3. ASSUME NEW i \in 0 .. k, NEW j \in 0 .. k, w[i] = w[j] PROVE i = j
    <3>1. g[i].at = g[j].at
      BY <2>3
    <3>2. m - i = m - j
      BY <2>1, <3>1
    <3> QED
      BY <1>2, <1>3, <3>2
  <2>4. DOMAIN w = 0 .. k
    OBVIOUS
  <2> HIDE DEF w
  <2>5. w \in Injection(0 .. k, Hashes)
    BY <2>2, <2>3, <2>4 DEF Injection, IsInjective
  <2>6. Cardinality(0 .. k) <= Cardinality(Hashes)
    BY <1>2, <2>5, FS_Injection
  <2>7. Cardinality(0 .. k) = k + 1
    <3>1. k \in Int /\ 0 \in Int /\ ~(0 > k) /\ k - 0 + 1 = k + 1
      BY <1>2
    <3> QED
      BY <3>1, FS_Interval
  <2> QED
    BY <2>6, <2>7 DEF N
<1>11. m + 1 <= N
  <2>1. CASE m <= N
    <3>1. m \in 0 .. N /\ m <= m
      BY <1>2, <1>3, <2>1
    <3> QED
      BY <1>10, <3>1
  <2>2. CASE ~(m <= N)
    <3>1. N \in 0 .. N /\ N <= m
      BY <1>2, <1>3, <2>2
    <3>2. N + 1 <= N
      BY <1>10, <3>1
    <3> QED
      BY <1>2, <3>2
  <2> QED
    BY <2>1, <2>2
<1>12. m \in 0 .. N /\ Passed(g, d, m, X, m)
  <2>1. m \in 0 .. N /\ m <= m
    BY <1>2, <1>3, <1>11
  <2> QED
    BY <1>8, <2>1
<1>13. g[m].at = from
  <2>1. g[m].at \in X /\ d[g[m].at] = 0
    <3>1. g[m].at \in X /\ d[g[m].at] = m - m
      BY <1>12, Zenon DEF Passed
    <3> QED
      BY <1>3, <3>1
  <2>2. ASSUME g[m].at # from PROVE FALSE
    <3>1. s.visited[g[m].at][1] \in X /\ d[g[m].at] = d[s.visited[g[m].at][1]] + 1
      BY <1>1, <2>1, <2>2
    <3>2. d[s.visited[g[m].at][1]] \in Nat
      BY <1>1, <3>1
    <3> QED
      BY <2>1, <3>1, <3>2
  <2> QED
    BY <2>2
<1>14. g[N] = g[m]
  <2> DEFINE still == {k \in 0 .. N - m : g[m + k] = g[m]}
  <2>1. N - m \in Nat
    BY <1>2, <1>3, <1>11
  <2>2. 0 \in still
    BY <1>3, <2>1
  <2>3. ASSUME NEW k \in 1 .. N - m, k - 1 \in still PROVE k \in still
    <3>1. g[m + (k - 1)] = g[m]
      BY <2>3
    <3>2. m + k \in 1 .. N /\ (m + k) - 1 = m + (k - 1) /\ k \in 0 .. N - m
      BY <1>2, <1>3, <2>1
    <3>3. g[m + k] = Behind(s.visited, from, g[(m + k) - 1])
      BY <1>4, <3>2, Zenon DEF N
    <3>4. g[m + k] = Behind(s.visited, from, g[m])
      BY <3>1, <3>2, <3>3
    <3>5. g[m + k] = g[m]
      BY <1>13, <3>4, Zenon DEF Behind
    <3> QED
      BY <3>2, <3>5
  <2>4. \A k \in 0 .. N - m : k \in still
    <3> HIDE DEF still
    <3> QED
      BY <2>1, <2>2, <2>3, Counting
  <2>5. N - m \in 0 .. N - m /\ m + (N - m) = N
    BY <1>2, <1>3, <2>1
  <2>6. g[m + (N - m)] = g[m]
    BY <2>4, <2>5
  <2> QED
    BY <2>5, <2>6
<1> QED
  BY <1>3, <1>5, <1>11, <1>12, <1>13, <1>14 DEF m, N, X, WayEnds

\* What is found is a shortest chain.
Shortest(from, to, sp, n) ==
  /\ \A k \in 1 .. n - 1 : E!Chains(from, to, k) = {}
  /\ sp \in Seq(Nat) /\ Len(sp) = n
  /\ \E ch \in E!Chains(from, to, n) : \A i \in 1 .. n : sp[i] = s2[ch[i]]

LEMMA FoundIs ==
  ASSUME GraphRight, NEW from \in Hashes, NEW to \in Hashes, NEW s \in SearchStates, HasFound(s, from, to),
         s = E!Search(from, to)
  PROVE  \E n \in 1 .. Cardinality(Hashes) : Shortest(from, to, E!ShortestPath(from, to), n)
<1> DEFINE N == Cardinality(Hashes)
           X == DOMAIN s.visited
<1>1. PICK d, P, c : /\ c \in P /\ <<c, to>> \in DOMAIN s2 /\ s.found = <<c, s2[<<c, to>>]>>
                     /\ Searching(s, d, P, P \ {c}, d[c], from, to)
  BY Zenon DEF HasFound
<1> DEFINE m == d[c]
           last == s2[<<c, to>>]
<1>2. Tree(s, d, from, to) /\ Line(s, d, P, m) /\ Closed(s, d, P \ {c})
  BY <1>1, Zenon DEF Searching
<1>3. c \in X /\ X = P \cup Queued(s) /\ d \in [X -> Nat]
  BY <1>1, <1>2, Zenon DEF Line, Tree
<1>4. PICK g : WayOf(g, s.visited, from, c) /\ E!Back(s.visited, from, c) = g[N].indices
  BY <1>2, <1>3, BackIs
<1>5. /\ m \in Nat /\ m + 1 <= N /\ g[0].at = c /\ g[m].at = from
      /\ Passed(g, d, m, X, m) /\ g[N] = g[m]
  <2>1. Tree(s, d, from, to) /\ c \in DOMAIN s.visited /\ WayOf(g, s.visited, from, c)
    BY <1>2, <1>3, <1>4
  <2>2. WayEnds(g, d, c, X, from)
    BY <2>1, WayBack
  <2> QED
    BY <2>2, Zenon DEF WayEnds
<1> DEFINE p == g[m].indices
<1>6. /\ p \in Seq(Nat) /\ Len(p) = m
      /\ \A i \in 1 .. m : /\ <<g[m - i + 1].at, g[m - i].at>> \in DOMAIN s2
                           /\ p[i] = s2[<<g[m - i + 1].at, g[m - i].at>>]
  BY <1>5, Zenon DEF Passed
<1>7. last \in Nat /\ DOMAIN s2 \subseteq Hashes \X Hashes /\ N \in Nat
  <2>1. s1 \in Vector /\ last \in 1 .. Len(s1) /\ DOMAIN s2 \subseteq Hashes \X Hashes
    BY <1>1, Zenon DEF GraphRight, TableRight
  <2>2. Len(s1) \in Nat
    BY <2>1 DEF Vector
  <2> QED
    BY <2>1, <2>2, HashesFinite
<1>8. E!ShortestPath(from, to) = Append(p, last)
  <2>1. s.found[1] = c /\ s.found[2] = last /\ s.found # <<>>
    <3>1. s.found[1] = c /\ s.found[2] = last
      BY <1>1
    <3> QED
      BY <3>1, FoundStays
  <2>2. E!Back(s.visited, from, s.found[1]) = p
    BY <1>4, <1>5, <2>1, Zenon
  <2> HIDE DEF p, last
  <2> QED
    BY <2>1, <2>2, Zenon DEF E!ShortestPath
<1> HIDE DEF p, last, X
<1> DEFINE n == m + 1
           t == Append(p, last)
           ch == [i \in 1 .. n |-> IF i = n THEN <<c, to>> ELSE <<g[m - i + 1].at, g[m - i].at>>]
<1>9. n \in 1 .. N /\ n - 1 = m
  BY <1>5, <1>7
<1>10. t \in Seq(Nat) /\ Len(t) = n /\ t[n] = last /\ \A i \in 1 .. m : t[i] = p[i]
  BY <1>5, <1>6, <1>7
<1>11. ASSUME NEW i \in 1 .. n PROVE i = n \/ (i \in 1 .. m /\ i # n)
  BY <1>5
<1>12. ASSUME NEW i \in 1 .. n PROVE ch[i] \in DOMAIN s2 /\ t[i] = s2[ch[i]]
  <2>1. CASE i = n
    BY <1>1, <1>10, <2>1 DEF last
  <2>2. CASE i \in 1 .. m /\ i # n
    <3>1. ch[i] = <<g[m - i + 1].at, g[m - i].at>>
      BY <2>2
    <3> QED
      BY <1>6, <1>10, <2>2, <3>1
  <2> QED
    BY <1>11, <2>1, <2>2
<1>13. ch \in E!Chains(from, to, n)
  <2>1. ch \in [1 .. n -> DOMAIN s2]
    <3>1. ch = [i \in 1 .. n |-> ch[i]]
      OBVIOUS
    <3> HIDE DEF ch
    <3> QED
      BY <1>12, <3>1
  <2>2. ch[1][1] = from
    <3>1. CASE m = 0
      BY <1>5, <3>1
    <3>2. CASE m # 0
      <4>1. 1 \in 1 .. n /\ 1 # n /\ m - 1 + 1 = m
        BY <1>5, <3>2
      <4>2. ch[1] = <<g[m - 1 + 1].at, g[m - 1].at>>
        BY <4>1
      <4>3. ch[1][1] = g[m].at
        BY <4>1, <4>2
      <4> QED
        BY <1>5, <4>3
    <3> QED
      BY <3>1, <3>2
  <2>3. ch[n][2] = to
    BY <1>5
  <2>4. ASSUME NEW i \in 1 .. n - 1 PROVE ch[i][2] = ch[i + 1][1]
    <3>1. i \in 1 .. m /\ i \in 1 .. n /\ i # n /\ i + 1 \in 1 .. n
      BY <1>5
    <3>2. ch[i][2] = g[m - i].at
      BY <3>1
    <3>3. CASE i = m
      <4>1. m - i = 0 /\ i + 1 = n
        BY <1>5, <3>3
      <4>2. ch[i + 1][1] = c
        BY <1>5, <3>1, <4>1
      <4> QED
        BY <1>5, <3>2, <4>1, <4>2
    <3>4. CASE i # m
      <4>1. i + 1 # n /\ m - (i + 1) + 1 = m - i
        BY <1>5, <3>1, <3>4
      <4>2. ch[i + 1] = <<g[m - (i + 1) + 1].at, g[m - (i + 1)].at>>
        BY <3>1, <4>1
      <4>3. ch[i + 1][1] = g[m - (i + 1) + 1].at
        BY <4>2
      <4> QED
        BY <3>2, <4>1, <4>3
    <3> QED
      BY <3>3, <3>4
  <2> HIDE DEF ch, n
  <2> QED
    BY <2>1, <2>2, <2>3, <2>4 DEF E!Chains
<1>14. ASSUME NEW k \in 1 .. n - 1, NEW ch2 \in E!Chains(from, to, k) PROVE FALSE
  <2>1. k \in Nat \ {0} /\ k <= m
    BY <1>5
  <2>2. ASSUME NEW h \in X, d[h] < k PROVE h \in P \ {c}
    <3>1. d[h] \in Nat /\ d[h] < m
      BY <1>3, <1>5, <2>1, <2>2
    <3>2. h # c
      BY <1>5, <3>1
    <3>3. ASSUME h \notin P PROVE FALSE
      <4>1. h \in Queued(s)
        BY <1>3, <3>3
      <4>2. PICK i \in 1 .. Len(s.queue) : h = s.queue[i]
        BY <4>1, Zenon DEF Queued
      <4>3. m <= d[h]
        BY <1>2, <4>2, Zenon DEF Line
      <4> QED
        BY <1>5, <3>1, <4>3
    <3> QED
      BY <3>2, <3>3
  <2>3. \A h \in DOMAIN s.visited : d[h] < k => h \in P \ {c}
    BY <2>2 DEF X
  <2> QED
    BY <1>2, <1>7, <2>1, <2>3, ChainsStay
<1>15. \A k \in 1 .. n - 1 : E!Chains(from, to, k) = {}
  BY <1>14
<1> HIDE DEF n, t, ch
<1>16. \A i \in 1 .. n : t[i] = s2[ch[i]]
  BY <1>12
<1>17. \E ch1 \in E!Chains(from, to, n) : \A i \in 1 .. n : t[i] = s2[ch1[i]]
  BY <1>13, <1>16, Zenon
<1>18. E!ShortestPath(from, to) = t
  BY <1>8 DEF t
<1>19. Shortest(from, to, t, n)
  BY <1>10, <1>15, <1>17 DEF Shortest
<1> QED
  BY <1>9, <1>18, <1>19, Zenon

LEMMA PathsAre == ASSUME GraphRight PROVE E!PathsRight
<1> DEFINE N == Cardinality(Hashes)
<1>1. N \in Nat /\ E!Cardinality(Hashes) = N
  BY HashesFinite
<1>2. ASSUME NEW from \in Hashes, NEW to \in Hashes, from # to
      PROVE  LET p == E!FindPath(from, to)
                 lengths == {n \in 1 .. N : E!Chains(from, to, n) # {}}
             IN /\ E!HasPath(from, to) <=> lengths # {}
                /\ lengths # {} =>
                     /\ Len(p) = E!Min(lengths)
                     /\ p[1].from = from /\ p[Len(p)].to = to
                     /\ \A i \in 1 .. Len(p) - 1 : p[i].to = p[i + 1].from
                     /\ \A i \in DOMAIN p : {p[i].index} = E!FindDirect(<<p[i].from, p[i].to>>)
  <2> DEFINE s == E!Search(from, to)
             sp == E!ShortestPath(from, to)
             p == E!FindPath(from, to)
             lengths == {n \in 1 .. N : E!Chains(from, to, n) # {}}
  <2>1. /\ s \in SearchStates
        /\ \/ HasFound(s, from, to)
           \/ s.found = <<>> /\ s.queue = <<>> /\ \E d, P, b : Searching(s, d, P, P, b, from, to)
    BY <1>2, SearchEnds
  <2>2. E!HasPath(from, to) <=> sp # <<>>
    BY <1>2, Zenon DEF E!HasPath
  <2>3. CASE s.found = <<>> /\ s.queue = <<>> /\ \E d, P, b : Searching(s, d, P, P, b, from, to)
    <3>1. sp = <<>>
      BY <2>3, Zenon DEF E!ShortestPath
    <3> HIDE DEF s
    <3>2. PICK d, P, b : Searching(s, d, P, P, b, from, to)
      BY <2>3
    <3>3. Tree(s, d, from, to) /\ Line(s, d, P, b) /\ Closed(s, d, P)
      BY <3>2 DEF Searching
    <3>4. DOMAIN s.visited = P
      <4>1. s.queue = <<>>
        BY <2>3
      <4>2. 1 .. Len(s.queue) = {}
        BY <4>1
      <4>3. Queued(s) = {}
        BY <4>2 DEF Queued
      <4>4. DOMAIN s.visited = P \cup Queued(s)
        BY <3>3, Zenon DEF Line
      <4> QED
        BY <4>3, <4>4
    <3>5. DOMAIN s2 \subseteq Hashes \X Hashes
      BY DEF GraphRight, TableRight
    <3>6. ASSUME NEW n \in 1 .. N, NEW ch \in E!Chains(from, to, n) PROVE FALSE
      <4>1. n \in Nat \ {0}
        BY <1>1
      <4>2. \A g \in DOMAIN s.visited : d[g] < n => g \in P
        BY <3>4
      <4> QED
        BY <3>3, <3>5, <4>1, <4>2, ChainsStay
    <3>7. lengths = {}
      BY <3>6
    <3> HIDE DEF sp, lengths
    <3>8. ~E!HasPath(from, to)
      BY <2>2, <3>1, Zenon
    <3> QED
      BY <3>7, <3>8 DEF lengths
  <2>4. CASE HasFound(s, from, to)
    <3>0. PICK n \in 1 .. N : Shortest(from, to, sp, n)
      <4> HIDE DEF s
      <4>1. s = E!Search(from, to)
        BY DEF s
      <4> QED
        BY <2>1, <2>4, <4>1, FoundIs, Zenon
    <3>1. /\ \A k \in 1 .. n - 1 : E!Chains(from, to, k) = {}
          /\ sp \in Seq(Nat) /\ Len(sp) = n
          /\ \E ch \in E!Chains(from, to, n) : \A i \in 1 .. n : sp[i] = s2[ch[i]]
      BY <3>0, Zenon DEF Shortest
    <3>2. PICK ch \in E!Chains(from, to, n) : \A i \in 1 .. n : sp[i] = s2[ch[i]]
      BY <3>1
    <3>3. /\ ch \in [1 .. n -> DOMAIN s2] /\ ch[1][1] = from /\ ch[n][2] = to
          /\ \A i \in 1 .. n - 1 : ch[i][2] = ch[i + 1][1]
      BY DEF E!Chains
    <3>4. n \in Nat /\ 1 <= n /\ n <= N /\ 1 \in 1 .. n /\ n \in 1 .. n
      BY <1>1
    <3>5. sp # <<>> /\ DOMAIN sp = 1 .. n
      BY <3>1, <3>4
    <3>6. p = [i \in DOMAIN sp |-> [from |-> s1[sp[i]].from, to |-> s1[sp[i]].to, index |-> sp[i]]]
      BY Zenon DEF E!FindPath
    <3> HIDE DEF p, sp, s
    <3>7. ASSUME NEW i \in 1 .. n
          PROVE  /\ ch[i] \in DOMAIN s2 /\ ch[i] = <<ch[i][1], ch[i][2]>> /\ ch[i][1] \in Hashes /\ ch[i][2] \in Hashes
                 /\ p[i] = [from |-> ch[i][1], to |-> ch[i][2], index |-> s2[ch[i]]]
                 /\ p[i].from = ch[i][1] /\ p[i].to = ch[i][2] /\ p[i].index = s2[ch[i]]
                 /\ p[i] \in [from : Hashes, to : Hashes, index : Nat]
      <4>1. ch[i] \in DOMAIN s2
        BY <3>3
      <4>2. ch[i] \in Hashes \X Hashes
        BY <4>1 DEF GraphRight, TableRight
      <4>3. s2[ch[i]] \in 1 .. Len(s1) /\ s1[s2[ch[i]]] = [from |-> ch[i][1], to |-> ch[i][2]]
        BY <4>1, Zenon DEF GraphRight, TableRight
      <4>4. s1[sp[i]].from = ch[i][1] /\ s1[sp[i]].to = ch[i][2] /\ sp[i] = s2[ch[i]]
        BY <3>2, <4>3
      <4>5. p[i] = [from |-> s1[sp[i]].from, to |-> s1[sp[i]].to, index |-> sp[i]]
        BY <3>5, <3>6
      <4>6. s2[ch[i]] \in Nat
        <5>1. s1 \in Vector
          BY DEF GraphRight, TableRight
        <5>2. Len(s1) \in Nat
          BY <5>1 DEF Vector
        <5> QED
          BY <4>3, <5>2
      <4>7. ch[i] = <<ch[i][1], ch[i][2]>> /\ ch[i][1] \in Hashes /\ ch[i][2] \in Hashes
        BY <4>2
      <4>8. p[i] = [from |-> ch[i][1], to |-> ch[i][2], index |-> s2[ch[i]]]
        BY <4>4, <4>5, Zenon
      <4> DEFINE r == [from |-> ch[i][1], to |-> ch[i][2], index |-> s2[ch[i]]]
      <4>9. r.from = ch[i][1] /\ r.to = ch[i][2] /\ r.index = s2[ch[i]] /\ r \in [from : Hashes, to : Hashes, index : Nat]
        BY <4>6, <4>7
      <4>10. p[i] = r
        BY <4>8
      <4> HIDE DEF r
      <4>11. /\ p[i].from = ch[i][1] /\ p[i].to = ch[i][2] /\ p[i].index = s2[ch[i]]
             /\ p[i] \in [from : Hashes, to : Hashes, index : Nat]
        BY <4>9, <4>10, Zenon
      <4> QED
        BY <4>1, <4>7, <4>8, <4>11, Zenon
    <3>8. p \in Seq([from : Hashes, to : Hashes, index : Nat]) /\ Len(p) = n /\ DOMAIN p = 1 .. n
      <4>1. p = [i \in 1 .. n |-> p[i]]
        BY <3>5, <3>6
      <4> DEFINE S == [from : Hashes, to : Hashes, index : Nat]
      <4>2. \A i \in 1 .. n : p[i] \in S
        BY <3>7, Zenon
      <4> HIDE DEF S
      <4>3. p \in [1 .. n -> S]
        BY <4>1, <4>2
      <4>4. p \in Seq(S) /\ Len(p) = n /\ DOMAIN p = 1 .. n
        BY <3>4, <4>3
      <4> QED
        BY <4>4 DEF S
    <3>9. E!Min(lengths) = n /\ lengths # {}
      <4>1. n \in lengths
        BY <3>2
      <4>2. ASSUME NEW k \in lengths PROVE n <= k
        <5>1. k \in 1 .. N /\ E!Chains(from, to, k) # {}
          BY <4>2
        <5>2. k \notin 1 .. n - 1
          BY <3>1, <5>1
        <5> QED
          BY <1>1, <3>4, <5>1, <5>2
      <4>3. \A k \in lengths : k \in Nat
        BY <1>1
      <4> HIDE DEF lengths
      <4> DEFINE x == CHOOSE k \in lengths : \A y \in lengths : k <= y
      <4>4. x \in lengths /\ \A y \in lengths : x <= y
        BY <4>1, <4>2
      <4>5. E!Min(lengths) = x
        BY DEF E!Min
      <4> HIDE DEF x
      <4>6. x = n
        BY <3>4, <4>1, <4>2, <4>3, <4>4
      <4> QED
        BY <4>1, <4>5, <4>6
    <3>10. p[1].from = from /\ p[n].to = to
      BY <3>3, <3>4, <3>7, Zenon
    <3>11. ASSUME NEW i \in 1 .. n - 1 PROVE p[i].to = p[i + 1].from
      <4>1. i \in 1 .. n /\ i + 1 \in 1 .. n
        BY <3>4
      <4>2. p[i].to = ch[i][2] /\ p[i + 1].from = ch[i + 1][1]
        BY <3>7, <4>1, Zenon
      <4> QED
        BY <3>3, <4>2, Zenon
    <3>12. ASSUME NEW i \in 1 .. n PROVE {p[i].index} = E!FindDirect(<<p[i].from, p[i].to>>)
      <4>1. p[i].from = ch[i][1] /\ p[i].to = ch[i][2] /\ p[i].index = s2[ch[i]]
        BY <3>7, Zenon
      <4>2. <<p[i].from, p[i].to>> = ch[i] /\ ch[i] \in DOMAIN s2
        <5>1. ch[i] = <<ch[i][1], ch[i][2]>> /\ ch[i] \in DOMAIN s2
          BY <3>7
        <5> QED
          BY <4>1, <5>1, Zenon
      <4>3. E!FindDirect(ch[i]) = {s2[ch[i]]}
        BY <4>2, Zenon DEF E!FindDirect
      <4> QED
        BY <4>1, <4>2, <4>3, Zenon
    <3>13. E!HasPath(from, to)
      BY <2>2, <3>5 DEF sp
    <3> HIDE DEF lengths
    <3>14. /\ Len(p) = E!Min(lengths)
           /\ p[1].from = from /\ p[Len(p)].to = to
           /\ \A i \in 1 .. Len(p) - 1 : p[i].to = p[i + 1].from
           /\ \A i \in DOMAIN p : {p[i].index} = E!FindDirect(<<p[i].from, p[i].to>>)
      BY <3>8, <3>9, <3>10, <3>11, <3>12, Zenon
    <3> QED
      BY <3>9, <3>13, <3>14 DEF p, lengths
  <2> QED
    BY <2>1, <2>3, <2>4
<1> HIDE DEF N
<1> QED
  BY <1>1, <1>2, Zenon DEF E!PathsRight

(* Paths.  For all graphs of migrations, however they are registered and    *)
(* unregistered: a path is found exactly if a chain of registered           *)
(* migrations leads from one schema to the other; it is a shortest one, its *)
(* migrations follow one another and are the ones find_direct returns; and  *)
(* what leads from some schema is what leads to some schema.                *)
THEOREM PathsAreShortest == StorageSpec => [](part = "migrations" => E!PathsRight /\ E!EndsAgree)
<1>1. StorageInit => GraphInv
  BY GraphStarts
<1>2. GraphInv /\ [StorageNext]_storage => GraphInv'
  BY GraphStep
<1>3. GraphInv => (part = "migrations" => E!PathsRight /\ E!EndsAgree)
  BY PathsAre, EndsAre DEF GraphInv
<1> QED
  BY <1>1, <1>2, <1>3, PTL DEF StorageSpec
=============================================================================
