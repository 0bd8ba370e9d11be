------------------------------- MODULE Operator -------------------------------
(***************************************************************************)
(* The two controllers that the operator's binary runs: of XervCluster     *)
(* (xerv-operator controller/cluster.rs) and of XervPipeline               *)
(* (controller/pipeline.rs), which deploys to the cluster once that runs.  *)
(* A reconciliation is a sequence of calls; any of them may fail, and the  *)
(* operator may be restarted between any two: the rest is then dropped and *)
(* the next reconciliation starts from the phase it finds.  Kubernetes,    *)
(* the pods and the API server in them are external.  An object's spec is  *)
(* known by its generation.                                                *)
(***************************************************************************)
EXTENDS Naturals, Sequences

CONSTANTS
  Replicas,    \* spec.replicas
  MaxRetries,  \* handle_failed gives up after so many (5)
  MaxGen,      \* bound: generations of each object
  MaxFaults    \* bound: failed calls, restarts and unhealthy pods

OperatorConstants == {Replicas, MaxRetries, MaxGen, MaxFaults} \subseteq Nat /\ Replicas > 0

VARIABLES
  cl,         \* XervCluster: [gen, phase, observed, endpoint, retry]
  cwork,      \* its reconciliation: [obj, todo]
  configmap, services, workload,  \* generation of the resource, 0 for none
  ready,      \* pods that are ready
  pl,         \* XervPipeline: [gen, paused, phase, observed]
  pwork,      \* its reconciliation: [obj, todo]
  running,    \* generation of the definition the cluster runs, 0 for none
  halted,     \* the cluster has paused it
  faults,
  skipped,    \* ghost: edited or interrupted while resources are being applied
  lost        \* ghost: the pods that had the pipeline are gone

cluster == <<cl, cwork, configmap, services, workload>>
pipeline == <<pl, pwork>>
pods == <<ready, running, halted, lost>>
vars == <<cluster, pipeline, pods, faults, skipped>>

NoCluster == [gen |-> 1, phase |-> "Pending", observed |-> 0, endpoint |-> FALSE, retry |-> 0]
NoPipeline == [gen |-> 1, paused |-> FALSE, phase |-> "Pending", observed |-> 0]

Init ==
  /\ cl = NoCluster /\ cwork = [obj |-> NoCluster, todo |-> <<>>]
  /\ configmap = 0 /\ services = 0 /\ workload = 0 /\ ready = 0
  /\ pl = NoPipeline /\ pwork = [obj |-> NoPipeline, todo |-> <<>>]
  /\ running = 0 /\ halted = FALSE /\ faults = 0 /\ skipped = FALSE /\ lost = FALSE

-----------------------------------------------------------------------------
(* XervCluster.  PlanOf is the handler of a phase: the calls it will make.  *)

Unhealthy == IF workload = 0 THEN 0 ELSE Replicas - ready

HandlePending == <<"initializing", "configmap", "services", "workload">>

HandleInitializing == IF ready >= Replicas THEN <<"running">> ELSE <<>>

\* Mutant: the pods are left with the old template.
HandleRunningConfigOnly(o) ==
  IF o.observed # o.gen THEN <<"updating", "configmap">>
  ELSE IF Unhealthy > ready THEN <<"degraded">> ELSE <<"observed">>

HandleRunning(o) ==
  IF o.observed # o.gen THEN <<"updating", "configmap", "workload">>
  ELSE IF Unhealthy > ready THEN <<"degraded">> ELSE <<"observed">>

HandleUpdating == IF ready >= Replicas THEN <<"running">> ELSE <<"same">>

\* One unhealthy pod is deleted, for Kubernetes to make it again.
HandleDegraded ==
  IF Unhealthy = 0 THEN <<"recovered">>
  ELSE IF ready = 0 THEN <<"delete_pod", "failed">> ELSE <<"delete_pod", "same">>

\* Mutant: no attempt is made to recover.
HandleFailedGiveUp(o) == <<"same">>

HandleFailed(o) ==
  IF o.retry >= MaxRetries THEN <<"same">> ELSE <<"delete_workload", "workload", "retry">>

PlanOf(o) ==
  CASE o.phase = "Pending" -> HandlePending
    [] o.phase = "Initializing" -> HandleInitializing
    [] o.phase = "Running" -> HandleRunning(o)
    [] o.phase = "Updating" -> HandleUpdating
    [] o.phase = "Degraded" -> HandleDegraded
    [] o.phase = "Failed" -> HandleFailed(o)

ReconcileCluster ==
  /\ cwork.todo = <<>>
  /\ cwork' = [obj |-> cl, todo |-> PlanOf(cl)]
  /\ UNCHANGED <<cl, configmap, services, workload, pipeline, pods, faults, skipped>>

\* update_status: a merge patch, from the object as it was read.
Patched(step) ==
  LET o == cwork.obj IN
  CASE step = "initializing" -> [cl EXCEPT !.phase = "Initializing", !.observed = o.gen]
    [] step = "running" -> [cl EXCEPT !.phase = "Running", !.observed = o.gen, !.endpoint = TRUE]
    [] step = "updating" -> [cl EXCEPT !.phase = "Updating", !.observed = o.observed]
    [] step = "degraded" -> [cl EXCEPT !.phase = "Degraded", !.observed = o.observed]
    [] step = "recovered" -> [cl EXCEPT !.phase = "Running", !.observed = o.observed]
    [] step = "failed" -> [cl EXCEPT !.phase = "Failed", !.observed = o.observed]
    [] step = "observed" -> [cl EXCEPT !.observed = o.gen]
    [] step = "retry" -> [cl EXCEPT !.phase = "Initializing", !.retry = o.retry + 1]
    [] step = "same" -> cl

StatusSteps ==
  {"initializing", "running", "updating", "degraded", "recovered", "failed", "observed", "retry", "same"}

(* handle_initializing and handle_updating take the generation they read as *)
(* observed, though it is an earlier one that was applied.                  *)
UpdateStatus ==
  LET step == Head(cwork.todo) IN
  /\ cwork.todo # <<>> /\ step \in StatusSteps
  /\ cl' = Patched(step)
  /\ cwork' = [cwork EXCEPT !.todo = Tail(@)]
  /\ UNCHANGED <<configmap, services, workload, pipeline, pods, faults, skipped>>

\* Each ensure_ function creates its resource, or patches what is there.
Ensure(step) ==
  /\ cwork.todo # <<>> /\ Head(cwork.todo) = step
  /\ cwork' = [cwork EXCEPT !.todo = Tail(@)]
  /\ UNCHANGED <<cl, pipeline, pods, faults, skipped>>

EnsureConfigmap == Ensure("configmap") /\ configmap' = cwork.obj.gen /\ UNCHANGED <<services, workload>>

\* ensure_headless_service and ensure_api_service leave what is there.
EnsureServices ==
  /\ Ensure("services")
  /\ services' = IF services = 0 THEN cwork.obj.gen ELSE services
  /\ UNCHANGED <<configmap, workload>>

\* ensure_statefulset or ensure_deployment
EnsureWorkload == Ensure("workload") /\ workload' = cwork.obj.gen /\ UNCHANGED <<configmap, services>>

Gone == running' = 0 /\ halted' = FALSE /\ lost' = (lost \/ running # 0)

DeleteWorkload ==
  /\ cwork.todo # <<>> /\ Head(cwork.todo) = "delete_workload"
  /\ workload' = 0 /\ ready' = 0 /\ Gone
  /\ cwork' = [cwork EXCEPT !.todo = Tail(@)]
  /\ UNCHANGED <<cl, configmap, services, pipeline, faults, skipped>>

DeletePod ==
  /\ cwork.todo # <<>> /\ Head(cwork.todo) = "delete_pod"
  /\ cwork' = [cwork EXCEPT !.todo = Tail(@)]
  /\ UNCHANGED <<cl, configmap, services, workload, pipeline, pods, faults, skipped>>

-----------------------------------------------------------------------------
(* XervPipeline.                                                            *)

PipelinePending(o) == IF cl.phase = "Running" THEN <<"validating">> ELSE <<>>

PipelineValidating(o) == <<"load", "deploy", "triggers", "active">>

PipelineActive(o) ==
  IF o.paused THEN <<"pause", "paused">>
  ELSE IF o.observed # o.gen THEN <<"load", "deploy", "updated", "metrics">> ELSE <<"metrics">>

PipelinePaused(o) == IF o.paused THEN <<>> ELSE <<"resume", "resumed">>

PipelinePlan(o) ==
  CASE o.phase = "Pending" -> PipelinePending(o)
    [] o.phase = "Validating" -> PipelineValidating(o)
    [] o.phase = "Active" -> PipelineActive(o)
    [] o.phase = "Paused" -> PipelinePaused(o)

ReconcilePipeline ==
  /\ pwork.todo = <<>>
  /\ pwork' = [obj |-> pl, todo |-> PipelinePlan(pl)]
  /\ UNCHANGED <<cluster, pl, pods, faults, skipped>>

PipelinePatched(step) ==
  LET o == pwork.obj IN
  CASE step = "validating" -> [pl EXCEPT !.phase = "Validating"]
    [] step = "active" -> [pl EXCEPT !.phase = IF o.paused THEN "Paused" ELSE "Active", !.observed = o.gen]
    [] step = "paused" -> [pl EXCEPT !.phase = "Paused"]
    [] step = "resumed" -> [pl EXCEPT !.phase = "Active"]
    [] step = "updated" -> [pl EXCEPT !.phase = "Active", !.observed = o.gen]
    [] step = "metrics" -> [pl EXCEPT !.phase = o.phase,
                                      !.observed = IF o.observed = 0 THEN pl.observed ELSE o.observed]

UpdatePipelineStatus ==
  LET step == Head(pwork.todo) IN
  /\ pwork.todo # <<>> /\ step \in {"validating", "active", "paused", "resumed", "updated"}
  /\ pl' = PipelinePatched(step)
  /\ pwork' = [pwork EXCEPT !.todo = Tail(@)]
  /\ UNCHANGED <<cluster, pods, faults, skipped>>

\* load_from_configmap or load_from_git: what Interrupt makes fail.
Load ==
  /\ pwork.todo # <<>> /\ Head(pwork.todo) = "load"
  /\ pwork' = [pwork EXCEPT !.todo = Tail(@)]
  /\ UNCHANGED <<cluster, pl, pods, faults, skipped>>

Reachable == cl.endpoint /\ ready > 0

(* fetch_pipeline_metrics: only if the cluster answers, handle_active       *)
(* updates the status, and goes back to the one that it read.               *)
FetchMetrics ==
  /\ pwork.todo # <<>> /\ Head(pwork.todo) = "metrics"
  /\ \/ Reachable /\ running # 0 /\ pl' = PipelinePatched("metrics")
     \/ UNCHANGED pl
  /\ pwork' = [pwork EXCEPT !.todo = Tail(@)]
  /\ UNCHANGED <<cluster, pods, faults, skipped>>

ConfigureTriggers ==
  /\ pwork.todo # <<>> /\ Head(pwork.todo) = "triggers" /\ Reachable
  /\ pwork' = [pwork EXCEPT !.todo = Tail(@)]
  /\ UNCHANGED <<cluster, pl, pods, faults, skipped>>

(* deploy_to_cluster posts the definition.  The cluster answers 409 when it *)
(* has a pipeline of that name and version, and keeps the one it has.       *)
Deploy ==
  /\ pwork.todo # <<>> /\ Head(pwork.todo) = "deploy" /\ Reachable
  /\ running' = IF running = 0 THEN pwork.obj.gen ELSE running
  /\ lost' = (lost /\ running # 0)
  /\ pwork' = [pwork EXCEPT !.todo = Tail(@)]
  /\ UNCHANGED <<cluster, pl, ready, halted, faults, skipped>>

Tell(step) ==
  /\ pwork.todo # <<>> /\ Head(pwork.todo) = step /\ Reachable /\ running # 0
  /\ halted' = (step = "pause")
  /\ pwork' = [pwork EXCEPT !.todo = Tail(@)]
  /\ UNCHANGED <<cluster, pl, ready, running, lost, faults, skipped>>

PauseInCluster == Tell("pause")
ResumeInCluster == Tell("resume")

\* The cluster cannot be reached, or does not have the pipeline.
CallFails ==
  /\ pwork.todo # <<>>
  /\ \/ Head(pwork.todo) \in {"deploy", "triggers", "pause", "resume"} /\ ~Reachable
     \/ Head(pwork.todo) \in {"pause", "resume"} /\ running = 0
  /\ pwork' = [pwork EXCEPT !.todo = <<>>]
  /\ UNCHANGED <<cluster, pl, pods, faults, skipped>>

-----------------------------------------------------------------------------
(* The surroundings.                                                        *)

EditCluster ==
  /\ cl.gen < MaxGen /\ cl' = [cl EXCEPT !.gen = @ + 1]
  /\ skipped' = (skipped \/ cl.phase \notin {"Pending", "Running"} \/ cwork.todo # <<>>)
  /\ UNCHANGED <<cwork, configmap, services, workload, pipeline, pods, faults>>

EditPipeline ==
  /\ pl.gen < MaxGen
  /\ \E p \in BOOLEAN : pl' = [pl EXCEPT !.gen = @ + 1, !.paused = p]
  /\ UNCHANGED <<cluster, pwork, pods, faults, skipped>>

PodReady ==
  /\ workload # 0 /\ ready < Replicas /\ ready' = ready + 1
  /\ UNCHANGED <<cluster, pipeline, running, halted, lost, faults, skipped>>

PodFails ==
  /\ ready > 0 /\ faults < MaxFaults /\ ready' = ready - 1 /\ faults' = faults + 1
  /\ (Gone \/ UNCHANGED <<running, halted, lost>>)
  /\ UNCHANGED <<cluster, pipeline, skipped>>

\* A call of the Kubernetes API fails, or the operator is restarted.
Interrupt ==
  /\ faults < MaxFaults /\ faults' = faults + 1
  /\ <<cwork.todo, pwork.todo>> # << <<>>, <<>> >>
  /\ cwork' = [cwork EXCEPT !.todo = <<>>] /\ pwork' = [pwork EXCEPT !.todo = <<>>]
  /\ skipped' = (skipped \/ cwork.todo # <<>>)
  /\ UNCHANGED <<cl, configmap, services, workload, pl, pods>>

-----------------------------------------------------------------------------
ClusterController ==
  \/ ReconcileCluster \/ UpdateStatus \/ EnsureConfigmap \/ EnsureServices \/ EnsureWorkload
  \/ DeleteWorkload \/ DeletePod

PipelineController ==
  \/ ReconcilePipeline \/ UpdatePipelineStatus \/ FetchMetrics \/ Load \/ ConfigureTriggers
  \/ Deploy \/ PauseInCluster \/ ResumeInCluster \/ CallFails

Next ==
  \/ ClusterController \/ PipelineController
  \/ EditCluster \/ EditPipeline \/ PodReady \/ PodFails \/ Interrupt

(* The controllers requeue every object, and pods of a workload become      *)
(* ready again and again.                                                   *)
Fairness == WF_vars(ClusterController) /\ WF_vars(PipelineController) /\ WF_vars(PodReady)

Spec == Init /\ [][Next]_vars /\ Fairness

-----------------------------------------------------------------------------
(* A running cluster of which the current generation counts as observed has *)
(* the ConfigMap and the workload of that generation, unless its spec was   *)
(* edited, or the operator stopped, while it was being applied or the       *)
(* cluster was not well: then a generation counts as observed that nobody   *)
(* applied.                                                                 *)
RunningIsApplied ==
  cl.phase = "Running" /\ cl.observed = cl.gen /\ ~skipped
    => workload = cl.gen /\ configmap = cl.gen

(* The cluster comes to run, after any number of bad pods below the limit   *)
(* of retries, if its creation was not interrupted; and then the pipeline   *)
(* is active or paused as its spec says.                                    *)
OperatorSettles ==
  <>[](\/ workload = 0
       \/ cl.phase = "Failed" /\ cl.retry >= MaxRetries
       \/ /\ cl.phase = "Running"
          /\ lost \/ pl.phase = (IF pl.paused THEN "Paused" ELSE "Active"))

(* "409 Conflict means pipeline already exists, which is OK for updates"    *)
(* (controller/pipeline.rs): when the current generation counts as          *)
(* observed, it is the one that the cluster runs.                           *)
UpdatesReachCluster ==
  pl.phase = "Active" /\ pl.observed = pl.gen /\ ~lost => running = pl.gen
=============================================================================
