------------------------------ MODULE Control ------------------------------
(***************************************************************************)
(* What starts, drains and rolls out pipelines: the pipeline inside a node *)
(* of the cluster, the operator's controllers of clusters and pipelines,   *)
(* the controller of federated pipelines and that of federations.  They    *)
(* share no state; a behaviour is one of one of them, chosen at first.     *)
(***************************************************************************)
EXTENDS Pipeline

CONSTANTS
  PodReplicas, MaxRetries, MaxGen, MaxFaults,
  Members, Labels, Trusted, Specs, FedSpecs, MaxVersions, MaxSecret, MaxOutages, MaxChanges

VARIABLES
  part,
  cl, cwork, configmap, services, workload, ready, pl, pwork, running, halted,
  faults, skipped, lost,
  obj, cached, enabled, exists, work, remote, wiped, up, secret, copies, outages,
  fedphase, statuses, check, health, spec, changes

O == INSTANCE Operator WITH Replicas <- PodReplicas
P == INSTANCE FederatedPipeline
       WITH MaxGen <- MaxVersions, MaxFaults <- MaxOutages, faults <- outages
F == INSTANCE Federation WITH Specs <- FedSpecs, phase <- fedphase

ASSUME ControlAssumption == O!OperatorConstants /\ P!FederatedConstants

operator == <<cl, cwork, configmap, services, workload, ready, pl, pwork, running, halted,
              faults, skipped, lost>>
rollout == <<obj, cached, enabled, exists, work, remote, wiped, up, secret, copies, outages>>
federation == <<fedphase, statuses, check, health, spec, changes>>
control == <<part, vars, operator, rollout, federation>>

ControlInit ==
  /\ part \in {"pipeline", "operator", "rollout", "federation"}
  /\ Init /\ O!Init /\ P!Init /\ F!Init
  /\ part # "rollout" => obj.spec = CHOOSE s \in Specs : TRUE   \* any will do
  /\ part # "federation" =>
       spec = (CHOOSE s \in FedSpecs : TRUE) /\ health = [c \in F!Clusters |-> "ok"]

ControlNext ==
  /\ UNCHANGED part
  /\ \/ part = "pipeline" /\ Next /\ UNCHANGED <<operator, rollout, federation>>
     \/ part = "operator" /\ O!Next /\ UNCHANGED <<vars, rollout, federation>>
     \/ part = "rollout" /\ P!Next /\ UNCHANGED <<vars, operator, federation>>
     \/ part = "federation" /\ F!Next /\ UNCHANGED <<vars, operator, rollout>>

\* The fairness of the part that was chosen.
ControlFairness ==
  /\ WF_vars(part = "pipeline" /\ DrainEnd)
  /\ \A e \in Events : WF_vars(part = "pipeline" /\ EventStep(e))
  /\ WF_operator(part = "operator" /\ O!ClusterController)
  /\ WF_operator(part = "operator" /\ O!PipelineController)
  /\ WF_operator(part = "operator" /\ O!PodReady)
  /\ WF_rollout(part = "rollout" /\ P!Controller)
  /\ WF_rollout(part = "rollout" /\ P!Watch)
  /\ WF_rollout(part = "rollout" /\ P!Repair)
  /\ WF_federation(part = "federation" /\ F!Controller)

ControlSpec == ControlInit /\ [][ControlNext]_control /\ ControlFairness

-----------------------------------------------------------------------------
(* The instance that TLC checks.  Pipeline: the breaker opens above one     *)
(* failure in two.                                                          *)
HalfFail == [num |-> 1, den |-> 2]

TwoMembers == <<"c1", "c2">>
SomeLabels == [c1 |-> {"eu"}, c2 |-> {"eu", "gpu"}]

\* Specs of a federated pipeline: everywhere, by label, and a canary.
All == [all |-> TRUE, clusters |-> <<>>, selector |-> {}, disabled |-> {}, strategy |-> "AllAtOnce"]
SomeSpecs ==
  {All,
   [All EXCEPT !.all = FALSE, !.selector = {"gpu"}, !.strategy = "Rolling"],
   [All EXCEPT !.all = FALSE, !.clusters = <<"c2", "c1">>, !.strategy = "Canary"],
   [All EXCEPT !.all = FALSE, !.clusters = <<"c1", "c3">>, !.disabled = {"c1"}]}

\* Specs of a federation: sound, with a member less, with one member twice,
\* empty, and with routing to a cluster that is no member.
Sound == [clusters |-> TwoMembers, named |-> {"c1"}]
SomeFedSpecs ==
  {Sound, [clusters |-> <<"c2">>, named |-> {}], [Sound EXCEPT !.clusters = <<"c1", "c1">>],
   [Sound EXCEPT !.clusters = <<>>], [Sound EXCEPT !.clusters = <<"c2">>]}

-----------------------------------------------------------------------------
(* Operator: a running cluster has the resources of the observed spec, and  *)
(* Synced says that the clusters of a federated pipeline have its version.  *)
StatusIsTrue == O!RunningIsApplied /\ P!SyncedIsRolledOut

(* Operator: clusters come to run, and pipelines to be active or paused.    *)
OperatorSettles == part = "operator" => O!OperatorSettles

(* Federation: a rollout comes to its end, and the phase comes to say how   *)
(* the clusters are.                                                        *)
FederationSettles ==
  /\ part = "rollout" => P!RolloutConverges
  /\ part = "federation" => F!PhaseFollowsHealth
=============================================================================
