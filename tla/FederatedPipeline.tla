-------------------------- MODULE FederatedPipeline --------------------------
(***************************************************************************)
(* The controller of the operator that rolls a pipeline out to the member  *)
(* clusters of a federation (xerv-operator controller/federated_pipeline.rs)*)
(* with the distribution of secrets (security/distributor.rs) and the      *)
(* watcher that is to react to their rotation (secret_watcher.rs).  A      *)
(* reconciliation works on the object as the watch has last delivered it,  *)
(* and everything it awaits may happen late, fail, or never be answered.   *)
(* The member clusters and the Kubernetes API are external.                *)
(***************************************************************************)
EXTENDS Naturals, FiniteSets, SequencesExt

CONSTANTS
  Members,      \* spec.clusters of the federation: a sequence of names
  Labels,       \* cluster -> set of its labels
  Trusted,      \* clusters with a credentials_secret that can be resolved
  Specs,        \* [all, clusters, selector, disabled, strategy]
  MaxGen,       \* bound: versions of the spec
  MaxSecret,    \* bound: versions of the secret
  MaxFaults     \* bound: faults of the network, the API and the clusters

Clusters == Range(Members)

FederatedConstants ==
  /\ Labels \in [Clusters -> SUBSET UNION {Labels[c] : c \in Clusters}]
  /\ Trusted \subseteq Clusters /\ {MaxGen, MaxSecret, MaxFaults} \subseteq Nat

VARIABLES
  obj,        \* the object: [gen, spec, sync, observed, rolled]
  cached,     \* the object as the watch has last delivered it
  enabled,    \* members that are enabled; the federation's spec
  exists,     \* the federation exists
  work,       \* the reconciliation: [at, obj, fed, todo, done]
  remote,     \* cluster -> version of the pipeline it runs, 0 for none
  wiped,      \* clusters that lost their pipeline since it was deployed
  up,         \* clusters that can be reached
  secret,     \* version of the secret
  copies,     \* cluster -> version of the secret it has
  faults

vars == <<obj, cached, enabled, exists, work, remote, wiped, up, secret, copies, faults>>

NewObject(gen, spec) == [gen |-> gen, spec |-> spec, sync |-> "Pending", observed |-> 0, rolled |-> {}]
Idle == [at |-> "idle", obj |-> NewObject(0, CHOOSE s \in Specs : TRUE), 
         fed |-> {}, todo |-> <<>>, done |-> <<>>]

Init ==
  /\ \E s \in Specs : obj = NewObject(1, s)
  /\ cached = obj /\ enabled = Clusters /\ exists = TRUE /\ work = Idle
  /\ remote = [c \in Clusters |-> 0] /\ wiped = {} /\ up = Clusters
  /\ secret = 1 /\ copies = [c \in Clusters |-> 0] /\ faults = 0

object == <<obj, cached>>
cluster == <<remote, wiped, copies>>
world == <<enabled, exists, up, secret, faults>>

-----------------------------------------------------------------------------
\* validate_spec
Valid(spec) ==
  /\ spec.all \/ \A i \in DOMAIN spec.clusters : spec.clusters[i] \in Clusters
  /\ spec.disabled \subseteq Clusters

\* resolve_target_clusters.  Without any rule the overrides are not looked at.
Targets(spec) ==
  LET Chosen(c) == c \in work.fed /\ c \notin spec.disabled
      Matching(c) == Chosen(c) /\ spec.selector \subseteq Labels[c]
      Enabled(c) == c \in work.fed
  IN CASE spec.all -> SelectSeq(Members, Chosen)
       [] ~spec.all /\ spec.clusters # <<>> -> SelectSeq(spec.clusters, Chosen)
       [] ~spec.all /\ spec.clusters = <<>> /\ spec.selector # {} -> SelectSeq(Members, Matching)
       [] OTHER -> SelectSeq(Members, Enabled)

\* compute_metrics
Count(statuses, field) == Cardinality({i \in DOMAIN statuses : statuses[i][field]})

\* Mutant: one cluster that took the pipeline is enough.
OutcomeAny(statuses) == IF Count(statuses, "deployed") > 0 \/ statuses = <<>> THEN "Synced" ELSE "Failed"

\* The status that handle_syncing arrives at.
Outcome(statuses) ==
  CASE Count(statuses, "synced") = Len(statuses) -> "Synced"
    [] Count(statuses, "synced") # Len(statuses) /\ Count(statuses, "deployed") > 0 -> "Syncing"
    [] OTHER -> "Failed"

-----------------------------------------------------------------------------
(* reconcile.                                                               *)

Patch(o) == obj' = [o EXCEPT !.gen = obj.gen, !.spec = obj.spec]

Reconcile ==
  /\ work = Idle /\ exists
  /\ work' = [Idle EXCEPT !.at = cached.sync, !.obj = cached, !.fed = enabled]
  /\ UNCHANGED <<object, cluster, world>>

\* The federation is not found.
NoFederation ==
  /\ work = Idle /\ ~exists
  /\ Patch([cached EXCEPT !.sync = "Failed", !.observed = 0])
  /\ UNCHANGED <<cached, work, cluster, world>>

HandlePending ==
  LET o == work.obj IN
  /\ work.at = "Pending"
  /\ work' = Idle
  /\ IF ~Valid(o.spec) THEN UNCHANGED obj
     ELSE IF Targets(o.spec) = <<>> THEN Patch([o EXCEPT !.sync = "Failed", !.observed = 0])
     ELSE Patch([o EXCEPT !.sync = "Syncing", !.observed = o.gen])
  /\ UNCHANGED <<cached, cluster, world>>

StartSync(targets) ==
  work' = [work EXCEPT !.at = IF targets = <<>> THEN "synced" ELSE "secrets", !.todo = targets]

HandleSyncing ==
  /\ work.at = "Syncing"
  /\ StartSync(Targets(work.obj.spec))
  /\ UNCHANGED <<object, cluster, world>>

\* handle_out_of_sync
HandleOutOfSync ==
  /\ work.at = "OutOfSync"
  /\ Patch([work.obj EXCEPT !.sync = "Syncing"]) /\ StartSync(Targets(work.obj.spec))
  /\ UNCHANGED <<cached, cluster, world>>

\* Mutant: a failure is left for somebody to look at.
HandleFailedStays ==
  /\ work.at = "Failed"
  /\ work' = Idle
  /\ UNCHANGED <<object, cluster, world>>

HandleFailed ==
  /\ work.at = "Failed"
  /\ Patch([work.obj EXCEPT !.sync = "Syncing"]) /\ StartSync(Targets(work.obj.spec))
  /\ UNCHANGED <<cached, cluster, world>>

\* resolve_cluster_credentials and http_put_secret
CanPutSecret(c) == c \in up \cap Trusted

(* deploy_to_cluster: the secrets first, a failure being only logged, and   *)
(* then the pipeline.                                                       *)
DistributeSecret ==
  LET c == Head(work.todo) IN
  /\ work.at = "secrets"
  /\ work' = [work EXCEPT !.at = "post"]
  /\ copies' = IF CanPutSecret(c) THEN [copies EXCEPT ![c] = secret] ELSE copies
  /\ UNCHANGED <<object, remote, wiped, world>>

Status(c, yes) == [cluster |-> c, deployed |-> yes, synced |-> yes]

\* deploy_canary goes on to the others only if the first succeeded.
Rest(ok) ==
  IF work.obj.spec.strategy = "Canary" /\ work.done = <<>> /\ ~ok THEN <<>> ELSE Tail(work.todo)

\* http_deploy succeeds; is lost; or is carried out, and its answer lost.
HttpDeploy(c, reached, answered) == (reached => c \in up) /\ (answered => reached)

DeployToCluster ==
  LET c == Head(work.todo) IN
  /\ work.at = "post"
  /\ \E reached, answered \in BOOLEAN :
       /\ HttpDeploy(c, reached, answered)
       /\ (c \in up /\ ~answered) => faults < MaxFaults
       /\ remote' = IF reached THEN [remote EXCEPT ![c] = work.obj.gen] ELSE remote
       /\ wiped' = IF reached THEN wiped \ {c} ELSE wiped
       /\ work' = [work EXCEPT !.at = IF Rest(answered) = <<>> THEN "synced" ELSE "secrets",
                               !.todo = Rest(answered), !.done = Append(@, Status(c, answered))]
       /\ faults' = IF c \in up /\ ~answered THEN faults + 1 ELSE faults
  /\ UNCHANGED <<object, copies, enabled, exists, up, secret>>

\* The end of handle_syncing.
FinishSync ==
  /\ work.at = "synced"
  /\ work' = Idle
  /\ Patch([work.obj EXCEPT !.sync = Outcome(work.done), !.observed = work.obj.gen,
                            !.rolled = {work.done[i].cluster : i \in DOMAIN work.done}])
  /\ UNCHANGED <<cached, cluster, world>>

\* handle_synced.
HandleSynced ==
  LET o == work.obj IN
  /\ work.at = "Synced"
  /\ \/ /\ o.gen # o.observed
        /\ Patch([o EXCEPT !.sync = "OutOfSync"]) /\ work' = Idle
     \/ /\ o.gen = o.observed
        /\ work' = [work EXCEPT !.at = IF Targets(o.spec) = <<>> THEN "verified" ELSE "verify",
                                !.todo = Targets(o.spec)]
        /\ UNCHANGED obj
  /\ UNCHANGED <<cached, cluster, world>>

\* http_get_pipeline_status: the cluster answers, and has the pipeline.
HttpGetPipelineStatus(c) == c \in up /\ remote[c] # 0

\* verify_pipeline_on_cluster: the generation in the answer is not looked at.
VerifyOnCluster ==
  LET c == Head(work.todo) IN
  /\ work.at = "verify"
  /\ work' = [work EXCEPT !.at = IF Tail(work.todo) = <<>> THEN "verified" ELSE "verify",
                          !.todo = Tail(@), !.done = Append(@, Status(c, HttpGetPipelineStatus(c)))]
  /\ UNCHANGED <<object, cluster, world>>

FinishVerify ==
  /\ work.at = "verified"
  /\ work' = Idle
  /\ Patch([work.obj EXCEPT !.sync = IF Count(work.done, "synced") < Len(work.done)
                                     THEN "OutOfSync" ELSE "Synced"])
  /\ UNCHANGED <<cached, cluster, world>>

\* A call of the Kubernetes API fails, or the operator is restarted.
Abort ==
  /\ work # Idle /\ faults < MaxFaults
  /\ work' = Idle /\ faults' = faults + 1 /\ cached' = obj
  /\ UNCHANGED <<obj, cluster, enabled, exists, up, secret>>

Watch == cached # obj /\ cached' = obj /\ UNCHANGED <<obj, work, cluster, world>>

-----------------------------------------------------------------------------
(* The surroundings.                                                        *)

Edit ==
  /\ obj.gen < MaxGen
  /\ \E s \in Specs : obj' = [obj EXCEPT !.gen = @ + 1, !.spec = s]
  /\ UNCHANGED <<cached, work, cluster, world>>

\* handle_secret_change annotates the object, which leaves its generation.
RotateSecret ==
  /\ secret < MaxSecret /\ secret' = secret + 1
  /\ UNCHANGED <<object, work, cluster, enabled, exists, up, faults>>

Fault ==
  /\ faults < MaxFaults /\ faults' = faults + 1
  /\ \/ \E c \in up : up' = up \ {c} /\ UNCHANGED <<cluster, enabled, exists>>
     \/ \E c \in Clusters :
          /\ remote' = [remote EXCEPT ![c] = 0] /\ copies' = [copies EXCEPT ![c] = 0]
          /\ wiped' = wiped \cup {c}
          /\ UNCHANGED <<up, enabled, exists>>
     \/ exists' = FALSE /\ UNCHANGED <<up, cluster, enabled>>
     \/ \E c \in enabled : enabled' = enabled \ {c} /\ UNCHANGED <<cluster, up, exists>>
  /\ UNCHANGED <<object, work, secret>>

Repair ==
  /\ \/ \E c \in Clusters \ up : up' = up \cup {c} /\ UNCHANGED <<enabled, exists>>
     \/ ~exists /\ exists' = TRUE /\ UNCHANGED <<up, enabled>>
     \/ \E c \in Clusters \ enabled : enabled' = enabled \cup {c} /\ UNCHANGED <<up, exists>>
  /\ UNCHANGED <<object, work, cluster, secret, faults>>

-----------------------------------------------------------------------------
Controller ==
  \/ Reconcile \/ NoFederation \/ HandlePending \/ HandleSyncing \/ HandleOutOfSync \/ HandleFailed
  \/ DistributeSecret \/ DeployToCluster \/ FinishSync
  \/ HandleSynced \/ VerifyOnCluster \/ FinishVerify

Next == Controller \/ Abort \/ Watch \/ Edit \/ RotateSecret \/ Fault \/ Repair

(* The controller requeues every object after at most five minutes, the     *)
(* watch delivers every change, and what is broken is repaired.             *)
Fairness == WF_vars(Controller) /\ WF_vars(Watch) /\ WF_vars(Repair)

Spec == Init /\ [][Next]_vars /\ Fairness

-----------------------------------------------------------------------------
(* When the status says Synced, every cluster of the last rollout has run   *)
(* at least the observed generation, except one that has lost it since:     *)
(* whatever failed, was answered late or was interrupted by an edit or a    *)
(* restart of the operator.                                                 *)
SyncedIsRolledOut ==
  obj.sync = "Synced" => \A c \in obj.rolled \ wiped : remote[c] >= obj.observed

(* The rollout converges: edits, outages, lost answers and restarts come to *)
(* an end, and then the status comes to say Synced for the current          *)
(* generation, unless that is refused by validate_spec.                     *)
RolloutConverges == <>[](Valid(obj.spec) => obj.sync = "Synced" /\ obj.observed = obj.gen)
=============================================================================
