------------------------------ MODULE Federation ------------------------------
(***************************************************************************)
(* The health of a federation as its controller sees it (xerv-operator     *)
(* controller/federation.rs).  A reconciliation asks one member after the  *)
(* other, and meanwhile their health may change.  The member clusters and  *)
(* the Kubernetes API are external.                                        *)
(***************************************************************************)
EXTENDS Naturals, Sequences, FiniteSets

CONSTANTS
  Members,     \* the clusters there are: a sequence of names
  Specs,       \* specs of a federation: [clusters, named], the names of its
               \* members, and the names that its routing refers to
  MaxChanges   \* bound: changes of a cluster's health, of the spec, and failed calls

VARIABLES
  phase,       \* status.phase
  statuses,    \* status.cluster_statuses: sequence of [reachable, healthy, stats]
  check,       \* the reconciliation: [at, todo, seen, done]
  health,      \* cluster -> "ok", "refusing" or "hanging"
  spec,
  changes

vars == <<phase, statuses, check, health, spec, changes>>

Clusters == {Members[i] : i \in DOMAIN Members}
Idle == [at |-> "idle", todo |-> <<>>, seen |-> <<>>, done |-> <<>>]

Init ==
  /\ phase = "Pending" /\ statuses = <<>> /\ check = Idle
  /\ health \in [Clusters -> {"ok", "refusing", "hanging"}]
  /\ spec \in Specs /\ changes = 0

-----------------------------------------------------------------------------
\* validate_spec: members with different names, and routing among them.
ValidSpec(s) ==
  LET names == {s.clusters[i] : i \in DOMAIN s.clusters} IN
  /\ s.clusters # <<>> /\ Cardinality(names) = Len(s.clusters)
  /\ s.named \subseteq names

\* handle_pending: an invalid spec is an error, to be tried again.
HandlePending ==
  /\ phase = "Pending" /\ check = Idle /\ ValidSpec(spec)
  /\ phase' = "Initializing"
  /\ UNCHANGED <<statuses, check, health, spec, changes>>

\* The other handlers ask the members of the spec, valid or not.
StartCheck ==
  /\ phase # "Pending" /\ check = Idle
  /\ check' = [Idle EXCEPT !.at = phase, !.todo = spec.clusters]
  /\ UNCHANGED <<phase, statuses, health, spec, changes>>

\* http_health_check, within the timeout.  A refusal is an answer.
HttpHealthCheck(h) == [reachable |-> h # "hanging", healthy |-> h = "ok"]

CheckSingleClusterHealth ==
  /\ check.todo # <<>> /\ check.seen = <<>>
  /\ check' = [check EXCEPT !.seen = <<HttpHealthCheck(health[Head(check.todo)])>>]
  /\ UNCHANGED <<phase, statuses, health, spec, changes>>

\* The statistics come by another request, of a cluster that was reachable.
FetchClusterStats ==
  /\ check.seen # <<>>
  /\ LET seen == check.seen[1]
         stats == seen.reachable /\ health[Head(check.todo)] = "ok"
     IN  check' = [check EXCEPT !.todo = Tail(@), !.seen = <<>>,
                     !.done = Append(@, [reachable |-> seen.reachable, healthy |-> seen.healthy, stats |-> stats])]
  /\ UNCHANGED <<phase, statuses, health, spec, changes>>

Healthy(done) == Cardinality({i \in DOMAIN done : done[i].healthy})

PhaseOf(done) ==
  CASE Healthy(done) = Len(done) -> "Healthy"
    [] Healthy(done) \in 1..Len(done) - 1 -> "Degraded"
    [] OTHER -> "Failed"

Report(at) ==
  /\ check.at = at /\ check.todo = <<>>
  /\ phase' = PhaseOf(check.done) /\ statuses' = check.done
  /\ check' = Idle
  /\ UNCHANGED <<health, spec, changes>>

HandleInitializing == Report("Initializing")
HandleHealthy == Report("Healthy")
HandleDegraded == Report("Degraded")

\* Mutant: a federation that failed stays so.
HandleFailedForGood ==
  /\ check.at = "Failed" /\ check.todo = <<>>
  /\ statuses' = check.done /\ check' = Idle
  /\ UNCHANGED <<phase, health, spec, changes>>

HandleFailed == Report("Failed")

-----------------------------------------------------------------------------
Change ==
  /\ changes < MaxChanges /\ changes' = changes + 1
  /\ \/ \E c \in Clusters, h \in {"ok", "refusing", "hanging"} :
          health' = [health EXCEPT ![c] = h] /\ UNCHANGED <<check, spec>>
     \/ spec' \in Specs /\ UNCHANGED <<check, health>>
     \/ check # Idle /\ check' = Idle /\ UNCHANGED <<health, spec>>
  /\ UNCHANGED <<phase, statuses>>

Controller ==
  \/ HandlePending \/ StartCheck \/ CheckSingleClusterHealth \/ FetchClusterStats
  \/ HandleInitializing \/ HandleHealthy \/ HandleDegraded \/ HandleFailed

Next == Controller \/ Change

\* Every phase requeues.
Fairness == WF_vars(Controller)

Spec == Init /\ [][Next]_vars /\ Fairness

-----------------------------------------------------------------------------
(* Once the members and the spec stay as they are, the phase and the        *)
(* statuses come to say how the members of the spec are, one by one, from   *)
(* whatever phase the changes on the way have led to.  Only a spec that was *)
(* invalid from the first stays pending.                                    *)
PhaseFollowsHealth ==
  <>[](\/ phase = "Pending" /\ ~ValidSpec(spec)
       \/ /\ statuses = [i \in DOMAIN spec.clusters |->
                           LET h == health[spec.clusters[i]] IN
                           [reachable |-> h # "hanging", healthy |-> h = "ok", stats |-> h = "ok"]]
          /\ phase = PhaseOf(statuses))
=============================================================================
