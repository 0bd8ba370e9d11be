------------------------------- MODULE Resume -------------------------------
(***************************************************************************)
(* How a decision reaches a suspended trace: the resume handlers of the    *)
(* API (xerv-executor api/handlers/resume.rs), the store of suspensions    *)
(* (suspension/store.rs), the pipelines that come and go, and the          *)
(* processor of timeouts (suspension/timeout.rs).  A wait node's hook is   *)
(* fixed in the flow, so that a hook is used by one trace after another,   *)
(* and by several pipelines.  What resuming does to the trace is in the    *)
(* module Executor.  The executors are taken to have the store of the API, *)
(* as with_suspension_store gives it to them; PipelineBuilder::build gives *)
(* them none.                                                              *)
(***************************************************************************)
EXTENDS Naturals, FiniteSets

CONSTANTS
  Clients,        \* callers of the API
  Hooks,
  Owner,          \* trace -> its pipeline
  Decisions,      \* what a caller may send; those in Ports are understood
  Ports,          \* decision -> output_port
  MaxSuspensions, MaxResumes, MaxDeploys   \* bounds; a deployment that follows a deletion is not counted

VARIABLES
  store,          \* suspensions: hook -> [trace, pipeline, serial, expired]
  pending,        \* pending_resumes: hook -> decision
  deployed,       \* pipeline -> its instance and whether it is Running
  traces,         \* trace -> [st, hook]
  client,         \* per caller: the request, and what is known of it
  sweep,          \* the processor, or a cleanup: [op, list]
  serial,         \* ghost: suspensions so far
  taken,          \* ghost: per suspension, who took it: "http", "timeout", "cleanup" or "overwritten"
  count           \* bounds: [resumes, deploys]

vars == <<store, pending, deployed, traces, client, sweep, serial, taken, count>>

Traces == DOMAIN Owner
Pipelines == {Owner[t] : t \in Traces}
NoCall == [pc |-> "idle"]
NoSweep == [op |-> "none", list |-> {}]
Put(f, key, x) == [k \in DOMAIN f \cup {key} |-> IF k = key THEN x ELSE f[k]]
Drop(f, key) == [k \in DOMAIN f \ {key} |-> f[k]]

Init ==
  /\ store = <<>> /\ pending = <<>>
  /\ deployed = [p \in Pipelines |-> [instance |-> 1, running |-> TRUE]]
  /\ traces = [t \in Traces |-> [st |-> "running", hook |-> "none"]]
  /\ client = [c \in Clients |-> NoCall] /\ sweep = NoSweep
  /\ serial = 0 /\ taken = <<>> /\ count = [resumes |-> 0, deploys |-> 0]

-----------------------------------------------------------------------------
(* A trace suspends: the hook is looked for and put in under two locks.     *)
SuspendCheck(t, h) ==
  /\ traces[t].st = "running" /\ serial < MaxSuspensions
  /\ traces' = [traces EXCEPT ![t] = [st |-> IF h \in DOMAIN store THEN "failed" ELSE "suspending", hook |-> h]]
  /\ UNCHANGED <<store, pending, deployed, client, sweep, serial, taken, count>>

SuspendInsert(t) ==
  LET h == traces[t].hook IN
  /\ traces[t].st = "suspending" /\ traces' = [traces EXCEPT ![t].st = "suspended"]
  /\ store' = Put(store, h, [trace |-> t, pipeline |-> Owner[t], serial |-> serial + 1, expired |-> FALSE])
  /\ serial' = serial + 1
  /\ taken' = [s \in 1 .. serial + 1 |->
                 IF s = serial + 1 THEN {}
                 ELSE IF h \in DOMAIN store /\ s = store[h].serial THEN taken[s] \cup {"overwritten"}
                 ELSE taken[s]]
  /\ UNCHANGED <<pending, deployed, client, sweep, count>>

Expire(h) ==
  /\ h \in DOMAIN store /\ ~store[h].expired /\ store' = [store EXCEPT ![h].expired = TRUE]
  /\ UNCHANGED <<pending, deployed, traces, client, sweep, serial, taken, count>>

\* Mutant: the entry stays.
TakeKeeping(h, decision, who) ==
  /\ store' = store /\ pending' = Put(pending, h, decision)
  /\ taken' = [taken EXCEPT ![store[h].serial] = @ \cup {who}]

\* MemorySuspensionStore::resume, of a hook that is there.
Take(h, decision, who) ==
  /\ store' = Drop(store, h) /\ pending' = Put(pending, h, decision)
  /\ taken' = [taken EXCEPT ![store[h].serial] = @ \cup {who}]

-----------------------------------------------------------------------------
(* POST /resume/hook.                                                       *)
Reply(c, status) == client' = [client EXCEPT ![c] = [pc |-> "done", status |-> status]]
calm == <<deployed, sweep, serial>>

Post(c, h, decision) ==
  /\ client[c].pc \in {"idle", "done"} /\ count.resumes < MaxResumes
  /\ count' = [count EXCEPT !.resumes = @ + 1]
  /\ IF decision \notin DOMAIN Ports THEN Reply(c, 400)
     ELSE client' = [client EXCEPT ![c] = [pc |-> "get", hook |-> h, decision |-> decision]]
  /\ UNCHANGED <<store, pending, traces, taken, calm>>

\* The entry tells whose pipeline it is.
Get(c) ==
  LET h == client[c].hook IN
  /\ client[c].pc = "get"
  /\ IF h \notin DOMAIN store THEN Reply(c, 404)
     ELSE client' = [client EXCEPT ![c] = [pc |-> "lookup", hook |-> h, decision |-> client[c].decision, saw |-> store[h]]]
  /\ UNCHANGED <<store, pending, traces, taken, count, calm>>

Lookup(c) ==
  LET p == client[c].saw.pipeline IN
  /\ client[c].pc = "lookup"
  /\ IF p \notin DOMAIN deployed THEN Reply(c, 404)
     ELSE client' = [client EXCEPT ![c] = [pc |-> "state", hook |-> client[c].hook, decision |-> client[c].decision,
                                           saw |-> client[c].saw, instance |-> deployed[p].instance]]
  /\ UNCHANGED <<store, pending, traces, taken, count, calm>>

\* Pipeline::resume_suspended_trace: of the instance that was found; one that
\* was deleted since is not Running.
CheckState(c) ==
  LET p == client[c].saw.pipeline IN
  /\ client[c].pc = "state"
  /\ IF p \in DOMAIN deployed /\ deployed[p] = [instance |-> client[c].instance, running |-> TRUE]
     THEN client' = [client EXCEPT ![c].pc = "take"] ELSE Reply(c, 503)
  /\ UNCHANGED <<store, pending, traces, taken, count, calm>>

\* Executor::resume_suspended_trace; the arena may be gone by now.
ResumeTake(c) ==
  LET h == client[c].hook IN
  /\ client[c].pc = "take"
  /\ \/ /\ h \notin DOMAIN store /\ Reply(c, 404)
        /\ UNCHANGED <<store, pending, traces, taken>>
     \/ /\ h \in DOMAIN store /\ Take(h, client[c].decision, "http")
        /\ \E opened \in BOOLEAN :
             /\ traces' = [traces EXCEPT ![store[h].trace] =
                             [st |-> IF opened THEN "running" ELSE "lost", hook |-> "none"]]
             /\ client' = [client EXCEPT ![c] =
                             [pc |-> "done", status |-> IF opened THEN 200 ELSE 500, hook |-> h,
                              saw |-> client[c].saw, got |-> store[h]]]
  /\ UNCHANGED <<count, calm>>

-----------------------------------------------------------------------------
(* process_expired and cleanup_expired: a list is made first.               *)
Sweep(op) ==
  /\ sweep = NoSweep
  /\ LET expired == {h \in DOMAIN store : store[h].expired} IN
     expired # {} /\ sweep' = [op |-> op, list |-> {[hook |-> h, serial |-> store[h].serial] : h \in expired}]
  /\ UNCHANGED <<store, pending, deployed, traces, client, serial, taken, count>>

\* Nobody drives the trace on after its timeout.
Swept(x) ==
  LET rest == sweep.list \ {x} IN
  /\ x \in sweep.list /\ sweep' = IF rest = {} THEN NoSweep ELSE [sweep EXCEPT !.list = rest]
  /\ IF x.hook \notin DOMAIN store THEN UNCHANGED <<store, pending, traces, taken>>
     ELSE /\ traces' = [traces EXCEPT ![store[x.hook].trace].st = IF sweep.op = "timeout" THEN "decided" ELSE "lost"]
          /\ IF sweep.op = "timeout" THEN Take(x.hook, "timeout", "timeout")
             ELSE /\ store' = Drop(store, x.hook) /\ UNCHANGED pending
                  /\ taken' = [taken EXCEPT ![store[x.hook].serial] = @ \cup {"cleanup"}]
  /\ UNCHANGED <<deployed, client, serial, count>>

-----------------------------------------------------------------------------
(* Pipelines are deleted, deployed again, and paused.                       *)
Change(p) ==
  /\ \/ /\ p \in DOMAIN deployed /\ count.deploys < MaxDeploys /\ count' = [count EXCEPT !.deploys = @ + 1]
        /\ deployed' = Drop(deployed, p) \/ deployed' = [deployed EXCEPT ![p].running = ~@]
     \/ /\ p \notin DOMAIN deployed /\ deployed' = Put(deployed, p, [instance |-> 2, running |-> TRUE])
        /\ UNCHANGED count
  /\ UNCHANGED <<store, pending, traces, client, sweep, serial, taken>>

Next ==
  \/ \E t \in Traces : (\E h \in Hooks : SuspendCheck(t, h)) \/ SuspendInsert(t)
  \/ \E h \in Hooks : Expire(h)
  \/ \E c \in Clients : (\E h \in Hooks, d \in Decisions : Post(c, h, d)) \/ Get(c) \/ Lookup(c) \/ CheckState(c) \/ ResumeTake(c)
  \/ Sweep("timeout") \/ Sweep("cleanup") \/ (\E x \in sweep.list : Swept(x))
  \/ \E p \in Pipelines : Change(p)

Spec == Init /\ [][Next]_vars

-----------------------------------------------------------------------------
Answered(c, status) == client[c].pc = "done" /\ client[c].status = status

(* A suspension ends once: by one decision, by its timeout, by a cleanup,   *)
(* or by another that took its hook; and as long as it has not ended, its   *)
(* entry is in the store and its trace waits.                               *)
EndsOnce ==
  \A s \in 1 .. serial :
    /\ Cardinality(taken[s]) <= 1
    /\ taken[s] = {} <=> \E h \in DOMAIN store : store[h].serial = s
StoredWaits ==
  /\ \A h \in DOMAIN store : traces[store[h].trace] = [st |-> "suspended", hook |-> h]
  /\ \A t \in Traces : traces[t].st = "suspended" /\ ~(\E h \in DOMAIN store : store[h].trace = t)
       => \E s \in 1 .. serial : taken[s] = {"overwritten"}

(* A caller whose request is answered with success has decided, with what   *)
(* it sent, on the suspension that was under the hook when it asked, unless *)
(* that one has ended meanwhile and the hook was used again.                *)
DecidesOnWhatItSaw ==
  \A c \in Clients : Answered(c, 200) =>
    LET saw == client[c].saw  got == client[c].got IN
    /\ "http" \in taken[got.serial] /\ client[c].hook \in DOMAIN pending
    /\ got.serial = saw.serial \/ (got.serial > saw.serial /\ taken[saw.serial] # {} )
    /\ got.pipeline = saw.pipeline \/ got.serial # saw.serial

(* What a timeout or a cleanup is about to end has expired, unless the hook *)
(* was used again since the list was made.                                  *)
OnlyExpiredSwept ==
  \A x \in sweep.list :
    x.hook \in DOMAIN store /\ store[x.hook].serial = x.serial => store[x.hook].expired

(* Decisions reach the suspensions they are for.                            *)
ResumesRight == EndsOnce /\ StoredWaits /\ DecidesOnWhatItSaw /\ OnlyExpiredSwept
=============================================================================
