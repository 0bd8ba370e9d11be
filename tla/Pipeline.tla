------------------------------ MODULE Pipeline ------------------------------
(***************************************************************************)
(* One pipeline of xerv-executor (pipeline/controller.rs): its life cycle  *)
(* under a tokio RwLock, the counters that drain waits on, and the events  *)
(* and resumptions that race with it.  The executor is seen from outside:  *)
(* start_trace is accepted or refused, execute_trace ends well, badly, or  *)
(* leaves the trace suspended.                                             *)
(***************************************************************************)
EXTENDS Integers, FiniteSets

CONSTANTS
  Events,        \* trigger events, one trace each
  StartFails,    \* may Executor::start_trace return Err?
  TriggerFails,  \* may a trigger refuse to stop?
  Threshold      \* [num, den]: PipelineSettings::circuit_breaker_threshold

ASSUME EventsAssumption == IsFiniteSet(Events)

ASSUME ThresholdAssumption ==
  /\ Threshold \in [num : Nat, den : Nat \ {0}]
  /\ StartFails \in BOOLEAN /\ TriggerFails \in BOOLEAN

VARIABLES
  state,      \* PipelineState
  draining,   \* does a call of drain hold the write lock on state?
  started, completed, failed, active,     \* PipelineMetrics
  phase,      \* event -> how far handle_event and its task have come
  suspended,  \* events whose trace waits at a wait node
  resumption  \* event -> how far a resumption of its trace has come

metrics == <<started, completed, failed, active>>
vars == <<state, draining, metrics, phase, suspended, resumption>>

States == {"Initializing", "Running", "Paused", "Draining", "Stopped"}
Phases == {"idle", "checked", "started", "counted", "executing",
           "ok", "err", "completed", "failed", "over", "refused"}

TypeOK ==
  /\ state \in States
  /\ draining \in BOOLEAN
  /\ {started, completed, failed, active} \subseteq Nat
  /\ phase \in [Events -> Phases]
  /\ suspended \subseteq Events
  /\ resumption \in [Events -> {"none", "checked", "executing"}]

Init ==
  /\ state = "Initializing" /\ draining = FALSE
  /\ started = 0 /\ completed = 0 /\ failed = 0 /\ active = 0
  /\ phase = [e \in Events |-> "idle"]
  /\ suspended = {}
  /\ resumption = [e \in Events |-> "none"]

-----------------------------------------------------------------------------
(* The life cycle.  Every operation takes the write lock; only drain keeps  *)
(* it while others run.                                                     *)

Become(s) ==
  /\ state' = s
  /\ UNCHANGED <<draining, metrics, phase, suspended, resumption>>

Start == ~draining /\ state \in {"Initializing", "Stopped"} /\ Become("Running")
\* A trigger that fails makes pause and resume return Err in the new state.
Pause == ~draining /\ state = "Running" /\ Become("Paused")
Resume == ~draining /\ state = "Paused" /\ Become("Running")
\* stop waits for nothing; with a failing trigger it leaves the state alone.
Stop == ~draining /\ Become("Stopped")

(* The triggers are stopped once the state is Draining.  If one of them     *)
(* fails, drain returns and the state stays.                                *)
DrainBegin ==
  /\ ~draining /\ state \in {"Running", "Paused"}
  /\ state' = "Draining"
  /\ draining' \in IF TriggerFails THEN BOOLEAN ELSE {TRUE}
  /\ UNCHANGED <<metrics, phase, suspended, resumption>>

\* Mutant: drain does not wait.
DrainEndAtOnce ==
  /\ draining
  /\ draining' = FALSE /\ state' = "Stopped"
  /\ UNCHANGED <<metrics, phase, suspended, resumption>>
\* The loop that polls traces_active sees zero.
DrainEnd ==
  /\ draining /\ active = 0
  /\ draining' = FALSE /\ state' = "Stopped"
  /\ UNCHANGED <<metrics, phase, suspended, resumption>>

-----------------------------------------------------------------------------
(* handle_event and the task it spawns.  The counters are atomics of their  *)
(* own: every update is a step.                                             *)

ErrorRateTooHigh == started > 0 /\ failed * Threshold.den > started * Threshold.num

To(e, p) == phase' = [phase EXCEPT ![e] = p]

\* Under the read lock, which is released before anything is counted.
Check(e) ==
  /\ phase[e] = "idle"
  /\ ~draining /\ state = "Running" /\ ~ErrorRateTooHigh
  /\ To(e, "checked")
  /\ UNCHANGED <<state, draining, metrics, suspended, resumption>>

CountStarted(e) ==
  /\ phase[e] = "checked"
  /\ started' = started + 1
  /\ To(e, "started")
  /\ UNCHANGED <<state, draining, completed, failed, active, suspended, resumption>>

\* Mutant: the trace is counted when it ends, not before it starts.
CountActiveLate(e) ==
  /\ phase[e] = "started"
  /\ To(e, "counted")
  /\ UNCHANGED <<state, draining, metrics, suspended, resumption>>
CountActive(e) ==
  /\ phase[e] = "started"
  /\ active' = active + 1
  /\ To(e, "counted")
  /\ UNCHANGED <<state, draining, started, completed, failed, suspended, resumption>>

\* Executor::start_trace; its error is returned with the trace still counted.
StartTrace(e) ==
  /\ phase[e] = "counted"
  /\ \E p \in {"executing"} \cup (IF StartFails THEN {"refused"} ELSE {}) : To(e, p)
  /\ UNCHANGED <<state, draining, metrics, suspended, resumption>>

\* Executor::execute_trace returns; Ok also when the trace has been suspended.
Execute(e) ==
  /\ phase[e] = "executing"
  /\ \/ To(e, "ok") /\ suspended' \in {suspended, suspended \cup {e}}
     \/ To(e, "err") /\ UNCHANGED suspended
  /\ UNCHANGED <<state, draining, metrics, resumption>>

CountCompleted(e) ==
  /\ phase[e] = "ok"
  /\ completed' = completed + 1
  /\ To(e, "completed")
  /\ UNCHANGED <<state, draining, started, failed, active, suspended, resumption>>

CountFailed(e) ==
  /\ phase[e] = "err"
  /\ failed' = failed + 1
  /\ To(e, "failed")
  /\ UNCHANGED <<state, draining, started, completed, active, suspended, resumption>>

\* Mutant: only a completed trace is counted off.
CountOffCompleted(e) ==
  /\ phase[e] \in {"completed", "failed"}
  /\ active' = IF phase[e] = "completed" THEN active - 1 ELSE active
  /\ To(e, "over")
  /\ UNCHANGED <<state, draining, started, completed, failed, suspended, resumption>>
\* The second half of record_trace_complete and record_trace_failed.
CountOff(e) ==
  /\ phase[e] \in {"completed", "failed"}
  /\ active' = active - 1
  /\ To(e, "over")
  /\ UNCHANGED <<state, draining, started, completed, failed, suspended, resumption>>

-----------------------------------------------------------------------------
(* resume_suspended_trace: the same check, and no counting.                 *)

ResumeCheck(e) ==
  /\ e \in suspended /\ resumption[e] = "none"
  /\ ~draining /\ state = "Running"
  /\ resumption' = [resumption EXCEPT ![e] = "checked"]
  /\ UNCHANGED <<state, draining, metrics, phase, suspended>>

\* The executor takes the trace from the suspension store, or refuses.
ResumeTrace(e) ==
  /\ resumption[e] = "checked"
  /\ suspended' = suspended \ {e}
  /\ resumption' \in {[resumption EXCEPT ![e] = "executing"], [resumption EXCEPT ![e] = "none"]}
  /\ UNCHANGED <<state, draining, metrics, phase>>

ResumeExecute(e) ==
  /\ resumption[e] = "executing"
  /\ resumption' = [resumption EXCEPT ![e] = "none"]
  /\ suspended' \in {suspended, suspended \cup {e}}
  /\ UNCHANGED <<state, draining, metrics, phase>>

-----------------------------------------------------------------------------
EventStep(e) ==
  \/ CountStarted(e) \/ CountActive(e) \/ StartTrace(e) \/ Execute(e)
  \/ CountCompleted(e) \/ CountFailed(e) \/ CountOff(e)
  \/ ResumeTrace(e) \/ ResumeExecute(e)

Next ==
  \/ Start \/ Pause \/ Resume \/ Stop \/ DrainBegin \/ DrainEnd
  \/ \E e \in Events : Check(e) \/ EventStep(e) \/ ResumeCheck(e)

(* tokio polls the tasks, the executor brings every trace to rest, and the  *)
(* loop of drain wakes every 100 ms.                                        *)
Spec == Init /\ [][Next]_vars
FairSpec == Spec /\ WF_vars(DrainEnd) /\ \A e \in Events : WF_vars(EventStep(e))

-----------------------------------------------------------------------------
\* The events whose trace has been counted and not counted off.
Counted == {e \in Events : phase[e] \notin {"idle", "checked", "started", "over"}}

(***************************************************************************)
(* traces_active counts, up to the updates under way, the traces between   *)
(* record_trace_start and record_trace_complete or record_trace_failed,    *)
(* and the refused ones for ever.  It never falls below zero, where the    *)
(* AtomicU64 would wrap.                                                   *)
(***************************************************************************)
ActiveIsAccurate == active = Cardinality(Counted)

(***************************************************************************)
(* "In-flight traces complete before termination" (docs/architecture.md):  *)
(* when drain reports the pipeline as stopped, no trace an event has       *)
(* started is executing any more.  (A resumed trace is not counted and may *)
(* be.)                                                                    *)
(***************************************************************************)
DrainWaits ==
  [][draining /\ state' = "Stopped" =>
       \A e \in Events : phase[e] \notin {"counted", "executing", "refused"}]_vars

(***************************************************************************)
(* drain returns, unless start_trace has refused an event: the refused     *)
(* event stays counted and drain keeps the write lock for ever.            *)
(***************************************************************************)
DrainEnds == draining ~> (~draining \/ \E e \in Events : phase[e] = "refused")
=============================================================================
