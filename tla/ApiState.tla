----------------------------- MODULE ApiState ------------------------------
(***************************************************************************)
(* What the handlers of the HTTP API share besides the controller          *)
(* (api/state.rs): the rate limiter of one client address, a sliding       *)
(* window over the times of the requests it let through, and the bounded   *)
(* history of traces that handlers/{traces,triggers}.rs keep.              *)
(***************************************************************************)
EXTENDS Naturals, Sequences

CONSTANTS
  MaxPerWindow, Window, MaxClock,
  HistoryCapacity,   \* MAX_TRACE_HISTORY
  MaxTraces          \* bound on the traces that are recorded

ApiStateConstants ==
  /\ {MaxPerWindow, HistoryCapacity} \subseteq Nat \ {0}
  /\ {Window, MaxClock, MaxTraces} \subseteq Nat

VARIABLES
  clock,
  requests,  \* the queue of the address, oldest first
  granted,   \* the times of all requests ever let through
  history,   \* TraceHistory: sequence of [trace, status]
  traces,    \* traces recorded so far
  firing     \* traces whose event the pipeline has not answered yet

limiter == <<clock, requests, granted>>
vars == <<limiter, history, traces, firing>>

TypeOK ==
  /\ clock \in 0 .. MaxClock /\ {requests, granted} \subseteq Seq(0 .. MaxClock)
  /\ history \in Seq([trace : 1 .. MaxTraces,
                      status : {"running", "failed", "suspended", "canceled"}])
  /\ traces \in 0 .. MaxTraces /\ firing \subseteq 1 .. MaxTraces

Init ==
  /\ clock = 0 /\ requests = <<>> /\ granted = <<>>
  /\ history = <<>> /\ traces = 0 /\ firing = {}

-----------------------------------------------------------------------------
Advance ==
  /\ clock < MaxClock /\ clock' = clock + 1
  /\ UNCHANGED <<requests, granted, history, traces, firing>>

\* Mutant: a request that is just a window old has left it.
OldEarly(i) == clock - requests[i] >= Window

\* pop_front while the oldest request has left the window: n of them go.
Old(i) == clock - requests[i] > Window
Expired(n) == (\A i \in 1 .. n : Old(i)) /\ (n < Len(requests) => ~Old(n + 1))

\* RateLimiter::allow
Allow ==
  /\ \E n \in 0 .. Len(requests) :
       LET queue == SubSeq(requests, n + 1, Len(requests)) IN
       /\ Expired(n)
       /\ IF Len(queue) >= MaxPerWindow
          THEN requests' = queue /\ UNCHANGED granted
          ELSE requests' = Append(queue, clock) /\ granted' = Append(granted, clock)
  /\ UNCHANGED <<clock, history, traces, firing>>

-----------------------------------------------------------------------------
\* TraceHistory::push: a full history forgets its oldest record.
Push(t) ==
  history' = Append(IF Len(history) >= HistoryCapacity THEN Tail(history) ELSE history,
                    [trace |-> t, status |-> "running"])

Mark(t, s) ==
  history' = [n \in DOMAIN history |->
                IF history[n].trace = t THEN [history[n] EXCEPT !.status = s] ELSE history[n]]

\* POST /traces makes a record and nothing else.
CreateTrace ==
  /\ traces < MaxTraces
  /\ traces' = traces + 1 /\ Push(traces')
  /\ UNCHANGED <<limiter, firing>>

\* A trigger is fired: the record is made before the pipeline is asked.
FireTrigger ==
  /\ traces < MaxTraces
  /\ traces' = traces + 1 /\ Push(traces')
  /\ firing' = firing \cup {traces'}
  /\ UNCHANGED limiter

\* The pipeline accepts the event, or refuses it and the record is marked.
FireAnswered(t) ==
  /\ t \in firing /\ firing' = firing \ {t}
  /\ UNCHANGED history \/ Mark(t, "failed")
  /\ UNCHANGED <<limiter, traces>>

\* suspend, resume and cancel only change the record.
UpdateTraceStatus(s) ==
  /\ \E n \in DOMAIN history : Mark(history[n].trace, s)
  /\ UNCHANGED <<limiter, traces, firing>>

SuspendTrace == UpdateTraceStatus("suspended")
ResumeTrace == UpdateTraceStatus("running")
CancelTrace == UpdateTraceStatus("canceled")

-----------------------------------------------------------------------------
Next ==
  \/ Advance \/ Allow \/ CreateTrace \/ FireTrigger
  \/ \E t \in 1 .. MaxTraces : FireAnswered(t)
  \/ SuspendTrace \/ ResumeTrace \/ CancelTrace

Spec == Init /\ [][Next]_vars

(* No window of the configured length, wherever it begins, contains more    *)
(* than max_per_window requests that were let through.                      *)
RateBounded ==
  \A i \in 1 .. Len(granted) - MaxPerWindow :
    granted[i + MaxPerWindow] - granted[i] > Window
=============================================================================
