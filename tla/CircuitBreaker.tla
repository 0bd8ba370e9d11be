--------------------------- MODULE CircuitBreaker ---------------------------
(***************************************************************************)
(* CircuitBreaker of xerv-executor (circuit_breaker.rs).  The state, the   *)
(* time it opened, the recent failures and the successes of the half-open  *)
(* state lie under locks of their own, so that every read and every write  *)
(* of one of them is a step and calls of several threads interleave.       *)
(***************************************************************************)
EXTENDS Integers, Sequences

CONSTANTS
  Threads,
  FailureThreshold, FailureWindow, RecoveryTimeout, SuccessThreshold,
  MaxTime      \* bound on the clock

BreakerConstants ==
  /\ {FailureThreshold, SuccessThreshold} \subseteq Nat \ {0}
  /\ {FailureWindow, RecoveryTimeout, MaxTime} \subseteq Nat

VARIABLES
  now,
  circuit,     \* CircuitState
  failures,    \* times of the recent failures, oldest first
  successes,   \* half_open_successes
  opened_at,   \* <<>> or <<time>>
  pc,          \* thread -> the next step of its call
  since,       \* thread -> Instant::now() of its record_failure
  contended   \* has a call ever begun while another was under way?

vars == <<now, circuit, failures, successes, opened_at, pc, since, contended>>

Steps == {"idle", "open", "probe", "zero", "add", "close", "unset", "clear",
          "fail", "trip", "stamp", "restamp", "restart", "reset2", "reset3"}

TypeOK ==
  /\ now \in 0 .. MaxTime
  /\ circuit \in {"Closed", "Open", "HalfOpen"}
  /\ failures \in Seq(0 .. MaxTime)
  /\ successes \in Nat
  /\ opened_at \in {<<>>} \cup {<<t>> : t \in 0 .. MaxTime}
  /\ pc \in [Threads -> Steps] /\ since \in [Threads -> 0 .. MaxTime]
  /\ contended \in BOOLEAN

Init ==
  /\ now = 0 /\ circuit = "Closed" /\ failures = <<>> /\ successes = 0
  /\ opened_at = <<>>
  /\ pc = [t \in Threads |-> "idle"] /\ since = [t \in Threads |-> 0]
  /\ contended = FALSE

Tick ==
  /\ now < MaxTime /\ now' = now + 1
  /\ UNCHANGED <<circuit, failures, successes, opened_at, pc, since, contended>>

-----------------------------------------------------------------------------
Quiet == \A t \in Threads : pc[t] = "idle"

\* A call begins; one that has nothing to write is over at once.
Call(t, step) ==
  /\ pc[t] = "idle"
  /\ pc' = [pc EXCEPT ![t] = step]
  /\ contended' = (contended \/ ~Quiet)

Go(t, from, to) ==
  /\ pc[t] = from
  /\ pc' = [pc EXCEPT ![t] = to]
  /\ UNCHANGED <<now, since, contended>>

(* allow_request: Closed and HalfOpen let the request through.              *)
AllowRead(t) ==
  /\ circuit = "Open" /\ Call(t, "open")
  /\ UNCHANGED <<now, circuit, failures, successes, opened_at, since>>

Recovered == opened_at # <<>> /\ now - opened_at[1] >= RecoveryTimeout

AllowOpen(t) ==
  /\ Go(t, "open", IF Recovered THEN "probe" ELSE "idle")
  /\ UNCHANGED <<circuit, failures, successes, opened_at>>

AllowProbe(t) ==
  /\ Go(t, "probe", "zero")
  /\ circuit' = "HalfOpen"
  /\ UNCHANGED <<failures, successes, opened_at>>

AllowZero(t) ==
  /\ Go(t, "zero", "idle")
  /\ successes' = 0
  /\ UNCHANGED <<circuit, failures, opened_at>>

(* record_success                                                           *)
SuccessRead(t) ==
  /\ circuit = "HalfOpen" /\ Call(t, "add")
  /\ UNCHANGED <<now, circuit, failures, successes, opened_at, since>>

SuccessAdd(t) ==
  /\ successes' = successes + 1
  /\ Go(t, "add", IF successes' >= SuccessThreshold THEN "close" ELSE "idle")
  /\ UNCHANGED <<circuit, failures, opened_at>>

SuccessClose(t) ==
  /\ Go(t, "close", "unset")
  /\ circuit' = "Closed"
  /\ UNCHANGED <<failures, successes, opened_at>>

SuccessUnset(t) ==
  /\ Go(t, "unset", "clear")
  /\ opened_at' = <<>>
  /\ UNCHANGED <<circuit, failures, successes>>

SuccessClear(t) ==
  /\ Go(t, "clear", "idle")
  /\ failures' = <<>>
  /\ UNCHANGED <<circuit, successes, opened_at>>

(* record_failure: the time is read before the failures are locked, and the *)
(* state while they are.                                                    *)
FailureNow(t) ==
  /\ Call(t, "fail")
  /\ since' = [since EXCEPT ![t] = now]
  /\ UNCHANGED <<now, circuit, failures, successes, opened_at>>

\* pop_front while the oldest failure lies outside the window: n of them go.
Old(t, i) == since[t] - failures[i] > FailureWindow
Expired(t, n) == (\A i \in 1 .. n : Old(t, i)) /\ (n < Len(failures) => ~Old(t, n + 1))

Record(t) ==
  \E n \in 0 .. Len(failures) :
    /\ Expired(t, n)
    /\ failures' = Append(SubSeq(failures, n + 1, Len(failures)), since[t])

\* Mutant: the circuit is tripped one failure late.
FailurePushLate(t) ==
  /\ Record(t)
  /\ Go(t, "fail", CASE circuit = "Closed" /\ Len(failures') > FailureThreshold -> "trip"
                     [] circuit = "HalfOpen" -> "restart"
                     [] OTHER -> "idle")
  /\ UNCHANGED <<circuit, successes, opened_at>>

FailurePush(t) ==
  /\ Record(t)
  /\ Go(t, "fail", CASE circuit = "Closed" /\ Len(failures') >= FailureThreshold -> "trip"
                     [] circuit = "HalfOpen" -> "restart"
                     [] OTHER -> "idle")
  /\ UNCHANGED <<circuit, successes, opened_at>>

\* Mutant: the time is not written.
FailureOpenUnstamped(t) ==
  /\ Go(t, "trip", "idle") \/ Go(t, "restart", "zero")
  /\ circuit' = "Open"
  /\ UNCHANGED <<failures, successes, opened_at>>

FailureOpen(t) ==
  /\ Go(t, "trip", "stamp") \/ Go(t, "restart", "restamp")
  /\ circuit' = "Open"
  /\ UNCHANGED <<failures, successes, opened_at>>

FailureStamp(t) ==
  /\ Go(t, "stamp", "idle") \/ Go(t, "restamp", "zero")
  /\ opened_at' = <<since[t]>>
  /\ UNCHANGED <<circuit, failures, successes>>

(* reset                                                                    *)
Reset(t) ==
  /\ Call(t, "reset2") /\ circuit' = "Closed"
  /\ UNCHANGED <<now, failures, successes, opened_at, since>>
ResetUnset(t) ==
  /\ Go(t, "reset2", "reset3") /\ opened_at' = <<>>
  /\ UNCHANGED <<circuit, failures, successes>>
ResetClear(t) ==
  /\ Go(t, "reset3", "zero") /\ failures' = <<>>
  /\ UNCHANGED <<circuit, successes, opened_at>>

-----------------------------------------------------------------------------
Begin(t) == AllowRead(t) \/ SuccessRead(t) \/ FailureNow(t) \/ Reset(t)

Continue(t) ==
  \/ AllowOpen(t) \/ AllowProbe(t) \/ AllowZero(t)
  \/ SuccessAdd(t) \/ SuccessClose(t) \/ SuccessUnset(t) \/ SuccessClear(t)
  \/ FailurePush(t) \/ FailureOpen(t) \/ FailureStamp(t) \/ ResetUnset(t) \/ ResetClear(t)

\* FailureBound keeps the sequence of failures finite.
FailureBound == Len(failures) <= FailureThreshold + 1

Next == \/ Tick
        \/ \E t \in Threads : (FailureBound /\ Begin(t)) \/ Continue(t)

Spec == Init /\ [][Next]_vars

-----------------------------------------------------------------------------
(* The circuit does not stay closed over failure_threshold failures: when   *)
(* no call is under way and it is closed, fewer have been recorded, however *)
(* the calls were interleaved.                                              *)
ClosedMeansHealthy == Quiet /\ circuit = "Closed" => Len(failures) < FailureThreshold

(* An open circuit has the time it opened, without which allow_request      *)
(* would reject requests for ever - as long as calls have not overlapped.   *)
(* (A success that closes the circuit while a failure reopens it leaves an  *)
(* open circuit without one.)                                               *)
OpenCanRecover == Quiet /\ circuit = "Open" => opened_at # <<>> \/ contended
=============================================================================
