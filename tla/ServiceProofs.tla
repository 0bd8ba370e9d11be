--------------------------- MODULE ServiceProofs ---------------------------
(***************************************************************************)
(* Proofs about parts of Service, for every number of clients,             *)
(* pipelines, triggers and tasks, and for every limit: the rate limiter,   *)
(* the circuit breaker, the listener pool, and the handlers of pipelines;  *)
(* for every flow, the loader with its topological sort; and the file      *)
(* system and HTTP client of tests, for the last theorem of RequestProofs. *)
(* Each part has its own inductive invariant, kept by its own steps; the   *)
(* steps of the other parts leave its variables alone.                     *)
(***************************************************************************)
EXTENDS Service, Integers, Sequences, FiniteSetTheorems, WellFoundedInduction, TLAPS

\* A behaviour stays with its part, whose variables no other part changes.
LEMMA PartSteps ==
  ASSUME [Next]_vars
  PROVE  /\ part' = part
         /\ part = "server" => S!Next \/ UNCHANGED server
         /\ part = "triggers" => T!Next \/ UNCHANGED triggers
         /\ part = "state" => R!Next \/ UNCHANGED apistate
         /\ part = "breaker" => B!Next \/ UNCHANGED breaker
BY DEF Next, SmallNext, vars, others

-----------------------------------------------------------------------------
(* RateLimiter: the queue is what was granted last, and what it has dropped *)
(* has left the window.                                                     *)

Dropped == Len(granted) - Len(requests)

LimiterTypes == clock \in Nat /\ requests \in Seq(Nat) /\ granted \in Seq(Nat)
QueueIsSuffix ==
  /\ Len(requests) <= Len(granted)
  /\ \A i \in 1 .. Len(requests) : requests[i] = granted[Dropped + i]
DroppedAreOld == \A i \in 1 .. Dropped : clock - granted[i] > Window

LimiterParts == LimiterTypes /\ QueueIsSuffix /\ DroppedAreOld /\ R!RateBounded
LimiterInv == part = "state" => LimiterParts

LEMMA LimiterConstants == MaxPerWindow \in Nat /\ MaxPerWindow > 0 /\ Window \in Nat
BY ServiceAssumption DEF R!ApiStateConstants

\* Dropping n requests from the front keeps a suffix; all that is gone is old.
LEMMA LimiterDrop ==
  ASSUME LimiterParts, NEW n \in 0 .. Len(requests), R!Expired(n)
  PROVE  LET queue == SubSeq(requests, n + 1, Len(requests)) IN
         /\ queue \in Seq(Nat) /\ Len(queue) = Len(requests) - n
         /\ \A i \in 1 .. Len(queue) : queue[i] = granted[Dropped + n + i]
         /\ \A i \in 1 .. Dropped + n : clock - granted[i] > Window
<1> DEFINE queue == SubSeq(requests, n + 1, Len(requests))
<1> USE DEF LimiterParts
<1>1. /\ Len(requests) \in Nat /\ Len(granted) \in Nat /\ n \in Nat
      /\ Dropped \in Nat
  BY DEF LimiterTypes, QueueIsSuffix, Dropped
<1>2. /\ queue \in Seq(Nat) /\ Len(queue) = Len(requests) - n
      /\ \A i \in 1 .. Len(requests) - n : queue[i] = requests[n + i]
  BY <1>1 DEF LimiterTypes
<1>3. \A i \in 1 .. Len(queue) : queue[i] = granted[Dropped + n + i]
  <2> TAKE i \in 1 .. Len(queue)
  <2>1. n + i \in 1 .. Len(requests)
    BY <1>1, <1>2
  <2>2. requests[n + i] = granted[Dropped + (n + i)]
    BY <2>1 DEF QueueIsSuffix
  <2> QED
    BY <1>1, <1>2, <2>2
<1>4. \A i \in 1 .. Dropped + n : clock - granted[i] > Window
  <2> TAKE i \in 1 .. Dropped + n
  <2>1. CASE i <= Dropped
    BY <2>1, <1>1 DEF DroppedAreOld
  <2>2. CASE i > Dropped
    <3>1. i - Dropped \in 1 .. n /\ i - Dropped \in 1 .. Len(requests)
      BY <1>1, <2>2
    <3>2. clock - requests[i - Dropped] > Window
      BY <3>1 DEF R!Expired, R!Old
    <3>3. requests[i - Dropped] = granted[Dropped + (i - Dropped)]
      BY <3>1 DEF QueueIsSuffix
    <3>4. Dropped + (i - Dropped) = i
      BY <1>1
    <3> QED
      BY <3>2, <3>3, <3>4
  <2> QED
    BY <1>1, <2>1, <2>2
<1> QED
  BY <1>2, <1>3, <1>4

LEMMA LimiterAllow ==
  ASSUME LimiterParts, R!Allow
  PROVE  LimiterParts'
<1> USE DEF LimiterParts
<1>0. clock' = clock
  BY DEF R!Allow
<1>1. PICK n \in 0 .. Len(requests) :
        LET queue == SubSeq(requests, n + 1, Len(requests)) IN
        /\ R!Expired(n)
        /\ IF Len(queue) >= MaxPerWindow
           THEN requests' = queue /\ UNCHANGED granted
           ELSE requests' = Append(queue, clock) /\ granted' = Append(granted, clock)
  BY DEF R!Allow
<1> DEFINE queue == SubSeq(requests, n + 1, Len(requests))
<1>2. /\ queue \in Seq(Nat) /\ Len(queue) = Len(requests) - n
      /\ \A i \in 1 .. Len(queue) : queue[i] = granted[Dropped + n + i]
      /\ \A i \in 1 .. Dropped + n : clock - granted[i] > Window
  BY <1>1, LimiterDrop
<1>3. /\ Len(requests) \in Nat /\ Len(granted) \in Nat /\ n \in Nat
      /\ Dropped \in Nat /\ Dropped = Len(granted) - Len(requests) /\ n <= Len(requests)
      /\ Len(queue) \in Nat
  BY <1>2 DEF LimiterTypes, QueueIsSuffix, Dropped
<1> HIDE DEF queue
<1>4. CASE Len(queue) >= MaxPerWindow
  <2>1. requests' = queue /\ granted' = granted
    BY <1>1, <1>4 DEF queue
  <2>2. Dropped' = Dropped + n
    BY <2>1, <1>2, <1>3 DEF Dropped
  <2>3. LimiterTypes'
    BY <2>1, <1>0, <1>2 DEF LimiterTypes
  <2>4. QueueIsSuffix'
    BY <2>1, <2>2, <1>2, <1>3 DEF QueueIsSuffix
  <2>5. DroppedAreOld'
    BY <2>1, <2>2, <1>0, <1>2 DEF DroppedAreOld
  <2>6. R!RateBounded'
    BY <2>1 DEF R!RateBounded
  <2> QED
    BY <2>3, <2>4, <2>5, <2>6
<1>5. CASE ~(Len(queue) >= MaxPerWindow)
  <2>1. requests' = Append(queue, clock) /\ granted' = Append(granted, clock)
    BY <1>1, <1>5 DEF queue
  <2>2. /\ Len(granted') = Len(granted) + 1 /\ Len(requests') = Len(queue) + 1
        /\ \A i \in 1 .. Len(granted) : granted'[i] = granted[i]
        /\ granted'[Len(granted) + 1] = clock
        /\ \A i \in 1 .. Len(queue) : requests'[i] = queue[i]
        /\ requests'[Len(queue) + 1] = clock
    BY <2>1, <1>2 DEF LimiterTypes
  <2>3. Dropped' = Dropped + n
    BY <2>2, <1>2, <1>3 DEF Dropped
  <2>4. LimiterTypes'
    BY <2>1, <1>0, <1>2 DEF LimiterTypes
  <2>5. QueueIsSuffix'
    <3>1. Len(requests') <= Len(granted')
      BY <2>2, <1>2, <1>3
    <3>2. ASSUME NEW i \in 1 .. Len(requests')
          PROVE  requests'[i] = granted'[Dropped' + i]
      <4>1. CASE i = Len(queue) + 1
        BY <4>1, <2>2, <2>3, <1>2, <1>3
      <4>2. CASE i \in 1 .. Len(queue)
        <5>1. Dropped' + i = Dropped + n + i /\ Dropped + n + i \in 1 .. Len(granted)
          BY <4>2, <2>3, <1>2, <1>3
        <5> QED
          BY <4>2, <5>1, <2>2, <1>2
      <4> QED
        BY <4>1, <4>2, <2>2, <1>3
    <3> QED
      BY <3>1, <3>2 DEF QueueIsSuffix
  <2>6. DroppedAreOld'
    <3> SUFFICES ASSUME NEW i \in 1 .. Dropped + n
                 PROVE  clock - granted'[i] > Window
      BY <2>3, <1>0 DEF DroppedAreOld
    <3>1. i \in 1 .. Len(granted)
      BY <1>3
    <3> QED
      BY <3>1, <2>2, <1>2
  <2>7. R!RateBounded'
    <3>1. SUFFICES ASSUME NEW i \in 1 .. Len(granted') - MaxPerWindow
                   PROVE  granted'[i + MaxPerWindow] - granted'[i] > Window
      BY DEF R!RateBounded
    <3>2. CASE i + MaxPerWindow <= Len(granted)
      BY <3>1, <3>2, <2>2, <1>3, LimiterConstants DEF R!RateBounded
    <3>3. CASE i + MaxPerWindow = Len(granted) + 1
      <4>1. i \in 1 .. Dropped + n /\ i \in 1 .. Len(granted)
        BY <3>1, <3>3, <1>2, <1>3, <1>5, <2>2, LimiterConstants
      <4> QED
        BY <4>1, <3>3, <2>2, <1>2
    <3> QED
      BY <3>1, <3>2, <3>3, <2>2, <1>3, LimiterConstants
  <2> QED
    BY <2>4, <2>5, <2>6, <2>7
<1> QED
  BY <1>4, <1>5

LEMMA LimiterStep ==
  ASSUME LimiterInv, [Next]_vars
  PROVE  LimiterInv'
<1> SUFFICES ASSUME part' = "state"
             PROVE  LimiterParts'
  BY DEF LimiterInv
<1>1. LimiterParts /\ (R!Next \/ UNCHANGED apistate)
  BY PartSteps DEF LimiterInv
<1> USE DEF LimiterParts
<1>2. CASE R!Advance
  <2>1. /\ requests' = requests /\ granted' = granted /\ clock' = clock + 1
        /\ Dropped' = Dropped
    BY <1>2 DEF R!Advance, Dropped
  <2>2. LimiterTypes' /\ QueueIsSuffix' /\ R!RateBounded'
    BY <1>1, <2>1 DEF LimiterTypes, QueueIsSuffix, R!RateBounded
  <2>3. DroppedAreOld'
    <3> SUFFICES ASSUME NEW i \in 1 .. Dropped
                 PROVE  clock' - granted[i] > Window
      BY <2>1 DEF DroppedAreOld
    <3>1. i \in 1 .. Len(granted)
      BY <1>1 DEF LimiterTypes, QueueIsSuffix, Dropped
    <3>2. granted[i] \in Nat /\ clock \in Nat
      BY <1>1, <3>1 DEF LimiterTypes
    <3>3. clock - granted[i] > Window
      BY <1>1 DEF DroppedAreOld
    <3> QED
      BY <2>1, <3>2, <3>3, LimiterConstants
  <2> QED
    BY <2>2, <2>3
<1>3. CASE R!Allow
  BY <1>1, <1>3, LimiterAllow
<1>4. CASE UNCHANGED <<clock, requests, granted>>
  BY <1>1, <1>4 DEF LimiterTypes, QueueIsSuffix, DroppedAreOld, Dropped, R!RateBounded
<1>5. R!Next => R!Advance \/ R!Allow \/ UNCHANGED <<clock, requests, granted>>
  BY DEF R!Next, R!CreateTrace, R!FireTrigger, R!FireAnswered, R!SuspendTrace, R!ResumeTrace,
         R!CancelTrace, R!UpdateTraceStatus, R!limiter
<1> QED
  BY <1>1, <1>2, <1>3, <1>4, <1>5 DEF apistate

LEMMA LimiterStart == InitPart => LimiterInv
<1> SUFFICES ASSUME R!Init
             PROVE  LimiterParts
  BY DEF InitPart, Init, LimiterInv
<1>1. clock = 0 /\ requests = <<>> /\ granted = <<>>
  BY DEF R!Init
<1> QED
  BY <1>1, LimiterConstants
  DEF LimiterParts, LimiterTypes, QueueIsSuffix, DroppedAreOld, Dropped, R!RateBounded

(* However often and whenever a client calls, no window of the configured   *)
(* length contains more requests that RateLimiter::allow let through than   *)
(* it may.                                                                  *)
THEOREM RateIsBounded == Spec => []RateBounded
<1>1. LimiterInv => RateBounded
  BY DEF LimiterInv, LimiterParts, RateBounded
<1> QED
  BY LimiterStart, LimiterStep, <1>1, PTL DEF Spec

-----------------------------------------------------------------------------
(* CircuitBreaker: a circuit closed over too many failures has a thread     *)
(* that is about to trip it or to clear them.  As long as no calls have     *)
(* overlapped, the one thread that closes the circuit finds it closed, and  *)
(* an open circuit without a time has a thread that is about to write it.   *)

Closers == {"unset", "clear", "reset2", "reset3"}

TripsDue ==
  circuit = "Closed" /\ Len(failures) >= FailureThreshold =>
    \E t \in Clients : pc[t] \in Closers \cup {"trip"}
OneThread == ~contended => \A t, u \in Clients : pc[t] # "idle" /\ pc[u] # "idle" => t = u
ClosersClose == ~contended => \A t \in Clients : pc[t] \in Closers => circuit = "Closed"
StampDue ==
  ~contended /\ circuit = "Open" /\ opened_at = <<>> =>
    \E t \in Clients : pc[t] \in {"stamp", "restamp"}

BreakerParts == B!TypeOK /\ TripsDue /\ OneThread /\ ClosersClose /\ StampDue
BreakerInv == part = "breaker" => BreakerParts

LEMMA BreakerConstants ==
  /\ FailureThreshold \in Nat /\ FailureThreshold > 0
  /\ FailureWindow \in Nat /\ MaxTime \in Nat
BY ServiceAssumption DEF B!BreakerConstants

\* A thread begins its call: no other is within one, or the calls contend.
LEMMA BreakerBegin ==
  ASSUME BreakerParts, NEW t \in Clients, B!Begin(t)
  PROVE  BreakerParts'
<1> USE DEF BreakerParts, B!Call, B!Quiet
<1>1. PICK step \in B!Steps :
        /\ step \in {"open", "add", "fail", "reset2"}
        /\ step = "reset2" => circuit' = "Closed"
        /\ step # "reset2" => circuit' = circuit
        /\ pc[t] = "idle" /\ pc' = [pc EXCEPT ![t] = step]
        /\ contended' = (contended \/ ~B!Quiet)
        /\ since' \in {since, [since EXCEPT ![t] = now]}
        /\ UNCHANGED <<now, failures, successes, opened_at>>
  BY DEF B!Begin, B!AllowRead, B!SuccessRead, B!FailureNow, B!Reset, B!Steps
<1>2. B!TypeOK'
  BY <1>1 DEF B!TypeOK
<1>3. pc \in [Clients -> B!Steps] /\ \A u \in Clients : pc'[u] = IF u = t THEN step ELSE pc[u]
  BY <1>1 DEF B!TypeOK
<1>4. ~contended' => ~contended /\ \A u \in Clients : pc[u] = "idle"
  BY <1>1
<1>5. TripsDue'
  BY <1>1, <1>3 DEF TripsDue, Closers
<1>6. OneThread'
  BY <1>3, <1>4 DEF OneThread
<1>7. ClosersClose'
  BY <1>1, <1>3, <1>4 DEF ClosersClose, Closers
<1>8. StampDue'
  BY <1>1, <1>3, <1>4 DEF StampDue
<1> QED
  BY <1>2, <1>5, <1>6, <1>7, <1>8

LEMMA SuffixTypes ==
  ASSUME NEW V, NEW q \in Seq(V), NEW n \in 0 .. Len(q)
  PROVE  SubSeq(q, n + 1, Len(q)) \in Seq(V)
OBVIOUS

\* record_failure keeps a suffix of the failures and adds its own.
LEMMA RecordTypes ==
  ASSUME B!TypeOK, NEW t \in Clients, B!Record(t)
  PROVE  failures' \in Seq(0 .. MaxTime)
<1>1. PICK n \in 0 .. Len(failures) :
        failures' = Append(SubSeq(failures, n + 1, Len(failures)), since[t])
  BY DEF B!Record
<1>2. failures \in Seq(0 .. MaxTime) /\ since[t] \in 0 .. MaxTime
  BY DEF B!TypeOK
<1>3. SubSeq(failures, n + 1, Len(failures)) \in Seq(0 .. MaxTime)
  BY <1>2, SuffixTypes
<1> QED
  BY <1>1, <1>2, <1>3

\* A thread goes on with its call.
LEMMA BreakerContinue ==
  ASSUME BreakerParts, NEW t \in Clients, B!Continue(t)
  PROVE  BreakerParts'
<1> USE DEF BreakerParts, B!Go
<1>t. /\ pc \in [Clients -> B!Steps] /\ circuit \in {"Closed", "Open", "HalfOpen"}
      /\ failures \in Seq(0 .. MaxTime) /\ Len(failures) \in Nat
      /\ B!TypeOK
  BY DEF B!TypeOK
<1>1. UNCHANGED <<now, since, contended>> /\ pc[t] # "idle"
  BY DEF B!Continue, B!AllowOpen, B!AllowProbe, B!AllowZero, B!SuccessAdd, B!SuccessClose,
         B!SuccessUnset, B!SuccessClear, B!FailurePush, B!FailureOpen, B!FailureStamp,
         B!ResetUnset, B!ResetClear
<1>2. CASE B!AllowOpen(t) \/ B!AllowZero(t) \/ B!SuccessAdd(t)
  <2>1. PICK to \in B!Steps :
          /\ pc[t] \in {"open", "zero", "add"} /\ pc' = [pc EXCEPT ![t] = to]
          /\ to \notin Closers /\ UNCHANGED <<circuit, failures, opened_at>> /\ successes' \in Nat
    BY <1>2 DEF B!AllowOpen, B!AllowZero, B!SuccessAdd, B!Steps, Closers, B!TypeOK
  <2>2. B!TypeOK'
    BY <1>1, <2>1 DEF B!TypeOK
  <2>3. \A u \in Clients : pc'[u] = IF u = t THEN to ELSE pc[u]
    BY <2>1, <1>t
  <2> QED
    BY <1>1, <2>1, <2>2, <2>3 DEF TripsDue, OneThread, ClosersClose, StampDue, Closers
<1>3. CASE B!AllowProbe(t)
  <2>1. B!TypeOK' /\ \A u \in Clients : pc'[u] = IF u = t THEN "zero" ELSE pc[u]
    BY <1>1, <1>3 DEF B!AllowProbe, B!TypeOK, B!Steps
  <2> QED
    BY <1>1, <1>3, <2>1 DEF B!AllowProbe, TripsDue, OneThread, ClosersClose, StampDue, Closers
<1>4. CASE B!SuccessClose(t)
  <2>1. B!TypeOK' /\ \A u \in Clients : pc'[u] = IF u = t THEN "unset" ELSE pc[u]
    BY <1>1, <1>4 DEF B!SuccessClose, B!TypeOK, B!Steps
  <2> QED
    BY <1>1, <1>4, <2>1 DEF B!SuccessClose, TripsDue, OneThread, ClosersClose, StampDue, Closers
<1>5. CASE B!SuccessUnset(t) \/ B!ResetUnset(t)
  <2>1. PICK to \in {"clear", "reset3"} :
          /\ pc[t] \in {"unset", "reset2"} /\ pc' = [pc EXCEPT ![t] = to]
          /\ opened_at' = <<>> /\ UNCHANGED <<circuit, failures, successes>>
    BY <1>5 DEF B!SuccessUnset, B!ResetUnset
  <2>2. B!TypeOK' /\ \A u \in Clients : pc'[u] = IF u = t THEN to ELSE pc[u]
    BY <1>1, <2>1 DEF B!TypeOK, B!Steps
  <2> QED
    BY <1>1, <2>1, <2>2 DEF TripsDue, OneThread, ClosersClose, StampDue, Closers
<1>6. CASE B!SuccessClear(t) \/ B!ResetClear(t)
  <2>1. PICK to \in {"idle", "zero"} :
          /\ pc[t] \in {"clear", "reset3"} /\ pc' = [pc EXCEPT ![t] = to]
          /\ failures' = <<>> /\ UNCHANGED <<circuit, opened_at, successes>>
    BY <1>6 DEF B!SuccessClear, B!ResetClear
  <2>2. B!TypeOK' /\ \A u \in Clients : pc'[u] = IF u = t THEN to ELSE pc[u]
    BY <1>1, <2>1 DEF B!TypeOK, B!Steps
  <2>3. ~(Len(failures') >= FailureThreshold)
    BY <2>1, BreakerConstants
  <2> QED
    BY <1>1, <2>1, <2>2, <2>3 DEF TripsDue, OneThread, ClosersClose, StampDue, Closers
<1>7. CASE B!FailurePush(t)
  <2>1. failures' \in Seq(0 .. MaxTime)
    BY <1>7, RecordTypes DEF B!FailurePush
  <2>2. PICK to \in {"trip", "restart", "idle"} :
          /\ circuit = "Closed" /\ Len(failures') >= FailureThreshold => to = "trip"
          /\ pc[t] = "fail" /\ pc' = [pc EXCEPT ![t] = to]
          /\ UNCHANGED <<circuit, opened_at, successes>>
    BY <1>7 DEF B!FailurePush
  <2>3. B!TypeOK' /\ \A u \in Clients : pc'[u] = IF u = t THEN to ELSE pc[u]
    BY <1>1, <2>1, <2>2 DEF B!TypeOK, B!Steps
  <2> QED
    BY <1>1, <2>2, <2>3 DEF TripsDue, OneThread, ClosersClose, StampDue, Closers
<1>8. CASE B!FailureOpen(t)
  <2>1. PICK to \in {"stamp", "restamp"} :
          /\ pc[t] \in {"trip", "restart"} /\ pc' = [pc EXCEPT ![t] = to]
          /\ circuit' = "Open" /\ UNCHANGED <<failures, opened_at, successes>>
    BY <1>8 DEF B!FailureOpen
  <2>2. B!TypeOK' /\ \A u \in Clients : pc'[u] = IF u = t THEN to ELSE pc[u]
    BY <1>1, <2>1 DEF B!TypeOK, B!Steps
  <2> QED
    BY <1>1, <2>1, <2>2 DEF TripsDue, OneThread, ClosersClose, StampDue, Closers
<1>9. CASE B!FailureStamp(t)
  <2>1. PICK to \in {"idle", "zero"} :
          /\ pc[t] \in {"stamp", "restamp"} /\ pc' = [pc EXCEPT ![t] = to]
          /\ opened_at' = <<since[t]>> /\ UNCHANGED <<circuit, failures, successes>>
    BY <1>9 DEF B!FailureStamp
  <2>2. B!TypeOK' /\ \A u \in Clients : pc'[u] = IF u = t THEN to ELSE pc[u]
    BY <1>1, <2>1 DEF B!TypeOK, B!Steps
  <2>3. opened_at' # <<>>
    BY <2>1
  <2> QED
    BY <1>1, <2>1, <2>2, <2>3 DEF TripsDue, OneThread, ClosersClose, StampDue, Closers
<1> QED
  BY <1>2, <1>3, <1>4, <1>5, <1>6, <1>7, <1>8, <1>9 DEF B!Continue

LEMMA BreakerStep ==
  ASSUME BreakerInv, [Next]_vars
  PROVE  BreakerInv'
<1> SUFFICES ASSUME part' = "breaker"
             PROVE  BreakerParts'
  BY DEF BreakerInv
<1>1. BreakerParts /\ (B!Next \/ UNCHANGED breaker)
  BY PartSteps DEF BreakerInv
<1>2. CASE B!Tick \/ UNCHANGED breaker
  <2>1. UNCHANGED <<circuit, failures, successes, opened_at, pc, since, contended>>
    BY <1>2 DEF B!Tick, breaker
  <2>2. now' \in 0 .. MaxTime
    BY <1>1, <1>2, BreakerConstants DEF B!Tick, breaker, BreakerParts, B!TypeOK
  <2> QED
    BY <1>1, <2>1, <2>2
    DEF BreakerParts, B!TypeOK, TripsDue, OneThread, ClosersClose, StampDue
<1>3. ASSUME NEW t \in Clients, B!Begin(t) \/ B!Continue(t)
      PROVE  BreakerParts'
  BY <1>1, <1>3, BreakerBegin, BreakerContinue
<1> QED
  BY <1>1, <1>2, <1>3 DEF B!Next

LEMMA BreakerStart == InitPart => BreakerInv
<1> SUFFICES ASSUME B!Init
             PROVE  BreakerParts
  BY DEF InitPart, Init, BreakerInv
<1>1. B!TypeOK
  <2>1. 0 \in 0 .. MaxTime
    BY BreakerConstants
  <2>2. failures \in Seq(0 .. MaxTime) /\ opened_at \in {<<>>}
    BY DEF B!Init
  <2>3. pc \in [Clients -> B!Steps] /\ since \in [Clients -> 0 .. MaxTime]
    BY <2>1 DEF B!Init, B!Steps
  <2> QED
    BY <2>1, <2>2, <2>3 DEF B!Init, B!TypeOK
<1>2. TripsDue
  <2>1. Len(failures) = 0
    BY DEF B!Init
  <2> QED
    BY <2>1, BreakerConstants DEF TripsDue
<1>3. OneThread /\ ClosersClose /\ StampDue
  BY DEF B!Init, OneThread, ClosersClose, StampDue, Closers
<1> QED
  BY <1>1, <1>2, <1>3 DEF BreakerParts

(* However the calls of the threads interleave, the circuit is not closed   *)
(* over failure_threshold failures once they are done; and an open circuit  *)
(* has the time it opened, from which it recovers, unless calls have        *)
(* overlapped.                                                              *)
THEOREM BreakerIsSound == Spec => []BreakerSound
<1>1. BreakerInv => BreakerSound
  <2> SUFFICES ASSUME BreakerParts
               PROVE  B!ClosedMeansHealthy /\ B!OpenCanRecover
    BY DEF BreakerInv, BreakerSound
  <2>1. Len(failures) \in Nat
    BY DEF BreakerParts, B!TypeOK
  <2>2. B!ClosedMeansHealthy
    BY <2>1, BreakerConstants DEF BreakerParts, TripsDue, Closers, B!ClosedMeansHealthy, B!Quiet
  <2>3. B!OpenCanRecover
    BY DEF BreakerParts, StampDue, B!OpenCanRecover, B!Quiet
  <2> QED
    BY <2>2, <2>3
<1> QED
  BY BreakerStart, BreakerStep, <1>1, PTL DEF Spec

-----------------------------------------------------------------------------
(* ListenerPool: only a start has a task of its own at hand.  As long as no *)
(* calls have overlapped there is one at a time, a start is under way only  *)
(* in a running pool, and in a stopped one every task is aborted, or a stop *)
(* is under way that will abort them.                                       *)

OneCall ==
  ~overlapped =>
    \A c, d \in Clients : call[c].op # "none" /\ call[d].op # "none" => c = d
StartsPush == \A c \in Clients : call[c].op # "start" => call[c].at = NoTask
StartsRun == ~overlapped => \A c \in Clients : call[c].op = "start" => pool_running
Stopping == \E c \in Clients : call[c].op = "stop"
StopsEnd ==
  ~overlapped /\ ~pool_running =>
    T!Alive \subseteq aborted \/ (Stopping /\ T!Alive \subseteq aborted \cup handles)

PoolTypes ==
  /\ pool_running \in BOOLEAN /\ overlapped \in BOOLEAN
  /\ call \in [Clients -> [op : {"none", "start", "stop", "remove"}, todo : SUBSET TriggerIds,
                           at : T!Tasks \cup {NoTask}]]
  /\ registered \subseteq TriggerIds
  /\ task \in [T!Tasks -> {"none", "spawned", "checked", "set", "opening", "loop",
                         "ending", "dead"}]

TriggersParts ==
  PoolTypes /\ T!EveryTaskTracked /\ OneCall /\ StartsPush /\ StartsRun /\ StopsEnd
TriggersInv == part = "triggers" => TriggersParts

LEMMA NoTaskIsNone == NoTask \notin T!Tasks
BY ServiceAssumption DEF T!TriggerConstants

\* A step of a task, or one that calls nothing of the pool: no task is new.
LEMMA TaskSteps ==
  ASSUME TriggersParts, PoolTypes',
         UNCHANGED <<pool_running, handles, call, overlapped, aborted>>,
         T!Alive' \subseteq T!Alive
  PROVE  TriggersParts'
BY DEF TriggersParts, T!EveryTaskTracked, OneCall, StartsPush, StartsRun, StopsEnd, Stopping

\* What a caller does when a call of the pool begins.
LEMMA CallBegins ==
  ASSUME TriggersParts, NEW c \in Clients, NEW op \in {"start", "stop", "remove"},
         NEW todo \in SUBSET TriggerIds, T!Begin(c, op, todo),
         UNCHANGED <<handles, task, aborted>>
  PROVE  /\ \A d \in Clients : call'[d].op = IF d = c THEN op ELSE call[d].op
         /\ call' \in [Clients -> [op : {"none", "start", "stop", "remove"},
                                   todo : SUBSET TriggerIds, at : T!Tasks \cup {NoTask}]]
         /\ ~overlapped' => ~overlapped /\ \A d \in Clients : call[d].op = "none" /\ call[d].at = NoTask
         /\ overlapped' \in BOOLEAN /\ T!Alive' = T!Alive
         /\ T!EveryTaskTracked' /\ OneCall' /\ StartsPush'
<1> USE DEF TriggersParts, PoolTypes, T!Begin, T!Busy
<1>1. \A d \in Clients : call'[d] = IF d = c THEN [op |-> op, todo |-> todo, at |-> NoTask] ELSE call[d]
  OBVIOUS
<1>2. call' \in [Clients -> [op : {"none", "start", "stop", "remove"},
                             todo : SUBSET TriggerIds, at : T!Tasks \cup {NoTask}]]
  OBVIOUS
<1>3. /\ ~overlapped' => ~overlapped /\ \A d \in Clients : call[d].op = "none" /\ call[d].at = NoTask
      /\ overlapped' \in BOOLEAN
  BY DEF StartsPush
<1>4. T!Alive' = T!Alive
  BY DEF T!Alive
<1>5. T!EveryTaskTracked'
  <2> SUFFICES ASSUME NEW k \in T!Alive
               PROVE  k \in aborted \cup handles \/ \E d \in Clients : call'[d].at = k
    BY <1>4 DEF T!EveryTaskTracked
  <2>1. k # NoTask
    BY NoTaskIsNone DEF T!Alive
  <2>2. call[c].at = NoTask
    BY DEF StartsPush
  <2> QED
    BY <1>1, <2>1, <2>2 DEF T!EveryTaskTracked
<1>6. OneCall' /\ StartsPush'
  BY <1>1, <1>3 DEF OneCall, StartsPush
<1>7. \A d \in Clients : call'[d].op = IF d = c THEN op ELSE call[d].op
  BY <1>1
<1> QED
  BY <1>7, <1>2, <1>3, <1>4, <1>5, <1>6

LEMMA PoolStartPool ==
  ASSUME TriggersParts, NEW c \in Clients, T!StartPool(c)
  PROVE  TriggersParts'
<1>1. registered \in SUBSET TriggerIds /\ UNCHANGED <<handles, task, aborted, registered>>
  BY DEF T!StartPool, T!loops, TriggersParts, PoolTypes
<1>2. T!Begin(c, "start", registered) /\ pool_running' = TRUE
  BY DEF T!StartPool
<1> QED
  BY <1>1, <1>2, CallBegins DEF TriggersParts, PoolTypes, StartsRun, StopsEnd

LEMMA PoolStopPool ==
  ASSUME TriggersParts, NEW c \in Clients, T!StopPool(c)
  PROVE  TriggersParts'
<1>1. registered \in SUBSET TriggerIds /\ UNCHANGED <<handles, task, aborted, registered>>
  BY DEF T!StopPool, T!loops, TriggersParts, PoolTypes
<1>2. T!Begin(c, "stop", registered) /\ pool_running' = FALSE
  BY DEF T!StopPool
<1>a. /\ \A d \in Clients : call'[d].op = IF d = c THEN "stop" ELSE call[d].op
      /\ ~overlapped' => \A d \in Clients : call[d].op = "none"
  BY <1>1, <1>2, CallBegins
<1>3. StartsRun'
  BY <1>a DEF StartsRun
<1>4. StopsEnd'
  <2> SUFFICES ASSUME ~overlapped'
               PROVE  Stopping' /\ T!Alive' \subseteq aborted' \cup handles'
    BY DEF StopsEnd
  <2>1. Stopping'
    BY <1>a DEF Stopping
  <2>2. \A d \in Clients : call[d].at = NoTask
    BY <1>1, <1>2, CallBegins
  <2>3. T!Alive \subseteq aborted \cup handles
    BY <2>2, NoTaskIsNone DEF TriggersParts, T!EveryTaskTracked, T!Alive
  <2> QED
    BY <1>1, <1>2, <2>1, <2>3, CallBegins
<1> QED
  BY <1>1, <1>2, <1>3, <1>4, CallBegins DEF TriggersParts, PoolTypes

LEMMA PoolRemoveStop ==
  ASSUME TriggersParts, NEW c \in Clients, T!RemoveStop(c)
  PROVE  TriggersParts'
<1>1. PICK t \in registered :
        T!Begin(c, "remove", {t}) /\ UNCHANGED <<handles, task, aborted, registered, pool_running>>
  BY DEF T!RemoveStop
<1>2. {t} \in SUBSET TriggerIds
  BY DEF TriggersParts, PoolTypes
<1>a. /\ \A d \in Clients : call'[d].op = IF d = c THEN "remove" ELSE call[d].op
      /\ ~overlapped' => \A d \in Clients : call[d].op = "none"
  BY <1>1, <1>2, CallBegins
<1>3. StartsRun'
  BY <1>a DEF StartsRun
<1>4. StopsEnd'
  BY <1>1, <1>2, CallBegins DEF TriggersParts, StopsEnd, Stopping
<1> QED
  BY <1>1, <1>2, <1>3, <1>4, CallBegins DEF TriggersParts, PoolTypes

\* A call ends that has no task at hand.
LEMMA PoolStartSpawn ==
  ASSUME TriggersParts, NEW c \in Clients, T!StartSpawn(c)
  PROVE  TriggersParts'
<1> USE DEF TriggersParts, PoolTypes
<1>0. /\ call[c].op = "start" /\ call[c].at = NoTask
      /\ UNCHANGED <<registered, pool_running, handles, overlapped, aborted>>
  BY DEF T!StartSpawn
<1>1. CASE T!Finish(c) /\ task' = task
  <2>1. /\ \A d \in Clients : call'[d] = IF d = c THEN T!Idle ELSE call[d]
        /\ PoolTypes' /\ T!Alive' = T!Alive
    BY <1>0, <1>1 DEF T!Finish, T!Idle, T!Alive
  <2>2. T!EveryTaskTracked'
    BY <1>0, <2>1, NoTaskIsNone DEF T!EveryTaskTracked, T!Alive, T!Idle
  <2> QED
    BY <1>0, <2>1, <2>2 DEF OneCall, StartsPush, StartsRun, StopsEnd, Stopping, T!Idle
<1>2. ASSUME NEW t \in call[c].todo, NEW k \in T!Tasks, pool_running,
             task[k] = "none", task' = [task EXCEPT ![k] = "spawned"],
             call' = [call EXCEPT ![c].todo = @ \ {t}, ![c].at = k]
      PROVE  TriggersParts'
  <2>1. \A d \in Clients :
          /\ call'[d].op = call[d].op
          /\ call'[d].at = IF d = c THEN k ELSE call[d].at
    BY <1>2
  <2>2. PoolTypes'
    <3> DEFINE calls == [op : {"none", "start", "stop", "remove"}, todo : SUBSET TriggerIds, at : T!Tasks \cup {NoTask}]
               next == [call[c] EXCEPT !.todo = @ \ {t}, !.at = k]
    <3>1. call \in [Clients -> calls] /\ next \in calls
      OBVIOUS
    <3>2. call' = [call EXCEPT ![c] = next]
      BY <1>2, <3>1
    <3> HIDE DEF calls, next
    <3>3. call' \in [Clients -> calls]
      BY <3>1, <3>2
    <3>4. task' \in [T!Tasks -> {"none", "spawned", "checked", "set", "opening", "loop", "ending", "dead"}]
      BY <1>2
    <3> QED
      BY <1>0, <3>3, <3>4 DEF calls
  <2>3. T!Alive' = T!Alive \cup {k}
    BY <1>2 DEF T!Alive
  <2>4. T!EveryTaskTracked'
    BY <1>0, <2>1, <2>3, NoTaskIsNone DEF T!EveryTaskTracked, T!Alive
  <2> QED
    BY <1>0, <1>2, <2>1, <2>2, <2>3, <2>4 DEF OneCall, StartsPush, StartsRun, StopsEnd
<1> QED
  BY <1>1, <1>2 DEF T!StartSpawn

LEMMA PoolStartPush ==
  ASSUME TriggersParts, NEW c \in Clients, T!StartPush(c)
  PROVE  TriggersParts'
<1> USE DEF TriggersParts, PoolTypes
<1>1. /\ call[c].op = "start" /\ call' = [call EXCEPT ![c].at = NoTask]
      /\ handles' = handles \cup {call[c].at}
      /\ UNCHANGED <<registered, pool_running, overlapped, task, aborted>>
  BY DEF T!StartPush, T!loops
<1>2. /\ \A d \in Clients : /\ call'[d].op = call[d].op
                            /\ call'[d].at = IF d = c THEN NoTask ELSE call[d].at
      /\ PoolTypes' /\ T!Alive' = T!Alive
  BY <1>1 DEF T!Alive
<1>3. T!EveryTaskTracked'
  BY <1>1, <1>2 DEF T!EveryTaskTracked
<1> QED
  BY <1>1, <1>2, <1>3 DEF OneCall, StartsPush, StartsRun, StopsEnd, Stopping

LEMMA PoolStopOne ==
  ASSUME TriggersParts, NEW c \in Clients, T!StopOne(c)
  PROVE  TriggersParts'
<1> USE DEF TriggersParts, PoolTypes
<1>1. PICK t \in call[c].todo :
        /\ call' = [call EXCEPT ![c].todo = @ \ {t}]
        /\ UNCHANGED <<registered, pool_running, handles, overlapped, task, aborted>>
  BY DEF T!StopOne
<1>2. /\ \A d \in Clients : call'[d].op = call[d].op /\ call'[d].at = call[d].at
      /\ PoolTypes' /\ T!Alive' = T!Alive
  BY <1>1 DEF T!Alive
<1>3. T!EveryTaskTracked'
  BY <1>1, <1>2 DEF T!EveryTaskTracked
<1> QED
  BY <1>1, <1>2, <1>3 DEF OneCall, StartsPush, StartsRun, StopsEnd, Stopping

LEMMA PoolStopAbort ==
  ASSUME TriggersParts, NEW c \in Clients, T!StopAbort(c)
  PROVE  TriggersParts'
<1> USE DEF TriggersParts, PoolTypes
<1>1. /\ call[c].op = "stop" /\ call' = [call EXCEPT ![c] = T!Idle]
      /\ aborted' = aborted \cup handles /\ handles' = {}
      /\ UNCHANGED <<registered, pool_running, overlapped, task>>
  BY DEF T!StopAbort, T!Finish
<1>2. /\ \A d \in Clients : call'[d] = IF d = c THEN T!Idle ELSE call[d]
      /\ PoolTypes' /\ T!Alive' = T!Alive
  BY <1>1 DEF T!Alive, T!Idle
<1>3. T!EveryTaskTracked'
  BY <1>1, <1>2, NoTaskIsNone DEF T!EveryTaskTracked, StartsPush, T!Alive
<1>4. OneCall' /\ StartsPush' /\ StartsRun'
  BY <1>1, <1>2 DEF OneCall, StartsPush, StartsRun, T!Idle
<1>5. StopsEnd'
  BY <1>1, <1>2 DEF StopsEnd
<1> QED
  BY <1>2, <1>3, <1>4, <1>5

LEMMA PoolRemoveErase ==
  ASSUME TriggersParts, NEW c \in Clients, T!RemoveErase(c)
  PROVE  TriggersParts'
<1> USE DEF TriggersParts, PoolTypes
<1>1. /\ call[c].op = "remove" /\ call' = [call EXCEPT ![c] = T!Idle]
      /\ registered' = registered \ call[c].todo
      /\ UNCHANGED <<pool_running, handles, overlapped, task, aborted>>
  BY DEF T!RemoveErase, T!Finish, T!loops
<1>2. /\ \A d \in Clients : call'[d] = IF d = c THEN T!Idle ELSE call[d]
      /\ PoolTypes' /\ T!Alive' = T!Alive
  BY <1>1 DEF T!Alive, T!Idle
<1>3. T!EveryTaskTracked'
  BY <1>1, <1>2, NoTaskIsNone DEF T!EveryTaskTracked, StartsPush, T!Alive
<1>4. OneCall' /\ StartsPush' /\ StartsRun'
  BY <1>1, <1>2 DEF OneCall, StartsPush, StartsRun, T!Idle
<1>5. StopsEnd'
  BY <1>1, <1>2 DEF StopsEnd, Stopping, T!Idle
<1> QED
  BY <1>2, <1>3, <1>4, <1>5

LEMMA TriggersStep ==
  ASSUME TriggersInv, [Next]_vars
  PROVE  TriggersInv'
<1> SUFFICES ASSUME part' = "triggers"
             PROVE  TriggersParts'
  BY DEF TriggersInv
<1>1. TriggersParts /\ (T!Next \/ UNCHANGED triggers)
  BY PartSteps DEF TriggersInv
<1>2. CASE /\ UNCHANGED <<pool_running, handles, call, overlapped, task, aborted>>
           /\ registered' \subseteq TriggerIds
  <2>1. PoolTypes' /\ T!Alive' \subseteq T!Alive
    BY <1>1, <1>2 DEF TriggersParts, PoolTypes, T!Alive
  <2> QED
    BY <1>1, <1>2, <2>1, TaskSteps
<1>3. ASSUME NEW t \in TriggerIds,
             T!Register(t) \/ T!Pausing(t) \/ \E l \in Listeners : T!Subscribe(t, l)
      PROVE  TriggersParts'
  BY <1>1, <1>2, <1>3
  DEF T!Register, T!Pausing, T!Subscribe, T!pool, T!loops, TriggersParts, PoolTypes
<1>4. ASSUME NEW l \in Listeners, T!Unsubscribe(l)
      PROVE  TriggersParts'
  BY <1>1, <1>2, <1>4 DEF T!Unsubscribe, T!loops, TriggersParts, PoolTypes
<1>5. ASSUME NEW c \in Clients,
             \/ T!StartPool(c) \/ T!StartSpawn(c) \/ T!StartPush(c)
             \/ T!StopPool(c) \/ T!StopOne(c) \/ T!StopAbort(c)
             \/ T!RemoveStop(c) \/ T!RemoveErase(c)
      PROVE  TriggersParts'
  BY <1>1, <1>5, PoolStartPool, PoolStartSpawn, PoolStartPush, PoolStopPool, PoolStopOne,
     PoolStopAbort, PoolRemoveStop, PoolRemoveErase
<1>6. ASSUME NEW k \in T!Tasks,
             \/ T!TaskCheck(k) \/ T!TaskSet(k) \/ T!TaskChannel(k) \/ T!TaskOpen(k)
             \/ T!TaskBreak(k) \/ T!TaskEnd(k) \/ T!TaskAborted(k)
      PROVE  TriggersParts'
  <2>1. /\ UNCHANGED <<pool_running, handles, call, overlapped, registered, aborted>>
        /\ task[k] \notin {"none", "dead"}
        /\ \E to \in {"dead", "checked", "set", "opening", "loop", "ending"} :
             task' = [task EXCEPT ![k] = to]
    BY <1>6 DEF T!TaskCheck, T!TaskSet, T!TaskChannel, T!TaskOpen, T!TaskBreak, T!TaskEnd,
                T!TaskAborted, T!Step, T!pool
  <2>2. PoolTypes' /\ T!Alive' \subseteq T!Alive
    BY <1>1, <2>1 DEF TriggersParts, PoolTypes, T!Alive
  <2> QED
    BY <1>1, <2>1, <2>2, TaskSteps
<1>7. ASSUME NEW k \in T!Tasks,
             T!Connect(k) \/ T!HangUp(k) \/ T!Fire(k) \/ T!Invoke(k)
      PROVE  TriggersParts'
  BY <1>1, <1>2, <1>7
  DEF T!Connect, T!HangUp, T!Fire, T!Invoke, T!pool, TriggersParts, PoolTypes
<1>8. CASE UNCHANGED triggers
  BY <1>1, <1>2, <1>8 DEF triggers, TriggersParts, PoolTypes
<1> QED
  BY <1>1, <1>3, <1>4, <1>5, <1>6, <1>7, <1>8 DEF T!Next

LEMMA TriggersStart == InitPart => TriggersInv
<1> SUFFICES ASSUME T!Init
             PROVE  TriggersParts
  BY DEF InitPart, Init, TriggersInv
<1>1. PoolTypes /\ T!Alive = {}
  BY DEF T!Init, PoolTypes, T!Idle, T!Alive
<1>2. \A c \in Clients : call[c].op = "none" /\ call[c].at = NoTask
  BY DEF T!Init, T!Idle
<1> QED
  BY <1>1, <1>2
  DEF TriggersParts, T!EveryTaskTracked, OneCall, StartsPush, StartsRun, StopsEnd

(* Whatever start, stop and remove_trigger do at the same time, no task of  *)
(* a trigger escapes the pool; and after a stop that overlapped no other    *)
(* call no task goes on.                                                    *)
THEOREM TasksAreUnderControl == Spec => []TasksUnderControl
<1>1. TriggersInv => TasksUnderControl
  BY DEF TriggersInv, TriggersParts, TasksUnderControl, T!TasksUnderControl, T!StopStops,
         T!Busy, StopsEnd, Stopping
<1> QED
  BY TriggersStart, TriggersStep, <1>1, PTL DEF Spec

-----------------------------------------------------------------------------
(* The handlers of pipelines.  What a handler holds was built for the       *)
(* identifier it acts on, and so was what the map contains.  Two requests   *)
(* on one identifier are noted; a handler that is alone with its identifier *)
(* finds the map as it last saw it.  A pipeline that takes events is in the *)
(* map, or the handler that took it out is about to stop it.                *)

Underway(c) == request[c].at # "idle"
WithPipeline == {"act", "drain", "event", "erase", "stop", "check", "insert"}

HeldOK(c) ==
  /\ Underway(c) => request[c].id \in Ids
  /\ request[c].at \in WithPipeline => request[c].p # NoPipeline
  /\ request[c].p # NoPipeline =>
       /\ Underway(c)
       /\ life[request[c].p] # "none" /\ home[request[c].p] = request[c].id

SeenOK(c) ==
  \/ request[c].id \in raced
  \/ /\ request[c].at \in {"act", "drain", "event", "erase"} =>
          pipelines[request[c].id] = request[c].p
     /\ request[c].at = "erase" => life[request[c].p] = "Stopped"
     /\ request[c].at = "insert" => pipelines[request[c].id] = NoPipeline

HeldRight == \A c \in Clients : HeldOK(c)
SeenRight == \A c \in Clients : SeenOK(c)
MappedRight ==
  \A i \in Ids :
    pipelines[i] # NoPipeline => life[pipelines[i]] # "none" /\ home[pipelines[i]] = i
RacesNoted ==
  \A c, d \in Clients :
    c # d /\ Underway(c) /\ Underway(d) /\ request[c].id = request[d].id => request[c].id \in raced

KnownOK(p) ==
  \/ life[p] \notin {"Running", "Paused"} \/ home[p] \in raced \/ pipelines[home[p]] = p
  \/ \E c \in Clients : request[c].p = p /\ request[c].at = "stop"
KnownOrStopping == \A p \in S!Pipelines : KnownOK(p)

ServerParts ==
  S!TypeOK /\ HeldRight /\ SeenRight /\ MappedRight /\ RacesNoted /\ KnownOrStopping
ServerInv == part = "server" => ServerParts

Requests == [op : S!Ops \cup {"none"}, id : Ids \cup {"none"}, at : S!Places,
             p : S!Pipelines \cup {NoPipeline}]

LEMMA NoPipelineIsNone == NoPipeline \notin S!Pipelines
BY ServiceAssumption DEF S!ServerConstants

LEMMA NoneIsIdle == S!None \in Requests /\ S!None.at = "idle" /\ S!None.p = NoPipeline
BY DEF S!None, S!Places, Requests

LEMMA RequestTypes ==
  ASSUME ServerParts
  PROVE  /\ request \in [Clients -> Requests] /\ raced \subseteq Ids /\ locked \subseteq S!Pipelines
         /\ pipelines \in [Ids -> S!Pipelines \cup {NoPipeline}]
         /\ home \in [S!Pipelines -> Ids \cup {"none"}]
         /\ life \in [S!Pipelines -> {"none", "Initializing", "Running", "Paused", "Draining", "Stopped"}]
BY DEF ServerParts, S!TypeOK, Requests

\* A handler that changes nothing but its own request keeps what holds of the
\* others, if it does not give up a pipeline that it has to stop.
LEMMA ServerMoves ==
  ASSUME ServerParts, NEW c \in Clients, NEW r \in Requests,
         request' = [request EXCEPT ![c] = r], UNCHANGED <<pipelines, home, life, locked, raced>>,
         request[c].at # "stop",
         r.at = "idle" \/ (Underway(c) /\ r.id = request[c].id),
         HeldOK(c)', SeenOK(c)'
  PROVE  ServerParts'
<1>1. \A d \in Clients : request'[d] = IF d = c THEN r ELSE request[d]
  BY RequestTypes
<1>2. S!TypeOK'
  BY RequestTypes DEF ServerParts, S!TypeOK, Requests
<1>3. HeldRight'
  BY <1>1 DEF ServerParts, HeldRight, HeldOK, Underway
<1>4. SeenRight'
  BY <1>1 DEF ServerParts, SeenRight, SeenOK
<1>5. RacesNoted'
  BY <1>1 DEF ServerParts, RacesNoted, Underway
<1>6. KnownOrStopping'
  BY <1>1 DEF ServerParts, KnownOrStopping, KnownOK
<1> QED
  BY <1>2, <1>3, <1>4, <1>5, <1>6 DEF ServerParts, MappedRight

LEMMA ServerAnswers ==
  ASSUME ServerParts, NEW c \in Clients, S!Answer(c), request[c].at # "stop",
         UNCHANGED <<pipelines, home, life, locked, raced>>
  PROVE  ServerParts'
<1>1. request' = [request EXCEPT ![c] = S!None] /\ request'[c] = S!None
  BY RequestTypes DEF S!Answer
<1>2. HeldOK(c)' /\ SeenOK(c)'
  BY <1>1, NoneIsIdle DEF HeldOK, SeenOK, Underway, WithPipeline
<1> QED
  BY <1>1, <1>2, NoneIsIdle, ServerMoves

LEMMA ServerArrive ==
  ASSUME ServerParts, NEW c \in Clients, NEW op \in S!Ops, NEW i \in Ids, S!Arrive(c, op, i)
  PROVE  ServerParts'
<1> DEFINE r == [S!None EXCEPT !.op = op, !.id = i, !.at = "get"]
<1>1. /\ request[c].at = "idle" /\ request' = [request EXCEPT ![c] = r]
      /\ raced' = (IF \E d \in Clients : request[d].id = i THEN raced \cup {i} ELSE raced)
      /\ UNCHANGED <<pipelines, home, life, locked>>
  BY DEF S!Arrive, S!At, S!state
<1>2. r \in Requests /\ r.id = i /\ r.at = "get" /\ r.p = NoPipeline
  BY DEF S!None, S!Places, Requests
<1> HIDE DEF r
<1>3. \A d \in Clients : request'[d] = IF d = c THEN r ELSE request[d]
  BY <1>1, RequestTypes
<1>4. raced \subseteq raced' /\ raced' \subseteq Ids
  BY <1>1, RequestTypes
<1>5. S!TypeOK'
  BY <1>1, <1>2, <1>4, RequestTypes DEF ServerParts, S!TypeOK, Requests
<1>6. HeldRight'
  BY <1>1, <1>2, <1>3 DEF ServerParts, HeldRight, HeldOK, Underway, WithPipeline
<1>7. SeenRight'
  BY <1>1, <1>2, <1>3, <1>4 DEF ServerParts, SeenRight, SeenOK
<1>8. RacesNoted'
  <2> SUFFICES ASSUME NEW a \in Clients, NEW b \in Clients, a # b, Underway(a)', Underway(b)',
                      request'[a].id = request'[b].id
               PROVE  request'[a].id \in raced'
    BY DEF RacesNoted
  <2>1. CASE a # c /\ b # c
    BY <2>1, <1>3, <1>4 DEF ServerParts, RacesNoted, Underway
  <2>2. CASE a = c \/ b = c
    BY <2>2, <1>1, <1>2, <1>3
  <2> QED
    BY <2>1, <2>2
<1>9. KnownOrStopping'
  BY <1>1, <1>2, <1>3, <1>4 DEF ServerParts, KnownOrStopping, KnownOK
<1> QED
  BY <1>1, <1>5, <1>6, <1>7, <1>8, <1>9 DEF ServerParts, MappedRight

\* The steps that look something up.
LEMMA ServerLookup ==
  ASSUME ServerParts, NEW c \in Clients, NEW op, NEW step \in {"act", "take", "event"},
         S!Lookup(c, op, step)
  PROVE  ServerParts'
<1>1. request[c].at = "get" /\ UNCHANGED <<pipelines, home, life, locked, raced>>
  BY DEF S!Lookup, S!At, S!state
<1>2. CASE S!Answer(c)
  BY <1>1, <1>2, ServerAnswers
<1>3. CASE S!ToWith(c, step, S!Found(c)) /\ S!Found(c) # NoPipeline
  <2> DEFINE r == [request[c] EXCEPT !.at = step, !.p = S!Found(c)]
  <2>1. request[c] \in Requests /\ request[c].id \in Ids
    BY <1>1, RequestTypes DEF ServerParts, HeldRight, HeldOK, Underway
  <2>2. S!Found(c) \in S!Pipelines /\ S!Found(c) = pipelines[request[c].id]
    BY <1>3, <2>1, RequestTypes DEF S!Found
  <2>3. /\ r \in Requests /\ r.id = request[c].id /\ r.at = step /\ r.p = S!Found(c)
        /\ request' = [request EXCEPT ![c] = r]
    BY <1>3, <2>1, <2>2, RequestTypes DEF S!ToWith, S!Places, Requests
  <2> HIDE DEF r
  <2>4. request'[c] = r
    BY <2>3, RequestTypes
  <2>5. HeldOK(c)' /\ SeenOK(c)'
    BY <1>1, <1>3, <2>1, <2>2, <2>3, <2>4
    DEF ServerParts, MappedRight, HeldOK, SeenOK, Underway, WithPipeline
  <2> QED
    BY <1>1, <2>3, <2>5, ServerMoves DEF Underway
<1> QED
  BY <1>2, <1>3 DEF S!Lookup

LEMMA ServerTo ==
  ASSUME ServerParts, NEW c \in Clients, NEW step \in {"build", "insert"}, S!To(c, step),
         UNCHANGED <<pipelines, home, life, locked, raced>>,
         Underway(c), request[c].at # "stop",
         step = "insert" => request[c].p # NoPipeline /\ S!Found(c) = NoPipeline
  PROVE  ServerParts'
<1> DEFINE r == [request[c] EXCEPT !.at = step]
<1>1. request[c] \in Requests /\ request[c].id \in Ids
  BY RequestTypes DEF ServerParts, HeldRight, HeldOK, Underway
<1>2. /\ r \in Requests /\ r.id = request[c].id /\ r.at = step /\ r.p = request[c].p
      /\ request' = [request EXCEPT ![c] = r]
  BY <1>1, RequestTypes DEF S!To, S!Places, Requests
<1> HIDE DEF r
<1>3. request'[c] = r
  BY <1>2, RequestTypes
<1>4. HeldOK(c)' /\ SeenOK(c)'
  BY <1>1, <1>2, <1>3
  DEF ServerParts, HeldRight, HeldOK, SeenOK, Underway, WithPipeline, S!Found
<1> QED
  BY <1>2, <1>4, ServerMoves

Lives == {"Initializing", "Running", "Paused", "Draining", "Stopped"}

\* A handler that changes the entry of its identifier, or the life of the
\* pipeline it holds, keeps what holds of the others.
LEMMA ServerOthers ==
  ASSUME ServerParts, NEW c \in Clients, NEW r \in Requests, Underway(c),
         request' = [request EXCEPT ![c] = r], r.at = "idle" \/ r.id = request[c].id,
         NEW v \in S!Pipelines \cup {NoPipeline},
         pipelines' \in {pipelines, [pipelines EXCEPT ![request[c].id] = v]},
         NEW s \in Lives, life' \in {life, [life EXCEPT ![request[c].p] = s]},
         home' = home, raced' = raced, locked' \subseteq S!Pipelines
  PROVE  /\ S!TypeOK' /\ RacesNoted' /\ request'[c] = r
         /\ \A d \in Clients : d # c => request'[d] = request[d] /\ HeldOK(d)' /\ SeenOK(d)'
         /\ \A i \in Ids : i # request[c].id => pipelines'[i] = pipelines[i]
         /\ \A p \in S!Pipelines : /\ p # request[c].p => life'[p] = life[p]
                                   /\ life[p] # "none" => life'[p] # "none"
<1>1. \A d \in Clients : request'[d] = IF d = c THEN r ELSE request[d]
  BY RequestTypes
<1>2. request[c].id \in Ids
  BY DEF ServerParts, HeldRight, HeldOK
<1>3. \A i \in Ids : i # request[c].id => pipelines'[i] = pipelines[i]
  BY RequestTypes
<1>4. \A p \in S!Pipelines : /\ p # request[c].p => life'[p] = life[p]
                             /\ life[p] # "none" => life'[p] # "none"
  BY RequestTypes DEF Lives
<1>5. S!TypeOK'
  <2>1. request' \in [Clients -> Requests]
    BY RequestTypes
  <2>2. pipelines' \in [Ids -> S!Pipelines \cup {NoPipeline}]
    BY RequestTypes
  <2>3. life' \in [S!Pipelines -> {"none", "Initializing", "Running", "Paused", "Draining", "Stopped"}]
    BY RequestTypes DEF Lives
  <2> QED
    BY <2>1, <2>2, <2>3, RequestTypes DEF S!TypeOK, Requests
<1>6. RacesNoted'
  BY <1>1 DEF ServerParts, RacesNoted, Underway
<1>7. ASSUME NEW d \in Clients, d # c
      PROVE  HeldOK(d)' /\ SeenOK(d)'
  <2>1. request'[d] = request[d] /\ request[d] \in Requests /\ HeldOK(d) /\ SeenOK(d)
    BY <1>1, <1>7, RequestTypes DEF ServerParts, HeldRight, SeenRight
  <2>2. request[d].p \in S!Pipelines \cup {NoPipeline}
    BY <2>1 DEF Requests
  <2>3. HeldOK(d)'
    BY <1>4, <2>1, <2>2 DEF HeldOK, Underway
  <2>4. CASE ~Underway(d)
    BY <2>1, <2>3, <2>4 DEF SeenOK, Underway
  <2>5. CASE Underway(d) /\ request[d].id = request[c].id
    BY <1>7, <2>1, <2>3, <2>5 DEF SeenOK, ServerParts, RacesNoted
  <2>6. CASE Underway(d) /\ request[d].id # request[c].id
    <3>1. request[d].id \in Ids /\ pipelines'[request[d].id] = pipelines[request[d].id]
      BY <1>3, <2>1, <2>6 DEF HeldOK
    <3>2. request[d].p # NoPipeline => request[d].p # request[c].p
      BY <2>1, <2>6 DEF HeldOK, ServerParts, HeldRight
    <3>3. request[d].at = "erase" => request[d].p \in S!Pipelines /\ life'[request[d].p] = life[request[d].p]
      BY <1>4, <2>1, <2>2, <3>2 DEF HeldOK, WithPipeline
    <3> QED
      BY <2>1, <2>3, <3>1, <3>3 DEF SeenOK
  <2> QED
    BY <2>3, <2>4, <2>5, <2>6
<1> QED
  BY <1>1, <1>3, <1>4, <1>5, <1>6, <1>7

\* What becomes of the request of a handler.
LEMMA OwnRequest ==
  ASSUME ServerParts, NEW c \in Clients, Underway(c)
  PROVE  request[c] \in Requests /\ request[c].id \in Ids /\ request \in [Clients -> Requests]
BY RequestTypes DEF ServerParts, HeldRight, HeldOK

LEMMA RepliesTo ==
  ASSUME ServerParts, NEW c \in Clients, Underway(c), NEW step \in S!Places, S!To(c, step)
  PROVE  \E r \in Requests : /\ request' = [request EXCEPT ![c] = r] /\ r.at = step
                             /\ r.p = request[c].p /\ r.id = request[c].id
<1> DEFINE r == [request[c] EXCEPT !.at = step]
<1>1. r \in Requests /\ r.at = step /\ r.p = request[c].p /\ r.id = request[c].id
  BY OwnRequest DEF Requests
<1>2. request' = [request EXCEPT ![c] = r]
  BY OwnRequest DEF S!To
<1> QED
  BY <1>1, <1>2

LEMMA RepliesToWith ==
  ASSUME ServerParts, NEW c \in Clients, Underway(c), NEW step \in S!Places,
         NEW p \in S!Pipelines, S!ToWith(c, step, p)
  PROVE  \E r \in Requests : /\ request' = [request EXCEPT ![c] = r] /\ r.at = step
                             /\ r.p = p /\ r.id = request[c].id
<1> DEFINE r == [request[c] EXCEPT !.at = step, !.p = p]
<1>1. r \in Requests /\ r.at = step /\ r.p = p /\ r.id = request[c].id
  BY OwnRequest DEF Requests
<1>2. request' = [request EXCEPT ![c] = r]
  BY OwnRequest DEF S!ToWith
<1> QED
  BY <1>1, <1>2

LEMMA ServerTake ==
  ASSUME ServerParts, NEW c \in Clients, S!Take(c)
  PROVE  ServerParts'
<1>0. /\ request[c].at = "take" /\ Underway(c)
      /\ pipelines' = [pipelines EXCEPT ![request[c].id] = NoPipeline]
      /\ UNCHANGED <<home, life, locked, raced>>
  BY DEF S!Take, S!At, Underway
<1>1. /\ request[c] \in Requests /\ request[c].id \in Ids
      /\ S!Found(c) \in S!Pipelines \cup {NoPipeline} /\ S!Found(c) = pipelines[request[c].id]
  BY <1>0, OwnRequest, RequestTypes DEF S!Found
<1>2. PICK r \in Requests :
        /\ request' = [request EXCEPT ![c] = r] /\ (r.at = "idle" \/ r.id = request[c].id)
        /\ S!Found(c) # NoPipeline => r.at = "stop" /\ r.p = S!Found(c)
        /\ S!Found(c) = NoPipeline => r = S!None \/ (r.at = "build" /\ r.p = request[c].p)
  <2>1. CASE S!Found(c) # NoPipeline
    <3>1. S!Found(c) \in S!Pipelines /\ S!ToWith(c, "stop", S!Found(c)) /\ "stop" \in S!Places
      BY <2>1, <1>1 DEF S!Take, S!Places
    <3> QED
      BY <2>1, <3>1, <1>0, RepliesToWith
  <2>2. CASE S!Found(c) = NoPipeline
    <3>1. CASE S!Answer(c)
      BY <2>2, <3>1, NoneIsIdle DEF S!Answer
    <3>2. CASE S!To(c, "build")
      <4>1. "build" \in S!Places
        BY DEF S!Places
      <4> QED
        BY <2>2, <3>2, <4>1, <1>0, RepliesTo
    <3> QED
      BY <2>2, <3>1, <3>2 DEF S!Take
  <2> QED
    BY <2>1, <2>2
<1>3. /\ S!TypeOK' /\ RacesNoted' /\ request'[c] = r
      /\ \A d \in Clients : d # c => request'[d] = request[d] /\ HeldOK(d)' /\ SeenOK(d)'
      /\ \A i \in Ids : i # request[c].id => pipelines'[i] = pipelines[i]
  BY <1>0, <1>2, RequestTypes, ServerOthers DEF Lives
<1>4. HeldOK(c)' /\ SeenOK(c)'
  BY <1>0, <1>1, <1>2, <1>3, NoneIsIdle
  DEF ServerParts, MappedRight, HeldRight, HeldOK, SeenOK, Underway, WithPipeline
<1>5. MappedRight'
  BY <1>0, <1>3, RequestTypes DEF ServerParts, MappedRight
<1>6. KnownOrStopping'
  <2> SUFFICES ASSUME NEW p \in S!Pipelines
               PROVE  KnownOK(p)'
    BY DEF KnownOrStopping
  <2>1. KnownOK(p)
    BY DEF ServerParts, KnownOrStopping
  <2>2. CASE \E d \in Clients : request[d].p = p /\ request[d].at = "stop"
    BY <2>2, <1>0, <1>3 DEF KnownOK
  <2>3. CASE pipelines[home[p]] = p /\ p = S!Found(c)
    BY <2>3, <1>2, <1>3, NoPipelineIsNone DEF KnownOK
  <2>4. CASE pipelines[home[p]] = p /\ p # S!Found(c)
    BY <2>4, <1>0, <1>1, <1>3, RequestTypes DEF KnownOK
  <2>5. CASE life[p] \notin {"Running", "Paused"} \/ home[p] \in raced
    BY <2>5, <1>0 DEF KnownOK
  <2> QED
    BY <2>1, <2>2, <2>3, <2>4, <2>5 DEF KnownOK
<1> QED
  BY <1>3, <1>4, <1>5, <1>6 DEF ServerParts, HeldRight, SeenRight

\* The steps that change the life of the pipeline the handler holds.
LEMMA ServerLives ==
  ASSUME ServerParts, NEW c \in Clients, Underway(c), request[c].at \in {"stop", "act", "drain"},
         NEW s \in Lives, life' = [life EXCEPT ![request[c].p] = s],
         request[c].at = "stop" => s = "Stopped",
         NEW r \in Requests, request' = [request EXCEPT ![c] = r],
         \/ r.at = "idle" /\ r.p = NoPipeline
         \/ /\ r.at \in {"build", "drain", "erase"} /\ r.p = request[c].p /\ r.id = request[c].id
            /\ r.at \in {"drain", "erase"} => request[c].at # "stop"
            /\ r.at = "erase" => s = "Stopped",
         UNCHANGED <<pipelines, home, raced>>, locked' \subseteq S!Pipelines
  PROVE  ServerParts'
<1>1. /\ S!TypeOK' /\ RacesNoted' /\ request'[c] = r
      /\ \A d \in Clients : d # c => request'[d] = request[d] /\ HeldOK(d)' /\ SeenOK(d)'
      /\ \A p \in S!Pipelines : /\ p # request[c].p => life'[p] = life[p]
                                /\ life[p] # "none" => life'[p] # "none"
  BY ServerOthers, RequestTypes
<1>2. /\ HeldOK(c) /\ SeenOK(c) /\ request[c] \in Requests
      /\ request[c].p \in S!Pipelines /\ request[c].p # NoPipeline
      /\ life'[request[c].p] = s /\ home[request[c].p] = request[c].id
  BY OwnRequest, RequestTypes DEF ServerParts, HeldRight, SeenRight, HeldOK, WithPipeline, Requests
<1>3. HeldOK(c)'
  BY <1>1, <1>2 DEF HeldOK, Underway, WithPipeline, Lives
<1>4. SeenOK(c)'
  BY <1>1, <1>2 DEF SeenOK
<1>5. MappedRight'
  BY <1>1, RequestTypes DEF ServerParts, MappedRight
<1>6. KnownOrStopping'
  <2> SUFFICES ASSUME NEW p \in S!Pipelines
               PROVE  KnownOK(p)'
    BY DEF KnownOrStopping
  <2>1. KnownOK(p)
    BY DEF ServerParts, KnownOrStopping
  <2>2. CASE p # request[c].p
    BY <2>1, <2>2, <1>1 DEF KnownOK
  <2>3. CASE p = request[c].p /\ request[c].at = "stop"
    BY <2>3, <1>2 DEF KnownOK
  <2>4. CASE p = request[c].p /\ request[c].at # "stop"
    BY <2>4, <1>2 DEF KnownOK, SeenOK
  <2> QED
    BY <2>2, <2>3, <2>4
<1> QED
  BY <1>1, <1>3, <1>4, <1>5, <1>6 DEF ServerParts, HeldRight, SeenRight

LEMMA ServerStopOld ==
  ASSUME ServerParts, NEW c \in Clients, S!StopOld(c)
  PROVE  ServerParts'
<1>1. /\ request[c].at = "stop" /\ Underway(c)
      /\ life' = [life EXCEPT ![request[c].p] = "Stopped"]
      /\ UNCHANGED <<pipelines, home, locked, raced>> /\ locked' \subseteq S!Pipelines
  BY RequestTypes DEF S!StopOld, S!At, Underway
<1>2. "Stopped" \in Lives /\ "build" \in S!Places
  BY DEF Lives, S!Places
<1>3. CASE S!To(c, "build")
  <2>1. PICK r \in Requests : /\ request' = [request EXCEPT ![c] = r] /\ r.at = "build"
                              /\ r.p = request[c].p /\ r.id = request[c].id
    BY <1>1, <1>2, <1>3, RepliesTo
  <2> QED
    BY <1>1, <1>2, <2>1, ServerLives
<1>4. CASE S!Answer(c)
  BY <1>1, <1>2, <1>4, NoneIsIdle, ServerLives DEF S!Answer
<1> QED
  BY <1>3, <1>4 DEF S!StopOld

LEMMA MoveLives ==
  ASSUME NEW op, NEW s \in Lives
  PROVE  S!Move(op, s) \in Lives
BY DEF S!Move, Lives

LEMMA ServerAct ==
  ASSUME ServerParts, NEW c \in Clients, S!Act(c)
  PROVE  ServerParts'
<1> DEFINE next == S!Move(request[c].op, life[request[c].p])
<1>1. /\ request[c].at = "act" /\ Underway(c)
      /\ life' = [life EXCEPT ![request[c].p] = next]
      /\ UNCHANGED <<pipelines, home, raced>>
      /\ locked' \in {locked, locked \cup {request[c].p}}
      /\ S!To(c, "drain") \/ S!Answer(c)
  BY DEF S!Act, S!At, Underway
<1>2. request[c].p \in S!Pipelines /\ life[request[c].p] \in Lives
  BY <1>1, OwnRequest, RequestTypes DEF ServerParts, HeldRight, HeldOK, WithPipeline, Requests, Lives
<1>3. next \in Lives /\ locked' \subseteq S!Pipelines /\ "drain" \in S!Places
  BY <1>1, <1>2, MoveLives, RequestTypes DEF S!Places
<1> HIDE DEF next
<1>4. CASE S!To(c, "drain")
  <2>1. PICK r \in Requests : /\ request' = [request EXCEPT ![c] = r] /\ r.at = "drain"
                              /\ r.p = request[c].p /\ r.id = request[c].id
    BY <1>1, <1>3, <1>4, RepliesTo
  <2> QED
    BY <1>1, <1>3, <2>1, ServerLives
<1>5. CASE S!Answer(c)
  BY <1>1, <1>3, <1>5, NoneIsIdle, ServerLives DEF S!Answer
<1> QED
  BY <1>1, <1>4, <1>5

LEMMA ServerDrained ==
  ASSUME ServerParts, NEW c \in Clients, S!Drained(c)
  PROVE  ServerParts'
<1>1. /\ request[c].at = "drain" /\ Underway(c)
      /\ life' = [life EXCEPT ![request[c].p] = "Stopped"]
      /\ UNCHANGED <<pipelines, home, raced>> /\ locked' \subseteq S!Pipelines
      /\ S!To(c, "erase") \/ S!Answer(c)
  BY RequestTypes DEF S!Drained, S!At, Underway
<1>2. "Stopped" \in Lives /\ "erase" \in S!Places
  BY DEF Lives, S!Places
<1>3. CASE S!To(c, "erase")
  <2>1. PICK r \in Requests : /\ request' = [request EXCEPT ![c] = r] /\ r.at = "erase"
                              /\ r.p = request[c].p /\ r.id = request[c].id
    BY <1>1, <1>2, <1>3, RepliesTo
  <2> QED
    BY <1>1, <1>2, <2>1, ServerLives
<1>4. CASE S!Answer(c)
  BY <1>1, <1>2, <1>4, NoneIsIdle, ServerLives DEF S!Answer
<1> QED
  BY <1>1, <1>3, <1>4

\* The last steps: the entry of the identifier is written and the call is over.
LEMMA ServerWrites ==
  ASSUME ServerParts, NEW c \in Clients, request[c].at \in {"insert", "erase"}, S!Answer(c),
         NEW v \in {NoPipeline, request[c].p},
         pipelines' = [pipelines EXCEPT ![request[c].id] = v],
         request[c].at = "erase" => v = NoPipeline,
         UNCHANGED <<home, life, locked, raced>>
  PROVE  ServerParts'
<1>0. Underway(c) /\ request' = [request EXCEPT ![c] = S!None] /\ "Stopped" \in Lives
  BY DEF Underway, S!Answer, Lives
<1>1. /\ HeldOK(c) /\ SeenOK(c) /\ request[c].id \in Ids
      /\ request[c].p \in S!Pipelines /\ request[c].p # NoPipeline
      /\ life[request[c].p] # "none" /\ home[request[c].p] = request[c].id
  BY <1>0, OwnRequest, RequestTypes
  DEF ServerParts, HeldRight, SeenRight, HeldOK, WithPipeline, Requests
<1>2. /\ S!TypeOK' /\ RacesNoted' /\ request'[c] = S!None
      /\ \A d \in Clients : d # c => request'[d] = request[d] /\ HeldOK(d)' /\ SeenOK(d)'
      /\ \A i \in Ids : i # request[c].id => pipelines'[i] = pipelines[i]
  <2>1. v \in S!Pipelines \cup {NoPipeline} /\ locked' \subseteq S!Pipelines
    BY <1>1, RequestTypes
  <2> QED
    BY <1>0, <2>1, NoneIsIdle, ServerOthers
<1>3. pipelines'[request[c].id] = v
  BY <1>1, RequestTypes
<1>4. HeldOK(c)' /\ SeenOK(c)'
  BY <1>2, NoneIsIdle DEF HeldOK, SeenOK, Underway, WithPipeline
<1>5. MappedRight'
  BY <1>1, <1>2, <1>3 DEF ServerParts, MappedRight
<1>6. KnownOrStopping'
  <2> SUFFICES ASSUME NEW p \in S!Pipelines
               PROVE  KnownOK(p)'
    BY DEF KnownOrStopping
  <2>1. KnownOK(p)
    BY DEF ServerParts, KnownOrStopping
  <2>2. CASE \E d \in Clients : request[d].p = p /\ request[d].at = "stop"
    BY <2>2, <1>2 DEF KnownOK
  <2>3. CASE life[p] \notin {"Running", "Paused"} \/ home[p] \in raced
    BY <2>3 DEF KnownOK
  <2>4. CASE pipelines[home[p]] = p /\ home[p] # request[c].id
    <3>1. home[p] \in Ids \/ home[p] = "none"
      BY RequestTypes
    <3>2. pipelines'[home[p]] = p
      BY <2>4, <3>1, <1>2, RequestTypes
    <3> QED
      BY <3>2 DEF KnownOK
  <2>5. CASE pipelines[home[p]] = p /\ home[p] = request[c].id
    BY <2>5, <1>1, NoPipelineIsNone DEF KnownOK, SeenOK
  <2> QED
    BY <2>1, <2>2, <2>3, <2>4, <2>5 DEF KnownOK
<1> QED
  BY <1>2, <1>4, <1>5, <1>6 DEF ServerParts, HeldRight, SeenRight

LEMMA ServerBuild ==
  ASSUME ServerParts, NEW c \in Clients, S!Build(c)
  PROVE  ServerParts'
<1>0. request[c].at = "build" /\ Underway(c) /\ UNCHANGED <<pipelines, locked>>
  BY DEF S!Build, S!At, Underway
<1>1. CASE S!Answer(c) /\ UNCHANGED <<home, life, raced>>
  BY <1>0, <1>1, ServerAnswers
<1>2. ASSUME NEW p \in S!Pipelines, NEW i \in Ids, life[p] = "none",
             home' = [home EXCEPT ![p] = i], life' = [life EXCEPT ![p] = "Initializing"],
             request' = [request EXCEPT ![c].at = "check", ![c].p = p, ![c].id = i],
             raced' = IF \E d \in Clients \ {c} : request[d].id = i THEN raced \cup {i} ELSE raced
      PROVE  ServerParts'
  <2> DEFINE r == [request[c] EXCEPT !.at = "check", !.p = p, !.id = i]
  <2>1. /\ r \in Requests /\ r.at = "check" /\ r.p = p /\ r.id = i
        /\ request' = [request EXCEPT ![c] = r]
    BY <1>0, <1>2, OwnRequest DEF Requests, S!Places
  <2> HIDE DEF r
  <2>2. \A d \in Clients : request'[d] = IF d = c THEN r ELSE request[d]
    BY <2>1, RequestTypes
  <2>3. /\ raced \subseteq raced' /\ raced' \subseteq Ids
        /\ \A q \in S!Pipelines : q # p => home'[q] = home[q] /\ life'[q] = life[q]
        /\ home'[p] = i /\ life'[p] = "Initializing"
    BY <1>2, RequestTypes
  <2>4. S!TypeOK'
    <3>1. request' \in [Clients -> Requests]
      BY <2>1, RequestTypes
    <3>2. home' \in [S!Pipelines -> Ids \cup {"none"}]
      BY <1>2, RequestTypes
    <3>3. life' \in [S!Pipelines -> {"none", "Initializing", "Running", "Paused", "Draining", "Stopped"}]
      BY <1>2, RequestTypes
    <3> QED
      BY <3>1, <3>2, <3>3, <1>0, <2>3, RequestTypes DEF S!TypeOK, Requests
  <2>5. ASSUME NEW d \in Clients, d # c
        PROVE  HeldOK(d)' /\ SeenOK(d)'
    <3>1. /\ request'[d] = request[d] /\ HeldOK(d) /\ SeenOK(d)
          /\ request[d].p \in S!Pipelines \cup {NoPipeline}
      BY <2>2, <2>5, RequestTypes DEF ServerParts, HeldRight, SeenRight, Requests
    <3>2. request[d].p # NoPipeline => request[d].p # p
      BY <1>2, <3>1 DEF HeldOK
    <3>3. HeldOK(d)'
      BY <2>3, <3>1, <3>2 DEF HeldOK, Underway
    <3>4. request[d].at = "erase" => request[d].p # NoPipeline
      BY <3>1 DEF HeldOK, WithPipeline
    <3>5. SeenOK(d)'
      BY <1>0, <2>3, <3>1, <3>2, <3>4 DEF SeenOK
    <3> QED
      BY <3>3, <3>5
  <2>6. HeldOK(c)' /\ SeenOK(c)'
    BY <2>1, <2>2, <2>3, NoPipelineIsNone DEF HeldOK, SeenOK, Underway
  <2>7. MappedRight'
    BY <1>0, <1>2, <2>3, RequestTypes DEF ServerParts, MappedRight
  <2>8. RacesNoted'
    <3> SUFFICES ASSUME NEW a \in Clients, NEW b \in Clients, a # b, Underway(a)', Underway(b)',
                        request'[a].id = request'[b].id
                 PROVE  request'[a].id \in raced'
      BY DEF RacesNoted
    <3>1. CASE a # c /\ b # c
      BY <3>1, <2>2, <2>3 DEF ServerParts, RacesNoted, Underway
    <3>2. CASE a = c \/ b = c
      BY <3>2, <1>2, <2>1, <2>2
    <3> QED
      BY <3>1, <3>2
  <2>9. KnownOrStopping'
    <3> SUFFICES ASSUME NEW q \in S!Pipelines
                 PROVE  KnownOK(q)'
      BY DEF KnownOrStopping
    <3>1. KnownOK(q)
      BY DEF ServerParts, KnownOrStopping
    <3>2. CASE q = p
      BY <3>2, <2>3 DEF KnownOK
    <3>3. CASE q # p
      BY <3>1, <3>3, <1>0, <2>2, <2>3 DEF KnownOK
    <3> QED
      BY <3>2, <3>3
  <2> QED
    BY <2>4, <2>5, <2>6, <2>7, <2>8, <2>9 DEF ServerParts, HeldRight, SeenRight
<1> QED
  BY <1>1, <1>2 DEF S!Build

LEMMA ServerSteps ==
  ASSUME ServerParts, NEW c \in Clients, S!Handle(c)
  PROVE  ServerParts'
<1>1. CASE \/ S!Update(c) \/ S!Delete(c) \/ S!Start(c) \/ S!Pause(c) \/ S!Resume(c)
           \/ S!Drain(c) \/ S!Stop(c) \/ S!DrainAndRemove(c) \/ S!Fire(c)
  BY <1>1, ServerLookup
  DEF S!Update, S!Delete, S!Start, S!Pause, S!Resume, S!Drain, S!Stop, S!DrainAndRemove, S!Fire
<1>2. CASE S!Create(c)
  <2>1. request[c].at = "get" /\ Underway(c) /\ UNCHANGED <<pipelines, home, life, locked, raced>>
    BY <1>2 DEF S!Create, S!At, S!state, Underway
  <2>2. S!To(c, "build") \/ S!Answer(c)
    BY <1>2 DEF S!Create
  <2> QED
    BY <2>1, <2>2, ServerTo, ServerAnswers
<1>3. CASE S!DeployCheck(c)
  <2>1. request[c].at = "check" /\ Underway(c) /\ UNCHANGED <<pipelines, home, life, locked, raced>>
    BY <1>3 DEF S!DeployCheck, S!At, S!state, Underway
  <2>2. (S!To(c, "insert") /\ S!Found(c) = NoPipeline) \/ S!Answer(c)
    BY <1>3 DEF S!DeployCheck
  <2>3. request[c].p # NoPipeline
    BY <2>1 DEF ServerParts, HeldRight, HeldOK, WithPipeline
  <2> QED
    BY <2>1, <2>2, <2>3, ServerTo, ServerAnswers
<1>4. CASE S!DeployInsert(c)
  BY <1>4, ServerWrites DEF S!DeployInsert, S!At
<1>5. CASE S!Erase(c)
  BY <1>5, ServerWrites DEF S!Erase, S!At
<1>6. CASE S!Event(c)
  BY <1>6, ServerAnswers DEF S!Event, S!At, S!state
<1> QED
  BY <1>1, <1>2, <1>3, <1>4, <1>5, <1>6, ServerTake, ServerStopOld, ServerBuild, ServerAct,
     ServerDrained DEF S!Handle

LEMMA ServerStep ==
  ASSUME ServerInv, [Next]_vars
  PROVE  ServerInv'
<1> SUFFICES ASSUME part' = "server"
             PROVE  ServerParts'
  BY DEF ServerInv
<1>1. ServerParts /\ (S!Next \/ UNCHANGED server)
  BY PartSteps DEF ServerInv
<1>2. CASE S!Next
  BY <1>1, <1>2, ServerSteps, ServerArrive DEF S!Next
<1>3. CASE UNCHANGED server
  BY <1>1, <1>3
  DEF server, ServerParts, S!TypeOK, HeldRight, SeenRight, MappedRight, RacesNoted,
      KnownOrStopping, HeldOK, SeenOK, KnownOK, Underway
<1> QED
  BY <1>1, <1>2, <1>3

LEMMA ServerStart == InitPart => ServerInv
<1> SUFFICES ASSUME S!Init
             PROVE  ServerParts
  BY DEF InitPart, Init, ServerInv
<1>1. \A c \in Clients : request[c] = S!None
  BY DEF S!Init
<1>2. S!TypeOK
  BY NoneIsIdle DEF S!Init, S!TypeOK, Requests
<1>3. HeldRight /\ SeenRight /\ RacesNoted
  BY <1>1, NoneIsIdle DEF HeldRight, SeenRight, RacesNoted, HeldOK, SeenOK, Underway, WithPipeline
<1>4. MappedRight /\ KnownOrStopping
  BY DEF S!Init, MappedRight, KnownOrStopping, KnownOK
<1> QED
  BY <1>2, <1>3, <1>4 DEF ServerParts

(* Whatever the requests of any number of clients do to one another, a      *)
(* pipeline that takes events and that no handler is busy with is in the    *)
(* controller's map, unless requests for its identifier have overlapped.    *)
THEOREM RunningPipelinesAreKnown == Spec => []RunningIsKnown
<1>1. ServerInv => RunningIsKnown
  BY DEF ServerInv, ServerParts, KnownOrStopping, KnownOK, RunningIsKnown, S!RunningIsKnown, S!InUse
<1> QED
  BY ServerStart, ServerStep, <1>1, PTL DEF Spec

-----------------------------------------------------------------------------
(* Facts about numbers.                                                     *)
\* The least of some numbers.
LEMMA LeastNumber ==
  ASSUME NEW I \in SUBSET Nat, I # {}
  PROVE  \E x \in I : \A y \in I : x <= y
<1>1. \E x \in I : \A y \in I : ~(<<y, x>> \in OpToRel(<, Nat))
  BY NatLessThanWellFounded, WFMin
<1>2. PICK x \in I : \A y \in I : ~(<<y, x>> \in OpToRel(<, Nat))
  BY <1>1
<1>3. ASSUME NEW y \in I PROVE x <= y
  <2>1. <<y, x>> \in Nat \X Nat /\ <<y, x>>[1] = y /\ <<y, x>>[2] = x
    OBVIOUS
  <2>2. ~(y < x)
    BY <1>2, <2>1 DEF OpToRel
  <2> QED
    BY <2>2
<1> QED
  BY <1>3

(* Counting up to a number: where a claim fails there is a least number at  *)
(* which it does.  With it, functions that are defined by recursion over    *)
(* numbers exist, and what they compute can be followed.                    *)
LEMMA Counting ==
  ASSUME NEW m \in Nat, NEW reached, 0 \in reached,
         \A k \in 1 .. m : k - 1 \in reached => k \in reached
  PROVE  \A k \in 0 .. m : k \in reached
<1> DEFINE missed == {k \in 0 .. m : k \notin reached}
<1>1. SUFFICES ASSUME missed # {} PROVE FALSE
  OBVIOUS
<1>2. missed \in SUBSET Nat
  OBVIOUS
<1>3. PICK x \in missed : \A y \in missed : x <= y
  <2> HIDE DEF missed
  <2> QED
    BY <1>1, <1>2, LeastNumber
<1>4. x \in 1 .. m /\ x - 1 \in 0 .. m
  <2>1. x \in 0 .. m /\ x # 0
    OBVIOUS
  <2> QED
    BY <2>1
<1>5. x - 1 \notin missed
  <2> HIDE DEF missed
  <2> QED
    BY <1>3, <1>4
<1> QED
  BY <1>4, <1>5

\* What starts with base and goes on by step, up to n.
GoesOn(f, n, V, base, step) ==
  f \in [0 .. n -> V] /\ f[0] = base /\ \A k \in 1 .. n : f[k] = step[k][f[k - 1]]

LEMMA Recurs ==
  ASSUME NEW n \in Nat, NEW V, NEW base \in V, NEW step \in [1 .. n -> [V -> V]]
  PROVE  \E f : GoesOn(f, n, V, base, step)
<1> DEFINE Built(f, m) == f \in [0 .. m -> V] /\ f[0] = base /\ \A k \in 1 .. m : f[k] = step[k][f[k - 1]]
           built == {m \in Nat : \E f : Built(f, m)}
<1>1. 0 \in built
  <2>1. Built([k \in 0 .. 0 |-> base], 0)
    OBVIOUS
  <2> QED
    BY <2>1
<1>2. ASSUME NEW m \in 1 .. n, m - 1 \in built PROVE m \in built
  <2>1. m \in Nat /\ m - 1 \in Nat
    OBVIOUS
  <2>2. PICK f : Built(f, m - 1)
    BY <1>2
  <2> DEFINE g == [k \in 0 .. m |-> IF k = m THEN step[m][f[m - 1]] ELSE f[k]]
  <2>3. \A k \in 0 .. m - 1 : f[k] \in V /\ g[k] = f[k] /\ k # m
    BY <2>1, <2>2
  <2>4. step[m][f[m - 1]] \in V
    <3>1. m - 1 \in 0 .. m - 1
      BY <2>1
    <3> QED
      BY <2>3, <3>1
  <2>5. g \in [0 .. m -> V]
    <3>1. ASSUME NEW k \in 0 .. m, k # m PROVE k \in 0 .. m - 1
      BY <2>1, <3>1
    <3>2. \A k \in 0 .. m : g[k] \in V
      BY <2>3, <2>4, <3>1
    <3>3. g = [k \in 0 .. m |-> g[k]]
      OBVIOUS
    <3> HIDE DEF g
    <3> QED
      BY <3>2, <3>3
  <2>6. ASSUME NEW k \in 1 .. m PROVE g[k] = step[k][g[k - 1]]
    <3>1. k - 1 \in 0 .. m - 1 /\ g[k - 1] = f[k - 1]
      BY <2>1, <2>3
    <3>2. CASE k = m
      <4>1. g[m] = step[m][f[m - 1]]
        BY <2>1
      <4> HIDE DEF g
      <4> QED
        BY <3>1, <3>2, <4>1
    <3>3. CASE k # m
      <4>1. k \in 1 .. m - 1 /\ k \in 0 .. m - 1
        BY <2>1, <3>3
      <4> QED
        BY <2>2, <2>3, <3>1, <4>1
    <3> QED
      BY <3>2, <3>3
  <2>7. g[0] = base
    BY <2>1, <2>2, <2>3
  <2> HIDE DEF g
  <2> QED
    BY <2>1, <2>5, <2>6, <2>7
<1>3. \A k \in 0 .. n : k \in built
  <2> HIDE DEF built
  <2> QED
    BY <1>1, <1>2, Counting
<1> QED
  BY <1>3 DEF GoesOn


-----------------------------------------------------------------------------
(* The loader: topological_sort takes a node whose predecessors it has      *)
(* taken.  In this part s1 is the flow, s2 the stage, s3 the degrees, s4    *)
(* the nodes that are ready and s5 the order.                               *)

\* The edges into a node that are still counted.
Waiting(f, done, n) == {e \in F!Forward(f) : e.to = n /\ e.from \notin done}

Accepted(f) == ~(f.validate /\ F!Errors(f) # {})

\* Every node of the order comes once, and after its predecessors.
Ordered(f, s) ==
  /\ s \in Seq(F!RegisterIds(f))
  /\ \A i, j \in DOMAIN s : s[i] = s[j] => i = j
  /\ \A j \in DOMAIN s, e \in F!Forward(f) : e.to = s[j] => \E i \in 1 .. j - 1 : s[i] = e.from

Sorting(f, d, r, s) ==
  /\ Ordered(f, s)
  /\ d = [n \in F!RegisterIds(f) |-> Cardinality(Waiting(f, F!Range(s), n))]
  /\ r = {n \in F!RegisterIds(f) \ F!Range(s) : d[n] = 0}

LoaderStages ==
  \/ s2 = "read" /\ s5 = <<>>
  \/ s2 = "invalid" /\ ~Accepted(s1)
  \/ s2 = "unbuildable" /\ Accepted(s1) /\ ~F!EdgesKnown(s1)
  \/ s2 = "sorting" /\ Accepted(s1) /\ F!EdgesKnown(s1) /\ Sorting(s1, s3, s4, s5)
  \/ /\ s2 \in {"loaded", "unbuildable"} /\ Accepted(s1) /\ F!EdgesKnown(s1) /\ Sorting(s1, s3, {}, s5)
     /\ s2 = "loaded" <=> Len(s5) = Cardinality(F!RegisterIds(s1))

LoaderInv == part = "loader" => s1 \in Flows /\ LoaderStages

\* The module has its own copies of these.
LEMMA SameSizes == \A X : F!Cardinality(X) = Cardinality(X) /\ (F!IsFiniteSet(X) <=> IsFiniteSet(X))
<1>1. \A X : F!Cardinality(X) = Cardinality(X)
  BY Zenon DEF F!Cardinality, Cardinality
<1>2. \A X : F!IsFiniteSet(X) <=> IsFiniteSet(X)
  BY Zenon DEF F!IsFiniteSet, IsFiniteSet
<1> QED
  BY <1>1, <1>2

\* A flow has finitely many nodes and edges.
LEMMA FlowIsFinite ==
  ASSUME NEW f \in Flows
  PROVE  /\ IsFiniteSet(F!RegisterIds(f)) /\ IsFiniteSet(F!Forward(f))
         /\ Cardinality(F!RegisterIds(f)) \in Nat
         /\ F!EnabledTriggers(f) \subseteq F!AllTriggerIds(f)
<1>1. IsFiniteSet(DOMAIN f.triggers) /\ IsFiniteSet(DOMAIN f.nodes) /\ IsFiniteSet(f.edges)
  BY ServiceAssumption, SameSizes DEF F!FlowConstants
<1> DEFINE places == {j \in DOMAIN f.triggers : f.triggers[j].enabled}
           ids == {f.triggers[i].id : i \in places}
           id == [i \in places |-> f.triggers[i].id]
<1>2. IsFiniteSet(places) /\ places \subseteq DOMAIN f.triggers
  BY <1>1, FS_Subset
<1>3. IsFiniteSet(ids)
  <2>1. id \in Surjection(places, ids)
    BY DEF Surjection
  <2> HIDE DEF id, ids, places
  <2> QED
    BY <1>2, <2>1, FS_Surjection
<1>4. F!EnabledTriggers(f) = ids
  BY DEF F!EnabledTriggers
<1>5. IsFiniteSet(F!EnabledNodes(f))
  BY <1>1, FS_Subset DEF F!EnabledNodes
<1>6. IsFiniteSet(F!RegisterIds(f))
  <2> HIDE DEF ids
  <2> QED
    BY <1>3, <1>4, <1>5, FS_Union DEF F!RegisterIds
<1>7. IsFiniteSet(F!Forward(f))
  BY <1>1, FS_Subset DEF F!Forward
<1>8. F!EnabledTriggers(f) \subseteq F!AllTriggerIds(f)
  BY DEF F!EnabledTriggers, F!AllTriggerIds
<1> QED
  BY <1>6, <1>7, <1>8, FS_CardinalityType

LEMMA WaitingIsFinite ==
  ASSUME NEW f \in Flows, NEW done, NEW n
  PROVE  /\ IsFiniteSet(Waiting(f, done, n)) /\ Cardinality(Waiting(f, done, n)) \in Nat
         /\ Cardinality(Waiting(f, done, n)) = 0 <=> Waiting(f, done, n) = {}
<1>1. IsFiniteSet(F!Forward(f))
  BY FlowIsFinite
<1>2. Waiting(f, done, n) \in SUBSET F!Forward(f)
  BY DEF Waiting
<1>3. IsFiniteSet(Waiting(f, done, n))
  BY <1>1, <1>2, FS_Subset
<1> QED
  BY <1>3, FS_CardinalityType, FS_EmptySet

\* The sort begins.
LEMMA SortingBegins ==
  ASSUME NEW f \in Flows
  PROVE  Sorting(f, F!InDegree(f), {n \in F!RegisterIds(f) : F!InDegree(f)[n] = 0}, <<>>)
<1>1. F!Range(<<>>) = {}
  BY DEF F!Range
<1>2. Ordered(f, <<>>)
  BY DEF Ordered
<1>3. ASSUME NEW n PROVE Waiting(f, {}, n) = {e \in F!Forward(f) : e.to = n}
  BY DEF Waiting
<1>4. F!InDegree(f) = [n \in F!RegisterIds(f) |-> Cardinality(Waiting(f, {}, n))]
  BY <1>3, SameSizes DEF F!InDegree
<1> QED
  BY <1>1, <1>2, <1>4 DEF Sorting

\* What was taken waits for nothing.
LEMMA TakenIsReady ==
  ASSUME NEW f \in Flows, NEW s, Ordered(f, s), NEW n \in F!Range(s)
  PROVE  Waiting(f, F!Range(s), n) = {} /\ n \in F!RegisterIds(f)
<1>1. PICK j \in DOMAIN s : n = s[j]
  BY DEF F!Range
<1>2. s \in Seq(F!RegisterIds(f)) /\ DOMAIN s = 1 .. Len(s) /\ Len(s) \in Nat
  BY DEF Ordered
<1>3. ASSUME NEW e \in F!Forward(f), e.to = n PROVE e.from \in F!Range(s)
  <2>1. PICK i \in 1 .. j - 1 : s[i] = e.from
    BY <1>1, <1>3 DEF Ordered
  <2>2. i \in DOMAIN s
    BY <1>1, <1>2
  <2> QED
    BY <2>1, <2>2 DEF F!Range
<1>4. n \in F!RegisterIds(f)
  BY <1>1, <1>2
<1> QED
  BY <1>3, <1>4 DEF Waiting

\* One node more: it is no longer counted for those that come after it.
LEMMA OrderGoesOn ==
  ASSUME NEW f \in Flows, NEW s, Ordered(f, s), NEW n \in F!RegisterIds(f) \ F!Range(s),
         Waiting(f, F!Range(s), n) = {}
  PROVE  Ordered(f, Append(s, n)) /\ F!Range(Append(s, n)) = F!Range(s) \cup {n}
<1> DEFINE t == Append(s, n)
<1>1. s \in Seq(F!RegisterIds(f)) /\ DOMAIN s = 1 .. Len(s) /\ Len(s) \in Nat
  BY DEF Ordered
<1>2. /\ t \in Seq(F!RegisterIds(f)) /\ DOMAIN t = 1 .. Len(s) + 1 /\ t[Len(s) + 1] = n
      /\ \A i \in 1 .. Len(s) : t[i] = s[i] /\ s[i] \in F!Range(s)
  BY <1>1 DEF F!Range
<1> HIDE DEF t
<1>3. F!Range(t) = F!Range(s) \cup {n}
  <2>1. \A i \in DOMAIN t : i \in 1 .. Len(s) \/ i = Len(s) + 1
    BY <1>1, <1>2
  <2>2. \A i \in DOMAIN s : i \in DOMAIN t
    BY <1>1, <1>2
  <2>3. Len(s) + 1 \in DOMAIN t
    BY <1>1, <1>2
  <2> QED
    BY <1>1, <1>2, <2>1, <2>2, <2>3 DEF F!Range
<1>4. ASSUME NEW i \in DOMAIN t, NEW j \in DOMAIN t, t[i] = t[j] PROVE i = j
  <2>1. (i \in 1 .. Len(s) \/ i = Len(s) + 1) /\ (j \in 1 .. Len(s) \/ j = Len(s) + 1)
    BY <1>1, <1>2
  <2> QED
    BY <1>1, <1>2, <1>4, <2>1 DEF Ordered
<1>5. ASSUME NEW j \in DOMAIN t, NEW e \in F!Forward(f), e.to = t[j]
      PROVE  \E i \in 1 .. j - 1 : t[i] = e.from
  <2>1. CASE j \in 1 .. Len(s)
    <3>1. PICK i \in 1 .. j - 1 : s[i] = e.from
      BY <1>1, <1>2, <1>5, <2>1 DEF Ordered
    <3>2. i \in 1 .. Len(s)
      BY <1>1, <2>1
    <3> QED
      BY <1>2, <3>1, <3>2
  <2>2. CASE j = Len(s) + 1
    <3>1. e.from \in F!Range(s)
      BY <1>2, <1>5, <2>2 DEF Waiting
    <3>2. PICK i \in 1 .. Len(s) : s[i] = e.from
      BY <1>1, <3>1 DEF F!Range
    <3>3. i \in 1 .. j - 1
      BY <1>1, <2>2
    <3> QED
      BY <1>2, <3>2, <3>3
  <2> QED
    BY <1>1, <1>2, <2>1, <2>2
<1>6. Ordered(f, t)
  BY <1>2, <1>4, <1>5 DEF Ordered
<1> QED
  BY <1>3, <1>6 DEF t

Lowered(f, d, n) == [m \in DOMAIN d |-> d[m] - F!Cardinality({e \in F!Forward(f) : e.from = n /\ e.to = m})]
ReadyNext(d, d1, r, n) == (r \ {n}) \cup {m \in DOMAIN d : d[m] > 0 /\ d1[m] = 0}

LEMMA SortingGoesOn ==
  ASSUME NEW f \in Flows, NEW d, NEW r, NEW s, Sorting(f, d, r, s), NEW n \in r
  PROVE  Sorting(f, Lowered(f, d, n), ReadyNext(d, Lowered(f, d, n), r, n), Append(s, n))
<1> DEFINE nodes == F!RegisterIds(f)
           done == F!Range(s)
           t == Append(s, n)
           d1 == Lowered(f, d, n)
           r1 == ReadyNext(d, d1, r, n)
<1>1. /\ Ordered(f, s) /\ d = [m \in nodes |-> Cardinality(Waiting(f, done, m))]
      /\ r = {m \in nodes \ done : d[m] = 0}
  BY DEF Sorting
<1>2. n \in nodes \ done /\ Waiting(f, done, n) = {}
  <2>1. n \in nodes \ done /\ Cardinality(Waiting(f, done, n)) = 0
    BY <1>1
  <2> QED
    BY <2>1, WaitingIsFinite
<1>3. Ordered(f, t) /\ F!Range(t) = done \cup {n}
  BY <1>1, <1>2, OrderGoesOn
<1>4. ASSUME NEW m \in nodes PROVE d1[m] = Cardinality(Waiting(f, done \cup {n}, m))
  <2> DEFINE gone == {e \in F!Forward(f) : e.from = n /\ e.to = m}
             old == Waiting(f, done, m)
  <2>1. Waiting(f, done \cup {n}, m) = old \ gone /\ old \cap gone = gone
    BY <1>2 DEF Waiting
  <2>2. IsFiniteSet(old)
    BY WaitingIsFinite
  <2>3. d1[m] = Cardinality(old) - Cardinality(gone)
    BY <1>1, SameSizes DEF Lowered
  <2> HIDE DEF old, gone
  <2>4. Cardinality(old \ gone) = Cardinality(old) - Cardinality(old \cap gone)
    BY <2>2, FS_Difference
  <2> QED
    BY <2>1, <2>3, <2>4
<1>5. d1 = [m \in nodes |-> Cardinality(Waiting(f, done \cup {n}, m))]
  BY <1>1, <1>4 DEF Lowered
<1>6. ASSUME NEW m \in nodes
      PROVE  m \in r1 <=> m \notin done \cup {n} /\ d1[m] = 0
  <2>1. d[m] = Cardinality(Waiting(f, done, m)) /\ d[m] \in Nat
    BY <1>1, WaitingIsFinite
  <2>2. CASE d[m] = 0
    <3>1. Waiting(f, done, m) = {}
      BY <2>1, <2>2, WaitingIsFinite
    <3>2. Waiting(f, done \cup {n}, m) = {}
      BY <3>1 DEF Waiting
    <3>3. d1[m] = 0
      BY <1>4, <3>2, WaitingIsFinite
    <3> QED
      BY <1>1, <2>2, <3>3 DEF ReadyNext
  <2>3. CASE d[m] # 0
    <3>1. m \notin done
      BY <1>1, <2>1, <2>3, TakenIsReady, WaitingIsFinite
    <3>2. m # n
      BY <1>1, <2>3
    <3>3. d[m] > 0
      BY <2>1, <2>3
    <3> QED
      BY <1>1, <2>3, <3>1, <3>2, <3>3 DEF ReadyNext
  <2> QED
    BY <2>2, <2>3
<1>7. r1 = {m \in nodes \ (done \cup {n}) : d1[m] = 0}
  <2>1. r1 \subseteq nodes
    BY <1>1 DEF ReadyNext
  <2> HIDE DEF r1
  <2> QED
    BY <1>6, <2>1
<1> HIDE DEF r1, t, d1
<1>8. Sorting(f, d1, r1, t)
  BY <1>3, <1>5, <1>7 DEF Sorting
<1> QED
  BY <1>8 DEF r1, t, d1

(* If nothing is ready any more, the order has every node if and only if    *)
(* there is no cycle.                                                       *)
LEMMA OrderIsLong ==
  ASSUME NEW f \in Flows, NEW s, Ordered(f, s)
  PROVE  /\ F!Range(s) \in SUBSET F!RegisterIds(f) /\ IsFiniteSet(F!Range(s))
         /\ Cardinality(F!Range(s)) = Len(s)
         /\ Len(s) = Cardinality(F!RegisterIds(f)) <=> F!Range(s) = F!RegisterIds(f)
<1> DEFINE nodes == F!RegisterIds(f)
           done == F!Range(s)
<1>1. s \in [1 .. Len(s) -> nodes] /\ Len(s) \in Nat /\ IsFiniteSet(nodes)
  BY FlowIsFinite DEF Ordered
<1>2. done \in SUBSET nodes
  BY <1>1 DEF F!Range
<1>3. s \in Surjection(1 .. Len(s), done) /\ s \in Injection(1 .. Len(s), done)
  <2>1. s \in [1 .. Len(s) -> done]
    BY <1>1 DEF F!Range
  <2>2. \A x \in done : \E i \in 1 .. Len(s) : s[i] = x
    BY <1>1 DEF F!Range
  <2>3. \A i, j \in 1 .. Len(s) : s[i] = s[j] => i = j
    BY <1>1 DEF Ordered
  <2> HIDE DEF done
  <2>4. s \in Surjection(1 .. Len(s), done)
    BY <2>1, <2>2 DEF Surjection
  <2>5. s \in Injection(1 .. Len(s), done)
    BY <2>1, <2>3 DEF Injection, IsInjective
  <2> QED
    BY <2>4, <2>5
<1>4. IsFiniteSet(1 .. Len(s)) /\ Cardinality(1 .. Len(s)) = Len(s)
  <2>1. Cardinality(1 .. Len(s)) = IF 1 > Len(s) THEN 0 ELSE Len(s) - 1 + 1
    BY <1>1, FS_Interval
  <2> QED
    BY <1>1, <2>1, FS_Interval
<1> HIDE DEF done, nodes
<1>5. IsFiniteSet(done) /\ Cardinality(done) = Len(s)
  BY <1>3, <1>4, FS_Surjection
<1>6. Cardinality(nodes) = Cardinality(done) => nodes = done
  BY <1>1, <1>2, FS_Subset
<1> QED
  BY <1>2, <1>5, <1>6 DEF done, nodes

LEMMA SortedIsAcyclic ==
  ASSUME NEW f \in Flows, F!EdgesKnown(f), NEW d, NEW s, Sorting(f, d, {}, s)
  PROVE  F!Range(s) = F!RegisterIds(f) <=> ~F!Cyclic(f)
<1> DEFINE nodes == F!RegisterIds(f)
           done == F!Range(s)
           Ring(set) == \A n \in set : \E e \in F!Forward(f) : e.to = n /\ e.from \in set
<1>1. /\ Ordered(f, s) /\ d = [m \in nodes |-> Cardinality(Waiting(f, done, m))]
      /\ {m \in nodes \ done : d[m] = 0} = {}
  BY DEF Sorting
<1>2. s \in [1 .. Len(s) -> nodes] /\ DOMAIN s = 1 .. Len(s) /\ Len(s) \in Nat /\ done \in SUBSET nodes
  BY <1>1, OrderIsLong DEF Ordered
<1>3. ASSUME done # nodes PROVE F!Cyclic(f)
  <2> DEFINE ring == nodes \ done
  <2>1. ring \in (SUBSET nodes) \ {{}}
    BY <1>2, <1>3
  <2>2. ASSUME NEW n \in ring PROVE \E e \in F!Forward(f) : e.to = n /\ e.from \in ring
    <3>1. Waiting(f, done, n) # {}
      BY <1>1, WaitingIsFinite
    <3>2. PICK e \in F!Forward(f) : e.to = n /\ e.from \notin done
      BY <3>1 DEF Waiting
    <3>3. e.from \in nodes
      BY DEF F!EdgesKnown, F!Forward
    <3> QED
      BY <3>2, <3>3
  <2> HIDE DEF ring
  <2> QED
    BY <2>1, <2>2 DEF F!Cyclic
<1>4. ASSUME done = nodes, NEW ring \in SUBSET nodes, ring # {}, Ring(ring) PROVE FALSE
  <2> DEFINE places == {j \in 1 .. Len(s) : s[j] \in ring}
  <2>1. places \in SUBSET Nat /\ places # {}
    <3>1. PICK x \in ring : x \in done
      BY <1>4
    <3>2. PICK i \in 1 .. Len(s) : s[i] = x
      BY <1>2, <3>1 DEF F!Range
    <3> QED
      BY <1>2, <3>1, <3>2
  <2>2. PICK j \in places : \A i \in places : j <= i
    <3> HIDE DEF places
    <3> QED
      BY <2>1, LeastNumber
  <2>3. PICK e \in F!Forward(f) : e.to = s[j] /\ e.from \in ring
    BY <1>4
  <2>4. PICK i \in 1 .. j - 1 : s[i] = e.from
    BY <1>1, <1>2, <2>3 DEF Ordered
  <2>5. i \in places /\ i < j
    BY <1>2, <2>3, <2>4
  <2>6. j <= i
    BY <2>2, <2>5
  <2> QED
    BY <1>2, <2>5, <2>6
<1> HIDE DEF nodes, done
<1>5. done = nodes => ~F!Cyclic(f)
  BY <1>4 DEF F!Cyclic, nodes
<1> QED
  BY <1>3, <1>5 DEF done, nodes

-----------------------------------------------------------------------------
(* The search for reachable nodes: round by round, until nothing is added.  *)
Found(f, set) == set \cup UNION {F!Children(f, n) : n \in set}
Rounds(f) ==
  CHOOSE search : search = [k \in 0 .. Cardinality(F!RegisterIds(f)) |->
    IF k = 0 THEN F!EnabledTriggers(f) ELSE Found(f, search[k - 1])]

LEMMA SearchIs ==
  ASSUME NEW f \in Flows
  PROVE  LET n == Cardinality(F!RegisterIds(f)) IN
         /\ F!Reachable(f) = Rounds(f)[n] /\ Rounds(f)[0] = F!EnabledTriggers(f)
         /\ \A k \in 1 .. n : Rounds(f)[k] = Found(f, Rounds(f)[k - 1])
         /\ \A k \in 0 .. n : Rounds(f)[k] \in SUBSET F!RegisterIds(f)
<1> DEFINE n == Cardinality(F!RegisterIds(f))
           V == SUBSET F!RegisterIds(f)
           base == F!EnabledTriggers(f)
           step == [k \in 1 .. n |-> [v \in V |-> Found(f, v)]]
           Goes(g) == g = [k \in 0 .. n |-> IF k = 0 THEN base ELSE Found(f, g[k - 1])]
           s == Rounds(f)
<1>1. n \in Nat /\ base \in V
  BY FlowIsFinite DEF F!RegisterIds
<1>2. ASSUME NEW v \in V PROVE Found(f, v) \in V
  BY DEF Found, F!Children, F!RegisterIds
<1>3. step \in [1 .. n -> [V -> V]]
  BY <1>2
<1>4. PICK g : GoesOn(g, n, V, base, step)
  <2> HIDE DEF step, n, V, base
  <2> QED
    BY <1>1, <1>3, Recurs
<1>5. g \in [0 .. n -> V] /\ g[0] = base /\ \A k \in 1 .. n : g[k] = step[k][g[k - 1]]
  BY <1>4 DEF GoesOn
<1>6. ASSUME NEW k \in 1 .. n PROVE g[k] = Found(f, g[k - 1])
  <2>1. k - 1 \in 0 .. n
    BY <1>1
  <2>2. g[k - 1] \in V /\ g[k] = step[k][g[k - 1]]
    BY <1>5, <2>1
  <2> HIDE DEF V
  <2> QED
    BY <2>2
<1> HIDE DEF V, base, step
<1>7. Goes(g)
  <2>1. ASSUME NEW k \in 0 .. n PROVE g[k] = IF k = 0 THEN base ELSE Found(f, g[k - 1])
    <3>1. k = 0 \/ k \in 1 .. n
      BY <1>1
    <3> QED
      BY <1>1, <1>5, <1>6, <3>1
  <2>2. g = [k \in 0 .. n |-> g[k]]
    BY <1>5
  <2> QED
    BY <2>1, <2>2
<1>8. Goes(s)
  BY <1>7 DEF Rounds, base
<1> HIDE DEF s
<1>9. s[0] = base /\ \A k \in 1 .. n : s[k] = Found(f, s[k - 1])
  BY <1>1, <1>8
<1> DEFINE typed == {k \in Nat : s[k] \in V}
<1>10. \A k \in 0 .. n : k \in typed
  <2>1. 0 \in typed
    BY <1>1, <1>9
  <2>2. \A k \in 1 .. n : k - 1 \in typed => k \in typed
    BY <1>1, <1>2, <1>9
  <2> HIDE DEF typed, n
  <2> QED
    BY <1>1, <2>1, <2>2, Counting
<1>11. F!Reachable(f) = s[n]
  BY SameSizes DEF F!Reachable, s, Rounds, Found
<1> QED
  BY <1>9, <1>10, <1>11 DEF s, V, base

\* Every set that has the triggers and is closed contains what is found.
LEMMA ReachableIsLeast ==
  ASSUME NEW f \in Flows, NEW set, F!EnabledTriggers(f) \subseteq set,
         \A e \in f.edges : e.from \in set /\ e.to \in F!EnabledNodes(f) => e.to \in set
  PROVE  F!Reachable(f) \subseteq set
<1> DEFINE n == Cardinality(F!RegisterIds(f))
           s == Rounds(f)
           within == {k \in Nat : s[k] \subseteq set}
<1>1. n \in Nat /\ F!Reachable(f) = s[n] /\ s[0] = F!EnabledTriggers(f) /\ \A k \in 1 .. n : s[k] = Found(f, s[k - 1])
  BY FlowIsFinite, SearchIs
<1>2. ASSUME NEW v, v \subseteq set PROVE Found(f, v) \subseteq set
  BY <1>2 DEF Found, F!Children
<1> HIDE DEF s, n
<1>3. \A k \in 0 .. n : k \in within
  <2>1. 0 \in within /\ \A k \in 1 .. n : k - 1 \in within => k \in within
    BY <1>1, <1>2
  <2> HIDE DEF within
  <2> QED
    BY <1>1, <2>1, Counting
<1> QED
  BY <1>1, <1>3

\* And what is found is closed: as long as it is not, it grows by a node.
LEMMA ReachableIsClosed ==
  ASSUME NEW f \in Flows
  PROVE  /\ F!Reachable(f) \in SUBSET F!RegisterIds(f) /\ F!EnabledTriggers(f) \subseteq F!Reachable(f)
         /\ Found(f, F!Reachable(f)) = F!Reachable(f)
<1> DEFINE nodes == F!RegisterIds(f)
           n == Cardinality(nodes)
           s == Rounds(f)
           Closed(v) == Found(f, v) = v
           far == {k \in Nat : F!EnabledTriggers(f) \subseteq s[k] /\ (Closed(s[k]) \/ Cardinality(s[k]) > k)}
<1>1. n \in Nat /\ IsFiniteSet(nodes)
  BY FlowIsFinite
<1>2. /\ F!Reachable(f) = s[n] /\ s[0] = F!EnabledTriggers(f)
      /\ \A k \in 1 .. n : s[k] = Found(f, s[k - 1])
      /\ \A k \in 0 .. n : s[k] \in SUBSET nodes
  BY SearchIs
<1> HIDE DEF s, n, nodes
<1>3. \A k \in 0 .. n : IsFiniteSet(s[k]) /\ Cardinality(s[k]) \in Nat /\ Cardinality(s[k]) <= Cardinality(nodes)
  BY <1>1, <1>2, FS_Subset, FS_CardinalityType
<1>4. 0 \in far
  <2>1. CASE s[0] = {}
    BY <1>2, <2>1 DEF Found
  <2>2. CASE s[0] # {}
    <3>1. Cardinality(s[0]) # 0 /\ Cardinality(s[0]) \in Nat
      BY <1>1, <1>3, <2>2, FS_EmptySet
    <3> QED
      BY <1>2, <3>1
  <2> QED
    BY <2>1, <2>2
<1>5. ASSUME NEW k \in 1 .. n, k - 1 \in far PROVE k \in far
  <2>1. k \in Nat /\ k - 1 \in 0 .. n /\ k \in 0 .. n /\ s[k] = Found(f, s[k - 1]) /\ s[k - 1] \subseteq s[k]
    BY <1>1, <1>2 DEF Found
  <2>2. F!EnabledTriggers(f) \subseteq s[k]
    BY <1>5, <2>1
  <2>3. CASE Closed(s[k - 1])
    BY <2>1, <2>2, <2>3
  <2>4. CASE ~Closed(s[k - 1])
    <3>1. s[k] # s[k - 1] /\ Cardinality(s[k - 1]) > k - 1
      BY <1>5, <2>1, <2>4
    <3>2. Cardinality(s[k - 1]) <= Cardinality(s[k]) /\ Cardinality(s[k]) # Cardinality(s[k - 1])
      <4>1. s[k - 1] \in SUBSET s[k] /\ IsFiniteSet(s[k])
        BY <1>3, <2>1
      <4> QED
        BY <3>1, <4>1, FS_Subset
    <3>3. Cardinality(s[k]) > k
      BY <1>3, <2>1, <3>1, <3>2
    <3> QED
      BY <2>1, <2>2, <3>3
  <2> QED
    BY <2>3, <2>4
<1>6. \A k \in 0 .. n : k \in far
  <2> HIDE DEF far
  <2> QED
    BY <1>1, <1>4, <1>5, Counting
<1>7. n \in 0 .. n /\ n \in far
  BY <1>1, <1>6
<1>8. Closed(s[n])
  BY <1>1, <1>3, <1>7 DEF n
<1> QED
  BY <1>2, <1>7, <1>8 DEF nodes

\* In a flow whose edges are known, it is what a trigger reaches.
LEMMA ReachableIs ==
  ASSUME NEW f \in Flows, F!EdgesKnown(f), NEW n
  PROVE  n \in F!Reachable(f) <=> F!FromTrigger(f, n)
<1> DEFINE reach == F!Reachable(f)
<1>1. ASSUME n \in reach, NEW set \in SUBSET F!RegisterIds(f), F!EnabledTriggers(f) \subseteq set,
             \A e \in f.edges : e.from \in set => e.to \in set
      PROVE  n \in set
  BY <1>1, ReachableIsLeast
<1>2. reach \in SUBSET F!RegisterIds(f) /\ F!EnabledTriggers(f) \subseteq reach /\ Found(f, reach) = reach
  BY ReachableIsClosed
<1> HIDE DEF reach
<1>3. ASSUME NEW e \in f.edges, e.from \in reach PROVE e.to \in reach
  <2>1. e.to \in F!EnabledTriggers(f) \cup F!EnabledNodes(f) /\ e.from \in F!RegisterIds(f)
    BY <1>2, <1>3 DEF F!EdgesKnown, F!RegisterIds
  <2>2. CASE e.to \in F!EnabledNodes(f)
    <3>1. e.to \in F!Children(f, e.from)
      BY <2>1, <2>2 DEF F!Children
    <3> QED
      BY <1>2, <1>3, <3>1 DEF Found
  <2> QED
    BY <1>2, <2>1, <2>2
<1>4. F!FromTrigger(f, n) => n \in reach
  BY <1>2, <1>3 DEF F!FromTrigger
<1> QED
  BY <1>1, <1>4 DEF F!FromTrigger, reach

\* A node without edges is found only if it is called like a trigger.
LEMMA OrphansUnreachable ==
  ASSUME NEW f \in Flows
  PROVE  F!Warnings(f).orphaned \ F!AllTriggerIds(f) \subseteq F!Warnings(f).unreachable
<1>1. SUFFICES ASSUME NEW n \in F!Orphaned(f), n \notin F!AllTriggerIds(f) PROVE n \in F!Unreachable(f)
  BY DEF F!Warnings
<1> DEFINE rest == F!RegisterIds(f) \ {n}
           reach == F!Reachable(f)
<1>2. n \in F!EnabledNodes(f) /\ \A e \in f.edges : n \notin {e.from, e.to}
  BY DEF F!Orphaned
<1>3. F!EnabledTriggers(f) \subseteq rest
  BY <1>1, FlowIsFinite DEF F!RegisterIds
<1>4. \A e \in f.edges : e.from \in rest /\ e.to \in F!EnabledNodes(f) => e.to \in rest
  BY <1>2 DEF F!RegisterIds
<1>5. reach \subseteq rest
  <2> HIDE DEF rest
  <2> QED
    BY <1>3, <1>4, ReachableIsLeast
<1> QED
  BY <1>2, <1>5 DEF F!Unreachable

-----------------------------------------------------------------------------
LEMMA LoaderStarts == InitPart => LoaderInv
BY DEF InitPart, Init, LoaderInv, LoaderStages, F!Init

LEMMA LoaderStep == LoaderInv /\ [Next]_vars => LoaderInv'
<1> SUFFICES ASSUME LoaderInv, [Next]_vars, part = "loader" PROVE (s1 \in Flows /\ LoaderStages)'
  BY DEF LoaderInv, Next, vars
<1>1. s1 \in Flows /\ LoaderStages
  BY DEF LoaderInv
<1>2. F!Next \/ UNCHANGED <<s1, s2, s3, s4, s5>>
  BY DEF Next, SmallNext, vars, shared
<1>3. CASE UNCHANGED <<s1, s2, s3, s4, s5>>
  BY <1>1, <1>3 DEF LoaderStages
<1>4. CASE F!Load
  <2>1. s2 = "read" /\ s1' = s1 /\ s5 = <<>> /\ s5' = s5
    BY <1>1, <1>4 DEF F!Load, LoaderStages
  <2>2. CASE ~Accepted(s1)
    BY <1>1, <1>4, <2>1, <2>2 DEF F!Load, LoaderStages, Accepted
  <2>3. CASE Accepted(s1) /\ ~F!EdgesKnown(s1)
    BY <1>1, <1>4, <2>1, <2>3 DEF F!Load, LoaderStages, Accepted
  <2>4. CASE Accepted(s1) /\ F!EdgesKnown(s1)
    <3>1. s2' = "sorting" /\ s3' = F!InDegree(s1) /\ s4' = {n \in F!RegisterIds(s1) : F!InDegree(s1)[n] = 0}
      BY <1>4, <2>4 DEF F!Load, Accepted
    <3>2. Sorting(s1, s3', s4', s5')
      BY <1>1, <2>1, <3>1, SortingBegins
    <3> QED
      BY <1>1, <2>1, <2>4, <3>1, <3>2 DEF LoaderStages
  <2> QED
    BY <2>2, <2>3, <2>4
<1>5. ASSUME NEW n \in s4, F!SortNode(n) PROVE (s1 \in Flows /\ LoaderStages)'
  <2>1. /\ s2 = "sorting" /\ s1' = s1 /\ s2' = s2 /\ s5' = Append(s5, n)
        /\ s3' = Lowered(s1, s3, n) /\ s4' = ReadyNext(s3, s3', s4, n)
    BY <1>5 DEF F!SortNode, Lowered, ReadyNext
  <2>2. Accepted(s1) /\ F!EdgesKnown(s1) /\ Sorting(s1, s3, s4, s5)
    BY <1>1, <2>1 DEF LoaderStages
  <2>3. Sorting(s1, Lowered(s1, s3, n), ReadyNext(s3, Lowered(s1, s3, n), s4, n), Append(s5, n))
    BY <1>1, <2>2, SortingGoesOn
  <2>4. Sorting(s1, s3', s4', s5')
    BY <2>1, <2>3
  <2> QED
    BY <1>1, <2>1, <2>2, <2>4 DEF LoaderStages
<1>6. CASE F!SortEnd
  <2>1. /\ s2 = "sorting" /\ s4 = {} /\ s1' = s1 /\ s3' = s3 /\ s5' = s5
        /\ s2' \in {"loaded", "unbuildable"} /\ (s2' = "loaded" <=> Len(s5) = Cardinality(F!RegisterIds(s1)))
    BY <1>6, SameSizes DEF F!SortEnd
  <2>2. Accepted(s1) /\ F!EdgesKnown(s1) /\ Sorting(s1, s3, {}, s5)
    BY <1>1, <2>1 DEF LoaderStages
  <2> QED
    BY <1>1, <2>1, <2>2 DEF LoaderStages
<1> QED
  BY <1>2, <1>3, <1>4, <1>5, <1>6 DEF F!Next

LEMMA LoaderTells == LoaderInv => LoadedIsSound
<1> SUFFICES ASSUME s1 \in Flows, LoaderStages, s2 \in {"loaded", "invalid", "unbuildable"} PROVE F!LoadedIsSound
  BY DEF LoaderInv, LoadedIsSound, F!LoadedIsSound
<1> DEFINE nodes == F!RegisterIds(s1)
           accepted == ~s1.validate \/ F!Errors(s1) = {}
<1>1. accepted <=> Accepted(s1)
  BY DEF Accepted
<1>2. F!Warnings(s1).orphaned \ F!AllTriggerIds(s1) \subseteq F!Warnings(s1).unreachable
  BY OrphansUnreachable
<1>3. CASE s2 # "loaded" /\ ~(Accepted(s1) /\ F!EdgesKnown(s1))
  BY <1>1, <1>2, <1>3 DEF F!LoadedIsSound, F!Deployable
<1>4. CASE Accepted(s1) /\ F!EdgesKnown(s1) /\ Sorting(s1, s3, {}, s5) /\ (s2 = "loaded" <=> Len(s5) = Cardinality(nodes))
  <2>1. Ordered(s1, s5)
    BY <1>4 DEF Sorting
  <2>2. s2 = "loaded" <=> F!Range(s5) = nodes
    BY <1>4, <2>1, OrderIsLong
  <2>3. s2 = "loaded" <=> ~F!Cyclic(s1)
    BY <1>4, <2>2, SortedIsAcyclic
  <2>4. ASSUME NEW i \in DOMAIN s5, NEW j \in DOMAIN s5,
               <<s5[i], s5[j]>> \in {<<e.from, e.to>> : e \in F!Forward(s1)}
        PROVE  i < j
    <3>1. s5 \in Seq(nodes) /\ DOMAIN s5 = 1 .. Len(s5) /\ Len(s5) \in Nat
      BY <2>1 DEF Ordered
    <3>2. PICK e \in F!Forward(s1) : e.from = s5[i] /\ e.to = s5[j]
      BY <2>4
    <3>3. PICK k \in 1 .. j - 1 : s5[k] = e.from
      BY <2>1, <3>2 DEF Ordered
    <3>4. k \in DOMAIN s5 /\ k < j
      BY <3>1
    <3>5. k = i
      BY <2>1, <3>2, <3>3, <3>4 DEF Ordered
    <3> QED
      BY <3>4, <3>5
  <2>5. F!Unreachable(s1) = {} <=> \A n \in F!EnabledNodes(s1) : F!FromTrigger(s1, n)
    BY <1>4, ReachableIs DEF F!Unreachable
  <2>6. s2 = "loaded" => Len(s5) = F!Cardinality(nodes) /\ F!Range(s5) = nodes
    BY <1>4, <2>2, SameSizes
  <2> QED
    BY <1>1, <1>2, <1>4, <2>3, <2>4, <2>5, <2>6 DEF F!LoadedIsSound, F!Deployable
<1> QED
  BY <1>3, <1>4 DEF LoaderStages

(* A flow is loaded if and only if it is accepted, its edges lie between    *)
(* enabled nodes and every cycle has a declared loop edge (Kahn's sort in   *)
(* FlowGraph::topological_sort, whichever ready node it takes); its order   *)
(* then lists every enabled node once and after its predecessors; and the   *)
(* report lets a flow be deployed if and only if the loader takes it and a  *)
(* trigger reaches every enabled node.  For every flow.                     *)
THEOREM LoaderIsSound == Spec => []LoadedIsSound
BY LoaderStarts, LoaderStep, LoaderTells, PTL DEF Spec

-----------------------------------------------------------------------------
(* The mocks: s1 is the files, s2 the directories, s3 the rules, s4 the     *)
(* requests, s5 what each task is at, s6 the number of calls, s7 the        *)
(* answers and s8 whether calls crossed.                                    *)

LEMMA MockSizes == \A X : O!IsFiniteSet(X) <=> IsFiniteSet(X)
BY Zenon DEF O!IsFiniteSet, IsFiniteSet

LEMMA OMinIn ==
  ASSUME NEW set \in SUBSET Nat, set # {}
  PROVE  O!Min(set) \in set
BY LeastNumber DEF O!Min

LEMMA ListIs ==
  ASSUME NEW set, NEW list \in Seq(set)
  PROVE  DOMAIN list = 1 .. Len(list) /\ Len(list) \in Nat /\ \A i \in 1 .. Len(list) : list[i] \in set
OBVIOUS

LEMMA LongerIs ==
  ASSUME NEW set, NEW list \in Seq(set), NEW e \in set
  PROVE  Append(list, e) = [i \in 1 .. Len(list) + 1 |-> IF i = Len(list) + 1 THEN e ELSE list[i]]
<1> DEFINE a == Append(list, e)
           b == [i \in 1 .. Len(list) + 1 |-> IF i = Len(list) + 1 THEN e ELSE list[i]]
<1>1. /\ a \in Seq(set) /\ Len(list) \in Nat /\ Len(a) = Len(list) + 1
      /\ \A i \in 1 .. Len(list) : a[i] = list[i]
      /\ a[Len(list) + 1] = e
  OBVIOUS
<1> HIDE DEF a
<1>2. a = [i \in 1 .. Len(list) + 1 |-> a[i]]
  BY <1>1
<1>3. \A i \in 1 .. Len(list) + 1 : i \in 1 .. Len(list) \/ i = Len(list) + 1
  BY <1>1
<1>4. \A i \in 1 .. Len(list) + 1 : a[i] = IF i = Len(list) + 1 THEN e ELSE list[i]
  BY <1>1, <1>3
<1>5. a = b
  BY <1>2, <1>4
<1> QED
  BY <1>5 DEF a

-----------------------------------------------------------------------------
(* Paths.                                                                   *)
PathNames == (UNION {O!Range(p) : p \in FsPaths}) \cup {Root}
CleanNames == PathNames \ {Up, Here}
CleanPaths == Seq(CleanNames)

LEMMA GivenPaths == FsPaths \in SUBSET Seq(PathNames)
<1>1. ASSUME NEW p \in FsPaths PROVE p \in Seq(PathNames)
  <2>1. p \in Seq(O!Range(p)) /\ O!Range(p) \subseteq PathNames
    BY ServiceAssumption DEF O!MockConstants, PathNames
  <2>2. Len(p) \in Nat /\ \A i \in 1 .. Len(p) : p[i] \in PathNames
    BY <2>1
  <2>3. p = [i \in 1 .. Len(p) |-> p[i]]
    BY <2>1
  <2> QED
    BY <2>2, <2>3
<1> QED
  BY <1>1

LEMMA ParentIs ==
  ASSUME NEW p \in CleanPaths, p # <<>>
  PROVE  /\ O!Parent(p) \in CleanPaths /\ Len(p) \in Nat /\ Len(p) > 0 /\ Len(O!Parent(p)) = Len(p) - 1
         /\ \A i \in 1 .. Len(p) - 1 : O!Parent(p)[i] = p[i]
         /\ O!Parent(p) # p
<1>1. p \in Seq(CleanNames) /\ Len(p) \in Nat /\ Len(p) > 0
  BY DEF CleanPaths
<1> DEFINE short == SubSeq(p, 1, Len(p) - 1)
<1> DEFINE size == Len(p) - 1
<1>s. size \in 0 .. Len(p) /\ size # Len(p) /\ size \in Nat
  BY <1>1
<1>2. short \in Seq(CleanNames) /\ Len(short) = size /\ \A i \in 1 .. size : short[i] = p[i]
  <2> HIDE DEF size
  <2>1. SubSeq(p, 1, size) \in Seq(CleanNames) /\ Len(SubSeq(p, 1, size)) = size
    BY <1>1, <1>s
  <2>2. \A i \in 1 .. size : SubSeq(p, 1, size)[i] = p[i]
    BY <1>1, <1>s
  <2> QED
    BY <2>1, <2>2 DEF size
<1>3. short # p
  <2> HIDE DEF short, size
  <2> QED
    BY <1>s, <1>2
<1> QED
  BY <1>1, <1>2, <1>3 DEF O!Parent, CleanPaths

LEMMA JoinedIs ==
  ASSUME NEW p \in CleanPaths, NEW c \in PathNames
  PROVE  O!Joined(p, c) \in CleanPaths /\ (c \in CleanNames => O!Joined(p, c) = Append(p, c))
<1>1. CASE c = Up
  BY <1>1, ParentIs DEF O!Joined, O!HasParent, CleanNames
<1>2. CASE c = Here /\ c # Up
  BY <1>2 DEF O!Joined, CleanNames
<1>3. CASE c # Up /\ c # Here
  <2>1. O!Joined(p, c) = Append(p, c) /\ c \in CleanNames
    BY <1>3 DEF O!Joined, CleanNames
  <2> QED
    BY <2>1 DEF CleanPaths
<1> QED
  BY <1>1, <1>2, <1>3

\* The path up to a component.
LEMMA PartOf ==
  ASSUME NEW p \in CleanPaths, NEW k \in 1 .. Len(p)
  PROVE  Append(SubSeq(p, 1, k - 1), p[k]) = SubSeq(p, 1, k)
<1>1. p \in Seq(CleanNames) /\ Len(p) \in Nat
  BY DEF CleanPaths
<1> DEFINE a == SubSeq(p, 1, k - 1)
           b == SubSeq(p, 1, k)
           c == Append(a, p[k])
<1>2. a \in Seq(CleanNames) /\ Len(a) = k - 1 /\ \A i \in 1 .. k - 1 : a[i] = p[i]
  BY <1>1
<1>3. b \in Seq(CleanNames) /\ Len(b) = k /\ \A i \in 1 .. k : b[i] = p[i]
  BY <1>1
<1>4. c \in Seq(CleanNames) /\ Len(c) = k /\ c[k] = p[k] /\ \A i \in 1 .. k - 1 : c[i] = a[i]
  <2>1. p[k] \in CleanNames
    BY <1>1
  <2> HIDE DEF a
  <2> QED
    BY <1>2, <2>1
<1> HIDE DEF a, b, c
<1>5. \A i \in 1 .. k : c[i] = b[i]
  <2>1. \A i \in 1 .. k : i \in 1 .. k - 1 \/ i = k
    OBVIOUS
  <2> QED
    BY <1>2, <1>3, <1>4, <2>1
<1>6. c = b
  BY <1>3, <1>4, <1>5
<1> QED
  BY <1>6 DEF a, b, c

\* Normal paths have no detours, and stay as they are.
LEMMA NormalIs ==
  ASSUME NEW path \in Seq(PathNames)
  PROVE  O!NormalizePath(path) \in CleanPaths /\ (path \in CleanPaths => O!NormalizePath(path) = path)
<1> DEFINE size == Len(path)
           V == CleanPaths
           base == <<>>
           Goes(f) == f = [k \in 0 .. size |-> IF k = 0 THEN <<>> ELSE O!Joined(f[k - 1], path[k])]
           step == [k \in 1 .. size |-> [v \in V |-> O!Joined(v, path[k])]]
<1>1. size \in Nat /\ \A k \in 1 .. size : path[k] \in PathNames
  OBVIOUS
<1>2. step \in [1 .. size -> [V -> V]] /\ base \in V
  <2>1. <<>> \in CleanPaths
    BY DEF CleanPaths
  <2> QED
    BY <1>1, <2>1, JoinedIs
<1>3. PICK f : GoesOn(f, size, V, base, step)
  <2> HIDE DEF step, size, V, base
  <2> QED
    BY <1>1, <1>2, Recurs
<1> HIDE DEF V
<1>4. f \in [0 .. size -> V] /\ f[0] = <<>> /\ \A k \in 1 .. size : f[k] = O!Joined(f[k - 1], path[k])
  <2>1. f \in [0 .. size -> V] /\ f[0] = base /\ \A k \in 1 .. size : f[k] = step[k][f[k - 1]]
    BY <1>3 DEF GoesOn
  <2>2. ASSUME NEW k \in 1 .. size PROVE f[k] = O!Joined(f[k - 1], path[k])
    <3>1. k - 1 \in 0 .. size
      BY <1>1
    <3>2. f[k - 1] \in V
      BY <2>1, <3>1
    <3>3. step[k][f[k - 1]] = O!Joined(f[k - 1], path[k])
      BY <3>2
    <3> QED
      BY <2>1, <3>3
  <2> QED
    BY <2>1, <2>2
<1>5. Goes(f)
  <2>1. ASSUME NEW k \in 0 .. size PROVE f[k] = IF k = 0 THEN <<>> ELSE O!Joined(f[k - 1], path[k])
    <3>1. k = 0 \/ (k # 0 /\ k \in 1 .. size)
      BY <1>1
    <3> QED
      BY <1>4, <3>1, Zenon
  <2>2. f = [k \in 0 .. size |-> f[k]]
    BY <1>4
  <2> HIDE DEF size
  <2> QED
    BY <2>1, <2>2
<1> DEFINE normalized == CHOOSE h : Goes(h)
<1>6. Goes(normalized)
  <2> HIDE DEF Goes
  <2> QED
    BY <1>5
<1>7. O!NormalizePath(path) = normalized[size]
  BY DEF O!NormalizePath
<1> HIDE DEF normalized
<1>8. normalized[0] = <<>> /\ \A k \in 1 .. size : normalized[k] = O!Joined(normalized[k - 1], path[k])
  <2>1. \A k \in 0 .. size : normalized[k] = IF k = 0 THEN <<>> ELSE O!Joined(normalized[k - 1], path[k])
    <3> HIDE DEF size
    <3> QED
      BY <1>6, Zenon
  <2>2. 0 \in 0 .. size /\ \A k \in 1 .. size : k \in 0 .. size /\ k # 0
    BY <1>1
  <2> QED
    BY <2>1, <2>2, Zenon
<1> DEFINE Right(m) == normalized[m] \in V /\ (path \in CleanPaths => normalized[m] = SubSeq(path, 1, m))
           right == {m \in 0 .. size : Right(m)}
<1>r. \A m : m \in right <=> m \in 0 .. size /\ Right(m)
  <2> HIDE DEF Right
  <2> QED
    OBVIOUS
<1> HIDE DEF right
<1>9. 0 \in right
  <2>1. 0 \in 0 .. size /\ base \in V /\ SubSeq(path, 1, 0) = <<>>
    BY <1>1, <1>2
  <2> QED
    BY <1>r, <1>8, <2>1
<1>10. ASSUME NEW k \in 1 .. size, k - 1 \in right PROVE k \in right
  <2>1. k \in 0 .. size /\ normalized[k - 1] \in CleanPaths /\ path[k] \in PathNames
    BY <1>1, <1>r, <1>10 DEF V
  <2>2. normalized[k] = O!Joined(normalized[k - 1], path[k]) /\ normalized[k] \in V
    BY <1>8, <2>1, JoinedIs DEF V
  <2>3. ASSUME path \in CleanPaths PROVE normalized[k] = SubSeq(path, 1, k)
    <3>1. path[k] \in CleanNames
      BY <2>3 DEF CleanPaths
    <3>2. normalized[k] = Append(SubSeq(path, 1, k - 1), path[k])
      BY <1>r, <1>10, <2>1, <2>2, <2>3, <3>1, JoinedIs
    <3> QED
      BY <2>3, <3>2, PartOf
  <2> QED
    BY <1>r, <2>1, <2>2, <2>3
<1>11. size \in right
  <2>1. size \in 0 .. size
    BY <1>1
  <2> HIDE DEF size
  <2> QED
    BY <1>1, <1>9, <1>10, <2>1, Counting
<1>12. SubSeq(path, 1, size) = path
  OBVIOUS
<1> QED
  BY <1>7, <1>r, <1>11, <1>12 DEF V

LEMMA CleanIs ==
  ASSUME NEW p \in CleanPaths
  PROVE  O!NormalizePath(p) = p /\ O!Range(p) \cap {Up, Here} = {}
<1>1. p \in Seq(CleanNames) /\ CleanNames \subseteq PathNames
  BY DEF CleanPaths, CleanNames
<1>2. p \in Seq(PathNames)
  BY <1>1
<1>3. O!Range(p) \subseteq CleanNames
  BY <1>1 DEF O!Range
<1> QED
  BY <1>2, <1>3, NormalIs DEF CleanNames

\* What is under a path's parent is under the path.
LEMMA UnderParent ==
  ASSUME NEW p \in CleanPaths, NEW q \in CleanPaths, q # <<>>, O!IsPrefix(p, O!Parent(q))
  PROVE  O!IsPrefix(p, q)
<1>1. p \in Seq(CleanNames) /\ q \in Seq(CleanNames) /\ Len(p) \in Nat /\ Len(q) \in Nat
  BY DEF CleanPaths
<1> DEFINE short == O!Parent(q)
<1>2. short \in Seq(CleanNames) /\ Len(short) = Len(q) - 1 /\ \A i \in 1 .. Len(q) - 1 : short[i] = q[i]
  BY ParentIs DEF CleanPaths
<1> HIDE DEF short
<1>3. Len(p) <= Len(short) /\ SubSeq(p, 1, Len(p)) = SubSeq(short, 1, Len(p))
  BY DEF O!IsPrefix, short
<1>4. Len(p) <= Len(q) /\ Len(p) <= Len(q) - 1
  BY <1>1, <1>2, <1>3
<1> DEFINE a == SubSeq(short, 1, Len(p))
           b == SubSeq(q, 1, Len(p))
<1>5. a \in Seq(CleanNames) /\ Len(a) = Len(p) /\ \A i \in 1 .. Len(p) : a[i] = short[i]
  BY <1>1, <1>2, <1>3
<1>6. b \in Seq(CleanNames) /\ Len(b) = Len(p) /\ \A i \in 1 .. Len(p) : b[i] = q[i]
  BY <1>1, <1>4
<1> HIDE DEF a, b
<1>7. a = b
  <2>1. \A i \in 1 .. Len(p) : i \in 1 .. Len(q) - 1
    BY <1>1, <1>4
  <2>2. \A i \in 1 .. Len(p) : a[i] = b[i]
    BY <1>2, <1>5, <1>6, <2>1
  <2> QED
    BY <1>5, <1>6, <2>2
<1> QED
  BY <1>3, <1>4, <1>7 DEF O!IsPrefix, a, b

\* The prefixes of a path have their parents among them.
LEMMA PrefixesAre ==
  ASSUME NEW p \in CleanPaths, NEW q \in O!Prefixes(p)
  PROVE  q \in CleanPaths /\ (q # <<>> => O!Parent(q) \in O!Prefixes(p))
<1>1. p \in Seq(CleanNames) /\ Len(p) \in Nat
  BY DEF CleanPaths
<1>2. PICK k \in 0 .. Len(p) : q = SubSeq(p, 1, k)
  BY DEF O!Prefixes
<1>3. q \in Seq(CleanNames) /\ Len(q) = k /\ \A i \in 1 .. k : q[i] = p[i]
  BY <1>1, <1>2
<1>4. ASSUME q # <<>> PROVE O!Parent(q) \in O!Prefixes(p)
  <2>1. k > 0 /\ k - 1 \in 0 .. Len(p) /\ q \in CleanPaths
    BY <1>1, <1>3, <1>4 DEF CleanPaths
  <2> DEFINE short == O!Parent(q)
             b == SubSeq(p, 1, k - 1)
  <2>2. short \in Seq(CleanNames) /\ Len(short) = k - 1 /\ \A i \in 1 .. k - 1 : short[i] = q[i]
    BY <1>3, <1>4, <2>1, ParentIs DEF CleanPaths
  <2>3. b \in Seq(CleanNames) /\ Len(b) = k - 1 /\ \A i \in 1 .. k - 1 : b[i] = p[i]
    BY <1>1, <2>1
  <2> HIDE DEF short, b
  <2>4. \A i \in 1 .. k - 1 : short[i] = b[i]
    <3>1. \A i \in 1 .. k - 1 : i \in 1 .. k
      BY <2>1
    <3> QED
      BY <1>3, <2>2, <2>3, <3>1
  <2>5. short = b
    BY <2>2, <2>3, <2>4
  <2> QED
    BY <2>1, <2>5 DEF O!Prefixes, short, b
<1> QED
  BY <1>3, <1>4 DEF CleanPaths

-----------------------------------------------------------------------------
(* The tasks: unless calls crossed, at most one is between its locks.       *)
MockSteps == [op : {"none", "write", "remove", "request"}, path : CleanPaths, data : Data \cup {<<>>} \cup Sent]

TaskParts ==
  /\ s5 \in [Clients -> MockSteps] /\ s8 \in BOOLEAN
  /\ ~s8 => \A u, v \in Clients : s5[u] # O!Idle /\ s5[v] # O!Idle => u = v

LEMMA IdleIs == O!Idle \in MockSteps /\ O!Idle.op = "none"
<1>1. <<>> \in CleanPaths
  BY DEF CleanPaths
<1> QED
  BY <1>1 DEF O!Idle, MockSteps

LEMMA Begins ==
  ASSUME TaskParts, O!Begin
  PROVE  s8' \in BOOLEAN /\ (~s8' => ~s8 /\ \A v \in Clients : s5[v] = O!Idle)
BY Zenon DEF TaskParts, O!Begin

LEMMA Taking ==
  ASSUME TaskParts, NEW u \in Clients, O!Begin, NEW r \in MockSteps, s5' = [s5 EXCEPT ![u] = r]
  PROVE  /\ TaskParts' /\ (~s8' => ~s8 /\ \A v \in Clients : s5[v] = O!Idle)
         /\ s5'[u] = r /\ \A v \in Clients : v # u => s5'[v] = s5[v]
<1>1. s5 \in [Clients -> MockSteps]
  BY DEF TaskParts
<1>2. s5' \in [Clients -> MockSteps] /\ s5'[u] = r /\ \A v \in Clients : v # u => s5'[v] = s5[v]
  BY <1>1
<1>3. s8' \in BOOLEAN /\ (~s8' => ~s8 /\ \A v \in Clients : s5[v] = O!Idle)
  BY Begins
<1>4. ~s8' => \A v, w \in Clients : s5'[v] # O!Idle /\ s5'[w] # O!Idle => v = w
  BY <1>2, <1>3, Zenon
<1> QED
  BY <1>2, <1>3, <1>4 DEF TaskParts

LEMMA Passing ==
  ASSUME TaskParts, O!Begin, s5' = s5
  PROVE  TaskParts' /\ (~s8' => ~s8 /\ \A v \in Clients : s5[v] = O!Idle)
<1>1. s8' \in BOOLEAN /\ (~s8' => ~s8 /\ \A v \in Clients : s5[v] = O!Idle)
  BY Begins
<1> QED
  BY <1>1, Zenon DEF TaskParts

LEMMA Leaving ==
  ASSUME TaskParts, NEW u \in Clients, O!Unlock(u)
  PROVE  /\ TaskParts' /\ s8' = s8
         /\ s5'[u] = O!Idle /\ \A v \in Clients : v # u => s5'[v] = s5[v]
<1>1. s5 \in [Clients -> MockSteps] /\ s5' = [s5 EXCEPT ![u] = O!Idle] /\ s8' = s8
  BY DEF TaskParts, O!Unlock
<1>2. s5' \in [Clients -> MockSteps] /\ s5'[u] = O!Idle /\ \A v \in Clients : v # u => s5'[v] = s5[v]
  BY <1>1, IdleIs
<1>3. ~s8 => \A v, w \in Clients : s5'[v] # O!Idle /\ s5'[w] # O!Idle => v = w
  BY <1>2, Zenon DEF TaskParts
<1> QED
  BY <1>1, <1>2, <1>3, Zenon DEF TaskParts

-----------------------------------------------------------------------------
(* The files: unless calls crossed, what exists has a parent, what is about *)
(* to be written will, and no file is left under what is being removed.     *)
Housed(path) == O!HasParent(path) /\ O!Parent(path) # <<>> => O!Parent(path) \in s2

FileParts ==
  /\ DOMAIN s1 \subseteq CleanPaths /\ s2 \subseteq CleanPaths
  /\ ~s8 => /\ \A p \in DOMAIN s1 \cup s2 : Housed(p)
            /\ \A u \in Clients : /\ s5[u].op = "write" => Housed(s5[u].path)
                                  /\ s5[u].op = "remove" => \A f \in DOMAIN s1 : ~O!IsPrefix(s5[u].path, f)

LEMMA NormalPath == \A p \in FsPaths : O!NormalizePath(p) \in CleanPaths
BY GivenPaths, NormalIs

LEMMA FilesStay ==
  ASSUME FileParts, s1' = s1, s2' = s2, ~s8' => ~s8,
         \A v \in Clients : s5'[v] = s5[v] \/ s5'[v].op \notin {"write", "remove"}
  PROVE  FileParts'
<1>1. \A p : Housed(p)' <=> Housed(p)
  BY DEF Housed
<1>2. ASSUME ~s8', NEW u \in Clients
      PROVE  /\ s5'[u].op = "write" => Housed(s5'[u].path)
             /\ s5'[u].op = "remove" => \A f \in DOMAIN s1 : ~O!IsPrefix(s5'[u].path, f)
  BY <1>2 DEF FileParts
<1> QED
  BY <1>1, <1>2 DEF FileParts, Housed

LEMMA WriteFiles ==
  ASSUME TaskParts, FileParts, NEW u \in Clients, NEW path \in FsPaths, NEW data \in Data, O!Write(u, path, data)
  PROVE  FileParts' /\ TaskParts' /\ (~s8' => ~s8) /\ UNCHANGED <<s3, s4, s7>>
         /\ \A v \in Clients : s5'[v] = s5[v] \/ (s5'[v].op # "request" /\ s5[v].op # "request")
<1> DEFINE p == O!NormalizePath(path)
           r == [op |-> "write", path |-> p, data |-> data]
<1>1. p \in CleanPaths
  BY NormalPath
<1>2. /\ s5[u] = O!Idle /\ O!Begin /\ (~O!HasParent(p) \/ O!Parent(p) = <<>> \/ O!Parent(p) \in s2)
      /\ s5' = [s5 EXCEPT ![u] = r] /\ s1' = s1 /\ s2' = s2 /\ UNCHANGED <<s3, s4, s7>>
  BY DEF O!Write, O!web
<1> HIDE DEF p
<1>3. r \in MockSteps /\ r.op = "write" /\ r.path = p
  BY <1>1 DEF MockSteps
<1> HIDE DEF r
<1>4. /\ TaskParts' /\ (~s8' => ~s8 /\ \A v \in Clients : s5[v] = O!Idle)
      /\ s5'[u] = r /\ \A v \in Clients : v # u => s5'[v] = s5[v]
  BY <1>2, <1>3, Taking
<1>5. \A q : Housed(q)' <=> Housed(q)
  BY <1>2 DEF Housed
<1>6. ASSUME ~s8', NEW v \in Clients
      PROVE  /\ s5'[v].op = "write" => Housed(s5'[v].path)
             /\ s5'[v].op = "remove" => \A f \in DOMAIN s1 : ~O!IsPrefix(s5'[v].path, f)
  <2>1. CASE v = u
    <3>1. Housed(p)
      BY <1>2 DEF Housed
    <3> QED
      BY <1>3, <1>4, <2>1, <3>1
  <2>2. CASE v # u
    BY <1>4, <1>6, <2>2 DEF FileParts
  <2> QED
    BY <2>1, <2>2
<1>7. FileParts'
  BY <1>2, <1>4, <1>5, <1>6 DEF FileParts, Housed
<1> QED
  BY <1>2, <1>3, <1>4, <1>7, IdleIs

LEMMA WriteInsertFiles ==
  ASSUME TaskParts, FileParts, NEW u \in Clients, O!WriteInsert(u)
  PROVE  FileParts' /\ TaskParts' /\ (~s8' => ~s8) /\ UNCHANGED <<s3, s4, s7>>
         /\ \A v \in Clients : s5'[v] = s5[v] \/ (s5'[v].op # "request" /\ s5[v].op # "request")
<1>1. /\ s5[u].op = "write" /\ O!Unlock(u) /\ s2' = s2 /\ UNCHANGED <<s3, s4, s7>>
      /\ DOMAIN s1' = DOMAIN s1 \cup {s5[u].path}
  BY DEF O!WriteInsert, O!web
<1>2. /\ TaskParts' /\ s8' = s8
      /\ s5'[u] = O!Idle /\ \A v \in Clients : v # u => s5'[v] = s5[v]
  BY <1>1, Leaving
<1>3. s5[u].path \in CleanPaths /\ s5[u] # O!Idle
  BY <1>1, IdleIs DEF TaskParts, MockSteps
<1>4. \A q : Housed(q)' <=> Housed(q)
  BY <1>1 DEF Housed
<1>5. ASSUME ~s8 PROVE \A v \in Clients : s5'[v] = O!Idle
  BY <1>2, <1>3, <1>5, Zenon DEF TaskParts
<1>6. FileParts'
  BY <1>1, <1>2, <1>3, <1>4, <1>5, IdleIs DEF FileParts
<1> QED
  BY <1>1, <1>2, <1>6, IdleIs

LEMMA CreateDirAllFiles ==
  ASSUME TaskParts, FileParts, NEW u \in Clients, NEW path \in FsPaths, O!CreateDirAll(u, path)
  PROVE  FileParts' /\ TaskParts' /\ (~s8' => ~s8) /\ UNCHANGED <<s3, s4, s7>> /\ s5' = s5
<1> DEFINE p == O!NormalizePath(path)
<1>1. p \in CleanPaths
  BY NormalPath
<1>2. /\ O!Begin /\ s5' = s5 /\ s1' = s1 /\ UNCHANGED <<s3, s4, s7>>
      /\ s2' = s2 \cup (O!Prefixes(p) \ {<<>>})
  BY DEF O!CreateDirAll, O!web
<1> HIDE DEF p
<1>3. TaskParts' /\ (~s8' => ~s8 /\ \A v \in Clients : s5[v] = O!Idle)
  BY <1>2, Passing
<1>4. \A q \in O!Prefixes(p) : q \in CleanPaths /\ (q # <<>> => O!Parent(q) \in O!Prefixes(p))
  BY <1>1, PrefixesAre
<1>5. ASSUME ~s8', NEW q \in DOMAIN s1 \cup s2' PROVE Housed(q)'
  <2>1. CASE q \in DOMAIN s1 \cup s2
    <3>1. Housed(q)
      BY <1>3, <1>5, <2>1 DEF FileParts
    <3> QED
      BY <1>2, <3>1 DEF Housed
  <2>2. CASE q \in O!Prefixes(p) \ {<<>>}
    BY <1>2, <1>4, <2>2 DEF Housed
  <2> QED
    BY <1>2, <2>1, <2>2
<1>6. FileParts'
  BY <1>2, <1>3, <1>4, <1>5, IdleIs DEF FileParts
<1> QED
  BY <1>2, <1>3, <1>6

LEMMA RemoveFileFiles ==
  ASSUME TaskParts, FileParts, NEW u \in Clients, NEW path \in FsPaths, O!RemoveFile(u, path)
  PROVE  FileParts' /\ TaskParts' /\ (~s8' => ~s8) /\ UNCHANGED <<s3, s4, s7>> /\ s5' = s5
<1>1. /\ O!Begin /\ s5' = s5 /\ s2' = s2 /\ UNCHANGED <<s3, s4, s7>>
      /\ DOMAIN s1' \subseteq DOMAIN s1
  BY DEF O!RemoveFile, O!web
<1>2. TaskParts' /\ (~s8' => ~s8 /\ \A v \in Clients : s5[v] = O!Idle)
  BY <1>1, Passing
<1>3. \A q : Housed(q)' <=> Housed(q)
  BY <1>1 DEF Housed
<1>4. FileParts'
  BY <1>1, <1>2, <1>3, IdleIs DEF FileParts
<1> QED
  BY <1>1, <1>2, <1>4

LEMMA RemoveDirAllFiles ==
  ASSUME TaskParts, FileParts, NEW u \in Clients, NEW path \in FsPaths, O!RemoveDirAll(u, path)
  PROVE  FileParts' /\ TaskParts' /\ (~s8' => ~s8) /\ UNCHANGED <<s3, s4, s7>>
         /\ \A v \in Clients : s5'[v] = s5[v] \/ (s5'[v].op # "request" /\ s5[v].op # "request")
<1> DEFINE p == O!NormalizePath(path)
           r == [op |-> "remove", path |-> p, data |-> <<>>]
<1>1. p \in CleanPaths
  BY NormalPath
<1>2. /\ s5[u] = O!Idle /\ O!Begin /\ DOMAIN s1' = {g \in DOMAIN s1 : ~O!IsPrefix(p, g)}
      /\ s5' = [s5 EXCEPT ![u] = r] /\ s2' = s2 /\ UNCHANGED <<s3, s4, s7>>
  BY DEF O!RemoveDirAll, O!web
<1> HIDE DEF p
<1>3. r \in MockSteps /\ r.op = "remove" /\ r.path = p
  BY <1>1 DEF MockSteps
<1> HIDE DEF r
<1>4. /\ TaskParts' /\ (~s8' => ~s8 /\ \A v \in Clients : s5[v] = O!Idle)
      /\ s5'[u] = r /\ \A v \in Clients : v # u => s5'[v] = s5[v]
  BY <1>2, <1>3, Taking
<1>5. \A q : Housed(q)' <=> Housed(q)
  BY <1>2 DEF Housed
<1>6. ASSUME ~s8', NEW v \in Clients
      PROVE  /\ s5'[v].op # "write"
             /\ s5'[v].op = "remove" => \A f \in DOMAIN s1' : ~O!IsPrefix(s5'[v].path, f)
  <2>1. CASE v = u
    BY <1>2, <1>3, <1>4, <2>1
  <2>2. CASE v # u
    BY <1>4, <1>6, <2>2, IdleIs
  <2> QED
    BY <2>1, <2>2
<1>7. FileParts'
  BY <1>2, <1>4, <1>5, <1>6 DEF FileParts
<1> QED
  BY <1>2, <1>3, <1>4, <1>7, IdleIs

LEMMA RemoveDirsFiles ==
  ASSUME TaskParts, FileParts, NEW u \in Clients, O!RemoveDirs(u)
  PROVE  FileParts' /\ TaskParts' /\ (~s8' => ~s8) /\ UNCHANGED <<s3, s4, s7>>
         /\ \A v \in Clients : s5'[v] = s5[v] \/ (s5'[v].op # "request" /\ s5[v].op # "request")
<1> DEFINE p == s5[u].path
<1>1. /\ s5[u].op = "remove" /\ O!Unlock(u) /\ s1' = s1 /\ UNCHANGED <<s3, s4, s7>>
      /\ s2' = {d \in s2 : ~O!IsPrefix(p, d)}
  BY DEF O!RemoveDirs, O!web
<1>2. /\ TaskParts' /\ s8' = s8
      /\ s5'[u] = O!Idle /\ \A v \in Clients : v # u => s5'[v] = s5[v]
  BY <1>1, Leaving
<1>3. p \in CleanPaths /\ s5[u] # O!Idle
  BY <1>1, IdleIs DEF TaskParts, MockSteps
<1>4. ASSUME ~s8 PROVE \A v \in Clients : s5'[v] = O!Idle
  BY <1>2, <1>3, <1>4, Zenon DEF TaskParts
<1> HIDE DEF p
<1>5. ASSUME ~s8, NEW q \in DOMAIN s1 \cup s2' PROVE Housed(q)'
  <2>1. q \in CleanPaths /\ Housed(q) /\ ~O!IsPrefix(p, q)
    BY <1>1, <1>5 DEF FileParts, p
  <2>2. ASSUME O!HasParent(q), O!Parent(q) # <<>> PROVE O!Parent(q) \in s2'
    <3>1. q # <<>> /\ O!Parent(q) \in s2
      BY <2>1, <2>2 DEF Housed, O!HasParent
    <3>2. ~O!IsPrefix(p, O!Parent(q))
      BY <1>3, <2>1, <3>1, UnderParent
    <3> QED
      BY <1>1, <3>1, <3>2
  <2> QED
    BY <2>2 DEF Housed
<1>6. FileParts'
  BY <1>1, <1>2, <1>4, <1>5, IdleIs DEF FileParts
<1> QED
  BY <1>1, <1>2, <1>6, IdleIs

LEMMA RootIs == <<Root>> \in CleanPaths /\ ~O!HasParent(<<Root>>)
<1>1. Root \in CleanNames
  <2>1. Root \notin {Up, Here}
    BY ServiceAssumption DEF O!MockConstants
  <2>2. Root \in PathNames
    BY DEF PathNames
  <2> QED
    BY <2>1, <2>2 DEF CleanNames
<1> QED
  BY <1>1 DEF CleanPaths, O!HasParent

LEMMA ClearFiles ==
  ASSUME TaskParts, FileParts, NEW u \in Clients, O!Clear(u)
  PROVE  FileParts' /\ TaskParts' /\ (~s8' => ~s8) /\ UNCHANGED <<s3, s4, s7>> /\ s5' = s5
<1>1. /\ O!Begin /\ s5' = s5 /\ s2' = {<<Root>>} /\ UNCHANGED <<s3, s4, s7>>
      /\ DOMAIN s1' = {}
  BY DEF O!Clear, O!web
<1>2. TaskParts' /\ (~s8' => ~s8 /\ \A v \in Clients : s5[v] = O!Idle)
  BY <1>1, Passing
<1>3. \A q \in s2' : q \in CleanPaths /\ Housed(q)'
  BY <1>1, RootIs DEF Housed
<1>4. FileParts'
  BY <1>1, <1>2, <1>3, IdleIs DEF FileParts
<1> QED
  BY <1>1, <1>2, <1>4

-----------------------------------------------------------------------------
(* The answers of rules.                                                    *)
RuleNames == {Fallback} \cup {O!ToString(i) : i \in Nat}
Replies(given) == [used : [DOMAIN given -> Nat], by : Seq(RuleNames)]
Fitting(given, s, r) ==
  {i \in DOMAIN given : /\ given[i].method \in {"any", r.method}
                        /\ r.url \in given[i].urls
                        /\ given[i].times < 0 \/ s.used[i] < given[i].times}

LEMMA RulesAre ==
  ASSUME NEW given \in Rules
  PROVE  DOMAIN given \subseteq Nat /\ \A i \in DOMAIN given : given[i].times \in Int
<1>1. given \in Seq(O!Range(given)) /\ \A i \in DOMAIN given : given[i].times \in Int
  BY ServiceAssumption DEF O!MockConstants
<1>2. DOMAIN given = 1 .. Len(given) /\ Len(given) \in Nat
  BY <1>1
<1> QED
  BY <1>1, <1>2

LEMMA ReplyIs ==
  ASSUME NEW given \in Rules, NEW s \in Replies(given), NEW r
  PROVE  /\ O!Reply(given, s, r) \in Replies(given)
         /\ O!Reply(given, s, r) =
              [used |-> [i \in DOMAIN given |->
                           IF Fitting(given, s, r) # {} /\ i = O!Min(Fitting(given, s, r)) THEN s.used[i] + 1 ELSE s.used[i]],
               by |-> Append(s.by, IF Fitting(given, s, r) = {} THEN Fallback ELSE O!ToString(O!Min(Fitting(given, s, r))))]
<1> DEFINE fit == Fitting(given, s, r)
           used == [i \in DOMAIN given |-> IF fit # {} /\ i = O!Min(fit) THEN s.used[i] + 1 ELSE s.used[i]]
           name == IF fit = {} THEN Fallback ELSE O!ToString(O!Min(fit))
<1>1. O!Reply(given, s, r) = [used |-> used, by |-> Append(s.by, name)]
  BY DEF O!Reply, Fitting
<1>2. s.used \in [DOMAIN given -> Nat] /\ s.by \in Seq(RuleNames)
  BY DEF Replies
<1>3. fit \in SUBSET Nat
  BY RulesAre DEF Fitting
<1> HIDE DEF fit
<1>4. used \in [DOMAIN given -> Nat]
  BY <1>2
<1>5. name \in RuleNames
  BY <1>3, OMinIn DEF RuleNames
<1> HIDE DEF used, name
<1>6. Append(s.by, name) \in Seq(RuleNames)
  BY <1>2, <1>5
<1>7. [used |-> used, by |-> Append(s.by, name)] \in Replies(given)
  BY <1>4, <1>6 DEF Replies
<1> QED
  BY <1>1, <1>7 DEF used, name, fit

LEMMA UnaskedIs == \A given \in Rules : O!Unasked(given) \in Replies(given)
BY DEF O!Unasked, Replies

Replying(f, given, sent) ==
  /\ f[0] = O!Unasked(given)
  /\ \A k \in 1 .. Len(sent) : f[k] = O!Reply(given, f[k - 1], sent[k])

LEMMA ReplayIs ==
  ASSUME NEW given \in Rules, NEW set, NEW sent \in Seq(set)
  PROVE  \E f : Replying(f, given, sent) /\ O!Replay(given, sent) = f[Len(sent)]
<1> DEFINE size == Len(sent)
           V == Replies(given)
           base == O!Unasked(given)
           Goes(f) == f = [k \in 0 .. size |-> IF k = 0 THEN O!Unasked(given) ELSE O!Reply(given, f[k - 1], sent[k])]
           step == [k \in 1 .. size |-> [v \in V |-> O!Reply(given, v, sent[k])]]
<1>1. size \in Nat
  OBVIOUS
<1>2. step \in [1 .. size -> [V -> V]] /\ base \in V
  BY UnaskedIs, ReplyIs
<1>3. PICK f : GoesOn(f, size, V, base, step)
  <2> HIDE DEF step, size, V, base
  <2> QED
    BY <1>1, <1>2, Recurs
<1> HIDE DEF V
<1>4. f \in [0 .. size -> V] /\ f[0] = base /\ \A k \in 1 .. size : f[k] = O!Reply(given, f[k - 1], sent[k])
  <2>1. f \in [0 .. size -> V] /\ f[0] = base /\ \A k \in 1 .. size : f[k] = step[k][f[k - 1]]
    <3> HIDE DEF step, size, V, base
    <3> QED
      BY <1>3 DEF GoesOn
  <2>2. ASSUME NEW k \in 1 .. size PROVE f[k] = O!Reply(given, f[k - 1], sent[k])
    <3>1. k - 1 \in 0 .. size
      BY <1>1
    <3>2. f[k - 1] \in V
      BY <2>1, <3>1
    <3>3. step[k][f[k - 1]] = O!Reply(given, f[k - 1], sent[k])
      BY <3>2
    <3> QED
      BY <2>1, <3>3
  <2> QED
    BY <2>1, <2>2
<1>5. Goes(f)
  <2>1. ASSUME NEW k \in 0 .. size PROVE f[k] = IF k = 0 THEN O!Unasked(given) ELSE O!Reply(given, f[k - 1], sent[k])
    <3>1. k = 0 \/ (k # 0 /\ k \in 1 .. size)
      BY <1>1
    <3> QED
      BY <1>4, <3>1, Zenon
  <2>2. f = [k \in 0 .. size |-> f[k]]
    BY <1>4
  <2> HIDE DEF size
  <2> QED
    BY <2>1, <2>2
<1> DEFINE replies == CHOOSE h : Goes(h)
<1>6. Goes(replies)
  <2> HIDE DEF Goes
  <2> QED
    BY <1>5
<1>7. O!Replay(given, sent) = replies[size]
  BY DEF O!Replay
<1> HIDE DEF replies
<1>8. replies[0] = O!Unasked(given) /\ \A k \in 1 .. size : replies[k] = O!Reply(given, replies[k - 1], sent[k])
  <2>1. \A k \in 0 .. size : replies[k] = IF k = 0 THEN O!Unasked(given) ELSE O!Reply(given, replies[k - 1], sent[k])
    <3> HIDE DEF size
    <3> QED
      BY <1>6, Zenon
  <2>2. 0 \in 0 .. size /\ \A k \in 1 .. size : k \in 0 .. size /\ k # 0
    BY <1>1
  <2> QED
    BY <2>1, <2>2, Zenon
<1>9. Replying(replies, given, sent)
  BY <1>8 DEF Replying
<1> QED
  BY <1>7, <1>9

LEMMA ReplayNone == \A given \in Rules : O!Replay(given, <<>>) = O!Unasked(given)
<1>1. ASSUME NEW given \in Rules PROVE O!Replay(given, <<>>) = O!Unasked(given)
  <2>1. <<>> \in Seq({}) /\ Len(<<>>) = 0
    OBVIOUS
  <2>2. PICK f : Replying(f, given, <<>>) /\ O!Replay(given, <<>>) = f[Len(<<>>)]
    BY <2>1, ReplayIs
  <2> QED
    BY <2>1, <2>2 DEF Replying
<1> QED
  BY <1>1

LEMMA ReplayMore ==
  ASSUME NEW given \in Rules, NEW set, NEW sent \in Seq(set), NEW r \in set
  PROVE  O!Replay(given, Append(sent, r)) = O!Reply(given, O!Replay(given, sent), r)
<1> DEFINE size == Len(sent)
           more == Append(sent, r)
<1>1. /\ size \in Nat /\ more \in Seq(set) /\ Len(more) = size + 1 /\ more[size + 1] = r
      /\ \A k \in 1 .. size : more[k] = sent[k]
  OBVIOUS
<1>2. PICK f : Replying(f, given, sent) /\ O!Replay(given, sent) = f[Len(sent)]
  BY ReplayIs
<1> HIDE DEF more
<1>3. PICK g : Replying(g, given, more) /\ O!Replay(given, more) = g[Len(more)]
  BY <1>1, ReplayIs
<1> DEFINE right == {m \in 0 .. size : f[m] = g[m]}
<1>4. 0 \in right
  BY <1>1, <1>2, <1>3 DEF Replying
<1>5. ASSUME NEW k \in 1 .. size, k - 1 \in right PROVE k \in right
  <2>1. k \in 0 .. size /\ k \in 1 .. size + 1 /\ f[k - 1] = g[k - 1]
    BY <1>1, <1>5
  <2>2. f[k] = O!Reply(given, f[k - 1], sent[k])
    BY <1>2 DEF Replying
  <2>3. g[k] = O!Reply(given, g[k - 1], more[k])
    BY <1>1, <1>3, <2>1 DEF Replying
  <2>4. more[k] = sent[k]
    BY <1>1
  <2>5. f[k] = g[k]
    BY <2>1, <2>2, <2>3, <2>4, Zenon
  <2> QED
    BY <2>1, <2>5
<1>6. size \in right
  <2>1. size \in 0 .. size
    BY <1>1
  <2> HIDE DEF size, right
  <2> QED
    BY <1>1, <1>4, <1>5, <2>1, Counting
<1>7. f[size] = g[size]
  BY <1>6
<1>8. g[size + 1] = O!Reply(given, g[size], more[size + 1])
  <2>1. size + 1 \in 1 .. Len(more) /\ (size + 1) - 1 = size
    BY <1>1
  <2>2. ASSUME NEW k \in 1 .. Len(more), k - 1 = size PROVE g[k] = O!Reply(given, g[size], more[k])
    <3>1. g[k] = O!Reply(given, g[k - 1], more[k])
      BY <1>3 DEF Replying
    <3> HIDE DEF size
    <3> QED
      BY <2>2, <3>1
  <2> HIDE DEF size
  <2> QED
    BY <2>1, <2>2
<1>10. O!Replay(given, more) = O!Reply(given, f[size], r)
  <2> HIDE DEF size
  <2> QED
    BY <1>1, <1>3, <1>7, <1>8
<1> QED
  BY <1>2, <1>10 DEF more

-----------------------------------------------------------------------------
(* The requests: those answered are replayed as they were, and unless calls *)
(* crossed they are those recorded, but for one that waits for its answer.  *)
Waiters == {u \in Clients : s5[u].op = "request"}
Asked == [i \in DOMAIN s7 |-> s7[i].request]
AnsweredBy == [i \in DOMAIN s7 |-> s7[i].by]
Counts == [i \in DOMAIN s3 |-> s3[i].matched_count]
RuleUses == [rule : UNION {O!Range(r) : r \in Rules}, matched_count : Nat]

WebTypes ==
  /\ O!Given \in Rules /\ s3 \in [DOMAIN s3 -> RuleUses]
  /\ s4 \in Seq(Sent) /\ s7 \in Seq([request : Sent, by : RuleNames])
  /\ \A u \in Clients : s5[u].op = "request" => s5[u].data \in Sent

WebOrder ==
  /\ (\A u \in Clients : s5[u].op # "request") => s4 = Asked
  /\ \A u \in Clients : s5[u].op = "request" => s4 = Append(Asked, s5[u].data)

WebParts ==
  /\ WebTypes
  /\ O!Replay(O!Given, Asked) = [used |-> Counts, by |-> AnsweredBy]
  /\ \A i \in DOMAIN s3 : s3[i].rule.times < 0 \/ s3[i].matched_count <= s3[i].rule.times
  /\ Len(s4) = Len(s7) + Cardinality(Waiters)
  /\ ~s8 => WebOrder

LEMMA WebStays ==
  ASSUME WebParts, UNCHANGED <<s3, s4, s7>>, ~s8' => ~s8,
         \A v \in Clients : s5'[v] = s5[v] \/ (s5'[v].op # "request" /\ s5[v].op # "request")
  PROVE  WebParts'
<1>1. O!Given' = O!Given /\ Asked' = Asked /\ AnsweredBy' = AnsweredBy /\ Counts' = Counts
  BY DEF O!Given, Asked, AnsweredBy, Counts
<1>2. Waiters' = Waiters
  BY DEF Waiters
<1>3. WebTypes'
  BY <1>1 DEF WebParts, WebTypes
<1>4. ~s8' => WebOrder'
  BY <1>1 DEF WebParts, WebOrder
<1>5. O!Replay(O!Given', Asked') = [used |-> Counts', by |-> AnsweredBy']
  BY <1>1 DEF WebParts
<1> QED
  BY <1>2, <1>3, <1>4, <1>5 DEF WebParts

LEMMA WaitersFinite == IsFiniteSet(Waiters) /\ Cardinality(Waiters) \in Nat
<1>1. IsFiniteSet(Clients)
  BY ServiceAssumption, MockSizes DEF O!MockConstants
<1> QED
  BY <1>1, FS_Subset, FS_CardinalityType DEF Waiters

LEMMA AskedIs ==
  ASSUME WebTypes
  PROVE  /\ Asked \in Seq(Sent) /\ Len(Asked) = Len(s7) /\ Len(s7) \in Nat
         /\ AnsweredBy \in Seq(RuleNames)
         /\ DOMAIN O!Given = DOMAIN s3 /\ Counts \in [DOMAIN s3 -> Nat]
         /\ \A i \in DOMAIN s3 : O!Given[i] = s3[i].rule /\ s3[i].rule.times \in Int /\ s3[i].matched_count \in Nat
         /\ DOMAIN s3 \in SUBSET Nat
<1>1. /\ s7 \in Seq([request : Sent, by : RuleNames]) /\ O!Given \in Rules
      /\ \A i \in DOMAIN s3 : s3[i].matched_count \in Nat
  BY DEF WebTypes, RuleUses
<1>2. DOMAIN s7 = 1 .. Len(s7) /\ Len(s7) \in Nat /\ \A i \in 1 .. Len(s7) : s7[i].request \in Sent /\ s7[i].by \in RuleNames
  <2>1. DOMAIN s7 = 1 .. Len(s7) /\ Len(s7) \in Nat /\ \A i \in 1 .. Len(s7) : s7[i] \in [request : Sent, by : RuleNames]
    BY <1>1, ListIs
  <2>2. \A x \in [request : Sent, by : RuleNames] : x.request \in Sent /\ x.by \in RuleNames
    OBVIOUS
  <2> QED
    BY <2>1, <2>2
<1>3. Asked \in Seq(Sent) /\ Len(Asked) = Len(s7) /\ AnsweredBy \in Seq(RuleNames)
  BY <1>2 DEF Asked, AnsweredBy
<1>4. DOMAIN O!Given = DOMAIN s3 /\ \A i \in DOMAIN s3 : O!Given[i] = s3[i].rule
  BY DEF O!Given
<1>5. DOMAIN O!Given \subseteq Nat /\ \A i \in DOMAIN O!Given : O!Given[i].times \in Int
  BY <1>1, RulesAre
<1>6. Counts \in [DOMAIN s3 -> Nat]
  BY <1>1 DEF Counts
<1> QED
  BY <1>1, <1>2, <1>3, <1>4, <1>5, <1>6

LEMMA RequestWeb ==
  ASSUME TaskParts, FileParts, WebParts, NEW u \in Clients, NEW r \in Sent, O!Request(u, r)
  PROVE  TaskParts' /\ FileParts' /\ WebParts'
<1> DEFINE n == [op |-> "request", path |-> <<>>, data |-> r]
<1>1. /\ s5[u] = O!Idle /\ O!Begin /\ s4' = Append(s4, r) /\ s5' = [s5 EXCEPT ![u] = n]
      /\ s1' = s1 /\ s2' = s2 /\ s3' = s3 /\ s7' = s7
  BY DEF O!Request
<1>2. n \in MockSteps /\ n.op = "request" /\ n.data = r
  BY IdleIs DEF MockSteps, O!Idle
<1> HIDE DEF n
<1>3. /\ TaskParts' /\ (~s8' => ~s8 /\ \A v \in Clients : s5[v] = O!Idle)
      /\ s5'[u] = n /\ \A v \in Clients : v # u => s5'[v] = s5[v]
  BY <1>1, <1>2, Taking
<1>4. FileParts'
  BY <1>1, <1>2, <1>3, FilesStay
<1>5. O!Given' = O!Given /\ Asked' = Asked /\ AnsweredBy' = AnsweredBy /\ Counts' = Counts
  BY <1>1 DEF O!Given, Asked, AnsweredBy, Counts
<1>6. s4 \in Seq(Sent) /\ s4' \in Seq(Sent) /\ Len(s4) \in Nat /\ Len(s4') = Len(s4) + 1
  BY <1>1 DEF WebParts, WebTypes
<1>7. WebTypes'
  BY <1>1, <1>2, <1>3, <1>5, <1>6 DEF WebParts, WebTypes
<1>8. Len(s4') = Len(s7') + Cardinality(Waiters')
  <2>1. u \notin Waiters /\ Waiters' = Waiters \cup {u}
    BY <1>1, <1>2, <1>3, IdleIs DEF Waiters
  <2>2. Cardinality(Waiters') = Cardinality(Waiters) + 1 /\ Cardinality(Waiters) \in Nat
    BY <2>1, WaitersFinite, FS_AddElement
  <2>3. Len(s7) \in Nat /\ Len(s4) = Len(s7) + Cardinality(Waiters)
    BY AskedIs DEF WebParts
  <2> QED
    BY <1>1, <1>6, <2>2, <2>3
<1>9. ASSUME ~s8' PROVE WebOrder'
  <2>1. s4 = Asked /\ \A v \in Clients : s5'[v].op = "request" => v = u
    BY <1>3, <1>9, IdleIs DEF WebParts, WebOrder
  <2> QED
    BY <1>1, <1>2, <1>3, <1>5, <2>1 DEF WebOrder
<1>10. O!Replay(O!Given', Asked') = [used |-> Counts', by |-> AnsweredBy']
  BY <1>5 DEF WebParts
<1>11. WebParts'
  BY <1>1, <1>7, <1>8, <1>9, <1>10 DEF WebParts
<1> QED
  BY <1>3, <1>4, <1>11

LEMMA RespondWeb ==
  ASSUME TaskParts, FileParts, WebParts, NEW u \in Clients, O!Respond(u)
  PROVE  TaskParts' /\ FileParts' /\ WebParts'
<1> DEFINE r == s5[u].data
           matching == {i \in DOMAIN s3 : O!Matches(s3[i], r)}
           state == [used |-> Counts, by |-> AnsweredBy]
           name == IF matching = {} THEN Fallback ELSE O!ToString(O!Min(matching))
           new == [request |-> r, by |-> name]
           Hit(i) == matching # {} /\ i = O!Min(matching)
<1>1. /\ s5[u].op = "request" /\ O!Unlock(u) /\ s1' = s1 /\ s2' = s2 /\ s4' = s4
      /\ s7' = Append(s7, new)
      /\ (matching = {} => s3' = s3)
      /\ (matching # {} => s3' = [s3 EXCEPT ![O!Min(matching)].matched_count = @ + 1])
  BY DEF O!Respond
<1>2. /\ TaskParts' /\ s8' = s8
      /\ s5'[u] = O!Idle /\ \A v \in Clients : v # u => s5'[v] = s5[v]
  BY <1>1, Leaving
<1>3. FileParts'
  BY <1>1, <1>2, IdleIs, FilesStay
<1>4. WebTypes /\ r \in Sent /\ O!Given \in Rules /\ s3 \in [DOMAIN s3 -> RuleUses]
  BY <1>1 DEF WebParts, WebTypes
<1>5. /\ Asked \in Seq(Sent) /\ Len(Asked) = Len(s7) /\ Len(s7) \in Nat
      /\ AnsweredBy \in Seq(RuleNames)
      /\ DOMAIN O!Given = DOMAIN s3 /\ Counts \in [DOMAIN s3 -> Nat]
      /\ \A i \in DOMAIN s3 : O!Given[i] = s3[i].rule /\ s3[i].rule.times \in Int /\ s3[i].matched_count \in Nat
      /\ DOMAIN s3 \in SUBSET Nat
  BY <1>4, AskedIs
<1>6. matching \in SUBSET DOMAIN s3 /\ (matching # {} => O!Min(matching) \in matching)
  BY <1>5, OMinIn
<1>7. Fitting(O!Given, state, r) = matching
  <2>1. \A i \in DOMAIN s3 : state.used[i] = s3[i].matched_count
    BY DEF Counts
  <2> QED
    BY <1>5, <2>1 DEF Fitting, O!Matches
<1>8. state \in Replies(O!Given)
  BY <1>5 DEF Replies
<1>m. \A i \in matching : s3[i].rule.times < 0 \/ s3[i].matched_count < s3[i].rule.times
  BY DEF O!Matches
<1> HIDE DEF r, matching
<1>9. name \in RuleNames
  BY <1>5, <1>6 DEF RuleNames
<1>10. /\ DOMAIN s3' = DOMAIN s3 /\ s3' \in [DOMAIN s3 -> RuleUses]
       /\ \A i \in DOMAIN s3 : /\ s3'[i].rule = s3[i].rule
                               /\ s3'[i].matched_count = IF Hit(i) THEN s3[i].matched_count + 1 ELSE s3[i].matched_count
  <2>1. CASE matching = {}
    BY <1>1, <1>4, <2>1
  <2>2. CASE matching # {}
    <3> DEFINE m == O!Min(matching)
    <3>1. m \in DOMAIN s3 /\ s3[m] \in RuleUses
      BY <1>4, <1>6, <2>2
    <3> HIDE DEF m
    <3>2. s3' = [s3 EXCEPT ![m] = [s3[m] EXCEPT !.matched_count = s3[m].matched_count + 1]]
      BY <1>1, <2>2 DEF m
    <3>3. /\ [s3[m] EXCEPT !.matched_count = s3[m].matched_count + 1] \in RuleUses
          /\ [s3[m] EXCEPT !.matched_count = s3[m].matched_count + 1].rule = s3[m].rule
          /\ [s3[m] EXCEPT !.matched_count = s3[m].matched_count + 1].matched_count = s3[m].matched_count + 1
      BY <3>1 DEF RuleUses
    <3>4. \A i \in DOMAIN s3 : Hit(i) <=> i = m
      BY <2>2 DEF m
    <3> HIDE DEF Hit
    <3> QED
      BY <1>4, <3>1, <3>2, <3>3, <3>4
  <2> QED
    BY <2>1, <2>2
<1>11. O!Given' = O!Given
  BY <1>10 DEF O!Given
<1>12. s7 \in Seq([request : Sent, by : RuleNames]) /\ new \in [request : Sent, by : RuleNames]
  BY <1>4, <1>9 DEF WebTypes
<1> HIDE DEF name
<1>13. Asked' = Append(Asked, r) /\ AnsweredBy' = Append(AnsweredBy, name)
  <2>1. new.request = r /\ new.by = name
    OBVIOUS
  <2> HIDE DEF new
  <2>2. /\ DOMAIN s7 = 1 .. Len(s7) /\ DOMAIN s7' = 1 .. Len(s7) + 1 /\ s7'[Len(s7) + 1] = new
        /\ \A i \in 1 .. Len(s7) : s7'[i] = s7[i]
    BY <1>1, <1>12
  <2>3. \A i \in 1 .. Len(s7) + 1 : i \in 1 .. Len(s7) \/ i = Len(s7) + 1
    BY <1>5
  <2>4. Asked' = [i \in 1 .. Len(s7) + 1 |-> s7'[i].request] /\ AnsweredBy' = [i \in 1 .. Len(s7) + 1 |-> s7'[i].by]
    BY <2>2 DEF Asked, AnsweredBy
  <2>5. /\ Len(AnsweredBy) = Len(s7)
        /\ \A i \in 1 .. Len(s7) : Asked[i] = s7[i].request /\ AnsweredBy[i] = s7[i].by
    BY <1>5, <2>2 DEF Asked, AnsweredBy
  <2>6. Append(Asked, r) = [i \in 1 .. Len(s7) + 1 |-> IF i = Len(s7) + 1 THEN r ELSE Asked[i]]
    BY <1>4, <1>5, LongerIs
  <2>7. Append(AnsweredBy, name) = [i \in 1 .. Len(s7) + 1 |-> IF i = Len(s7) + 1 THEN name ELSE AnsweredBy[i]]
    BY <1>5, <1>9, <2>5, LongerIs
  <2>8. \A i \in 1 .. Len(s7) + 1 : /\ s7'[i].request = IF i = Len(s7) + 1 THEN r ELSE Asked[i]
                                    /\ s7'[i].by = IF i = Len(s7) + 1 THEN name ELSE AnsweredBy[i]
    BY <1>5, <2>1, <2>2, <2>3, <2>5
  <2> QED
    BY <2>4, <2>6, <2>7, <2>8
<1>14. Counts' = [i \in DOMAIN s3 |-> IF Hit(i) THEN Counts[i] + 1 ELSE Counts[i]]
  BY <1>10 DEF Counts
<1>15. O!Replay(O!Given', Asked') = [used |-> Counts', by |-> AnsweredBy']
  <2>1. O!Replay(O!Given, Append(Asked, r)) = O!Reply(O!Given, O!Replay(O!Given, Asked), r)
    BY <1>4, <1>5, ReplayMore
  <2>2. O!Replay(O!Given, Asked) = state
    BY DEF WebParts
  <2>3. O!Reply(O!Given, state, r) =
          [used |-> [i \in DOMAIN O!Given |-> IF Hit(i) THEN state.used[i] + 1 ELSE state.used[i]],
           by |-> Append(state.by, name)]
    <3> HIDE DEF state
    <3> QED
      BY <1>4, <1>7, <1>8, ReplyIs DEF name
  <2>4. state.used = Counts /\ state.by = AnsweredBy
    OBVIOUS
  <2> HIDE DEF state, Hit
  <2> QED
    BY <1>5, <1>11, <1>13, <1>14, <2>1, <2>2, <2>3, <2>4
<1>16. WebTypes'
  <2>1. s7' \in Seq([request : Sent, by : RuleNames])
    <3> HIDE DEF new
    <3> QED
      BY <1>1, <1>12
  <2>2. \A v \in Clients : s5'[v].op = "request" => s5'[v].data \in Sent
    BY <1>2, <1>4, IdleIs DEF WebTypes
  <2> QED
    BY <1>1, <1>4, <1>10, <1>11, <2>1, <2>2 DEF WebTypes
<1>17. \A i \in DOMAIN s3' : s3'[i].rule.times < 0 \/ s3'[i].matched_count <= s3'[i].rule.times
  <2>1. ASSUME NEW i \in DOMAIN s3 PROVE s3'[i].rule.times < 0 \/ s3'[i].matched_count <= s3'[i].rule.times
    <3>1. s3[i].rule.times \in Int /\ s3[i].matched_count \in Nat
      BY <1>5
    <3>2. CASE Hit(i)
      BY <1>6, <1>10, <1>m, <3>1, <3>2
    <3>3. CASE ~Hit(i)
      BY <1>10, <3>1, <3>3 DEF WebParts
    <3> QED
      BY <3>2, <3>3
  <2> QED
    BY <1>10, <2>1
<1>18. Len(s4') = Len(s7') + Cardinality(Waiters')
  <2>1. u \in Waiters /\ Waiters' = Waiters \ {u}
    BY <1>1, <1>2, IdleIs DEF Waiters
  <2>2. Cardinality(Waiters') = Cardinality(Waiters) - 1 /\ Cardinality(Waiters) \in Nat
    BY <2>1, WaitersFinite, FS_RemoveElement
  <2>3. Len(s7') = Len(s7) + 1
    <3> HIDE DEF new
    <3> QED
      BY <1>1, <1>12
  <2>4. Len(s4) = Len(s7) + Cardinality(Waiters)
    BY DEF WebParts
  <2>5. s4' = s4 /\ Len(s7) \in Nat
    BY <1>1, <1>5
  <2> QED
    BY <2>2, <2>3, <2>4, <2>5
<1>19. ASSUME ~s8' PROVE WebOrder'
  <2>1. s5[u] # O!Idle
    BY <1>1, IdleIs
  <2>2. \A v \in Clients : s5'[v] = O!Idle
    BY <1>2, <1>19, <2>1, Zenon DEF TaskParts
  <2>3. s4 = Append(Asked, s5[u].data)
    BY <1>1, <1>2, <1>19 DEF WebParts, WebOrder
  <2> QED
    BY <1>1, <1>13, <2>2, <2>3, IdleIs DEF WebOrder, r
<1>20. WebParts'
  BY <1>15, <1>16, <1>17, <1>18, <1>19 DEF WebParts
<1> QED
  BY <1>2, <1>3, <1>20

-----------------------------------------------------------------------------
MocksInv == part = "mocks" => TaskParts /\ FileParts /\ WebParts

LEMMA MocksStart == InitPart => MocksInv
<1>1. SUFFICES ASSUME O!Init PROVE TaskParts /\ FileParts /\ WebParts
  BY DEF InitPart, Init, MocksInv
<1>2. /\ s1 = <<>> /\ s2 = {<<Root>>} /\ s4 = <<>> /\ s7 = <<>>
      /\ s5 = [u \in Clients |-> O!Idle] /\ s8 = FALSE
  BY <1>1 DEF O!Init
<1>3. PICK given \in Rules : s3 = [i \in DOMAIN given |-> [rule |-> given[i], matched_count |-> 0]]
  BY <1>1 DEF O!Init
<1>4. TaskParts
  BY <1>2, IdleIs DEF TaskParts
<1>5. FileParts
  <2>1. DOMAIN s1 = {}
    BY <1>2
  <2> QED
    BY <1>2, <2>1, IdleIs, RootIs DEF FileParts, Housed
<1>6. O!Given = given /\ DOMAIN s3 = DOMAIN given
  <2>1. given \in Seq(O!Range(given))
    BY ServiceAssumption DEF O!MockConstants
  <2>2. given = [i \in DOMAIN given |-> given[i]]
    BY <2>1
  <2>3. DOMAIN s3 = DOMAIN given /\ \A i \in DOMAIN given : s3[i].rule = given[i]
    BY <1>3
  <2> QED
    BY <2>2, <2>3 DEF O!Given
<1>7. WebTypes
  <2>1. ASSUME NEW i \in DOMAIN given PROVE [rule |-> given[i], matched_count |-> 0] \in RuleUses
    BY DEF RuleUses, O!Range
  <2>2. s3 \in [DOMAIN s3 -> RuleUses]
    BY <1>3, <2>1
  <2>3. s4 \in Seq(Sent) /\ s7 \in Seq([request : Sent, by : RuleNames])
    BY <1>2
  <2>4. \A u \in Clients : s5[u].op # "request"
    BY <1>2, IdleIs
  <2> QED
    BY <1>6, <2>2, <2>3, <2>4 DEF WebTypes
<1>8. Asked = <<>> /\ AnsweredBy = <<>>
  BY <1>2 DEF Asked, AnsweredBy
<1>9. O!Replay(O!Given, Asked) = [used |-> Counts, by |-> AnsweredBy]
  <2>1. Counts = [i \in DOMAIN given |-> 0]
    BY <1>3 DEF Counts
  <2> QED
    BY <1>6, <1>8, <2>1, ReplayNone DEF O!Unasked
<1>10. \A i \in DOMAIN s3 : s3[i].rule.times < 0 \/ s3[i].matched_count <= s3[i].rule.times
  <2>1. \A i \in DOMAIN s3 : s3[i].matched_count = 0 /\ s3[i].rule.times \in Int
    BY <1>3, <1>7, AskedIs
  <2> QED
    BY <2>1
<1>11. Len(s4) = Len(s7) + Cardinality(Waiters)
  <2>1. Waiters = {}
    BY <1>2, IdleIs DEF Waiters
  <2> QED
    BY <1>2, <2>1, FS_EmptySet
<1>12. WebOrder
  BY <1>2, <1>8, IdleIs DEF WebOrder
<1> QED
  BY <1>4, <1>5, <1>7, <1>9, <1>10, <1>11, <1>12 DEF WebParts

LEMMA MocksStep == MocksInv /\ [Next]_vars => MocksInv'
<1>1. SUFFICES ASSUME MocksInv, [Next]_vars, part' = "mocks" PROVE TaskParts' /\ FileParts' /\ WebParts'
  BY DEF MocksInv
<1>2. TaskParts /\ FileParts /\ WebParts /\ (O!Next \/ UNCHANGED <<s1, s2, s3, s4, s5, s6, s7, s8>>)
  BY <1>1 DEF MocksInv, Next, SmallNext, vars, shared
<1>3. CASE UNCHANGED <<s1, s2, s3, s4, s5, s6, s7, s8>>
  <2>1. TaskParts'
    BY <1>2, <1>3 DEF TaskParts
  <2> QED
    BY <1>2, <1>3, <2>1, FilesStay, WebStays
<1>4. CASE O!Next
  <2>1. PICK u \in Clients :
          \/ \E p \in FsPaths : \/ \E d \in Data : O!Write(u, p, d)
                                \/ O!CreateDirAll(u, p) \/ O!RemoveFile(u, p) \/ O!RemoveDirAll(u, p)
          \/ O!WriteInsert(u) \/ O!RemoveDirs(u) \/ O!Clear(u)
          \/ \E r \in Sent : O!Request(u, r)
          \/ O!Respond(u)
    BY <1>4 DEF O!Next
  <2>2. CASE \E p \in FsPaths, d \in Data : O!Write(u, p, d)
    BY <1>2, <2>2, WriteFiles, WebStays
  <2>3. CASE \E p \in FsPaths : O!CreateDirAll(u, p)
    BY <1>2, <2>3, CreateDirAllFiles, WebStays
  <2>4. CASE \E p \in FsPaths : O!RemoveFile(u, p)
    BY <1>2, <2>4, RemoveFileFiles, WebStays
  <2>5. CASE \E p \in FsPaths : O!RemoveDirAll(u, p)
    BY <1>2, <2>5, RemoveDirAllFiles, WebStays
  <2>6. CASE O!WriteInsert(u)
    BY <1>2, <2>6, WriteInsertFiles, WebStays
  <2>7. CASE O!RemoveDirs(u)
    BY <1>2, <2>7, RemoveDirsFiles, WebStays
  <2>8. CASE O!Clear(u)
    BY <1>2, <2>8, ClearFiles, WebStays
  <2>9. CASE \E r \in Sent : O!Request(u, r)
    BY <1>2, <2>9, RequestWeb
  <2>10. CASE O!Respond(u)
    BY <1>2, <2>10, RespondWeb
  <2> QED
    BY <2>1, <2>2, <2>3, <2>4, <2>5, <2>6, <2>7, <2>8, <2>9, <2>10
<1> QED
  BY <1>2, <1>3, <1>4

LEMMA MocksTell == ASSUME TaskParts, FileParts, WebParts PROVE O!MocksBehave
<1>1. O!IsTree
  BY DEF FileParts, Housed, O!IsTree, O!Everything
<1>2. \A p \in O!Everything : p \in CleanPaths /\ O!NormalizePath(p) = p /\ O!Range(p) \cap {Up, Here} = {}
  BY CleanIs DEF FileParts, O!Everything
<1>3. O!ListsAgree
  <2>1. \A p \in O!Everything : O!Range(p) \cap {Up, Here} = {} /\ O!Exists(p)
    BY <1>2 DEF O!Exists, O!Everything
  <2>2. ASSUME NEW d \in s2, NEW p \in FsPaths, O!NormalizePath(p) \in O!ReadDir(d)
        PROVE  O!Exists(p) /\ O!Metadata(p) # "NotFound" /\ O!Parent(O!NormalizePath(p)) = d
    <3>1. O!NormalizePath(d) = d
      BY <1>2 DEF O!Everything
    <3>2. O!NormalizePath(p) \in DOMAIN s1 \cup s2 /\ O!Parent(O!NormalizePath(p)) = d
      BY <2>2, <3>1 DEF O!ReadDir
    <3> QED
      BY <3>2 DEF O!Exists, O!Metadata
  <2>3. ASSUME NEW p \in O!Everything, O!HasParent(p) PROVE p \in O!ReadDir(O!Parent(p))
    <3>1. p \in CleanPaths /\ p # <<>>
      BY <1>2, <2>3 DEF O!HasParent
    <3>2. O!Parent(p) \in CleanPaths /\ O!Parent(p) # p
      BY <3>1, ParentIs
    <3>3. O!NormalizePath(O!Parent(p)) = O!Parent(p)
      BY <3>2, CleanIs
    <3> QED
      BY <2>3, <3>2, <3>3 DEF O!ReadDir, O!Everything
  <2> QED
    BY <2>1, <2>2, <2>3 DEF O!ListsAgree
<1>4. O!AnswersInOrder
  <2>1. WebTypes /\ Len(s7) \in Nat /\ O!Replay(O!Given, Asked) = [used |-> Counts, by |-> AnsweredBy]
    BY AskedIs DEF WebParts
  <2>2. ASSUME O!Quiet PROVE Len(s4) = Len(s7) /\ (~s8 => AnsweredBy = O!Replay(O!Given, s4).by)
    <3>1. Waiters = {} /\ \A v \in Clients : s5[v].op # "request"
      BY <2>2, IdleIs DEF O!Quiet, Waiters
    <3>2. Len(s4) = Len(s7)
      BY <2>1, <3>1, FS_EmptySet DEF WebParts
    <3>3. ASSUME ~s8 PROVE s4 = Asked
      BY <3>1, <3>3 DEF WebParts, WebOrder
    <3> QED
      BY <2>1, <3>2, <3>3
  <2>3. O!Replay(O!Given, Asked).used = Counts
    BY <2>1
  <2> QED
    BY <2>2, <2>3 DEF WebParts, O!AnswersInOrder, Asked, AnsweredBy, Counts
<1> QED
  BY <1>1, <1>3, <1>4 DEF O!MocksBehave
=============================================================================
