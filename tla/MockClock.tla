----------------------------- MODULE MockClock -----------------------------
(***************************************************************************)
(* The clock of tests (xerv-core testing/providers/clock.rs): tasks sleep  *)
(* on it, and a test advances it.  The time is an atomic, the sleeps that  *)
(* wait are a vector behind a lock; looking at the time and taking the     *)
(* lock are two steps.  A task that is pending is polled when its waker    *)
(* was called, and may be polled at any other time (select!, join!).       *)
(***************************************************************************)
EXTENDS Naturals, FiniteSetsExt, Functions, Sequences

CONSTANTS
  Sleepers,       \* tasks
  Advancers,      \* threads that call advance
  Durations,
  MaxNow, MaxPolls  \* bounds: the time, and polls of a task without being woken

VARIABLES
  current,        \* current_nanos
  pending,        \* pending_sleeps: [wake_at, waker]
  sleeper,        \* per task: [pc, wake_at, registered, polls]
  advancing,      \* per thread: the new time, or 0
  woken,          \* tasks whose waker was called
  missed,         \* time was advanced between a task's look and its registration
  robbed          \* tasks whose waker another one replaced by its own

vars == <<current, pending, sleeper, advancing, woken, missed, robbed>>

ClockConstants == Durations \subseteq Nat

Awake == [pc |-> "awake", wake_at |-> 0, registered |-> FALSE, polls |-> 0]

Init ==
  /\ current = 0 /\ pending = <<>> /\ sleeper = [t \in Sleepers |-> Awake]
  /\ advancing = [a \in Advancers |-> 0] /\ woken = {} /\ missed = {} /\ robbed = {}

Goes(t, pc) == sleeper' = [sleeper EXCEPT ![t].pc = pc]

-----------------------------------------------------------------------------
\* sleep: the deadline, and a second look at the time.
Sleep(t, d) ==
  /\ sleeper[t] = Awake
  /\ sleeper' = [sleeper EXCEPT ![t].pc = "decide", ![t].wake_at = current + d]
  /\ UNCHANGED <<current, pending, advancing, woken, missed, robbed>>

Decide(t) ==
  /\ sleeper[t].pc = "decide"
  /\ Goes(t, IF current >= sleeper[t].wake_at THEN "done" ELSE "poll")
  /\ UNCHANGED <<current, pending, advancing, woken, missed, robbed>>

\* poll: the time, and then the lock.
PollTime(t) ==
  /\ sleeper[t].pc = "poll"
  /\ Goes(t, IF current >= sleeper[t].wake_at THEN "done" ELSE "register")
  /\ woken' = woken \ {t} /\ missed' = missed \ {t}
  /\ UNCHANGED <<current, pending, advancing, robbed>>

Entry(t) == [wake_at |-> sleeper[t].wake_at, waker |-> t]

Register(t) ==
  /\ sleeper[t].pc = "register" /\ ~sleeper[t].registered
  /\ pending' = Append(pending, Entry(t))
  /\ sleeper' = [sleeper EXCEPT ![t].pc = "pending", ![t].registered = TRUE]
  /\ UNCHANGED <<current, advancing, woken, missed, robbed>>

\* The first entry with the same deadline, whoever's it is.
UpdateWaker(t) ==
  LET same == {i \in DOMAIN pending : pending[i].wake_at = sleeper[t].wake_at} IN
  /\ sleeper[t].pc = "register" /\ sleeper[t].registered
  /\ pending' = IF same = {} THEN pending ELSE [pending EXCEPT ![Min(same)].waker = t]
  /\ robbed' = IF same = {} THEN robbed ELSE (robbed \cup {pending[Min(same)].waker}) \ {t}
  /\ Goes(t, "pending") /\ UNCHANGED <<current, advancing, woken, missed>>

\* The executor polls a task that was woken, or that waits for more than this.
Poll(t) ==
  /\ sleeper[t].pc = "pending"
  /\ \/ t \in woken /\ Goes(t, "poll")
     \/ /\ t \notin woken /\ sleeper[t].polls < MaxPolls
        /\ sleeper' = [sleeper EXCEPT ![t].pc = "poll", ![t].polls = @ + 1]
  /\ UNCHANGED <<current, pending, advancing, woken, missed, robbed>>

-----------------------------------------------------------------------------
\* advance: the time first; then all whose time has come, under the lock.
Advance(a, d) ==
  /\ advancing[a] = 0 /\ current + d <= MaxNow
  /\ current' = current + d /\ advancing' = [advancing EXCEPT ![a] = current + d]
  /\ missed' = missed \cup {t \in Sleepers : sleeper[t].pc = "register"}
  /\ UNCHANGED <<pending, sleeper, woken, robbed>>

\* Those whose time has not come.
Remaining(sleeps, time) ==
  LET left[k \in 0 .. Len(sleeps)] ==
        IF k = 0 THEN <<>>
        ELSE IF sleeps[k].wake_at <= time THEN left[k - 1] ELSE Append(left[k - 1], sleeps[k])
  IN left[Len(sleeps)]

\* Mutant: one whose time is exactly now is left.
WakeExpiredSleepsLate(a) ==
  /\ advancing[a] # 0 /\ advancing' = [advancing EXCEPT ![a] = 0]
  /\ woken' = woken \cup {e.waker : e \in {x \in Range(pending) : x.wake_at < advancing[a]}}
  /\ pending' = Remaining(pending, advancing[a] - 1)
  /\ UNCHANGED <<current, sleeper, missed, robbed>>

WakeExpiredSleeps(a) ==
  /\ advancing[a] # 0 /\ advancing' = [advancing EXCEPT ![a] = 0]
  /\ woken' = woken \cup {e.waker : e \in {x \in Range(pending) : x.wake_at <= advancing[a]}}
  /\ pending' = Remaining(pending, advancing[a])
  /\ UNCHANGED <<current, sleeper, missed, robbed>>

Next ==
  \/ \E t \in Sleepers :
       (\E d \in Durations : Sleep(t, d)) \/ Decide(t) \/ PollTime(t) \/ Register(t) \/ UpdateWaker(t) \/ Poll(t)
  \/ \E a \in Advancers : (\E d \in Durations : Advance(a, d)) \/ WakeExpiredSleeps(a)

Spec == Init /\ [][Next]_vars

-----------------------------------------------------------------------------
(* Nobody sleeps on: when no call of advance is under way, whoever waits    *)
(* for a time that has come was woken.  There are two ways to be forgotten: *)
(* the time is advanced between the look at it and the registration; and a  *)
(* task with the same deadline that is polled again puts its waker in the   *)
(* place of this one's.                                                     *)
AllWoken ==
  \A t \in Sleepers :
    sleeper[t].pc = "pending" /\ sleeper[t].wake_at <= current /\ (\A a \in Advancers : advancing[a] = 0)
      => t \in woken \cup missed \cup robbed

(* Nobody wakes before the time; and who waits is in the vector, or was     *)
(* woken or forgotten.                                                      *)
WaitersListed ==
  \A t \in Sleepers :
    /\ sleeper[t].pc = "done" => current >= sleeper[t].wake_at
    /\ sleeper[t].pc = "pending" =>
         t \in woken \cup robbed \/ \E i \in DOMAIN pending : pending[i] = Entry(t)

(* The clock of tests.                                                      *)
SleepsEnd == AllWoken /\ WaitersListed
=============================================================================
