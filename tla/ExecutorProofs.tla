--------------------------- MODULE ExecutorProofs ---------------------------
(***************************************************************************)
(* Proofs about Executor: type correctness, that a node whose completion   *)
(* is in the log is not executed again, and that nodes are executed in the *)
(* order of the flow, for every flow, any number of traces and of crashes. *)
(* Then, following a trace's driver: that only one drives a trace, that no *)
(* branch of the flow is lost, that predecessors are in the log before     *)
(* their successors run, that without a crash no node is executed twice,   *)
(* and that suspensions are kept.                                          *)
(***************************************************************************)
EXTENDS Executor, TLAPS

\* What a write to the log leaves is a replayed state for every trace.
Logs == [Traces -> Replayed]

LEMMA AppliedTypes ==
  ASSUME TypeOK, NEW t \in Traces, NEW n \in Nodes \cup {NoNode}
  PROVE  /\ WithStart(t) \in Logs /\ WithComplete(t) \in Logs
         /\ WithResumed(t) \in Logs /\ WithSuspended(t, n) \in Logs
         /\ n \in Nodes => WithDone(t, n) \in Logs
<1>1. logged \in Logs /\ logged[t] \in Replayed /\ Unlogged \in Replayed
  BY DEF TypeOK, Logs, Unlogged, Replayed
<1>2. /\ [Unlogged EXCEPT !.open = TRUE] \in Replayed
      /\ [logged[t] EXCEPT !.suspended = NoNode] \in Replayed
      /\ [logged[t] EXCEPT !.suspended = n] \in Replayed
      /\ n \in Nodes => [logged[t] EXCEPT !.done = @ \cup {n}] \in Replayed
  BY <1>1 DEF Replayed
<1>3. \A rec \in Replayed : Apply(t, rec) \in Logs /\ [logged EXCEPT ![t] = rec] \in Logs
  BY <1>1 DEF Apply, Logs
<1> QED
  BY <1>1, <1>2, <1>3 DEF WithStart, WithComplete, WithResumed, WithSuspended, WithDone

LEMMA AppendTypes ==
  ASSUME TypeOK, NEW l \in Logs, Append(l)
  PROVE  logged' \in Logs /\ flushed' \in Logs
BY DEF TypeOK, Append, Logs

LEMMA WalErrorTypes ==
  ASSUME TypeOK, NEW t \in Traces, NEW l \in Logs, WalError(t, l)
  PROVE  TypeOK'
<1>1. logged' \in Logs /\ flushed' \in Logs
  BY AppendTypes DEF WalError, TypeOK, Logs, log
<1>2. phase' \in [Traces -> Busy \cup Rest]
  BY DEF WalError, TypeOK, Goto, Rest
<1> QED
  BY <1>1, <1>2 DEF WalError, TypeOK, Logs, history

\* A driver that only moves on.
LEMMA GotoTypes ==
  ASSUME TypeOK, NEW t \in Traces, NEW p \in Busy \cup Rest, Goto(t, p)
  PROVE  phase' \in [Traces -> Busy \cup Rest]
BY DEF TypeOK, Goto

-----------------------------------------------------------------------------
LEMMA StartTypes ==
  ASSUME TypeOK, NEW t \in Traces, Admit(t) \/ Insert(t) \/ Start(t)
  PROVE  TypeOK'
<1>1. CASE Admit(t)
  BY <1>1, GotoTypes DEF Admit, TypeOK, Busy, log, history
<1>2. CASE Insert(t)
  BY <1>2, GotoTypes DEF Insert, TypeOK, Busy, log, history
<1>3. CASE Start(t)
  <2>1. WithStart(t) \in Logs
    BY AppliedTypes
  <2>2. CASE WalError(t, WithStart(t))
    BY <2>1, <2>2, WalErrorTypes
  <2>3. CASE Append(WithStart(t)) /\ Goto(t, "loop") /\ ~WalError(t, WithStart(t))
    BY <1>3, <2>1, <2>3, AppendTypes, GotoTypes DEF Start, TypeOK, Busy, Logs, history
  <2> QED
    BY <1>3, <2>2, <2>3 DEF Start
<1> QED
  BY <1>1, <1>2, <1>3

LEMMA SpawnTypes ==
  ASSUME TypeOK, NEW t \in Traces, Spawn(t) \/ SpawnMissing(t)
  PROVE  TypeOK'
<1>1. CASE Spawn(t)
  <2>1. /\ Ready(t) \subseteq Nodes /\ spawned[t] \subseteq Nodes
        /\ tasks[t] \in [Nodes -> TaskStates]
    BY DEF Ready, TypeOK
  <2>2. [n \in Nodes |-> IF n \in Ready(t) THEN "queued" ELSE tasks[t][n]]
          \in [Nodes -> TaskStates]
    BY <2>1 DEF TaskStates
  <2>3. tasks' \in [Traces -> [Nodes -> TaskStates]] /\ spawned' \in [Traces -> SUBSET Nodes]
    BY <1>1, <2>1, <2>2 DEF Spawn, TypeOK
  <2>4. phase' \in [Traces -> Busy \cup Rest]
    BY <1>1, GotoTypes DEF Spawn, Busy
  <2> QED
    BY <1>1, <2>3, <2>4 DEF Spawn, TypeOK, log, history
<1>2. CASE SpawnMissing(t)
  BY <1>2, GotoTypes DEF SpawnMissing, TypeOK, Rest, log, history
<1> QED
  BY <1>1, <1>2

\* A task that changes its state.
LEMMA TasksTypes ==
  ASSUME TypeOK, NEW t \in Traces, NEW n \in Nodes, NEW s \in TaskStates
  PROVE  [tasks EXCEPT ![t][n] = s] \in [Traces -> [Nodes -> TaskStates]]
BY DEF TypeOK

LEMMA ResultTypes ==
  ASSUME TypeOK, NEW t \in Traces, NEW n \in Nodes, NEW r \in Results
  PROVE  [result EXCEPT ![t][n] = r] \in [Traces -> [Nodes -> Results \cup {NoPort}]]
BY DEF TypeOK

\* An output that is recorded.
LEMMA OutTypes ==
  ASSUME TypeOK, NEW t \in Traces, NEW n \in Nodes, NEW r \in Outputs
  PROVE  /\ [out EXCEPT ![t][n] = r] \in [Traces -> [Nodes -> Outputs \cup {NoPort}]]
         /\ [emitted EXCEPT ![t][n] = r] \in [Traces -> [Nodes -> Outputs \cup {NoPort}]]
BY DEF TypeOK

LEMMA TaskTypes ==
  ASSUME TypeOK, NEW t \in Traces, NEW n \in Nodes, TaskStep(t, n) \/ Cancel(t, n)
  PROVE  TypeOK'
<1>1. CASE Acquire(t, n)
  BY <1>1, TasksTypes DEF Acquire, TypeOK, TaskStates, log, history
<1>2. CASE \E r \in Results : Execute(t, n, r)
  <2>1. PICK r \in Results : Execute(t, n, r)
    BY <1>2
  <2>2. tasks' \in [Traces -> [Nodes -> TaskStates]]
    BY <2>1, TasksTypes DEF Execute, TaskStates
  <2>3. result' \in [Traces -> [Nodes -> Results \cup {NoPort}]]
    BY <2>1, ResultTypes DEF Execute
  <2>4. ran' \in [Traces -> SUBSET Nodes] /\ reran' \in [Traces -> SUBSET Nodes]
    <3>1. ran[t] \cup {n} \in SUBSET Nodes /\ reran[t] \cup ({n} \cap ran[t]) \in SUBSET Nodes
      BY DEF TypeOK
    <3> QED
      BY <2>1, <3>1 DEF Execute, TypeOK
  <2>5. emitted' \in [Traces -> [Nodes -> Outputs \cup {NoPort}]]
    BY <2>1, OutTypes DEF Execute, TypeOK
  <2> QED
    BY <2>1, <2>2, <2>3, <2>4, <2>5 DEF Execute, TypeOK, log
<1>3. CASE LogResult(t, n)
  <2>1. WithDone(t, n) \in Logs
    BY AppliedTypes
  <2>2. logged' \in Logs /\ flushed' \in Logs
    BY <1>3, <2>1, AppendTypes DEF LogResult, TypeOK, Logs, log
  <2>3. tasks' \in [Traces -> [Nodes -> TaskStates]]
    BY <1>3, TasksTypes DEF LogResult, TaskStates
  <2>4. result' \in [Traces -> [Nodes -> Results \cup {NoPort}]]
    <3>1. "fail" \in Results
      BY DEF Results, Unfinished
    <3>2. result' = result \/ result' = [result EXCEPT ![t][n] = "fail"]
      BY <1>3 DEF LogResult
    <3>3. [result EXCEPT ![t][n] = "fail"] \in [Traces -> [Nodes -> Results \cup {NoPort}]]
      BY <3>1, ResultTypes
    <3>4. result \in [Traces -> [Nodes -> Results \cup {NoPort}]]
      BY DEF TypeOK
    <3> QED
      BY <3>2, <3>3, <3>4
  <2> QED
    BY <1>3, <2>2, <2>3, <2>4 DEF LogResult, TypeOK, Logs, history
<1>4. CASE Cancel(t, n)
  BY <1>4, TasksTypes DEF Cancel, TypeOK, TaskStates, log, history
<1> QED
  BY <1>1, <1>2, <1>3, <1>4 DEF TaskStep

LEMMA JoinTypes ==
  ASSUME TypeOK, NEW t \in Traces, NEW n \in Nodes,
         JoinOutput(t, n) \/ JoinFailure(t, n) \/ JoinSuspend(t, n) \/ Drain(t, n)
  PROVE  TypeOK'
<1>1. tasks' \in [Traces -> [Nodes -> TaskStates]]
  <2>1. tasks' = [tasks EXCEPT ![t][n] = "none"]
    BY DEF JoinOutput, JoinFailure, JoinSuspend, Drain
  <2> QED
    BY <2>1, TasksTypes DEF TaskStates
<1>2. ASSUME RecordOutput(t, n)
      PROVE  out' \in [Traces -> [Nodes -> Outputs \cup {NoPort}]]
  BY <1>2, OutTypes DEF RecordOutput, TypeOK
<1>3. CASE JoinOutput(t, n)
  BY <1>1, <1>2, <1>3, GotoTypes DEF JoinOutput, TypeOK, Busy, log, history
<1>4. CASE JoinFailure(t, n)
  <2>1. arena' \in [Traces -> {"none", "locked", "file"}]
    BY <1>4 DEF JoinFailure, TypeOK
  <2> QED
    BY <1>1, <1>4, <2>1, GotoTypes DEF JoinFailure, TypeOK, Rest, log, history
<1>5. CASE JoinSuspend(t, n)
  BY <1>1, <1>5, GotoTypes DEF JoinSuspend, TypeOK, Busy, log, history
<1>6. CASE Drain(t, n)
  BY <1>1, <1>2, <1>6 DEF Drain, TypeOK, log, history
<1> QED
  BY <1>3, <1>4, <1>5, <1>6

LEMMA SuspendTypes ==
  ASSUME TypeOK, NEW t \in Traces,
         \/ SuspendCheck(t) \/ SuspendInsert(t) \/ SuspendLog(t) \/ SuspendLeave(t)
         \/ FinalizeLog(t) \/ FinalizeLeave(t) \/ ResumeLog(t)
  PROVE  TypeOK'
<1>1. /\ WithSuspended(t, wait[t]) \in Logs /\ WithComplete(t) \in Logs
      /\ WithResumed(t) \in Logs
  BY AppliedTypes DEF TypeOK
<1>2. CASE SuspendCheck(t)
  BY <1>2, GotoTypes DEF SuspendCheck, TypeOK, Busy, Rest, log, history
<1>3. CASE SuspendInsert(t)
  <2>1. store' \in [Nodes -> Traces \cup {NoTrace}]
    BY <1>3 DEF SuspendInsert, TypeOK
  <2> QED
    BY <1>3, <2>1, GotoTypes DEF SuspendInsert, TypeOK, Busy, log, history
<1>4. CASE SuspendLog(t)
  <2>1. CASE WalError(t, WithSuspended(t, wait[t]))
    BY <1>1, <2>1, WalErrorTypes
  <2>2. CASE /\ Append(WithSuspended(t, wait[t])) /\ Goto(t, "leaving")
             /\ UNCHANGED <<live, out, tasks, result, spawned, wait, store, resuming,
                            arena, recovering, crashes, history>>
    BY <1>1, <2>2, AppendTypes, GotoTypes DEF TypeOK, Busy, Logs, history
  <2> QED
    BY <1>4, <2>1, <2>2 DEF SuspendLog
<1>5. CASE SuspendLeave(t)
  BY <1>5, GotoTypes DEF SuspendLeave, TypeOK, Rest, log, history
<1>6. CASE FinalizeLog(t)
  <2>1. CASE WalError(t, WithComplete(t))
    BY <1>1, <2>1, WalErrorTypes
  <2>2. CASE /\ Append(WithComplete(t)) /\ Goto(t, "closing")
             /\ UNCHANGED <<live, out, tasks, result, spawned, wait, store, resuming,
                            arena, recovering, crashes, history>>
    BY <1>1, <2>2, AppendTypes, GotoTypes DEF TypeOK, Busy, Logs, history
  <2> QED
    BY <1>6, <2>1, <2>2 DEF FinalizeLog
<1>7. CASE FinalizeLeave(t)
  BY <1>7, GotoTypes DEF FinalizeLeave, TypeOK, Rest, log, history
<1>8. CASE ResumeLog(t)
  <2>1. CASE WalError(t, WithResumed(t))
    BY <1>1, <2>1, WalErrorTypes
  <2>2. CASE /\ Append(WithResumed(t)) /\ Goto(t, "loop")
             /\ UNCHANGED <<live, out, tasks, result, spawned, wait, store, resuming,
                            arena, recovering, crashes, history>>
    BY <1>1, <2>2, AppendTypes, GotoTypes DEF TypeOK, Busy, Logs, history
  <2> QED
    BY <1>8, <2>1, <2>2 DEF ResumeLog
<1> QED
  BY <1>2, <1>3, <1>4, <1>5, <1>6, <1>7, <1>8

\* A trace whose state is rebuilt.
LEMMA ReenterTypes ==
  ASSUME TypeOK, NEW t \in Traces, NEW o \in [Nodes -> Outputs \cup {NoPort}],
         Reenter(t, o)
  PROVE  /\ live' \subseteq Traces
         /\ arena' \in [Traces -> {"none", "locked", "file"}]
         /\ out' \in [Traces -> [Nodes -> Outputs \cup {NoPort}]]
         /\ tasks' \in [Traces -> [Nodes -> TaskStates]]
         /\ result' \in [Traces -> [Nodes -> Results \cup {NoPort}]]
         /\ spawned' \in [Traces -> SUBSET Nodes]
         /\ wait' \in [Traces -> Nodes \cup {NoNode}]
         /\ phase' \in [Traces -> Busy \cup Rest]
<1>1. NoTasks \in [Nodes -> TaskStates] /\ NoOutputs \in [Nodes -> Results \cup {NoPort}]
  BY DEF NoTasks, NoOutputs, TaskStates
<1>2. live' \subseteq Traces /\ arena' \in [Traces -> {"none", "locked", "file"}]
  BY DEF Reenter, TypeOK
<1>3. out' \in [Traces -> [Nodes -> Outputs \cup {NoPort}]]
  BY DEF Reenter, TypeOK
<1>4. /\ tasks' \in [Traces -> [Nodes -> TaskStates]]
      /\ result' \in [Traces -> [Nodes -> Results \cup {NoPort}]]
  BY <1>1 DEF Reenter, TypeOK
<1>5. /\ spawned' \in [Traces -> SUBSET Nodes]
      /\ wait' \in [Traces -> Nodes \cup {NoNode}]
  BY DEF Reenter, TypeOK
<1>6. phase' \in [Traces -> Busy \cup Rest]
  BY GotoTypes DEF Reenter, Busy
<1> QED
  BY <1>2, <1>3, <1>4, <1>5, <1>6

\* What the log is read as are outputs, all on port "out".
LEMMA RestoredTypes ==
  ASSUME NEW t \in Traces
  PROVE  Restored(t) \in [Nodes -> Outputs \cup {NoPort}]
BY FlowAssumption DEF Restored, Outputs

LEMMA ResumeTypes ==
  ASSUME TypeOK,
         \/ \E n \in Nodes, port \in Decisions : TakeHook(n, port)
         \/ Resume
         \/ \E n \in Nodes : Expire(n)
  PROVE  TypeOK'
<1>1. ASSUME NEW n \in Nodes, NEW port \in Decisions, TakeHook(n, port)
      PROVE  TypeOK'
  <2>1. store[n] \in Traces /\ port \in Ports
    BY <1>1, FlowAssumption DEF TakeHook, TypeOK
  <2>2. resuming' \subseteq [trace : Traces, node : Nodes, port : Ports]
    BY <1>1, <2>1 DEF TakeHook, TypeOK
  <2> QED
    BY <1>1, <2>2 DEF TakeHook, TypeOK, log, history
<1>2. ASSUME NEW r \in resuming, ResumeOpen(r)
      PROVE  TypeOK'
  <2> DEFINE o == [Restored(r.trace) EXCEPT ![r.node] = r.port]
  <2>1. r.trace \in Traces /\ r.node \in Nodes /\ r.port \in Outputs
    BY DEF TypeOK, Outputs
  <2>2. o \in [Nodes -> Outputs \cup {NoPort}]
    BY <2>1, RestoredTypes
  <2>3. emitted' \in [Traces -> [Nodes -> Outputs \cup {NoPort}]]
    BY <1>2, <2>1, OutTypes DEF ResumeOpen
  <2>4. Reenter(r.trace, o)
    BY <1>2 DEF ResumeOpen
  <2> HIDE DEF o
  <2>5. /\ live' \subseteq Traces
        /\ arena' \in [Traces -> {"none", "locked", "file"}]
        /\ out' \in [Traces -> [Nodes -> Outputs \cup {NoPort}]]
        /\ tasks' \in [Traces -> [Nodes -> TaskStates]]
        /\ result' \in [Traces -> [Nodes -> Results \cup {NoPort}]]
        /\ spawned' \in [Traces -> SUBSET Nodes]
        /\ wait' \in [Traces -> Nodes \cup {NoNode}]
        /\ phase' \in [Traces -> Busy \cup Rest]
    BY <2>1, <2>2, <2>4, ReenterTypes
  <2> QED
    BY <1>2, <2>3, <2>5 DEF ResumeOpen, TypeOK, log
<1>3. ASSUME NEW r \in resuming, ResumeFails(r)
      PROVE  TypeOK'
  BY <1>3 DEF ResumeFails, TypeOK, log, history
<1>4. ASSUME NEW n \in Nodes, Expire(n)
      PROVE  TypeOK'
  BY <1>4 DEF Expire, TypeOK, log, history
<1> QED
  BY <1>1, <1>2, <1>3, <1>4 DEF Resume

LEMMA RecoverTypes ==
  ASSUME TypeOK, NEW t \in Traces, Recover(t)
  PROVE  TypeOK'
<1>1. CASE RecoverSuspended(t)
  BY <1>1, GotoTypes DEF RecoverSuspended, TypeOK, Rest, log, history
<1>2. CASE RecoverResume(t)
  <2>1. Restored(t) \in [Nodes -> Outputs \cup {NoPort}]
    BY RestoredTypes
  <2>2. /\ live' \subseteq Traces
        /\ arena' \in [Traces -> {"none", "locked", "file"}]
        /\ out' \in [Traces -> [Nodes -> Outputs \cup {NoPort}]]
        /\ tasks' \in [Traces -> [Nodes -> TaskStates]]
        /\ result' \in [Traces -> [Nodes -> Results \cup {NoPort}]]
        /\ spawned' \in [Traces -> SUBSET Nodes]
        /\ wait' \in [Traces -> Nodes \cup {NoNode}]
        /\ phase' \in [Traces -> Busy \cup Rest]
    BY <1>2, <2>1, ReenterTypes DEF RecoverResume
  <2> QED
    BY <1>2, <2>2 DEF RecoverResume, TypeOK, log, history
<1>3. CASE RecoverSkip(t)
  BY <1>3, GotoTypes DEF RecoverSkip, TypeOK, Rest, log, history
<1> QED
  BY <1>1, <1>2, <1>3 DEF Recover

LEMMA DownTypes ==
  ASSUME TypeOK, Shutdown \/ Crash
  PROVE  TypeOK'
<1>1. CASE Shutdown
  BY <1>1 DEF Shutdown, TypeOK, log, history
<1>2. CASE Crash
  <2>1. /\ out' \in [Traces -> [Nodes -> Outputs \cup {NoPort}]]
        /\ result' \in [Traces -> [Nodes -> Results \cup {NoPort}]]
        /\ tasks' \in [Traces -> [Nodes -> TaskStates]]
    BY <1>2 DEF Crash, NoOutputs, NoTasks, TaskStates
  <2>2. /\ phase' \in [Traces -> Busy \cup Rest]
        /\ arena' \in [Traces -> {"none", "locked", "file"}]
    BY <1>2 DEF Crash, TypeOK, Rest
  <2> QED
    BY <1>2, <2>1, <2>2 DEF Crash, TypeOK, history
<1> QED
  BY <1>1, <1>2

\* The cases of Next, for use in every proof about a step.
LEMMA NextCases ==
  ASSUME Next
  PROVE  \/ \E t \in Traces : \/ Admit(t) \/ Insert(t) \/ Start(t)
         \/ \E t \in Traces : Spawn(t) \/ SpawnMissing(t)
         \/ \E t \in Traces, n \in Nodes :
              JoinOutput(t, n) \/ JoinFailure(t, n) \/ JoinSuspend(t, n) \/ Drain(t, n)
         \/ \E t \in Traces : \/ SuspendCheck(t) \/ SuspendInsert(t) \/ SuspendLog(t)
                              \/ SuspendLeave(t) \/ FinalizeLog(t) \/ FinalizeLeave(t)
                              \/ ResumeLog(t)
         \/ \E t \in Traces : Recover(t)
         \/ \E t \in Traces, n \in Nodes : TaskStep(t, n) \/ Cancel(t, n)
         \/ \/ \E n \in Nodes, port \in Decisions : TakeHook(n, port)
            \/ Resume
            \/ \E n \in Nodes : Expire(n)
         \/ Shutdown \/ Crash
BY DEF Next, Step

LEMMA InitTypes == Init => TypeOK
BY DEF Init, TypeOK, NoOutputs, NoTasks, Unlogged, Replayed, Rest, TaskStates

LEMMA StepTypes == TypeOK /\ [Next]_vars => TypeOK'
<1> SUFFICES ASSUME TypeOK, [Next]_vars
             PROVE  TypeOK'
  OBVIOUS
<1>1. CASE Next
  BY <1>1, NextCases, StartTypes, SpawnTypes, JoinTypes, SuspendTypes, RecoverTypes,
     TaskTypes, ResumeTypes, DownTypes
<1>2. CASE UNCHANGED vars
  BY <1>2 DEF TypeOK, vars, memory, log, history
<1> QED
  BY <1>1, <1>2

(***************************************************************************)
(* Type correctness for every flow, set of traces and limit.               *)
(***************************************************************************)
THEOREM ExecutorTypes == Spec => []TypeOK
BY InitTypes, StepTypes, PTL DEF Spec

-----------------------------------------------------------------------------
(* Logged nodes are not executed again.                                     *)

\* The phases of execute_trace, from the state's construction on.
Driving == Busy \ {"admitted", "inserted"}

(* find_ready_nodes knows nothing of the log: it leaves out what is         *)
(* completed in the trace's state and what this driver has spawned.  So     *)
(* the invariant says that these two cover the log, from the moment a state *)
(* is built from it; that only an open trace has completions in the log is  *)
(* what makes the rebuilt state cover it.                                   *)
RerunAt(t) ==
  /\ ~logged[t].open => logged[t].done = {}
  /\ \A n \in Nodes : tasks[t][n] # "none" => n \in spawned[t]
  /\ phase[t] \in Driving => logged[t].done \subseteq spawned[t] \cup Completed(t)
  /\ \A n \in Nodes : tasks[t][n] \in {"queued", "running"} => n \notin logged[t].done

RerunInv == TypeOK /\ flushed = logged /\ \A t \in Traces : RerunAt(t)

\* Steps that start nothing and log no completion.
LEMMA RerunFrame ==
  ASSUME NEW u \in Traces, RerunAt(u),
         \A n \in Nodes : tasks'[u][n] # "none" => tasks[u][n] # "none",
         \A n \in Nodes : tasks'[u][n] \in {"queued", "running"} =>
                           tasks[u][n] \in {"queued", "running"},
         spawned'[u] = spawned[u],
         \A n \in Nodes : out[u][n] # NoPort => out'[u][n] # NoPort,
         phase'[u] \in Driving => phase[u] \in Driving,
         logged'[u].done \subseteq logged[u].done,
         ~logged'[u].open => logged'[u].done = {}
  PROVE  RerunAt(u)'
BY DEF RerunAt, Completed

\* Every record but NodeDone leaves the completions or clears them.
LEMMA RecordFacts ==
  ASSUME TypeOK, NEW t \in Traces, NEW n, NEW u \in Traces,
         ~logged[u].open => logged[u].done = {},
         NEW l \in {WithStart(t), WithComplete(t), WithResumed(t), WithSuspended(t, n)}
  PROVE  /\ l[u].done \subseteq logged[u].done
         /\ ~l[u].open => l[u].done = {}
<1>1. logged \in Logs /\ logged[t] \in Replayed
  BY DEF TypeOK, Logs
<1> QED
  BY <1>1 DEF WithStart, WithComplete, WithResumed, WithSuspended, Apply, Unlogged,
              Logs, Replayed

LEMMA StartClears ==
  ASSUME TypeOK, NEW t \in Traces
  PROVE  WithStart(t)[t].done = {}
BY DEF WithStart, Unlogged, TypeOK

LEMMA DoneFacts ==
  ASSUME TypeOK, NEW t \in Traces, NEW n \in Nodes, NEW u \in Traces,
         ~logged[u].open => logged[u].done = {}
  PROVE  /\ WithDone(t, n)[u].done \subseteq
              IF u = t THEN logged[t].done \cup {n} ELSE logged[u].done
         /\ ~WithDone(t, n)[u].open => WithDone(t, n)[u].done = {}
<1>1. logged \in Logs /\ logged[t] \in Replayed
  BY DEF TypeOK, Logs
<1> QED
  BY <1>1 DEF WithDone, Apply, Logs, Replayed

LEMMA StartRerun ==
  ASSUME RerunInv, LogBuffered = FALSE, NEW t \in Traces,
         Admit(t) \/ Insert(t) \/ Start(t)
  PROVE  flushed' = logged' /\ \A u \in Traces : RerunAt(u)'
<1>0. TypeOK /\ flushed = logged /\ \A u \in Traces : RerunAt(u)
  BY DEF RerunInv
<1>1. CASE Admit(t) \/ Insert(t)
  <2>1. UNCHANGED <<tasks, spawned, out, logged, flushed>>
    BY <1>1 DEF Admit, Insert, log
  <2>2. \A u \in Traces : phase'[u] \in Driving => phase[u] \in Driving
    BY <1>0, <1>1 DEF Admit, Insert, Goto, TypeOK, Driving
  <2>3. \A u \in Traces : ~logged[u].open => logged[u].done = {}
    BY <1>0 DEF RerunAt
  <2> QED
    BY <1>0, <2>1, <2>2, <2>3, RerunFrame
<1>2. CASE Start(t)
  <2>1. UNCHANGED <<tasks, spawned, out>>
    BY <1>2 DEF Start, WalError
  <2>2. flushed' = logged' /\ (logged' = WithStart(t) \/ logged' = logged)
    BY <1>0, <1>2 DEF Start, WalError, Append, log
  <2>3. \A u \in Traces : /\ ~logged'[u].open => logged'[u].done = {}
                          /\ logged'[u].done \subseteq logged[u].done
    BY <1>0, <2>2, RecordFacts DEF RerunAt
  <2>4. \A u \in Traces \ {t} : phase'[u] = phase[u]
    BY <1>0, <1>2 DEF Start, WalError, Goto, TypeOK
  <2>5. \A u \in Traces \ {t} : RerunAt(u)'
    BY <1>0, <2>1, <2>3, <2>4, RerunFrame
  <2>6. phase'[t] \notin Driving \/ logged'[t].done = {}
    BY <1>0, <1>2, StartClears DEF Start, WalError, Append, Goto, TypeOK, Driving, Busy
  <2>7. RerunAt(t)'
    BY <1>0, <2>1, <2>3, <2>6 DEF RerunAt, Completed
  <2> QED
    BY <2>2, <2>5, <2>7
<1> QED
  BY <1>1, <1>2

LEMMA SpawnRerun ==
  ASSUME RerunInv, NEW t \in Traces, Spawn(t) \/ SpawnMissing(t)
  PROVE  flushed' = logged' /\ \A u \in Traces : RerunAt(u)'
<1>0. TypeOK /\ flushed = logged /\ \A u \in Traces : RerunAt(u)
  BY DEF RerunInv
<1>1. /\ UNCHANGED <<out, logged, flushed>>
      /\ \A u \in Traces : phase'[u] \in Driving => phase[u] \in Driving
  BY <1>0 DEF Spawn, SpawnMissing, Goto, TypeOK, Driving, Busy, log
<1>2. \A u \in Traces \ {t} : RerunAt(u)'
  <2>1. \A u \in Traces \ {t} : tasks'[u] = tasks[u] /\ spawned'[u] = spawned[u]
    BY <1>0 DEF Spawn, SpawnMissing, TypeOK
  <2>2. \A u \in Traces : ~logged[u].open => logged[u].done = {}
    BY <1>0 DEF RerunAt
  <2> QED
    BY <1>0, <1>1, <2>1, <2>2, RerunFrame
<1>3. CASE Spawn(t)
  <2>1. /\ tasks'[t] = [n \in Nodes |-> IF n \in Ready(t) THEN "queued" ELSE tasks[t][n]]
        /\ spawned'[t] = spawned[t] \cup Ready(t)
    BY <1>0, <1>3 DEF Spawn, TypeOK
  <2>2. phase[t] \in Driving
    BY <1>3 DEF Spawn, Driving, Busy
  <2>3. \A n \in Ready(t) : n \notin logged[t].done
    BY <1>0, <2>2 DEF RerunAt, Ready, IsNodeReady
  <2>4. RerunAt(t)'
    BY <1>0, <1>1, <2>1, <2>2, <2>3 DEF RerunAt, Completed
  <2> QED
    BY <1>0, <1>1, <1>2, <2>4
<1>4. CASE SpawnMissing(t)
  <2>1. UNCHANGED <<tasks, spawned>>
    BY <1>4 DEF SpawnMissing
  <2>2. RerunAt(t)'
    BY <1>0, <1>1, <2>1 DEF RerunAt, Completed
  <2> QED
    BY <1>0, <1>1, <1>2, <2>2
<1> QED
  BY <1>3, <1>4

LEMMA TaskRerun ==
  ASSUME RerunInv, LogBuffered = FALSE, NEW t \in Traces, NEW n \in Nodes,
         TaskStep(t, n) \/ Cancel(t, n)
  PROVE  flushed' = logged' /\ \A u \in Traces : RerunAt(u)'
<1>0. TypeOK /\ flushed = logged /\ \A u \in Traces : RerunAt(u)
  BY DEF RerunInv
<1>1. UNCHANGED <<phase, out, spawned>>
  BY DEF TaskStep, Acquire, Execute, LogResult, Cancel
<1>2. CASE Acquire(t, n) \/ (\E r \in Results : Execute(t, n, r)) \/ Cancel(t, n)
  <2>1. UNCHANGED <<logged, flushed>>
    BY <1>2 DEF Acquire, Execute, Cancel, log
  <2>2. PICK s \in {"none", "running", "ran"} :
          /\ tasks' = [tasks EXCEPT ![t][n] = s]
          /\ tasks[t][n] \in {"queued", "running", "done"}
          /\ s = "running" => tasks[t][n] = "queued"
    BY <1>2 DEF Acquire, Execute, Cancel
  <2>3. \A u \in Traces, m \in Nodes :
          tasks'[u][m] = IF u = t /\ m = n THEN s ELSE tasks[u][m]
    BY <1>0, <2>2 DEF TypeOK
  <2>4. \A u \in Traces : ~logged[u].open => logged[u].done = {}
    BY <1>0 DEF RerunAt
  <2>5. \A u \in Traces, m \in Nodes :
          /\ tasks'[u][m] # "none" => tasks[u][m] # "none"
          /\ tasks'[u][m] \in {"queued", "running"} => tasks[u][m] \in {"queued", "running"}
    BY <2>2, <2>3
  <2> QED
    BY <1>0, <1>1, <2>1, <2>4, <2>5, RerunFrame
<1>3. CASE LogResult(t, n)
  <2>1. flushed' = logged' /\ (logged' = WithDone(t, n) \/ logged' = logged)
    BY <1>0, <1>3 DEF LogResult, Append, log
  <2>2. \A u \in Traces, m \in Nodes :
          tasks'[u][m] = IF u = t /\ m = n THEN "done" ELSE tasks[u][m]
    BY <1>0, <1>3 DEF LogResult, TypeOK
  <2>3. \A u \in Traces : ~logged[u].open => logged[u].done = {}
    BY <1>0 DEF RerunAt
  <2>4. \A u \in Traces :
          /\ logged'[u].done \subseteq IF u = t THEN logged[t].done \cup {n} ELSE logged[u].done
          /\ ~logged'[u].open => logged'[u].done = {}
    BY <1>0, <2>1, <2>3, DoneFacts
  <2>5. \A u \in Traces \ {t} : RerunAt(u)'
    BY <1>0, <1>1, <2>2, <2>4, RerunFrame
  <2>6. n \in spawned[t]
    BY <1>0, <1>3 DEF RerunAt, LogResult
  <2>7. RerunAt(t)'
    BY <1>0, <1>1, <2>2, <2>4, <2>6 DEF RerunAt, Completed
  <2> QED
    BY <2>1, <2>5, <2>7
<1> QED
  BY <1>2, <1>3 DEF TaskStep

LEMMA JoinRerun ==
  ASSUME RerunInv, NEW t \in Traces, NEW n \in Nodes,
         JoinOutput(t, n) \/ JoinFailure(t, n) \/ JoinSuspend(t, n) \/ Drain(t, n)
  PROVE  flushed' = logged' /\ \A u \in Traces : RerunAt(u)'
<1>0. TypeOK /\ flushed = logged /\ \A u \in Traces : RerunAt(u)
  BY DEF RerunInv
<1>1. UNCHANGED <<spawned, logged, flushed>> /\ tasks' = [tasks EXCEPT ![t][n] = "none"]
  BY DEF JoinOutput, JoinFailure, JoinSuspend, Drain, log
<1>2. \A u \in Traces, m \in Nodes : tasks'[u][m] # "none" => tasks'[u][m] = tasks[u][m]
  BY <1>0, <1>1 DEF TypeOK
<1>3. \A u \in Traces : phase'[u] \in Driving => phase[u] \in Driving
  BY <1>0 DEF JoinOutput, JoinFailure, JoinSuspend, Drain, Goto, TypeOK, Driving, Busy
<1>4. \A u \in Traces, m \in Nodes : out[u][m] # NoPort => out'[u][m] # NoPort
  <2>1. out' = out \/ (result[t][n] \in Outputs /\ out' = [out EXCEPT ![t][n] = result[t][n]])
    BY DEF JoinOutput, JoinFailure, JoinSuspend, Drain, RecordOutput
  <2>2. NoPort \notin Outputs
    BY FlowAssumption DEF Results
  <2>3. CASE out' = out
    BY <2>3
  <2>4. CASE result[t][n] \in Outputs /\ out' = [out EXCEPT ![t][n] = result[t][n]]
    <3>1. out \in [Traces -> [Nodes -> Outputs \cup {NoPort}]]
      BY <1>0 DEF TypeOK
    <3>2. \A u \in Traces, m \in Nodes :
            out'[u][m] = IF u = t /\ m = n THEN result[t][n] ELSE out[u][m]
      BY <2>4, <3>1
    <3> QED
      BY <2>2, <2>4, <3>2
  <2> QED
    BY <2>1, <2>3, <2>4
<1>5. \A u \in Traces : ~logged[u].open => logged[u].done = {}
  BY <1>0 DEF RerunAt
<1> QED
  BY <1>0, <1>1, <1>2, <1>3, <1>4, <1>5, RerunFrame

LEMMA SuspendRerun ==
  ASSUME RerunInv, LogBuffered = FALSE, NEW t \in Traces,
         \/ SuspendCheck(t) \/ SuspendInsert(t) \/ SuspendLog(t) \/ SuspendLeave(t)
         \/ FinalizeLog(t) \/ FinalizeLeave(t) \/ ResumeLog(t)
  PROVE  flushed' = logged' /\ \A u \in Traces : RerunAt(u)'
<1>0. TypeOK /\ flushed = logged /\ \A u \in Traces : RerunAt(u)
  BY DEF RerunInv
<1>1. UNCHANGED <<tasks, spawned, out>>
  BY DEF SuspendCheck, SuspendInsert, SuspendLog, SuspendLeave, FinalizeLog,
         FinalizeLeave, ResumeLog, WalError
<1>2. PICK p : Goto(t, p) /\ phase[t] \in Driving
  BY DEF SuspendCheck, SuspendInsert, SuspendLog, SuspendLeave, FinalizeLog,
         FinalizeLeave, ResumeLog, WalError, Driving, Busy
<1>3. \A u \in Traces : phase'[u] \in Driving => phase[u] \in Driving
  BY <1>0, <1>2 DEF Goto, TypeOK
<1>4. /\ flushed' = logged'
      /\ \/ logged' = logged
         \/ logged' \in {WithStart(t), WithComplete(t), WithResumed(t),
                        WithSuspended(t, wait[t])}
  BY <1>0 DEF SuspendCheck, SuspendInsert, SuspendLog, SuspendLeave, FinalizeLog,
         FinalizeLeave, ResumeLog, WalError, Append, log
<1>5. \A u \in Traces : ~logged[u].open => logged[u].done = {}
  BY <1>0 DEF RerunAt
<1>6. \A u \in Traces : /\ logged'[u].done \subseteq logged[u].done
                        /\ ~logged'[u].open => logged'[u].done = {}
  BY <1>0, <1>4, <1>5, RecordFacts
<1> QED
  BY <1>0, <1>1, <1>3, <1>4, <1>6, RerunFrame

\* A state built from the log knows every completion in the log.
LEMMA ReenterRerun ==
  ASSUME RerunInv, NEW t \in Traces, NEW o \in [Nodes -> Outputs \cup {NoPort}],
         \A n \in Nodes : Restored(t)[n] # NoPort => o[n] # NoPort,
         Reenter(t, o), UNCHANGED log
  PROVE  flushed' = logged' /\ \A u \in Traces : RerunAt(u)'
<1>0. /\ TypeOK /\ flushed = logged /\ (\A u \in Traces : RerunAt(u))
      /\ logged' = logged /\ flushed' = flushed
  BY DEF RerunInv, log
<1>1. \A u \in Traces \ {t} : RerunAt(u)'
  <2>1. \A u \in Traces \ {t} : /\ tasks'[u] = tasks[u] /\ spawned'[u] = spawned[u]
                                /\ out'[u] = out[u] /\ phase'[u] = phase[u]
    BY <1>0 DEF Reenter, Goto, TypeOK
  <2>2. \A u \in Traces : ~logged[u].open => logged[u].done = {}
    BY <1>0 DEF RerunAt
  <2> QED
    BY <1>0, <2>1, <2>2, RerunFrame
<1>2. RerunAt(t)'
  <2>1. tasks'[t] = NoTasks /\ spawned'[t] = {} /\ out'[t] = o
    BY <1>0 DEF Reenter, TypeOK
  <2>2. logged[t].done \subseteq Nodes
    BY <1>0 DEF TypeOK, Replayed
  <2>3. \A n \in logged[t].done : o[n] # NoPort
    <3>1. SUFFICES ASSUME NEW n \in logged[t].done
                   PROVE  Restored(t)[n] # NoPort
      BY <2>2
    <3>2. "out" # NoPort
      BY FlowAssumption DEF Results, Outputs
    <3>3. logged[t].open
      BY <1>0 DEF RerunAt
    <3> QED
      BY <1>0, <2>2, <3>2, <3>3 DEF Restored
  <2>4. \A n \in Nodes : tasks'[t][n] = "none"
    BY <2>1 DEF NoTasks
  <2>5. logged'[t].done \subseteq Completed(t)'
    BY <1>0, <2>1, <2>2, <2>3 DEF Completed
  <2>6. ~logged'[t].open => logged'[t].done = {}
    BY <1>0 DEF RerunAt
  <2> QED
    BY <2>4, <2>5, <2>6 DEF RerunAt
<1> QED
  BY <1>0, <1>1, <1>2

LEMMA ResumeRerun ==
  ASSUME RerunInv,
         \/ \E n \in Nodes, port \in Decisions : TakeHook(n, port)
         \/ Resume
         \/ \E n \in Nodes : Expire(n)
  PROVE  flushed' = logged' /\ \A u \in Traces : RerunAt(u)'
<1>0. TypeOK /\ flushed = logged /\ \A u \in Traces : RerunAt(u)
  BY DEF RerunInv
<1>1. CASE UNCHANGED <<phase, tasks, spawned, out, logged, flushed>>
  <2>1. \A u \in Traces : ~logged[u].open => logged[u].done = {}
    BY <1>0 DEF RerunAt
  <2> QED
    BY <1>0, <1>1, <2>1, RerunFrame
<1>2. ASSUME NEW r \in resuming, ResumeOpen(r)
      PROVE  flushed' = logged' /\ \A u \in Traces : RerunAt(u)'
  <2> DEFINE o == [Restored(r.trace) EXCEPT ![r.node] = r.port]
  <2>1. r.trace \in Traces /\ r.node \in Nodes /\ r.port \in Outputs
    BY <1>0 DEF TypeOK, Outputs
  <2>2. /\ o \in [Nodes -> Outputs \cup {NoPort}]
        /\ Restored(r.trace) \in [Nodes -> Outputs \cup {NoPort}]
    BY <2>1, RestoredTypes
  <2>3. r.port # NoPort
    BY <2>1, FlowAssumption DEF Results
  <2>4. \A n \in Nodes : Restored(r.trace)[n] # NoPort => o[n] # NoPort
    BY <2>1, <2>2, <2>3
  <2>5. Reenter(r.trace, o) /\ UNCHANGED log
    BY <1>2 DEF ResumeOpen, log
  <2> HIDE DEF o
  <2> QED
    BY <2>1, <2>2, <2>4, <2>5, ReenterRerun
<1>3. ASSUME ~UNCHANGED <<phase, tasks, spawned, out, logged, flushed>>
      PROVE  \E r \in resuming : ResumeOpen(r)
  BY <1>3 DEF TakeHook, Resume, ResumeFails, Expire, log
<1> QED
  BY <1>1, <1>2, <1>3

LEMMA RecoverRerun ==
  ASSUME RerunInv, NEW t \in Traces, Recover(t)
  PROVE  flushed' = logged' /\ \A u \in Traces : RerunAt(u)'
<1>0. TypeOK /\ flushed = logged /\ \A u \in Traces : RerunAt(u)
  BY DEF RerunInv
<1>1. CASE RecoverSuspended(t) \/ RecoverSkip(t)
  <2>1. UNCHANGED <<tasks, spawned, out, logged, flushed>>
    BY <1>1 DEF RecoverSuspended, RecoverSkip, log
  <2>2. \A u \in Traces : phase'[u] \in Driving => phase[u] \in Driving
    BY <1>0, <1>1 DEF RecoverSuspended, RecoverSkip, Goto, TypeOK, Driving, Busy
  <2>3. \A u \in Traces : ~logged[u].open => logged[u].done = {}
    BY <1>0 DEF RerunAt
  <2> QED
    BY <1>0, <2>1, <2>2, <2>3, RerunFrame
<1>2. CASE RecoverResume(t)
  BY <1>2, ReenterRerun, RestoredTypes DEF RecoverResume, log
<1> QED
  BY <1>1, <1>2 DEF Recover

LEMMA DownRerun ==
  ASSUME RerunInv, Shutdown \/ Crash
  PROVE  flushed' = logged' /\ \A u \in Traces : RerunAt(u)'
<1>0. TypeOK /\ flushed = logged /\ \A u \in Traces : RerunAt(u)
  BY DEF RerunInv
<1>1. \A u \in Traces : ~logged[u].open => logged[u].done = {}
  BY <1>0 DEF RerunAt
<1>2. CASE Shutdown
  <2>1. UNCHANGED <<phase, tasks, spawned, out, logged, flushed>>
    BY <1>2 DEF Shutdown, log
  <2> QED
    BY <1>0, <1>1, <2>1, RerunFrame
<1>3. CASE Crash
  <2>1. logged' = logged /\ flushed' = logged
    BY <1>0, <1>3 DEF Crash
  <2>2. \A u \in Traces : phase'[u] \notin Driving /\ tasks'[u] = NoTasks
    BY <1>0, <1>3 DEF Crash, TypeOK, Driving, Busy, Rest
  <2>3. \A u \in Traces, n \in Nodes : tasks'[u][n] = "none"
    BY <2>2 DEF NoTasks
  <2> QED
    BY <1>1, <2>1, <2>2, <2>3 DEF RerunAt
<1> QED
  BY <1>2, <1>3

LEMMA InitRerun == Init => RerunInv
<1> SUFFICES ASSUME Init
             PROVE  RerunInv
  OBVIOUS
<1>1. \A t \in Traces : RerunAt(t)
  BY DEF Init, RerunAt, Unlogged, NoTasks, Driving, Busy
<1> QED
  BY <1>1, InitTypes DEF Init, RerunInv

LEMMA StepRerun ==
  ASSUME LogBuffered = FALSE, RerunInv, [Next]_vars
  PROVE  RerunInv'
<1>1. TypeOK'
  BY StepTypes DEF RerunInv
<1>2. CASE Next
  BY <1>1, <1>2, NextCases, StartRerun, SpawnRerun, JoinRerun, SuspendRerun, RecoverRerun,
     TaskRerun, ResumeRerun, DownRerun DEF RerunInv
<1>3. CASE UNCHANGED vars
  <2>1. UNCHANGED <<phase, tasks, spawned, out, logged, flushed>>
    BY <1>3 DEF vars, memory, log
  <2> QED
    BY <1>1, <2>1 DEF RerunInv, RerunAt, Completed
<1> QED
  BY <1>2, <1>3

(***************************************************************************)
(* "Complete nodes skip execution": with every record in the log files     *)
(* before the write returns, a node whose NodeDone record is in the log is *)
(* never started again, for every flow, through suspensions, resumptions,  *)
(* failed writes, shutdowns and any number of crashes.                     *)
(***************************************************************************)
THEOREM NoRerun ==
  ASSUME LogBuffered = FALSE
  PROVE  Spec => []LoggedNotRerun
<1>1. RerunInv => LoggedNotRerun
  BY DEF RerunInv, RerunAt, LoggedNotRerun
<1>2. RerunInv /\ [Next]_vars => RerunInv'
  BY StepRerun
<1> QED
  BY <1>1, <1>2, InitRerun, PTL DEF Spec

-----------------------------------------------------------------------------
(* Nodes are executed in the order of the flow.                             *)

\* Everything a log record says of a trace has been executed.
Ordered(rec, t) == rec.done \subseteq ran[t] /\ rec.suspended \in ran[t] \cup {NoNode}

(* Whatever readiness is judged by has been executed: the outputs, the      *)
(* completions in the log they may be restored from, the node a suspension  *)
(* waits at, and the results of tasks.  A task has been started only after  *)
(* its predecessors.                                                        *)
OrderAt(t) ==
  /\ Completed(t) \subseteq ran[t] /\ wait[t] \in ran[t] \cup {NoNode}
  /\ Ordered(logged[t], t) /\ Ordered(flushed[t], t)
  /\ \A n \in Nodes : tasks[t][n] \in {"ran", "done"} => n \in ran[t]
  /\ \A n \in Nodes : tasks[t][n] # "none" => n \in Entries \/ Predecessors(n) \subseteq ran[t]
  /\ \A n \in ran[t] \ Entries : Predecessors(n) \subseteq ran[t]

\* The same for the hooks in the store and the resumptions that took one.
HooksOrdered ==
  /\ \A n \in Nodes : store[n] # NoTrace => n \in ran[store[n]]
  /\ \A r \in resuming : r.node \in ran[r.trace]

OrderInv == TypeOK /\ HooksOrdered /\ \A t \in Traces : OrderAt(t)

LEMMA RecordOrder ==
  ASSUME TypeOK, NEW t \in Traces, NEW n \in ran[t] \cup {NoNode}, NEW u \in Traces,
         Ordered(logged[u], u), ran[t] \subseteq Nodes
  PROVE  /\ Ordered(WithStart(t)[u], u) /\ Ordered(WithComplete(t)[u], u)
         /\ Ordered(WithResumed(t)[u], u) /\ Ordered(WithSuspended(t, n)[u], u)
         /\ n \in ran[t] => Ordered(WithDone(t, n)[u], u)
<1>1. logged \in Logs /\ logged[t] \in Replayed
  BY DEF TypeOK, Logs
<1>2. Ordered(WithStart(t)[u], u) /\ Ordered(WithComplete(t)[u], u)
  BY <1>1 DEF WithStart, WithComplete, Apply, Unlogged, Logs, Ordered
<1>3. Ordered(WithResumed(t)[u], u) /\ Ordered(WithSuspended(t, n)[u], u)
  BY <1>1 DEF WithResumed, WithSuspended, Apply, Logs, Replayed, Ordered
<1>4. n \in ran[t] => Ordered(WithDone(t, n)[u], u)
  BY <1>1 DEF WithDone, Apply, Logs, Replayed, Ordered
<1> QED
  BY <1>2, <1>3, <1>4

LEMMA AppendOrder ==
  ASSUME OrderInv, NEW t \in Traces, NEW n \in ran[t] \cup {NoNode}, NEW l,
         \/ l \in {WithStart(t), WithComplete(t), WithResumed(t), WithSuspended(t, n)}
         \/ l = WithDone(t, n) /\ n \in ran[t],
         Append(l) \/ UNCHANGED log
  PROVE  \A u \in Traces : Ordered(logged'[u], u) /\ Ordered(flushed'[u], u)
<1>1. TypeOK /\ ran[t] \subseteq Nodes
  BY DEF OrderInv, TypeOK
<1>2. \A u \in Traces : Ordered(logged[u], u) /\ Ordered(flushed[u], u)
  BY DEF OrderInv, OrderAt
<1>3. \A u \in Traces : Ordered(l[u], u)
  BY <1>1, <1>2, RecordOrder
<1>4. logged' \in {l, logged} /\ flushed' \in {l, flushed}
  BY DEF Append, log
<1> QED
  BY <1>2, <1>3, <1>4

\* Steps that execute nothing.
LEMMA OrderFrame ==
  ASSUME NEW u \in Traces, OrderAt(u), ran' = ran,
         \A n \in Nodes : out'[u][n] # NoPort => n \in ran[u],
         wait'[u] \in ran[u] \cup {NoNode},
         Ordered(logged'[u], u), Ordered(flushed'[u], u),
         \A n \in Nodes : tasks'[u][n] \in {"ran", "done"} => n \in ran[u],
         \A n \in Nodes : tasks'[u][n] # "none" =>
                           n \in Entries \/ Predecessors(n) \subseteq ran[u]
  PROVE  OrderAt(u)'
BY DEF OrderAt, Ordered, Completed, Predecessors

\* Steps that leave outputs, tasks and what was executed alone.
LEMMA QuietOrder ==
  ASSUME OrderInv, UNCHANGED <<out, tasks, ran>>,
         \A u \in Traces : Ordered(logged'[u], u) /\ Ordered(flushed'[u], u),
         \A u \in Traces : wait'[u] \in ran[u] \cup {NoNode}
  PROVE  \A u \in Traces : OrderAt(u)'
<1>1. \A u \in Traces :
        /\ OrderAt(u)
        /\ \A n \in Nodes : out'[u][n] # NoPort => n \in ran[u]
        /\ \A n \in Nodes : tasks'[u][n] \in {"ran", "done"} => n \in ran[u]
        /\ \A n \in Nodes : tasks'[u][n] # "none" =>
                            n \in Entries \/ Predecessors(n) \subseteq ran[u]
  BY DEF OrderInv, OrderAt, Completed
<1> QED
  BY <1>1, OrderFrame

LEMMA OrderFacts ==
  ASSUME OrderInv
  PROVE  /\ TypeOK /\ HooksOrdered
         /\ \A u \in Traces : Ordered(logged[u], u) /\ Ordered(flushed[u], u)
         /\ \A u \in Traces : wait[u] \in ran[u] \cup {NoNode}
BY DEF OrderInv, OrderAt

LEMMA StartOrder ==
  ASSUME OrderInv, NEW t \in Traces, Admit(t) \/ Insert(t) \/ Start(t)
  PROVE  HooksOrdered' /\ \A u \in Traces : OrderAt(u)'
<1>1. UNCHANGED <<out, tasks, ran, wait, store, resuming>>
  BY DEF Admit, Insert, Start, WalError, history
<1>2. Append(WithStart(t)) \/ UNCHANGED log
  BY DEF Admit, Insert, Start, WalError, log
<1>3. \A u \in Traces : Ordered(logged'[u], u) /\ Ordered(flushed'[u], u)
  BY <1>2, AppendOrder
<1> QED
  BY <1>1, <1>3, OrderFacts, QuietOrder DEF HooksOrdered

LEMMA SpawnOrder ==
  ASSUME OrderInv, NEW t \in Traces, Spawn(t) \/ SpawnMissing(t)
  PROVE  HooksOrdered' /\ \A u \in Traces : OrderAt(u)'
<1>1. UNCHANGED <<out, ran, wait, store, resuming, logged, flushed>>
  BY DEF Spawn, SpawnMissing, log, history
<1>2. \A u \in Traces, n \in Nodes :
        tasks'[u][n] = IF u = t /\ n \in Ready(t) /\ Spawn(t) THEN "queued" ELSE tasks[u][n]
  BY OrderFacts DEF Spawn, SpawnMissing, TypeOK
<1>3. \A n \in Ready(t) : n \in Entries \/ Predecessors(n) \subseteq ran[t]
  BY DEF Ready, IsNodeReady, OrderInv, OrderAt
<1>4. \A u \in Traces :
        /\ OrderAt(u)
        /\ \A n \in Nodes : out[u][n] # NoPort => n \in ran[u]
        /\ \A n \in Nodes : tasks[u][n] \in {"ran", "done"} => n \in ran[u]
        /\ \A n \in Nodes : tasks[u][n] # "none" =>
                            n \in Entries \/ Predecessors(n) \subseteq ran[u]
  BY DEF OrderInv, OrderAt, Completed
<1>5. \A u \in Traces :
        /\ \A n \in Nodes : tasks'[u][n] \in {"ran", "done"} => n \in ran[u]
        /\ \A n \in Nodes : tasks'[u][n] # "none" =>
                            n \in Entries \/ Predecessors(n) \subseteq ran[u]
  BY <1>2, <1>3, <1>4
<1> QED
  BY <1>1, <1>4, <1>5, OrderFacts, OrderFrame DEF HooksOrdered

LEMMA TaskOrder ==
  ASSUME OrderInv, NEW t \in Traces, NEW n \in Nodes, TaskStep(t, n) \/ Cancel(t, n)
  PROVE  HooksOrdered' /\ \A u \in Traces : OrderAt(u)'
<1>0. TypeOK /\ HooksOrdered /\ \A u \in Traces : OrderAt(u)
  BY DEF OrderInv
<1>1. UNCHANGED <<out, wait, store, resuming>>
  BY DEF TaskStep, Acquire, Execute, LogResult, Cancel
<1>2. CASE Acquire(t, n) \/ LogResult(t, n) \/ Cancel(t, n)
  <2>1. ran' = ran
    BY <1>2 DEF Acquire, LogResult, Cancel, history
  <2>2. PICK s \in {"running", "done", "none"} :
          /\ tasks' = [tasks EXCEPT ![t][n] = s]
          /\ s = "done" => tasks[t][n] = "ran"
          /\ tasks[t][n] # "none"
    BY <1>2 DEF Acquire, LogResult, Cancel
  <2>3. \A u \in Traces, m \in Nodes :
          tasks'[u][m] = IF u = t /\ m = n THEN s ELSE tasks[u][m]
    BY <1>0, <2>2 DEF TypeOK
  <2>4. \A u \in Traces : Ordered(logged'[u], u) /\ Ordered(flushed'[u], u)
    <3>1. CASE tasks[t][n] = "ran"
      <4>1. n \in ran[t]
        BY <1>0, <3>1 DEF OrderAt
      <4>2. Append(WithDone(t, n)) \/ UNCHANGED log
        BY <1>2 DEF Acquire, LogResult, Cancel, log
      <4> QED
        BY <4>1, <4>2, AppendOrder
    <3>2. CASE tasks[t][n] # "ran"
      <4>1. UNCHANGED <<logged, flushed>>
        BY <1>2, <3>2 DEF Acquire, LogResult, Cancel, log
      <4> QED
        BY <4>1, OrderFacts
    <3> QED
      BY <3>1, <3>2
  <2>5. \A u \in Traces :
          /\ \A m \in Nodes : out[u][m] # NoPort => m \in ran[u]
          /\ wait[u] \in ran[u] \cup {NoNode}
          /\ \A m \in Nodes : tasks[u][m] \in {"ran", "done"} => m \in ran[u]
          /\ \A m \in Nodes : tasks[u][m] # "none" =>
                              m \in Entries \/ Predecessors(m) \subseteq ran[u]
    BY <1>0 DEF OrderAt, Completed
  <2>6. \A u \in Traces :
          /\ \A m \in Nodes : tasks'[u][m] \in {"ran", "done"} => m \in ran[u]
          /\ \A m \in Nodes : tasks'[u][m] # "none" =>
                              m \in Entries \/ Predecessors(m) \subseteq ran[u]
    BY <2>2, <2>3, <2>5
  <2> QED
    BY <1>0, <1>1, <2>1, <2>4, <2>5, <2>6, OrderFrame DEF HooksOrdered
<1>3. ASSUME NEW r \in Results, Execute(t, n, r)
      PROVE  HooksOrdered' /\ \A u \in Traces : OrderAt(u)'
  <2>1. UNCHANGED <<logged, flushed>>
    BY <1>3 DEF Execute, log
  <2>2. \A u \in Traces : ran'[u] = IF u = t THEN ran[t] \cup {n} ELSE ran[u]
    BY <1>0, <1>3 DEF Execute, TypeOK
  <2>3. \A u \in Traces, m \in Nodes :
          tasks'[u][m] = IF u = t /\ m = n THEN "ran" ELSE tasks[u][m]
    BY <1>0, <1>3 DEF Execute, TypeOK
  <2>4. n \in Entries \/ Predecessors(n) \subseteq ran[t]
    BY <1>0, <1>3 DEF OrderAt, Execute
  <2>5. HooksOrdered'
    <3>1. \A u \in Traces : ran[u] \subseteq ran'[u]
      BY <2>2
    <3>2. \A m \in Nodes : store[m] # NoTrace => store[m] \in Traces
      BY <1>0 DEF TypeOK
    <3>3. \A q \in resuming : q.trace \in Traces
      BY <1>0 DEF TypeOK
    <3> QED
      BY <1>0, <1>1, <3>1, <3>2, <3>3 DEF HooksOrdered
  <2>6. ASSUME NEW u \in Traces
        PROVE  OrderAt(u)'
    <3>1. OrderAt(u) /\ ran[u] \subseteq ran'[u]
      BY <1>0, <2>2
    <3>2. /\ Completed(u)' \subseteq ran'[u] /\ wait'[u] \in ran'[u] \cup {NoNode}
          /\ Ordered(logged[u], u)' /\ Ordered(flushed[u], u)'
      BY <1>1, <2>1, <3>1 DEF OrderAt, Completed, Ordered
    <3>3. \A m \in Nodes :
            /\ tasks'[u][m] \in {"ran", "done"} => m \in ran'[u]
            /\ tasks'[u][m] # "none" => m \in Entries \/ Predecessors(m) \subseteq ran'[u]
      BY <2>2, <2>3, <2>4, <3>1 DEF OrderAt
    <3>4. \A m \in ran'[u] \ Entries : Predecessors(m) \subseteq ran'[u]
      BY <2>2, <2>4, <3>1 DEF OrderAt
    <3> QED
      BY <3>2, <3>3, <3>4 DEF OrderAt, Predecessors
  <2> QED
    BY <2>5, <2>6
<1> QED
  BY <1>2, <1>3 DEF TaskStep

LEMMA JoinOrder ==
  ASSUME OrderInv, NEW t \in Traces, NEW n \in Nodes,
         JoinOutput(t, n) \/ JoinFailure(t, n) \/ JoinSuspend(t, n) \/ Drain(t, n)
  PROVE  HooksOrdered' /\ \A u \in Traces : OrderAt(u)'
<1>0. TypeOK /\ HooksOrdered /\ \A u \in Traces : OrderAt(u)
  BY DEF OrderInv
<1>1. /\ UNCHANGED <<ran, store, resuming, logged, flushed>>
      /\ tasks' = [tasks EXCEPT ![t][n] = "none"] /\ tasks[t][n] = "done"
  BY DEF JoinOutput, JoinFailure, JoinSuspend, Drain, log, history
<1>2. n \in ran[t]
  BY <1>0, <1>1 DEF OrderAt
<1>3. \A u \in Traces, m \in Nodes : tasks'[u][m] # "none" => tasks'[u][m] = tasks[u][m]
  BY <1>0, <1>1 DEF TypeOK
<1>4. \A u \in Traces : wait'[u] \in ran[u] \cup {NoNode}
  <2>1. wait' = wait \/ wait' = [wait EXCEPT ![t] = n]
    BY DEF JoinOutput, JoinFailure, JoinSuspend, Drain
  <2>2. \A u \in Traces : wait[u] \in ran[u] \cup {NoNode}
    BY <1>0 DEF OrderAt
  <2> QED
    BY <1>0, <1>2, <2>1, <2>2 DEF TypeOK
<1>5. \A u \in Traces, m \in Nodes : out'[u][m] # NoPort => m \in ran[u]
  <2>1. out' = out \/ out' = [out EXCEPT ![t][n] = result[t][n]]
    BY DEF JoinOutput, JoinFailure, JoinSuspend, Drain, RecordOutput
  <2>2. \A u \in Traces, m \in Nodes : out[u][m] # NoPort => m \in ran[u]
    BY <1>0 DEF OrderAt, Completed
  <2>3. out \in [Traces -> [Nodes -> Outputs \cup {NoPort}]]
    BY <1>0 DEF TypeOK
  <2>4. \A u \in Traces, m \in Nodes :
          (u = t /\ m = n) \/ out'[u][m] = out[u][m]
    BY <2>1, <2>3
  <2> QED
    BY <1>2, <2>2, <2>4
<1>6. \A u \in Traces :
        /\ \A m \in Nodes : tasks'[u][m] \in {"ran", "done"} => m \in ran[u]
        /\ \A m \in Nodes : tasks'[u][m] # "none" =>
                            m \in Entries \/ Predecessors(m) \subseteq ran[u]
  BY <1>0, <1>3 DEF OrderAt
<1> QED
  BY <1>0, <1>1, <1>4, <1>5, <1>6, OrderFacts, OrderFrame DEF HooksOrdered

LEMMA SuspendOrder ==
  ASSUME OrderInv, NEW t \in Traces,
         \/ SuspendCheck(t) \/ SuspendInsert(t) \/ SuspendLog(t) \/ SuspendLeave(t)
         \/ FinalizeLog(t) \/ FinalizeLeave(t) \/ ResumeLog(t)
  PROVE  HooksOrdered' /\ \A u \in Traces : OrderAt(u)'
<1>0. TypeOK /\ HooksOrdered /\ wait[t] \in ran[t] \cup {NoNode}
  BY OrderFacts
<1>1. UNCHANGED <<out, tasks, ran, wait, resuming>>
  BY DEF SuspendCheck, SuspendInsert, SuspendLog, SuspendLeave, FinalizeLog,
         FinalizeLeave, ResumeLog, WalError, history
<1>2. PICK l \in {WithStart(t), WithComplete(t), WithResumed(t), WithSuspended(t, wait[t])} :
        Append(l) \/ UNCHANGED log
  BY DEF SuspendCheck, SuspendInsert, SuspendLog, SuspendLeave, FinalizeLog,
         FinalizeLeave, ResumeLog, WalError, log
<1>3. \A u \in Traces : Ordered(logged'[u], u) /\ Ordered(flushed'[u], u)
  BY <1>0, <1>2, AppendOrder
<1>4. \A m \in Nodes : store'[m] # store[m] => store'[m] = t /\ m = wait[t]
  BY <1>0 DEF SuspendCheck, SuspendInsert, SuspendLog, SuspendLeave, FinalizeLog,
         FinalizeLeave, ResumeLog, WalError, TypeOK
<1>5. HooksOrdered'
  BY <1>0, <1>1, <1>4, FlowAssumption DEF HooksOrdered
<1> QED
  BY <1>1, <1>3, <1>5, OrderFacts, QuietOrder

\* A state built from the log holds outputs of executed nodes only.
LEMMA ReenterOrder ==
  ASSUME OrderInv, NEW t \in Traces, NEW o,
         \A n \in Nodes : o[n] # NoPort => n \in ran[t],
         Reenter(t, o), UNCHANGED <<log, ran>>
  PROVE  \A u \in Traces : OrderAt(u)'
<1>0. TypeOK /\ (\A u \in Traces : OrderAt(u)) /\ UNCHANGED <<logged, flushed, ran>>
  BY DEF OrderInv, log
<1>1. /\ \A u \in Traces : out'[u] = IF u = t THEN o ELSE out[u]
      /\ \A u \in Traces : wait'[u] \in {wait[u], NoNode}
      /\ \A u \in Traces : tasks'[u] = tasks[u] \/ tasks'[u] = NoTasks
  BY <1>0 DEF Reenter, TypeOK
<1>2. \A u \in Traces : \A n \in Nodes : out'[u][n] # NoPort => n \in ran[u]
  BY <1>0, <1>1 DEF OrderAt, Completed
<1>3. \A u \in Traces :
        /\ \A m \in Nodes : tasks'[u][m] \in {"ran", "done"} => m \in ran[u]
        /\ \A m \in Nodes : tasks'[u][m] # "none" =>
                            m \in Entries \/ Predecessors(m) \subseteq ran[u]
  BY <1>0, <1>1 DEF OrderAt, NoTasks
<1>4. \A u \in Traces : /\ wait'[u] \in ran[u] \cup {NoNode}
                        /\ Ordered(logged'[u], u) /\ Ordered(flushed'[u], u)
  BY <1>0, <1>1, OrderFacts
<1> QED
  BY <1>0, <1>2, <1>3, <1>4, OrderFrame

LEMMA RestoredOrder ==
  ASSUME OrderInv, NEW t \in Traces, NEW n \in Nodes, Restored(t)[n] # NoPort
  PROVE  n \in ran[t]
BY OrderFacts DEF Restored, Ordered

LEMMA ResumeOrder ==
  ASSUME OrderInv,
         \/ \E n \in Nodes, port \in Decisions : TakeHook(n, port)
         \/ Resume
         \/ \E n \in Nodes : Expire(n)
  PROVE  HooksOrdered' /\ \A u \in Traces : OrderAt(u)'
<1>0. TypeOK /\ HooksOrdered
  BY OrderFacts
<1>1. ASSUME UNCHANGED <<out, tasks, ran, wait, logged, flushed>>
      PROVE  \A u \in Traces : OrderAt(u)'
  BY <1>1, OrderFacts, QuietOrder
<1>2. ASSUME NEW n \in Nodes, NEW port \in Decisions, TakeHook(n, port)
      PROVE  HooksOrdered' /\ \A u \in Traces : OrderAt(u)'
  <2>1. UNCHANGED <<out, tasks, ran, wait, logged, flushed>>
    BY <1>2 DEF TakeHook, log, history
  <2>2. \A m \in Nodes : store'[m] = IF m = n THEN NoTrace ELSE store[m]
    BY <1>0, <1>2 DEF TakeHook, TypeOK
  <2>3. n \in ran[store[n]]
    BY <1>0, <1>2 DEF TakeHook, HooksOrdered
  <2>4. \A r \in resuming' : r \in resuming \/ (r.node = n /\ r.trace = store[n])
    BY <1>2 DEF TakeHook
  <2>5. HooksOrdered'
    BY <1>0, <2>1, <2>2, <2>3, <2>4 DEF HooksOrdered
  <2> QED
    BY <1>1, <2>1, <2>5
<1>3. ASSUME NEW r \in resuming, ResumeOpen(r)
      PROVE  HooksOrdered' /\ \A u \in Traces : OrderAt(u)'
  <2> DEFINE o == [Restored(r.trace) EXCEPT ![r.node] = r.port]
  <2>1. r.trace \in Traces /\ r.node \in Nodes /\ r.node \in ran[r.trace]
    BY <1>0 DEF TypeOK, HooksOrdered
  <2>2. \A m \in Nodes : o[m] # NoPort => m \in ran[r.trace]
    <3>1. \A m \in Nodes : m # r.node => o[m] = Restored(r.trace)[m]
      BY <2>1, RestoredTypes
    <3> QED
      BY <2>1, <3>1, RestoredOrder
  <2>3. Reenter(r.trace, o) /\ UNCHANGED <<log, ran>>
    BY <1>3 DEF ResumeOpen, log
  <2> HIDE DEF o
  <2>4. \A u \in Traces : OrderAt(u)'
    BY <2>1, <2>2, <2>3, ReenterOrder
  <2>5. HooksOrdered'
    BY <1>0, <1>3 DEF ResumeOpen, HooksOrdered
  <2> QED
    BY <2>4, <2>5
<1>4. ASSUME NEW r \in resuming, ResumeFails(r)
      PROVE  HooksOrdered' /\ \A u \in Traces : OrderAt(u)'
  <2>1. /\ UNCHANGED <<out, tasks, ran, wait, logged, flushed, store>>
        /\ resuming' \subseteq resuming
    BY <1>4 DEF ResumeFails, log, history
  <2> QED
    BY <1>0, <1>1, <2>1 DEF HooksOrdered
<1>5. ASSUME NEW n \in Nodes, Expire(n)
      PROVE  HooksOrdered' /\ \A u \in Traces : OrderAt(u)'
  <2>1. UNCHANGED <<out, tasks, ran, wait, logged, flushed, resuming>>
    BY <1>5 DEF Expire, log, history
  <2>2. \A m \in Nodes : store'[m] = IF m = n THEN NoTrace ELSE store[m]
    BY <1>0, <1>5 DEF Expire, TypeOK
  <2> QED
    BY <1>0, <1>1, <2>1, <2>2 DEF HooksOrdered
<1> QED
  BY <1>2, <1>3, <1>4, <1>5 DEF Resume

LEMMA RecoverOrder ==
  ASSUME OrderInv, NEW t \in Traces, Recover(t)
  PROVE  HooksOrdered' /\ \A u \in Traces : OrderAt(u)'
<1>0. TypeOK /\ HooksOrdered
  BY OrderFacts
<1>1. CASE RecoverSuspended(t)
  <2>1. UNCHANGED <<out, tasks, ran, wait, logged, flushed, resuming>>
    BY <1>1 DEF RecoverSuspended, log, history
  <2>2. logged[t].suspended \in ran[t]
    BY <1>1, OrderFacts DEF RecoverSuspended, Ordered
  <2>3. \A m \in Nodes : store'[m] = store[m] \/ (m = logged[t].suspended /\ store'[m] = t)
    BY <1>0, <1>1 DEF RecoverSuspended, TypeOK
  <2>4. HooksOrdered'
    BY <1>0, <2>1, <2>2, <2>3 DEF HooksOrdered
  <2> QED
    BY <2>1, <2>4, OrderFacts, QuietOrder
<1>2. CASE RecoverResume(t)
  <2>1. Reenter(t, Restored(t)) /\ UNCHANGED <<log, ran>> /\ UNCHANGED <<store, resuming>>
    BY <1>2 DEF RecoverResume, log, history
  <2>2. \A u \in Traces : OrderAt(u)'
    BY <2>1, RestoredOrder, ReenterOrder
  <2> QED
    BY <1>0, <2>1, <2>2 DEF HooksOrdered
<1>3. CASE RecoverSkip(t)
  <2>1. UNCHANGED <<out, tasks, ran, wait, logged, flushed, store, resuming>>
    BY <1>3 DEF RecoverSkip, log, history
  <2> QED
    BY <1>0, <2>1, OrderFacts, QuietOrder DEF HooksOrdered
<1> QED
  BY <1>1, <1>2, <1>3 DEF Recover

LEMMA DownOrder ==
  ASSUME OrderInv, Shutdown \/ Crash
  PROVE  HooksOrdered' /\ \A u \in Traces : OrderAt(u)'
<1>0. TypeOK /\ HooksOrdered
  BY OrderFacts
<1>1. CASE Shutdown
  <2>1. UNCHANGED <<out, tasks, ran, wait, logged, flushed, store, resuming>>
    BY <1>1 DEF Shutdown, log, history
  <2> QED
    BY <1>0, <2>1, OrderFacts, QuietOrder DEF HooksOrdered
<1>2. CASE Crash
  <2>1. ran' = ran /\ logged' = flushed /\ flushed' = flushed
    BY <1>2 DEF Crash, history
  <2>2. /\ \A u \in Traces, n \in Nodes : out'[u][n] = NoPort /\ tasks'[u][n] = "none"
        /\ \A u \in Traces : wait'[u] = NoNode
    BY <1>2 DEF Crash, NoOutputs, NoTasks
  <2>3. \A u \in Traces : OrderAt(u)'
    BY <2>1, <2>2, OrderFacts, OrderFrame DEF OrderInv
  <2>4. HooksOrdered'
    BY <1>2 DEF Crash, HooksOrdered
  <2> QED
    BY <2>3, <2>4
<1> QED
  BY <1>1, <1>2

LEMMA InitOrder == Init => OrderInv
<1> SUFFICES ASSUME Init
             PROVE  OrderInv
  OBVIOUS
<1>1. \A t \in Traces : OrderAt(t)
  BY DEF Init, OrderAt, Ordered, Completed, Unlogged, NoTasks, NoOutputs
<1>2. HooksOrdered
  BY DEF Init, HooksOrdered
<1> QED
  BY <1>1, <1>2, InitTypes DEF OrderInv

LEMMA StepOrder ==
  ASSUME OrderInv, [Next]_vars
  PROVE  OrderInv'
<1>1. TypeOK'
  BY StepTypes DEF OrderInv
<1>2. CASE Next
  BY <1>1, <1>2, NextCases, StartOrder, SpawnOrder, JoinOrder, SuspendOrder, RecoverOrder,
     TaskOrder, ResumeOrder, DownOrder DEF OrderInv
<1>3. CASE UNCHANGED vars
  <2>1. UNCHANGED <<out, tasks, ran, wait, logged, flushed, store, resuming>>
    BY <1>3 DEF vars, memory, log, history
  <2>2. HooksOrdered'
    BY <2>1, OrderFacts DEF HooksOrdered
  <2> QED
    BY <1>1, <2>1, <2>2, OrderFacts, QuietOrder DEF OrderInv
<1> QED
  BY <1>2, <1>3

(***************************************************************************)
(* find_ready_nodes lets no node overtake its predecessors: in every flow, *)
(* whichever records a crash leaves in the log, however often a trace is   *)
(* suspended, resumed or recovered, a node is executed only after every    *)
(* one of its predecessors.                                                *)
(***************************************************************************)
THEOREM FlowOrder == Spec => []PredecessorsFirst
<1>1. OrderInv => PredecessorsFirst
  BY DEF OrderInv, OrderAt, PredecessorsFirst
<1>2. OrderInv /\ [Next]_vars => OrderInv'
  BY StepOrder
<1> QED
  BY <1>1, <1>2, InitOrder, PTL DEF Spec

-----------------------------------------------------------------------------
(* The driver of a trace.                                                   *)
\* A step leaves everything that is kept for trace u.
Same(u) ==
  /\ phase'[u] = phase[u] /\ tasks'[u] = tasks[u] /\ result'[u] = result[u]
  /\ spawned'[u] = spawned[u] /\ out'[u] = out[u] /\ wait'[u] = wait[u]
  /\ arena'[u] = arena[u] /\ (u \in live' <=> u \in live)
  /\ logged'[u] = logged[u]
  /\ ran'[u] = ran[u] /\ reran'[u] = reran[u] /\ emitted'[u] = emitted[u]

\* The steps of one trace, and the ones that touch only the hooks.
DriverStep(t) ==
  \/ Admit(t) \/ Insert(t) \/ Start(t) \/ Spawn(t) \/ SpawnMissing(t)
  \/ SuspendCheck(t) \/ SuspendInsert(t) \/ SuspendLog(t) \/ SuspendLeave(t)
  \/ FinalizeLog(t) \/ FinalizeLeave(t) \/ ResumeLog(t)
JoinStep(t, n) == JoinOutput(t, n) \/ JoinFailure(t, n) \/ JoinSuspend(t, n) \/ Drain(t, n)
ReenterStep(t) == RecoverResume(t) \/ \E r \in resuming : r.trace = t /\ ResumeOpen(r)
VisitStep(t) == RecoverSuspended(t) \/ RecoverSkip(t)
HookStep ==
  \/ \E n \in Nodes, port \in Decisions : TakeHook(n, port)
  \/ \E r \in resuming : ResumeFails(r)
  \/ \E n \in Nodes : Expire(n)

LEMMA StepCases ==
  ASSUME TypeOK, [Next]_vars
  PROVE  \/ \E t \in Traces : DriverStep(t) \/ ReenterStep(t) \/ VisitStep(t)
         \/ \E t \in Traces, n \in Nodes :
              JoinStep(t, n) \/ TaskStep(t, n) \/ Cancel(t, n)
         \/ HookStep \/ Shutdown \/ Crash \/ UNCHANGED vars
<1>1. CASE Resume
  <2>1. PICK r \in resuming : ResumeOpen(r) \/ ResumeFails(r)
    BY <1>1 DEF Resume
  <2>2. r.trace \in Traces
    BY DEF TypeOK
  <2> QED
    BY <2>1, <2>2 DEF ReenterStep, HookStep
<1>2. CASE \E t \in Traces : Recover(t)
  BY <1>2 DEF Recover, ReenterStep, VisitStep
<1>3. CASE Next /\ ~Resume /\ ~(\E t \in Traces : Recover(t))
  BY <1>3, NextCases DEF DriverStep, JoinStep, HookStep
<1> QED
  BY <1>1, <1>2, <1>3

\* What is appended concerns one trace.
LEMMA RecordsSame ==
  ASSUME TypeOK, NEW t \in Traces, NEW n, NEW u \in Traces \ {t},
         NEW l \in {WithStart(t), WithComplete(t), WithResumed(t), WithSuspended(t, n),
                    WithDone(t, n)}
  PROVE  l[u] = logged[u]
BY DEF TypeOK, WithStart, WithComplete, WithResumed, WithSuspended, WithDone, Apply

LEMMA AppendSame ==
  ASSUME TypeOK, NEW t \in Traces, NEW n, NEW u \in Traces \ {t},
         NEW l \in {WithStart(t), WithComplete(t), WithResumed(t), WithSuspended(t, n),
                    WithDone(t, n)},
         Append(l) \/ UNCHANGED log
  PROVE  logged'[u] = logged[u]
BY RecordsSame DEF Append, log

LEMMA DriverSame ==
  ASSUME TypeOK, NEW t \in Traces, NEW u \in Traces \ {t}, DriverStep(t)
  PROVE  Same(u)
<1>1. logged'[u] = logged[u]
  <2>1. PICK l \in {WithStart(t), WithComplete(t), WithResumed(t), WithSuspended(t, wait[t])} :
          Append(l) \/ UNCHANGED log
    BY DEF DriverStep, Admit, Insert, Start, Spawn, SpawnMissing, SuspendCheck,
           SuspendInsert, SuspendLog, SuspendLeave, FinalizeLog, FinalizeLeave,
           ResumeLog, WalError
  <2> QED
    BY <2>1, AppendSame
<1>2. phase'[u] = phase[u]
  <2>1. \E p : Goto(t, p)
    BY DEF DriverStep, Admit, Insert, Start, Spawn, SpawnMissing, SuspendCheck,
           SuspendInsert, SuspendLog, SuspendLeave, FinalizeLog, FinalizeLeave,
           ResumeLog, WalError
  <2> QED
    BY <2>1 DEF Goto, TypeOK
<1>3. (u \in live' <=> u \in live) /\ arena'[u] = arena[u]
  BY DEF DriverStep, Admit, Insert, Start, Spawn, SpawnMissing, SuspendCheck,
         SuspendInsert, SuspendLog, SuspendLeave, FinalizeLog, FinalizeLeave,
         ResumeLog, WalError, TypeOK
<1>4. tasks'[u] = tasks[u] /\ spawned'[u] = spawned[u]
  BY DEF DriverStep, Admit, Insert, Start, Spawn, SpawnMissing, SuspendCheck,
         SuspendInsert, SuspendLog, SuspendLeave, FinalizeLog, FinalizeLeave,
         ResumeLog, WalError, TypeOK
<1>5. UNCHANGED <<out, result, wait, ran, reran, emitted>>
  BY DEF DriverStep, Admit, Insert, Start, Spawn, SpawnMissing, SuspendCheck,
         SuspendInsert, SuspendLog, SuspendLeave, FinalizeLog, FinalizeLeave,
         ResumeLog, WalError, history
<1> QED
  BY <1>1, <1>2, <1>3, <1>4, <1>5 DEF Same

LEMMA TaskSame ==
  ASSUME TypeOK, NEW t \in Traces, NEW n \in Nodes, NEW u \in Traces \ {t},
         JoinStep(t, n) \/ TaskStep(t, n) \/ Cancel(t, n)
  PROVE  Same(u)
<1>1. logged'[u] = logged[u]
  <2>1. Append(WithDone(t, n)) \/ UNCHANGED log
    BY DEF JoinStep, JoinOutput, JoinFailure, JoinSuspend, Drain, TaskStep, Acquire,
           Execute, LogResult, Cancel, log
  <2> QED
    BY <2>1, AppendSame
<1>2. /\ phase'[u] = phase[u] /\ (u \in live' <=> u \in live) /\ arena'[u] = arena[u]
      /\ spawned'[u] = spawned[u] /\ wait'[u] = wait[u]
  BY DEF JoinStep, JoinOutput, JoinFailure, JoinSuspend, Drain, TaskStep, Acquire,
         Execute, LogResult, Cancel, Goto, TypeOK
<1>3. tasks'[u] = tasks[u] /\ result'[u] = result[u]
  BY DEF JoinStep, JoinOutput, JoinFailure, JoinSuspend, Drain, TaskStep, Acquire,
         Execute, LogResult, Cancel, TypeOK
<1>4. out'[u] = out[u]
  BY DEF JoinStep, JoinOutput, JoinFailure, JoinSuspend, Drain, RecordOutput, TaskStep,
         Acquire, Execute, LogResult, Cancel, TypeOK
<1>5. ran'[u] = ran[u] /\ reran'[u] = reran[u] /\ emitted'[u] = emitted[u]
  BY DEF JoinStep, JoinOutput, JoinFailure, JoinSuspend, Drain, TaskStep, Acquire,
         Execute, LogResult, Cancel, history, TypeOK
<1> QED
  BY <1>1, <1>2, <1>3, <1>4, <1>5 DEF Same

LEMMA ReenterSame ==
  ASSUME TypeOK, NEW t \in Traces, NEW u \in Traces \ {t}, ReenterStep(t) \/ VisitStep(t)
  PROVE  Same(u)
<1>1. logged' = logged /\ ran' = ran /\ reran' = reran
  BY DEF ReenterStep, VisitStep, RecoverResume, ResumeOpen, RecoverSuspended,
         RecoverSkip, log, history
<1>2. emitted'[u] = emitted[u]
  BY DEF ReenterStep, VisitStep, RecoverResume, ResumeOpen, RecoverSuspended,
         RecoverSkip, history, TypeOK
<1>3. /\ phase'[u] = phase[u] /\ tasks'[u] = tasks[u] /\ result'[u] = result[u]
      /\ spawned'[u] = spawned[u] /\ out'[u] = out[u] /\ wait'[u] = wait[u]
      /\ arena'[u] = arena[u] /\ (u \in live' <=> u \in live)
  <2>1. CASE \E o : Reenter(t, o)
    BY <2>1 DEF Reenter, Goto, TypeOK
  <2>2. CASE VisitStep(t)
    BY <2>2 DEF VisitStep, RecoverSuspended, RecoverSkip, Goto, TypeOK
  <2> QED
    BY <2>1, <2>2 DEF ReenterStep, RecoverResume, ResumeOpen
<1> QED
  BY <1>1, <1>2, <1>3 DEF Same

LEMMA HookSame ==
  ASSUME NEW u \in Traces, HookStep \/ UNCHANGED vars
  PROVE  Same(u)
BY DEF HookStep, TakeHook, ResumeFails, Expire, vars, memory, log, history, Same

-----------------------------------------------------------------------------
(* Only one driver.                                                         *)

\* Past the last join no task of the trace is left.
Joined == {"storing", "storelog", "leaving", "finalize", "closing"}

(* The lock stands for the driver: an entry of the map has its arena open,  *)
(* and neither a driver nor a task exists while the file could be opened by *)
(* somebody else.  The file is released only after the last join.           *)
DriverAt(t) ==
  /\ t \in live => arena[t] = "locked"
  /\ phase[t] = "new" => arena[t] = "none"
  /\ phase[t] \in Busy => arena[t] # "file"
  /\ \A n \in Nodes : tasks[t][n] # "none" => arena[t] # "file" /\ phase[t] \notin Joined

DriverInv == TypeOK /\ \A t \in Traces : DriverAt(t)

LEMMA DriverFrame ==
  ASSUME NEW u \in Traces, DriverAt(u), Same(u)
  PROVE  DriverAt(u)'
BY DEF DriverAt, Same

LEMMA DriverDriver ==
  ASSUME TypeOK, NEW t \in Traces, DriverAt(t), DriverStep(t)
  PROVE  DriverAt(t)'
<1>1. CASE Spawn(t)
  <2>1. /\ \A n \in Nodes : tasks'[t][n] # "none" => n \in Ready(t) \cup Pending(t)
        /\ phase'[t] \in {"finalize", "join"} /\ phase[t] = "loop"
        /\ phase'[t] = "finalize" => Ready(t) \cup Pending(t) = {}
    BY <1>1 DEF Spawn, Goto, Pending, TypeOK
  <2>2. arena' = arena /\ live' = live
    BY <1>1 DEF Spawn
  <2> QED
    BY <2>1, <2>2 DEF DriverAt, Busy, Joined
<1>2. CASE Admit(t) \/ Insert(t) \/ Start(t) \/ SpawnMissing(t)
  <2>1. tasks' = tasks
    BY <1>2 DEF Admit, Insert, Start, SpawnMissing, WalError
  <2>2. /\ phase'[t] \in {"admitted", "inserted", "loop", "ended"}
        /\ phase[t] \in {"new", "admitted", "inserted", "loop"}
        /\ \/ phase[t] = "admitted" /\ arena'[t] = "locked"
           \/ UNCHANGED <<arena, live>>
    BY <1>2 DEF Admit, Insert, Start, SpawnMissing, WalError, Goto, TypeOK
  <2> QED
    BY <2>1, <2>2 DEF DriverAt, Busy, Joined
<1>3. CASE SuspendCheck(t)
  <2>1. /\ UNCHANGED <<tasks, arena, live>> /\ phase[t] = "drain"
        /\ \A n \in Nodes : tasks[t][n] = "none"
        /\ phase'[t] \in {"storing", "ended"}
    BY <1>3 DEF SuspendCheck, Pending, Goto, TypeOK
  <2> QED
    BY <2>1 DEF DriverAt, Busy
<1>4. CASE SuspendInsert(t) \/ SuspendLog(t) \/ FinalizeLog(t) \/ ResumeLog(t)
  <2>1. /\ UNCHANGED <<tasks, arena, live>>
        /\ phase[t] \in {"storing", "storelog", "finalize", "resumed"}
        /\ phase'[t] \in {"storelog", "leaving", "closing", "loop", "ended"}
        /\ phase'[t] \in Joined => phase[t] \in Joined
    BY <1>4 DEF SuspendInsert, SuspendLog, FinalizeLog, ResumeLog, WalError, Goto, TypeOK,
                Joined
  <2> QED
    BY <2>1 DEF DriverAt, Busy
<1>5. CASE SuspendLeave(t) \/ FinalizeLeave(t)
  <2>1. /\ UNCHANGED tasks /\ phase[t] \in Joined
        /\ phase'[t] \in {"suspended", "completed"} /\ t \notin live'
    BY <1>5 DEF SuspendLeave, FinalizeLeave, Goto, TypeOK, Joined
  <2> QED
    BY <2>1 DEF DriverAt, Busy, Joined
<1> QED
  BY <1>1, <1>2, <1>3, <1>4, <1>5 DEF DriverStep

LEMMA TaskDriver ==
  ASSUME TypeOK, NEW t \in Traces, NEW n \in Nodes, DriverAt(t),
         JoinStep(t, n) \/ TaskStep(t, n) \/ Cancel(t, n)
  PROVE  DriverAt(t)'
<1>1. tasks[t][n] # "none" /\ \A m \in Nodes : tasks'[t][m] # "none" => tasks[t][m] # "none"
  BY DEF JoinStep, JoinOutput, JoinFailure, JoinSuspend, Drain, TaskStep, Acquire,
         Execute, LogResult, Cancel, TypeOK
<1>2. CASE JoinFailure(t, n)
  <2>1. t \notin live' /\ phase'[t] = "ended" /\ arena'[t] \in {arena[t], "none"}
    BY <1>2 DEF JoinFailure, Goto, TypeOK
  <2> QED
    BY <1>1, <2>1 DEF DriverAt, Busy, Joined
<1>3. CASE ~JoinFailure(t, n)
  <2>1. /\ UNCHANGED <<arena, live>>
        /\ \/ phase' = phase
           \/ phase[t] = "join" /\ phase'[t] \in {"loop", "drain"}
    BY <1>3 DEF JoinStep, JoinOutput, JoinSuspend, Drain, TaskStep, Acquire,
         Execute, LogResult, Cancel, Goto, TypeOK
  <2> QED
    BY <1>1, <2>1 DEF DriverAt, Busy, Joined
<1> QED
  BY <1>2, <1>3

LEMMA ReenterDriver ==
  ASSUME TypeOK, NEW t \in Traces, DriverAt(t), ReenterStep(t) \/ VisitStep(t)
  PROVE  DriverAt(t)'
<1>1. CASE \E o : Reenter(t, o)
  <2>1. arena'[t] = "locked" /\ phase'[t] = "resumed" /\ tasks'[t] = NoTasks
    BY <1>1 DEF Reenter, Goto, TypeOK
  <2> QED
    BY <2>1 DEF DriverAt, NoTasks
<1>2. CASE VisitStep(t)
  <2>1. UNCHANGED <<tasks, arena, live>> /\ phase'[t] \in {"suspended", "lost"}
    BY <1>2 DEF VisitStep, RecoverSuspended, RecoverSkip, Goto, TypeOK
  <2> QED
    BY <2>1 DEF DriverAt, Busy, Joined
<1> QED
  BY <1>1, <1>2 DEF ReenterStep, RecoverResume, ResumeOpen

LEMMA DownDriver ==
  ASSUME TypeOK, NEW t \in Traces, DriverAt(t), Shutdown \/ Crash
  PROVE  DriverAt(t)'
<1>1. CASE Shutdown
  <2>1. /\ UNCHANGED <<tasks, phase>> /\ t \notin live'
        /\ arena'[t] \in {arena[t], "none"}
    BY <1>1 DEF Shutdown, TypeOK
  <2> QED
    BY <2>1 DEF DriverAt
<1>2. CASE Crash
  <2>1. /\ t \notin live' /\ tasks'[t] = NoTasks
        /\ phase'[t] \in {"new", "completed", "down"}
        /\ phase'[t] = "new" => phase[t] = "new" /\ arena'[t] = (IF arena[t] = "locked" THEN "file" ELSE arena[t])
    BY <1>2 DEF Crash, TypeOK
  <2> QED
    BY <2>1 DEF DriverAt, NoTasks, Busy
<1> QED
  BY <1>1, <1>2

LEMMA InitDriver == Init => DriverInv
<1>1. Init => \A t \in Traces : DriverAt(t)
  BY DEF Init, DriverAt, NoTasks, Busy
<1> QED
  BY <1>1, InitTypes DEF DriverInv

LEMMA StepDriver ==
  ASSUME DriverInv, [Next]_vars
  PROVE  DriverInv'
<1>1. TypeOK /\ TypeOK' /\ \A u \in Traces : DriverAt(u)
  BY StepTypes DEF DriverInv
<1>2. ASSUME NEW u \in Traces
      PROVE  DriverAt(u)'
  <2>1. CASE \E t \in Traces : DriverStep(t)
    BY <1>1, <2>1, DriverDriver, DriverSame, DriverFrame
  <2>2. CASE \E t \in Traces, n \in Nodes : JoinStep(t, n) \/ TaskStep(t, n) \/ Cancel(t, n)
    BY <1>1, <2>2, TaskDriver, TaskSame, DriverFrame
  <2>3. CASE \E t \in Traces : ReenterStep(t) \/ VisitStep(t)
    BY <1>1, <2>3, ReenterDriver, ReenterSame, DriverFrame
  <2>4. CASE HookStep \/ UNCHANGED vars
    BY <1>1, <2>4, HookSame, DriverFrame
  <2>5. CASE Shutdown \/ Crash
    BY <1>1, <2>5, DownDriver
  <2> QED
    BY <1>1, <2>1, <2>2, <2>3, <2>4, <2>5, StepCases
<1> QED
  BY <1>1, <1>2 DEF DriverInv

(***************************************************************************)
(* Only one task drives a trace: while resume_suspended_trace could open   *)
(* the arena of a trace, no execute_trace and no node task of that trace   *)
(* is left, however early the hook is answered, whatever write fails,      *)
(* through shutdowns and any number of crashes.                            *)
(***************************************************************************)
THEOREM OneDriver == Spec => []NoSecondDriver
<1>1. DriverInv => NoSecondDriver
  <2>1. TypeOK => \A r \in resuming : r.trace \in Traces
    BY DEF TypeOK
  <2> QED
    BY <2>1 DEF DriverInv, DriverAt, NoSecondDriver, Pending
<1>2. DriverInv /\ [Next]_vars => DriverInv'
  BY StepDriver
<1> QED
  BY <1>1, <1>2, InitDriver, PTL DEF Spec

-----------------------------------------------------------------------------
(* No branch is lost.                                                       *)

\* Every output, of a node or a decision, comes out on the default port.
SinglePort == (\A n \in Nodes : Outcomes[n] \cap Outputs \subseteq {"out"}) /\ Decisions \subseteq {"out"}

\* FlowGraph without a cycle: every set of nodes has one to begin with.
Acyclic == \A S \in SUBSET Nodes : S # {} => \E n \in S : Predecessors(n) \cap S = {}

Fresh == {"new", "admitted", "inserted"}

\* The nodes the default port of a predecessor can make ready.
Inputs == Entries \cup {n \in Nodes : \E e \in Edges : e.to = n /\ e.port = "out"}

(* In the loop, what this driver has spawned and joined is completed as     *)
(* long as the trace is in the map.  When the loop ends the completed nodes *)
(* are therefore closed under readiness; that they include everything an    *)
(* earlier driver executed follows from there, from the first lost node on. *)
BranchAt(t) ==
  /\ \A n \in Nodes : out[t][n] \in {"out", NoPort} /\ emitted[t][n] \in {"out", NoPort}
  /\ \A n \in Nodes : emitted[t][n] # NoPort => n \in ran[t]
  /\ \A n \in Nodes : tasks[t][n] # "none" \/ n \in ran[t] => n \in Inputs
  /\ \A n \in Nodes : result[t][n] \in Outputs => result[t][n] = "out"
  /\ phase[t] \in Fresh \cup {"resumed"} => spawned[t] = {}
  /\ phase[t] \in {"loop", "join"} /\ t \in live =>
        \A n \in spawned[t] : tasks[t][n] = "none" => out[t][n] # NoPort
  /\ phase[t] \in {"finalize", "closing", "completed"} =>
        \A n \in Nodes : tasks[t][n] = "none" /\ (Enabled(t, n) => n \in ran[t])

BranchInv == /\ OrderInv
             /\ \A r \in resuming : r.port = "out"
             /\ \A t \in Traces : BranchAt(t)

LEMMA BranchFrame ==
  ASSUME NEW u \in Traces, BranchAt(u), Same(u)
  PROVE  BranchAt(u)'
BY DEF BranchAt, Same, Enabled, Predecessors

\* The heart of the argument: the end of the loop.
LEMMA LoopEnds ==
  ASSUME Acyclic, TypeOK, NEW t \in Traces, BranchAt(t), OrderAt(t),
         phase[t] = "loop", t \in live, Ready(t) = {}, Pending(t) = {}
  PROVE  \A n \in Nodes : Enabled(t, n) => n \in ran[t]
<1>1. \A n \in spawned[t] : n \in Completed(t)
  BY DEF BranchAt, Pending, Completed, TypeOK
<1>2. \A n \in Nodes : IsNodeReady(t, n) => FALSE
  BY <1>1 DEF Ready, IsNodeReady
<1>3. \A n \in Nodes : n \in Completed(t) <=> out[t][n] = "out"
  <2>1. "out" # NoPort
    BY FlowAssumption DEF Results, Outputs
  <2> QED
    BY <2>1 DEF BranchAt, Completed
<1>4. \A e \in Edges : e.from \in Nodes /\ e.to \in Nodes /\ e.port \in Outputs
  BY FlowAssumption
<1>5. ran[t] \subseteq Completed(t)
  <2> DEFINE S == ran[t] \ Completed(t)
  <2> SUFFICES ASSUME S # {}
               PROVE  FALSE
    OBVIOUS
  <2>1. PICK n \in S : Predecessors(n) \cap S = {}
    BY DEF Acyclic, TypeOK
  <2>2. n \in Nodes /\ n \in ran[t] /\ n \notin Completed(t) /\ n \in Inputs
    BY <2>1 DEF TypeOK, BranchAt
  <2>3. CASE n \in Entries
    BY <1>2, <2>2, <2>3 DEF IsNodeReady
  <2>4. CASE n \notin Entries
    <3>1. Predecessors(n) \subseteq Completed(t)
      BY <2>1, <2>2, <2>4 DEF OrderAt
    <3>2. PICK e \in Edges : e.to = n /\ e.port = "out"
      BY <2>2, <2>4 DEF Inputs
    <3>3. e.from \in Predecessors(n)
      BY <3>2 DEF Predecessors
    <3>4. HasPendingInput(t, n)
      BY <1>3, <1>4, <3>1, <3>2, <3>3 DEF HasPendingInput
    <3> QED
      BY <1>2, <2>2, <3>1, <3>4 DEF IsNodeReady
  <2> QED
    BY <2>3, <2>4
<1>6. SUFFICES ASSUME NEW n \in Nodes, Enabled(t, n), n \notin ran[t]
               PROVE  FALSE
  OBVIOUS
<1>7. n \notin Completed(t) /\ n \notin Entries
  BY <1>2, <1>6 DEF OrderAt, IsNodeReady
<1>8. PICK e \in Edges : e.to = n /\ emitted[t][e.from] = e.port
  BY <1>6, <1>7 DEF Enabled
<1>9. Predecessors(n) \subseteq Completed(t)
  <2>1. Predecessors(n) \subseteq Nodes
    BY <1>4 DEF Predecessors
  <2> QED
    BY <1>5, <1>6, <1>7, <2>1 DEF Enabled, BranchAt
<1>10. e.from \in Predecessors(n)
  BY <1>8 DEF Predecessors
<1>11. e.port = "out"
  <2>1. e.port # NoPort
    BY <1>4, FlowAssumption DEF Results
  <2> QED
    BY <1>4, <1>8, <2>1 DEF BranchAt
<1>12. HasPendingInput(t, n)
  BY <1>3, <1>4, <1>8, <1>9, <1>10, <1>11 DEF HasPendingInput
<1> QED
  BY <1>2, <1>7, <1>9, <1>12 DEF IsNodeReady

LEMMA DriverBranch ==
  ASSUME Acyclic, TypeOK, NEW t \in Traces, BranchAt(t), OrderAt(t), DriverStep(t)
  PROVE  BranchAt(t)'
<1>1. UNCHANGED <<out, emitted, ran, result>>
  BY DEF DriverStep, Admit, Insert, Start, Spawn, SpawnMissing, SuspendCheck,
         SuspendInsert, SuspendLog, SuspendLeave, FinalizeLog, FinalizeLeave,
         ResumeLog, WalError, history
<1>2. \A n \in Nodes : Enabled(t, n)' <=> Enabled(t, n)
  BY <1>1 DEF Enabled, Predecessors
<1>3. CASE Spawn(t)
  <2>1. /\ \A n \in Nodes : tasks'[t][n] = IF n \in Ready(t) THEN "queued" ELSE tasks[t][n]
        /\ phase'[t] = (IF Ready(t) \cup Pending(t) = {} THEN "finalize" ELSE "join")
        /\ spawned'[t] = spawned[t] \cup Ready(t) /\ phase[t] = "loop" /\ t \in live
        /\ live' = live
    BY <1>3 DEF Spawn, Goto, TypeOK
  <2>2. Ready(t) \subseteq Inputs
    <3>1. SUFFICES ASSUME NEW n \in Nodes, HasPendingInput(t, n)
                   PROVE  n \in Inputs
      BY DEF Ready, IsNodeReady, Inputs
    <3>2. PICK e \in Edges : e.to = n /\ out[t][e.from] = e.port
      BY <3>1 DEF HasPendingInput
    <3>3. e.from \in Nodes /\ e.port # NoPort
      BY FlowAssumption DEF Results
    <3> QED
      BY <3>2, <3>3 DEF BranchAt, Inputs
  <2>3. CASE Ready(t) \cup Pending(t) = {}
    <3>1. \A n \in Nodes : tasks'[t][n] = "none" /\ (Enabled(t, n) => n \in ran[t])
      BY <2>1, <2>3, LoopEnds DEF Pending
    <3> QED
      BY <1>1, <1>2, <2>1, <2>3, <3>1 DEF BranchAt, Fresh
  <2>4. CASE Ready(t) \cup Pending(t) # {}
    <3>1. spawned[t] \subseteq Nodes /\ Ready(t) \subseteq Nodes /\ phase'[t] = "join"
      BY <2>1, <2>4 DEF TypeOK, Ready
    <3>2. \A n \in spawned'[t] : tasks'[t][n] = "none" => out'[t][n] # NoPort
      BY <1>1, <2>1, <3>1 DEF BranchAt
    <3>3. \A n \in Nodes : tasks'[t][n] # "none" \/ n \in ran'[t] => n \in Inputs
      BY <1>1, <2>1, <2>2 DEF BranchAt
    <3> QED
      BY <1>1, <3>1, <3>2, <3>3 DEF BranchAt, Fresh
  <2> QED
    BY <2>3, <2>4
<1>4. CASE ~Spawn(t)
  <2>1. UNCHANGED <<tasks, spawned>>
    BY <1>4 DEF DriverStep, Admit, Insert, Start, SpawnMissing, SuspendCheck,
         SuspendInsert, SuspendLog, SuspendLeave, FinalizeLog, FinalizeLeave,
         ResumeLog, WalError
  <2>2. /\ phase'[t] \in Fresh => phase[t] \in Fresh
        /\ phase'[t] \notin {"resumed", "join", "finalize"}
        /\ phase'[t] = "loop" => phase[t] \in Fresh \cup {"resumed"}
        /\ phase'[t] \in {"closing", "completed"} => phase[t] \in {"finalize", "closing"}
    BY <1>4 DEF DriverStep, Admit, Insert, Start, SpawnMissing, SuspendCheck,
         SuspendInsert, SuspendLog, SuspendLeave, FinalizeLog, FinalizeLeave,
         ResumeLog, WalError, Goto, TypeOK, Fresh
  <2> QED
    BY <1>1, <1>2, <2>1, <2>2 DEF BranchAt
<1> QED
  BY <1>3, <1>4

LEMMA TaskBranch ==
  ASSUME SinglePort, TypeOK, NEW t \in Traces, NEW n \in Nodes, BranchAt(t),
         JoinStep(t, n) \/ TaskStep(t, n) \/ Cancel(t, n)
  PROVE  BranchAt(t)'
<1>0. "out" # NoPort /\ "fail" \notin Outputs /\ NoPort \notin Outputs
  BY FlowAssumption DEF Results, Outputs, Unfinished
<1>1. CASE JoinStep(t, n)
  <2>1. /\ UNCHANGED <<emitted, ran, result, spawned>> /\ tasks[t][n] = "done"
        /\ \A m \in Nodes : tasks'[t][m] = IF m = n THEN "none" ELSE tasks[t][m]
        /\ live' \subseteq live
    BY <1>1 DEF JoinStep, JoinOutput, JoinFailure, JoinSuspend, Drain, TypeOK, history
  <2>2. /\ phase'[t] \in {"loop", "ended", "drain"} /\ phase[t] \in {"join", "drain"}
        /\ phase'[t] = "loop" => JoinOutput(t, n)
    BY <1>1 DEF JoinStep, JoinOutput, JoinFailure, JoinSuspend, Drain, Goto, TypeOK
  <2>3. \A m \in Nodes : out'[t][m] = out[t][m] \/ (out'[t][m] = result[t][m] /\ result[t][m] \in Outputs)
    BY <1>1 DEF JoinStep, JoinOutput, JoinFailure, JoinSuspend, Drain, RecordOutput, TypeOK
  <2>4. JoinOutput(t, n) /\ t \in live => out'[t][n] \in Outputs /\ phase[t] = "join"
    BY DEF JoinOutput, RecordOutput, TypeOK
  <2>5. \A m \in Nodes : out[t][m] # NoPort => out'[t][m] # NoPort
    BY <1>0, <2>3
  <2>6. \A m \in Nodes : out'[t][m] \in {"out", NoPort}
    BY <2>3 DEF BranchAt
  <2>7. phase'[t] \in {"loop", "join"} /\ t \in live' =>
          \A m \in spawned'[t] : tasks'[t][m] = "none" => out'[t][m] # NoPort
    <3>1. SUFFICES ASSUME phase'[t] = "loop", t \in live, NEW m \in spawned[t],
                          tasks'[t][m] = "none"
                   PROVE  out'[t][m] # NoPort
      BY <2>1, <2>2
    <3>2. m \in Nodes
      BY DEF TypeOK
    <3>3. CASE m = n
      BY <1>0, <2>2, <2>4, <3>1, <3>3
    <3>4. CASE m # n
      BY <2>1, <2>2, <2>4, <2>5, <3>1, <3>2, <3>4 DEF BranchAt
    <3> QED
      BY <3>3, <3>4
  <2> QED
    BY <2>1, <2>2, <2>6, <2>7 DEF BranchAt, Fresh
<1>2. CASE Acquire(t, n) \/ LogResult(t, n) \/ Cancel(t, n)
  <2>1. UNCHANGED <<emitted, ran, spawned, phase, live, out>> /\ tasks[t][n] # "none"
    BY <1>2 DEF Acquire, LogResult, Cancel, history
  <2>2. /\ \A m \in Nodes : m # n => tasks'[t][m] = tasks[t][m]
        /\ tasks'[t][n] = "none" => phase[t] = "ended"
        /\ \A m \in Nodes : result'[t][m] \in {result[t][m], "fail"}
    BY <1>2 DEF Acquire, LogResult, Cancel, TypeOK
  <2>3. \A m \in Nodes : Enabled(t, m)' <=> Enabled(t, m)
    BY <2>1 DEF Enabled, Predecessors
  <2>4. /\ \A m \in Nodes : tasks'[t][m] # "none" => tasks[t][m] # "none"
        /\ \A m \in Nodes : result'[t][m] \in Outputs => result'[t][m] = result[t][m]
    BY <1>0, <2>1, <2>2
  <2>5. phase[t] \in {"loop", "join"} =>
          \A m \in spawned[t] : tasks'[t][m] = "none" => tasks[t][m] = "none"
    BY <2>2 DEF TypeOK
  <2>6. phase[t] \notin {"finalize", "closing", "completed"}
    BY <2>1 DEF BranchAt
  <2> QED
    BY <2>1, <2>4, <2>5, <2>6 DEF BranchAt
<1>3. ASSUME NEW r \in Results, Execute(t, n, r)
      PROVE  BranchAt(t)'
  <2>1. UNCHANGED <<spawned, phase, live, out>> /\ tasks[t][n] = "running"
    BY <1>3 DEF Execute
  <2>2. /\ \A m \in Nodes : tasks'[t][m] = IF m = n THEN "ran" ELSE tasks[t][m]
        /\ \A m \in Nodes : result'[t][m] = IF m = n THEN r ELSE result[t][m]
        /\ ran'[t] = ran[t] \cup {n}
    BY <1>3 DEF Execute, TypeOK
  <2>3. r \in Outputs => r = "out"
    BY <1>3 DEF Execute, SinglePort
  <2>4. \A m \in Nodes : emitted'[t][m] = IF m = n /\ r \in Outputs THEN r ELSE emitted[t][m]
    BY <1>3 DEF Execute, TypeOK
  <2>5. phase[t] \notin {"finalize", "closing", "completed"} /\ n \in Inputs
    BY <2>1 DEF BranchAt
  <2>6. \A m \in spawned[t] : tasks'[t][m] = "none" => tasks[t][m] = "none"
    BY <2>2 DEF TypeOK
  <2>7. \A m \in Nodes : tasks'[t][m] # "none" \/ m \in ran'[t] => m \in Inputs
    BY <2>2, <2>5 DEF BranchAt
  <2>8. \A m \in Nodes : /\ emitted'[t][m] \in {"out", NoPort}
                         /\ emitted'[t][m] # NoPort => m \in ran'[t]
                         /\ result'[t][m] \in Outputs => result'[t][m] = "out"
    BY <2>2, <2>3, <2>4 DEF BranchAt
  <2> QED
    BY <2>1, <2>5, <2>6, <2>7, <2>8 DEF BranchAt
<1> QED
  BY <1>1, <1>2, <1>3 DEF TaskStep

LEMMA ReenterBranch ==
  ASSUME TypeOK, HooksOrdered, NEW t \in Traces, BranchAt(t),
         \A r \in resuming : r.port = "out",
         ReenterStep(t) \/ VisitStep(t)
  PROVE  BranchAt(t)'
<1>0. NoPort \notin Outputs /\ ran' = ran
  BY FlowAssumption DEF Results, ReenterStep, RecoverResume, ResumeOpen, VisitStep,
     RecoverSuspended, RecoverSkip, history
<1>1. CASE ReenterStep(t)
  <2>1. PICK o : /\ Reenter(t, o)
                 /\ \A n \in Nodes : o[n] \in {"out", NoPort}
    <3>1. CASE RecoverResume(t)
      BY <3>1 DEF RecoverResume, Restored
    <3>2. ASSUME NEW r \in resuming, r.trace = t, ResumeOpen(r)
          PROVE  \E o : Reenter(t, o) /\ \A n \in Nodes : o[n] \in {"out", NoPort}
      <4>1. \A n \in Nodes : [Restored(t) EXCEPT ![r.node] = r.port][n] \in {"out", NoPort}
        BY <3>2 DEF Restored
      <4> QED
        BY <3>2, <4>1 DEF ResumeOpen
    <3> QED
      BY <1>1, <3>1, <3>2 DEF ReenterStep
  <2>2. /\ out'[t] = o /\ tasks'[t] = NoTasks /\ result'[t] = NoOutputs
        /\ spawned'[t] = {} /\ phase'[t] = "resumed"
    BY <2>1 DEF Reenter, Goto, TypeOK
  <2>3. \A n \in Nodes : tasks'[t][n] = "none" /\ result'[t][n] = NoPort
    BY <2>2 DEF NoTasks, NoOutputs
  <2>4. \A n \in Nodes : \/ emitted'[t][n] = emitted[t][n]
                         \/ emitted'[t][n] = "out" /\ n \in ran[t]
    <3>1. CASE emitted' = emitted
      BY <3>1
    <3>2. ASSUME NEW r \in resuming, r.trace = t, ResumeOpen(r)
          PROVE  \A n \in Nodes : \/ emitted'[t][n] = emitted[t][n]
                                  \/ emitted'[t][n] = "out" /\ n \in ran[t]
      <4>1. r.node \in ran[t] /\ r.port = "out"
        BY <3>2 DEF HooksOrdered
      <4>2. emitted' = [emitted EXCEPT ![t][r.node] = "out"]
        BY <3>2, <4>1 DEF ResumeOpen
      <4> QED
        BY <4>1, <4>2 DEF TypeOK
    <3> QED
      BY <1>1, <3>1, <3>2 DEF ReenterStep, RecoverResume, history
  <2> QED
    BY <1>0, <2>1, <2>2, <2>3, <2>4 DEF BranchAt, Fresh
<1>2. CASE VisitStep(t)
  <2>1. /\ UNCHANGED <<out, emitted, ran, tasks, result>>
        /\ phase'[t] \in {"suspended", "lost"}
    BY <1>2 DEF VisitStep, RecoverSuspended, RecoverSkip, history, Goto, TypeOK
  <2> QED
    BY <2>1 DEF BranchAt, Fresh
<1> QED
  BY <1>1, <1>2

LEMMA DownBranch ==
  ASSUME TypeOK, NEW t \in Traces, BranchAt(t), Shutdown \/ Crash
  PROVE  BranchAt(t)'
<1>1. CASE Shutdown
  <2>1. /\ UNCHANGED <<out, emitted, ran, tasks, result, phase, spawned>> /\ t \notin live'
    BY <1>1 DEF Shutdown, history
  <2>2. \A n \in Nodes : Enabled(t, n)' <=> Enabled(t, n)
    BY <2>1 DEF Enabled, Predecessors
  <2> QED
    BY <2>1, <2>2 DEF BranchAt
<1>2. CASE Crash
  <2>1. /\ UNCHANGED <<emitted, ran>> /\ spawned'[t] = {}
        /\ \A n \in Nodes : out'[t][n] = NoPort /\ tasks'[t][n] = "none" /\ result'[t][n] = NoPort
        /\ phase'[t] \in {"new", "completed", "down"}
        /\ phase'[t] = "completed" => phase[t] = "completed"
    BY <1>2 DEF Crash, NoOutputs, NoTasks, history
  <2>2. \A n \in Nodes : Enabled(t, n)' <=> Enabled(t, n)
    BY <2>1 DEF Enabled, Predecessors
  <2>3. NoPort \notin Outputs
    BY FlowAssumption DEF Results
  <2> QED
    BY <2>1, <2>2, <2>3 DEF BranchAt
<1> QED
  BY <1>1, <1>2

\* Only decisions become ports of resumptions.
LEMMA BranchHooks ==
  ASSUME SinglePort, TypeOK, \A r \in resuming : r.port = "out", [Next]_vars
  PROVE  \A r \in resuming' : r.port = "out"
<1>1. CASE UNCHANGED vars
  BY <1>1 DEF vars, memory
<1>2. ASSUME NEW n \in Nodes, NEW port \in Decisions, TakeHook(n, port)
      PROVE  \A r \in resuming' : r.port = "out"
  <2>1. port = "out" /\ resuming' = resuming \cup {[trace |-> store[n], node |-> n, port |-> port]}
    BY <1>2 DEF TakeHook, SinglePort
  <2> QED
    BY <2>1
<1>3. ASSUME resuming' \subseteq resuming
      PROVE  \A r \in resuming' : r.port = "out"
  BY <1>3
<1>4. CASE \E t \in Traces : DriverStep(t) \/ VisitStep(t)
  BY <1>3, <1>4 DEF DriverStep, Admit, Insert, Start, Spawn, SpawnMissing, SuspendCheck,
     SuspendInsert, SuspendLog, SuspendLeave, FinalizeLog, FinalizeLeave, ResumeLog,
     WalError, VisitStep, RecoverSuspended, RecoverSkip
<1>5. CASE \E t \in Traces, n \in Nodes : JoinStep(t, n) \/ TaskStep(t, n) \/ Cancel(t, n)
  BY <1>3, <1>5 DEF JoinStep, JoinOutput, JoinFailure, JoinSuspend, Drain, TaskStep,
     Acquire, Execute, LogResult, Cancel
<1>6. CASE \E t \in Traces : ReenterStep(t)
  BY <1>3, <1>6 DEF ReenterStep, RecoverResume, ResumeOpen
<1>7. CASE (\E r \in resuming : ResumeFails(r)) \/ (\E n \in Nodes : Expire(n)) \/ Shutdown \/ Crash
  BY <1>3, <1>7 DEF ResumeFails, Expire, Shutdown, Crash
<1> QED
  BY <1>1, <1>2, <1>4, <1>5, <1>6, <1>7, StepCases DEF HookStep

LEMMA InitBranch == Init => BranchInv
<1> SUFFICES ASSUME Init
             PROVE  BranchInv
  OBVIOUS
<1>1. NoPort \notin Outputs
  BY FlowAssumption DEF Results
<1>2. \A t \in Traces : BranchAt(t)
  BY <1>1 DEF Init, BranchAt, NoTasks, NoOutputs, Enabled
<1> QED
  BY <1>2, InitOrder DEF BranchInv, Init

LEMMA StepBranch ==
  ASSUME Acyclic, SinglePort, BranchInv, [Next]_vars
  PROVE  BranchInv'
<1>1. /\ TypeOK /\ HooksOrdered /\ OrderInv'
      /\ \A u \in Traces : OrderAt(u) /\ BranchAt(u)
  BY StepOrder DEF BranchInv, OrderInv
<1>2. (\A r \in resuming : r.port = "out") /\ (\A r \in resuming' : r.port = "out")
  BY <1>1, BranchHooks DEF BranchInv
<1>3. ASSUME NEW u \in Traces
      PROVE  BranchAt(u)'
  <2>1. CASE \E t \in Traces : DriverStep(t)
    BY <1>1, <2>1, DriverBranch, DriverSame, BranchFrame
  <2>2. CASE \E t \in Traces, n \in Nodes : JoinStep(t, n) \/ TaskStep(t, n) \/ Cancel(t, n)
    BY <1>1, <2>2, TaskBranch, TaskSame, BranchFrame
  <2>3. CASE \E t \in Traces : ReenterStep(t) \/ VisitStep(t)
    BY <1>1, <1>2, <2>3, ReenterBranch, ReenterSame, BranchFrame
  <2>4. CASE HookStep \/ UNCHANGED vars
    BY <1>1, <2>4, HookSame, BranchFrame
  <2>5. CASE Shutdown \/ Crash
    BY <1>1, <2>5, DownBranch
  <2> QED
    BY <1>1, <2>1, <2>2, <2>3, <2>4, <2>5, StepCases
<1> QED
  BY <1>1, <1>2, <1>3 DEF BranchInv

(***************************************************************************)
(* No branch is lost in an acyclic flow whose nodes and decisions use the  *)
(* default port: finalize_trace declares a trace complete only when every  *)
(* node the flow enables has been executed, also when the records of a     *)
(* buffered log are lost in a crash, and whatever fails, is suspended or   *)
(* is shut down on the way.  (With other ports it is false: from_recovery  *)
(* restores every output on the default port.)                             *)
(***************************************************************************)
THEOREM BranchesKept ==
  ASSUME Acyclic, SinglePort
  PROVE  Spec => []NoBranchLost
<1>1. BranchInv => NoBranchLost
  BY DEF BranchInv, BranchAt, NoBranchLost
<1>2. BranchInv /\ [Next]_vars => BranchInv'
  BY StepBranch
<1> QED
  BY <1>1, <1>2, InitBranch, PTL DEF Spec

-----------------------------------------------------------------------------
(* The log is ahead of the flow.                                            *)

\* What completed is in the log if its node always logs.
Covered(t, S) == S \cap Logging \subseteq logged[t].done

(* As long as the log has the trace open, it has the completions of every   *)
(* logging node that readiness has been judged by: the outputs, the results *)
(* on their way to become outputs, and the predecessors of what has been    *)
(* spawned.  TraceStart empties the record, but nothing has happened yet.   *)
LogAt(t) ==
  /\ \A n \in Nodes : tasks[t][n] \in {"ran", "done"} => result[t][n] \in Outcomes[n] \cup {"fail"}
  /\ wait[t] \notin Logging /\ logged[t].suspended \notin Logging
  /\ phase[t] \in Fresh =>
       /\ ran[t] = {}
       /\ \A n \in Nodes : tasks[t][n] = "none" /\ out[t][n] = NoPort
  /\ logged[t].open =>
       /\ \A n \in Logging : out[t][n] # NoPort => n \in logged[t].done
       /\ \A n \in Nodes \ Entries : tasks[t][n] # "none" \/ n \in ran[t] =>
            Covered(t, Predecessors(n))
       /\ \A n \in Logging : tasks[t][n] = "done" /\ result[t][n] \in Outputs =>
            n \in logged[t].done

LogHooks == /\ \A n \in Nodes : store[n] # NoTrace => n \notin Logging
            /\ \A r \in resuming : r.node \notin Logging

LogInv == RerunInv /\ LogHooks /\ \A t \in Traces : LogAt(t)

LEMMA LogFrame ==
  ASSUME NEW u \in Traces, LogAt(u), Same(u)
  PROVE  LogAt(u)'
BY DEF LogAt, Same, Covered, Predecessors, Logging

\* Nodes that log return a port, fail or panic.
LEMMA LoggingFacts ==
  /\ Logging \subseteq Nodes /\ NoNode \notin Logging
  /\ NoPort \notin Outputs /\ "fail" \notin Outputs /\ "suspend" \notin Outputs
  /\ \A n \in Logging : "suspend" \notin Outcomes[n] /\ "error" \notin Outcomes[n]
BY FlowAssumption DEF Logging, Results, Outputs, Unfinished

\* The driver's records leave what is open open with the same completions.
LEMMA DriverLogs ==
  ASSUME TypeOK, NEW t \in Traces, DriverStep(t), phase[t] # "inserted"
  PROVE  /\ logged'[t].open => logged[t].open /\ logged'[t].done = logged[t].done
         /\ logged'[t].suspended \in {logged[t].suspended, wait[t], NoNode}
<1>1. logged \in Logs /\ logged[t] \in Replayed
  BY DEF TypeOK, Logs
<1>2. \/ logged' = logged
      \/ logged' \in {WithComplete(t), WithResumed(t), WithSuspended(t, wait[t])}
  BY DEF DriverStep, Admit, Insert, Start, Spawn, SpawnMissing, SuspendCheck,
         SuspendInsert, SuspendLog, SuspendLeave, FinalizeLog, FinalizeLeave,
         ResumeLog, WalError, Append, log
<1>3. ASSUME NEW rec \in {Unlogged, [logged[t] EXCEPT !.suspended = NoNode],
                          [logged[t] EXCEPT !.suspended = wait[t]]},
             logged' = Apply(t, rec)
      PROVE  /\ logged'[t].open => logged[t].open /\ logged'[t].done = logged[t].done
             /\ logged'[t].suspended \in {logged[t].suspended, wait[t], NoNode}
  <2>1. logged'[t] = IF logged[t].open THEN rec ELSE logged[t]
    BY <1>1, <1>3 DEF Apply, Logs
  <2> QED
    BY <1>1, <2>1 DEF Replayed, Unlogged
<1> QED
  BY <1>2, <1>3 DEF WithComplete, WithResumed, WithSuspended

LEMMA DriverLog ==
  ASSUME TypeOK, NEW t \in Traces, LogAt(t), DriverStep(t)
  PROVE  LogAt(t)'
<1>1. UNCHANGED <<out, ran, result, wait>>
  BY DEF DriverStep, Admit, Insert, Start, Spawn, SpawnMissing, SuspendCheck,
         SuspendInsert, SuspendLog, SuspendLeave, FinalizeLog, FinalizeLeave,
         ResumeLog, WalError, history
<1>2. phase'[t] \in Fresh => phase[t] \in Fresh
  BY DEF DriverStep, Admit, Insert, Start, Spawn, SpawnMissing, SuspendCheck,
         SuspendInsert, SuspendLog, SuspendLeave, FinalizeLog, FinalizeLeave,
         ResumeLog, WalError, Goto, TypeOK, Fresh
<1>3. CASE Start(t)
  <2>1. tasks' = tasks /\ phase[t] \in Fresh
    BY <1>3 DEF Start, WalError, Fresh
  <2>2. logged'[t].suspended \in {logged[t].suspended, NoNode}
    BY <1>3 DEF Start, WalError, Append, WithStart, Unlogged, log, TypeOK
  <2>3. ran[t] = {} /\ \A n \in Nodes : tasks[t][n] = "none" /\ out[t][n] = NoPort
    BY <2>1 DEF LogAt
  <2> QED
    BY <1>1, <1>2, <2>1, <2>2, <2>3, LoggingFacts DEF LogAt
<1>4. CASE Spawn(t)
  <2>1. /\ logged' = logged /\ phase'[t] \notin Fresh
        /\ \A n \in Nodes : tasks'[t][n] = IF n \in Ready(t) THEN "queued" ELSE tasks[t][n]
    BY <1>4 DEF Spawn, log, Goto, TypeOK, Fresh
  <2>2. \A n \in Ready(t) \ Entries : Predecessors(n) \subseteq Completed(t)
    BY DEF Ready, IsNodeReady
  <2>3. ASSUME logged[t].open, NEW n \in Nodes \ Entries, tasks'[t][n] # "none" \/ n \in ran[t]
        PROVE  Predecessors(n) \cap Logging \subseteq logged[t].done
    <3>1. CASE n \in Ready(t)
      BY <2>2, <2>3, <3>1, LoggingFacts DEF LogAt, Completed
    <3>2. CASE n \notin Ready(t)
      BY <2>1, <2>3, <3>2 DEF LogAt, Covered
    <3> QED
      BY <3>1, <3>2
  <2> QED
    BY <1>1, <2>1, <2>3, LoggingFacts DEF LogAt, Covered, Predecessors, Logging
<1>5. CASE ~Start(t) /\ ~Spawn(t)
  <2>1. tasks' = tasks /\ (phase[t] = "inserted" => FALSE)
    BY <1>5 DEF DriverStep, Admit, Insert, SpawnMissing, SuspendCheck,
         SuspendInsert, SuspendLog, SuspendLeave, FinalizeLog, FinalizeLeave,
         ResumeLog, WalError
  <2>2. /\ logged'[t].open => logged[t].open /\ logged'[t].done = logged[t].done
        /\ logged'[t].suspended \notin Logging
    BY <2>1, DriverLogs, LoggingFacts DEF LogAt
  <2> QED
    BY <1>1, <1>2, <2>1, <2>2 DEF LogAt, Covered, Predecessors, Logging
<1> QED
  BY <1>3, <1>4, <1>5

LEMMA TaskLog ==
  ASSUME TypeOK, NEW t \in Traces, NEW n \in Nodes, LogAt(t),
         JoinStep(t, n) \/ TaskStep(t, n) \/ Cancel(t, n)
  PROVE  LogAt(t)'
<1>0. tasks[t][n] # "none" /\ phase[t] \notin Fresh
  <2>1. tasks[t][n] # "none"
    BY DEF JoinStep, JoinOutput, JoinFailure, JoinSuspend, Drain, TaskStep, Acquire,
         Execute, LogResult, Cancel
  <2> QED
    BY <2>1 DEF LogAt
<1>1. CASE JoinStep(t, n)
  <2>1. /\ UNCHANGED <<ran, result, logged>> /\ tasks[t][n] = "done"
        /\ \A m \in Nodes : tasks'[t][m] = IF m = n THEN "none" ELSE tasks[t][m]
        /\ phase'[t] \notin Fresh
    BY <1>1 DEF JoinStep, JoinOutput, JoinFailure, JoinSuspend, Drain, TypeOK, log, history,
         Goto, Fresh
  <2>2. \A m \in Nodes : out'[t][m] # out[t][m] => m = n /\ result[t][n] \in Outputs
    BY <1>1 DEF JoinStep, JoinOutput, JoinFailure, JoinSuspend, Drain, RecordOutput, TypeOK
  <2>3. wait'[t] = wait[t] \/ (wait'[t] = n /\ result[t][n] = "suspend")
    BY <1>1 DEF JoinStep, JoinOutput, JoinFailure, JoinSuspend, Drain, TypeOK
  <2>4. wait'[t] \notin Logging
    BY <2>1, <2>3, LoggingFacts DEF LogAt
  <2>5. logged[t].open => \A m \in Logging : out'[t][m] # NoPort => m \in logged[t].done
    BY <2>1, <2>2, LoggingFacts DEF LogAt
  <2> QED
    BY <2>1, <2>4, <2>5, LoggingFacts DEF LogAt, Covered, Predecessors, Logging
<1>2. CASE Acquire(t, n) \/ Cancel(t, n)
  <2>1. /\ UNCHANGED <<ran, result, logged, out, wait, phase>>
        /\ \A m \in Nodes : \/ tasks'[t][m] = tasks[t][m]
                            \/ m = n /\ tasks'[t][m] \in {"none", "running"}
    BY <1>2 DEF Acquire, Cancel, TypeOK, log, history
  <2>2. /\ \A m \in Nodes : tasks'[t][m] \in {"ran", "done"} => tasks'[t][m] = tasks[t][m]
        /\ \A m \in Nodes : tasks'[t][m] # "none" => tasks[t][m] # "none"
    BY <1>0, <2>1
  <2> QED
    BY <1>0, <2>1, <2>2, LoggingFacts DEF LogAt, Covered, Predecessors, Logging
<1>3. ASSUME NEW r \in Results, Execute(t, n, r)
      PROVE  LogAt(t)'
  <2>1. /\ UNCHANGED <<phase, out, wait, logged>> /\ r \in Outcomes[n]
        /\ \A m \in Nodes : tasks'[t][m] = IF m = n THEN "ran" ELSE tasks[t][m]
        /\ \A m \in Nodes : result'[t][m] = IF m = n THEN r ELSE result[t][m]
        /\ ran'[t] = ran[t] \cup {n}
    BY <1>3 DEF Execute, TypeOK, log
  <2>2. logged[t].open => \A m \in Nodes \ Entries : tasks'[t][m] # "none" \/ m \in ran'[t] =>
            Covered(t, Predecessors(m))
    BY <1>0, <2>1 DEF LogAt
  <2>3. logged[t].open => \A m \in Logging : tasks'[t][m] = "done" /\ result'[t][m] \in Outputs =>
            m \in logged[t].done
    BY <2>1, LoggingFacts DEF LogAt
  <2> QED
    BY <1>0, <2>1, <2>2, <2>3 DEF LogAt, Covered, Predecessors, Logging
<1>4. CASE LogResult(t, n)
  <2>1. /\ UNCHANGED <<phase, out, wait, ran>> /\ tasks[t][n] = "ran"
        /\ \A m \in Nodes : tasks'[t][m] = IF m = n THEN "done" ELSE tasks[t][m]
        /\ \A m \in Nodes : m # n => result'[t][m] = result[t][m]
        /\ result'[t][n] \in {result[t][n], "fail"}
    BY <1>4 DEF LogResult, TypeOK, history
  <2>2. logged' = logged \/ logged' = WithDone(t, n)
    BY <1>4 DEF LogResult, Append, log
  <2>3. /\ logged'[t].open = logged[t].open /\ logged'[t].suspended = logged[t].suspended
        /\ logged[t].done \subseteq logged'[t].done
    BY <2>2 DEF WithDone, Apply, TypeOK, Replayed
  <2>4. ASSUME logged'[t].open, n \in Logging, result'[t][n] \in Outputs
        PROVE  n \in logged'[t].done
    <3>1. result[t][n] \in Ports
      BY <2>1, <2>4, LoggingFacts DEF LogAt, Outputs
    <3>2. result'[t][n] # "fail"
      BY <2>4, LoggingFacts
    <3>3. logged' = WithDone(t, n)
      BY <1>4, <3>1, <3>2 DEF LogResult, Append, TypeOK
    <3> QED
      BY <2>3, <2>4, <3>3 DEF WithDone, Apply, TypeOK, Replayed
  <2>5. \A m \in Nodes : tasks'[t][m] \in {"ran", "done"} => result'[t][m] \in Outcomes[m] \cup {"fail"}
    BY <2>1 DEF LogAt
  <2>6. logged'[t].open => \A m \in Logging : out'[t][m] # NoPort => m \in logged'[t].done
    BY <2>1, <2>3, LoggingFacts DEF LogAt
  <2>7. logged'[t].open => \A m \in Nodes \ Entries : tasks'[t][m] # "none" \/ m \in ran'[t] =>
            Predecessors(m) \cap Logging \subseteq logged'[t].done
    BY <2>1, <2>3 DEF LogAt, Covered
  <2>8. logged'[t].open => \A m \in Logging : tasks'[t][m] = "done" /\ result'[t][m] \in Outputs =>
            m \in logged'[t].done
    BY <2>1, <2>3, <2>4, LoggingFacts DEF LogAt
  <2> QED
    BY <1>0, <2>1, <2>3, <2>5, <2>6, <2>7, <2>8 DEF LogAt, Covered, Predecessors, Logging
<1> QED
  BY <1>1, <1>2, <1>3, <1>4 DEF TaskStep

LEMMA ReenterLog ==
  ASSUME TypeOK, flushed = logged, LogHooks, NEW t \in Traces, LogAt(t),
         ReenterStep(t) \/ VisitStep(t)
  PROVE  LogAt(t)'
<1>1. UNCHANGED <<logged, ran>>
  BY DEF ReenterStep, RecoverResume, ResumeOpen, VisitStep, RecoverSuspended,
         RecoverSkip, log, history
<1>2. CASE ReenterStep(t)
  <2>1. PICK o : /\ Reenter(t, o)
                 /\ \A n \in Logging : o[n] # NoPort => n \in logged[t].done
    <3>1. \A n \in Logging : Restored(t)[n] # NoPort => n \in logged[t].done
      BY LoggingFacts DEF Restored
    <3>2. ASSUME NEW r \in resuming, r.trace = t, ResumeOpen(r)
          PROVE  \E o : Reenter(t, o) /\ \A n \in Logging : o[n] # NoPort => n \in logged[t].done
      <4>1. r.node \notin Logging /\ Restored(t) \in [Nodes -> Outputs \cup {NoPort}]
        BY RestoredTypes DEF LogHooks
      <4>2. \A n \in Logging : [Restored(t) EXCEPT ![r.node] = r.port][n] = Restored(t)[n]
        BY <4>1, LoggingFacts
      <4> QED
        BY <3>1, <3>2, <4>2 DEF ResumeOpen
    <3> QED
      BY <1>2, <3>1, <3>2 DEF ReenterStep, RecoverResume
  <2>2. out'[t] = o /\ tasks'[t] = NoTasks /\ wait'[t] = NoNode /\ phase'[t] = "resumed"
    BY <2>1 DEF Reenter, Goto, TypeOK
  <2>3. \A n \in Nodes : tasks'[t][n] = "none"
    BY <2>2 DEF NoTasks
  <2> QED
    BY <1>1, <2>1, <2>2, <2>3, LoggingFacts DEF LogAt, Fresh, Covered, Predecessors, Logging
<1>3. CASE VisitStep(t)
  <2>1. /\ UNCHANGED <<out, tasks, result, wait>>
        /\ phase'[t] \in {"suspended", "lost"}
    BY <1>3 DEF VisitStep, RecoverSuspended, RecoverSkip, Goto, TypeOK
  <2> QED
    BY <1>1, <2>1 DEF LogAt, Fresh, Covered, Predecessors, Logging
<1> QED
  BY <1>2, <1>3

LEMMA DownLog ==
  ASSUME TypeOK, flushed = logged, NEW t \in Traces, LogAt(t), Shutdown \/ Crash
  PROVE  LogAt(t)'
<1>1. CASE Shutdown
  <2>1. UNCHANGED <<out, ran, tasks, result, phase, wait, logged>>
    BY <1>1 DEF Shutdown, log, history
  <2> QED
    BY <2>1 DEF LogAt, Covered, Predecessors, Logging
<1>2. CASE Crash
  <2>1. /\ UNCHANGED <<ran, logged>> /\ wait'[t] = NoNode
        /\ \A n \in Nodes : out'[t][n] = NoPort /\ tasks'[t][n] = "none"
        /\ phase'[t] \in Fresh => phase[t] \in Fresh
    BY <1>2 DEF Crash, NoOutputs, NoTasks, history, Fresh
  <2> QED
    BY <2>1, LoggingFacts DEF LogAt, Covered, Predecessors, Logging
<1> QED
  BY <1>1, <1>2

LEMMA HooksLog ==
  ASSUME TypeOK, LogHooks, \A t \in Traces : LogAt(t), [Next]_vars
  PROVE  LogHooks'
<1>0. NoNode \notin Nodes
  BY FlowAssumption
<1>1. CASE UNCHANGED <<store, resuming>>
  BY <1>1 DEF LogHooks, Logging
<1>2. CASE \E t \in Traces : DriverStep(t)
  <2>1. PICK t \in Traces : DriverStep(t)
    BY <1>2
  <2>2. resuming' = resuming /\ \A n \in Nodes : store'[n] = store[n] \/ n = wait[t]
    BY <2>1 DEF DriverStep, Admit, Insert, Start, Spawn, SpawnMissing, SuspendCheck,
         SuspendInsert, SuspendLog, SuspendLeave, FinalizeLog, FinalizeLeave,
         ResumeLog, WalError, TypeOK
  <2> QED
    BY <2>2 DEF LogHooks, LogAt, Logging
<1>3. CASE \E t \in Traces : ReenterStep(t) \/ VisitStep(t)
  <2>1. PICK t \in Traces : ReenterStep(t) \/ VisitStep(t)
    BY <1>3
  <2>2. /\ resuming' \subseteq resuming
        /\ \A n \in Nodes : store'[n] = store[n] \/ n = logged[t].suspended
    BY <2>1 DEF ReenterStep, RecoverResume, ResumeOpen, VisitStep, RecoverSuspended,
         RecoverSkip, TypeOK
  <2> QED
    BY <2>2 DEF LogHooks, LogAt, Logging
<1>4. CASE \E t \in Traces, n \in Nodes : JoinStep(t, n) \/ TaskStep(t, n) \/ Cancel(t, n)
  BY <1>1, <1>4 DEF JoinStep, JoinOutput, JoinFailure, JoinSuspend, Drain, TaskStep,
     Acquire, Execute, LogResult, Cancel
<1>5. CASE HookStep
  <2>1. \A n \in Nodes : store'[n] = store[n] \/ store'[n] = NoTrace
    BY <1>5 DEF HookStep, TakeHook, ResumeFails, Expire, TypeOK
  <2>2. ASSUME NEW r \in resuming'
        PROVE  r \in resuming \/ \E n \in Nodes : r.node = n /\ store[n] # NoTrace
    BY <1>5 DEF HookStep, TakeHook, ResumeFails, Expire
  <2> QED
    BY <2>1, <2>2 DEF LogHooks, Logging
<1>6. CASE Shutdown \/ Crash
  BY <1>1, <1>6 DEF Shutdown, Crash, LogHooks
<1> QED
  BY <1>1, <1>2, <1>3, <1>4, <1>5, <1>6, StepCases DEF vars, memory

LEMMA InitLog == Init => LogInv
<1> SUFFICES ASSUME Init
             PROVE  LogInv
  OBVIOUS
<1>1. \A t \in Traces : LogAt(t)
  BY LoggingFacts DEF Init, LogAt, NoTasks, NoOutputs, Unlogged
<1>2. LogHooks
  BY DEF Init, LogHooks
<1> QED
  BY <1>1, <1>2, InitRerun DEF LogInv

LEMMA StepLog ==
  ASSUME LogBuffered = FALSE, LogInv, [Next]_vars
  PROVE  LogInv'
<1>1. TypeOK /\ flushed = logged /\ LogHooks /\ RerunInv' /\ \A u \in Traces : LogAt(u)
  BY StepRerun DEF LogInv, RerunInv
<1>2. LogHooks'
  BY <1>1, HooksLog
<1>3. ASSUME NEW u \in Traces
      PROVE  LogAt(u)'
  <2>1. CASE \E t \in Traces : DriverStep(t)
    BY <1>1, <2>1, DriverLog, DriverSame, LogFrame
  <2>2. CASE \E t \in Traces, n \in Nodes : JoinStep(t, n) \/ TaskStep(t, n) \/ Cancel(t, n)
    BY <1>1, <2>2, TaskLog, TaskSame, LogFrame
  <2>3. CASE \E t \in Traces : ReenterStep(t) \/ VisitStep(t)
    BY <1>1, <2>3, ReenterLog, ReenterSame, LogFrame
  <2>4. CASE HookStep \/ UNCHANGED vars
    BY <1>1, <2>4, HookSame, LogFrame
  <2>5. CASE Shutdown \/ Crash
    BY <1>1, <2>5, DownLog
  <2> QED
    BY <1>1, <2>1, <2>2, <2>3, <2>4, <2>5, StepCases
<1> QED
  BY <1>1, <1>2, <1>3 DEF LogInv

(***************************************************************************)
(* "The WAL records node completions before execution continues": when     *)
(* every record is in the log files before the write returns, the log      *)
(* knows the logging predecessors of every executed node, or holds the     *)
(* trace for ended, in every flow, through failed writes, suspensions,     *)
(* shutdowns and any number of crashes.                                    *)
(***************************************************************************)
THEOREM LogAhead ==
  ASSUME LogBuffered = FALSE
  PROVE  Spec => []LoggedBeforeSuccessor
<1>1. LogInv => LoggedBeforeSuccessor
  <2>1. TypeOK => \A t \in Traces : ran[t] \subseteq Nodes
    BY DEF TypeOK
  <2> QED
    BY <2>1 DEF LogInv, RerunInv, LogAt, Covered, LoggedBeforeSuccessor
<1>2. LogInv /\ [Next]_vars => LogInv'
  BY StepLog
<1> QED
  BY <1>1, <1>2, InitLog, PTL DEF Spec

-----------------------------------------------------------------------------
(* Without a crash, no node is executed twice.                              *)

\* One node may suspend; the others complete, on whatever port.
OneWaitNode ==
  \E w \in Nodes \cup {NoNode} :
    \A n \in Nodes : Outcomes[n] \subseteq IF n = w THEN Ports \cup {"suspend"} ELSE Ports

Waiting == {n \in Nodes : "suspend" \in Outcomes[n]}

(* A node is spawned if it is neither completed in the trace's state nor    *)
(* spawned by this driver, so these two have to cover what was executed.    *)
(* For a state rebuilt from the log that is so because the log covers it,   *)
(* up to the wait node, which the decision completes, and up to tasks that  *)
(* have not logged yet, of which none is left when the file can be opened.  *)
OnceAt(t) ==
  /\ reran[t] = {}
  /\ \A n \in Nodes : tasks[t][n] \in {"queued", "running"} => n \notin ran[t]
  /\ \A n \in Nodes : tasks[t][n] \in {"ran", "done"} => result[t][n] \in Outcomes[n]
  /\ phase[t] \in Fresh => ran[t] = {} /\ \A n \in Nodes : tasks[t][n] = "none"
  /\ phase[t] \in Driving => ran[t] \subseteq spawned[t] \cup Completed(t)
  /\ phase[t] \in Driving \ {"closing"} => logged[t].open
  /\ arena[t] = "file" => logged[t].open
  /\ logged[t].open => \A n \in ran[t] : n \in logged[t].done \cup Waiting \/ tasks[t][n] = "ran"
  /\ wait[t] \in Waiting \cup {NoNode}

OnceHooks == /\ recovering = {}
             /\ \A n \in Nodes : store[n] # NoTrace => n \in Waiting
             /\ \A r \in resuming : r.node \in Waiting

OnceInv == /\ RerunInv /\ DriverInv
           /\ crashes = 0 => OnceHooks /\ \A t \in Traces : OnceAt(t)

LEMMA OnceFrame ==
  ASSUME NEW u \in Traces, OnceAt(u), Same(u)
  PROVE  OnceAt(u)'
BY DEF OnceAt, Same, Completed, Waiting

LEMMA WaitingFacts ==
  ASSUME OneWaitNode
  PROVE  /\ \A m, n \in Waiting : m = n
         /\ \A n \in Nodes : Outcomes[n] \subseteq Ports \cup {"suspend"}
         /\ \A n \in Nodes \ Waiting : Outcomes[n] \subseteq Ports
         /\ Waiting \subseteq Nodes /\ NoNode \notin Waiting
         /\ "suspend" \notin Ports /\ "fail" \notin Ports /\ "panic" \notin Ports
         /\ Ports \subseteq Outputs /\ NoPort \notin Outputs
<1>1. /\ "suspend" \notin Ports /\ "fail" \notin Ports /\ "panic" \notin Ports
      /\ Ports \subseteq Outputs /\ NoPort \notin Outputs
  BY FlowAssumption DEF Unfinished, Outputs, Results
<1> QED
  BY <1>1, FlowAssumption DEF OneWaitNode, Waiting

LEMMA DriverOnce ==
  ASSUME WalFails = FALSE, TypeOK, NEW t \in Traces, RerunAt(t), DriverAt(t), OnceAt(t),
         DriverStep(t)
  PROVE  OnceAt(t)'
<1>1. UNCHANGED <<out, ran, reran, result, wait>>
  BY DEF DriverStep, Admit, Insert, Start, Spawn, SpawnMissing, SuspendCheck,
         SuspendInsert, SuspendLog, SuspendLeave, FinalizeLog, FinalizeLeave,
         ResumeLog, WalError, history
<1>2. CASE Admit(t) \/ Insert(t)
  <2>1. /\ UNCHANGED <<tasks, logged, spawned>> /\ phase[t] \in Fresh
        /\ phase'[t] \in Fresh /\ phase'[t] \notin Driving
        /\ arena'[t] = "file" => arena[t] = "file"
    BY <1>2 DEF Admit, Insert, Goto, TypeOK, Fresh, Driving, log
  <2> QED
    BY <1>1, <2>1 DEF OnceAt, Completed, Waiting
<1>3. CASE Start(t)
  <2>1. UNCHANGED <<tasks, spawned, arena>> /\ phase[t] \in Fresh /\ phase'[t] = "loop"
    BY <1>3 DEF Start, WalError, Goto, TypeOK, Fresh
  <2>2. logged'[t].open
    BY <1>3 DEF Start, WalError, Append, WithStart, Unlogged, TypeOK
  <2>3. ran[t] = {}
    BY <2>1 DEF OnceAt
  <2> QED
    BY <1>1, <2>1, <2>2, <2>3 DEF OnceAt, Fresh, Waiting
<1>4. CASE Spawn(t)
  <2>1. /\ UNCHANGED <<logged, arena>> /\ phase[t] = "loop" /\ phase'[t] \in {"join", "finalize"}
        /\ \A n \in Nodes : tasks'[t][n] = IF n \in Ready(t) THEN "queued" ELSE tasks[t][n]
        /\ spawned'[t] = spawned[t] \cup Ready(t)
    BY <1>4 DEF Spawn, Goto, TypeOK, log
  <2>2. phase[t] \in Driving \ {"closing"}
    BY <2>1 DEF Driving, Busy
  <2>3. \A n \in Ready(t) : n \notin ran[t]
    BY <2>2 DEF OnceAt, Ready, IsNodeReady
  <2>4. \A n \in Nodes : tasks[t][n] = "ran" => n \notin Ready(t)
    <3>1. \A n \in Nodes : tasks[t][n] # "none" => n \in spawned[t]
      BY DEF RerunAt
    <3> QED
      BY <3>1 DEF Ready
  <2>5. logged[t].open => \A n \in ran[t] : n \in logged[t].done \cup Waiting \/ tasks'[t][n] = "ran"
    BY <2>1, <2>4 DEF OnceAt, TypeOK
  <2> QED
    BY <1>1, <2>1, <2>2, <2>3, <2>5 DEF OnceAt, Completed, Fresh, Waiting
<1>5. CASE SpawnMissing(t) \/ SuspendCheck(t) \/ SuspendInsert(t)
  <2>1. /\ UNCHANGED <<tasks, logged, spawned, arena>> /\ phase[t] \in Driving \ {"closing"}
        /\ phase'[t] \notin Fresh
    BY <1>5 DEF SpawnMissing, SuspendCheck, SuspendInsert, Goto, TypeOK, Fresh, Driving, Busy, log
  <2> QED
    BY <1>1, <2>1 DEF OnceAt, Completed, Waiting
<1>6. CASE SuspendLog(t) \/ ResumeLog(t)
  <2>1. /\ UNCHANGED <<tasks, spawned, arena>> /\ phase[t] \in Driving \ {"closing"}
        /\ phase'[t] \notin Fresh
        /\ logged' \in {WithSuspended(t, wait[t]), WithResumed(t)}
    BY <1>6 DEF SuspendLog, ResumeLog, WalError, Append, Goto, TypeOK, Fresh, Driving, Busy
  <2>2. logged[t].open
    BY <2>1 DEF OnceAt
  <2>3. logged'[t].open /\ logged'[t].done = logged[t].done
    BY <2>1, <2>2 DEF WithSuspended, WithResumed, Apply, TypeOK, Replayed
  <2> QED
    BY <1>1, <2>1, <2>2, <2>3 DEF OnceAt, Completed, Waiting
<1>7. CASE SuspendLeave(t) \/ FinalizeLeave(t)
  <2>1. /\ UNCHANGED <<tasks, spawned, logged>>
        /\ phase'[t] \notin Fresh \cup Driving
        /\ arena'[t] = "file" => arena[t] = "file" \/ phase[t] = "leaving"
    BY <1>7 DEF SuspendLeave, FinalizeLeave, Goto, TypeOK, Fresh, Driving, Busy, log
  <2>2. phase[t] = "leaving" => logged[t].open
    BY DEF OnceAt, Driving, Busy
  <2> QED
    BY <1>1, <2>1, <2>2 DEF OnceAt, Completed, Waiting
<1>8. CASE FinalizeLog(t)
  <2>1. /\ UNCHANGED <<tasks, spawned, arena>> /\ phase[t] = "finalize" /\ phase'[t] = "closing"
        /\ logged' = WithComplete(t)
    BY <1>8 DEF FinalizeLog, WalError, Append, Goto, TypeOK
  <2>2. ~logged'[t].open
    BY <2>1 DEF WithComplete, Apply, Unlogged, TypeOK, Replayed
  <2>3. arena[t] # "file" /\ phase[t] \in Driving
    BY <2>1 DEF DriverAt, Busy, Driving
  <2> QED
    BY <1>1, <2>1, <2>2, <2>3 DEF OnceAt, Completed, Fresh, Waiting
<1> QED
  BY <1>2, <1>3, <1>4, <1>5, <1>6, <1>7, <1>8 DEF DriverStep

LEMMA TaskOnce ==
  ASSUME WalFails = FALSE, OneWaitNode, TypeOK, NEW t \in Traces, NEW n \in Nodes,
         RerunAt(t), OnceAt(t),
         JoinStep(t, n) \/ TaskStep(t, n) \/ Cancel(t, n)
  PROVE  OnceAt(t)'
<1>1. CASE JoinStep(t, n)
  <2>1. /\ UNCHANGED <<ran, reran, result, spawned, logged>> /\ tasks[t][n] = "done"
        /\ \A m \in Nodes : tasks'[t][m] = IF m = n THEN "none" ELSE tasks[t][m]
        /\ arena'[t] = "file" => arena[t] = "file"
    BY <1>1 DEF JoinStep, JoinOutput, JoinFailure, JoinSuspend, Drain, TypeOK, log, history
  <2>2. phase[t] \in Driving \ {"closing"} /\ phase'[t] \notin Fresh
    BY <1>1 DEF JoinStep, JoinOutput, JoinFailure, JoinSuspend, Drain, TypeOK, Goto,
         Fresh, Driving, Busy
  <2>3. \A m \in Nodes : out'[t][m] # out[t][m] => out'[t][m] \in Outputs
    BY <1>1 DEF JoinStep, JoinOutput, JoinFailure, JoinSuspend, Drain, RecordOutput, TypeOK
  <2>4. wait'[t] = wait[t] \/ (wait'[t] = n /\ result[t][n] = "suspend")
    BY <1>1 DEF JoinStep, JoinOutput, JoinFailure, JoinSuspend, Drain, TypeOK
  <2>5. wait'[t] \in Waiting \cup {NoNode}
    BY <2>1, <2>4 DEF OnceAt, Waiting
  <2>6. Completed(t) \subseteq Completed(t)'
    BY <2>3, WaitingFacts DEF Completed
  <2>7. ran[t] \subseteq Nodes
    BY DEF TypeOK
  <2>8. logged[t].open => \A m \in ran[t] : m \in logged[t].done \cup Waiting \/ tasks'[t][m] = "ran"
    BY <2>1, <2>7 DEF OnceAt
  <2> QED
    BY <2>1, <2>2, <2>5, <2>6, <2>8 DEF OnceAt, Waiting
<1>2. CASE Acquire(t, n) \/ Cancel(t, n)
  <2>1. /\ UNCHANGED <<ran, reran, result, logged, out, wait, phase, spawned, arena>>
        /\ tasks[t][n] # "ran"
        /\ \A m \in Nodes : \/ tasks'[t][m] = tasks[t][m]
                            \/ m = n /\ tasks'[t][m] = "none"
                            \/ m = n /\ tasks'[t][m] = "running" /\ tasks[t][m] = "queued"
    BY <1>2 DEF Acquire, Cancel, TypeOK, log, history
  <2>2. ran[t] \subseteq Nodes
    BY DEF TypeOK
  <2>3. /\ \A m \in Nodes : tasks'[t][m] \in {"queued", "running"} => m \notin ran[t]
        /\ \A m \in Nodes : tasks'[t][m] \in {"ran", "done"} => result[t][m] \in Outcomes[m]
        /\ logged[t].open => \A m \in ran[t] : m \in logged[t].done \cup Waiting \/ tasks'[t][m] = "ran"
    BY <2>1, <2>2 DEF OnceAt
  <2> QED
    BY <2>1, <2>3 DEF OnceAt, Completed, Waiting
<1>3. ASSUME NEW r \in Results, Execute(t, n, r)
      PROVE  OnceAt(t)'
  <2>1. /\ UNCHANGED <<phase, out, wait, logged, spawned, arena>> /\ r \in Outcomes[n]
        /\ tasks[t][n] = "running"
        /\ \A m \in Nodes : tasks'[t][m] = IF m = n THEN "ran" ELSE tasks[t][m]
        /\ \A m \in Nodes : result'[t][m] = IF m = n THEN r ELSE result[t][m]
    BY <1>3 DEF Execute, TypeOK, log
  <2>2. ran'[t] = ran[t] \cup {n} /\ reran'[t] = reran[t] \cup ({n} \cap ran[t])
    BY <1>3 DEF Execute, TypeOK
  <2>3. n \notin ran[t] /\ n \in spawned[t] /\ ran[t] \subseteq Nodes
    BY <2>1 DEF OnceAt, RerunAt, TypeOK
  <2>4. phase[t] \notin Fresh
    BY <2>1 DEF OnceAt
  <2>5. /\ \A m \in Nodes : tasks'[t][m] \in {"queued", "running"} => m \notin ran'[t]
        /\ \A m \in Nodes : tasks'[t][m] \in {"ran", "done"} => result'[t][m] \in Outcomes[m]
        /\ logged[t].open => \A m \in ran'[t] : m \in logged[t].done \cup Waiting \/ tasks'[t][m] = "ran"
    BY <2>1, <2>2, <2>3 DEF OnceAt
  <2> QED
    BY <2>1, <2>2, <2>3, <2>4, <2>5 DEF OnceAt, Completed, Waiting
<1>4. CASE LogResult(t, n)
  <2>1. /\ UNCHANGED <<phase, out, wait, ran, reran, spawned, arena, result>> /\ tasks[t][n] = "ran"
        /\ \A m \in Nodes : tasks'[t][m] = IF m = n THEN "done" ELSE tasks[t][m]
    BY <1>4 DEF LogResult, TypeOK, history
  <2>2. \/ result[t][n] \in Ports /\ logged' = WithDone(t, n)
        \/ n \in Waiting /\ logged' = logged
    BY <1>4, <2>1, WaitingFacts DEF LogResult, Append, log, OnceAt
  <2>3. /\ logged'[t].open = logged[t].open /\ logged[t].done \subseteq logged'[t].done
        /\ logged[t].open => n \in logged'[t].done \cup Waiting
    BY <2>2 DEF WithDone, Apply, TypeOK, Replayed
  <2>4. ran[t] \subseteq Nodes
    BY DEF TypeOK
  <2>5. logged'[t].open => \A m \in ran[t] : m \in logged'[t].done \cup Waiting \/ tasks'[t][m] = "ran"
    BY <2>1, <2>3, <2>4 DEF OnceAt
  <2> QED
    BY <2>1, <2>3, <2>5 DEF OnceAt, Completed, Waiting
<1> QED
  BY <1>1, <1>2, <1>3, <1>4 DEF TaskStep

LEMMA ReenterOnce ==
  ASSUME OneWaitNode, TypeOK, flushed = logged, recovering = {},
         \A r \in resuming : r.node \in Waiting,
         NEW t \in Traces, DriverAt(t), OnceAt(t), ReenterStep(t)
  PROVE  OnceAt(t)'
<1>1. PICK r \in resuming : r.trace = t /\ ResumeOpen(r)
  BY DEF ReenterStep, RecoverResume, Turn
<1>2. UNCHANGED <<logged, ran, reran>> /\ arena[t] = "file"
  BY <1>1 DEF ResumeOpen, log
<1>3. logged[t].open /\ ran[t] \subseteq logged[t].done \cup {r.node} /\ ran[t] \subseteq Nodes
  <2>1. \A n \in Nodes : tasks[t][n] # "ran"
    BY <1>2 DEF DriverAt
  <2>2. \A n \in Waiting : n = r.node
    BY WaitingFacts
  <2> QED
    BY <1>2, <2>1, <2>2 DEF OnceAt, TypeOK
<1>4. /\ out'[t] = [Restored(t) EXCEPT ![r.node] = r.port] /\ tasks'[t] = NoTasks
      /\ wait'[t] = NoNode /\ phase'[t] = "resumed" /\ arena'[t] = "locked"
  BY <1>1 DEF ResumeOpen, Reenter, Goto, TypeOK
<1>5. \A n \in Nodes : n \in logged[t].done \cup {r.node} => out'[t][n] # NoPort
  <2>1. r.port # NoPort /\ "out" # NoPort /\ r.node \in Nodes
    BY FlowAssumption DEF TypeOK, Results, Outputs
  <2> QED
    BY <1>3, <1>4, <2>1 DEF Restored
<1>6. ran[t] \subseteq Completed(t)'
  BY <1>3, <1>5 DEF Completed
<1>7. \A n \in Nodes : tasks'[t][n] = "none"
  BY <1>4 DEF NoTasks
<1>8. \A n \in ran[t] : n \in logged[t].done \cup Waiting
  BY <1>1, <1>3
<1> QED
  BY <1>2, <1>3, <1>4, <1>6, <1>7, <1>8 DEF OnceAt, Fresh, Waiting

LEMMA ShutdownOnce ==
  ASSUME TypeOK, NEW t \in Traces, OnceAt(t), Shutdown
  PROVE  OnceAt(t)'
<1>1. /\ UNCHANGED <<out, ran, reran, tasks, result, phase, wait, logged, spawned>>
      /\ arena'[t] = "file" => arena[t] = "file"
  BY DEF Shutdown, log, history, TypeOK
<1> QED
  BY <1>1 DEF OnceAt, Completed, Waiting

LEMMA HooksOnce ==
  ASSUME OneWaitNode, TypeOK, OnceHooks, \A t \in Traces : OnceAt(t), [Next]_vars, ~Crash
  PROVE  OnceHooks'
<1>1. CASE UNCHANGED <<store, resuming, recovering>>
  BY <1>1 DEF OnceHooks, Waiting
<1>2. CASE \E t \in Traces : DriverStep(t)
  <2>1. PICK t \in Traces : DriverStep(t)
    BY <1>2
  <2>2. /\ resuming' = resuming /\ recovering' = recovering
        /\ \A n \in Nodes : store'[n] = store[n] \/ n = wait[t]
    BY <2>1 DEF DriverStep, Admit, Insert, Start, Spawn, SpawnMissing, SuspendCheck,
         SuspendInsert, SuspendLog, SuspendLeave, FinalizeLog, FinalizeLeave,
         ResumeLog, WalError, TypeOK
  <2>3. NoNode \notin Nodes
    BY FlowAssumption
  <2> QED
    BY <2>2, <2>3 DEF OnceHooks, OnceAt, Waiting
<1>3. CASE \E t \in Traces : ReenterStep(t) \/ VisitStep(t)
  <2>1. PICK t \in Traces : ReenterStep(t) \/ VisitStep(t)
    BY <1>3
  <2>2. resuming' \subseteq resuming /\ recovering' = recovering /\ store' = store
    BY <2>1 DEF ReenterStep, RecoverResume, ResumeOpen, VisitStep, RecoverSuspended,
         RecoverSkip, Turn, OnceHooks
  <2> QED
    BY <2>2 DEF OnceHooks, Waiting
<1>4. CASE \E t \in Traces, n \in Nodes : JoinStep(t, n) \/ TaskStep(t, n) \/ Cancel(t, n)
  BY <1>1, <1>4 DEF JoinStep, JoinOutput, JoinFailure, JoinSuspend, Drain, TaskStep,
     Acquire, Execute, LogResult, Cancel
<1>5. CASE HookStep
  <2>1. recovering' = recovering /\ \A n \in Nodes : store'[n] = store[n] \/ store'[n] = NoTrace
    BY <1>5 DEF HookStep, TakeHook, ResumeFails, Expire, TypeOK
  <2>2. ASSUME NEW r \in resuming'
        PROVE  r \in resuming \/ \E n \in Nodes : r.node = n /\ store[n] # NoTrace
    BY <1>5 DEF HookStep, TakeHook, ResumeFails, Expire
  <2> QED
    BY <2>1, <2>2 DEF OnceHooks, Waiting
<1>6. CASE Shutdown
  BY <1>1, <1>6 DEF Shutdown
<1> QED
  BY <1>1, <1>2, <1>3, <1>4, <1>5, <1>6, StepCases DEF vars, memory

LEMMA InitOnce == Init => OnceInv
<1> SUFFICES ASSUME Init
             PROVE  OnceInv
  OBVIOUS
<1>1. \A t \in Traces : OnceAt(t)
  BY DEF Init, OnceAt, NoTasks, Unlogged, Driving, Busy
<1>2. OnceHooks
  BY DEF Init, OnceHooks
<1> QED
  BY <1>1, <1>2, InitRerun, InitDriver DEF OnceInv

LEMMA CrashCounts ==
  ASSUME TypeOK, [Next]_vars, crashes' = 0
  PROVE  crashes = 0 /\ ~Crash
<1>1. crashes \in Nat /\ (Crash => crashes' = crashes + 1)
  BY DEF TypeOK, Crash
<1>2. ~Crash
  BY <1>1
<1>3. CASE \E t \in Traces : DriverStep(t) \/ VisitStep(t) \/ ReenterStep(t)
  BY <1>2, <1>3 DEF DriverStep, Admit, Insert, Start, Spawn, SpawnMissing, SuspendCheck,
     SuspendInsert, SuspendLog, SuspendLeave, FinalizeLog, FinalizeLeave, ResumeLog,
     WalError, VisitStep, RecoverSuspended, RecoverSkip, ReenterStep, RecoverResume,
     ResumeOpen
<1>4. CASE \E t \in Traces, n \in Nodes : JoinStep(t, n) \/ TaskStep(t, n) \/ Cancel(t, n)
  BY <1>2, <1>4 DEF JoinStep, JoinOutput, JoinFailure, JoinSuspend, Drain, TaskStep,
     Acquire, Execute, LogResult, Cancel
<1>5. CASE HookStep \/ Shutdown \/ UNCHANGED vars
  BY <1>2, <1>5 DEF HookStep, TakeHook, ResumeFails, Expire, Shutdown, vars
<1> QED
  BY <1>2, <1>3, <1>4, <1>5, StepCases

LEMMA StepOnce ==
  ASSUME LogBuffered = FALSE, WalFails = FALSE, OneWaitNode, OnceInv, [Next]_vars
  PROVE  OnceInv'
<1>1. /\ TypeOK /\ flushed = logged /\ RerunInv' /\ DriverInv'
      /\ \A u \in Traces : RerunAt(u) /\ DriverAt(u)
  BY StepRerun, StepDriver DEF OnceInv, RerunInv, DriverInv
<1>2. SUFFICES ASSUME crashes' = 0
               PROVE  OnceHooks' /\ \A t \in Traces : OnceAt(t)'
  BY <1>1 DEF OnceInv
<1>3. ~Crash /\ OnceHooks /\ \A u \in Traces : OnceAt(u)
  BY <1>1, <1>2, CrashCounts DEF OnceInv
<1>4. OnceHooks'
  BY <1>1, <1>3, HooksOnce
<1>5. ASSUME NEW u \in Traces
      PROVE  OnceAt(u)'
  <2>1. CASE \E t \in Traces : DriverStep(t)
    BY <1>1, <1>3, <2>1, DriverOnce, DriverSame, OnceFrame
  <2>2. CASE \E t \in Traces, n \in Nodes : JoinStep(t, n) \/ TaskStep(t, n) \/ Cancel(t, n)
    BY <1>1, <1>3, <2>2, TaskOnce, TaskSame, OnceFrame
  <2>3. CASE \E t \in Traces : ReenterStep(t)
    BY <1>1, <1>3, <2>3, ReenterOnce, ReenterSame, OnceFrame DEF OnceHooks
  <2>4. CASE HookStep \/ UNCHANGED vars
    BY <1>1, <1>3, <2>4, HookSame, OnceFrame
  <2>5. CASE Shutdown
    BY <1>1, <1>3, <2>5, ShutdownOnce
  <2>6. CASE \E t \in Traces : VisitStep(t)
    BY <1>3, <2>6 DEF VisitStep, RecoverSuspended, RecoverSkip, Turn, OnceHooks
  <2> QED
    BY <1>1, <1>3, <2>1, <2>2, <2>3, <2>4, <2>5, <2>6, StepCases
<1> QED
  BY <1>4, <1>5

(***************************************************************************)
(* "Safe to retry traces without duplicating side effects", without a      *)
(* crash: when writes to the log succeed and are not buffered, and one     *)
(* node suspends while the others complete, no node is executed twice,     *)
(* however early the suspension is answered, whether it expires, and       *)
(* whenever the executor is shut down.                                     *)
(***************************************************************************)
THEOREM ExecutesOnce ==
  ASSUME LogBuffered = FALSE, WalFails = FALSE, OneWaitNode
  PROVE  Spec => []ExecutedOnce
<1>1. OnceInv => ExecutedOnce
  BY DEF OnceInv, OnceAt, ExecutedOnce
<1>2. OnceInv /\ [Next]_vars => OnceInv'
  BY StepOnce
<1> QED
  BY <1>1, <1>2, InitOnce, PTL DEF Spec

-----------------------------------------------------------------------------
(* Suspensions are kept.                                                    *)

Held == {"storelog", "leaving", "suspended"}

(* A suspension in the log stands for a trace that is suspended or about to *)
(* be, whose resumption has not been logged yet, or that recover_all has    *)
(* not visited: in each case the arena is still there.                      *)
SuspendAt(t) ==
  /\ phase[t] \in Busy \ {"admitted"} => t \in live
  /\ phase[t] \in Busy \ {"admitted", "inserted", "closing"} => logged[t].open
  /\ phase[t] \in {"new", "admitted", "inserted", "closing", "completed"} => ~logged[t].open
  /\ t \in recovering => phase[t] = "down" /\ logged[t].open
  /\ phase[t] = "down" => arena[t] # "locked"
  /\ phase[t] = "suspended" => arena[t] = "file" /\ logged[t].suspended # NoNode
  /\ phase[t] \in {"drain", "storing", "storelog", "leaving"} => wait[t] \in Nodes
  /\ phase[t] = "leaving" => logged[t].suspended = wait[t]
  /\ logged[t].suspended # NoNode =>
       /\ logged[t].open /\ arena[t] # "none"
       /\ phase[t] \in {"leaving", "suspended", "resumed", "down"}

(* A suspension is in one hand: in the store, at the node it waits at, or   *)
(* with one resumption.                                                     *)
HooksAt(t) ==
  /\ \A n \in Nodes : store[n] = t =>
       phase[t] \in Held /\ n = IF phase[t] = "storelog" THEN wait[t] ELSE logged[t].suspended
  /\ \A r \in resuming : r.trace = t =>
       /\ phase[t] \in Held
       /\ \A n \in Nodes : store[n] # t
       /\ \A q \in resuming : q.trace = t => q = r

SuspendInv == RerunInv /\ DriverInv /\ \A t \in Traces : SuspendAt(t) /\ HooksAt(t)

\* Records of other traces, of the store or of recovery do not matter.
LEMMA SuspendFrame ==
  ASSUME NEW u \in Traces, SuspendAt(u), Same(u), recovering' \subseteq recovering
  PROVE  SuspendAt(u)'
BY DEF SuspendAt, Same

LEMMA HooksFrame ==
  ASSUME NEW u \in Traces, HooksAt(u), phase'[u] = phase[u], wait'[u] = wait[u], logged'[u] = logged[u],
         \A n \in Nodes : store'[n] = u => store[n] = u, resuming' \subseteq resuming
  PROVE  HooksAt(u)'
BY DEF HooksAt

LEMMA DriverSuspend ==
  ASSUME WalFails = FALSE, TypeOK, NEW t \in Traces, DriverAt(t), SuspendAt(t), DriverStep(t)
  PROVE  SuspendAt(t)'
<1>0. logged \in Logs /\ logged[t] \in Replayed /\ NoNode \notin Nodes
  BY FlowAssumption DEF TypeOK, Logs
<1>1. UNCHANGED <<wait, recovering>>
  BY DEF DriverStep, Admit, Insert, Start, Spawn, SpawnMissing, SuspendCheck,
         SuspendInsert, SuspendLog, SuspendLeave, FinalizeLog, FinalizeLeave,
         ResumeLog, WalError
<1>2. CASE Admit(t) \/ Insert(t)
  <2>1. /\ logged' = logged
        /\ \/ phase[t] = "new" /\ phase'[t] = "admitted"
           \/ phase[t] = "admitted" /\ phase'[t] = "inserted" /\ t \in live' /\ arena'[t] = "locked"
    BY <1>2 DEF Admit, Insert, Goto, TypeOK, log
  <2> QED
    BY <1>1, <2>1 DEF SuspendAt, Busy
<1>3. CASE Start(t) \/ ResumeLog(t) \/ FinalizeLog(t)
  <2>1. /\ UNCHANGED <<live, arena>>
        /\ \/ phase[t] = "inserted" /\ phase'[t] = "loop" /\ logged' = WithStart(t)
           \/ phase[t] = "resumed" /\ phase'[t] = "loop" /\ logged' = WithResumed(t)
           \/ phase[t] = "finalize" /\ phase'[t] = "closing" /\ logged' = WithComplete(t)
    BY <1>3 DEF Start, ResumeLog, FinalizeLog, WalError, Append, Goto, TypeOK
  <2>2. logged[t].open \/ phase[t] = "inserted"
    BY <2>1 DEF SuspendAt, Busy
  <2>3. logged'[t].suspended = NoNode /\ (phase'[t] = "loop" <=> logged'[t].open)
    BY <1>0, <2>1, <2>2 DEF WithStart, WithResumed, WithComplete, Apply, Unlogged, Logs, Replayed
  <2> QED
    BY <1>1, <2>1, <2>3 DEF SuspendAt, Busy
<1>4. CASE Spawn(t) \/ SpawnMissing(t) \/ SuspendCheck(t) \/ SuspendInsert(t)
  <2>1. /\ UNCHANGED <<live, arena, logged>>
        /\ \/ phase[t] = "loop" /\ t \in live /\ phase'[t] \in {"finalize", "join"}
           \/ phase[t] = "loop" /\ t \notin live
           \/ phase[t] = "drain" /\ phase'[t] \in {"storing", "ended"}
           \/ phase[t] = "storing" /\ phase'[t] = "storelog"
    BY <1>4 DEF Spawn, SpawnMissing, SuspendCheck, SuspendInsert, Goto, TypeOK, log
  <2> QED
    BY <1>1, <2>1 DEF SuspendAt, Busy
<1>5. CASE SuspendLog(t)
  <2>1. /\ UNCHANGED <<live, arena>> /\ phase[t] = "storelog" /\ phase'[t] = "leaving"
        /\ logged' = WithSuspended(t, wait[t])
    BY <1>5 DEF SuspendLog, WalError, Append, Goto, TypeOK
  <2>2. logged[t].open /\ t \in live /\ arena[t] = "locked" /\ wait[t] \in Nodes
    BY <2>1 DEF SuspendAt, DriverAt, Busy
  <2>3. logged'[t].suspended = wait[t] /\ logged'[t].open
    BY <1>0, <2>1, <2>2 DEF WithSuspended, Apply, Logs, Replayed
  <2> QED
    BY <1>0, <1>1, <2>1, <2>2, <2>3 DEF SuspendAt, Busy
<1>6. CASE SuspendLeave(t) \/ FinalizeLeave(t)
  <2>1. /\ logged' = logged
        /\ \/ phase[t] = "leaving" /\ phase'[t] = "suspended" /\ (t \in live => arena'[t] = "file")
           \/ phase[t] = "closing" /\ phase'[t] = "completed"
    BY <1>6 DEF SuspendLeave, FinalizeLeave, Goto, TypeOK, log
  <2> QED
    BY <1>0, <1>1, <2>1 DEF SuspendAt, Busy
<1> QED
  BY <1>2, <1>3, <1>4, <1>5, <1>6 DEF DriverStep

LEMMA TaskSuspend ==
  ASSUME TypeOK, NEW t \in Traces, NEW n \in Nodes, SuspendAt(t),
         JoinStep(t, n) \/ TaskStep(t, n) \/ Cancel(t, n)
  PROVE  SuspendAt(t)'
<1>0. logged \in Logs /\ logged[t] \in Replayed
  BY DEF TypeOK, Logs
<1>1. UNCHANGED recovering
  BY DEF JoinStep, JoinOutput, JoinFailure, JoinSuspend, Drain, TaskStep, Acquire,
         Execute, LogResult, Cancel
<1>2. CASE JoinStep(t, n)
  <2>1. /\ logged' = logged
        /\ \/ UNCHANGED <<phase, live, arena, wait>>
           \/ phase[t] = "join" /\ phase'[t] = "loop" /\ UNCHANGED <<live, arena, wait>>
           \/ phase[t] = "join" /\ phase'[t] = "drain" /\ UNCHANGED <<live, arena>> /\ wait'[t] = n
           \/ phase[t] = "join" /\ phase'[t] = "ended"
    BY <1>2 DEF JoinStep, JoinOutput, JoinFailure, JoinSuspend, Drain, Goto, TypeOK, log
  <2> QED
    BY <1>1, <2>1 DEF SuspendAt, Busy
<1>3. CASE TaskStep(t, n) \/ Cancel(t, n)
  <2>1. UNCHANGED <<phase, live, arena, wait>> /\ (logged' = logged \/ logged' = WithDone(t, n))
    BY <1>3 DEF TaskStep, Acquire, Execute, LogResult, Cancel, Append, log
  <2>2. logged'[t].open = logged[t].open /\ logged'[t].suspended = logged[t].suspended
    BY <1>0, <2>1 DEF WithDone, Apply, Logs, Replayed
  <2> QED
    BY <1>1, <2>1, <2>2 DEF SuspendAt
<1> QED
  BY <1>2, <1>3

\* Only a trace that is suspended or down enters the map again.
LEMMA ReenterSuspend ==
  ASSUME TypeOK, NEW t \in Traces, DriverAt(t), SuspendAt(t), HooksAt(t), ReenterStep(t) \/ VisitStep(t)
  PROVE  SuspendAt(t)'
<1>1. logged' = logged /\ recovering' \subseteq recovering
  BY DEF ReenterStep, RecoverResume, ResumeOpen, VisitStep, RecoverSuspended, RecoverSkip, log
<1>2. CASE ReenterStep(t)
  <2>1. t \in live' /\ arena'[t] = "locked" /\ phase'[t] = "resumed"
    BY <1>2 DEF ReenterStep, RecoverResume, ResumeOpen, Reenter, Goto, TypeOK
  <2>2. t \notin recovering' /\ logged[t].open
    <3>1. CASE RecoverResume(t)
      BY <3>1 DEF RecoverResume, Turn, SuspendAt
    <3>2. CASE \E r \in resuming : r.trace = t /\ ResumeOpen(r)
      <4>1. phase[t] \in Held /\ recovering' = recovering
        BY <3>2 DEF HooksAt, ResumeOpen
      <4> QED
        BY <4>1 DEF SuspendAt, Held, Busy
    <3> QED
      BY <1>2, <3>1, <3>2 DEF ReenterStep
  <2> QED
    BY <1>1, <2>1, <2>2 DEF SuspendAt
<1>3. CASE VisitStep(t)
  <2>1. /\ UNCHANGED <<live, arena, wait>> /\ t \in recovering /\ t \notin recovering'
        /\ \/ phase'[t] = "suspended" /\ logged[t].suspended # NoNode
           \/ phase'[t] = "lost" /\ logged[t].suspended = NoNode
    BY <1>3 DEF VisitStep, RecoverSuspended, RecoverSkip, Goto, Turn, TypeOK
  <2>2. arena[t] \in {"none", "locked", "file"}
    BY DEF TypeOK
  <2> QED
    BY <1>1, <2>1, <2>2 DEF SuspendAt, Busy
<1> QED
  BY <1>2, <1>3

LEMMA CrashSuspend ==
  ASSUME TypeOK, flushed = logged, NEW t \in Traces, DriverAt(t), SuspendAt(t), Crash
  PROVE  SuspendAt(t)' /\ HooksAt(t)'
<1>1. /\ logged' = logged /\ resuming' = {} /\ NoTrace \notin Traces
      /\ \A n \in Nodes : store'[n] = NoTrace
      /\ phase'[t] = IF phase[t] \in {"new", "completed"} THEN phase[t] ELSE "down"
      /\ arena'[t] = IF arena[t] = "locked" THEN "file" ELSE arena[t]
      /\ t \in recovering' => logged[t].open
  BY FlowAssumption DEF Crash
<1>2. SuspendAt(t)'
  BY <1>1 DEF SuspendAt, DriverAt, Busy
<1>3. HooksAt(t)'
  BY <1>1 DEF HooksAt
<1> QED
  BY <1>2, <1>3

LEMMA DriverHooks ==
  ASSUME WalFails = FALSE, TypeOK, NEW t \in Traces, SuspendAt(t), HooksAt(t), DriverStep(t)
  PROVE  HooksAt(t)'
<1>1. resuming' = resuming /\ wait' = wait
  BY DEF DriverStep, Admit, Insert, Start, Spawn, SpawnMissing, SuspendCheck,
         SuspendInsert, SuspendLog, SuspendLeave, FinalizeLog, FinalizeLeave,
         ResumeLog, WalError
<1>2. CASE SuspendInsert(t)
  <2>1. /\ phase[t] = "storing" /\ phase'[t] = "storelog" /\ wait[t] \in Nodes
        /\ \A n \in Nodes : store'[n] = IF n = wait[t] THEN t ELSE store[n]
    BY <1>2 DEF SuspendInsert, Goto, TypeOK, SuspendAt
  <2> QED
    BY <1>1, <2>1 DEF HooksAt, Held
<1>3. CASE SuspendLog(t)
  <2>1. /\ phase[t] = "storelog" /\ phase'[t] = "leaving" /\ store' = store
        /\ logged' = WithSuspended(t, wait[t])
    BY <1>3 DEF SuspendLog, WalError, Append, Goto, TypeOK
  <2>2. logged[t].open
    BY <2>1 DEF SuspendAt, Busy
  <2>3. logged'[t].suspended = wait[t]
    BY <2>1, <2>2 DEF WithSuspended, Apply, TypeOK, Replayed
  <2> QED
    BY <1>1, <2>1, <2>3 DEF HooksAt, Held
<1>4. CASE SuspendLeave(t)
  <2>1. phase[t] = "leaving" /\ phase'[t] = "suspended" /\ UNCHANGED <<store, logged>>
    BY <1>4 DEF SuspendLeave, Goto, TypeOK, log
  <2> QED
    BY <1>1, <2>1 DEF HooksAt, Held
<1>5. CASE ~SuspendInsert(t) /\ ~SuspendLog(t) /\ ~SuspendLeave(t)
  <2>1. store' = store /\ phase[t] \notin Held
    BY <1>5 DEF DriverStep, Admit, Insert, Start, Spawn, SpawnMissing, SuspendCheck,
                FinalizeLog, FinalizeLeave, ResumeLog, WalError, Held
  <2> QED
    BY <1>1, <2>1 DEF HooksAt
<1> QED
  BY <1>2, <1>3, <1>4, <1>5

LEMMA TaskHooks ==
  ASSUME TypeOK, NEW t \in Traces, NEW n \in Nodes, HooksAt(t),
         JoinStep(t, n) \/ TaskStep(t, n) \/ Cancel(t, n)
  PROVE  HooksAt(t)'
<1>1. UNCHANGED <<store, resuming>>
  BY DEF JoinStep, JoinOutput, JoinFailure, JoinSuspend, Drain, TaskStep, Acquire,
         Execute, LogResult, Cancel
<1>2. phase[t] \in {"join", "drain"} \/ (phase'[t] = phase[t] /\ wait'[t] = wait[t])
  BY DEF JoinStep, JoinOutput, JoinFailure, JoinSuspend, Drain, TaskStep, Acquire,
         Execute, LogResult, Cancel
<1>3. logged'[t].suspended = logged[t].suspended
  <2>1. logged' = logged \/ logged' = WithDone(t, n)
    BY DEF JoinStep, JoinOutput, JoinFailure, JoinSuspend, Drain, TaskStep, Acquire,
           Execute, LogResult, Cancel, Append, log
  <2> QED
    BY <2>1 DEF WithDone, Apply, TypeOK, Replayed
<1>4. CASE phase[t] \in {"join", "drain"}
  BY <1>1, <1>4 DEF HooksAt, Held
<1>5. CASE phase'[t] = phase[t] /\ wait'[t] = wait[t]
  BY <1>1, <1>3, <1>5 DEF HooksAt
<1> QED
  BY <1>2, <1>4, <1>5

\* The entry or the resumption of a trace is used up when the trace enters
\* the map; a trace that is recovered has none before.
LEMMA ReenterHooks ==
  ASSUME TypeOK, NEW t \in Traces, SuspendAt(t), HooksAt(t), ReenterStep(t) \/ VisitStep(t)
  PROVE  HooksAt(t)'
<1>1. CASE \E r \in resuming : r.trace = t /\ ResumeOpen(r)
  <2>1. PICK r \in resuming : r.trace = t /\ ResumeOpen(r)
    BY <1>1
  <2>2. resuming' = resuming \ {r} /\ store' = store
    BY <2>1 DEF ResumeOpen
  <2> QED
    BY <2>1, <2>2 DEF HooksAt
<1>2. CASE RecoverResume(t) \/ VisitStep(t)
  <2>1. phase[t] = "down" /\ resuming' = resuming
    BY <1>2 DEF VisitStep, RecoverResume, RecoverSuspended, RecoverSkip, Turn, SuspendAt
  <2>2. (\A r \in resuming : r.trace # t) /\ (\A n \in Nodes : store[n] # t)
    BY <2>1 DEF HooksAt, Held
  <2>3. CASE RecoverSuspended(t)
    <3>1. /\ phase'[t] = "suspended" /\ logged' = logged
          /\ \A n \in Nodes : store'[n] = store[n] \/ n = logged[t].suspended
      BY <2>3 DEF RecoverSuspended, Goto, TypeOK, log
    <3> QED
      BY <2>1, <2>2, <3>1 DEF HooksAt, Held
  <2>4. CASE ~RecoverSuspended(t)
    <3>1. store' = store
      BY <1>2, <2>4 DEF VisitStep, RecoverResume, RecoverSkip
    <3> QED
      BY <2>1, <2>2, <3>1 DEF HooksAt
  <2> QED
    BY <2>3, <2>4
<1> QED
  BY <1>1, <1>2 DEF ReenterStep

\* TakeHook hands an entry over; ResumeFails and Expire drop one.
LEMMA HookHooks ==
  ASSUME TypeOK, NEW t \in Traces, HooksAt(t), HookStep
  PROVE  HooksAt(t)'
<1>1. UNCHANGED <<phase, wait, logged>>
  BY DEF HookStep, TakeHook, ResumeFails, Expire, log
<1>2. ASSUME NEW n \in Nodes, NEW port \in Decisions, TakeHook(n, port)
      PROVE  HooksAt(t)'
  <2> DEFINE r == [trace |-> store[n], node |-> n, port |-> port]
  <2>1. /\ resuming' = resuming \cup {r} /\ r.trace = store[n] /\ store[n] \in Traces
        /\ \A m \in Nodes : store'[m] = IF m = n THEN NoTrace ELSE store[m]
    BY <1>2 DEF TakeHook, TypeOK
  <2> HIDE DEF r
  <2>2. CASE store[n] = t
    <3>1. phase[t] \in Held /\ (\A q \in resuming : q.trace # t) /\ \A m \in Nodes : store[m] = t => m = n
      BY <2>2 DEF HooksAt
    <3>2. \A q \in resuming' : q.trace = t => q = r
      BY <2>1, <3>1
    <3>3. \A m \in Nodes : store'[m] # t
      BY <2>1, <3>1, FlowAssumption
    <3> QED
      BY <1>1, <3>1, <3>2, <3>3 DEF HooksAt
  <2>3. CASE store[n] # t
    <3>1. \A q \in resuming' : q.trace = t => q \in resuming
      BY <2>1, <2>3
    <3>2. \A m \in Nodes : store'[m] = t => store[m] = t
      BY <2>1, FlowAssumption
    <3> QED
      BY <1>1, <3>1, <3>2 DEF HooksAt
  <2> QED
    BY <2>2, <2>3
<1>3. CASE (\E r \in resuming : ResumeFails(r)) \/ (\E n \in Nodes : Expire(n))
  <2>1. resuming' \subseteq resuming /\ \A n \in Nodes : store'[n] = t => store[n] = t
    BY <1>3, FlowAssumption DEF ResumeFails, Expire, TypeOK
  <2> QED
    BY <1>1, <2>1, HooksFrame
<1> QED
  BY <1>2, <1>3 DEF HookStep

\* A step of one trace hands nothing to another.
LEMMA OthersHooks ==
  ASSUME TypeOK, NEW t \in Traces, NEW u \in Traces \ {t}, HooksAt(u), Same(u),
         \/ DriverStep(t) \/ ReenterStep(t) \/ VisitStep(t)
         \/ \E n \in Nodes : JoinStep(t, n) \/ TaskStep(t, n) \/ Cancel(t, n)
  PROVE  HooksAt(u)'
<1>1. resuming' \subseteq resuming
  BY DEF DriverStep, Admit, Insert, Start, Spawn, SpawnMissing, SuspendCheck,
         SuspendInsert, SuspendLog, SuspendLeave, FinalizeLog, FinalizeLeave,
         ResumeLog, WalError, JoinStep, JoinOutput, JoinFailure, JoinSuspend, Drain,
         TaskStep, Acquire, Execute, LogResult, Cancel, ReenterStep, RecoverResume,
         ResumeOpen, VisitStep, RecoverSuspended, RecoverSkip
<1>2. store' = store \/ SuspendInsert(t) \/ RecoverSuspended(t)
  BY DEF DriverStep, Admit, Insert, Start, Spawn, SpawnMissing, SuspendCheck,
         SuspendLog, SuspendLeave, FinalizeLog, FinalizeLeave,
         ResumeLog, WalError, JoinStep, JoinOutput, JoinFailure, JoinSuspend, Drain,
         TaskStep, Acquire, Execute, LogResult, Cancel, ReenterStep, RecoverResume,
         ResumeOpen, VisitStep, RecoverSkip
<1>3. \A n \in Nodes : store'[n] = u => store[n] = u
  BY <1>2 DEF SuspendInsert, RecoverSuspended, TypeOK
<1> QED
  BY <1>1, <1>3, HooksFrame DEF Same

LEMMA InitSuspend == Init => SuspendInv
<1> SUFFICES ASSUME Init
             PROVE  SuspendInv
  OBVIOUS
<1>1. \A t \in Traces : SuspendAt(t) /\ HooksAt(t)
  BY FlowAssumption DEF Init, SuspendAt, HooksAt, Unlogged, Busy
<1> QED
  BY <1>1, InitRerun, InitDriver DEF SuspendInv

LEMMA StepSuspend ==
  ASSUME LogBuffered = FALSE, WalFails = FALSE, ShutdownAllowed = FALSE, SuspendInv, [Next]_vars
  PROVE  SuspendInv'
<1>1. /\ TypeOK /\ flushed = logged /\ RerunInv' /\ DriverInv'
      /\ \A u \in Traces : SuspendAt(u) /\ HooksAt(u) /\ DriverAt(u)
  BY StepRerun, StepDriver DEF SuspendInv, RerunInv, DriverInv
<1>2. ASSUME NEW u \in Traces
      PROVE  SuspendAt(u)' /\ HooksAt(u)'
  <2>1. ASSUME NEW t \in Traces, DriverStep(t)
        PROVE  SuspendAt(u)' /\ HooksAt(u)'
    <3>1. recovering' = recovering
      BY <2>1 DEF DriverStep, Admit, Insert, Start, Spawn, SpawnMissing, SuspendCheck,
         SuspendInsert, SuspendLog, SuspendLeave, FinalizeLog, FinalizeLeave,
         ResumeLog, WalError
    <3> QED
      BY <1>1, <2>1, <3>1, DriverSuspend, DriverHooks, DriverSame, SuspendFrame, OthersHooks
  <2>2. ASSUME NEW t \in Traces, NEW n \in Nodes, JoinStep(t, n) \/ TaskStep(t, n) \/ Cancel(t, n)
        PROVE  SuspendAt(u)' /\ HooksAt(u)'
    <3>1. recovering' = recovering
      BY <2>2 DEF JoinStep, JoinOutput, JoinFailure, JoinSuspend, Drain, TaskStep, Acquire,
         Execute, LogResult, Cancel
    <3> QED
      BY <1>1, <2>2, <3>1, TaskSuspend, TaskHooks, TaskSame, SuspendFrame, OthersHooks
  <2>3. ASSUME NEW t \in Traces, ReenterStep(t) \/ VisitStep(t)
        PROVE  SuspendAt(u)' /\ HooksAt(u)'
    <3>1. recovering' \subseteq recovering
      BY <2>3 DEF ReenterStep, RecoverResume, ResumeOpen, VisitStep, RecoverSuspended, RecoverSkip
    <3> QED
      BY <1>1, <2>3, <3>1, ReenterSuspend, ReenterHooks, ReenterSame, SuspendFrame, OthersHooks
  <2>4. CASE HookStep \/ UNCHANGED vars
    <3>1. recovering' = recovering
      BY <2>4 DEF HookStep, TakeHook, ResumeFails, Expire, vars
    <3>2. SuspendAt(u)'
      BY <1>1, <2>4, <3>1, HookSame, SuspendFrame
    <3>3. HooksAt(u)'
      BY <1>1, <2>4, HookHooks, HooksFrame DEF vars, memory, log
    <3> QED
      BY <3>2, <3>3
  <2>5. CASE Shutdown \/ Crash
    BY <1>1, <2>5, CrashSuspend DEF Shutdown
  <2> QED
    BY <1>1, <2>1, <2>2, <2>3, <2>4, <2>5, StepCases
<1> QED
  BY <1>1, <1>2 DEF SuspendInv

(***************************************************************************)
(* Every entry of the suspension store can be resumed: its trace has its   *)
(* arena, and the log says that it is suspended at that node, or is about  *)
(* to.  For every flow and number of traces, however early an answer comes *)
(* and with timeouts, through any number of crashes, if the log is written *)
(* through and does not fail and the executor is not shut down.            *)
(***************************************************************************)
THEOREM StoredResumable ==
  ASSUME LogBuffered = FALSE, WalFails = FALSE, ShutdownAllowed = FALSE
  PROVE  Spec => []StoredIsResumable
<1>1. SuspendInv => StoredIsResumable
  <2> SUFFICES ASSUME SuspendInv, NEW n \in Nodes, store[n] # NoTrace
               PROVE  LET t == store[n]
                      IN /\ arena[t] # "none"
                         /\ \/ phase[t] = "storelog" /\ wait[t] = n
                            \/ logged[t].open /\ logged[t].suspended = n
    BY DEF StoredIsResumable
  <2> DEFINE t == store[n]
  <2>1. t \in Traces /\ NoNode \notin Nodes
    BY FlowAssumption DEF SuspendInv, DriverInv, TypeOK
  <2>2. SuspendAt(t) /\ DriverAt(t) /\ HooksAt(t)
    BY <2>1 DEF SuspendInv, DriverInv
  <2> HIDE DEF t
  <2>3. phase[t] \in Held /\ n = IF phase[t] = "storelog" THEN wait[t] ELSE logged[t].suspended
    BY <2>2 DEF t, HooksAt
  <2>4. arena[t] # "none" /\ (phase[t] = "storelog" \/ logged[t].open)
    BY <2>1, <2>2, <2>3 DEF SuspendAt, DriverAt, Held, Busy
  <2> QED
    BY <2>3, <2>4 DEF t
<1>2. SuspendInv /\ [Next]_vars => SuspendInv'
  BY StepSuspend
<1> QED
  BY <1>1, <1>2, InitSuspend, PTL DEF Spec

(* With one trace nobody else uses its hook, and if it is answered only     *)
(* once it is suspended, and nothing expires, the entry is there as long as *)
(* it is needed.                                                            *)
OneTrace == \A t, u \in Traces : t = u

KeptAt(t) ==
  /\ phase[t] \in {"storelog", "leaving"} => store[wait[t]] = t
  /\ phase[t] = "suspended" => (\E n \in Nodes : store[n] = t) \/ (\E r \in resuming : r.trace = t)
  /\ \A r \in resuming : r.trace = t => phase[t] = "suspended"

LEMMA DriverKept ==
  ASSUME WalFails = FALSE, TypeOK, NEW t \in Traces, SuspendAt(t), KeptAt(t), DriverStep(t)
  PROVE  KeptAt(t)'
<1>1. resuming' = resuming /\ wait' = wait
  BY DEF DriverStep, Admit, Insert, Start, Spawn, SpawnMissing, SuspendCheck,
         SuspendInsert, SuspendLog, SuspendLeave, FinalizeLog, FinalizeLeave,
         ResumeLog, WalError
<1>2. CASE SuspendInsert(t)
  <2>1. /\ phase[t] = "storing" /\ phase'[t] = "storelog" /\ wait[t] \in Nodes
        /\ store' = [store EXCEPT ![wait[t]] = t]
    BY <1>2 DEF SuspendInsert, Goto, TypeOK, SuspendAt
  <2> QED
    BY <1>1, <2>1 DEF KeptAt, TypeOK
<1>3. CASE SuspendLog(t) \/ SuspendLeave(t)
  <2>1. /\ store' = store /\ wait[t] \in Nodes
        /\ \/ phase[t] = "storelog" /\ phase'[t] = "leaving"
           \/ phase[t] = "leaving" /\ phase'[t] = "suspended"
    BY <1>3 DEF SuspendLog, SuspendLeave, WalError, Goto, TypeOK, SuspendAt
  <2> QED
    BY <1>1, <2>1 DEF KeptAt
<1>4. CASE ~SuspendInsert(t) /\ ~SuspendLog(t) /\ ~SuspendLeave(t)
  <2>1. phase[t] \notin Held /\ phase'[t] \notin Held
    BY <1>4 DEF DriverStep, Admit, Insert, Start, Spawn, SpawnMissing, SuspendCheck,
                FinalizeLog, FinalizeLeave, ResumeLog, WalError, Goto, TypeOK, Held
  <2> QED
    BY <1>1, <2>1 DEF KeptAt, Held
<1> QED
  BY <1>2, <1>3, <1>4

LEMMA TaskKept ==
  ASSUME OneTrace, TypeOK, NEW t \in Traces, SuspendAt(t), HooksAt(t), KeptAt(t), NEW n \in Nodes,
         JoinStep(t, n) \/ TaskStep(t, n) \/ Cancel(t, n)
  PROVE  KeptAt(t)'
<1>1. UNCHANGED <<store, resuming>>
  BY DEF JoinStep, JoinOutput, JoinFailure, JoinSuspend, Drain, TaskStep, Acquire,
         Execute, LogResult, Cancel
<1>2. \/ phase[t] \in {"join", "drain"} /\ phase'[t] \in {"loop", "drain", "ended"}
      \/ phase'[t] = phase[t] /\ wait'[t] = wait[t]
  BY DEF JoinStep, JoinOutput, JoinFailure, JoinSuspend, Drain, TaskStep, Acquire,
         Execute, LogResult, Cancel, Goto, TypeOK
<1> QED
  BY <1>1, <1>2 DEF KeptAt

LEMMA ReenterKept ==
  ASSUME OneTrace, TypeOK, NEW t \in Traces, SuspendAt(t), HooksAt(t), KeptAt(t),
         ReenterStep(t) \/ VisitStep(t)
  PROVE  KeptAt(t)'
<1>1. CASE \E r \in resuming : r.trace = t /\ ResumeOpen(r)
  <2>1. PICK r \in resuming : r.trace = t /\ ResumeOpen(r)
    BY <1>1
  <2>2. resuming' = resuming \ {r} /\ phase'[t] = "resumed"
    BY <2>1 DEF ResumeOpen, Reenter, Goto, TypeOK
  <2> QED
    BY <2>1, <2>2 DEF HooksAt, KeptAt
<1>2. CASE RecoverResume(t) \/ VisitStep(t)
  <2>1. phase[t] = "down" /\ resuming' = resuming
    BY <1>2 DEF VisitStep, RecoverResume, RecoverSuspended, RecoverSkip, Turn, SuspendAt
  <2>2. \A r \in resuming : r.trace # t
    BY <2>1 DEF KeptAt
  <2>3. CASE RecoverSuspended(t)
    <3>1. /\ phase'[t] = "suspended" /\ logged[t].suspended \in Nodes
          /\ store' = IF store[logged[t].suspended] = NoTrace
                      THEN [store EXCEPT ![logged[t].suspended] = t] ELSE store
      BY <2>3 DEF RecoverSuspended, Goto, TypeOK, Replayed
    <3>2. store'[logged[t].suspended] = t
      BY <3>1 DEF TypeOK, OneTrace
    <3> QED
      BY <2>1, <2>2, <3>1, <3>2 DEF KeptAt
  <2>4. CASE ~RecoverSuspended(t)
    <3>1. phase'[t] \in {"resumed", "lost"}
      BY <1>2, <2>4 DEF VisitStep, RecoverResume, RecoverSkip, Reenter, Goto, TypeOK
    <3> QED
      BY <2>1, <2>2, <3>1 DEF KeptAt
  <2> QED
    BY <2>3, <2>4
<1> QED
  BY <1>1, <1>2 DEF ReenterStep

\* An answer takes the entry of a suspended trace, and its resumption does not
\* fail: the arena is there and not locked.
LEMMA HookKept ==
  ASSUME EarlyAnswers = FALSE, Expiry = FALSE, WalFails = FALSE,
         TypeOK, NEW t \in Traces, SuspendAt(t), HooksAt(t), KeptAt(t), OneTrace, HookStep
  PROVE  KeptAt(t)'
<1>1. UNCHANGED <<phase, wait>>
  BY DEF HookStep, TakeHook, ResumeFails, Expire
<1>2. ASSUME NEW n \in Nodes, NEW port \in Decisions, TakeHook(n, port)
      PROVE  KeptAt(t)'
  <2> DEFINE r == [trace |-> store[n], node |-> n, port |-> port]
  <2>1. store[n] = t
    BY <1>2 DEF TakeHook, TypeOK, OneTrace
  <2>2. phase[t] = "suspended" /\ resuming' = resuming \cup {r} /\ r.trace = t
    BY <1>2, <2>1 DEF TakeHook
  <2> HIDE DEF r
  <2> QED
    BY <1>1, <2>2 DEF KeptAt
<1>3. ASSUME NEW r \in resuming, ResumeFails(r)
      PROVE  FALSE
  <2>1. r.trace = t /\ arena[r.trace] # "file"
    BY <1>3 DEF ResumeFails, TypeOK, OneTrace
  <2> QED
    BY <2>1 DEF KeptAt, SuspendAt
<1> QED
  BY <1>2, <1>3 DEF HookStep, Expire

KeptInv == SuspendInv /\ \A t \in Traces : KeptAt(t)

LEMMA InitKept == Init => KeptInv
<1>1. Init => \A t \in Traces : KeptAt(t)
  BY DEF Init, KeptAt
<1> QED
  BY <1>1, InitSuspend DEF KeptInv

LEMMA StepKept ==
  ASSUME LogBuffered = FALSE, WalFails = FALSE, ShutdownAllowed = FALSE, EarlyAnswers = FALSE,
         Expiry = FALSE, OneTrace, KeptInv, [Next]_vars
  PROVE  KeptInv'
<1>1. /\ TypeOK /\ SuspendInv'
      /\ \A u \in Traces : SuspendAt(u) /\ HooksAt(u) /\ KeptAt(u)
  BY StepSuspend DEF KeptInv, SuspendInv, DriverInv
<1>2. ASSUME NEW u \in Traces
      PROVE  KeptAt(u)'
  <2>1. CASE \E t \in Traces : DriverStep(t)
    BY <1>1, <2>1, DriverKept DEF OneTrace
  <2>2. CASE \E t \in Traces, n \in Nodes : JoinStep(t, n) \/ TaskStep(t, n) \/ Cancel(t, n)
    BY <1>1, <2>2, TaskKept DEF OneTrace
  <2>3. CASE \E t \in Traces : ReenterStep(t) \/ VisitStep(t)
    BY <1>1, <2>3, ReenterKept DEF OneTrace
  <2>4. CASE HookStep
    BY <1>1, <2>4, HookKept
  <2>5. CASE Shutdown \/ Crash
    <3>1. resuming' = {} /\ phase'[u] \in {"new", "completed", "down"}
      BY <2>5 DEF Shutdown, Crash
    <3> QED
      BY <3>1 DEF KeptAt
  <2>6. CASE UNCHANGED vars
    BY <1>1, <2>6 DEF KeptAt, vars, memory
  <2> QED
    BY <1>1, <2>1, <2>2, <2>3, <2>4, <2>5, <2>6, StepCases
<1> QED
  BY <1>1, <1>2 DEF KeptInv

(***************************************************************************)
(* Suspensions are kept: an entry of the store can be resumed, and a trace *)
(* that is suspended is found there, or its resumption is under way.  For  *)
(* every flow and any number of crashes and resumptions, for a trace that  *)
(* shares its hooks with no other, is answered after suspend_trace has     *)
(* returned and does not expire, if the log is written through and does    *)
(* not fail and the executor is not shut down.                             *)
(***************************************************************************)
THEOREM SuspensionsAreKept ==
  ASSUME LogBuffered = FALSE, WalFails = FALSE, ShutdownAllowed = FALSE, EarlyAnswers = FALSE,
         Expiry = FALSE, OneTrace
  PROVE  Spec => []SuspensionsKept
<1>1. KeptInv => SuspendedIsStored
  BY DEF KeptInv, KeptAt, SuspendedIsStored
<1>2. KeptInv /\ [Next]_vars => KeptInv'
  BY StepKept
<1>3. Spec => []SuspendedIsStored
  BY <1>1, <1>2, InitKept, PTL DEF Spec
<1>4. Spec => []StoredIsResumable
  BY StoredResumable
<1>5. StoredIsResumable /\ SuspendedIsStored => SuspensionsKept
  BY DEF SuspensionsKept
<1> QED
  BY <1>3, <1>4, <1>5, PTL

=============================================================================
