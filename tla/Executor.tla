------------------------------ MODULE Executor ------------------------------
(***************************************************************************)
(* The trace executor of xerv-executor: admission of traces, the loop of   *)
(* execute_trace with its JoinSet of node tasks, suspension at wait nodes, *)
(* resumption through the API, and crash recovery from the write-ahead log *)
(* (scheduler/executor.rs, scheduler/suspension.rs, trace/mod.rs,          *)
(* recovery/mod.rs, suspension/{store,timeout}.rs).                        *)
(*                                                                         *)
(* A flow is a set of nodes, its entry points and edges that leave a node  *)
(* on a port.  Payloads are left out: what matters of a node's result is   *)
(* the port it comes out on, or that it failed or asked to be suspended.   *)
(*                                                                         *)
(* The log is represented by what WalReader::apply_record_to_traces makes  *)
(* of it, one record after the other.                                      *)
(***************************************************************************)
EXTENDS Naturals, FiniteSets

CONSTANTS
  Traces,       \* trace identifiers
  Nodes,        \* nodes of the flow
  Entries,      \* FlowGraph::entry_points
  Edges,        \* [from : Nodes, port : Ports, to : Nodes]
  Outcomes,     \* node -> what its execute may return
  Ports,        \* ports of Complete outputs; "out" is one of them
  Decisions,    \* ports a ResumeDecision leads to
  MaxTraces,    \* ExecutorConfig::max_concurrent_traces
  MaxNodes,     \* ExecutorConfig::max_concurrent_nodes
  MaxCrashes,   \* bound: number of process crashes
  LogBuffered,  \* is sync_on_write off, so that records may stay in the BufWriter?
  WalFails,     \* may the log return Err?
  Expiry,       \* is a TimeoutProcessor running?
  ShutdownAllowed, \* may Executor::shutdown be called?
  EarlyAnswers, \* may a resume arrive before suspend_trace has returned?
  NoPort, NoNode, NoTrace

Unfinished == {"fail", "panic", "suspend"}
Outputs == Ports \cup {"error"}     \* Complete and NodeOutput::Error
Results == Outputs \cup Unfinished

ASSUME FlowAssumption ==
  /\ Entries \subseteq Nodes
  /\ Edges \subseteq [from : Nodes, port : Outputs, to : Nodes]
  /\ Outcomes \in [Nodes -> SUBSET Results]
  /\ "out" \in Ports /\ Decisions \subseteq Ports
  /\ Ports \cap (Unfinished \cup {"error"}) = {}
  /\ NoPort \notin Results /\ NoNode \notin Nodes /\ NoTrace \notin Traces

ASSUME LimitAssumption ==
  /\ MaxTraces \in Nat /\ MaxNodes \in Nat \ {0} /\ MaxCrashes \in Nat
  /\ WalFails \in BOOLEAN /\ Expiry \in BOOLEAN /\ ShutdownAllowed \in BOOLEAN
  /\ EarlyAnswers \in BOOLEAN /\ LogBuffered \in BOOLEAN

VARIABLES
  live,       \* keys of Executor::traces
  out,        \* TraceState::outputs: trace -> node -> port or NoPort
  phase,      \* trace -> where its driver stands
  tasks,      \* trace -> node -> state of the spawned task
  result,     \* trace -> node -> what the task returned
  spawned,    \* trace -> nodes this call of execute_trace has spawned
  wait,       \* trace -> node whose Suspend output is being processed
  store,      \* SuspensionStore: wait node (its hook id) -> trace
  resuming,   \* resumptions that have taken their entry from the store
  logged,     \* trace -> what replaying every accepted record yields for it
  flushed,    \* trace -> what replaying the log files yields for it
  arena,      \* trace -> "none", "locked" (open here) or "file"
  recovering, \* traces recover_all has still to visit
  crashes,    \* number of crashes so far
  ran,        \* history: trace -> nodes that were executed
  reran,      \* history: trace -> nodes that were executed again
  emitted     \* history: trace -> node -> port its result really had

memory == <<live, out, phase, tasks, result, spawned, wait, store, resuming>>
history == <<ran, reran, emitted>>
log == <<logged, flushed>>
vars == <<memory, log, arena, recovering, crashes, history>>

\* Phases of a driver, in the order of the code.
Busy == {"admitted", "inserted", "resumed", "loop", "join", "drain", "storing",
         "storelog", "leaving", "finalize", "closing"}
Rest == {"new", "completed", "ended", "suspended", "down", "lost"}

TaskStates == {"none", "queued", "running", "ran", "done"}

\* TraceRecoveryState, for a trace that is open: it started and did not end.
Replayed == [open : BOOLEAN, done : SUBSET Nodes, suspended : Nodes \cup {NoNode}]

TypeOK ==
  /\ live \subseteq Traces
  /\ out \in [Traces -> [Nodes -> Outputs \cup {NoPort}]]
  /\ phase \in [Traces -> Busy \cup Rest]
  /\ tasks \in [Traces -> [Nodes -> TaskStates]]
  /\ result \in [Traces -> [Nodes -> Results \cup {NoPort}]]
  /\ spawned \in [Traces -> SUBSET Nodes]
  /\ wait \in [Traces -> Nodes \cup {NoNode}]
  /\ store \in [Nodes -> Traces \cup {NoTrace}]
  /\ resuming \subseteq [trace : Traces, node : Nodes, port : Ports]
  /\ logged \in [Traces -> Replayed] /\ flushed \in [Traces -> Replayed]
  /\ arena \in [Traces -> {"none", "locked", "file"}]
  /\ recovering \subseteq Traces
  /\ crashes \in Nat
  /\ ran \in [Traces -> SUBSET Nodes]
  /\ reran \in [Traces -> SUBSET Nodes]
  /\ emitted \in [Traces -> [Nodes -> Outputs \cup {NoPort}]]

Unlogged == [open |-> FALSE, done |-> {}, suspended |-> NoNode]
NoOutputs == [n \in Nodes |-> NoPort]
NoTasks == [n \in Nodes |-> "none"]

Init ==
  /\ live = {}
  /\ out = [t \in Traces |-> NoOutputs]
  /\ phase = [t \in Traces |-> "new"]
  /\ tasks = [t \in Traces |-> NoTasks]
  /\ result = [t \in Traces |-> NoOutputs]
  /\ spawned = [t \in Traces |-> {}]
  /\ wait = [t \in Traces |-> NoNode]
  /\ store = [n \in Nodes |-> NoTrace]
  /\ resuming = {}
  /\ logged = [t \in Traces |-> Unlogged] /\ flushed = logged
  /\ arena = [t \in Traces |-> "none"]
  /\ recovering = {}
  /\ crashes = 0
  /\ ran = [t \in Traces |-> {}]
  /\ reran = [t \in Traces |-> {}]
  /\ emitted = [t \in Traces |-> NoOutputs]

-----------------------------------------------------------------------------
(* TraceState.                                                              *)

Predecessors(n) == {e.from : e \in {x \in Edges : x.to = n}}
Completed(t) == {n \in Nodes : out[t][n] # NoPort}

\* TraceState::has_pending_input
HasPendingInput(t, n) == \E e \in Edges : e.to = n /\ out[t][e.from] = e.port

\* Mutant: one completed predecessor is enough.
IsNodeReadyEarly(t, n) == n \notin Completed(t) /\ (n \in Entries \/ HasPendingInput(t, n))

(* TraceState::is_node_ready.  A node that was spawned and not completed is *)
(* in TraceState::executing; a fresh TraceState has none there.             *)
IsNodeReady(t, n) ==
  /\ n \notin Completed(t)
  /\ n \in Entries \/ (HasPendingInput(t, n) /\ Predecessors(n) \subseteq Completed(t))

\* Executor::find_ready_nodes
Ready(t) == {n \in Nodes \ spawned[t] : IsNodeReady(t, n)}

Pending(t) == {n \in Nodes : tasks[t][n] # "none"}

-----------------------------------------------------------------------------
(* WalReader::apply_record_to_traces: TraceStart opens, TraceComplete       *)
(* removes, and the other records count only for a trace that is open.      *)

Apply(t, rec) == IF logged[t].open THEN [logged EXCEPT ![t] = rec] ELSE logged

WithStart(t) == [logged EXCEPT ![t] = [Unlogged EXCEPT !.open = TRUE]]
WithDone(t, n) == Apply(t, [logged[t] EXCEPT !.done = @ \cup {n}])
WithSuspended(t, n) == Apply(t, [logged[t] EXCEPT !.suspended = n])
\* Mutant: TraceResumed is replayed like TraceStart.
WithResumedAfresh(t) == Apply(t, [Unlogged EXCEPT !.open = TRUE])
WithResumed(t) == Apply(t, [logged[t] EXCEPT !.suspended = NoNode])
WithComplete(t) == Apply(t, Unlogged)

(* Wal::write, after which the accepted records amount to l: all of them    *)
(* are in the files, or the last ones are left in the BufWriter.            *)
Append(l) ==
  /\ logged' = l
  /\ flushed' \in IF LogBuffered THEN {l, flushed} ELSE {l}

Goto(t, p) == phase' = [phase EXCEPT ![t] = p]

(* A write that fails and whose error the driver returns at once.  When     *)
(* only the sync failed, the record is there all the same.                  *)
WalError(t, l) ==
  /\ WalFails
  /\ Append(l) \/ UNCHANGED log
  /\ Goto(t, "ended")
  /\ UNCHANGED <<live, out, tasks, result, spawned, wait, store, resuming,
                 arena, recovering, crashes, history>>

-----------------------------------------------------------------------------
(* Executor::start_trace.                                                   *)

\* The limit is checked against the map as it is now.
Admit(t) ==
  /\ phase[t] = "new" /\ recovering = {}
  /\ Cardinality(live) < MaxTraces
  /\ Goto(t, "admitted")
  /\ UNCHANGED <<live, out, tasks, result, spawned, wait, store, resuming,
                 log, arena, recovering, crashes, history>>

\* Arena::create, then insertion into the map.
Insert(t) ==
  /\ phase[t] = "admitted"
  /\ live' = live \cup {t}
  /\ arena' = [arena EXCEPT ![t] = "locked"]
  /\ Goto(t, "inserted")
  /\ UNCHANGED <<out, tasks, result, spawned, wait, store, resuming, log,
                 recovering, crashes, history>>

\* The TraceStart record; execute_trace follows.
Start(t) ==
  /\ phase[t] = "inserted"
  /\ \/ /\ Append(WithStart(t))
        /\ Goto(t, "loop")
        /\ UNCHANGED <<live, out, tasks, result, spawned, wait, store, resuming,
                       arena, recovering, crashes, history>>
     \/ WalError(t, WithStart(t))

-----------------------------------------------------------------------------
(* Executor::execute_trace.                                                 *)

\* Mutant: done as soon as no node is ready, whatever is still running.
SpawnImpatient(t) ==
  /\ phase[t] = "loop" /\ t \in live
  /\ tasks' = [tasks EXCEPT ![t] =
                 [n \in Nodes |-> IF n \in Ready(t) THEN "queued" ELSE tasks[t][n]]]
  /\ spawned' = [spawned EXCEPT ![t] = @ \cup Ready(t)]
  /\ Goto(t, IF Ready(t) = {} THEN "finalize" ELSE "join")
  /\ UNCHANGED <<live, out, result, wait, store, resuming, log, arena,
                 recovering, crashes, history>>

\* One round: find_ready_nodes, spawn them all, stop if nothing is left.
Spawn(t) ==
  /\ phase[t] = "loop" /\ t \in live
  /\ tasks' = [tasks EXCEPT ![t] =
                 [n \in Nodes |-> IF n \in Ready(t) THEN "queued" ELSE tasks[t][n]]]
  /\ spawned' = [spawned EXCEPT ![t] = @ \cup Ready(t)]
  /\ Goto(t, IF Ready(t) \cup Pending(t) = {} THEN "finalize" ELSE "join")
  /\ UNCHANGED <<live, out, result, wait, store, resuming, log, arena,
                 recovering, crashes, history>>

\* "Trace not found": Executor::shutdown has removed the trace.
SpawnMissing(t) ==
  /\ phase[t] = "loop" /\ t \notin live
  /\ Goto(t, "ended")
  /\ UNCHANGED <<live, out, tasks, result, spawned, wait, store, resuming,
                 log, arena, recovering, crashes, history>>

\* The tasks that hold a permit.
Running(t) == {n \in Nodes : tasks[t][n] \in {"running", "ran"}}

\* A task obtains its permit of the semaphore.
Acquire(t, n) ==
  /\ tasks[t][n] = "queued"
  /\ Cardinality(Running(t)) < MaxNodes
  /\ tasks' = [tasks EXCEPT ![t][n] = "running"]
  /\ UNCHANGED <<live, out, phase, result, spawned, wait, store, resuming,
                 log, arena, recovering, crashes, history>>

(* Node::execute with its effects on the world; Err and the timeout are     *)
(* both "fail".                                                             *)
Execute(t, n, r) ==
  /\ tasks[t][n] = "running"
  /\ r \in Outcomes[n]
  /\ tasks' = [tasks EXCEPT ![t][n] = "ran"]
  /\ result' = [result EXCEPT ![t][n] = r]
  /\ ran' = [ran EXCEPT ![t] = @ \cup {n}]
  /\ reran' = [reran EXCEPT ![t] = @ \cup ({n} \cap ran[t])]
  /\ emitted' = IF r \in Outputs THEN [emitted EXCEPT ![t][n] = r] ELSE emitted
  /\ UNCHANGED <<live, out, phase, spawned, wait, store, resuming, log,
                 arena, recovering, crashes>>

\* Mutant: a failed write of the record is ignored.
LogResultIgnored(t, n) ==
  /\ tasks[t][n] = "ran"
  /\ tasks' = [tasks EXCEPT ![t][n] = "done"]
  /\ \/ result[t][n] \in Ports /\ Append(WithDone(t, n))
     \/ (WalFails \/ result[t][n] \notin Ports) /\ UNCHANGED log
  /\ UNCHANGED <<live, out, phase, result, spawned, wait, store, resuming, arena,
                 recovering, crashes, history>>

(* The record for the result: NodeDone for a Complete output.  NodeError    *)
(* leaves no trace in the recovery state and Suspend is not logged here.    *)
LogResult(t, n) ==
  /\ tasks[t][n] = "ran"
  /\ tasks' = [tasks EXCEPT ![t][n] = "done"]
  /\ \/ /\ result[t][n] \in Ports
        /\ Append(WithDone(t, n))
        /\ UNCHANGED result
     \/ /\ result[t][n] \notin Ports
        /\ UNCHANGED <<result, log>>
     \/ /\ WalFails /\ result[t][n] \notin {"suspend", "panic"}
        /\ result' = [result EXCEPT ![t][n] = "fail"]
        /\ \/ result[t][n] \in Ports /\ Append(WithDone(t, n))
           \/ UNCHANGED log
  /\ UNCHANGED <<live, out, phase, spawned, wait, store, resuming, arena,
                 recovering, crashes, history>>

(* After abort_all or the end of execute_trace a task is cancelled at its   *)
(* next suspension point; until then it goes on.                            *)
Cancel(t, n) ==
  /\ phase[t] = "ended" /\ tasks[t][n] \in {"queued", "running", "done"}
  /\ tasks' = [tasks EXCEPT ![t][n] = "none"]
  /\ UNCHANGED <<live, out, phase, result, spawned, wait, store, resuming,
                 log, arena, recovering, crashes, history>>

\* TraceState::record_output, if the trace is still in the map.
RecordOutput(t, n) ==
  out' = IF t \in live /\ result[t][n] \in Outputs
         THEN [out EXCEPT ![t][n] = result[t][n]] ELSE out

\* join_next and process_node_result for a Complete or Error output.
JoinOutput(t, n) ==
  /\ phase[t] = "join" /\ tasks[t][n] = "done" /\ result[t][n] \in Outputs
  /\ RecordOutput(t, n)
  /\ tasks' = [tasks EXCEPT ![t][n] = "none"]
  /\ Goto(t, "loop")
  /\ UNCHANGED <<live, result, spawned, wait, store, resuming, log, arena,
                 recovering, crashes, history>>

(* A node failed or panicked: abort_all, remove the trace and delete its    *)
(* arena.  No record is written for the trace.                              *)
JoinFailure(t, n) ==
  /\ phase[t] = "join" /\ tasks[t][n] = "done" /\ result[t][n] \in {"fail", "panic"}
  /\ tasks' = [tasks EXCEPT ![t][n] = "none"]
  /\ live' = live \ {t}
  /\ arena' = IF t \in live THEN [arena EXCEPT ![t] = "none"] ELSE arena
  /\ Goto(t, "ended")
  /\ UNCHANGED <<out, result, spawned, wait, store, resuming, log,
                 recovering, crashes, history>>

JoinSuspend(t, n) ==
  /\ phase[t] = "join" /\ tasks[t][n] = "done" /\ result[t][n] = "suspend"
  /\ tasks' = [tasks EXCEPT ![t][n] = "none"]
  /\ wait' = [wait EXCEPT ![t] = n]
  /\ Goto(t, "drain")
  /\ UNCHANGED <<live, out, result, spawned, store, resuming, log, arena,
                 recovering, crashes, history>>

\* The other tasks are awaited; failures and further suspensions are dropped.
Drain(t, n) ==
  /\ phase[t] = "drain" /\ tasks[t][n] = "done"
  /\ RecordOutput(t, n)
  /\ tasks' = [tasks EXCEPT ![t][n] = "none"]
  /\ UNCHANGED <<live, phase, result, spawned, wait, store, resuming, log,
                 arena, recovering, crashes, history>>

-----------------------------------------------------------------------------
(* Executor::suspend_trace.                                                 *)

\* Mutant: the other tasks are not awaited.
SuspendCheckUndrained(t) ==
  /\ phase[t] = "drain"
  /\ Goto(t, IF t \in live /\ store[wait[t]] = NoTrace THEN "storing" ELSE "ended")
  /\ UNCHANGED <<live, out, tasks, result, spawned, wait, store, resuming,
                 log, arena, recovering, crashes, history>>

\* Mutant: a hook that is in use is waited for.
SuspendCheckPatient(t) ==
  /\ phase[t] = "drain" /\ Pending(t) = {}
  /\ t \in live => store[wait[t]] = NoTrace
  /\ Goto(t, IF t \in live THEN "storing" ELSE "ended")
  /\ UNCHANGED <<live, out, tasks, result, spawned, wait, store, resuming,
                 log, arena, recovering, crashes, history>>

(* The trace is looked up and MemorySuspensionStore::suspend checks, under  *)
(* its read lock, that the hook is free.  Either failure is returned as it  *)
(* is: a trace that cannot be suspended stays in the map.                   *)
SuspendCheck(t) ==
  /\ phase[t] = "drain" /\ Pending(t) = {}
  /\ Goto(t, IF t \in live /\ store[wait[t]] = NoTrace THEN "storing" ELSE "ended")
  /\ UNCHANGED <<live, out, tasks, result, spawned, wait, store, resuming,
                 log, arena, recovering, crashes, history>>

\* The insertion, under the write lock.
SuspendInsert(t) ==
  /\ phase[t] = "storing"
  /\ store' = [store EXCEPT ![wait[t]] = t]
  /\ Goto(t, "storelog")
  /\ UNCHANGED <<live, out, tasks, result, spawned, wait, resuming, log,
                 arena, recovering, crashes, history>>

SuspendLog(t) ==
  /\ phase[t] = "storelog"
  /\ \/ /\ Append(WithSuspended(t, wait[t]))
        /\ Goto(t, "leaving")
        /\ UNCHANGED <<live, out, tasks, result, spawned, wait, store, resuming,
                       arena, recovering, crashes, history>>
     \/ WalError(t, WithSuspended(t, wait[t]))

\* Mutant: the arena is deleted as it is for a completed trace.
SuspendLeaveDeleting(t) ==
  /\ phase[t] = "leaving"
  /\ live' = live \ {t}
  /\ arena' = [arena EXCEPT ![t] = "none"]
  /\ Goto(t, "suspended")
  /\ UNCHANGED <<out, tasks, result, spawned, wait, store, resuming, log,
                 recovering, crashes, history>>

\* The map entry goes, and with it the open arena.
SuspendLeave(t) ==
  /\ phase[t] = "leaving"
  /\ live' = live \ {t}
  /\ arena' = IF t \in live THEN [arena EXCEPT ![t] = "file"] ELSE arena
  /\ Goto(t, "suspended")
  /\ UNCHANGED <<out, tasks, result, spawned, wait, store, resuming, log,
                 recovering, crashes, history>>

-----------------------------------------------------------------------------
(* Executor::finalize_trace.                                                *)

FinalizeLog(t) ==
  /\ phase[t] = "finalize"
  /\ \/ /\ Append(WithComplete(t))
        /\ Goto(t, "closing")
        /\ UNCHANGED <<live, out, tasks, result, spawned, wait, store, resuming,
                       arena, recovering, crashes, history>>
     \/ WalError(t, WithComplete(t))

FinalizeLeave(t) ==
  /\ phase[t] = "closing"
  /\ live' = live \ {t}
  /\ arena' = IF t \in live THEN [arena EXCEPT ![t] = "none"] ELSE arena
  /\ Goto(t, "completed")
  /\ UNCHANGED <<out, tasks, result, spawned, wait, store, resuming, log,
                 recovering, crashes, history>>

-----------------------------------------------------------------------------
(* Executor::resume_suspended_trace.                                        *)

\* Mutant: a hook nobody waits at is resumed all the same.
TakeHookBlindly(n, port) ==
  /\ recovering = {} /\ port \in Decisions
  /\ resuming' = resuming \cup {[trace |-> store[n], node |-> n, port |-> port]}
  /\ store' = [store EXCEPT ![n] = NoTrace]
  /\ UNCHANGED <<live, out, phase, tasks, result, spawned, wait, log, arena,
                 recovering, crashes, history>>

\* SuspensionStore::resume takes the entry out, as soon as it is there.
TakeHook(n, port) ==
  /\ store[n] # NoTrace /\ recovering = {}
  /\ EarlyAnswers \/ phase[store[n]] = "suspended"
  /\ port \in Decisions
  /\ resuming' = resuming \cup {[trace |-> store[n], node |-> n, port |-> port]}
  /\ store' = [store EXCEPT ![n] = NoTrace]
  /\ UNCHANGED <<live, out, phase, tasks, result, spawned, wait, log, arena,
                 recovering, crashes, history>>

\* Mutant: the completed nodes of the log are not restored.
RestoredNothing(t) == NoOutputs
(* What from_recovery is given: every completion the log files hold, on     *)
(* port "out", whatever the port of the node's output was.                  *)
Restored(t) ==
  [n \in Nodes |-> IF flushed[t].open /\ n \in flushed[t].done THEN "out" ELSE NoPort]

\* A TraceState built from the log, with o as its outputs, enters the map.
Reenter(t, o) ==
  /\ live' = live \cup {t}
  /\ arena' = [arena EXCEPT ![t] = "locked"]
  /\ out' = [out EXCEPT ![t] = o]
  /\ tasks' = [tasks EXCEPT ![t] = NoTasks]
  /\ result' = [result EXCEPT ![t] = NoOutputs]
  /\ spawned' = [spawned EXCEPT ![t] = {}]
  /\ wait' = [wait EXCEPT ![t] = NoNode]
  /\ Goto(t, "resumed")

\* Mutant: the wait node is left to be executed again.
ResumeOpenWaiting(r) ==
  /\ r \in resuming /\ arena[r.trace] = "file"
  /\ resuming' = resuming \ {r}
  /\ Reenter(r.trace, Restored(r.trace))
  /\ emitted' = [emitted EXCEPT ![r.trace][r.node] = r.port]
  /\ UNCHANGED <<store, log, recovering, crashes, ran, reran>>

\* Mutant: the wait node comes out on its default port.
ResumeOpenDefault(r) ==
  /\ r \in resuming /\ arena[r.trace] = "file"
  /\ resuming' = resuming \ {r}
  /\ Reenter(r.trace, [Restored(r.trace) EXCEPT ![r.node] = "out"])
  /\ emitted' = [emitted EXCEPT ![r.trace][r.node] = r.port]
  /\ UNCHANGED <<store, log, recovering, crashes, ran, reran>>

(* Arena::open, then the state from the log with the wait node completed by *)
(* the decision.                                                            *)
ResumeOpen(r) ==
  /\ r \in resuming /\ arena[r.trace] = "file"
  /\ resuming' = resuming \ {r}
  /\ Reenter(r.trace, [Restored(r.trace) EXCEPT ![r.node] = r.port])
  /\ emitted' = [emitted EXCEPT ![r.trace][r.node] = r.port]
  /\ UNCHANGED <<store, log, recovering, crashes, ran, reran>>

(* Arena::open finds the file locked or gone, or the log cannot be read;    *)
(* the entry is not put back.                                               *)
ResumeFails(r) ==
  /\ r \in resuming /\ (arena[r.trace] # "file" \/ WalFails)
  /\ resuming' = resuming \ {r}
  /\ UNCHANGED <<live, out, phase, tasks, result, spawned, wait, store, log,
                 arena, recovering, crashes, history>>

\* The TraceResumed record, for both kinds of resumption.
ResumeLog(t) ==
  /\ phase[t] = "resumed"
  /\ \/ /\ Append(WithResumed(t))
        /\ Goto(t, "loop")
        /\ UNCHANGED <<live, out, tasks, result, spawned, wait, store, resuming,
                       arena, recovering, crashes, history>>
     \/ WalError(t, WithResumed(t))

(* TimeoutProcessor::process_expired resumes the entry in the store and     *)
(* publishes an event; nothing in the repository drives the trace from it.  *)
Expire(n) ==
  /\ Expiry /\ store[n] # NoTrace
  /\ store' = [store EXCEPT ![n] = NoTrace]
  /\ UNCHANGED <<live, out, phase, tasks, result, spawned, wait, resuming,
                 log, arena, recovering, crashes, history>>

-----------------------------------------------------------------------------
(* Executor::shutdown, crashes, and CrashReplayer::recover_all.             *)

(* Every trace of the map is removed and its arena deleted.  suspend_trace  *)
(* holds a reference into the map while it stores and logs; removal waits   *)
(* for it.                                                                  *)
Shutdown ==
  /\ ShutdownAllowed /\ live # {}
  /\ \A t \in live : phase[t] \notin {"storing", "storelog"}
  /\ live' = {}
  /\ arena' = [t \in Traces |-> IF t \in live THEN "none" ELSE arena[t]]
  /\ UNCHANGED <<out, phase, tasks, result, spawned, wait, store, resuming,
                 log, recovering, crashes, history>>

(* The process dies.  The log and the arena files are what is left; the     *)
(* suspension store is a MemorySuspensionStore.  The next process starts    *)
(* with recover_all.                                                        *)
Crash ==
  /\ crashes < MaxCrashes
  /\ crashes' = crashes + 1
  /\ live' = {} /\ resuming' = {}
  /\ out' = [t \in Traces |-> NoOutputs]
  /\ phase' = [t \in Traces |->
                 IF phase[t] \in {"new", "completed"} THEN phase[t] ELSE "down"]
  /\ tasks' = [t \in Traces |-> NoTasks]
  /\ result' = [t \in Traces |-> NoOutputs]
  /\ spawned' = [t \in Traces |-> {}]
  /\ wait' = [t \in Traces |-> NoNode]
  /\ store' = [n \in Nodes |-> NoTrace]
  /\ arena' = [t \in Traces |-> IF arena[t] = "locked" THEN "file" ELSE arena[t]]
  /\ recovering' = {t \in Traces : flushed[t].open}
  /\ logged' = flushed
  /\ UNCHANGED <<flushed, history>>

\* Mutant: a trace that is suspended holds up the ones after it.
TurnBlocked(t) ==
  t \in recovering /\ \A u \in Traces : phase[u] \notin Busy \cup {"suspended"}
\* recover_all awaits one trace before it turns to the next.
Turn(t) == t \in recovering /\ \A u \in Traces : phase[u] \notin Busy

\* Mutant: the suspension is reported and not put back into the store.
RecoverSuspendedUnstored(t) ==
  /\ Turn(t) /\ logged[t].suspended # NoNode
  /\ recovering' = recovering \ {t}
  /\ Goto(t, "suspended")
  /\ UNCHANGED <<live, out, tasks, result, spawned, wait, store, resuming, log,
                 arena, crashes, history>>

\* determine_action: AwaitResume; restore_suspended_trace.
RecoverSuspended(t) ==
  /\ Turn(t) /\ logged[t].suspended # NoNode
  /\ recovering' = recovering \ {t}
  /\ store' = IF store[logged[t].suspended] = NoTrace
              THEN [store EXCEPT ![logged[t].suspended] = t] ELSE store
  /\ Goto(t, "suspended")
  /\ UNCHANGED <<live, out, tasks, result, spawned, wait, resuming, log,
                 arena, crashes, history>>

\* determine_action: ResumeFrom; load_arena and Executor::resume_trace.
RecoverResume(t) ==
  /\ Turn(t) /\ logged[t].suspended = NoNode
  /\ arena[t] = "file" /\ Cardinality(live) < MaxTraces
  /\ recovering' = recovering \ {t}
  /\ Reenter(t, Restored(t))
  /\ UNCHANGED <<store, resuming, log, crashes, history>>

\* load_arena or the limit stops it: reported as skipped, nothing recorded.
RecoverSkip(t) ==
  /\ Turn(t) /\ logged[t].suspended = NoNode
  /\ arena[t] # "file" \/ Cardinality(live) >= MaxTraces
  /\ recovering' = recovering \ {t}
  /\ Goto(t, "lost")
  /\ UNCHANGED <<live, out, tasks, result, spawned, wait, store, resuming,
                 log, arena, crashes, history>>

-----------------------------------------------------------------------------
\* What the runtime schedules for a trace once it has been admitted.
Step(t) ==
  \/ Insert(t) \/ Start(t) \/ Spawn(t) \/ SpawnMissing(t)
  \/ SuspendCheck(t) \/ SuspendInsert(t) \/ SuspendLog(t) \/ SuspendLeave(t)
  \/ FinalizeLog(t) \/ FinalizeLeave(t) \/ ResumeLog(t)
  \/ \E n \in Nodes : \/ JoinOutput(t, n) \/ JoinFailure(t, n)
                      \/ JoinSuspend(t, n) \/ Drain(t, n)

TaskStep(t, n) ==
  \/ Acquire(t, n)
  \/ \E r \in Results : Execute(t, n, r)
  \/ LogResult(t, n)

Recover(t) == RecoverSuspended(t) \/ RecoverResume(t) \/ RecoverSkip(t)
Resume == \E r \in resuming : ResumeOpen(r) \/ ResumeFails(r)

Next ==
  \/ \E t \in Traces : Admit(t) \/ Step(t) \/ Recover(t)
  \/ \E t \in Traces, n \in Nodes : TaskStep(t, n) \/ Cancel(t, n)
  \/ \E n \in Nodes, port \in Decisions : TakeHook(n, port)
  \/ Resume
  \/ \E n \in Nodes : Expire(n)
  \/ Shutdown
  \/ Crash

Spec == Init /\ [][Next]_vars

(* The runtime polls every driver and every task; execute_single_node puts  *)
(* a timeout on the node, so an execution ends.  Nothing is assumed of the  *)
(* outside world: events, decisions, expiry, shutdown and crashes.          *)
Fairness ==
  /\ \A t \in Traces : WF_vars(Step(t)) /\ WF_vars(Recover(t))
  /\ \A t \in Traces, n \in Nodes : WF_vars(TaskStep(t, n))
  /\ WF_vars(Resume)

FairSpec == Spec /\ Fairness

\* In addition somebody answers every suspension, with port p.
Answered(p) == \A n \in Nodes : WF_vars(TakeHook(n, p))
AnsweredSpec == FairSpec /\ Answered("out")

-----------------------------------------------------------------------------
(***************************************************************************)
(* "Complete nodes skip execution" (README.md): a node whose NodeDone is   *)
(* in the log is neither queued nor running, in the process that wrote the *)
(* record, after a resumption, and after a crash.                          *)
(***************************************************************************)
LoggedNotRerun ==
  \A t \in Traces, n \in Nodes :
    tasks[t][n] \in {"queued", "running"} => n \notin logged[t].done

(***************************************************************************)
(* find_ready_nodes with is_node_ready: a node has been executed only if   *)
(* every predecessor has, across suspensions and crashes, although the     *)
(* state of a resumed trace is rebuilt from the log.                       *)
(***************************************************************************)
PredecessorsFirst ==
  \A t \in Traces : \A n \in ran[t] \ Entries : Predecessors(n) \subseteq ran[t]

(***************************************************************************)
(* "The WAL records node completions before execution continues"           *)
(* (README.md), for nodes that neither suspend nor return an error output: *)
(* by the time a successor is executed, the predecessor is in the log, or  *)
(* the log says the trace is over.  (Wait nodes and error outputs are      *)
(* never logged as done.)                                                  *)
(***************************************************************************)
Logging == {n \in Nodes : Outcomes[n] \cap {"suspend", "error"} = {}}
LoggedBeforeSuccessor ==
  \A t \in Traces : logged[t].open =>
    \A n \in ran[t] \ Entries : Predecessors(n) \cap Logging \subseteq logged[t].done

(***************************************************************************)
(* "Safe to retry traces without duplicating side effects" (README.md), as *)
(* far as no crash is involved: a suspension and the resumption from the   *)
(* log execute no node a second time.                                      *)
(***************************************************************************)
ExecutedOnce == crashes = 0 => \A t \in Traces : reran[t] = {}

(***************************************************************************)
(* No branch is lost: when finalize_trace declares a trace complete, every *)
(* node whose predecessors all completed and one of which really came out  *)
(* on the port of their edge has been executed.                            *)
(***************************************************************************)
Enabled(t, n) ==
  \/ n \in Entries
  \/ /\ \E e \in Edges : e.to = n /\ emitted[t][e.from] = e.port
     /\ \A p \in Predecessors(n) : emitted[t][p] # NoPort
NoBranchLost ==
  \A t \in Traces : phase[t] = "completed" =>
    \A n \in Nodes : Enabled(t, n) => n \in ran[t]

(***************************************************************************)
(* No second driver: the only thing that keeps resume_suspended_trace from *)
(* driving a trace that another task still drives is the lock on the arena *)
(* file.  When a resumption can open the arena, execute_trace is through   *)
(* with the trace and none of its node tasks is left.                      *)
(***************************************************************************)
NoSecondDriver ==
  \A r \in resuming : arena[r.trace] = "file" =>
    phase[r.trace] \notin Busy /\ Pending(r.trace) = {}

(***************************************************************************)
(* An entry of the suspension store belongs to a trace that can be         *)
(* resumed: its arena file is there and its log says it is suspended at    *)
(* that node, or suspend_trace is just about to say so.                    *)
(***************************************************************************)
StoredIsResumable ==
  \A n \in Nodes : store[n] # NoTrace =>
    LET t == store[n]
    IN /\ arena[t] # "none"
       /\ \/ phase[t] = "storelog" /\ wait[t] = n
          \/ logged[t].open /\ logged[t].suspended = n

(***************************************************************************)
(* A suspended trace can be found: an external resume can reach it through *)
(* the store, or a resumption is under way.                                *)
(***************************************************************************)
SuspendedIsStored ==
  \A t \in Traces : phase[t] = "suspended" =>
    \/ \E n \in Nodes : store[n] = t
    \/ \E r \in resuming : r.trace = t

(* Suspensions are kept: both.                                              *)
SuspensionsKept == StoredIsResumable /\ SuspendedIsStored

(***************************************************************************)
(* Whatever a trace is doing, it comes to rest: it completes, fails, or is *)
(* suspended; no trace waits for permits, tasks or recovery for ever.      *)
(***************************************************************************)
TracesSettle == \A t \in Traces : phase[t] \in Busy ~> phase[t] \in Rest

(***************************************************************************)
(* After a crash recover_all visits every incomplete trace.                *)
(***************************************************************************)
RecoveryEnds == (recovering # {}) ~> (recovering = {})

(* Whatever the executor has begun, recovery included, comes to rest.       *)
EverythingSettles == TracesSettle /\ RecoveryEnds

(***************************************************************************)
(* "When resumed via API, the trace continues from the wait node"          *)
(* (docs/suspension-system.md): if every suspension is answered, a trace   *)
(* that has been suspended gets its TraceComplete record or fails, even if *)
(* a crash makes it suspend once more.                                     *)
(***************************************************************************)
AnsweredTracesEnd ==
  \A t \in Traces : phase[t] = "suspended" ~> (~logged[t].open \/ phase[t] = "ended")
=============================================================================
