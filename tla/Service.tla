------------------------------ MODULE Service ------------------------------
(***************************************************************************)
(* The parts of the service around the pipelines that share no state with  *)
(* one another: the request handlers over the controller, the listener     *)
(* pool with its triggers, the limiter and the history of the API, the     *)
(* circuit breaker, the loader of flows, the linker, the standard nodes,   *)
(* the WASM host, access to the API, the resumption of suspended traces,   *)
(* and what tests are run with: the clock, the other mocks and the runner. *)
(* A behaviour is one of one of them, chosen at first.  The smaller parts  *)
(* share the variables s1 to s9, a state having the one or the other.      *)
(***************************************************************************)
EXTENDS Naturals, TLC

CONSTANTS
  Clients,        \* who acts: callers, threads, tasks, processes
  Ids, MaxPipelines, MaxTraces, HistoryCapacity, NoPipeline,
  TriggerIds, Listeners, Kinds, MaxTasks, NoTask,
  MaxPerWindow, Window, MaxClock,
  FailureThreshold, FailureWindow, RecoveryTimeout, SuccessThreshold, MaxTime,
  Flows, MaxNodes, MaxEdges, MaxTriggers, Texts, Paths, Worlds, Jobs, MaxEntries,
  Programs, Hash, Inputs, Environment, Word, MemSize, ArenaSize, CopyBelow, MaxCalls,
  AuthConfigs, Calls, NoKey, MaxHour,
  Hooks, Owner, Decisions, Ports, MaxSuspensions, MaxResumes, MaxDeploys,
  Durations, MaxNow, MaxPolls,
  Root, Up, Here, FsPaths, Data, Rules, Sent, Fallback, MaxUses,
  TestGraphs, Outcomes, Suspend, Err

VARIABLES
  part,
  pipelines, home, life, locked, request, raced,
  registered, listeners, pool_running, handles, call, overlapped,
  owner, task, aborted, told, running, paused, shutdown_tx, batch, kind, open,
  clock, requests, granted, history, traces, firing,
  now, circuit, failures, successes, opened_at, pc, since, contended,
  s1, s2, s3, s4, s5, s6, s7, s8, s9

S == INSTANCE Server
T == INSTANCE Triggers WITH Callers <- Clients
R == INSTANCE ApiState
B == INSTANCE CircuitBreaker WITH Threads <- Clients
F == INSTANCE Flow WITH flow <- s1, stage <- s2, degree <- s3, ready <- s4, sorted <- s5
L == INSTANCE Selectors WITH source <- s1, compiled <- s2
N == INSTANCE Nodes WITH job <- s1, iteration <- s2, emitted <- s3, entries <- s4
W == INSTANCE Wasm WITH Guests <- Clients, cache <- s1, arena <- s2, guest <- s3, said <- s4
A == INSTANCE Access WITH config <- s1, call <- s2, hour <- s3, context <- s4, reply <- s5
E == INSTANCE Resume WITH
       store <- s1, pending <- s2, deployed <- s3, traces <- s4, client <- s5, sweep <- s6,
       serial <- s7, taken <- s8, count <- s9
K == INSTANCE MockClock WITH Sleepers <- Clients, Advancers <- Clients,
       current <- s1, pending <- s2, sleeper <- s3, advancing <- s4, woken <- s5, missed <- s6, robbed <- s7
O == INSTANCE MockWorld WITH Users <- Clients,
       files <- s1, dirs <- s2, rules <- s3, requests <- s4, using <- s5, uses <- s6, answered <- s7,
       crossed <- s8
U == INSTANCE Runner WITH
       graph <- s1, answers <- s2, order <- s3, at <- s4, outputs <- s5, completed_nodes <- s6,
       records <- s7, verdict <- s8

ASSUME ServiceAssumption ==
  /\ S!ServerConstants /\ T!TriggerConstants /\ R!ApiStateConstants /\ B!BreakerConstants
  /\ F!FlowConstants /\ W!WasmConstants /\ A!AccessConstants
  /\ K!ClockConstants /\ O!MockConstants /\ U!RunnerConstants

server == <<pipelines, home, life, locked, request, raced>>
triggers == <<registered, listeners, pool_running, handles, call, overlapped,
              owner, task, aborted, told, running, paused, shutdown_tx, batch, kind, open>>
apistate == <<clock, requests, granted, history, traces, firing>>
breaker == <<now, circuit, failures, successes, opened_at, pc, since, contended>>
others == <<server, triggers, apistate, breaker>>
shared == <<s1, s2, s3, s4, s5, s6, s7, s8, s9>>
vars == <<part, others, shared>>

\* The shared variables from one on, for the parts that need fewer.
From3 == <<s3, s4, s5, s6, s7, s8, s9>>
From5 == <<s5, s6, s7, s8, s9>>
From6 == <<s6, s7, s8, s9>>
From7 == <<s7, s8, s9>>
From8 == <<s8, s9>>

Free9 == s9 = <<>>
Free8 == s8 = <<>> /\ Free9
Free7 == s7 = <<>> /\ Free8
Free6 == s6 = <<>> /\ Free7
Free5 == s5 = <<>> /\ Free6
Free3 == s3 = <<>> /\ s4 = <<>> /\ Free5
Free1 == s1 = <<>> /\ s2 = <<>> /\ Free3

\* What the other parts start from does not matter.
Init ==
  /\ S!Init /\ R!Init /\ B!Init
  /\ T!Init /\ (part # "triggers" => kind = [t \in TriggerIds |-> T!Webhook])
  /\ \/ part \in {"server", "triggers", "state", "breaker"} /\ Free1
     \/ part = "loader" /\ F!Init /\ Free6
     \/ part = "linker" /\ L!Init /\ Free3
     \/ part = "nodes" /\ N!Init /\ Free5
     \/ part = "wasm" /\ W!Init /\ Free5
     \/ part = "access" /\ A!Init /\ Free6
     \/ part = "resume" /\ E!Init
     \/ part = "clock" /\ K!Init /\ Free8
     \/ part = "mocks" /\ O!Init /\ Free9
     \/ part = "runner" /\ U!Init /\ Free9

Parts ==
  {"server", "triggers", "state", "breaker", "loader", "linker", "nodes", "wasm",
   "access", "resume", "clock", "mocks", "runner"}

InitPart == part \in Parts /\ Init

SmallNext ==
  \/ part = "loader" /\ F!Next /\ UNCHANGED From6
  \/ part = "linker" /\ L!Next /\ UNCHANGED From3
  \/ part = "nodes" /\ N!Next /\ UNCHANGED From5
  \/ part = "wasm" /\ W!Next /\ UNCHANGED From5
  \/ part = "access" /\ A!Next /\ UNCHANGED From6
  \/ part = "resume" /\ E!Next
  \/ part = "clock" /\ K!Next /\ UNCHANGED From8
  \/ part = "mocks" /\ O!Next /\ UNCHANGED s9
  \/ part = "runner" /\ U!Next /\ UNCHANGED s9

Next ==
  /\ UNCHANGED part
  /\ \/ part = "server" /\ S!Next /\ UNCHANGED <<triggers, apistate, breaker, shared>>
     \/ part = "triggers" /\ T!Next /\ UNCHANGED <<server, apistate, breaker, shared>>
     \/ part = "state" /\ R!Next /\ UNCHANGED <<server, triggers, breaker, shared>>
     \/ part = "breaker" /\ B!Next /\ UNCHANGED <<server, triggers, apistate, shared>>
     \/ SmallNext /\ UNCHANGED others

Spec == InitPart /\ [][Next]_vars

\* Who acts is interchangeable.
Symmetry == Permutations(Clients)

(* Server: a running pipeline is in the controller's map.                   *)
RunningIsKnown == part = "server" => S!RunningIsKnown

(* Listener pool: no task escapes the pool, and stop ends them.             *)
TasksUnderControl == part = "triggers" => T!TasksUnderControl

(* Rate limiter: no window contains too many requests.                      *)
RateBounded == part = "state" => R!RateBounded

(* Circuit breaker: it is not closed over too many failures, and an open    *)
(* circuit can recover.                                                     *)
BreakerSound == part = "breaker" => B!ClosedMeansHealthy /\ B!OpenCanRecover

(* Loader: what is loaded has its edges and an order, and nothing else is.  *)
LoadedIsSound == part = "loader" => F!LoadedIsSound

(* Nodes: their selectors mean the same to all who read them, the standard  *)
(* nodes do what they are for, and guests in WASM see their inputs and put  *)
(* out what they set.                                                       *)
NodesRight ==
  /\ part = "linker" => L!SelectorsAgree
  /\ part = "nodes" => N!NodesRight
  /\ part = "wasm" => W!WasmRight

(* API: callers get what they may, and nothing else; decisions reach the    *)
(* suspensions they are for.                                                *)
RequestsRight ==
  /\ part = "access" => A!AccessRight
  /\ part = "resume" => E!ResumesRight

(* Tests: sleepers wake, the mocks behave as what they stand for, and the   *)
(* runner agrees with the executor.                                         *)
TestsTell ==
  /\ part = "clock" => K!SleepsEnd
  /\ part = "mocks" => O!MocksBehave
  /\ part = "runner" => U!RunnerAgrees
=============================================================================
