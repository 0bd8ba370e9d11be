------------------------------ MODULE Triggers ------------------------------
(***************************************************************************)
(* The listener pool of xerv-executor (listener/mod.rs) and the triggers   *)
(* of xerv-nodes (triggers/{webhook,cron,queue,manual,memory,kafka,        *)
(* filesystem}) whose loops it spawns.  A trigger's loop runs in a tokio   *)
(* task; it ends when its one-shot channel is used or dropped, or when the *)
(* pool aborts the task.  The pool's own calls are made by several callers *)
(* and await between their steps.                                          *)
(***************************************************************************)
EXTENDS Naturals, FiniteSets

CONSTANTS
  TriggerIds, Listeners, Callers,
  Kinds,       \* the kinds of trigger that are registered, by name
  MaxTasks,    \* bound on the tasks that are spawned
  NoTask

Tasks == 1 .. MaxTasks

(* What sets each kind's Trigger apart: does start refuse to run twice, may *)
(* it fail before or after the running flag is set, may its loop run out of *)
(* events, and does it serve connections in tasks of their own?  The rest,  *)
(* and stop, pause and resume, are alike in all of them.                    *)
Simple == [checks |-> TRUE, may_refuse |-> FALSE, may_break |-> FALSE,
           may_run_out |-> FALSE, detaches |-> FALSE]
Webhook == [Simple EXCEPT !.may_refuse = TRUE, !.detaches = TRUE]
Cron == [Simple EXCEPT !.may_run_out = TRUE]
Queue == Simple
Manual == Simple
Memory == Simple
Kafka == [Simple EXCEPT !.checks = FALSE, !.may_break = TRUE, !.may_run_out = TRUE]
Filesystem == [Simple EXCEPT !.may_refuse = TRUE, !.may_break = TRUE]

AllKinds ==
  [webhook |-> Webhook, cron |-> Cron, queue |-> Queue, manual |-> Manual, memory |-> Memory,
   kafka |-> Kafka, filesystem |-> Filesystem]
KindsOf(names) == {AllKinds[k] : k \in names}

TriggerConstants == MaxTasks \in Nat /\ NoTask \notin Tasks /\ Kinds \subseteq DOMAIN AllKinds

VARIABLES
  registered,  \* ListenerPool::triggers
  listeners,   \* trigger -> its listeners
  pool_running,
  handles,     \* task_handles
  call,        \* caller -> [op, todo, at]: the pool call it makes
  overlapped,  \* has a start ever overlapped another call?
  owner,       \* task -> its trigger
  task,        \* task -> how far it has come
  aborted,     \* tasks whose handle was aborted
  told,        \* tasks whose shutdown channel was used or dropped
  running, paused, shutdown_tx,   \* trigger -> its TriggerState
  batch,       \* task -> listeners still to be called with its event
  kind,        \* trigger -> its kind
  open         \* tasks of webhooks that have accepted a connection

pool == <<registered, listeners, pool_running, handles, call, overlapped>>
loops == <<owner, task, aborted, told, running, paused, shutdown_tx, batch, kind, open>>
vars == <<pool, loops>>

Idle == [op |-> "none", todo |-> {}, at |-> NoTask]

TypeOK ==
  /\ registered \subseteq TriggerIds
  /\ listeners \in [TriggerIds -> SUBSET Listeners]
  /\ pool_running \in BOOLEAN /\ handles \subseteq Tasks
  /\ call \in [Callers -> [op : {"none", "start", "stop", "remove"},
                           todo : SUBSET TriggerIds, at : Tasks \cup {NoTask}]]
  /\ overlapped \in BOOLEAN
  /\ owner \in [Tasks -> TriggerIds]
  /\ task \in [Tasks -> {"none", "spawned", "checked", "set", "opening", "loop",
                         "ending", "dead"}]
  /\ aborted \subseteq Tasks /\ told \subseteq Tasks
  /\ running \in [TriggerIds -> BOOLEAN] /\ paused \in [TriggerIds -> BOOLEAN]
  /\ shutdown_tx \in [TriggerIds -> Tasks \cup {NoTask}]
  /\ batch \in [Tasks -> SUBSET Listeners]
  /\ kind \in [TriggerIds -> KindsOf(Kinds)] /\ open \subseteq Tasks

Init ==
  /\ registered = TriggerIds /\ listeners = [t \in TriggerIds |-> {}]
  /\ pool_running = FALSE /\ handles = {}
  /\ call = [c \in Callers |-> Idle] /\ overlapped = FALSE
  /\ owner = [k \in Tasks |-> CHOOSE t \in TriggerIds : TRUE]
  /\ task = [k \in Tasks |-> "none"]
  /\ aborted = {} /\ told = {}
  /\ running = [t \in TriggerIds |-> FALSE] /\ paused = [t \in TriggerIds |-> FALSE]
  /\ shutdown_tx = [t \in TriggerIds |-> NoTask]
  /\ batch = [k \in Tasks |-> {}]
  /\ kind \in [TriggerIds -> KindsOf(Kinds)] /\ open = {}

-----------------------------------------------------------------------------
(* Registration and subscription.                                           *)

Register(t) ==
  /\ t \notin registered
  /\ registered' = registered \cup {t}
  /\ UNCHANGED <<listeners, pool_running, handles, call, overlapped, loops>>

Subscribe(t, l) ==
  /\ t \in registered /\ \A u \in TriggerIds : l \notin listeners[u]
  /\ listeners' = [listeners EXCEPT ![t] = @ \cup {l}]
  /\ UNCHANGED <<registered, pool_running, handles, call, overlapped, loops>>

Unsubscribe(l) ==
  /\ \E t \in TriggerIds :
       /\ l \in listeners[t]
       /\ listeners' = [listeners EXCEPT ![t] = @ \ {l}]
  /\ UNCHANGED <<registered, pool_running, handles, call, overlapped, loops>>

-----------------------------------------------------------------------------
(* ListenerPool::start.                                                     *)

Busy == {c \in Callers : call[c].op # "none"}

Begin(c, op, todo) ==
  /\ call[c].op = "none"
  /\ call' = [call EXCEPT ![c] = [op |-> op, todo |-> todo, at |-> NoTask]]
  /\ overlapped' = (overlapped \/ Busy # {})

Finish(c) == call' = [call EXCEPT ![c] = Idle]

StartPool(c) ==
  /\ ~pool_running /\ Begin(c, "start", registered)
  /\ pool_running' = TRUE
  /\ UNCHANGED <<registered, listeners, handles, loops>>

\* Per trigger: give up if stop was called meanwhile, or spawn its loop.
StartSpawn(c) ==
  /\ call[c].op = "start" /\ call[c].at = NoTask
  /\ IF call[c].todo = {} \/ ~pool_running
     THEN Finish(c) /\ UNCHANGED <<owner, task>>
     ELSE \E t \in call[c].todo, k \in Tasks :
            /\ task[k] = "none" /\ \A j \in 1 .. k - 1 : task[j] # "none"
            /\ owner' = [owner EXCEPT ![k] = t]
            /\ task' = [task EXCEPT ![k] = "spawned"]
            /\ call' = [call EXCEPT ![c].todo = @ \ {t}, ![c].at = k]
  /\ UNCHANGED <<registered, listeners, pool_running, handles, overlapped, aborted, told,
                 running, paused, shutdown_tx, batch, kind, open>>

\* Mutant: only the last handle is remembered.
StartPushOne(c) ==
  /\ call[c].op = "start" /\ call[c].at # NoTask
  /\ handles' = {call[c].at}
  /\ call' = [call EXCEPT ![c].at = NoTask]
  /\ UNCHANGED <<registered, listeners, pool_running, overlapped, loops>>

StartPush(c) ==
  /\ call[c].op = "start" /\ call[c].at # NoTask
  /\ handles' = handles \cup {call[c].at}
  /\ call' = [call EXCEPT ![c].at = NoTask]
  /\ UNCHANGED <<registered, listeners, pool_running, overlapped, loops>>

-----------------------------------------------------------------------------
(* ListenerPool::stop and remove_trigger.                                   *)

StopPool(c) ==
  /\ pool_running /\ Begin(c, "stop", registered)
  /\ pool_running' = FALSE
  /\ UNCHANGED <<registered, listeners, handles, loops>>

\* Trigger::stop: use the channel, if there is one, and clear the flag.
StopTrigger(t) ==
  /\ told' = IF shutdown_tx[t] = NoTask THEN told ELSE told \cup {shutdown_tx[t]}
  /\ shutdown_tx' = [shutdown_tx EXCEPT ![t] = NoTask]
  /\ running' = [running EXCEPT ![t] = FALSE]

StopOne(c) ==
  /\ call[c].op = "stop"
  /\ \E t \in call[c].todo :
       StopTrigger(t) /\ call' = [call EXCEPT ![c].todo = @ \ {t}]
  /\ UNCHANGED <<registered, listeners, pool_running, handles, overlapped, owner, task,
                 aborted, paused, batch, kind, open>>

\* Mutant: the tasks are left to their shutdown channels.
StopAbortNone(c) ==
  /\ call[c].op = "stop" /\ call[c].todo = {}
  /\ Finish(c)
  /\ UNCHANGED <<registered, listeners, pool_running, handles, overlapped, loops>>

StopAbort(c) ==
  /\ call[c].op = "stop" /\ call[c].todo = {}
  /\ aborted' = aborted \cup handles /\ handles' = {}
  /\ Finish(c)
  /\ UNCHANGED <<registered, listeners, pool_running, overlapped, owner, task, told,
                 running, paused, shutdown_tx, batch, kind, open>>

\* remove_trigger stops the trigger if its flag says that it is running.
RemoveStop(c) ==
  \E t \in registered :
    /\ Begin(c, "remove", {t})
    /\ IF running[t] THEN StopTrigger(t) ELSE UNCHANGED <<told, shutdown_tx, running>>
    /\ UNCHANGED <<registered, listeners, pool_running, handles, owner, task, aborted,
                   paused, batch, kind, open>>

RemoveErase(c) ==
  /\ call[c].op = "remove"
  /\ registered' = registered \ call[c].todo
  /\ listeners' = [t \in TriggerIds |-> IF t \in call[c].todo THEN {} ELSE listeners[t]]
  /\ Finish(c)
  /\ UNCHANGED <<pool_running, handles, overlapped, loops>>

\* pause and resume, of the pool or of one trigger, only set the flags.
Pausing(t) ==
  /\ t \in registered /\ paused' = [paused EXCEPT ![t] = ~@]
  /\ UNCHANGED <<pool, owner, task, aborted, told, running, shutdown_tx, batch, kind, open>>

-----------------------------------------------------------------------------
(* Trigger::start, in its task.                                             *)

Step(k, from, to) == task[k] = from /\ task' = [task EXCEPT ![k] = to]
Is(k) == kind[owner[k]]
flags == <<running, paused, shutdown_tx>>
fixed == <<owner, kind>>

\* "already running", an address that cannot be bound, a path that is not there.
TaskCheck(k) ==
  /\ LET twice == Is(k).checks /\ running[owner[k]] IN
       \/ Step(k, "spawned", "dead") /\ (Is(k).may_refuse \/ twice)
       \/ Step(k, "spawned", "checked") /\ ~twice
  /\ UNCHANGED <<pool, fixed, aborted, told, flags, batch, open>>

TaskSet(k) ==
  /\ Step(k, "checked", "set")
  /\ running' = [running EXCEPT ![owner[k]] = TRUE]
  /\ UNCHANGED <<pool, fixed, aborted, told, paused, shutdown_tx, batch, open>>

\* Storing the new sender drops the old one, which ends the older loop.
TaskChannel(k) ==
  /\ Step(k, "set", "opening")
  /\ told' = IF shutdown_tx[owner[k]] = NoTask THEN told
             ELSE told \cup {shutdown_tx[owner[k]]}
  /\ shutdown_tx' = [shutdown_tx EXCEPT ![owner[k]] = k]
  /\ UNCHANGED <<pool, fixed, aborted, running, paused, batch, open>>

\* The file watcher or the Kafka consumer may fail, with running still set.
TaskOpen(k) ==
  /\ Step(k, "opening", "loop") \/ (Is(k).may_break /\ Step(k, "opening", "dead"))
  /\ UNCHANGED <<pool, fixed, aborted, told, flags, batch, open>>

\* The shutdown channel, or the end of the schedule or of the stream.
TaskBreak(k) ==
  /\ k \in told \/ Is(k).may_run_out
  /\ batch[k] = {} \/ Is(k).detaches
  /\ Step(k, "loop", "ending")
  /\ UNCHANGED <<pool, fixed, aborted, told, flags, batch, open>>

TaskEnd(k) ==
  /\ Step(k, "ending", "dead")
  /\ running' = [running EXCEPT ![owner[k]] = FALSE]
  /\ UNCHANGED <<pool, fixed, aborted, told, paused, shutdown_tx, batch, open>>

\* An aborted task ends where it awaits.
TaskAborted(k) ==
  /\ k \in aborted
  /\ Step(k, "spawned", "dead") \/ Step(k, "opening", "dead")
       \/ (Step(k, "loop", "dead") /\ (batch[k] = {} \/ Is(k).detaches))
  /\ UNCHANGED <<pool, fixed, aborted, told, flags, batch, open>>

\* A webhook serves a connection in a task of its own, which nobody aborts.
Connect(k) ==
  /\ task[k] = "loop" /\ Is(k).detaches /\ ~paused[owner[k]]
  /\ open' = open \cup {k}
  /\ UNCHANGED <<pool, fixed, task, aborted, told, flags, batch>>

HangUp(k) ==
  /\ k \in open /\ batch[k] = {}
  /\ open' = open \ {k}
  /\ UNCHANGED <<pool, fixed, task, aborted, told, flags, batch>>

\* An event: the callbacks are copied under the lock and called after it.
Fire(k) ==
  /\ IF Is(k).detaches THEN k \in open ELSE task[k] = "loop"
  /\ ~paused[owner[k]] /\ batch[k] = {}
  /\ batch' = [batch EXCEPT ![k] = listeners[owner[k]]]
  /\ UNCHANGED <<pool, fixed, task, aborted, told, flags, open>>

Invoke(k) ==
  /\ \E l \in batch[k] : batch' = [batch EXCEPT ![k] = @ \ {l}]
  /\ UNCHANGED <<pool, fixed, task, aborted, told, flags, open>>

-----------------------------------------------------------------------------
Next ==
  \/ \E t \in TriggerIds : Register(t) \/ Pausing(t) \/ \E l \in Listeners : Subscribe(t, l)
  \/ \E l \in Listeners : Unsubscribe(l)
  \/ \E c \in Callers : \/ StartPool(c) \/ StartSpawn(c) \/ StartPush(c)
                        \/ StopPool(c) \/ StopOne(c) \/ StopAbort(c)
                        \/ RemoveStop(c) \/ RemoveErase(c)
  \/ \E k \in Tasks : \/ TaskCheck(k) \/ TaskSet(k) \/ TaskChannel(k) \/ TaskOpen(k)
                      \/ TaskBreak(k) \/ TaskEnd(k) \/ TaskAborted(k)
                      \/ Connect(k) \/ HangUp(k) \/ Fire(k) \/ Invoke(k)

Spec == Init /\ [][Next]_vars

-----------------------------------------------------------------------------
Alive == {k \in Tasks : task[k] \notin {"none", "dead"}}

(* No task escapes the pool: whatever start, stop and remove_trigger do at  *)
(* the same time, a task that is alive has been aborted, or has its handle  *)
(* in task_handles, or is about to have it pushed there.                    *)
EveryTaskTracked ==
  \A k \in Alive : k \in aborted \cup handles \cup {call[c].at : c \in Callers}

(* After stop nothing goes on: with the pool stopped and no call under way  *)
(* every task is over or aborted, unless calls have overlapped.  (A stop    *)
(* during start drains the handles before the last one is pushed; and a     *)
(* connection of a webhook is no task of the pool: its events still come.)  *)
StopStops == ~pool_running /\ Busy = {} => Alive \subseteq aborted \/ overlapped

(* The pool keeps its tasks under control, and stop ends them.              *)
TasksUnderControl == EveryTaskTracked /\ StopStops
=============================================================================
