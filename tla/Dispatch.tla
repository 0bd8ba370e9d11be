------------------------------ MODULE Dispatch ------------------------------
(***************************************************************************)
(* The dispatch backends of xerv-core (dispatch/{memory,raft,redis,nats}): *)
(* how trace requests are queued, handed to workers, acknowledged and      *)
(* retried.  DispatchConfig picks one backend at start; which one is part  *)
(* of the state here, so that one specification holds them all.            *)
(*                                                                         *)
(* Producers call enqueue once per request; workers call dequeue and then  *)
(* ack or nack, and may die in between.  Redis and JetStream are external: *)
(* a stream entry that was delivered is kept until it is acknowledged and  *)
(* may be delivered again once its time-out has passed.                    *)
(***************************************************************************)
EXTENDS Naturals, Sequences, FiniteSets, SequencesExt

CONSTANTS
  Requests, Workers,
  Backends,      \* a subset of AllBackends
  Priority,      \* TraceRequest::priority
  Created,       \* TraceRequest::created_at_ms
  MaxAttempts,   \* TraceRequest::max_attempts
  MaxQueueSize,  \* MemoryConfig::max_queue_size
  NoRequest, NoMessage

\* "local" is RaftDispatch without a cluster, "list" Redis without streams.
AllBackends == {"memory", "priority", "raft", "local", "redis", "list", "nats"}

ASSUME DispatchAssumption ==
  /\ Backends \subseteq AllBackends
  /\ Priority \in [Requests -> Nat] /\ Created \in [Requests -> Nat]
  /\ MaxAttempts \in Nat \ {0} /\ MaxQueueSize \in Nat \ {0}
  /\ NoRequest \notin Requests /\ IsFiniteSet(Requests)

\* A stream entry: the request and the attempt its delivery makes of it (the
\* in-process queues count attempts in `attempt` instead).
Messages == Requests \X (1 .. MaxAttempts)
Req(m) == m[1]

ASSUME NoMessageAssumption == NoMessage \notin Messages

VARIABLES
  backend,   \* DispatchConfig
  queue,     \* what waits: VecDeque, heap, list, or undelivered entries
  attempt,   \* TraceRequest::attempt, as stored with the request
  tracked,   \* in_flight, or the pending hash: request -> message
  unacked,   \* entries delivered by the broker and not acknowledged
  at,        \* worker -> where its call stands
  has,       \* worker -> the message it was given
  permit,    \* the permit stored in Notify
  shutting_down,
  recorded,  \* request -> what the Raft log says of it
  fate       \* request -> how its producer and its workers saw it end

vars == <<backend, queue, attempt, tracked, unacked, at, has, permit,
          shutting_down, recorded, fate>>
broker == <<unacked, recorded>>
local == <<attempt, permit>>

InProcess == {"memory", "priority"}
Counting == {"memory", "priority", "raft", "local"}  \* attempts are counted
Raft == {"raft", "local"}
Brokered == {"redis", "nats"}

Fates == {"new", "checked", "recorded", "accepted", "refused", "acked",
          "failed", "dropped"}
Settled == {"acked", "failed"}

TypeOK ==
  /\ backend \in Backends
  /\ queue \in Seq(Messages)
  /\ attempt \in [Requests -> 0 .. MaxAttempts]
  /\ tracked \in [Requests -> Messages \cup {NoMessage}]
  /\ unacked \subseteq Messages
  /\ at \in [Workers -> {"idle", "ready", "got", "empty", "waiting", "woken", "work",
                         "acking", "ending", "retrying"}]
  /\ has \in [Workers -> Messages \cup {NoMessage}]
  /\ permit \in BOOLEAN /\ shutting_down \in BOOLEAN
  /\ recorded \in [Requests -> {"none", "running", "completed", "failed"}]
  /\ fate \in [Requests -> Fates]

Init ==
  /\ backend \in Backends
  /\ queue = <<>> /\ unacked = {}
  /\ attempt = [r \in Requests |-> 0]
  /\ tracked = [r \in Requests |-> NoMessage]
  /\ at = [w \in Workers |-> "idle"]
  /\ has = [w \in Workers |-> NoMessage]
  /\ permit = FALSE /\ shutting_down = FALSE
  /\ recorded = [r \in Requests |-> "none"]
  /\ fate = [r \in Requests |-> "new"]

-----------------------------------------------------------------------------
(* enqueue.                                                                 *)

\* Notify::notify_one: a waiting worker is woken, or the permit is kept.
NotifyOne ==
  IF \E w \in Workers : at[w] = "waiting"
  THEN /\ \E w \in Workers : at[w] = "waiting" /\ at' = [at EXCEPT ![w] = "woken"]
       /\ UNCHANGED permit
  ELSE permit' = TRUE /\ UNCHANGED at

\* shutting_down is read before anything else.
EnqueueCheck(r) ==
  /\ fate[r] = "new"
  /\ fate' = [fate EXCEPT ![r] = IF shutting_down THEN "refused" ELSE "checked"]
  /\ UNCHANGED <<backend, queue, tracked, at, has, shutting_down, local, broker>>

\* MemoryDispatch::push for a new request.
EnqueueMemory(r) ==
  /\ backend \in InProcess /\ fate[r] = "checked"
  /\ IF Len(queue) >= MaxQueueSize
     THEN /\ fate' = [fate EXCEPT ![r] = "refused"]
          /\ UNCHANGED <<queue, at, permit>>
     ELSE /\ queue' = Append(queue, <<r, 1>>)
          /\ fate' = [fate EXCEPT ![r] = "accepted"]
          /\ NotifyOne
  /\ UNCHANGED <<backend, attempt, tracked, has, shutting_down, broker>>

\* RaftDispatch::enqueue_via_raft; an error refuses the request.
EnqueueRecord(r) ==
  /\ backend = "raft" /\ fate[r] = "checked"
  /\ \/ /\ recorded' = [recorded EXCEPT ![r] = "running"]
        /\ fate' = [fate EXCEPT ![r] = "recorded"]
     \/ /\ fate' = [fate EXCEPT ![r] = "refused"]
        /\ UNCHANGED recorded
  /\ UNCHANGED <<backend, queue, tracked, unacked, at, has, shutting_down, local>>

\* RaftDispatch: the local queue, which has no limit.
EnqueueRaft(r) ==
  /\ \/ backend = "raft" /\ fate[r] = "recorded"
     \/ backend = "local" /\ fate[r] = "checked"
  /\ queue' = Append(queue, <<r, 1>>)
  /\ fate' = [fate EXCEPT ![r] = "accepted"]
  /\ UNCHANGED <<backend, tracked, at, has, shutting_down, local, broker>>

(* One call to an external service: it can fail, even after the service has *)
(* stored the entry.                                                        *)
Store(r) ==
  \/ /\ queue' = Append(queue, <<r, 1>>)
     /\ \E f \in {"accepted", "refused"} : fate' = [fate EXCEPT ![r] = f]
  \/ /\ fate' = [fate EXCEPT ![r] = "refused"]
     /\ UNCHANGED queue

\* XADD, or LPUSH without streams.
EnqueueRedis(r) ==
  /\ backend \in {"redis", "list"} /\ fate[r] = "checked"
  /\ Store(r)
  /\ UNCHANGED <<backend, tracked, at, has, shutting_down, local, broker>>

\* publish to the JetStream subject of the pipeline.
EnqueueNats(r) ==
  /\ backend = "nats" /\ fate[r] = "checked"
  /\ Store(r)
  /\ UNCHANGED <<backend, tracked, at, has, shutting_down, local, broker>>

-----------------------------------------------------------------------------
(* dequeue.                                                                 *)

\* PrioritizedRequest::cmp: higher priority first, then older first.
Before(m, n) ==
  \/ Priority[Req(m)] > Priority[Req(n)]
  \/ Priority[Req(m)] = Priority[Req(n)] /\ Created[Req(m)] < Created[Req(n)]

\* The places pop may take from: the front, or any first one of the heap.
Poppable ==
  {i \in DOMAIN queue :
     IF backend = "priority"
     THEN \A j \in DOMAIN queue : ~Before(queue[j], queue[i])
     ELSE i = 1}

DequeueCheck(w) ==
  /\ at[w] = "idle" /\ ~shutting_down
  /\ at' = [at EXCEPT ![w] = "ready"]
  /\ UNCHANGED <<backend, queue, tracked, has, shutting_down, local, broker, fate>>

Give(w, m, step) ==
  /\ at' = [at EXCEPT ![w] = step]
  /\ has' = [has EXCEPT ![w] = m]

\* MemoryDispatch::pop, under the lock of the queue.
PopMemory(w) ==
  /\ backend \in InProcess /\ at[w] \in {"ready", "woken"}
  /\ \E i \in Poppable : queue' = RemoveAt(queue, i) /\ Give(w, queue[i], "got")
  /\ UNCHANGED <<backend, tracked, shutting_down, local, broker, fate>>

\* Mutant: the attempt is not counted.
TrackMemoryUncounted(w) ==
  /\ backend \in InProcess /\ at[w] = "got"
  /\ tracked' = [tracked EXCEPT ![Req(has[w])] = has[w]]
  /\ at' = [at EXCEPT ![w] = "work"]
  /\ UNCHANGED <<backend, queue, has, local, shutting_down, broker, fate>>

\* Then increment_attempt and insertion into in_flight, under its own lock.
TrackMemory(w) ==
  /\ backend \in InProcess /\ at[w] = "got"
  /\ attempt' = [attempt EXCEPT ![Req(has[w])] = @ + 1]
  /\ tracked' = [tracked EXCEPT ![Req(has[w])] = has[w]]
  /\ at' = [at EXCEPT ![w] = "work"]
  /\ UNCHANGED <<backend, queue, has, permit, shutting_down, broker, fate>>

\* Nothing there: with a time-out the worker goes on to notified().
PopNothing(w) ==
  /\ queue = <<>> /\ unacked = {} /\ at[w] \in {"ready", "woken"}
  /\ at' = [at EXCEPT ![w] = IF backend \in InProcess /\ at[w] = "ready"
                             THEN "empty" ELSE "idle"]
  /\ UNCHANGED <<backend, queue, tracked, has, shutting_down, local, broker, fate>>

\* Notify::notified takes the stored permit or waits.
Await(w) ==
  /\ at[w] = "empty"
  /\ at' = [at EXCEPT ![w] = IF permit THEN "woken" ELSE "waiting"]
  /\ permit' = FALSE
  /\ UNCHANGED <<backend, queue, attempt, tracked, has, shutting_down, broker, fate>>

TimeOut(w) ==
  /\ at[w] = "waiting"
  /\ at' = [at EXCEPT ![w] = "idle"]
  /\ UNCHANGED <<backend, queue, tracked, has, shutting_down, local, broker, fate>>

\* RaftDispatch::dequeue holds the lock of the queue throughout.
PopRaft(w) ==
  /\ backend \in Raft /\ at[w] = "ready" /\ queue # <<>>
  /\ queue' = Tail(queue)
  /\ attempt' = [attempt EXCEPT ![Req(Head(queue))] = @ + 1]
  /\ tracked' = [tracked EXCEPT ![Req(Head(queue))] = Head(queue)]
  /\ Give(w, Head(queue), "work")
  /\ UNCHANGED <<backend, permit, shutting_down, broker, fate>>

(* A stale entry (XAUTOCLAIM, or a redelivery after ack_wait), possibly one *)
(* that another worker is still busy with, or a new one.  The attempt is    *)
(* incremented in the worker's copy only.                                   *)
PopBroker(w) ==
  /\ backend \in Brokered /\ at[w] = "ready"
  /\ \/ /\ queue # <<>>
        /\ queue' = Tail(queue)
        /\ unacked' = unacked \cup {Head(queue)}
        /\ Give(w, Head(queue), "got")
     \/ /\ \E m \in unacked : Give(w, m, "got")
        /\ UNCHANGED <<queue, unacked>>
  /\ UNCHANGED <<backend, tracked, shutting_down, local, recorded, fate>>

(* HSET into the pending hash, whose error is ignored, or insertion into    *)
(* in_flight; either replaces an older delivery of the same request.        *)
TrackBroker(w) ==
  /\ backend \in Brokered /\ at[w] = "got"
  /\ \/ tracked' = [tracked EXCEPT ![Req(has[w])] = has[w]]
     \/ backend = "redis" /\ UNCHANGED tracked
  /\ at' = [at EXCEPT ![w] = "work"]
  /\ UNCHANGED <<backend, queue, has, shutting_down, local, broker, fate>>

\* BRPOP: the list forgets the request.
PopList(w) ==
  /\ backend = "list" /\ at[w] = "ready" /\ queue # <<>>
  /\ queue' = Tail(queue)
  /\ Give(w, Head(queue), "work")
  /\ UNCHANGED <<backend, tracked, shutting_down, local, broker, fate>>

-----------------------------------------------------------------------------
(* ack and nack.                                                            *)

Done(w) == Give(w, NoMessage, "idle")

Untrack(r) == tracked' = [tracked EXCEPT ![r] = NoMessage]

\* A request that was settled once stays so.
Fate(r, f) == fate' = IF fate[r] \in Settled THEN fate ELSE [fate EXCEPT ![r] = f]

AckMemory(w) ==
  /\ backend \in InProcess \cup {"local"} /\ at[w] = "work"
  /\ Untrack(Req(has[w])) /\ Fate(Req(has[w]), "acked")
  /\ Done(w)
  /\ UNCHANGED <<backend, queue, shutting_down, local, broker>>

\* ack_via_raft and nack_via_raft: the log takes the record, or the call fails.
RaftSays(r, s) == recorded' = [recorded EXCEPT ![r] = s] \/ UNCHANGED recorded

\* The entry is removed first; if complete_trace fails, ack returns Err.
AckRaft(w) ==
  /\ backend = "raft" /\ at[w] = "work"
  /\ Untrack(Req(has[w])) /\ Fate(Req(has[w]), "acked")
  /\ RaftSays(Req(has[w]), "completed")
  /\ Done(w)
  /\ UNCHANGED <<backend, queue, unacked, shutting_down, local>>

Exhausted(r) == attempt[r] >= MaxAttempts

\* Mutant: a retried request stays in in_flight.
NackTakeKeeping(w) ==
  /\ backend \in Counting /\ at[w] = "work" /\ ~Exhausted(Req(has[w]))
  /\ at' = [at EXCEPT ![w] = "retrying"]
  /\ UNCHANGED <<backend, queue, tracked, has, shutting_down, local, broker, fate>>

\* in_flight gives up the request, which is retried or given up.
NackTake(w) ==
  /\ backend \in Counting /\ at[w] = "work"
  /\ Untrack(Req(has[w]))
  /\ \/ /\ ~Exhausted(Req(has[w]))              \* retry = true
        /\ at' = [at EXCEPT ![w] = "retrying"]
        /\ UNCHANGED <<has, recorded, fate>>
     \/ /\ Done(w) /\ Fate(Req(has[w]), "failed")   \* retry = false, or exhausted
        /\ IF backend = "raft" THEN RaftSays(Req(has[w]), "failed") ELSE UNCHANGED recorded
  /\ UNCHANGED <<backend, queue, unacked, shutting_down, local>>

\* `let _ = self.push(request)`, with the error for a full queue ignored.
Requeue(w) ==
  /\ backend \in Counting /\ at[w] = "retrying"
  /\ IF backend \in InProcess /\ Len(queue) >= MaxQueueSize
     THEN /\ fate' = [fate EXCEPT ![Req(has[w])] = "dropped"]
          /\ UNCHANGED <<queue, permit>>
          /\ Done(w)
     ELSE /\ queue' = Append(queue, has[w])
          /\ has' = [has EXCEPT ![w] = NoMessage]
          /\ UNCHANGED fate
          /\ IF backend \in InProcess /\ \E v \in Workers : at[v] = "waiting"
             THEN /\ \E v \in Workers :
                       /\ at[v] = "waiting"
                       /\ at' = [at EXCEPT ![v] = "woken", ![w] = "idle"]
                  /\ UNCHANGED permit
             ELSE /\ at' = [at EXCEPT ![w] = "idle"]
                  /\ permit' = (backend \in InProcess \/ permit)
  /\ UNCHANGED <<backend, attempt, tracked, shutting_down, broker>>

(* Redis: the pending hash says which entry to acknowledge.  Without one    *)
(* (or if HGET fails) the call is Ok and acknowledges nothing.              *)
LookupRedis(w) ==
  /\ backend = "redis" /\ at[w] = "work"
  /\ \/ /\ tracked[Req(has[w])] # NoMessage
        /\ \E step \in {"acking", "ending", "retrying"} : at' = [at EXCEPT ![w] = step]
        /\ UNCHANGED <<has, fate>>
     \/ /\ Done(w)
        /\ \/ Fate(Req(has[w]), "acked") \/ Fate(Req(has[w]), "failed") \/ UNCHANGED fate
  /\ UNCHANGED <<backend, queue, tracked, shutting_down, local, broker>>

\* Mutant: the entry is acknowledged for a retry as well.
ConcludeRedisAlways(w) ==
  /\ backend = "redis" /\ at[w] \in {"acking", "ending", "retrying"}
  /\ unacked' = unacked \ {tracked[Req(has[w])]}
  /\ Untrack(Req(has[w]))
  /\ IF at[w] = "retrying" THEN UNCHANGED fate ELSE Fate(Req(has[w]), "acked")
  /\ Done(w)
  /\ UNCHANGED <<backend, queue, shutting_down, local, recorded>>

(* XACK for ack and for nack without retry, then HDEL; the errors of both   *)
(* are ignored.  A nack for a retry leaves the entry to XAUTOCLAIM, however *)
(* many attempts it has had.                                                *)
ConcludeRedis(w) ==
  /\ backend = "redis" /\ at[w] \in {"acking", "ending", "retrying"}
  /\ \/ /\ at[w] # "retrying"
        /\ unacked' = unacked \ {tracked[Req(has[w])]}
     \/ UNCHANGED unacked
  /\ Untrack(Req(has[w])) \/ UNCHANGED tracked
  /\ CASE at[w] = "acking" -> Fate(Req(has[w]), "acked")
       [] at[w] = "ending" -> Fate(Req(has[w]), "failed")
       [] OTHER -> UNCHANGED fate
  /\ Done(w)
  /\ UNCHANGED <<backend, queue, shutting_down, local, recorded>>

\* NATS: ack takes the message out of in_flight, then acknowledges it.
AckNats(w) ==
  /\ backend = "nats" /\ at[w] = "work"
  /\ Untrack(Req(has[w]))
  /\ \/ /\ unacked' = unacked \ {tracked[Req(has[w])]}
        /\ Fate(Req(has[w]), "acked")
     \/ /\ tracked[Req(has[w])] # NoMessage
        /\ UNCHANGED <<unacked, fate>>
  /\ Done(w)
  /\ UNCHANGED <<backend, queue, shutting_down, local, recorded>>

(* NATS: a NAK leaves the message to be redelivered, with the attempt its   *)
(* payload had; if the NAK cannot be sent the request is published once     *)
(* more (which may fail too), with the attempt this delivery counted.  A    *)
(* copy equal to one that is still there adds nothing.                      *)
NackNats(w) ==
  LET r == Req(has[w]) IN
  /\ backend = "nats" /\ at[w] = "work"
  /\ Untrack(r) /\ Done(w)
  /\ \/ /\ tracked[r] # NoMessage /\ tracked[r][2] < MaxAttempts
        /\ \/ UNCHANGED queue
           \/ LET again == <<r, tracked[r][2] + 1>> IN
              /\ again \notin ToSet(queue) \cup unacked
              /\ queue' = Append(queue, again)
        /\ UNCHANGED <<unacked, fate>>
     \/ /\ tracked[r] # NoMessage                 \* Term, which may fail
        /\ unacked' \in {unacked, unacked \ {tracked[r]}}
        /\ Fate(r, "failed")
        /\ UNCHANGED queue
     \/ /\ tracked[r] = NoMessage
        /\ UNCHANGED <<queue, unacked, fate>>
  /\ UNCHANGED <<backend, shutting_down, local, recorded>>

\* A list keeps nothing: ack and nack have no effect, and a nack loses the request.
EndList(w) ==
  /\ backend = "list" /\ at[w] = "work"
  /\ Fate(Req(has[w]), "acked") \/ UNCHANGED fate
  /\ Done(w)
  /\ UNCHANGED <<backend, queue, tracked, shutting_down, local, broker>>

\* A worker dies, or its ack or nack fails before it has done anything.
Abandon(w) ==
  /\ at[w] = "work"
  /\ Done(w)
  /\ UNCHANGED <<backend, queue, tracked, shutting_down, local, broker, fate>>

\* shutdown; the memory backend calls notify_waiters.
Shutdown ==
  /\ ~shutting_down
  /\ shutting_down' = TRUE
  /\ at' = [w \in Workers |-> IF at[w] = "waiting" THEN "woken" ELSE at[w]]
  /\ UNCHANGED <<backend, queue, tracked, has, local, broker, fate>>

-----------------------------------------------------------------------------
Enqueue(r) ==
  \/ EnqueueCheck(r) \/ EnqueueMemory(r) \/ EnqueueRecord(r)
  \/ EnqueueRaft(r) \/ EnqueueRedis(r) \/ EnqueueNats(r)

Dequeue(w) ==
  \/ DequeueCheck(w) \/ PopMemory(w) \/ TrackMemory(w) \/ PopNothing(w) \/ Await(w)
  \/ TimeOut(w) \/ PopRaft(w) \/ PopBroker(w) \/ TrackBroker(w) \/ PopList(w)

Finish(w) ==
  \/ AckMemory(w) \/ AckRaft(w) \/ NackTake(w) \/ Requeue(w) \/ LookupRedis(w)
  \/ ConcludeRedis(w) \/ AckNats(w) \/ NackNats(w) \/ EndList(w)

Next ==
  \/ \E r \in Requests : Enqueue(r)
  \/ \E w \in Workers : Dequeue(w) \/ Finish(w) \/ Abandon(w)
  \/ Shutdown

\* Workers poll in a loop and finish what they were given; producers and
\* shutdown are not obliged to do anything more.
Fairness == \A w \in Workers : WF_vars(Dequeue(w) \/ Finish(w))

Spec == Init /\ [][Next]_vars /\ Fairness

-----------------------------------------------------------------------------
(* The promise of the trait, WorkQueue, read off the backend's state.       *)

HeldBy(w) == IF has[w] = NoMessage THEN NoRequest ELSE Req(has[w])
Held == {HeldBy(w) : w \in Workers} \ {NoRequest}
Queued == {Req(m) : m \in ToSet(queue)}
Tracked == {r \in Requests : tracked[r] # NoMessage}

Custody ==
  CASE backend \in Brokered -> Queued \cup {Req(m) : m \in unacked}
    [] backend = "list" -> Queued \cup Held
    [] OTHER -> Queued \cup Held \cup Tracked

Status(r) ==
  CASE fate[r] \in {"checked", "recorded"} -> "new"
    [] fate[r] \in Settled -> "settled"
    [] OTHER -> fate[r]

WQ == INSTANCE WorkQueue WITH
  status <- [r \in Requests |-> Status(r)],
  custody <- Custody,
  busy <- [w \in Workers |-> HeldBy(w)],
  reliable <- backend # "list",
  Room <- MaxQueueSize

(* Every backend keeps the promise of the DispatchBackend trait: whatever   *)
(* was accepted stays in its custody until a worker settles it, and only    *)
(* the memory backend may drop a retry, for want of room.                   *)
ImplementsWorkQueue == WQ!Spec

(* The in-process backends and the Raft one hand a request to one worker at *)
(* a time, and a request that was acknowledged or given up is never queued  *)
(* or held again.                                                           *)
OneHolder ==
  backend \in Counting =>
    /\ \A v, w \in Workers : v # w /\ has[v] # NoMessage => HeldBy(v) # HeldBy(w)
    /\ Len(queue) = Cardinality(Queued) /\ Queued \cap (Held \cup Tracked) = {}
    /\ \A r \in Queued \cup Held \cup Tracked : fate[r] = "accepted"

(* Where attempts are counted, retrying ends: an accepted request is        *)
(* settled or dropped, or lies with a worker that died, or the backend was  *)
(* shut down.                                                               *)
RetriesEnd ==
  \A r \in Requests :
    backend \in Counting /\ fate[r] = "accepted"
      ~> \/ fate[r] # "accepted" \/ shutting_down
         \/ r \in Tracked \ Held
=============================================================================
