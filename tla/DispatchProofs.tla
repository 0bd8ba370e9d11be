--------------------------- MODULE DispatchProofs ---------------------------
(***************************************************************************)
(* Proofs about Dispatch, for every finite set of requests, every set of   *)
(* workers, every order of priorities, number of attempts and queue size:  *)
(* types, one holder at a time, and the refinement of WorkQueue.           *)
(***************************************************************************)
EXTENDS Dispatch, TLAPS, FiniteSetTheorems

\* The places at which a worker has been given a message.
Holding == {"got", "work", "acking", "ending", "retrying"}

HeldOK == \A w \in Workers : (has[w] # NoMessage) <=> (at[w] \in Holding)
TrackedOK == \A r \in Requests : tracked[r] # NoMessage => Req(tracked[r]) = r

(* Where attempts are counted: a request is in one place of the queue, or   *)
(* with one worker, or with none and still tracked; what is queued or about *)
(* to be queued is not tracked and has an attempt left.                     *)
Waiting(r) == fate[r] = "accepted" /\ attempt[r] < MaxAttempts /\ tracked[r] = NoMessage

CountingOK ==
  backend \in Counting =>
    /\ \A i, j \in DOMAIN queue : i # j => Req(queue[i]) # Req(queue[j])
    /\ \A i \in DOMAIN queue : Waiting(Req(queue[i]))
    /\ \A i \in DOMAIN queue, w \in Workers :
         has[w] # NoMessage => Req(has[w]) # Req(queue[i])
    /\ \A v, w \in Workers :
         v # w /\ has[v] # NoMessage /\ has[w] # NoMessage => Req(has[v]) # Req(has[w])
    /\ \A w \in Workers :
         /\ has[w] # NoMessage => fate[Req(has[w])] = "accepted"
         /\ at[w] \in {"got", "retrying"} => Waiting(Req(has[w]))
         /\ at[w] = "work" => tracked[Req(has[w])] # NoMessage
    /\ \A r \in Requests : tracked[r] # NoMessage => fate[r] = "accepted"
    /\ \A r \in Requests : fate[r] \in {"new", "checked", "recorded"} => attempt[r] = 0

DispatchInv == TypeOK /\ HeldOK /\ TrackedOK /\ CountingOK

-----------------------------------------------------------------------------
(* Messages and queues.                                                     *)

LEMMA MessageFacts ==
  /\ \A m \in Messages : Req(m) \in Requests /\ m # NoMessage
  /\ \A r \in Requests, k \in 1 .. MaxAttempts : <<r, k>> \in Messages /\ Req(<<r, k>>) = r
  /\ 1 \in 1 .. MaxAttempts
BY DispatchAssumption, NoMessageAssumption DEF Messages, Req

\* VecDeque::push_back
LEMMA AppendFacts ==
  ASSUME NEW S, NEW q \in Seq(S), NEW m \in S
  PROVE  /\ Append(q, m) \in Seq(S)
         /\ DOMAIN q = 1 .. Len(q) /\ Len(q) \in Nat
         /\ DOMAIN Append(q, m) = 1 .. Len(q) + 1
         /\ \A i \in DOMAIN q : Append(q, m)[i] = q[i]
         /\ Append(q, m)[Len(q) + 1] = m
OBVIOUS

\* Taking one element out shifts the ones behind it.
LEMMA RemoveAtFacts ==
  ASSUME NEW S, NEW q \in Seq(S), NEW i \in DOMAIN q
  PROVE  /\ RemoveAt(q, i) \in Seq(S) /\ q[i] \in S
         /\ \A j \in DOMAIN RemoveAt(q, i) :
              /\ (IF j < i THEN j ELSE j + 1) \in DOMAIN q \ {i}
              /\ RemoveAt(q, i)[j] = q[IF j < i THEN j ELSE j + 1]
         /\ \A j \in DOMAIN q \ {i} :
              \E k \in DOMAIN RemoveAt(q, i) : RemoveAt(q, i)[k] = q[j]
         /\ DOMAIN q = 1 .. Len(q) /\ DOMAIN RemoveAt(q, i) = 1 .. Len(q) - 1
<1> DEFINE a == SubSeq(q, 1, i - 1)
           b == SubSeq(q, i + 1, Len(q))
<1>1. i \in 1 .. Len(q) /\ Len(q) \in Nat
  OBVIOUS
<1>2. a \in Seq(S) /\ Len(a) = i - 1 /\ \A j \in 1 .. i - 1 : a[j] = q[j]
  BY <1>1
<1>3. b \in Seq(S) /\ Len(b) = Len(q) - i /\ \A j \in 1 .. Len(q) - i : b[j] = q[i + j]
  BY <1>1
<1> HIDE DEF a, b
<1>4. /\ a \o b \in Seq(S) /\ Len(a \o b) = Len(q) - 1
      /\ \A j \in 1 .. Len(q) - 1 : (a \o b)[j] = IF j <= i - 1 THEN a[j] ELSE b[j - (i - 1)]
  BY <1>1, <1>2, <1>3
<1>5. RemoveAt(q, i) = a \o b
  BY DEF RemoveAt, a, b
<1> DEFINE p == RemoveAt(q, i)
<1>6. /\ p \in Seq(S) /\ Len(p) = Len(q) - 1 /\ DOMAIN p = 1 .. Len(q) - 1
      /\ \A j \in 1 .. Len(q) - 1 : p[j] = q[IF j < i THEN j ELSE j + 1]
  <2>1. p \in Seq(S) /\ Len(p) = Len(q) - 1
    BY <1>4, <1>5
  <2>2. ASSUME NEW j \in 1 .. Len(q) - 1
        PROVE  p[j] = q[IF j < i THEN j ELSE j + 1]
    <3>1. CASE j < i
      BY <1>1, <1>2, <1>4, <1>5, <3>1
    <3>2. CASE ~(j < i)
      <4>1. j - (i - 1) \in 1 .. Len(q) - i /\ i + (j - (i - 1)) = j + 1
        BY <1>1, <3>2
      <4>2. (a \o b)[j] = b[j - (i - 1)]
        BY <1>1, <1>4, <3>2
      <4>3. b[j - (i - 1)] = q[j + 1]
        BY <1>3, <4>1
      <4> QED
        BY <1>5, <3>2, <4>2, <4>3
    <3> QED
      BY <3>1, <3>2
  <2> QED
    BY <1>1, <2>1, <2>2
<1> HIDE DEF p
<1>7. \A j \in DOMAIN p : (IF j < i THEN j ELSE j + 1) \in DOMAIN q \ {i}
  BY <1>1, <1>6
<1>8. ASSUME NEW j \in DOMAIN q \ {i}
      PROVE  \E k \in DOMAIN p : p[k] = q[j]
  <2> DEFINE k == IF j < i THEN j ELSE j - 1
  <2>1. k \in 1 .. Len(q) - 1 /\ (IF k < i THEN k ELSE k + 1) = j
    BY <1>1
  <2> QED
    BY <1>6, <2>1
<1> QED
  BY <1>1, <1>6, <1>7, <1>8 DEF p

\* pop_front is the case of the first element.
LEMMA TailRemoves ==
  ASSUME NEW S, NEW q \in Seq(S), 1 \in DOMAIN q
  PROVE  Tail(q) = RemoveAt(q, 1) /\ q[1] \in S
<1>1. Len(q) \in Nat \ {0} /\ q[1] \in S
  OBVIOUS
<1>2. RemoveAt(q, 1) \in Seq(S) /\ DOMAIN RemoveAt(q, 1) = 1 .. Len(q) - 1
      /\ \A j \in 1 .. Len(q) - 1 : RemoveAt(q, 1)[j] = q[j + 1]
  BY RemoveAtFacts
<1>3. Tail(q) \in Seq(S) /\ Len(Tail(q)) = Len(q) - 1
      /\ \A j \in 1 .. Len(q) - 1 : Tail(q)[j] = q[j + 1]
  BY <1>1
<1>4. Len(RemoveAt(q, 1)) = Len(q) - 1
  BY <1>1, <1>2
<1> QED
  BY <1>1, <1>2, <1>3, <1>4

-----------------------------------------------------------------------------
(* The invariant, action by action.                                         *)

LEMMA InitInv == Init => DispatchInv
<1> SUFFICES ASSUME Init
             PROVE  DispatchInv
  OBVIOUS
<1>0. permit \in BOOLEAN /\ shutting_down \in BOOLEAN
  BY Zenon DEF Init
<1>a. queue \in Seq(Messages) /\ attempt \in [Requests -> 0 .. MaxAttempts]
  BY DispatchAssumption DEF Init
<1>1. TypeOK
  BY <1>0, <1>a DEF Init, TypeOK, Fates
<1> QED
  BY <1>1 DEF Init, DispatchInv, HeldOK, TrackedOK, CountingOK, Holding

\* A worker is given a message, or is through with it.
LEMMA GiveFacts ==
  ASSUME TypeOK, HeldOK, NEW w \in Workers, NEW m \in Messages \cup {NoMessage},
         NEW step \in {"got", "work", "idle"}, Give(w, m, step),
         (m # NoMessage) <=> (step \in Holding)
  PROVE  /\ at' \in [Workers -> {"idle", "ready", "got", "empty", "waiting", "woken", "work",
                                 "acking", "ending", "retrying"}]
         /\ has' \in [Workers -> Messages \cup {NoMessage}]
         /\ HeldOK'
         /\ has'[w] = m /\ at'[w] = step
         /\ \A v \in Workers \ {w} : has'[v] = has[v] /\ at'[v] = at[v]
BY DEF Give, TypeOK, HeldOK

\* notify_one and the other steps of waiting: nobody's message changes.
LEMMA NotifyFacts ==
  ASSUME TypeOK, HeldOK, NotifyOne, UNCHANGED has
  PROVE  /\ at' \in [Workers -> {"idle", "ready", "got", "empty", "waiting", "woken", "work",
                                 "acking", "ending", "retrying"}]
         /\ HeldOK' /\ permit' \in BOOLEAN
         /\ \A w \in Workers : at'[w] # at[w] => at[w] = "waiting" /\ at'[w] = "woken"
BY DEF NotifyOne, TypeOK, HeldOK, Holding

(* A step that changes no message, no queue and no count, and at most the   *)
(* fate of a request that is not accepted.                                  *)
LEMMA QuietCounting ==
  ASSUME TypeOK, HeldOK, CountingOK, UNCHANGED <<backend, queue, attempt, tracked, has>>,
         \A w \in Workers : at'[w] \in {"got", "retrying", "work"} => at'[w] = at[w],
         \A r \in Requests : fate[r] = "accepted" => fate'[r] = "accepted",
         \A r \in Requests : fate'[r] \in {"new", "checked", "recorded"}
                               => fate[r] \in {"new", "checked", "recorded"}
  PROVE  CountingOK'
<1>1. \A i \in DOMAIN queue : Req(queue[i]) \in Requests
  BY MessageFacts DEF TypeOK
<1>2. \A w \in Workers : has[w] # NoMessage => Req(has[w]) \in Requests
  BY MessageFacts DEF TypeOK
<1>h. \A w \in Workers : at[w] \in {"got", "retrying", "work"} => has[w] # NoMessage
  BY DEF HeldOK, Holding
<1> SUFFICES ASSUME backend \in Counting
             PROVE  CountingOK'
  BY DEF CountingOK
<1>3. \A i \in DOMAIN queue : Waiting(Req(queue[i]))'
  BY <1>1 DEF CountingOK, Waiting
<1>4. \A w \in Workers :
        /\ has[w] # NoMessage => fate'[Req(has[w])] = "accepted"
        /\ at'[w] \in {"got", "retrying"} => Waiting(Req(has[w]))'
        /\ at'[w] = "work" => tracked[Req(has[w])] # NoMessage
  BY <1>2, <1>h DEF CountingOK, Waiting
<1> QED
  BY <1>1, <1>2, <1>3, <1>4 DEF CountingOK

\* Before anything is stored, and when nothing will be.
LEMMA EnqueueCheckInv ==
  ASSUME DispatchInv, NEW r \in Requests, EnqueueCheck(r)
  PROVE  DispatchInv'
<1>1. TypeOK'
  BY DEF DispatchInv, TypeOK, EnqueueCheck, local, broker, Fates
<1>2. HeldOK' /\ TrackedOK'
  BY DEF DispatchInv, HeldOK, TrackedOK, EnqueueCheck
<1>3. CountingOK'
  BY QuietCounting DEF DispatchInv, EnqueueCheck, local, broker, TypeOK
<1> QED
  BY <1>1, <1>2, <1>3 DEF DispatchInv

\* A new request at the end of the queue.
LEMMA EnqueueCounting ==
  ASSUME DispatchInv, NEW r \in Requests, fate[r] \in {"checked", "recorded"},
         queue' = Append(queue, <<r, 1>>), fate' = [fate EXCEPT ![r] = "accepted"],
         UNCHANGED <<backend, attempt, tracked, has>>,
         \A w \in Workers : at'[w] \in {"got", "retrying", "work"} => at'[w] = at[w]
  PROVE  CountingOK'
<1> SUFFICES ASSUME backend \in Counting
             PROVE  CountingOK'
  BY DEF CountingOK
<1> DEFINE n == Len(queue) + 1
<1>1. /\ DOMAIN queue = 1 .. Len(queue) /\ DOMAIN queue' = 1 .. n /\ Len(queue) \in Nat
      /\ \A i \in DOMAIN queue : queue'[i] = queue[i] /\ Req(queue[i]) \in Requests
      /\ Req(queue'[n]) = r
  BY AppendFacts, MessageFacts DEF DispatchInv, TypeOK
<1>2. \A w \in Workers : has[w] # NoMessage => Req(has[w]) \in Requests /\ Req(has[w]) # r
  BY MessageFacts DEF DispatchInv, TypeOK, CountingOK
<1>3. \A i \in DOMAIN queue : Req(queue[i]) # r
  BY DEF DispatchInv, CountingOK, Waiting
<1>4. fate' \in [Requests -> Fates] /\ \A x \in Requests \ {r} : fate'[x] = fate[x]
  BY DEF DispatchInv, TypeOK, Fates
<1>5. fate'[r] = "accepted" /\ tracked[r] = NoMessage /\ attempt[r] = 0 /\ 0 < MaxAttempts
  BY DispatchAssumption DEF DispatchInv, TypeOK, CountingOK, Fates
<1>6. \A i \in DOMAIN queue' : i = n \/ i \in DOMAIN queue
  BY <1>1
<1> HIDE DEF n
<1>7. \A i \in DOMAIN queue' : Waiting(Req(queue[i]))'
  BY <1>1, <1>3, <1>4, <1>5, <1>6 DEF DispatchInv, CountingOK, Waiting
<1>8. \A i, j \in DOMAIN queue' : i # j => Req(queue'[i]) # Req(queue'[j])
  BY <1>1, <1>3, <1>6 DEF DispatchInv, CountingOK
<1>9. \A i \in DOMAIN queue', w \in Workers :
        has'[w] # NoMessage => Req(has'[w]) # Req(queue'[i])
  BY <1>1, <1>2, <1>6 DEF DispatchInv, CountingOK
<1>10. \A w \in Workers :
        /\ has'[w] # NoMessage => fate'[Req(has'[w])] = "accepted"
        /\ at'[w] \in {"got", "retrying"} => Waiting(Req(has[w]))'
        /\ at'[w] = "work" => tracked'[Req(has'[w])] # NoMessage
  BY <1>2, <1>4 DEF DispatchInv, CountingOK, Waiting, HeldOK, Holding
<1> QED
  BY <1>4, <1>5, <1>7, <1>8, <1>9, <1>10 DEF DispatchInv, CountingOK

LEMMA EnqueueInv ==
  ASSUME DispatchInv, NEW r \in Requests, Enqueue(r)
  PROVE  DispatchInv'
<1> USE DEF DispatchInv, local, broker
<1>m. <<r, 1>> \in Messages /\ Append(queue, <<r, 1>>) \in Seq(Messages)
  BY MessageFacts DEF TypeOK
<1>1. CASE EnqueueCheck(r)
  BY <1>1, EnqueueCheckInv
<1>2. CASE EnqueueMemory(r) /\ Len(queue) >= MaxQueueSize
  <2>1. TypeOK'
    BY <1>2 DEF TypeOK, EnqueueMemory, Fates
  <2>2. HeldOK' /\ TrackedOK'
    BY <1>2 DEF HeldOK, TrackedOK, EnqueueMemory
  <2>3. CountingOK'
    BY <1>2, QuietCounting DEF EnqueueMemory, TypeOK
  <2> QED
    BY <2>1, <2>2, <2>3
<1>3. CASE EnqueueMemory(r) /\ ~(Len(queue) >= MaxQueueSize)
  <2>0. /\ queue' = Append(queue, <<r, 1>>) /\ fate' = [fate EXCEPT ![r] = "accepted"]
        /\ NotifyOne /\ fate[r] = "checked"
        /\ UNCHANGED <<backend, attempt, tracked, has, shutting_down, unacked, recorded>>
    BY <1>3 DEF EnqueueMemory
  <2>1. TypeOK'
    BY <2>0, <1>m, NotifyFacts DEF TypeOK, Fates
  <2>2. HeldOK' /\ TrackedOK'
    BY <2>0, NotifyFacts DEF TrackedOK
  <2>3. CountingOK'
    BY <2>0, NotifyFacts, EnqueueCounting
  <2> QED
    BY <2>1, <2>2, <2>3
<1>4. CASE EnqueueRecord(r)
  <2>1. TypeOK'
    BY <1>4 DEF TypeOK, EnqueueRecord, Fates
  <2>2. HeldOK' /\ TrackedOK'
    BY <1>4 DEF HeldOK, TrackedOK, EnqueueRecord
  <2>3. CountingOK'
    BY <1>4, QuietCounting DEF EnqueueRecord, TypeOK
  <2> QED
    BY <2>1, <2>2, <2>3
<1>5. CASE EnqueueRaft(r)
  <2>1. TypeOK'
    BY <1>5, <1>m DEF TypeOK, EnqueueRaft, Fates
  <2>2. HeldOK' /\ TrackedOK'
    BY <1>5 DEF HeldOK, TrackedOK, EnqueueRaft
  <2>3. CountingOK'
    BY <1>5, EnqueueCounting DEF EnqueueRaft
  <2> QED
    BY <2>1, <2>2, <2>3
<1>6. CASE EnqueueRedis(r) \/ EnqueueNats(r)
  <2>1. TypeOK'
    BY <1>6, <1>m DEF TypeOK, EnqueueRedis, EnqueueNats, Store, Fates
  <2>2. HeldOK' /\ TrackedOK' /\ CountingOK'
    BY <1>6 DEF HeldOK, TrackedOK, CountingOK, Counting, EnqueueRedis, EnqueueNats
  <2> QED
    BY <2>1, <2>2
<1> QED
  BY <1>1, <1>2, <1>3, <1>4, <1>5, <1>6 DEF Enqueue, EnqueueMemory

\* A worker takes a request out of the queue: it is nowhere else.
LEMMA PopCounting ==
  ASSUME DispatchInv, backend \in Counting, NEW w \in Workers, has[w] = NoMessage,
         NEW i \in DOMAIN queue, queue' = RemoveAt(queue, i),
         has' = [has EXCEPT ![w] = queue[i]], UNCHANGED <<backend, fate>>,
         NEW step \in {"got", "work"}, at' = [at EXCEPT ![w] = step],
         step = "got" => UNCHANGED <<attempt, tracked>>,
         step = "work" =>
           /\ attempt' = [attempt EXCEPT ![Req(queue[i])] = @ + 1]
           /\ tracked' = [tracked EXCEPT ![Req(queue[i])] = queue[i]]
  PROVE  CountingOK'
<1> DEFINE r == Req(queue[i])
<1> USE DEF DispatchInv
<1>1. queue[i] \in Messages /\ r \in Requests /\ queue[i] # NoMessage
  BY MessageFacts, RemoveAtFacts DEF TypeOK
<1> DEFINE from(j) == IF j < i THEN j ELSE j + 1
<1>q. /\ DOMAIN queue = 1 .. Len(queue) /\ DOMAIN queue' = 1 .. Len(queue) - 1
      /\ \A j \in DOMAIN queue' : from(j) \in DOMAIN queue \ {i} /\ queue'[j] = queue[from(j)]
  BY RemoveAtFacts DEF TypeOK
<1>f. \A j, k \in DOMAIN queue' : j # k => from(j) # from(k)
  BY <1>q DEF TypeOK
<1> HIDE DEF from
<1>o. \A k \in DOMAIN queue \ {i} : Req(queue[k]) \in Requests \ {r}
  BY MessageFacts DEF TypeOK, CountingOK
<1>2. \A j \in DOMAIN queue' :
        \E k \in DOMAIN queue \ {i} : queue'[j] = queue[k] /\ Req(queue[k]) \in Requests \ {r}
  BY <1>q, <1>o, Zenon
<1>3. \A j, k \in DOMAIN queue' : j # k => Req(queue'[j]) # Req(queue'[k])
  BY <1>q, <1>f DEF CountingOK
<1>4. \A v \in Workers \ {w} : /\ has'[v] = has[v] /\ at'[v] = at[v]
                               /\ has[v] # NoMessage => Req(has[v]) \in Requests \ {r}
  BY MessageFacts DEF TypeOK, CountingOK
<1>5. has'[w] = queue[i] /\ at'[w] = step
  BY DEF TypeOK
<1>6. Waiting(r)
  BY DEF CountingOK
<1>7. \A x \in Requests \ {r} : attempt'[x] = attempt[x] /\ tracked'[x] = tracked[x]
  BY DEF TypeOK
<1>8. /\ step = "got" => /\ fate'[r] = "accepted" /\ attempt'[r] < MaxAttempts
                         /\ tracked'[r] = NoMessage
      /\ step = "work" => tracked'[r] # NoMessage
  BY <1>1, <1>6 DEF Waiting, TypeOK
<1> HIDE DEF r
<1>9. \A j \in DOMAIN queue' : Waiting(Req(queue[j]))'
  BY <1>2, <1>7 DEF CountingOK, Waiting
<1>10. \A j \in DOMAIN queue', v \in Workers :
         has'[v] # NoMessage => Req(has'[v]) # Req(queue'[j])
  BY <1>2, <1>4, <1>5 DEF CountingOK, r
<1>11. \A u, v \in Workers :
         u # v /\ has'[u] # NoMessage /\ has'[v] # NoMessage => Req(has'[u]) # Req(has'[v])
  BY <1>4, <1>5 DEF CountingOK, r
<1>12. \A v \in Workers :
         /\ has'[v] # NoMessage => fate'[Req(has'[v])] = "accepted"
         /\ at'[v] \in {"got", "retrying"} => Waiting(Req(has[v]))'
         /\ at'[v] = "work" => tracked'[Req(has'[v])] # NoMessage
  <2> SUFFICES ASSUME NEW v \in Workers \ {w}
               PROVE  /\ has'[v] # NoMessage => fate'[Req(has'[v])] = "accepted"
                      /\ at'[v] \in {"got", "retrying"} => Waiting(Req(has[v]))'
                      /\ at'[v] = "work" => tracked'[Req(has'[v])] # NoMessage
    BY <1>5, <1>6, <1>8 DEF r, Waiting
  <2> QED
    BY <1>4, <1>7 DEF CountingOK, Waiting, HeldOK, Holding
<1>13. \A x \in Requests : tracked'[x] # NoMessage => fate'[x] = "accepted"
  BY <1>6, <1>7 DEF CountingOK, Waiting
<1>14. \A x \in Requests : fate'[x] \in {"new", "checked", "recorded"} => attempt'[x] = 0
  BY <1>6, <1>7 DEF CountingOK, Waiting
<1> QED
  BY <1>3, <1>9, <1>10, <1>11, <1>12, <1>13, <1>14 DEF CountingOK

LEMMA PopInv ==
  ASSUME DispatchInv, NEW w \in Workers,
         PopMemory(w) \/ TrackMemory(w) \/ PopRaft(w)
  PROVE  DispatchInv'
<1> USE DEF DispatchInv, local, broker
<1>1. CASE PopMemory(w)
  <2>1. PICK i \in DOMAIN queue : queue' = RemoveAt(queue, i) /\ Give(w, queue[i], "got")
    BY <1>1 DEF PopMemory, Poppable
  <2>2. queue' \in Seq(Messages) /\ queue[i] \in Messages
    BY <2>1, RemoveAtFacts DEF TypeOK
  <2>3. has[w] = NoMessage /\ backend \in Counting
    BY <1>1 DEF PopMemory, HeldOK, Holding, InProcess, Counting
  <2>4. UNCHANGED <<backend, attempt, tracked, fate, permit, shutting_down, unacked, recorded>>
    BY <1>1 DEF PopMemory
  <2>5. TypeOK' /\ HeldOK'
    BY <2>1, <2>2, <2>4, GiveFacts, MessageFacts DEF TypeOK, Holding
  <2>6. TrackedOK'
    BY <2>4 DEF TrackedOK
  <2>7. CountingOK'
    BY <2>1, <2>3, <2>4, PopCounting DEF Give
  <2> QED
    BY <2>5, <2>6, <2>7
<1>2. CASE TrackMemory(w)
  <2> DEFINE r == Req(has[w])
  <2>1. has[w] \in Messages /\ r \in Requests /\ backend \in Counting /\ at[w] = "got"
    BY <1>2, MessageFacts DEF TrackMemory, TypeOK, HeldOK, Holding, InProcess, Counting
  <2>2. Waiting(r)
    BY <2>1 DEF CountingOK
  <2>3. /\ attempt' = [attempt EXCEPT ![r] = @ + 1] /\ tracked' = [tracked EXCEPT ![r] = has[w]]
        /\ at' = [at EXCEPT ![w] = "work"]
        /\ UNCHANGED <<backend, queue, has, permit, shutting_down, unacked, recorded, fate>>
    BY <1>2 DEF TrackMemory
  <2>4. attempt' \in [Requests -> 0 .. MaxAttempts]
    BY <2>1, <2>2, <2>3, DispatchAssumption DEF TypeOK, Waiting
  <2>5. TypeOK'
    BY <2>1, <2>3, <2>4 DEF TypeOK
  <2>6. HeldOK' /\ TrackedOK'
    BY <2>1, <2>3 DEF TypeOK, HeldOK, TrackedOK, Holding
  <2>7. CountingOK'
    <3>1. \A x \in Requests \ {r} : attempt'[x] = attempt[x] /\ tracked'[x] = tracked[x]
      BY <2>3 DEF TypeOK
    <3>2. \A j \in DOMAIN queue : Req(queue[j]) \in Requests \ {r}
      BY <2>1, MessageFacts DEF TypeOK, CountingOK
    <3>3. \A v \in Workers \ {w} : /\ at'[v] = at[v]
                                   /\ has[v] # NoMessage => Req(has[v]) \in Requests \ {r}
      BY <2>1, <2>3, MessageFacts DEF TypeOK, CountingOK
    <3>4. at'[w] = "work" /\ tracked'[r] = has[w] /\ has[w] # NoMessage
      BY <2>1, <2>3, MessageFacts DEF TypeOK
    <3> HIDE DEF r
    <3>5. \A j \in DOMAIN queue : Waiting(Req(queue[j]))'
      BY <2>1, <2>3, <3>1, <3>2 DEF CountingOK, Waiting
    <3>6. ASSUME NEW v \in Workers
          PROVE  /\ has[v] # NoMessage => fate[Req(has[v])] = "accepted"
                 /\ at'[v] \in {"got", "retrying"} => Waiting(Req(has[v]))'
                 /\ at'[v] = "work" => tracked'[Req(has[v])] # NoMessage
      <4>1. CASE v = w
        BY <2>1, <2>2, <2>3, <3>4, <4>1 DEF r, Waiting
      <4>2. CASE v # w
        BY <2>1, <2>3, <3>1, <3>3, <4>2 DEF CountingOK, Waiting, HeldOK, Holding
      <4> QED
        BY <4>1, <4>2
    <3>7. \A x \in Requests :
            /\ tracked'[x] # NoMessage => fate[x] = "accepted"
            /\ fate[x] \in {"new", "checked", "recorded"} => attempt'[x] = 0
      BY <2>1, <2>2, <3>1 DEF CountingOK, Waiting
    <3> QED
      BY <2>1, <2>3, <3>5, <3>6, <3>7 DEF CountingOK
  <2> QED
    BY <2>5, <2>6, <2>7
<1>3. CASE PopRaft(w)
  <2> DEFINE m == queue[1]
  <2>1. 1 \in DOMAIN queue /\ Head(queue) = m
    BY <1>3 DEF PopRaft, Raft, TypeOK
  <2>2. Tail(queue) = RemoveAt(queue, 1) /\ m \in Messages
    BY <2>1, TailRemoves DEF TypeOK
  <2>3. /\ attempt' = [attempt EXCEPT ![Req(m)] = @ + 1]
        /\ tracked' = [tracked EXCEPT ![Req(m)] = m]
        /\ queue' = RemoveAt(queue, 1) /\ Give(w, m, "work")
        /\ UNCHANGED <<backend, permit, shutting_down, unacked, recorded, fate>>
        /\ backend \in Counting
    BY <1>3, <2>1, <2>2 DEF PopRaft, Raft, Counting
  <2>4. Req(m) \in Requests /\ Waiting(Req(m))
    BY <2>1, <2>2, <2>3, MessageFacts DEF CountingOK
  <2>5. attempt' \in [Requests -> 0 .. MaxAttempts]
    BY <2>3, <2>4, DispatchAssumption DEF TypeOK, Waiting
  <2>6. queue' \in Seq(Messages)
    BY <2>1, <2>3, RemoveAtFacts DEF TypeOK
  <2>7. TypeOK' /\ HeldOK'
    BY <2>2, <2>3, <2>5, <2>6, GiveFacts, MessageFacts DEF TypeOK, Holding
  <2>8. TrackedOK'
    BY <2>3, <2>4 DEF TypeOK, TrackedOK
  <2>9. has[w] = NoMessage
    BY <1>3 DEF PopRaft, Raft, HeldOK, Holding
  <2>10. CountingOK'
    BY <2>1, <2>3, <2>9, PopCounting DEF Give
  <2> QED
    BY <2>7, <2>8, <2>10
<1> QED
  BY <1>1, <1>2, <1>3

\* Polling and shutting down: nothing is handed out or taken back.
LEMMA WaitInv ==
  ASSUME DispatchInv,
         \/ \E w \in Workers : DequeueCheck(w) \/ PopNothing(w) \/ Await(w) \/ TimeOut(w)
         \/ Shutdown \/ UNCHANGED vars
  PROVE  DispatchInv'
<1> USE DEF DispatchInv, local, broker
<1>1. /\ UNCHANGED <<backend, queue, attempt, tracked, unacked, has, recorded, fate>>
      /\ at' \in [Workers -> {"idle", "ready", "got", "empty", "waiting", "woken", "work",
                              "acking", "ending", "retrying"}]
      /\ \A w \in Workers :
           at'[w] # at[w] => at'[w] \notin Holding /\ at[w] \notin Holding
  BY DEF DequeueCheck, PopNothing, Await, TimeOut, Shutdown, vars, TypeOK, Holding
<1>2. permit' \in BOOLEAN /\ shutting_down' \in BOOLEAN
  <2>1. permit \in BOOLEAN /\ shutting_down \in BOOLEAN
    BY DEF TypeOK
  <2>2. (permit' = FALSE \/ permit' = permit)
        /\ (shutting_down' = TRUE \/ shutting_down' = shutting_down)
    BY DEF DequeueCheck, PopNothing, Await, TimeOut, Shutdown, vars
  <2> QED
    BY <2>1, <2>2, Zenon
<1>3. TypeOK'
  BY <1>1, <1>2 DEF TypeOK
<1>4. HeldOK' /\ TrackedOK'
  BY <1>1 DEF HeldOK, TrackedOK
<1>5. CountingOK'
  BY <1>1, QuietCounting DEF Holding
<1> QED
  BY <1>3, <1>4, <1>5

\* The brokers count no attempts; a worker gets an entry and notes it.
LEMMA BrokerPopInv ==
  ASSUME DispatchInv, NEW w \in Workers, PopBroker(w) \/ TrackBroker(w) \/ PopList(w)
  PROVE  DispatchInv'
<1> USE DEF DispatchInv, local, broker
<1>q. queue # <<>> => Head(queue) \in Messages /\ Tail(queue) \in Seq(Messages)
  BY DEF TypeOK
<1>0. backend \notin Counting /\ UNCHANGED backend
  BY DEF PopBroker, TrackBroker, PopList, Brokered, Counting
<1>1. CASE PopBroker(w)
  <2>1. PICK m \in Messages : Give(w, m, "got") /\ queue' \in Seq(Messages) /\ unacked' \subseteq Messages
    BY <1>1, <1>q DEF PopBroker, TypeOK
  <2>2. UNCHANGED <<attempt, tracked, permit, shutting_down, recorded, fate>>
    BY <1>1 DEF PopBroker
  <2> QED
    BY <1>0, <2>1, <2>2, GiveFacts, MessageFacts DEF TypeOK, TrackedOK, CountingOK, Holding
<1>2. CASE PopList(w)
  <2>1. Give(w, Head(queue), "work") /\ Head(queue) \in Messages /\ queue' \in Seq(Messages)
    BY <1>2, <1>q DEF PopList
  <2>2. UNCHANGED <<attempt, tracked, unacked, permit, shutting_down, recorded, fate>>
    BY <1>2 DEF PopList
  <2> QED
    BY <1>0, <2>1, <2>2, GiveFacts, MessageFacts DEF TypeOK, TrackedOK, CountingOK, Holding
<1>3. CASE TrackBroker(w)
  <2>1. has[w] \in Messages /\ Req(has[w]) \in Requests
    BY <1>3, MessageFacts DEF TrackBroker, TypeOK, HeldOK, Holding
  <2>2. TypeOK' /\ TrackedOK' /\ HeldOK'
    BY <1>3, <2>1 DEF TrackBroker, TypeOK, TrackedOK, HeldOK, Holding
  <2> QED
    BY <1>0, <2>2 DEF CountingOK
<1> QED
  BY <1>1, <1>2, <1>3

\* What a worker that has been given a message may count on.
LEMMA WorkFacts ==
  ASSUME DispatchInv, NEW w \in Workers, at[w] \in Holding
  PROVE  /\ has[w] \in Messages /\ has[w] # NoMessage /\ Req(has[w]) \in Requests
         /\ \A f : f \in {"acked", "failed"} /\ Fate(Req(has[w]), f) =>
              /\ fate' \in [Requests -> Fates]
              /\ \A x \in Requests \ {Req(has[w])} : fate'[x] = fate[x]
              /\ fate'[Req(has[w])] \in Settled
BY MessageFacts DEF DispatchInv, TypeOK, HeldOK, Fate, Fates, Settled

\* ack and final nack where attempts are counted: the request is gone.
LEMMA EndCounting ==
  ASSUME DispatchInv, NEW w \in Workers, backend \in Counting, at[w] = "work",
         Done(w), Untrack(Req(has[w])), UNCHANGED <<backend, queue, attempt>>,
         NEW f \in {"acked", "failed"}, Fate(Req(has[w]), f)
  PROVE  CountingOK'
<1> DEFINE r == Req(has[w])
<1> USE DEF DispatchInv
<1>1. /\ r \in Requests /\ fate' \in [Requests -> Fates] /\ fate'[r] \in Settled
      /\ \A x \in Requests \ {r} : fate'[x] = fate[x] /\ tracked'[x] = tracked[x]
      /\ tracked'[r] = NoMessage
  BY WorkFacts DEF Holding, Untrack, TypeOK
<1>2. \A i \in DOMAIN queue : Req(queue[i]) \in Requests \ {r}
  BY WorkFacts, MessageFacts DEF TypeOK, CountingOK, Holding
<1>3. \A v \in Workers \ {w} : /\ has'[v] = has[v] /\ at'[v] = at[v]
                               /\ has[v] # NoMessage => Req(has[v]) \in Requests \ {r}
  BY WorkFacts, MessageFacts DEF TypeOK, CountingOK, Done, Give, Holding
<1>4. has'[w] = NoMessage /\ at'[w] = "idle"
  BY DEF Done, Give, TypeOK
<1> HIDE DEF r
<1>5. \A i \in DOMAIN queue' : Waiting(Req(queue[i]))'
  BY <1>1, <1>2 DEF CountingOK, Waiting
<1>6. \A v \in Workers :
        /\ has'[v] # NoMessage => fate'[Req(has'[v])] = "accepted"
        /\ at'[v] \in {"got", "retrying"} => Waiting(Req(has[v]))'
        /\ at'[v] = "work" => tracked'[Req(has'[v])] # NoMessage
  BY <1>1, <1>3, <1>4 DEF CountingOK, Waiting, HeldOK, Holding
<1>7. \A x \in Requests :
        /\ tracked'[x] # NoMessage => fate'[x] = "accepted"
        /\ fate'[x] \in {"new", "checked", "recorded"} => attempt'[x] = 0
  BY <1>1 DEF CountingOK, Settled
<1>8. /\ \A i \in DOMAIN queue', v \in Workers :
           has'[v] # NoMessage => Req(has'[v]) # Req(queue'[i])
      /\ \A u, v \in Workers :
           u # v /\ has'[u] # NoMessage /\ has'[v] # NoMessage => Req(has'[u]) # Req(has'[v])
      /\ \A i, j \in DOMAIN queue' : i # j => Req(queue'[i]) # Req(queue'[j])
  BY <1>3, <1>4 DEF CountingOK
<1> QED
  BY <1>5, <1>6, <1>7, <1>8 DEF CountingOK

LEMMA EndInv ==
  ASSUME DispatchInv, NEW w \in Workers, AckMemory(w) \/ AckRaft(w) \/ NackTake(w)
  PROVE  DispatchInv'
<1> USE DEF DispatchInv, local
<1> DEFINE r == Req(has[w])
<1>1. at[w] = "work" /\ backend \in Counting /\ at[w] \in Holding
  BY DEF AckMemory, AckRaft, RaftSays, NackTake, InProcess, Counting, Holding
<1>2. has[w] \in Messages /\ r \in Requests
  BY <1>1, WorkFacts
<1>3. /\ Untrack(r) /\ UNCHANGED <<backend, queue, attempt, permit, unacked, shutting_down>>
      /\ recorded' \in [Requests -> {"none", "running", "completed", "failed"}]
  BY <1>2 DEF AckMemory, AckRaft, RaftSays, NackTake, TypeOK, broker
<1>4. tracked' \in [Requests -> Messages \cup {NoMessage}] /\ TrackedOK'
  BY <1>2, <1>3 DEF Untrack, TypeOK, TrackedOK
<1>5. ASSUME NEW f \in {"acked", "failed"}, Fate(r, f), Done(w)
      PROVE  DispatchInv'
  <2>1. TypeOK' /\ HeldOK'
    BY <1>1, <1>3, <1>4, <1>5, WorkFacts, GiveFacts DEF TypeOK, Done, Holding
  <2>2. CountingOK'
    BY <1>1, <1>3, <1>5, EndCounting
  <2> QED
    BY <1>4, <2>1, <2>2
<1>6. ASSUME ~Exhausted(r), at' = [at EXCEPT ![w] = "retrying"], UNCHANGED <<has, fate, recorded>>
      PROVE  DispatchInv'
  <2>1. TypeOK' /\ HeldOK'
    BY <1>1, <1>3, <1>4, <1>6 DEF TypeOK, HeldOK, Holding
  <2>2. /\ \A x \in Requests \ {r} : tracked'[x] = tracked[x]
        /\ tracked'[r] = NoMessage /\ attempt[r] < MaxAttempts /\ fate[r] = "accepted"
    BY <1>1, <1>2, <1>3, <1>6, DispatchAssumption, MessageFacts
    DEF Untrack, TypeOK, Exhausted, CountingOK
  <2>3. \A v \in Workers \ {w} : /\ at'[v] = at[v]
                                 /\ has[v] # NoMessage => Req(has[v]) \in Requests \ {r}
    BY <1>1, <1>2, <1>6, MessageFacts DEF TypeOK, CountingOK
  <2>4. at'[w] = "retrying"
    BY <1>6 DEF TypeOK
  <2>5. \A i \in DOMAIN queue : Req(queue[i]) \in Requests
    BY MessageFacts DEF TypeOK
  <2>6. CountingOK'
    <3> HIDE DEF r
    <3>1. \A i \in DOMAIN queue' : Waiting(Req(queue[i]))'
      BY <1>1, <1>3, <1>6, <2>2, <2>5 DEF CountingOK, Waiting
    <3>2. ASSUME NEW v \in Workers
          PROVE  /\ has'[v] # NoMessage => fate'[Req(has'[v])] = "accepted"
                 /\ at'[v] \in {"got", "retrying"} => Waiting(Req(has[v]))'
                 /\ at'[v] = "work" => tracked'[Req(has'[v])] # NoMessage
      <4>1. CASE v = w
        BY <1>1, <1>3, <1>6, <2>2, <2>4, <4>1 DEF r, Waiting
      <4>2. CASE v # w
        BY <1>1, <1>3, <1>6, <2>2, <2>3, <4>2 DEF CountingOK, Waiting, HeldOK, Holding
      <4> QED
        BY <4>1, <4>2
    <3>3. \A x \in Requests :
            /\ tracked'[x] # NoMessage => fate'[x] = "accepted"
            /\ fate'[x] \in {"new", "checked", "recorded"} => attempt'[x] = 0
      BY <1>1, <1>3, <1>6, <2>2 DEF CountingOK
    <3> QED
      BY <1>1, <1>3, <1>6, <3>1, <3>2, <3>3 DEF CountingOK
  <2> QED
    BY <1>4, <2>1, <2>6
<1> QED
  BY <1>5, <1>6 DEF AckMemory, AckRaft, RaftSays, NackTake, broker

\* A retry goes back to the queue, or is dropped.
LEMMA RequeueInv ==
  ASSUME DispatchInv, NEW w \in Workers, Requeue(w)
  PROVE  DispatchInv'
<1> USE DEF DispatchInv, broker
<1> DEFINE r == Req(has[w])
           m == has[w]
<1>1. at[w] = "retrying" /\ backend \in Counting /\ at[w] \in Holding
  BY DEF Requeue, Holding
<1>2. m \in Messages /\ r \in Requests /\ Waiting(r) /\ m # NoMessage
  BY <1>1, WorkFacts DEF CountingOK
<1>3. UNCHANGED <<backend, attempt, tracked, shutting_down, unacked, recorded>>
  BY DEF Requeue
<1>4. TrackedOK'
  BY <1>3 DEF TrackedOK
<1>5. \A i \in DOMAIN queue : Req(queue[i]) \in Requests \ {r}
  BY <1>1, <1>2, MessageFacts DEF TypeOK, CountingOK
<1>6. \A v \in Workers \ {w} : has[v] # NoMessage => Req(has[v]) \in Requests \ {r}
  BY <1>1, <1>2, MessageFacts DEF TypeOK, CountingOK
<1>7. CASE queue' = queue
  <2>1. fate' = [fate EXCEPT ![r] = "dropped"] /\ Done(w) /\ UNCHANGED <<queue, permit>>
    <3>1. Append(queue, m) # queue
      BY <1>2, AppendFacts DEF TypeOK
    <3> QED
      BY <1>7, <3>1 DEF Requeue
  <2>2. TypeOK' /\ HeldOK'
    BY <1>2, <1>3, <2>1, GiveFacts DEF TypeOK, Done, Holding, Fates
  <2>3. /\ has'[w] = NoMessage /\ at'[w] = "idle"
        /\ \A v \in Workers \ {w} : has'[v] = has[v] /\ at'[v] = at[v]
        /\ \A x \in Requests \ {r} : fate'[x] = fate[x]
        /\ fate'[r] = "dropped" /\ tracked[r] = NoMessage
    BY <1>2, <2>1 DEF Done, Give, TypeOK, Waiting
  <2>4. CountingOK'
    <3> HIDE DEF r, m
    <3>1. \A i \in DOMAIN queue' : Waiting(Req(queue[i]))'
      BY <1>1, <1>3, <1>5, <2>1, <2>3 DEF CountingOK, Waiting
    <3>2. \A v \in Workers :
            /\ has'[v] # NoMessage => fate'[Req(has'[v])] = "accepted"
            /\ at'[v] \in {"got", "retrying"} => Waiting(Req(has[v]))'
            /\ at'[v] = "work" => tracked'[Req(has'[v])] # NoMessage
      BY <1>1, <1>3, <1>6, <2>3 DEF CountingOK, Waiting, HeldOK, Holding
    <3>3. \A x \in Requests :
            /\ tracked'[x] # NoMessage => fate'[x] = "accepted"
            /\ fate'[x] \in {"new", "checked", "recorded"} => attempt'[x] = 0
      BY <1>1, <1>3, <2>3 DEF CountingOK
    <3>4. /\ \A i \in DOMAIN queue', v \in Workers :
               has'[v] # NoMessage => Req(has'[v]) # Req(queue'[i])
          /\ \A u, v \in Workers :
               u # v /\ has'[u] # NoMessage /\ has'[v] # NoMessage => Req(has'[u]) # Req(has'[v])
          /\ \A i, j \in DOMAIN queue' : i # j => Req(queue'[i]) # Req(queue'[j])
      BY <1>1, <2>1, <2>3 DEF CountingOK
    <3> QED
      BY <3>1, <3>2, <3>3, <3>4 DEF CountingOK
  <2> QED
    BY <1>4, <2>2, <2>4
<1>8. CASE queue' # queue
  <2>1. /\ queue' = Append(queue, m) /\ has' = [has EXCEPT ![w] = NoMessage] /\ UNCHANGED fate
        /\ \/ permit' = permit \/ permit' = (backend \in InProcess \/ permit)
        /\ \/ at' = [at EXCEPT ![w] = "idle"]
           \/ \E v \in Workers : /\ at[v] = "waiting"
                                 /\ at' = [at EXCEPT ![v] = "woken", ![w] = "idle"]
    BY <1>8 DEF Requeue
  <2>2. permit' \in BOOLEAN
    <3>1. permit \in BOOLEAN
      BY DEF TypeOK
    <3> QED
      BY <2>1, <3>1, Zenon
  <2>3. /\ at' \in [Workers -> {"idle", "ready", "got", "empty", "waiting", "woken", "work",
                                 "acking", "ending", "retrying"}]
        /\ at'[w] = "idle"
        /\ \A v \in Workers \ {w} :
             at'[v] # at[v] => at[v] = "waiting" /\ at'[v] = "woken"
    BY <1>1, <2>1 DEF TypeOK
  <2>4. /\ has' \in [Workers -> Messages \cup {NoMessage}] /\ has'[w] = NoMessage
        /\ \A v \in Workers \ {w} : has'[v] = has[v]
    BY <2>1 DEF TypeOK
  <2>5. TypeOK'
    BY <1>2, <1>3, <2>1, <2>2, <2>3, <2>4, AppendFacts DEF TypeOK
  <2>6. HeldOK'
    BY <2>3, <2>4 DEF HeldOK, Holding
  <2> DEFINE n == Len(queue) + 1
  <2>7. /\ DOMAIN queue = 1 .. Len(queue) /\ DOMAIN queue' = 1 .. n /\ Len(queue) \in Nat
        /\ \A i \in DOMAIN queue : queue'[i] = queue[i]
        /\ queue'[n] = m
    BY <1>2, <2>1, AppendFacts DEF TypeOK
  <2>8. \A i \in DOMAIN queue' : i = n \/ i \in DOMAIN queue
    BY <2>7
  <2> HIDE DEF n
  <2>9. CountingOK'
    <3>1. \A i \in DOMAIN queue' : Waiting(Req(queue[i]))'
      BY <1>1, <1>2, <1>3, <2>1, <2>7, <2>8 DEF CountingOK, Waiting
    <3>2. \A v \in Workers :
            /\ has'[v] # NoMessage => fate'[Req(has'[v])] = "accepted"
            /\ at'[v] \in {"got", "retrying"} => Waiting(Req(has[v]))'
            /\ at'[v] = "work" => tracked'[Req(has'[v])] # NoMessage
      BY <1>1, <1>3, <2>1, <2>3, <2>4 DEF CountingOK, Waiting
    <3>3. \A x \in Requests :
            /\ tracked'[x] # NoMessage => fate'[x] = "accepted"
            /\ fate'[x] \in {"new", "checked", "recorded"} => attempt'[x] = 0
      BY <1>1, <1>3, <2>1 DEF CountingOK
    <3>4. \A i \in DOMAIN queue', v \in Workers :
            has'[v] # NoMessage => Req(has'[v]) # Req(queue'[i])
      BY <1>1, <1>6, <2>4, <2>7, <2>8 DEF CountingOK
    <3>5. \A u, v \in Workers :
            u # v /\ has'[u] # NoMessage /\ has'[v] # NoMessage => Req(has'[u]) # Req(has'[v])
      BY <1>1, <2>4 DEF CountingOK
    <3>6. \A i, j \in DOMAIN queue' : i # j => Req(queue'[i]) # Req(queue'[j])
      BY <1>1, <1>5, <2>7, <2>8 DEF CountingOK
    <3> QED
      BY <3>1, <3>2, <3>3, <3>4, <3>5, <3>6 DEF CountingOK
  <2> QED
    BY <1>4, <2>5, <2>6, <2>9
<1> QED
  BY <1>7, <1>8

\* The brokers: what is acknowledged is an entry of the request.
LEMMA BrokerEndInv ==
  ASSUME DispatchInv, NEW w \in Workers,
         LookupRedis(w) \/ ConcludeRedis(w) \/ AckNats(w) \/ NackNats(w) \/ EndList(w)
  PROVE  DispatchInv'
<1> USE DEF DispatchInv, local, broker
<1> DEFINE r == Req(has[w])
<1>0. backend \notin Counting /\ at[w] \in Holding /\ UNCHANGED <<backend, attempt, permit>>
  BY DEF LookupRedis, ConcludeRedis, AckNats, NackNats, EndList, Counting, Holding
<1>1. CountingOK' /\ has[w] \in Messages /\ r \in Requests
  BY <1>0, WorkFacts DEF CountingOK
<1>2. fate' \in [Requests -> Fates]
  <2>1. UNCHANGED fate \/ \E f \in {"acked", "failed"} : Fate(r, f)
    BY DEF LookupRedis, ConcludeRedis, AckNats, NackNats, EndList
  <2> QED
    BY <1>0, <2>1, WorkFacts DEF TypeOK
<1>3. UNCHANGED <<shutting_down, recorded>>
  BY DEF LookupRedis, ConcludeRedis, AckNats, NackNats, EndList
<1>4. unacked' \subseteq Messages
  BY DEF LookupRedis, ConcludeRedis, AckNats, NackNats, EndList, TypeOK
<1>5. tracked' = tracked \/ Untrack(r)
  BY DEF LookupRedis, ConcludeRedis, AckNats, NackNats, EndList
<1>6. tracked' \in [Requests -> Messages \cup {NoMessage}] /\ TrackedOK'
  BY <1>1, <1>5 DEF Untrack, TypeOK, TrackedOK
<1>7. \/ Done(w)
      \/ UNCHANGED has /\ \E step \in {"acking", "ending", "retrying"} : at' = [at EXCEPT ![w] = step]
  BY DEF LookupRedis, ConcludeRedis, AckNats, NackNats, EndList
<1>8. /\ at' \in [Workers -> {"idle", "ready", "got", "empty", "waiting", "woken", "work",
                              "acking", "ending", "retrying"}]
      /\ has' \in [Workers -> Messages \cup {NoMessage}] /\ HeldOK'
  BY <1>0, <1>7, GiveFacts DEF Done, TypeOK, HeldOK, Holding
<1>9. queue' \in Seq(Messages)
  <2>1. CASE queue' = queue
    BY <2>1 DEF TypeOK
  <2>2. CASE queue' # queue
    <3>1. /\ tracked[r] # NoMessage /\ tracked[r][2] < MaxAttempts
          /\ queue' = Append(queue, <<r, tracked[r][2] + 1>>)
      BY <2>2 DEF LookupRedis, ConcludeRedis, AckNats, NackNats, EndList
    <3>2. tracked[r] \in Requests \X (1 .. MaxAttempts)
      BY <1>1, <3>1 DEF TypeOK, Messages
    <3>3. <<r, tracked[r][2] + 1>> \in Messages
      BY <1>1, <3>1, <3>2, DispatchAssumption DEF Messages
    <3> QED
      BY <3>1, <3>3, AppendFacts DEF TypeOK
  <2> QED
    BY <2>1, <2>2
<1> QED
  BY <1>0, <1>1, <1>2, <1>3, <1>4, <1>6, <1>8, <1>9 DEF TypeOK

LEMMA AbandonInv ==
  ASSUME DispatchInv, NEW w \in Workers, Abandon(w)
  PROVE  DispatchInv'
<1> USE DEF DispatchInv, local, broker
<1>1. Done(w) /\ UNCHANGED <<backend, queue, tracked, attempt, permit, shutting_down,
                             unacked, recorded, fate>>
  BY DEF Abandon
<1>2. TypeOK' /\ HeldOK' /\ TrackedOK'
  BY <1>1, GiveFacts DEF Done, TypeOK, TrackedOK, Holding
<1>3. /\ has'[w] = NoMessage /\ at'[w] = "idle"
      /\ \A v \in Workers \ {w} : has'[v] = has[v] /\ at'[v] = at[v]
  BY <1>1 DEF Done, Give, TypeOK
<1>4. CountingOK'
  BY <1>1, <1>3 DEF CountingOK, Waiting
<1> QED
  BY <1>2, <1>4

LEMMA StepInv ==
  ASSUME DispatchInv, [Next]_vars
  PROVE  DispatchInv'
BY EnqueueInv, PopInv, WaitInv, BrokerPopInv, EndInv, RequeueInv, BrokerEndInv, AbandonInv
DEF Next, Dequeue, Finish

(* Whatever the backend, every step of the workers, of the broker and of a  *)
(* shutdown keeps the invariant.                                            *)
THEOREM DispatchInvariant == Spec => []DispatchInv
BY InitInv, StepInv, PTL DEF Spec

(* Dispatch keeps its types: in particular no request is ever attempted     *)
(* more than max_attempts times where attempts are counted.                 *)
THEOREM DispatchTypes == Spec => []TypeOK
BY DispatchInvariant, PTL DEF DispatchInv

-----------------------------------------------------------------------------
(* One holder at a time.                                                    *)

\* A queue without repetition is as long as the set of its requests.
LEMMA QueueLength ==
  ASSUME DispatchInv, backend \in Counting
  PROVE  Len(queue) = Cardinality(Queued) /\ IsFiniteSet(Queued)
<1> DEFINE n == Len(queue)
           g == [i \in 1 .. n |-> Req(queue[i])]
<1>1. n \in Nat /\ DOMAIN queue = 1 .. n
  BY DEF DispatchInv, TypeOK
<1>2. Queued = {g[i] : i \in 1 .. n}
  BY <1>1 DEF Queued, ToSet
<1>3. \A i, j \in 1 .. n : g[i] = g[j] => i = j
  BY <1>1 DEF DispatchInv, CountingOK
<1>4. g \in Bijection(1 .. n, Queued)
  <2>1. g \in [1 .. n -> Queued]
    BY <1>2
  <2> HIDE DEF g, n
  <2> QED
    BY <1>2, <1>3, <2>1 DEF Bijection, Injection, Surjection, IsInjective
<1>5. IsFiniteSet(1 .. n) /\ Cardinality(1 .. n) = n
  <2> HIDE DEF g, n
  <2>1. 1 \in Int /\ n \in Int
    BY <1>1
  <2>2. IsFiniteSet(1 .. n) /\ Cardinality(1 .. n) = IF 1 > n THEN 0 ELSE n - 1 + 1
    BY <2>1, FS_Interval, Zenon
  <2> QED
    BY <1>1, <2>2
<1>6. ExistsBijection(1 .. n, Queued)
  BY <1>4, Zenon DEF ExistsBijection
<1> QED
  BY <1>5, <1>6, FS_Bijection

\* HeldBy and Queued, unfolded.
LEMMA HolderFacts ==
  ASSUME TypeOK
  PROVE  /\ \A w \in Workers : /\ has[w] # NoMessage <=> HeldBy(w) # NoRequest
                               /\ has[w] # NoMessage => /\ HeldBy(w) = Req(has[w])
                                                        /\ HeldBy(w) \in Requests
         /\ \A r : r \in Held <=> \E w \in Workers : has[w] # NoMessage /\ Req(has[w]) = r
         /\ \A r : r \in Queued <=> \E i \in DOMAIN queue : Req(queue[i]) = r
         /\ Queued \subseteq Requests /\ Held \subseteq Requests
<1>1. \A w \in Workers : /\ has[w] # NoMessage <=> HeldBy(w) # NoRequest
                         /\ has[w] # NoMessage => /\ HeldBy(w) = Req(has[w])
                                                  /\ HeldBy(w) \in Requests
  BY MessageFacts, DispatchAssumption DEF TypeOK, HeldBy
<1>2. \A r : r \in Held <=> \E w \in Workers : has[w] # NoMessage /\ Req(has[w]) = r
  BY <1>1 DEF Held
<1>3. \A r : r \in Queued <=> \E i \in DOMAIN queue : Req(queue[i]) = r
  BY DEF Queued, ToSet
<1>4. Queued \subseteq Requests
  BY <1>3, MessageFacts DEF TypeOK
<1>5. Held \subseteq Requests
  BY <1>1, <1>2
<1> QED
  BY <1>1, <1>2, <1>3, <1>4, <1>5

(* Where attempts are counted, a request is in one place at a time, and     *)
(* what was acknowledged or given up is never queued or held again.         *)
THEOREM OneHolderHolds == Spec => []OneHolder
<1>1. DispatchInv => OneHolder
  <2> SUFFICES ASSUME DispatchInv, backend \in Counting
               PROVE  /\ \A v, w \in Workers : v # w /\ has[v] # NoMessage => HeldBy(v) # HeldBy(w)
                      /\ Len(queue) = Cardinality(Queued) /\ Queued \cap (Held \cup Tracked) = {}
                      /\ \A r \in Queued \cup Held \cup Tracked : fate[r] = "accepted"
    BY DEF OneHolder
  <2>0. TypeOK
    BY DEF DispatchInv
  <2>1. \A v, w \in Workers : v # w /\ has[v] # NoMessage => HeldBy(v) # HeldBy(w)
    BY <2>0, HolderFacts DEF DispatchInv, CountingOK
  <2>2. Queued \cap (Held \cup Tracked) = {}
    BY <2>0, HolderFacts DEF DispatchInv, CountingOK, Waiting, Tracked
  <2>3. \A r \in Queued \cup Held \cup Tracked : fate[r] = "accepted"
    BY <2>0, HolderFacts DEF DispatchInv, CountingOK, Waiting, Tracked
  <2> QED
    BY <2>1, <2>2, <2>3, QueueLength
<1> QED
  BY <1>1, DispatchInvariant, PTL

-----------------------------------------------------------------------------
(* The promise of the trait.                                                *)

StatusOf(f) ==
  CASE f \in {"checked", "recorded"} -> "new"
    [] f \in Settled -> "settled"
    [] OTHER -> f

AllStatus == [r \in Requests |-> Status(r)]
AllBusy == [w \in Workers |-> HeldBy(w)]

LEMMA StatusFacts ==
  ASSUME TypeOK, NEW r \in Requests, NEW f \in Fates, fate' = [fate EXCEPT ![r] = f]
  PROVE  AllStatus' = [AllStatus EXCEPT ![r] = StatusOf(f)]
<1>1. \A x \in Requests : Status(x)' = IF x = r THEN StatusOf(f) ELSE Status(x)
  <2> TAKE x \in Requests
  <2>1. fate'[x] = IF x = r THEN f ELSE fate[x]
    BY DEF TypeOK
  <2>2. Status(x) = StatusOf(fate[x]) /\ Status(x)' = StatusOf(fate'[x])
    BY DEF Status, StatusOf
  <2> QED
    BY <2>1, <2>2
<1>2. AllStatus' = [x \in Requests |-> Status(x)']
  BY DEF AllStatus
<1> QED
  BY <1>1, <1>2 DEF AllStatus

LEMMA SameStatus ==
  ASSUME UNCHANGED fate
  PROVE  AllStatus' = AllStatus
BY DEF AllStatus, Status

LEMMA SettledStatus ==
  ASSUME TypeOK, NEW r \in Requests, NEW f \in {"acked", "failed"}, Fate(r, f)
  PROVE  AllStatus' = [AllStatus EXCEPT ![r] = "settled"]
<1>1. CASE fate[r] \in Settled
  <2>1. AllStatus' = AllStatus /\ Status(r) = "settled"
    BY <1>1, SameStatus DEF Fate, Status, Settled
  <2> QED
    BY <2>1 DEF AllStatus
<1>2. CASE fate[r] \notin Settled
  BY <1>2, StatusFacts DEF Fate, StatusOf, Settled, Fates
<1> QED
  BY <1>1, <1>2

\* A worker is given a message, or ends with one.
LEMMA BusyFacts ==
  ASSUME TypeOK, NEW w \in Workers, NEW m \in Messages \cup {NoMessage},
         has' = [has EXCEPT ![w] = m]
  PROVE  AllBusy' = [AllBusy EXCEPT ![w] = IF m = NoMessage THEN NoRequest ELSE Req(m)]
<1>1. \A v \in Workers : has'[v] = IF v = w THEN m ELSE has[v]
  BY DEF TypeOK
<1>2. AllBusy' = [v \in Workers |-> HeldBy(v)']
  BY DEF AllBusy
<1>3. \A v \in Workers :
        HeldBy(v)' = IF v = w THEN IF m = NoMessage THEN NoRequest ELSE Req(m) ELSE HeldBy(v)
  BY <1>1 DEF HeldBy
<1> QED
  BY <1>2, <1>3 DEF AllBusy

LEMMA SameBusy ==
  ASSUME UNCHANGED has
  PROVE  AllBusy' = AllBusy
BY DEF AllBusy, HeldBy

\* Custody, read off the backend one request at a time.
InCustody(r) ==
  \/ \E i \in DOMAIN queue : Req(queue[i]) = r
  \/ backend \in Brokered /\ \E m \in unacked : Req(m) = r
  \/ backend \notin Brokered /\ \E w \in Workers : has[w] # NoMessage /\ Req(has[w]) = r
  \/ backend \in Counting /\ r \in Requests /\ tracked[r] # NoMessage

CustodyOK == Custody \subseteq Requests /\ \A r : r \in Custody <=> InCustody(r)

LEMMA CustodyFacts == TypeOK => CustodyOK
<1> SUFFICES ASSUME TypeOK
             PROVE  Custody \subseteq Requests /\ \A r : r \in Custody <=> InCustody(r)
  BY DEF CustodyOK
<1>1. backend \in Brokered \/ backend = "list" \/ backend \in Counting
  BY DispatchAssumption DEF TypeOK, AllBackends, Brokered, Counting
<1>2. backend \in Brokered => backend \notin Counting /\ backend # "list"
  BY DEF Brokered, Counting
<1>3. backend = "list" => backend \notin Counting
  BY DEF Counting
<1>4. {Req(m) : m \in unacked} \subseteq Requests /\ Tracked \subseteq Requests
  BY MessageFacts DEF TypeOK, Tracked
<1>5. CASE backend \in Brokered
  <2>1. Custody = Queued \cup {Req(m) : m \in unacked}
    BY <1>2, <1>5 DEF Custody
  <2> QED
    BY <1>2, <1>4, <1>5, <2>1, HolderFacts DEF InCustody
<1>6. CASE backend = "list"
  <2>1. Custody = Queued \cup Held
    BY <1>2, <1>6 DEF Custody
  <2> QED
    BY <1>2, <1>3, <1>6, <2>1, HolderFacts DEF InCustody
<1>7. CASE backend \in Counting
  <2>1. Custody = Queued \cup Held \cup Tracked
    BY <1>2, <1>3, <1>7 DEF Custody
  <2> QED
    BY <1>2, <1>4, <1>7, <2>1, HolderFacts DEF InCustody, Tracked
<1> QED
  BY <1>1, <1>5, <1>6, <1>7

\* Two custodies that differ in one request at most.
LEMMA CustodyStep ==
  ASSUME TypeOK, TypeOK', NEW r \in Requests,
         \A x \in Requests \ {r} : InCustody(x)' <=> InCustody(x)
  PROVE  /\ (InCustody(r) <=> InCustody(r)') => Custody' = Custody
         /\ InCustody(r)' => Custody' = Custody \cup {r}
         /\ ~InCustody(r)' => Custody' = Custody \ {r}
<1>1. CustodyOK
  BY CustodyFacts
<1>2. CustodyOK'
  BY CustodyFacts, PTL
<1> QED
  BY <1>1, <1>2 DEF CustodyOK

(* The steps of WorkQueue, in terms of the backend's state.                 *)

LEMMA AcceptStep ==
  ASSUME NEW r \in Requests, AllStatus[r] = "new", NEW s \in {"accepted", "refused"},
         AllStatus' = [AllStatus EXCEPT ![r] = s], AllBusy' = AllBusy, UNCHANGED backend,
         Custody' = Custody \cup {r} \/ (s = "refused" /\ Custody' = Custody)
  PROVE  WQ!Next
<1>1. AllStatus'[r] = s
  BY DEF AllStatus
<1>2. WQ!Accept(r)
  BY <1>1 DEF WQ!Accept, AllStatus, AllBusy
<1> QED
  BY <1>2 DEF WQ!Next

LEMMA DeliverStep ==
  ASSUME NEW w \in Workers, NEW r \in Requests, AllBusy[w] = NoRequest, r \in Custody,
         AllBusy' = [AllBusy EXCEPT ![w] = r], AllStatus' = AllStatus, Custody' = Custody,
         UNCHANGED backend
  PROVE  WQ!Next
<1>1. WQ!Deliver(w, r)
  BY DEF WQ!Deliver, AllStatus, AllBusy
<1> QED
  BY <1>1 DEF WQ!Next

\* WorkQueue counts with the Cardinality of its own FiniteSets.
LEMMA SameCardinality ==
  ASSUME NEW S
  PROVE  WQ!Cardinality(S) = Cardinality(S)
BY Zenon DEF WQ!Cardinality, Cardinality

\* How a worker may end with the request it has.
LEMMA EndStep ==
  ASSUME NEW w \in Workers, AllBusy[w] # NoRequest, UNCHANGED backend,
         AllBusy' = [AllBusy EXCEPT ![w] = NoRequest],
         \/ /\ AllStatus' = [AllStatus EXCEPT ![AllBusy[w]] = "settled"]
            /\ Custody' = Custody \/ Custody' = Custody \ {AllBusy[w]}
         \/ /\ AllStatus' = AllStatus
            /\ \/ Custody' = Custody \/ Custody' = Custody \cup {AllBusy[w]}
               \/ backend = "list" /\ Custody' = Custody \ {AllBusy[w]}
         \/ /\ AllStatus' = [AllStatus EXCEPT ![AllBusy[w]] = "dropped"]
            /\ Cardinality(Custody) > MaxQueueSize /\ Custody' = Custody \ {AllBusy[w]}
  PROVE  WQ!Next
<1>1. WQ!Settle(w) \/ WQ!Return(w) \/ WQ!Drop(w) \/ WQ!Lose(w)
  BY SameCardinality DEF WQ!Settle, WQ!Return, WQ!Drop, WQ!Lose, AllStatus, AllBusy
<1> QED
  BY <1>1 DEF WQ!Next

LEMMA StutterStep ==
  ASSUME UNCHANGED backend, AllStatus' = AllStatus, AllBusy' = AllBusy, Custody' = Custody
  PROVE  UNCHANGED WQ!vars
BY DEF WQ!vars, AllStatus, AllBusy

LEMMA SameCustody ==
  ASSUME UNCHANGED <<backend, queue, unacked, has, tracked>>
  PROVE  Custody' = Custody
BY DEF Custody, Queued, Held, HeldBy, Tracked

\* One more message in the queue.
LEMMA AppendCustody ==
  ASSUME TypeOK, TypeOK', NEW m \in Messages, queue' = Append(queue, m),
         UNCHANGED <<backend, unacked, has, tracked>>
  PROVE  Custody' = Custody \cup {Req(m)}
<1>1. Req(m) \in Requests
  BY MessageFacts
<1>2. /\ DOMAIN queue = 1 .. Len(queue) /\ DOMAIN queue' = 1 .. Len(queue) + 1
      /\ Len(queue) \in Nat /\ \A i \in DOMAIN queue : queue'[i] = queue[i]
      /\ queue'[Len(queue) + 1] = m
  BY AppendFacts DEF TypeOK
<1>3. \A x : (\E i \in DOMAIN queue' : Req(queue'[i]) = x)
               <=> x = Req(m) \/ \E i \in DOMAIN queue : Req(queue[i]) = x
  BY <1>2
<1>4. InCustody(Req(m))'
  BY <1>2, <1>3 DEF InCustody
<1>5. \A x \in Requests \ {Req(m)} : InCustody(x)' <=> InCustody(x)
  BY <1>3 DEF InCustody
<1> QED
  BY <1>1, <1>4, <1>5, CustodyStep

\* enqueue is Accept, or still to come.
LEMMA EnqueueMaps ==
  ASSUME DispatchInv, DispatchInv', NEW r \in Requests, Enqueue(r)
  PROVE  WQ!Next \/ UNCHANGED WQ!vars
<1> USE DEF local, broker
<1>0. TypeOK /\ TypeOK' /\ <<r, 1>> \in Messages /\ Req(<<r, 1>>) = r
  BY MessageFacts DEF DispatchInv
<1>1. UNCHANGED <<backend, unacked, has, tracked>> /\ AllBusy' = AllBusy
  BY SameBusy DEF Enqueue, EnqueueCheck, EnqueueMemory, EnqueueRecord, EnqueueRaft,
     EnqueueRedis, EnqueueNats
<1>2. fate[r] \in {"new", "checked", "recorded"} /\ AllStatus[r] = "new"
  <2>1. fate[r] \in {"new", "checked", "recorded"}
    BY DEF Enqueue, EnqueueCheck, EnqueueMemory, EnqueueRecord, EnqueueRaft, EnqueueRedis,
       EnqueueNats
  <2> QED
    BY <2>1 DEF AllStatus, Status, Settled
<1>3. \/ \E f \in {"checked", "recorded"} : fate' = [fate EXCEPT ![r] = f] /\ UNCHANGED queue
      \/ \E f \in {"accepted", "refused"} :
           /\ fate' = [fate EXCEPT ![r] = f]
           /\ queue' = Append(queue, <<r, 1>>) \/ (f = "refused" /\ UNCHANGED queue)
  <2>1. CASE EnqueueCheck(r)
    BY <2>1, Zenon DEF EnqueueCheck
  <2>2. CASE EnqueueMemory(r)
    BY <2>2, Zenon DEF EnqueueMemory
  <2>3. CASE EnqueueRecord(r)
    BY <2>3, Zenon DEF EnqueueRecord
  <2>4. CASE EnqueueRaft(r)
    BY <2>4, Zenon DEF EnqueueRaft
  <2>5. CASE EnqueueRedis(r) \/ EnqueueNats(r)
    BY <2>5, Zenon DEF EnqueueRedis, EnqueueNats, Store
  <2> QED
    BY <2>1, <2>2, <2>3, <2>4, <2>5 DEF Enqueue
<1>4. ASSUME NEW f \in {"checked", "recorded"}, fate' = [fate EXCEPT ![r] = f], UNCHANGED queue
      PROVE  UNCHANGED WQ!vars
  <2>1. AllStatus' = [AllStatus EXCEPT ![r] = "new"]
    BY <1>0, <1>4, StatusFacts DEF StatusOf, Fates, Settled
  <2>2. AllStatus' = AllStatus
    BY <1>2, <2>1 DEF AllStatus
  <2> QED
    BY <1>1, <1>4, <2>2, SameCustody, StutterStep
<1>5. ASSUME NEW f \in {"accepted", "refused"}, fate' = [fate EXCEPT ![r] = f],
             queue' = Append(queue, <<r, 1>>) \/ (f = "refused" /\ UNCHANGED queue)
      PROVE  WQ!Next
  <2>1. AllStatus' = [AllStatus EXCEPT ![r] = f]
    BY <1>0, <1>5, StatusFacts DEF StatusOf, Fates, Settled
  <2>2. Custody' = Custody \cup {r} \/ (f = "refused" /\ Custody' = Custody)
    BY <1>0, <1>1, <1>5, AppendCustody, SameCustody
  <2> QED
    BY <1>1, <1>2, <2>1, <2>2, AcceptStep
<1> QED
  BY <1>3, <1>4, <1>5

\* A message leaves the queue for a worker, or for the unacknowledged ones.
LEMMA PopCustody ==
  ASSUME TypeOK, TypeOK', NEW w \in Workers, has[w] = NoMessage, NEW i \in DOMAIN queue,
         queue' = RemoveAt(queue, i), has' = [has EXCEPT ![w] = queue[i]], UNCHANGED backend,
         UNCHANGED tracked \/ tracked' = [tracked EXCEPT ![Req(queue[i])] = queue[i]],
         IF backend \in Brokered THEN unacked' = unacked \cup {queue[i]} ELSE UNCHANGED unacked
  PROVE  Custody' = Custody /\ Req(queue[i]) \in Requests \cap Custody
<1> DEFINE m == queue[i]
           r == Req(m)
<1>1. m \in Messages /\ r \in Requests /\ m # NoMessage
  BY MessageFacts, RemoveAtFacts DEF TypeOK
<1>2. /\ \A x : (\E j \in DOMAIN queue' : Req(queue'[j]) = x)
                  => \E j \in DOMAIN queue : Req(queue[j]) = x
      /\ \A x : (\E j \in DOMAIN queue : Req(queue[j]) = x)
                  => x = r \/ \E j \in DOMAIN queue' : Req(queue'[j]) = x
  <2> HIDE DEF r, m
  <2>1. /\ \A j \in DOMAIN queue' : \E k \in DOMAIN queue : queue'[j] = queue[k]
        /\ \A j \in DOMAIN queue \ {i} : \E k \in DOMAIN queue' : queue'[k] = queue[j]
    BY RemoveAtFacts DEF TypeOK
  <2>2. \A j \in DOMAIN queue : j = i \/ j \in DOMAIN queue \ {i}
    OBVIOUS
  <2>3. Req(queue[i]) = r
    BY DEF r, m
  <2> QED
    BY <2>1, <2>2, <2>3, Zenon
<1>3. has'[w] = m /\ \A v \in Workers \ {w} : has'[v] = has[v]
  BY DEF TypeOK
<1>4. \A x \in Requests \ {r} : tracked'[x] = tracked[x]
  BY DEF TypeOK
<1>5. InCustody(r)
  BY DEF InCustody
<1>h. r \in Custody
  BY <1>5, CustodyFacts DEF CustodyOK
<1>6. backend' \notin Brokered =>
        \E v \in Workers : has'[v] # NoMessage /\ Req(has'[v]) = r
  BY <1>1, <1>3
<1>7. backend' \in Brokered => \E n \in unacked' : Req(n) = r
  OBVIOUS
<1>n. \A x : x # r => /\ (\E n \in unacked' : Req(n) = x) <=> (\E n \in unacked : Req(n) = x)
                      /\ (\E v \in Workers : has'[v] # NoMessage /\ Req(has'[v]) = x)
                           <=> (\E v \in Workers : has[v] # NoMessage /\ Req(has[v]) = x)
  BY <1>3
<1> HIDE DEF r, m
<1>8. \A x \in Requests \ {r} : InCustody(x)' <=> InCustody(x)
  BY <1>2, <1>4, <1>n DEF InCustody
<1>9. ASSUME NEW y, y = r
      PROVE InCustody(y)'
  BY <1>6, <1>7, <1>9 DEF InCustody
<1> QED
  BY <1>1, <1>5, <1>h, <1>8, <1>9, CustodyStep DEF r, m

\* What WorkQueue sees of the worker.
LEMMA SeenBusy ==
  ASSUME DispatchInv, NEW w \in Workers
  PROVE  /\ at[w] \in Holding => /\ AllBusy[w] = Req(has[w]) /\ AllBusy[w] \in Requests
                                 /\ AllBusy[w] # NoRequest
         /\ at[w] \notin Holding => has[w] = NoMessage /\ AllBusy[w] = NoRequest
<1>1. AllBusy[w] = HeldBy(w)
  BY DEF AllBusy
<1>2. /\ has[w] # NoMessage => HeldBy(w) = Req(has[w]) /\ HeldBy(w) \in Requests
      /\ has[w] = NoMessage => HeldBy(w) = NoRequest
  BY HolderFacts DEF DispatchInv
<1> QED
  BY <1>1, <1>2, DispatchAssumption DEF DispatchInv, HeldOK

\* dequeue is Deliver at the step that takes the message.
LEMMA PopMaps ==
  ASSUME DispatchInv, DispatchInv', NEW w \in Workers,
         PopMemory(w) \/ PopRaft(w) \/ PopBroker(w) \/ PopList(w)
  PROVE  WQ!Next
<1> USE DEF local, broker
<1>0. TypeOK /\ TypeOK'
  BY DEF DispatchInv
<1>1. has[w] = NoMessage /\ AllBusy[w] = NoRequest
  BY SeenBusy DEF PopMemory, PopRaft, Raft, PopBroker, PopList, Holding
<1>2. AllStatus' = AllStatus /\ UNCHANGED backend
  BY SameStatus DEF PopMemory, PopRaft, Raft, PopBroker, PopList
<1>3. ASSUME NEW m \in Messages, has' = [has EXCEPT ![w] = m], Custody' = Custody,
             Req(m) \in Custody
      PROVE  WQ!Next
  <2>1. AllBusy' = [AllBusy EXCEPT ![w] = Req(m)] /\ Req(m) \in Requests
    BY <1>0, <1>3, BusyFacts, MessageFacts
  <2> QED
    BY <1>1, <1>2, <1>3, <2>1, DeliverStep
<1>4. ASSUME NEW i \in DOMAIN queue, queue' = RemoveAt(queue, i),
             has' = [has EXCEPT ![w] = queue[i]],
             UNCHANGED tracked \/ tracked' = [tracked EXCEPT ![Req(queue[i])] = queue[i]],
             IF backend \in Brokered THEN unacked' = unacked \cup {queue[i]}
                                     ELSE UNCHANGED unacked
      PROVE  WQ!Next
  <2>1. Custody' = Custody /\ Req(queue[i]) \in Custody
    BY <1>0, <1>1, <1>2, <1>4, PopCustody
  <2>2. queue[i] \in Messages
    BY <1>0, RemoveAtFacts DEF TypeOK
  <2> QED
    BY <1>3, <1>4, <2>1, <2>2
<1>5. queue # <<>> => /\ 1 \in DOMAIN queue /\ Head(queue) = queue[1]
                      /\ Tail(queue) = RemoveAt(queue, 1)
  <2> SUFFICES ASSUME queue # <<>>
               PROVE  /\ 1 \in DOMAIN queue /\ Head(queue) = queue[1]
                      /\ Tail(queue) = RemoveAt(queue, 1)
    OBVIOUS
  <2>1. 1 \in DOMAIN queue /\ Head(queue) = queue[1]
    BY <1>0 DEF TypeOK
  <2> QED
    BY <1>0, <2>1, TailRemoves DEF TypeOK
<1>6. CASE PopMemory(w)
  <2>1. PICK i \in DOMAIN queue : queue' = RemoveAt(queue, i) /\ Give(w, queue[i], "got")
    BY <1>6 DEF PopMemory, Poppable
  <2>2. UNCHANGED <<tracked, unacked>> /\ backend \notin Brokered
    BY <1>6 DEF PopMemory, InProcess, Brokered
  <2> QED
    BY <1>4, <2>1, <2>2 DEF Give
<1>7. CASE PopRaft(w)
  <2>1. UNCHANGED unacked /\ backend \notin Brokered /\ queue # <<>>
    BY <1>7 DEF PopRaft, Raft, Brokered
  <2> QED
    BY <1>4, <1>5, <1>7, <2>1 DEF PopRaft, Raft, Give
<1>8. CASE PopList(w)
  <2>1. UNCHANGED <<tracked, unacked>> /\ backend \notin Brokered /\ queue # <<>>
    BY <1>8 DEF PopList, Brokered
  <2> QED
    BY <1>4, <1>5, <1>8, <2>1 DEF PopList, Give
<1>9. CASE PopBroker(w) /\ queue # <<>> /\ queue' = Tail(queue)
                       /\ unacked' = unacked \cup {Head(queue)} /\ Give(w, Head(queue), "got")
  <2>1. UNCHANGED tracked /\ backend \in Brokered
    BY <1>9 DEF PopBroker
  <2> QED
    BY <1>4, <1>5, <1>9, <2>1 DEF Give
<1>10. CASE PopBroker(w) /\ UNCHANGED <<queue, unacked>> /\ \E m \in unacked : Give(w, m, "got")
  <2>1. PICK m \in unacked : Give(w, m, "got")
    BY <1>10
  <2>2. backend \in Brokered /\ UNCHANGED <<backend, queue, unacked, tracked>>
    BY <1>10 DEF PopBroker
  <2>3. Custody' = Custody
    BY <2>2 DEF Custody, Queued, Brokered
  <2>4. Req(m) \in Custody
    BY <2>2 DEF Custody, Brokered
  <2> QED
    BY <1>0, <1>3, <2>1, <2>3, <2>4 DEF Give, TypeOK
<1> QED
  BY <1>6, <1>7, <1>8, <1>9, <1>10 DEF PopBroker

\* Bookkeeping that WorkQueue does not see.
LEMMA QuietMaps ==
  ASSUME DispatchInv, DispatchInv',
         \/ \E w \in Workers : \/ DequeueCheck(w) \/ PopNothing(w) \/ Await(w) \/ TimeOut(w)
                               \/ TrackMemory(w) \/ TrackBroker(w)
         \/ Shutdown \/ UNCHANGED vars
  PROVE  UNCHANGED WQ!vars
<1> USE DEF local, broker
<1>0. TypeOK /\ TypeOK'
  BY DEF DispatchInv
<1>1. UNCHANGED <<backend, queue, unacked, has, fate>>
  BY DEF DequeueCheck, PopNothing, Await, TimeOut, TrackMemory, TrackBroker, Shutdown, vars
<1>2. AllBusy' = AllBusy /\ AllStatus' = AllStatus
  BY <1>1, SameBusy, SameStatus
<1>3. Custody' = Custody
  <2>1. CASE UNCHANGED tracked
    BY <1>1, <2>1, SameCustody
  <2>2. CASE \E w \in Workers : TrackBroker(w)
    BY <1>1, <2>2 DEF TrackBroker, Custody, Queued, Brokered
  <2>3. ASSUME NEW w \in Workers, TrackMemory(w)
        PROVE  Custody' = Custody
    <3> DEFINE r == Req(has[w])
    <3>1. /\ has[w] \in Messages /\ r \in Requests /\ has[w] # NoMessage
          /\ tracked' = [tracked EXCEPT ![r] = has[w]] /\ backend \notin Brokered
      BY <2>3, WorkFacts DEF TrackMemory, Holding, InProcess, Brokered
    <3>2. \A x \in Requests \ {r} : tracked'[x] = tracked[x]
      BY <1>0, <3>1 DEF TypeOK
    <3>3. \E v \in Workers : has[v] # NoMessage /\ Req(has[v]) = r
      BY <3>1
    <3> HIDE DEF r
    <3>4. \A x \in Requests \ {r} : InCustody(x)' <=> InCustody(x)
      BY <1>1, <3>2 DEF InCustody
    <3>5. ASSUME NEW y, y = r
          PROVE  InCustody(y) /\ InCustody(y)'
      BY <1>1, <3>1, <3>3, <3>5 DEF InCustody
    <3> QED
      BY <1>0, <3>1, <3>4, <3>5, CustodyStep
  <2> QED
    BY <2>1, <2>2, <2>3
    DEF DequeueCheck, PopNothing, Await, TimeOut, Shutdown, vars
<1> QED
  BY <1>1, <1>2, <1>3, StutterStep

(* A worker ends with its request: of all the requests, only that one can   *)
(* enter or leave custody.                                                  *)
LEMMA EndCustody ==
  ASSUME DispatchInv, DispatchInv', NEW w \in Workers, at[w] \in Holding, NEW r, r = Req(has[w]),
         has' = [has EXCEPT ![w] = NoMessage], UNCHANGED backend,
         tracked' = tracked \/ Untrack(r),
         unacked' = unacked \/ unacked' = unacked \ {tracked[r]},
         queue' = queue \/ \E m \in Messages : Req(m) = r /\ queue' = Append(queue, m)
  PROVE  /\ queue' = queue => Custody' = Custody \/ Custody' = Custody \ {r}
         /\ queue' # queue => Custody' = Custody \cup {r}
         /\ ~InCustody(r)' => Custody' = Custody \ {r}
         /\ backend \notin Brokered => r \in Custody
         /\ backend \notin Brokered /\ queue' # queue => Custody' = Custody
         /\ InCustody(r)' /\ backend \notin Brokered => Custody' = Custody
<1>0. TypeOK /\ TypeOK'
  BY DEF DispatchInv
<1>1. has[w] \in Messages /\ has[w] # NoMessage /\ r \in Requests
  BY WorkFacts
<1>2. \A x \in Requests \ {r} : tracked'[x] = tracked[x]
  BY <1>0, <1>1 DEF TypeOK, Untrack
<1>3. \A x \in Requests \ {r} : (\E m \in unacked' : Req(m) = x) <=> (\E m \in unacked : Req(m) = x)
  <2>1. tracked[r] \in unacked => Req(tracked[r]) = r
    BY <1>1, MessageFacts DEF TypeOK, DispatchInv, TrackedOK
  <2> QED
    BY <2>1
<1>4. \A x \in Requests \ {r} :
        (\E v \in Workers : has'[v] # NoMessage /\ Req(has'[v]) = x)
          <=> (\E v \in Workers : has[v] # NoMessage /\ Req(has[v]) = x)
  BY <1>0, <1>1 DEF TypeOK
<1>5. ASSUME queue' # queue
      PROVE  /\ \A x \in Requests \ {r} : (\E i \in DOMAIN queue' : Req(queue'[i]) = x)
                                            <=> (\E i \in DOMAIN queue : Req(queue[i]) = x)
             /\ \E i \in DOMAIN queue' : Req(queue'[i]) = r
  <2>1. PICK m \in Messages : Req(m) = r /\ queue' = Append(queue, m)
    BY <1>5
  <2>2. /\ DOMAIN queue = 1 .. Len(queue) /\ DOMAIN queue' = 1 .. Len(queue) + 1
        /\ Len(queue) \in Nat /\ \A i \in DOMAIN queue : queue'[i] = queue[i]
        /\ queue'[Len(queue) + 1] = m
    BY <1>0, <2>1, AppendFacts DEF TypeOK
  <2>3. /\ Len(queue) + 1 \in DOMAIN queue'
        /\ \A i \in DOMAIN queue : i \in DOMAIN queue'
        /\ \A i \in DOMAIN queue' : i = Len(queue) + 1 \/ i \in DOMAIN queue
    BY <2>2
  <2> QED
    BY <2>1, <2>2, <2>3
<1>6. \A x \in Requests \ {r} : InCustody(x)' <=> InCustody(x)
  BY <1>2, <1>3, <1>4, <1>5 DEF InCustody
<1>7. queue' # queue => InCustody(r)'
  BY <1>5 DEF InCustody
<1>8. backend \notin Brokered => InCustody(r)
  BY <1>1 DEF InCustody
<1>9. backend \in Brokered /\ queue' = queue /\ InCustody(r)' => InCustody(r)
  BY DEF InCustody, Brokered, Counting
<1>10. /\ InCustody(r)' => Custody' = Custody \cup {r}
       /\ ~InCustody(r)' => Custody' = Custody \ {r}
  BY <1>0, <1>1, <1>6, CustodyStep
<1>11. InCustody(r) => r \in Custody
  BY <1>0, CustodyFacts DEF CustodyOK
<1> HIDE DEF InCustody
<1> QED
  BY <1>7, <1>8, <1>9, <1>10, <1>11

LEMMA EndBusy ==
  ASSUME DispatchInv, NEW w \in Workers, at[w] \in Holding,
         has' = [has EXCEPT ![w] = NoMessage]
  PROVE  /\ AllBusy' = [AllBusy EXCEPT ![w] = NoRequest]
         /\ AllBusy[w] = Req(has[w]) /\ AllBusy[w] # NoRequest /\ AllBusy[w] \in Requests
BY SeenBusy, BusyFacts DEF DispatchInv

\* An ack or a nack that settles is Settle.
LEMMA SettleMaps ==
  ASSUME DispatchInv, DispatchInv', NEW w \in Workers, at[w] \in Holding, NEW r, r = Req(has[w]),
         Done(w), UNCHANGED <<backend, queue>>, NEW f \in {"acked", "failed"}, Fate(r, f),
         tracked' = tracked \/ Untrack(r),
         unacked' = unacked \/ unacked' = unacked \ {tracked[r]}
  PROVE  WQ!Next
<1>1. has' = [has EXCEPT ![w] = NoMessage]
  BY DEF Done, Give
<1>2. Custody' = Custody \/ Custody' = Custody \ {r}
  BY <1>1, EndCustody
<1>3. AllStatus' = [AllStatus EXCEPT ![r] = "settled"]
  BY WorkFacts, SettledStatus DEF DispatchInv
<1> QED
  BY <1>1, <1>2, <1>3, EndBusy, EndStep

\* One that does not, leaves the request in custody; only a list forgets it.
LEMMA ReturnMaps ==
  ASSUME DispatchInv, DispatchInv', NEW w \in Workers, at[w] \in Holding, NEW r, r = Req(has[w]),
         has' = [has EXCEPT ![w] = NoMessage], UNCHANGED <<backend, unacked, fate>>,
         \/ /\ UNCHANGED queue
            /\ \/ backend \in Brokered /\ (tracked' = tracked \/ Untrack(r))
               \/ backend = "list" /\ UNCHANGED tracked
               \/ backend \in Counting /\ tracked[r] # NoMessage /\ UNCHANGED tracked
         \/ /\ tracked' = tracked \/ Untrack(r)
            /\ \E m \in Messages : Req(m) = r /\ queue' = Append(queue, m)
  PROVE  WQ!Next
<1>1. AllStatus' = AllStatus
  BY SameStatus
<1>2. CASE queue' # queue
  <2>1. Custody' = Custody \cup {r}
    BY <1>2, EndCustody
  <2> QED
    BY <1>1, <2>1, EndBusy, EndStep
<1>3. CASE queue' = queue /\ backend \in Brokered
  <2>1. Custody' = Custody
    BY <1>3 DEF Custody, Queued, Brokered
  <2> QED
    BY <1>1, <2>1, EndBusy, EndStep
<1>4. CASE queue' = queue /\ backend = "list"
  <2>1. Custody' = Custody \/ Custody' = Custody \ {r}
    <3>1. tracked' = tracked \/ Untrack(r)
      OBVIOUS
    <3> QED
      BY <1>4, <3>1, EndCustody
  <2> QED
    BY <1>1, <1>4, <2>1, EndBusy, EndStep
<1>5. ASSUME queue' = queue, backend \in Counting, tracked[r] # NoMessage, UNCHANGED tracked
      PROVE  WQ!Next
  <2>1. InCustody(r)' /\ backend \notin Brokered
    BY <1>5, WorkFacts DEF InCustody, Brokered, Counting
  <2>2. Custody' = Custody
    BY <1>5, <2>1, EndCustody
  <2> QED
    BY <1>1, <2>2, EndBusy, EndStep
<1>6. \A m \in Messages : Append(queue, m) # queue
  BY AppendFacts DEF DispatchInv, TypeOK
<1> QED
  BY <1>2, <1>3, <1>4, <1>5, <1>6

LEMMA FinishMaps ==
  ASSUME DispatchInv, DispatchInv', NEW w \in Workers,
         \/ AckMemory(w) \/ AckRaft(w) \/ EndList(w) \/ LookupRedis(w)
         \/ ConcludeRedis(w) \/ AckNats(w) \/ NackNats(w) \/ Abandon(w)
  PROVE  WQ!Next \/ UNCHANGED WQ!vars
<1> USE DEF local, broker
<1> DEFINE r == Req(has[w])
<1>0. at[w] \in Holding /\ UNCHANGED backend
  BY DEF AckMemory, AckRaft, RaftSays, EndList, LookupRedis, ConcludeRedis, AckNats, NackNats, Abandon,
     Holding
<1>d. Done(w) => has' = [has EXCEPT ![w] = NoMessage]
  BY DEF Done, Give
<1>1. CASE AckMemory(w) \/ AckRaft(w)
  <2>1. /\ Done(w) /\ UNCHANGED <<backend, queue, unacked>> /\ Fate(r, "acked") /\ Untrack(r)
    BY <1>1 DEF AckMemory, AckRaft, RaftSays
  <2> QED
    BY <1>0, <2>1, SettleMaps
<1>2. CASE EndList(w)
  <2>1. /\ Done(w) /\ UNCHANGED <<backend, queue, unacked, tracked>> /\ backend = "list"
        /\ Fate(r, "acked") \/ UNCHANGED fate
    BY <1>2 DEF EndList
  <2> QED
    BY <1>0, <1>d, <2>1, SettleMaps, ReturnMaps
<1>3. CASE LookupRedis(w)
  <2>1. UNCHANGED <<backend, queue, unacked, tracked>> /\ backend \in Brokered
    BY <1>3 DEF LookupRedis, Brokered
  <2>2. CASE UNCHANGED <<has, fate>>
    BY <2>1, <2>2, SameBusy, SameStatus, SameCustody, StutterStep
  <2>3. CASE Done(w) /\ (UNCHANGED fate \/ \E f \in {"acked", "failed"} : Fate(r, f))
    BY <1>0, <1>d, <2>1, <2>3, SettleMaps, ReturnMaps
  <2> QED
    BY <1>3, <2>2, <2>3 DEF LookupRedis
<1>4. CASE ConcludeRedis(w)
  <2>1. /\ UNCHANGED <<backend, queue>> /\ backend \in Brokered /\ Done(w)
        /\ tracked' = tracked \/ Untrack(r)
    BY <1>4 DEF ConcludeRedis, Brokered
  <2>2. \/ UNCHANGED <<unacked, fate>>
        \/ /\ unacked' = unacked \/ unacked' = unacked \ {tracked[r]}
           /\ \E f \in {"acked", "failed"} : Fate(r, f)
    BY <1>4 DEF ConcludeRedis
  <2> QED
    BY <1>0, <1>d, <2>1, <2>2, SettleMaps, ReturnMaps
<1>5. CASE AckNats(w)
  <2>1. /\ UNCHANGED <<backend, queue>> /\ backend \in Brokered /\ Done(w) /\ Untrack(r)
    BY <1>5 DEF AckNats, Brokered
  <2>2. \/ UNCHANGED <<unacked, fate>>
        \/ unacked' = unacked \ {tracked[r]} /\ Fate(r, "acked")
    BY <1>5 DEF AckNats
  <2> QED
    BY <1>0, <1>d, <2>1, <2>2, SettleMaps, ReturnMaps
<1>6. CASE NackNats(w)
  <2>1. /\ UNCHANGED backend /\ backend \in Brokered /\ Done(w) /\ Untrack(r)
    BY <1>6 DEF NackNats, Brokered
  <2>2. \/ UNCHANGED <<unacked, fate, queue>>
        \/ /\ unacked' = unacked \/ unacked' = unacked \ {tracked[r]}
           /\ Fate(r, "failed") /\ UNCHANGED queue
        \/ /\ UNCHANGED <<unacked, fate>> /\ tracked[r] # NoMessage /\ tracked[r][2] < MaxAttempts
           /\ queue' = Append(queue, <<r, tracked[r][2] + 1>>)
    BY <1>6 DEF NackNats
  <2>3. ASSUME tracked[r] # NoMessage, tracked[r][2] < MaxAttempts
        PROVE  /\ <<r, tracked[r][2] + 1>> \in Messages
               /\ Req(<<r, tracked[r][2] + 1>>) = r
    <3>1. r \in Requests
      BY <1>0, WorkFacts
    <3>2. tracked[r] \in Requests \X (1 .. MaxAttempts)
      BY <2>3, <3>1 DEF DispatchInv, TypeOK, Messages
    <3> QED
      BY <2>3, <3>1, <3>2, DispatchAssumption DEF Messages, Req
  <2> QED
    BY <1>0, <1>d, <2>1, <2>2, <2>3, SettleMaps, ReturnMaps
<1>7. CASE Abandon(w)
  <2>1. /\ UNCHANGED <<backend, queue, unacked, tracked, fate>> /\ Done(w) /\ at[w] = "work"
    BY <1>7 DEF Abandon
  <2>2. backend \in Brokered \/ backend = "list" \/ backend \in Counting
    BY DispatchAssumption DEF DispatchInv, TypeOK, AllBackends, Brokered, Counting
  <2>3. backend \in Counting => tracked[r] # NoMessage
    BY <2>1 DEF DispatchInv, CountingOK
  <2> QED
    BY <1>0, <1>d, <2>1, <2>2, <2>3, ReturnMaps
<1> QED
  BY <1>1, <1>2, <1>3, <1>4, <1>5, <1>6, <1>7

\* A retry that finds no room: more requests are in custody than fit the queue.
LEMMA NoRoom ==
  ASSUME DispatchInv, NEW w \in Workers, at[w] \in Holding, backend \in Counting,
         Len(queue) >= MaxQueueSize
  PROVE  Cardinality(Custody) > MaxQueueSize
<1> DEFINE r == Req(has[w])
<1>0. TypeOK /\ backend \notin Brokered /\ backend # "list"
  BY DEF DispatchInv, Counting, Brokered
<1>1. r \in Requests /\ has[w] # NoMessage
  BY WorkFacts
<1>2. r \notin Queued /\ r \in Held
  BY <1>0, <1>1, HolderFacts DEF DispatchInv, CountingOK
<1>3. Queued \cup {r} \subseteq Custody /\ Custody \subseteq Requests
  BY <1>0, <1>2, CustodyFacts DEF Custody, CustodyOK
<1>4. IsFiniteSet(Custody)
  BY <1>3, FS_Subset, DispatchAssumption
<1>5. IsFiniteSet(Queued) /\ Cardinality(Queued) = Len(queue)
  BY QueueLength
<1> HIDE DEF r
<1>6. IsFiniteSet(Queued \cup {r}) /\ Cardinality(Queued \cup {r}) = Len(queue) + 1
  BY <1>2, <1>5, FS_AddElement
<1>7. Cardinality(Queued \cup {r}) <= Cardinality(Custody)
  BY <1>3, <1>4, FS_Subset
<1>8. Cardinality(Custody) \in Nat /\ Len(queue) \in Nat /\ MaxQueueSize \in Nat
  BY <1>0, <1>4, FS_CardinalityType, DispatchAssumption DEF TypeOK
<1> QED
  BY <1>6, <1>7, <1>8

\* nack where attempts are counted.
LEMMA NackMaps ==
  ASSUME DispatchInv, DispatchInv', NEW w \in Workers, NackTake(w) \/ Requeue(w)
  PROVE  WQ!Next \/ UNCHANGED WQ!vars
<1> USE DEF local, broker
<1> DEFINE r == Req(has[w])
<1>0. at[w] \in Holding /\ backend \in Counting /\ UNCHANGED <<backend, unacked>>
      /\ backend \notin Brokered
  BY DEF NackTake, RaftSays, Requeue, Holding, Counting, Brokered
<1>t. TypeOK /\ TypeOK' /\ r \in Requests /\ has[w] \in Messages /\ has[w] # NoMessage
  BY <1>0, WorkFacts DEF DispatchInv
<1>1. CASE NackTake(w) /\ Done(w) /\ Fate(r, "failed")
  BY <1>0, <1>1, SettleMaps DEF NackTake, RaftSays
<1>2. CASE NackTake(w) /\ UNCHANGED <<has, fate>>
  <2>1. Untrack(r) /\ UNCHANGED queue
    BY <1>2 DEF NackTake, RaftSays
  <2>2. \A x \in Requests \ {r} : tracked'[x] = tracked[x]
    BY <1>t, <2>1 DEF TypeOK, Untrack
  <2>3. \E v \in Workers : has[v] # NoMessage /\ Req(has[v]) = r
    BY <1>t
  <2> HIDE DEF r
  <2>4. \A x \in Requests \ {r} : InCustody(x)' <=> InCustody(x)
    BY <1>0, <1>2, <2>1, <2>2 DEF InCustody
  <2>5. ASSUME NEW y, y = r
        PROVE  InCustody(y) /\ InCustody(y)'
    BY <1>0, <1>2, <2>3, <2>5 DEF InCustody
  <2>6. Custody' = Custody
    BY <1>t, <2>4, <2>5, CustodyStep
  <2> QED
    BY <1>0, <1>2, <2>6, SameBusy, SameStatus, StutterStep
<1>3. CASE Requeue(w) /\ queue' # queue
  <2>1. /\ has' = [has EXCEPT ![w] = NoMessage] /\ UNCHANGED <<fate, tracked>>
        /\ queue' = Append(queue, has[w])
    BY <1>3 DEF Requeue
  <2> QED
    BY <1>0, <1>t, <2>1, ReturnMaps
<1>4. CASE Requeue(w) /\ queue' = queue
  <2>1. /\ fate' = [fate EXCEPT ![r] = "dropped"] /\ Done(w) /\ Len(queue) >= MaxQueueSize
        /\ UNCHANGED tracked
    <3>1. Append(queue, has[w]) # queue
      BY <1>t, AppendFacts DEF TypeOK
    <3> QED
      BY <1>4, <3>1 DEF Requeue
  <2>2. has' = [has EXCEPT ![w] = NoMessage]
    BY <2>1 DEF Done, Give
  <2>3. AllStatus' = [AllStatus EXCEPT ![r] = "dropped"]
    BY <1>t, <2>1, StatusFacts DEF StatusOf, Settled, Fates
  <2>4. ASSUME NEW y, y = r
        PROVE  ~InCustody(y)'
    <3>1. tracked[r] = NoMessage /\ \A j \in DOMAIN queue : Req(queue[j]) # r
      BY <1>0, <1>t, <1>4 DEF DispatchInv, CountingOK, Waiting, Requeue
    <3>2. \A v \in Workers : has'[v] # NoMessage => Req(has'[v]) # y
      BY <1>0, <1>t, <2>2, <2>4 DEF TypeOK, DispatchInv, CountingOK
    <3> HIDE DEF r
    <3> QED
      BY <1>0, <1>4, <2>1, <2>4, <3>1, <3>2 DEF InCustody
  <2>5. Custody' = Custody \ {r}
    <3>1. ASSUME NEW y, y = r
          PROVE  Custody' = Custody \ {y}
      <4>1. ~InCustody(y)'
        BY <2>4, <3>1
      <4> QED
        BY <1>0, <1>4, <2>1, <2>2, <3>1, <4>1, EndCustody
    <3> QED
      BY <3>1
  <2>6. Cardinality(Custody) > MaxQueueSize
    BY <1>0, <2>1, NoRoom
  <2> QED
    BY <1>0, <2>2, <2>3, <2>5, <2>6, EndBusy, EndStep
<1> QED
  BY <1>1, <1>2, <1>3, <1>4 DEF NackTake, RaftSays

LEMMA InitMaps == Init => WQ!Init
<1> SUFFICES ASSUME Init
             PROVE  WQ!Init
  OBVIOUS
<1>1. TypeOK
  BY InitInv DEF DispatchInv
<1>2. Custody = {}
  BY <1>1, CustodyFacts DEF CustodyOK, InCustody, Init
<1>3. [r \in Requests |-> Status(r)] = [r \in Requests |-> "new"]
  BY DEF Status, Settled, Init
<1>4. [w \in Workers |-> HeldBy(w)] = [w \in Workers |-> NoRequest]
  BY DEF HeldBy, Init
<1>5. (backend # "list") \in BOOLEAN
  BY Zenon
<1> QED
  BY <1>2, <1>3, <1>4, <1>5 DEF WQ!Init

(* Every backend implements the WorkQueue that the DispatchBackend trait    *)
(* promises: an accepted request stays in custody until a worker settles    *)
(* it, only what is in custody is delivered, and a request is dropped only  *)
(* by a bounded queue that is full.                                         *)
THEOREM DispatchImplementsWorkQueue == Spec => ImplementsWorkQueue
<1>1. DispatchInv /\ DispatchInv' /\ [Next]_vars => [WQ!Next]_(WQ!vars)
  <2> SUFFICES ASSUME DispatchInv, DispatchInv', [Next]_vars
               PROVE  WQ!Next \/ UNCHANGED WQ!vars
    OBVIOUS
  <2>1. CASE \E r \in Requests : Enqueue(r)
    BY <2>1, EnqueueMaps
  <2>2. CASE \E w \in Workers : Dequeue(w)
    BY <2>2, PopMaps, QuietMaps DEF Dequeue
  <2>3. CASE \E w \in Workers : Finish(w) \/ Abandon(w)
    BY <2>3, FinishMaps, NackMaps DEF Finish
  <2>4. CASE Shutdown \/ UNCHANGED vars
    BY <2>4, QuietMaps
  <2> QED
    BY <2>1, <2>2, <2>3, <2>4 DEF Next
<1> QED
  BY <1>1, InitMaps, DispatchInvariant, PTL DEF Spec, ImplementsWorkQueue, WQ!Spec
=============================================================================
