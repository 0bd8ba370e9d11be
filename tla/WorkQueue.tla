----------------------------- MODULE WorkQueue -----------------------------
(***************************************************************************)
(* What a DispatchBackend promises (dispatch/traits.rs), whichever backend *)
(* is configured: a request that was accepted stays in the backend's       *)
(* custody until a worker that was given it settles it, by an              *)
(* acknowledgement or a final rejection; only requests in custody are      *)
(* handed out.  A bounded backend may drop a retry it has no room for, and *)
(* a backend that is only at-most-once may lose what it has handed out.    *)
(***************************************************************************)
EXTENDS Naturals, FiniteSets

CONSTANTS Requests, Workers, NoRequest, Room

VARIABLES
  status,   \* request -> "new", "accepted", "refused", "settled" or "dropped"
  custody,  \* requests the backend is responsible for
  busy,     \* worker -> the request it was given, or NoRequest
  reliable  \* does the backend promise at-least-once delivery?

vars == <<status, custody, busy, reliable>>

Init ==
  /\ status = [r \in Requests |-> "new"]
  /\ custody = {}
  /\ busy = [w \in Workers |-> NoRequest]
  /\ reliable \in BOOLEAN

\* enqueue; a broker may have stored a request whose publication failed.
Accept(r) ==
  /\ status[r] = "new"
  /\ \E s \in {"accepted", "refused"} : status' = [status EXCEPT ![r] = s]
  /\ custody' \in IF status'[r] = "accepted" THEN {custody \cup {r}}
                                             ELSE {custody, custody \cup {r}}
  /\ UNCHANGED <<busy, reliable>>

\* dequeue
Deliver(w, r) ==
  /\ busy[w] = NoRequest /\ r \in custody
  /\ busy' = [busy EXCEPT ![w] = r]
  /\ UNCHANGED <<status, custody, reliable>>

(* ack and final nack.  The request may stay in custody, and be delivered   *)
(* once more, if the backend's bookkeeping has been overtaken.              *)
Settle(w) ==
  /\ busy[w] # NoRequest
  /\ status' = [status EXCEPT ![busy[w]] = "settled"]
  /\ custody' \in {custody, custody \ {busy[w]}}
  /\ busy' = [busy EXCEPT ![w] = NoRequest]
  /\ UNCHANGED reliable

(* nack for a retry, a failed call, or a worker that dies.  A retry may put *)
(* back a request that another worker has settled in the meantime.          *)
Return(w) ==
  /\ busy[w] # NoRequest
  /\ custody' \in {custody, custody \cup {busy[w]}}
  /\ busy' = [busy EXCEPT ![w] = NoRequest]
  /\ UNCHANGED <<status, reliable>>

\* A retry for which there is no room.
Drop(w) ==
  /\ busy[w] # NoRequest /\ Cardinality(custody) > Room
  /\ status' = [status EXCEPT ![busy[w]] = "dropped"]
  /\ custody' = custody \ {busy[w]}
  /\ busy' = [busy EXCEPT ![w] = NoRequest]
  /\ UNCHANGED reliable

Lose(w) ==
  /\ busy[w] # NoRequest /\ ~reliable
  /\ custody' = custody \ {busy[w]}
  /\ busy' = [busy EXCEPT ![w] = NoRequest]
  /\ UNCHANGED <<status, reliable>>

Next ==
  \/ \E r \in Requests : Accept(r)
  \/ \E w \in Workers : \/ \E r \in Requests : Deliver(w, r)
                        \/ Settle(w) \/ Return(w) \/ Drop(w) \/ Lose(w)

Spec == Init /\ [][Next]_vars
=============================================================================
