------------------------------- MODULE Server -------------------------------
(***************************************************************************)
(* The HTTP API of xerv-executor (api/handlers/{pipelines,triggers}.rs)    *)
(* over the PipelineController.  The handlers of concurrent requests look  *)
(* a pipeline up, act on the Arc they got, and change the map of pipelines *)
(* in several steps.  A pipeline is its life cycle (Pipeline.tla has its   *)
(* insides).                                                               *)
(***************************************************************************)
EXTENDS Naturals

CONSTANTS
  Ids,             \* pipeline identifiers, name@version
  Clients,
  MaxPipelines,    \* bound on the Pipeline objects that are built
  NoPipeline

Pipelines == 1 .. MaxPipelines

ServerConstants == MaxPipelines \in Nat /\ NoPipeline \notin Pipelines

VARIABLES
  pipelines,  \* PipelineController::pipelines
  home,       \* pipeline -> its identifier
  life,       \* pipeline -> "none" or its PipelineState
  locked,     \* pipelines whose state lock a drain holds
  request,    \* client -> [op, id, at, p]
  raced       \* identifiers on which two requests have overlapped

vars == <<pipelines, home, life, locked, request, raced>>

Lifecycle == {"start", "pause", "resume", "drain", "stop", "retire"}
Ops == Lifecycle \cup {"create", "update", "delete", "fire"}
Places == {"idle", "get", "take", "stop", "build", "check", "insert", "act", "drain", "erase", "event"}
None == [op |-> "none", id |-> "none", at |-> "idle", p |-> NoPipeline]

TypeOK ==
  /\ pipelines \in [Ids -> Pipelines \cup {NoPipeline}]
  /\ home \in [Pipelines -> Ids \cup {"none"}]
  /\ life \in [Pipelines -> {"none", "Initializing", "Running", "Paused", "Draining", "Stopped"}]
  /\ locked \subseteq Pipelines
  /\ request \in [Clients -> [op : Ops \cup {"none"}, id : Ids \cup {"none"}, at : Places,
                              p : Pipelines \cup {NoPipeline}]]
  /\ raced \subseteq Ids

Init ==
  /\ pipelines = [i \in Ids |-> NoPipeline]
  /\ home = [p \in Pipelines |-> "none"] /\ life = [p \in Pipelines |-> "none"]
  /\ locked = {} /\ request = [c \in Clients |-> None]
  /\ raced = {}

-----------------------------------------------------------------------------
At(c, step) == request[c].at = step
To(c, step) == request' = [request EXCEPT ![c].at = step]
ToWith(c, step, p) == request' = [request EXCEPT ![c].at = step, ![c].p = p]
Answer(c) == request' = [request EXCEPT ![c] = None]
Found(c) == pipelines[request[c].id]
state == <<pipelines, home, life, locked>>

Arrive(c, op, i) ==
  /\ At(c, "idle")
  /\ request' = [request EXCEPT ![c] = [None EXCEPT !.op = op, !.id = i, !.at = "get"]]
  /\ raced' = IF \E d \in Clients : request[d].id = i THEN raced \cup {i} ELSE raced
  /\ UNCHANGED <<state>>

(* Every handler begins with PipelineController::get and acts on the Arc    *)
(* that it returns; the pipeline is left unlocked in between.               *)
Lookup(c, op, step) ==
  /\ At(c, "get") /\ request[c].op = op
  /\ IF Found(c) = NoPipeline THEN Answer(c) ELSE ToWith(c, step, Found(c))
  /\ UNCHANGED <<state, raced>>

Create(c) ==
  /\ At(c, "get") /\ request[c].op = "create"
  /\ IF Found(c) = NoPipeline THEN To(c, "build") ELSE Answer(c)
  /\ UNCHANGED <<state, raced>>
Update(c) == Lookup(c, "update", "take")
Delete(c) == Lookup(c, "delete", "take")
Start(c) == Lookup(c, "start", "act")
Pause(c) == Lookup(c, "pause", "act")
Resume(c) == Lookup(c, "resume", "act")
Drain(c) == Lookup(c, "drain", "act")
Stop(c) == Lookup(c, "stop", "act")
DrainAndRemove(c) == Lookup(c, "retire", "act")
Fire(c) == Lookup(c, "fire", "event")

(* PipelineController::remove takes the entry out of the map and then       *)
(* stops the pipeline, which may have to wait for a drain.                  *)
Take(c) ==
  /\ At(c, "take")
  /\ pipelines' = [pipelines EXCEPT ![request[c].id] = NoPipeline]
  /\ IF Found(c) # NoPipeline THEN ToWith(c, "stop", Found(c))
     ELSE IF request[c].op = "update" THEN To(c, "build") ELSE Answer(c)
  /\ UNCHANGED <<home, life, locked, raced>>

\* Mutant: the pipeline is only taken out of the map.
StopOldSkipped(c) ==
  /\ At(c, "stop")
  /\ IF request[c].op = "update" THEN To(c, "build") ELSE Answer(c)
  /\ UNCHANGED <<state, raced>>

StopOld(c) ==
  /\ At(c, "stop") /\ request[c].p \notin locked
  /\ life' = [life EXCEPT ![request[c].p] = "Stopped"]
  /\ IF request[c].op = "update" THEN To(c, "build") ELSE Answer(c)
  /\ UNCHANGED <<pipelines, home, locked, raced>>

\* PipelineBuilder::build opens the log and may fail.  update's new definition
\* may carry another identifier.
Build(c) ==
  /\ At(c, "build")
  /\ \/ Answer(c) /\ UNCHANGED <<home, life, raced>>
     \/ \E p \in Pipelines, i \in Ids :
          /\ life[p] = "none" /\ \A q \in 1 .. p - 1 : life[q] # "none"
          /\ i = request[c].id \/ request[c].op = "update"
          /\ home' = [home EXCEPT ![p] = i]
          /\ life' = [life EXCEPT ![p] = "Initializing"]
          /\ request' = [request EXCEPT ![c].at = "check", ![c].p = p, ![c].id = i]
          /\ raced' = IF \E d \in Clients \ {c} : request[d].id = i THEN raced \cup {i} ELSE raced
  /\ UNCHANGED <<pipelines, locked>>

\* PipelineController::deploy: contains_key, then insert.
DeployCheck(c) ==
  /\ At(c, "check")
  /\ IF Found(c) = NoPipeline THEN To(c, "insert") ELSE Answer(c)
  /\ UNCHANGED <<state, raced>>

DeployInsert(c) ==
  /\ At(c, "insert")
  /\ pipelines' = [pipelines EXCEPT ![request[c].id] = request[c].p]
  /\ Answer(c)
  /\ UNCHANGED <<home, life, locked, raced>>

-----------------------------------------------------------------------------
(* The life cycle of the pipeline the handler got hold of.                  *)

Move(op, s) ==
  CASE op = "start" /\ s \in {"Initializing", "Stopped"} -> "Running"
    [] op = "pause" /\ s = "Running" -> "Paused"
    [] op = "resume" /\ s = "Paused" -> "Running"
    [] op = "stop" -> "Stopped"
    [] op \in {"drain", "retire"} /\ s \in {"Running", "Paused"} -> "Draining"
    [] OTHER -> s

Act(c) ==
  LET p == request[c].p
      next == Move(request[c].op, life[p])
      drains == next = "Draining" /\ life[p] # "Draining" IN
  /\ At(c, "act") /\ p \notin locked
  /\ life' = [life EXCEPT ![p] = next]
  /\ locked' = IF drains THEN locked \cup {p} ELSE locked
  /\ IF drains THEN To(c, "drain") ELSE Answer(c)
  /\ UNCHANGED <<pipelines, home, raced>>

Drained(c) ==
  /\ At(c, "drain")
  /\ life' = [life EXCEPT ![request[c].p] = "Stopped"]
  /\ locked' = locked \ {request[c].p}
  /\ IF request[c].op = "retire" THEN To(c, "erase") ELSE Answer(c)
  /\ UNCHANGED <<pipelines, home, raced>>

\* drain_and_remove removes whatever the identifier stands for by now.
Erase(c) ==
  /\ At(c, "erase")
  /\ pipelines' = [pipelines EXCEPT ![request[c].id] = NoPipeline]
  /\ Answer(c)
  /\ UNCHANGED <<home, life, locked, raced>>

\* Pipeline::handle_event takes the read lock and accepts or refuses the event.
Event(c) ==
  /\ At(c, "event") /\ request[c].p \notin locked
  /\ Answer(c)
  /\ UNCHANGED <<state, raced>>

-----------------------------------------------------------------------------
Handle(c) ==
  \/ Create(c) \/ Update(c) \/ Delete(c) \/ Start(c) \/ Pause(c) \/ Resume(c)
  \/ Drain(c) \/ Stop(c) \/ DrainAndRemove(c) \/ Fire(c)
  \/ Take(c) \/ StopOld(c) \/ Build(c) \/ DeployCheck(c) \/ DeployInsert(c)
  \/ Act(c) \/ Drained(c) \/ Erase(c) \/ Event(c)

Next ==
  \E c \in Clients : Handle(c) \/ \E op \in Ops, i \in Ids : Arrive(c, op, i)

Spec == Init /\ [][Next]_vars

-----------------------------------------------------------------------------
InUse == {request[c].p : c \in Clients}

(* A pipeline that takes events can be found: one that is running, and that *)
(* no handler is busy with, is in the controller's map, unless requests for *)
(* its identifier have overlapped.  (Two deployments at once replace one    *)
(* another; a start that got its Arc before a delete runs after it.)        *)
RunningIsKnown ==
  \A p \in Pipelines \ InUse :
    life[p] \in {"Running", "Paused"} => pipelines[home[p]] = p \/ home[p] \in raced
=============================================================================
