------------------------------- MODULE Cluster -------------------------------
(***************************************************************************)
(* The replicated state of xerv-cluster: the commands and what applying    *)
(* them does (state/machine/apply.rs), the replicas with their snapshots   *)
(* (state/machine/traits.rs) and the way of a command to the leader        *)
(* (raft/node.rs, service/cluster.rs).  Consensus itself is OpenRaft's:    *)
(* the sequence of committed commands is the same for all replicas.  The   *)
(* state machine and its snapshot are in memory only, and a restart loses  *)
(* them; what the log no longer holds can then only come with a snapshot.  *)
(***************************************************************************)
EXTENDS Naturals, FiniteSets, Sequences

CONSTANTS
  Replicas, PipelineIds, TraceIds, NodeIds,
  SnapshotThreshold,  \* config.snapshot.snapshot_threshold
  MaxLog,             \* bound on the committed commands
  Opening,            \* bound: the kinds of the first of them
  Admin, Nobody

ClusterConstants ==
  /\ SnapshotThreshold \in Nat \ {0} /\ MaxLog \in Nat
  /\ Nobody \notin PipelineIds /\ Admin \notin TraceIds

Active == {"Running", "Suspended"}

VARIABLES
  log, results,   \* the committed commands, and the state after each of them
  applied, st,    \* replica -> last_applied_log, ClusterState
  snapshot,       \* replica -> current_snapshot
  kept,           \* replica -> index up to which its log is purged
  stage,          \* trace -> how far its client believes it to be
  repeated        \* pipelines of commands that came twice or at odds

replicas == <<applied, st, snapshot, kept>>
clients == <<stage, repeated>>
vars == <<log, results, replicas, clients>>

NoTrace == [status |-> "none", pipeline |-> Nobody, nodes |-> 0]
Absent == [state |-> "none", active |-> 0]
Empty == [traces |-> [t \in TraceIds |-> NoTrace],
          pipelines |-> [p \in PipelineIds |-> Absent], nodes |-> {}]
NoSnapshot == [index |-> 0, st |-> Empty]

-----------------------------------------------------------------------------
(* apply_command.  Every operator gives the state after the command; an     *)
(* error is a command that leaves the state as it is.                       *)

Known(s, t) == s.traces[t].status # "none"
Deployed(s, p) == s.pipelines[p].state # "none"
SetStatus(s, t, v) == [s EXCEPT !.traces[t].status = v]
SetState(s, p, v) == [s EXCEPT !.pipelines[p].state = v]

\* saturating_sub, on the trace's pipeline if that is still deployed.
OneLess(s, p) ==
  IF Deployed(s, p) /\ s.pipelines[p].active > 0
  THEN [s EXCEPT !.pipelines[p].active = @ - 1] ELSE s

ApplyStartTrace(s, t, p) ==
  IF s.pipelines[p].state = "Running"
  THEN [s EXCEPT !.pipelines[p].active = @ + 1,
                 !.traces[t] = [status |-> "Running", pipeline |-> p, nodes |-> 0]]
  ELSE s

ApplyCompleteNode(s, t) == IF Known(s, t) THEN [s EXCEPT !.traces[t].nodes = @ + 1] ELSE s

ApplyCompleteTrace(s, t) ==
  IF Known(s, t) THEN OneLess(SetStatus(s, t, "Completed"), s.traces[t].pipeline) ELSE s

\* Mutant: a failed trace is still counted.
ApplyFailTraceCounted(s, t) == IF Known(s, t) THEN SetStatus(s, t, "Failed") ELSE s

ApplyFailTrace(s, t) ==
  IF Known(s, t) THEN OneLess(SetStatus(s, t, "Failed"), s.traces[t].pipeline) ELSE s

ApplySuspendTrace(s, t) == IF Known(s, t) THEN SetStatus(s, t, "Suspended") ELSE s

ApplyResumeTrace(s, t) ==
  IF s.traces[t].status = "Suspended" THEN SetStatus(s, t, "Running") ELSE s

ApplyDeployPipeline(s, p) ==
  [s EXCEPT !.pipelines[p] = [state |-> "Initializing", active |-> 0]]

ApplyPipelineStateChange(s, p, v) == IF Deployed(s, p) THEN SetState(s, p, v) ELSE s

ApplyResumePipeline(s, p) ==
  IF s.pipelines[p].state = "Paused" THEN SetState(s, p, "Running") ELSE s

ApplyUndeployPipeline(s, p) == [s EXCEPT !.pipelines[p] = Absent]

ApplyRegisterNode(s, n) == [s EXCEPT !.nodes = @ \cup {n}]
ApplyDeregisterNode(s, n) == [s EXCEPT !.nodes = @ \ {n}]

Command(op, id, p) == [op |-> op, id |-> id, pipeline |-> p]

Apply(s, c) ==
  CASE c.op = "StartTrace" -> ApplyStartTrace(s, c.id, c.pipeline)
    [] c.op = "CompleteNode" -> ApplyCompleteNode(s, c.id)
    [] c.op = "CompleteTrace" -> ApplyCompleteTrace(s, c.id)
    [] c.op = "FailTrace" -> ApplyFailTrace(s, c.id)
    [] c.op = "SuspendTrace" -> ApplySuspendTrace(s, c.id)
    [] c.op = "ResumeTrace" -> ApplyResumeTrace(s, c.id)
    [] c.op = "DeployPipeline" -> ApplyDeployPipeline(s, c.id)
    [] c.op = "ResumePipeline" -> ApplyResumePipeline(s, c.id)
    [] c.op = "UndeployPipeline" -> ApplyUndeployPipeline(s, c.id)
    [] c.op = "RegisterNode" -> ApplyRegisterNode(s, c.id)
    [] c.op = "DeregisterNode" -> ApplyDeregisterNode(s, c.id)
    [] OTHER -> ApplyPipelineStateChange(s, c.id,
                  CASE c.op = "StartPipeline" -> "Running" [] c.op = "PausePipeline" -> "Paused"
                    [] c.op = "DrainPipeline" -> "Draining" [] OTHER -> "Stopped")

Init ==
  /\ log = <<>> /\ results = <<Empty>>
  /\ applied = [r \in Replicas |-> 0] /\ st = [r \in Replicas |-> Empty]
  /\ snapshot = [r \in Replicas |-> NoSnapshot] /\ kept = [r \in Replicas |-> 0]
  /\ stage = [t \in TraceIds |-> "new"] /\ repeated = {}

-----------------------------------------------------------------------------
(* The replicas.                                                            *)

\* RaftStateMachine::apply: the next entry, if the log still holds it.
ApplyEntry(r) ==
  /\ applied[r] < Len(log) /\ applied[r] + 1 > kept[r]
  /\ applied' = [applied EXCEPT ![r] = @ + 1]
  /\ st' = [st EXCEPT ![r] = Apply(@, log[applied'[r]])]
  /\ UNCHANGED <<log, results, snapshot, kept, clients>>

\* SnapshotPolicy::LogsSinceLast(snapshot_threshold), on what is in memory.
BuildSnapshot(r) ==
  /\ applied[r] >= snapshot[r].index + SnapshotThreshold
  /\ snapshot' = [snapshot EXCEPT ![r] = [index |-> applied[r], st |-> st[r]]]
  /\ UNCHANGED <<log, results, applied, st, kept, clients>>

\* OpenRaft purges what a snapshot covers.
Purge(r) ==
  /\ snapshot[r].index > kept[r]
  /\ kept' = [kept EXCEPT ![r] = snapshot[r].index]
  /\ UNCHANGED <<log, results, applied, st, snapshot, clients>>

\* Mutant: the snapshot brings the pipelines, and the replica keeps its traces.
InstallSnapshotMerged(r, s) ==
  /\ snapshot[s].index > applied[r]
  /\ st' = [st EXCEPT ![r] = [snapshot[s].st EXCEPT !.traces = st[r].traces]]
  /\ applied' = [applied EXCEPT ![r] = snapshot[s].index]
  /\ snapshot' = [snapshot EXCEPT ![r] = snapshot[s]]
  /\ kept' = [kept EXCEPT ![r] = IF @ < snapshot[s].index THEN snapshot[s].index ELSE @]
  /\ UNCHANGED <<log, results, clients>>

InstallSnapshot(r, s) ==
  /\ snapshot[s].index > applied[r]
  /\ st' = [st EXCEPT ![r] = snapshot[s].st]
  /\ applied' = [applied EXCEPT ![r] = snapshot[s].index]
  /\ snapshot' = [snapshot EXCEPT ![r] = snapshot[s]]
  /\ kept' = [kept EXCEPT ![r] = IF @ < snapshot[s].index THEN snapshot[s].index ELSE @]
  /\ UNCHANGED <<log, results, clients>>

\* ClusterNode::start makes an empty state machine over the log on disk.
Restart(r) ==
  /\ applied' = [applied EXCEPT ![r] = 0] /\ st' = [st EXCEPT ![r] = Empty]
  /\ snapshot' = [snapshot EXCEPT ![r] = NoSnapshot]
  /\ UNCHANGED <<log, results, kept, clients>>

-----------------------------------------------------------------------------
(* The clients: one for each trace, which goes on only when a command was   *)
(* answered with success, and an administrator.                             *)

TraceCommands(t) ==
  CASE stage[t] = "new" -> {Command("StartTrace", t, p) : p \in PipelineIds}
    [] stage[t] = "Running" ->
         {Command(op, t, Nobody) : op \in {"CompleteNode", "CompleteTrace", "FailTrace", "SuspendTrace"}}
    [] stage[t] = "Suspended" -> {Command("ResumeTrace", t, Nobody)}
    [] OTHER -> {}

AdminCommands ==
  {Command(op, p, Nobody) : p \in PipelineIds,
     op \in {"DeployPipeline", "StartPipeline", "PausePipeline", "ResumePipeline",
             "DrainPipeline", "StopPipeline", "UndeployPipeline"}}
  \cup {Command(op, n, Nobody) : op \in {"RegisterNode", "DeregisterNode"}, n \in NodeIds}

Latest == results[Len(results)]

\* The answer to a command of a trace is not an error.
Accepted(cmd) ==
  CASE cmd.op = "StartTrace" -> Latest.pipelines[cmd.pipeline].state = "Running"
    [] cmd.op = "ResumeTrace" -> Latest.traces[cmd.id].status = "Suspended"
    [] OTHER -> Known(Latest, cmd.id)

After(cmd) ==
  CASE cmd.op = "StartTrace" -> "Running" [] cmd.op = "CompleteNode" -> "Running"
    [] cmd.op = "SuspendTrace" -> "Suspended" [] cmd.op = "ResumeTrace" -> "Running"
    [] OTHER -> "over"

ActiveTraces(s, p) == {t \in TraceIds : s.traces[t].pipeline = p /\ s.traces[t].status \in Active}

\* Deploying again, or undeploying, forgets the traces that are under way.
Upsets(cmd) ==
  cmd.op \in {"DeployPipeline", "UndeployPipeline"} /\ ActiveTraces(Latest, cmd.id) # {}

\* The pipelines that a command of a trace is about.
About(c, cmd) == IF c = Admin THEN {} ELSE {cmd.pipeline, Latest.traces[c].pipeline}

\* The first commands are chosen, so that few of them reach a pipeline that runs.
Opened(cmd) == Len(log) < Len(Opening) => cmd.op = Opening[Len(log) + 1]

(* A command that the leader commits.  Its client learns of it, or does     *)
(* not: it may then send it again.                                          *)
Commit(c, cmd) ==
  /\ Len(log) < MaxLog /\ Opened(cmd)
  /\ log' = Append(log, cmd) /\ results' = Append(results, Apply(Latest, cmd))
  /\ LET upset == IF Upsets(cmd) THEN repeated \cup {cmd.id} ELSE repeated IN
     \/ /\ stage' = IF c \in TraceIds /\ Accepted(cmd) THEN [stage EXCEPT ![c] = After(cmd)] ELSE stage
        /\ repeated' = upset
     \/ /\ UNCHANGED stage
        /\ repeated' = upset \cup About(c, cmd)
  /\ UNCHANGED replicas

(* ClusterNode::execute.  The node leads, and writes the command, or it     *)
(* forwards the command, once, to the leader it knows of; a node that leads *)
(* no longer answers with an error, and nothing has happened.               *)
Execute(c, cmd) == Commit(c, cmd)

-----------------------------------------------------------------------------
Next ==
  \/ \E r \in Replicas : \/ ApplyEntry(r) \/ BuildSnapshot(r) \/ Purge(r) \/ Restart(r)
                         \/ \E s \in Replicas \ {r} : InstallSnapshot(r, s)
  \/ \E c \in TraceIds : \E cmd \in TraceCommands(c) : Execute(c, cmd)
  \/ \E cmd \in AdminCommands : Execute(Admin, cmd)

Spec == Init /\ [][Next]_vars

-----------------------------------------------------------------------------
(* A replica's state is that of the commands up to its last applied one,    *)
(* whether it applied them, installed a snapshot of another replica, or was *)
(* restarted and did both.                                                  *)
ReplicasAgree == \A r \in Replicas : st[r] = results[applied[r] + 1]

(* The number of active traces of a pipeline is that of its traces which    *)
(* are running or suspended, unless a command of one of them was sent again *)
(* after its answer was lost, or the pipeline was deployed anew meanwhile.  *)
(* (Nothing recognises a command that was applied already.)                 *)
ActiveMatches ==
  \A p \in PipelineIds \ repeated :
    Deployed(Latest, p) => Latest.pipelines[p].active = Cardinality(ActiveTraces(Latest, p))
=============================================================================
