------------------------------- MODULE Runner -------------------------------
(***************************************************************************)
(* FlowRunner (xerv-executor testing/runner.rs), which runs a flow in a    *)
(* test, and the executor it stands for: the nodes one after another, in   *)
(* an order of FlowGraph::topological_sort.  An edge is [from, port, to,   *)
(* into]; what a node answers is fixed, and its data is the node itself.   *)
(***************************************************************************)
EXTENDS Naturals, FiniteSets, FiniteSetsExt, Sequences, SequencesExt, TLC

CONSTANTS
  TestGraphs,     \* [nodes, edges (a sequence), entries]
  Outcomes,       \* what a node may answer: a port, Suspend, or Err
  Suspend, Err

VARIABLES
  graph,          \* what was given to the builder
  answers,        \* per node: its outcome
  order,          \* execution_order
  at,             \* how many of it were looked at
  outputs,        \* the nodes that answered, with the inputs they were given
  completed_nodes,
  records,        \* the WAL
  verdict         \* of the test: "running", "refused", "ok" or "error"

vars == <<graph, answers, order, at, outputs, completed_nodes, records, verdict>>

RunnerConstants == \A g \in TestGraphs : IsFiniteSet(g.nodes) /\ g.edges \in Seq(Range(g.edges))

Init ==
  /\ graph \in TestGraphs /\ answers \in [graph.nodes -> Outcomes]
  /\ order = <<>> /\ at = 0 /\ outputs = <<>> /\ completed_nodes = <<>> /\ records = <<>>
  /\ verdict = "building"

-----------------------------------------------------------------------------
With(f, x, v) == [y \in DOMAIN f \cup {x} |-> IF y = x THEN v ELSE f[y]]

Incoming(n) == {i \in DOMAIN graph.edges : graph.edges[i].to = n}
Predecessors(n) == {graph.edges[i].from : i \in Incoming(n)}

\* NodeOutput::matches_port: a suspended node has no port.
MatchesPort(outcome, port) == outcome # Suspend /\ outcome = port

\* The builder cannot declare a loop, so that any cycle is refused.
TopologicalSorts ==
  {s \in SetToSeqs(graph.nodes) :
     \A i \in DOMAIN graph.edges : LET e == graph.edges[i] IN
       {e.from, e.to} \subseteq graph.nodes /\ \E j, k \in DOMAIN s : j < k /\ s[j] = e.from /\ s[k] = e.to}

Build ==
  /\ verdict = "building"
  /\ IF TopologicalSorts = {}
     THEN verdict' = "refused" /\ UNCHANGED <<order, records>>
     ELSE verdict' = "running" /\ order' \in TopologicalSorts /\ records' = <<[type |-> "TraceStart"]>>
  /\ UNCHANGED <<graph, answers, at, outputs, completed_nodes>>

-----------------------------------------------------------------------------
Initial == [in |-> "initial"]

\* Mutant: the port of the edge is not looked at.
CollectInputsOfAll(n, done) ==
  IF n \in graph.entries THEN Initial
  ELSE LET live == {i \in Incoming(n) : graph.edges[i].from \in done}
       IN [p \in {graph.edges[i].into : i \in live} |->
             graph.edges[Max({i \in live : graph.edges[i].into = p})].from]

\* collect_inputs: of two edges into one port the later one counts.
CollectInputs(n, done) ==
  IF n \in graph.entries THEN Initial
  ELSE LET live == {i \in Incoming(n) : LET e == graph.edges[i] IN
                      e.from \in done /\ MatchesPort(answers[e.from], e.port)}
       IN [p \in {graph.edges[i].into : i \in live} |->
             graph.edges[Max({i \in live : graph.edges[i].into = p})].from]

\* should_execute asks for the predecessors, not for what they answered.
ShouldExecute(n) == Predecessors(n) \subseteq DOMAIN outputs

RunNode ==
  LET n == order[at + 1]
      started == Append(records, [type |-> "NodeStart", node |-> n])
  IN
  /\ verdict = "running" /\ at < Len(order) /\ at' = at + 1
  /\ IF ~ShouldExecute(n) /\ n \notin graph.entries
     THEN UNCHANGED <<outputs, completed_nodes, records, verdict>>
     ELSE IF answers[n] = Err
     THEN /\ records' = Append(started, [type |-> "NodeError", node |-> n]) /\ verdict' = "error"
          /\ UNCHANGED <<outputs, completed_nodes>>
     ELSE /\ records' = Append(started, [type |-> "NodeDone", node |-> n])
          /\ outputs' = With(outputs, n, CollectInputs(n, DOMAIN outputs))
          /\ completed_nodes' = Append(completed_nodes, n) /\ UNCHANGED verdict
  /\ UNCHANGED <<graph, answers, order>>

Finish ==
  /\ verdict = "running" /\ at = Len(order) /\ verdict' = "ok"
  /\ records' = Append(records, [type |-> "TraceComplete"])
  /\ UNCHANGED <<graph, answers, order, at, outputs, completed_nodes>>

Next == Build \/ RunNode \/ Finish
Spec == Init /\ [][Next]_vars

-----------------------------------------------------------------------------
(* The executor's TraceState: has_pending_input, is_node_ready until        *)
(* nothing is ready, and what collect_inputs then gives a node.             *)
Pending(n, done) ==
  {i \in Incoming(n) : LET e == graph.edges[i] IN e.from \in done /\ answers[e.from] = e.port}
IsNodeReady(n, done) ==
  n \in graph.entries \/ (Predecessors(n) \subseteq done /\ Pending(n, done) # {})
Given(n, done) ==
  LET inputs[i \in 0 .. Len(graph.edges)] ==
        IF i = 0 THEN <<>>
        ELSE IF i \notin Pending(n, done) THEN inputs[i - 1]
        ELSE With(inputs[i - 1], graph.edges[i].into, graph.edges[i].from)
  IN IF n \in graph.entries THEN Initial ELSE inputs[Len(graph.edges)]
Executed ==
  LET round[k \in 0 .. Cardinality(graph.nodes)] ==
        IF k = 0 THEN {} ELSE round[k - 1] \cup {n \in graph.nodes : IsNodeReady(n, round[k - 1])}
  IN round[Cardinality(graph.nodes)]

Answered == {n \in graph.nodes : answers[n] \notin {Suspend, Err}}

(* What a test shows of a node holds in production: unless a node fails or  *)
(* suspends, every node the executor runs is run by the runner, after the   *)
(* same nodes and with the same inputs.                                     *)
TestCoversRun ==
  verdict = "ok" /\ Answered = graph.nodes =>
    \A n \in Executed : n \in DOMAIN outputs /\ outputs[n] = Given(n, Executed)

(* And what it runs besides, the executor would not: nodes that get no      *)
(* input at all, or come after such a node.                                 *)
ExtraHasNoInput ==
  verdict = "ok" /\ Answered = graph.nodes =>
    \A n \in DOMAIN outputs \ Executed :
      outputs[n] = <<>> \/ \E m \in Predecessors(n) : m \in DOMAIN outputs \ Executed

(* The log of a test ends in TraceComplete if and only if it is successful, *)
(* which means that every node ran; if it failed, it ends in the error.     *)
LogTellsVerdict ==
  /\ verdict \in {"ok", "error"} =>
       Last(records) = IF verdict = "ok" THEN [type |-> "TraceComplete"] ELSE [type |-> "NodeError", node |-> order[at]]
  /\ verdict = "ok" => ToSet(completed_nodes) = graph.nodes
  /\ verdict \in {"refused", "building"} => records = <<>>
  /\ completed_nodes = [i \in 1 .. Len(completed_nodes) |-> order[i]]

(* The test runner agrees with the executor.                                *)
RunnerAgrees == TestCoversRun /\ ExtraHasNoInput /\ LogTellsVerdict
=============================================================================
