-------------------------------- MODULE Flow --------------------------------
(***************************************************************************)
(* From a flow definition to a graph: FlowLoader (xerv-executor loader/),  *)
(* the validator (xerv-core flow/validation/), the graph with Kahn's sort  *)
(* (scheduler/graph.rs) and the reports for editing and deployment         *)
(* (validation/pipeline.rs), which look for unreachable nodes by           *)
(* themselves.  A node id is the name it was allocated for.  HashMaps give *)
(* no order, so the sort may take any node that is ready.                  *)
(***************************************************************************)
EXTENDS Naturals, FiniteSets, Functions, Sequences

CONSTANTS
  Flows,     \* definitions: [triggers, nodes, edges, named, validate]
  MaxNodes, MaxEdges, MaxTriggers   \* ValidationLimits

FlowConstants ==
  \A f \in Flows : IsFiniteSet(DOMAIN f.triggers) /\ IsFiniteSet(DOMAIN f.nodes) /\ IsFiniteSet(f.edges)

VARIABLES
  flow,      \* the definition, and whether LoaderConfig::validate is set
  stage,     \* "read", "sorting", "loaded", "invalid" or "unbuildable"
  degree,    \* in_degree of topological_sort
  ready,     \* its queue
  sorted     \* its result

vars == <<flow, stage, degree, ready, sorted>>

Init ==
  /\ flow \in Flows
  /\ stage = "read" /\ degree = <<>> /\ ready = {} /\ sorted = <<>>

-----------------------------------------------------------------------------
(* FlowValidator.  Each operator gives the kinds of the errors it adds.     *)

AllTriggerIds(f) == {f.triggers[i].id : i \in DOMAIN f.triggers}
If(b, kind) == IF b THEN {kind} ELSE {}

ValidateLimits(f) ==
  If(\/ Cardinality(DOMAIN f.nodes) > MaxNodes \/ Cardinality(f.edges) > MaxEdges
     \/ Len(f.triggers) > MaxTriggers, "LimitExceeded")

ValidateMetadata(f) == If(~f.named, "MissingField")

\* A webhook may have a port, from 1 to 65535; the others need what they read.
ValidateTriggerParams(t) ==
  CASE t.type = "webhook" -> If("port" \in DOMAIN t.params /\ t.params.port \notin 1..65535, "InvalidValue")
    [] t.type = "cron" -> If("schedule" \notin DOMAIN t.params, "MissingField")
    [] t.type = "filesystem" -> If("path" \notin DOMAIN t.params, "MissingField")
    [] OTHER -> {}

ValidateTriggers(f) ==
  UNION {LET t == f.triggers[i] IN
           If(\E j \in 1..i - 1 : f.triggers[j].id = t.id, "DuplicateId") \cup If(t.id = "", "MissingField")
             \cup If(t.type = "unknown", "InvalidTriggerType") \cup ValidateTriggerParams(t)
         : i \in DOMAIN f.triggers}

ValidateNodeConfig(n) ==
  CASE n.type = "std::switch" -> If(n.config \cap {"condition", "expression"} = {}, "MissingField")
    [] n.type = "std::loop" -> If(n.config \cap {"condition", "max_iterations"} = {}, "MissingField")
    [] n.type = "std::aggregate" -> If("operation" \notin n.config, "MissingField")
    [] OTHER -> {}

ValidateNodes(f) ==
  If(DOMAIN f.nodes \cap AllTriggerIds(f) # {}, "DuplicateId")
    \cup UNION {If(f.nodes[n].type = "", "MissingField") \cup ValidateNodeConfig(f.nodes[n]) : n \in DOMAIN f.nodes}

ValidateEdges(f) == If(\E e \in f.edges : "" \in {e.from, e.to}, "MissingField")

\* validate_references: an edge may name a node that is not enabled.
ValidateReferences(f) ==
  If(\E e \in f.edges : {e.from, e.to} \ (DOMAIN f.nodes \cup AllTriggerIds(f)) # {}, "InvalidReference")

Errors(f) ==
  ValidateLimits(f) \cup ValidateMetadata(f) \cup ValidateTriggers(f)
    \cup ValidateNodes(f) \cup ValidateEdges(f) \cup ValidateReferences(f)

-----------------------------------------------------------------------------
(* FlowBuilder::build, and the graph.                                       *)

EnabledTriggers(f) == {f.triggers[i].id : i \in {j \in DOMAIN f.triggers : f.triggers[j].enabled}}
EnabledNodes(f) == {n \in DOMAIN f.nodes : f.nodes[n].enabled}

\* register_ids: what get_id knows.
RegisterIds(f) == EnabledTriggers(f) \cup EnabledNodes(f)

\* add_edges fails on an end that has no id.
EdgesKnown(f) == \A e \in f.edges : {e.from, e.to} \subseteq RegisterIds(f)

\* is_loop_back_edge: declared for the two nodes, whatever their ports.
IsLoopBackEdge(f, e) == \E l \in f.edges : l.loop_back /\ l.from = e.from /\ l.to = e.to

Forward(f) == {e \in f.edges : ~IsLoopBackEdge(f, e)}
\* Mutant: the declared loop edges count too.
InDegreeAll(f) == [n \in RegisterIds(f) |-> Cardinality({e \in f.edges : e.to = n})]

InDegree(f) == [n \in RegisterIds(f) |-> Cardinality({e \in Forward(f) : e.to = n})]

\* load_definition, up to the start of topological_sort in FlowGraph::validate.
Load ==
  /\ stage = "read"
  /\ IF flow.validate /\ Errors(flow) # {} THEN
       stage' = "invalid" /\ UNCHANGED <<degree, ready>>
     ELSE IF ~EdgesKnown(flow) THEN
       stage' = "unbuildable" /\ UNCHANGED <<degree, ready>>
     ELSE /\ stage' = "sorting" /\ degree' = InDegree(flow)
          /\ ready' = {n \in RegisterIds(flow) : degree'[n] = 0}
  /\ UNCHANGED <<flow, sorted>>

\* One round of the loop: the edges out of a ready node no longer count.
SortNode(n) ==
  /\ stage = "sorting" /\ n \in ready
  /\ sorted' = Append(sorted, n)
  /\ degree' = [m \in DOMAIN degree |->
                  degree[m] - Cardinality({e \in Forward(flow) : e.from = n /\ e.to = m})]
  /\ ready' = (ready \ {n}) \cup {m \in DOMAIN degree : degree[m] > 0 /\ degree'[m] = 0}
  /\ UNCHANGED <<flow, stage>>

SortEnd ==
  /\ stage = "sorting" /\ ready = {}
  /\ stage' = IF Len(sorted) # Cardinality(RegisterIds(flow)) THEN "unbuildable" ELSE "loaded"
  /\ UNCHANGED <<flow, degree, ready, sorted>>

Next == Load \/ (\E n \in ready : SortNode(n)) \/ SortEnd

Spec == Init /\ [][Next]_vars

-----------------------------------------------------------------------------
(* compute_reachability: its own adjacency, and a breadth-first search.     *)

Children(f, n) ==
  {e.to : e \in {d \in f.edges : d.from = n /\ n \in RegisterIds(f) /\ d.to \in EnabledNodes(f)}}

Reachable(f) ==
  LET search[k \in 0 .. Cardinality(RegisterIds(f))] ==
        IF k = 0 THEN EnabledTriggers(f)
        ELSE search[k - 1] \cup UNION {Children(f, n) : n \in search[k - 1]}
  IN search[Cardinality(RegisterIds(f))]

Unreachable(f) == EnabledNodes(f) \ Reachable(f)

\* find_orphaned_nodes
Orphaned(f) == {n \in EnabledNodes(f) : \A e \in f.edges : n \notin {e.from, e.to}}

\* validate_for_deployment and validate_for_editing, given the build's result.
Deployable(f, built) ==
  Errors(f) = {} /\ built /\ EnabledTriggers(f) # {} /\ Unreachable(f) = {}
Warnings(f) == [orphaned |-> Orphaned(f), unreachable |-> Unreachable(f)]

-----------------------------------------------------------------------------
(* By definition: nodes that all have a predecessor among themselves form a *)
(* cycle, and what a trigger reaches is in every set closed under edges.    *)
Cyclic(f) ==
  \E S \in (SUBSET RegisterIds(f)) \ {{}} :
    \A n \in S : \E e \in Forward(f) : e.to = n /\ e.from \in S
FromTrigger(f, n) ==
  \A S \in SUBSET RegisterIds(f) :
    EnabledTriggers(f) \subseteq S /\ (\A e \in f.edges : e.from \in S => e.to \in S) => n \in S

(* A flow is loaded if and only if it is accepted, its edges lie between    *)
(* enabled nodes and every cycle has a declared loop edge; its order then   *)
(* lists every enabled node once, after all of its predecessors.  The       *)
(* report lets a flow be deployed if and only if the loader takes it and    *)
(* every enabled node is on a path from a trigger that is enabled; what it  *)
(* calls orphaned it calls unreachable too, but for a trigger's namesake.   *)
LoadedIsSound ==
  LET f == flow
      accepted == ~f.validate \/ Errors(f) = {}
  IN  stage \in {"loaded", "invalid", "unbuildable"} =>
        /\ stage = "loaded" <=> accepted /\ EdgesKnown(f) /\ ~Cyclic(f)
        /\ stage = "loaded" =>
             /\ Len(sorted) = Cardinality(RegisterIds(f)) /\ Range(sorted) = RegisterIds(f)
             /\ \A i, j \in DOMAIN sorted :
                  <<sorted[i], sorted[j]>> \in {<<e.from, e.to>> : e \in Forward(f)} => i < j
        /\ Deployable(f, stage = "loaded") <=>
             /\ stage = "loaded" /\ Errors(f) = {} /\ EnabledTriggers(f) # {}
             /\ \A n \in EnabledNodes(f) : FromTrigger(f, n)
        /\ Warnings(f).orphaned \ AllTriggerIds(f) \subseteq Warnings(f).unreachable
=============================================================================
