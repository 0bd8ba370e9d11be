----------------------------- MODULE MCService -----------------------------
(* What the parts of Service are given in its instance: flows, selectors,   *)
(* what the linker knows, jobs for the standard nodes, guests, calls of the *)
(* API, suspensions, and what the tests use.                                *)
EXTENDS Service, Integers, FiniteSets, Sequences, SequencesExt

\* Between them: a start that refuses to run twice and one that does not, one that
\* may fail before and one after the flag is set, a loop that may run out of events
\* and one that serves connections in tasks of their own.
MCKinds == {"webhook", "kafka"}

Trigger(id, enabled, type, params) == [id |-> id, enabled |-> enabled, type |-> type, params |-> params]
Node(enabled, type, config) == [enabled |-> enabled, type |-> type, config |-> config]
Definition(ts, ns, es, named, validate) ==
  [triggers |-> ts, nodes |-> ns, edges |-> es, named |-> named, validate |-> validate]
SomeEdges(n, from, to) == {es \in SUBSET [from : from, to : to, loop_back : BOOLEAN] : Cardinality(es) <= n}

\* Every graph of two nodes, enabled or not, and up to three edges.
Graphs ==
  {Definition(<<Trigger("t", on, "manual", <<>>)>>, "a" :> Node(TRUE, "std::log", {}) @@ "b" :> Node(b, "std::log", {}),
              es, TRUE, v) : on, b, v \in BOOLEAN, es \in SomeEdges(3, {"t", "a", "b"}, {"a", "b", "z"})}

\* Every kind of mistake in a trigger or a node.
SomeTriggers ==
  {Trigger(id, TRUE, "webhook", "port" :> p) : id \in {"t", "a", ""}, p \in {0, 65535, 65536}}
    \cup {Trigger("u", TRUE, y, p) : y \in {"cron", "filesystem", "unknown"},
                                    p \in {<<>>, "path" :> 1, "schedule" :> 1}}
Mistakes ==
  {Definition(ts, "a" :> Node(TRUE, y, c), {[from |-> "t", to |-> to, loop_back |-> FALSE]}, named, TRUE)
     : ts \in {<<>>} \cup {<<t>> : t \in SomeTriggers} \cup {<<t, t>> : t \in SomeTriggers},
       y \in {"", "std::switch", "std::loop", "std::aggregate"},
       c \in {{}, {"condition"}, {"operation"}}, to \in {"a", ""}, named \in BOOLEAN}

MCFlows == Graphs \cup Mistakes

MCTexts == SeqOf({"$", "{", "}", "x"}, 6)
MCPaths ==
  {<<root>> \o p : root \in {"n", "d", "m"}, p \in SeqOf({"out", "f", "g"}, 3)}
    \cup {<<"pipeline", "config">> \o p : p \in SeqOf({"f", "g"}, 2)}
Field(type, offset) == [type |-> type, offset |-> offset]
MCTypes ==
  [Rec |-> [f |-> Field("Inner", 1), g |-> Field("u64", 2)],
   Inner |-> [g |-> Field("u64", 4), f |-> Field("Rec", 8)], u64 |-> <<>>]
MCWorlds ==
  {[nodes |-> [n |-> [outputs |-> [out |-> "Rec"], dynamic |-> FALSE], d |-> [outputs |-> o, dynamic |-> TRUE]],
    types |-> MCTypes, registered |-> known, config |-> config]
     : o \in {[f |-> "Inner"], [out |-> "Inner", f |-> "Rec"]}, known \in SUBSET {"Rec", "Inner"},
       config \in {"", "Rec"}}

(* What is given to the standard nodes.                                     *)
None == [is |-> "none"]
Null == [is |-> "null"]
Num(n) == [is |-> "num", num |-> n]
Str(s) == [is |-> "str", str |-> s]
Bool(b) == [is |-> "bool", bool |-> b]
Arr(s) == [is |-> "arr", items |-> s]
Obj(f) == [is |-> "obj", fields |-> f]
Just(v) == Obj("a" :> v)

Scalars == {Null, Num(0), Num(2), Str("x"), Str("1"), Str("true"), Bool(TRUE)}
Small == {Null, Num(1), Str("x")}
Inner == Small \cup {Arr(<<Num(1)>>), Obj("a" :> Num(1) @@ "b" :> Null)} \cup {Just(v) : v \in Small}
ShortPaths == SeqOf({"a", "b"}, 2) \ {<<>>}
Condition(o, p, r) == [op |-> o, path |-> p, rhs |-> r]
Operators == {"==", "=", "!=", ">", "<", ">=", "<=", ""}
Items == {Arr(s) : s \in SeqOf({Num(1), Num(5), Str("2"), Obj("b" :> Num(3)), Obj("b" :> Str("4"))}, 3)}
Mapping(f, t, d) == [from |-> f, to |-> t, default |-> d]
Json(o, ps, r, x, v) == [node |-> "json", op |-> o, paths |-> ps, required |-> r, x |-> x, value |-> v]

Switches ==
  {[node |-> "switch", cond |-> Condition(o, p, r), value |-> Just(v)]
     : o \in Operators \cup {"always", "equals", "greater", "less"}, p \in {<<"a">>, <<"b">>},
       r \in {"1", "x", "true"}, v \in Scalars \cup {Obj(<<>>)}}
Loops ==
  {[node |-> "loop", max |-> m, cond |-> Condition(o, p, r), value |-> Just(v)]
     : m \in 0..3, o \in Operators \cup {"max", "true", "false", "equals"}, p \in {<<"a">>, <<"iteration">>},
       r \in {"1", "x"}, v \in {Num(1), Bool(TRUE), Str("no")}}
Splits ==
  {[node |-> "split", path |-> <<"a">>, value |-> Just(v)]
     : v \in {Num(1)} \cup {Arr(s) : s \in SeqOf({Num(1), Num(2)}, 3)}}
Merges ==
  {[node |-> "merge", strategy |-> s, ports |-> ps]
     : s \in {"WaitAll", "FirstArrival"}, ps \in SUBSET {0, 1, 2, 9, 10, 11}}
Aggregates ==
  {[node |-> "aggregate", op |-> o, path |-> <<"a">>, field |-> f, value |-> Just(v)]
     : o \in {"Sum", "Product", "Min", "Max", "Count"}, f \in {<<>>, <<"b">>}, v \in Items \cup {Num(1)}}
JsonNodes ==
  {Json(o, <<p, q>>, r, x, v)
     : o \in {"extract", "set", "delete"}, p, q \in ShortPaths, r \in {<<>>, << <<"a">> >>},
       x \in {Num(7), Just(Num(8))},
       v \in {Null, Obj(<<>>)} \cup {Just(w) : w \in Inner} \cup {Obj("a" :> w @@ "b" :> Num(6)) : w \in Inner}}
    \cup {Json("merge", <<>>, <<>>, Null, v)
            : v \in {Null, Just(Null)} \cup {Arr(<<v, w>>) : v, w \in Inner}}
Maps ==
  {[node |-> "map", passthrough |-> t, mappings |-> <<Mapping(f, p, None), Mapping(<<"a">>, q, d)>>, value |-> v]
     : t \in BOOLEAN, f, p, q \in ShortPaths, d \in {None, Num(9)},
       v \in {Null, Just(Num(1)), Obj("b" :> Just(Null)), Obj("a" :> Obj("b" :> Str("x")) @@ "b" :> Num(3))}}
Concats ==
  {[node |-> "concat", parts |-> ps, separator |-> Str("-"), output |-> "o", value |-> v]
     : ps \in SeqOf({[literal |-> "l"], [field |-> <<"a">>], [field |-> <<"b">>]}, 3),
       v \in {Null, Just(Num(1)), Obj("a" :> Null @@ "b" :> Str("x"))}}
Waits ==
  {[node |-> "wait", paths |-> <<p, q>>, timeout |-> t, value |-> v]
     : p, q \in ShortPaths, t \in {Null, Str("Approve")},
       v \in {Null, Just(Num(1)), Obj("a" :> Just(Null) @@ "b" :> Num(3))}}
MCJobs ==
  Switches \cup Loops \cup Splits \cup Merges \cup Aggregates \cup Concats \cup Waits \cup Maps \cup JsonNodes

(* WASM: two modules, two inputs, one variable of the environment.          *)
MCHash == 1 :> 7 @@ 2 :> 8
MCInputs == {<<>>, 51 :> [offset |-> 0, size |-> 1] @@ 52 :> [offset |-> 40, size |-> 3]}
MCEnvironment == 1 :> <<401, 402>>

(* Access: keys that expire, are doubled or do not suffice; every route and *)
(* its neighbours.                                                          *)
Entry(k, i, scopes) == [key |-> k, identity |-> i, scopes |-> scopes]
Until(e, t) == e @@ [expires_at |-> t]
MCAuthConfigs ==
  [enabled : {TRUE}, api_key : BOOLEAN,
   keys : {<<>>,
           <<Entry("k1", "a", {"Admin"}), Until(Entry("k2", "b", {"PipelineRead", "TraceRead"}), 1)>>,
           <<Until(Entry("k1", "a", {"TraceResume"}), 1), Entry("k1", "c", {"TraceWrite"}),
             Entry("k2", "b", {"PipelineWrite"})>>},
   exempt : {{<<"health">>}, {<<"pipelines">>, <<"health", "">>}}]
    \cup {[enabled |-> FALSE, api_key |-> FALSE, keys |-> <<>>, exempt |-> {<<"health">>}]}
Roots == {"pipelines", "traces", "logs", "resume", "suspensions"}
MCRoutes ==
  {<<r>> : r \in Roots \cup {"", "health", "status", "nodes"}}
    \cup {<<r, x>> : r \in Roots, x \in {"", "x"}}
    \cup {<<"health", "">>, <<"pipelines", "validate">>, <<"logs", "recent">>}
    \cup {<<"pipelines", "p", x>> : x \in {"", "start", "pause", "drain", "deploy", "triggers", "triggersx", "x"}}
    \cup {<<"pipelines", "p", x, y>> : x \in {"triggers", "triggersx"}, y \in {"", "x"}}
    \cup {<<"pipelines", "p", "triggers", "x", y>> : y \in {"fire", "pause", "x"}}
    \cup {<<"pipelines", "p", "triggers", "x", "fire", y>> : y \in {"", "x"}}
    \cup {<<"resume", "h", "x", "x", "x", "">>}
    \cup {<<"traces", "t", x>> : x \in {"", "cancel", "x"}}
    \cup {<<"logs", x, y>> : x \in {"by-trace", "by-level"}, y \in {"", "x"}}
MCCalls ==
  [method : {"GET", "POST", "PUT", "DELETE", "OPTIONS"}, path : MCRoutes, key : {"k1", "k2", NoKey}]

MCOwner == "t1" :> "p1" @@ "t2" :> "p2"
MCPorts == "approve" :> "out"

(* Mocks: paths with detours, and rules that wear out.                      *)
MCFsPaths ==
  {<<"/">>, <<"/", "a">>, <<"/", "a", "b">>, <<"a", "b">>, <<"/", "b", "..", "a", ".", "b">>, <<"..", "a">>}
Rule(m, urls, times) == [method |-> m, urls |-> urls, times |-> times]
MCRules ==
  {<<>>, <<Rule("GET", {1}, 1), Rule("any", {1, 2}, 2)>>,
   <<Rule("POST", {2}, 0), Rule("any", {1}, -1), Rule("GET", {1, 2}, -1)>>}
MCSent == [method : {"GET", "POST"}, url : {1, 2}]

(* The runner: every graph of three nodes, a cycle and an unknown node.     *)
Pairs == << <<1, 2>>, <<1, 3>>, <<2, 3>> >>
TestEdge(from, port, to, into) == [from |-> from, port |-> port, to |-> to, into |-> into]
TestEdges(choice, one) ==
  LET used == SelectSeq(<<1, 2, 3>>, LAMBDA i : choice[i] # "none")
  IN [k \in DOMAIN used |->
        LET pair == Pairs[used[k]] IN
        TestEdge(pair[1], choice[used[k]], pair[2], IF one THEN "in" ELSE ToString(pair[1]))]
MCTestGraphs ==
  {[nodes |-> {1, 2, 3}, edges |-> TestEdges(c, one), entries |-> e]
     : c \in [1..3 -> {"none", "out", "error"}], one \in BOOLEAN, e \in {{}, {1}, {1, 2}, {2}}}
    \cup {[nodes |-> {1, 2}, edges |-> <<TestEdge(1, "out", 2, "in"), TestEdge(2, "out", t, "in")>>, entries |-> {1}]
            : t \in {1, 3}}
=============================================================================
