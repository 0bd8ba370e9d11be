-------------------------------- MODULE Nodes --------------------------------
(***************************************************************************)
(* The standard nodes (xerv-nodes flow/ and data/) and the JSON values     *)
(* they read (xerv-core value.rs).  A node is executed again and again as  *)
(* the flow comes back to it; a loop and a split keep their place in the   *)
(* iteration counter of the trace (traits/context.rs).  Regular            *)
(* expressions, the fractions of an average and the text of a number other *)
(* than a small one are left out; a path is a sequence of names.           *)
(***************************************************************************)
EXTENDS Integers, FiniteSets, Sequences, SequencesExt, TLC

CONSTANTS
  Jobs,        \* what is executed: a node with its configuration and input
  MaxEntries   \* bound: how often a loop or a split is gone through

VARIABLES
  job,         \* [node, ...]
  iteration,   \* get_loop_iteration
  emitted,     \* outputs since the node was entered: sequence of [port, value]
  entries

vars == <<job, iteration, emitted, entries>>

Init == job \in Jobs /\ iteration = 0 /\ emitted = <<>> /\ entries = 1

-----------------------------------------------------------------------------
(* Value.                                                                   *)
None == [is |-> "none"]
Null == [is |-> "null"]
Num(n) == [is |-> "num", num |-> n]
Str(s) == [is |-> "str", str |-> s]
Bool(b) == [is |-> "bool", bool |-> b]
Arr(s) == [is |-> "arr", items |-> s]
Obj(f) == [is |-> "obj", fields |-> f]

Numerals == {ToString(n) : n \in -1..99}
Number(s) == CHOOSE n \in -1..99 : ToString(n) = s

FieldsOf(v) == IF v.is = "obj" THEN v.fields ELSE <<>>
Field(v, name) == IF name \in DOMAIN FieldsOf(v) THEN v.fields[name] ELSE None
GetField(v, path) == FoldLeft(Field, v, path)

AsString(v) ==
  CASE v.is = "str" -> v
    [] v.is = "num" -> Str(ToString(v.num))
    [] v.is = "bool" -> Str(IF v.bool THEN "true" ELSE "false")
    [] v.is \in {"arr", "obj"} -> Str("{...}")
    [] OTHER -> None

AsF64(v) ==
  CASE v.is = "num" -> v
    [] v.is = "str" /\ v.str \in Numerals -> Num(Number(v.str))
    [] OTHER -> None

AsBool(v) ==
  CASE v.is = "bool" -> v
    [] v.is = "str" /\ v.str \in {"true", "1", "yes"} -> Bool(TRUE)
    [] v.is = "str" /\ v.str \in {"false", "0", "no"} -> Bool(FALSE)
    [] v.is = "num" -> Bool(v.num # 0)
    [] v.is = "null" -> Bool(FALSE)
    [] OTHER -> None

FieldEquals(v, path, s) == AsString(GetField(v, path)) = Str(s)
FieldIs(v, path, b) == AsBool(GetField(v, path)) = Bool(b)

\* The field, as a number, stands to s in one of the relations given.
Relation(x, y) == IF x < y THEN "<" ELSE IF x > y THEN ">" ELSE "="
Ordered(v, path, s, relations) ==
  LET n == AsF64(GetField(v, path))
  IN s \in Numerals /\ n # None /\ Relation(n.num, Number(s)) \in relations

-----------------------------------------------------------------------------
(* Switch and loop.  A condition is [op, path, rhs]; "equals", "greater"    *)
(* and "less" are the typed ones and "" is a field alone.                   *)
EvaluateExpression(c, v) ==
  CASE c.op \in {"==", "="} -> FieldEquals(v, c.path, c.rhs)
    [] c.op = "!=" -> ~FieldEquals(v, c.path, c.rhs)
    [] c.op = ">" -> Ordered(v, c.path, c.rhs, {">"})
    [] c.op = "<" -> Ordered(v, c.path, c.rhs, {"<"})
    [] c.op = ">=" -> Ordered(v, c.path, c.rhs, {">", "="})
    [] c.op = "<=" -> Ordered(v, c.path, c.rhs, {"<", "="})
    [] c.op = "" -> FieldIs(v, c.path, TRUE)

Evaluate(c, v) ==
  CASE c.op = "always" -> TRUE
    [] c.op = "equals" -> FieldEquals(v, c.path, c.rhs)
    [] c.op = "greater" -> Ordered(v, c.path, c.rhs, {">"})
    [] c.op = "less" -> Ordered(v, c.path, c.rhs, {"<"})
    [] OTHER -> EvaluateExpression(c, v)

\* "${iteration} = 3" is in no list of operators and never holds.
EvaluateIterationExpr(c, i) ==
  LET n == Number(c.rhs) IN
  /\ c.rhs \in Numerals /\ n >= 0
  /\ CASE c.op = ">=" -> i >= n [] c.op = "<=" -> i <= n [] c.op = "==" -> i = n
       [] c.op = "!=" -> i # n [] c.op = ">" -> i > n [] c.op = "<" -> i < n
       [] OTHER -> FALSE

ShouldExit(j, i) ==
  \/ i >= j.max
  \/ j.cond.op # "max" /\ CASE j.cond.op = "true" -> FieldIs(j.value, j.cond.path, TRUE)
                            [] j.cond.op = "false" -> FieldIs(j.value, j.cond.path, FALSE)
                            [] j.cond.op = "equals" -> FieldEquals(j.value, j.cond.path, j.cond.rhs)
                            [] j.cond.path = <<"iteration">> -> EvaluateIterationExpr(j.cond, i)
                            [] OTHER -> EvaluateExpression(j.cond, j.value)

Emit(port, v) == emitted' = Append(emitted, [port |-> port, value |-> v]) /\ UNCHANGED <<job, entries>>
Once == emitted = <<>> /\ UNCHANGED iteration

Switch ==
  /\ job.node = "switch" /\ Once
  /\ Emit(IF Evaluate(job.cond, job.value) THEN "true" ELSE "false", job.value)

Ended == emitted # <<>> /\ Last(emitted).port \in {"exit", "done"}

Loop ==
  /\ job.node = "loop" /\ ~Ended
  /\ \/ ShouldExit(job, iteration) /\ iteration' = 0 /\ Emit("exit", job.value)
     \/ ~ShouldExit(job, iteration) /\ iteration' = iteration + 1 /\ Emit("continue", job.value)

-----------------------------------------------------------------------------
(* Split: one item at a time; the mode is not looked at.  The arena may be  *)
(* full.                                                                    *)
\* Mutant: the counter is not reset.
SplitDoneKeeping(items) == iteration >= Len(items) /\ Emit("done", job.value) /\ UNCHANGED iteration

SplitDone(items) ==
  /\ iteration >= Len(items) /\ Emit("done", job.value)
  /\ iteration' = IF items = <<>> THEN iteration ELSE 0

SplitItem(items) ==
  /\ iteration < Len(items)
  /\ \/ Emit("out", items[iteration + 1]) /\ iteration' = iteration + 1
     \/ Len(emitted) <= Len(items) /\ Emit("error", Null) /\ UNCHANGED iteration

Split ==
  LET array == GetField(job.value, job.path) IN
  /\ job.node = "split" /\ ~Ended
  /\ \/ array.is = "arr" /\ (SplitDone(array.items) \/ SplitItem(array.items))
     \/ array.is # "arr" /\ Once /\ Emit("error", Null)

\* The flow comes back to the node.
Enter ==
  /\ Ended /\ entries < MaxEntries
  /\ entries' = entries + 1 /\ emitted' = <<>> /\ UNCHANGED <<job, iteration>>

-----------------------------------------------------------------------------
(* Merge: the inputs by the name of their ports, "in_" and a number.        *)
Digits(n) == IF n < 10 THEN <<n>> ELSE <<n \div 10, n % 10>>
Before(m, n) ==
  LET d == Digits(m)  e == Digits(n) IN
  d[1] < e[1] \/ (d[1] = e[1] /\ (Len(d) < Len(e) \/ (Len(d) = Len(e) /\ Last(d) < Last(e))))

Merged(ports) == SetToSortSeq(ports, Before)

Merge ==
  /\ job.node = "merge" /\ Once
  /\ Emit("out", IF job.ports = {} THEN Null
                 ELSE IF job.strategy = "FirstArrival" THEN Num(Merged(job.ports)[1])
                 ELSE Arr([i \in DOMAIN Merged(job.ports) |-> Num(Merged(job.ports)[i])]))

-----------------------------------------------------------------------------
(* Aggregate: the elements of an array that are numbers, or a field of each *)
(* that is one.  An average is given as <<sum, count>>.                     *)
ExtractValues(j) ==
  LET array == GetField(j.value, j.path)
      items == IF array.is = "arr" THEN array.items ELSE <<>>
      number(v) == IF j.field # <<>> THEN AsF64(GetField(v, j.field)) ELSE IF v.is = "num" THEN v ELSE None
  IN SelectSeq([i \in DOMAIN items |-> number(items[i])], LAMBDA n : n # None)

Fold(Op(_, _), values) == FoldLeft(LAMBDA acc, v : Num(Op(acc.num, v.num)), Head(values), Tail(values))

\* NaN becomes null in JSON.
Apply(op, values) ==
  CASE op = "Count" -> Num(Len(values))
    [] op # "Count" /\ values = <<>> -> IF op \in {"Min", "Max"} THEN Null ELSE Num(0)
    [] op = "Sum" /\ values # <<>> -> Fold(LAMBDA x, y : x + y, values)
    [] op = "Product" /\ values # <<>> -> Fold(LAMBDA x, y : x * y, values)
    [] op = "Min" /\ values # <<>> -> Fold(LAMBDA x, y : IF y < x THEN y ELSE x, values)
    [] op = "Max" /\ values # <<>> -> Fold(LAMBDA x, y : IF y > x THEN y ELSE x, values)

Aggregate == job.node = "aggregate" /\ Once /\ Emit("out", Apply(job.op, ExtractValues(job)))

-----------------------------------------------------------------------------
(* Paths in objects: set_path_value of the map node, set_path_recursive and *)
(* delete_path_recursive of the JSON node.                                  *)

\* What is in the way and is not an object is replaced by one.
SetPath(v, path, x) ==
  FoldRight(LAMBDA i, inner : Obj(path[i] :> inner @@ FieldsOf(GetField(v, SubSeq(path, 1, i - 1)))),
            [i \in DOMAIN path |-> i], x)

DeletePath(v, path) ==
  LET parent == GetField(v, Front(path)) IN
  IF Last(path) \notin DOMAIN FieldsOf(parent) THEN v
  ELSE LET rest == Obj([k \in DOMAIN parent.fields \ {Last(path)} |-> parent.fields[k]]) IN
       IF Len(path) = 1 THEN rest ELSE SetPath(v, Front(path), rest)

Extracted(v, paths) ==
  LET found == SelectSeq(paths, LAMBDA p : GetField(v, p) # None) IN
  FoldLeft(LAMBDA o, p : SetPath(o, <<Last(p)>>, GetField(v, p)), Obj(<<>>), found)

MergedObjects(v) ==
  IF v.is = "arr" THEN Obj(FoldLeft(LAMBDA o, item : FieldsOf(item) @@ o, <<>>, v.items)) ELSE v

(* Concat: a part is [literal] or [field]; a field that is missing or null  *)
(* is left out, with its separator.  A text is the sequence of what it is   *)
(* put together from.                                                       *)
Text(part, v) ==
  IF "literal" \in DOMAIN part THEN Str(part.literal) ELSE AsString(GetField(v, part.field))
BuildString(j) ==
  LET texts == SelectSeq([i \in DOMAIN j.parts |-> Text(j.parts[i], j.value)], LAMBDA t : t # None)
  IN FoldLeft(LAMBDA out, t : out \o (IF out = <<>> THEN <<>> ELSE <<j.separator>>) \o <<t>>, <<>>, texts)

Concat == job.node = "concat" /\ Once /\ Emit("out", Obj(job.output :> Arr(BuildString(job))))

\* Wait: the request for suspension, its metadata under the last names of the
\* paths they come from, and a timeout if there is one.
Wait ==
  /\ job.node = "wait" /\ Once
  /\ Emit("suspend", Obj("metadata" :> Extracted(job.value, job.paths) @@ "timeout" :> job.timeout))

\* apply_mappings: a mapping is [from, to, default].
Found(m, v) == IF GetField(v, m.from) # None THEN GetField(v, m.from) ELSE m.default
ApplyMappings(j) ==
  FoldLeft(LAMBDA out, m : IF Found(m, j.value) = None THEN out ELSE SetPath(out, m.to, Found(m, j.value)),
           Obj(IF j.passthrough THEN FieldsOf(j.value) ELSE <<>>), j.mappings)

Map == job.node = "map" /\ Once /\ Emit("out", ApplyMappings(job))

\* process: a field that is required and missing is an error.
Process(j) ==
  CASE j.op = "extract" -> Extracted(j.value, j.paths)
    [] j.op = "merge" -> MergedObjects(j.value)
    [] j.op = "set" -> SetPath(j.value, j.paths[1], j.x)
    [] j.op = "delete" -> DeletePath(j.value, j.paths[1])

JsonDynamic ==
  /\ job.node = "json" /\ Once
  /\ IF \/ \E i \in DOMAIN job.required : GetField(job.value, job.required[i]) = None
        \/ job.op = "merge" /\ job.value.is \notin {"arr", "obj"}
     THEN Emit("error", Null) ELSE Emit("out", Process(job))

-----------------------------------------------------------------------------
Next == Switch \/ Loop \/ Split \/ Enter \/ Merge \/ Aggregate \/ Concat \/ Wait \/ Map \/ JsonDynamic

Spec == Init /\ [][Next]_vars

-----------------------------------------------------------------------------
Result == emitted[1].value
Done(node) == job.node = node /\ emitted # <<>>
EmittedOn(port) == SelectSeq(emitted, LAMBDA o : o.port = port)

(* A loop continues at most max_iterations times between two exits, and a   *)
(* split emits the items of its array, each once and in order, before it is *)
(* done: at every entry, and whatever writes to the arena fail.             *)
IterationsRight ==
  /\ job.node = "loop" => Len(EmittedOn("continue")) <= job.max
  /\ job.node = "split" /\ GetField(job.value, job.path).is = "arr" =>
       LET items == GetField(job.value, job.path).items
           out == [i \in DOMAIN EmittedOn("out") |-> EmittedOn("out")[i].value]
       IN IsPrefix(out, items) /\ (Ended => out = items)

(* The operators of a condition fit together: "!=" is the opposite of "==", *)
(* also for a field that is missing; of "<", ">=" and of ">", "<=" exactly  *)
(* one holds when the field and the right side are numbers, and none        *)
(* otherwise; and the typed conditions agree with the expressions.          *)
ConditionsRight ==
  Done("switch") =>
    LET holds(op) == Evaluate([job.cond EXCEPT !.op = op], job.value)
        one(op1, op2) == holds(op1) # holds(op2)
        numbers == AsF64(GetField(job.value, job.cond.path)) # None /\ job.cond.rhs \in Numerals
    IN /\ emitted[1].port = "true" <=> Evaluate(job.cond, job.value)
       /\ one("==", "!=")
       /\ IF numbers THEN one("<", ">=") /\ one(">", "<=") /\ (holds("<") => ~holds(">"))
          ELSE \A op \in {"<", ">", "<=", ">="} : ~holds(op)
       /\ holds("equals") = holds("==") /\ holds("greater") = holds(">") /\ holds("less") = holds("<")

\* Neither path leads through the other.
Apart(p, q) == ~IsPrefix(p, q) /\ ~IsPrefix(q, p)
Same(v, w, path, all) == \A q \in all : Apart(path, q) => GetField(v, q) = GetField(w, q)

(* What is set can be read back, what is deleted is gone, and every path    *)
(* that has nothing to do with it reads as before; of the mappings of a map *)
(* node the last one that leads to a path wins.                             *)
PathsRight ==
  LET all == SeqOf({"a", "b"}, 2) IN
  /\ Done("json") /\ emitted[1].port = "out" =>
       LET p == job.paths[1] IN
       /\ job.op = "set" => GetField(Result, p) = job.x /\ Same(job.value, Result, p, all)
       /\ job.op = "delete" => GetField(Result, p) = None /\ Same(job.value, Result, p, all)
       /\ job.op = "extract" =>
            \A i \in DOMAIN job.paths :
              GetField(job.value, job.paths[i]) # None /\ (\A k \in i + 1 .. Len(job.paths) : Last(job.paths[k]) # Last(job.paths[i]))
                => GetField(Result, <<Last(job.paths[i])>>) = GetField(job.value, job.paths[i])
  /\ Done("map") =>
       \A i \in DOMAIN job.mappings :
         LET m == job.mappings[i]
             over == {k \in i + 1 .. Len(job.mappings) : Found(job.mappings[k], job.value) # None}
         IN Found(m, job.value) # None /\ (\A k \in over : Apart(m.to, job.mappings[k].to))
              => GetField(Result, m.to) = Found(m, job.value)

(* A merge has every input once, in the order of the ports as long as they  *)
(* have one digit; the aggregates of an array lie where they should; a text *)
(* falls at its separators into the parts that are there, in their order;   *)
(* and whoever is asked to decide on a suspended trace is shown each value  *)
(* that is there, unless a later one has its name.                          *)
SummariesRight ==
  /\ Done("concat") =>
       LET text == Result.fields[job.output].items
           there == {i \in DOMAIN job.parts : Text(job.parts[i], job.value) # None}
           nth(k) == CHOOSE i \in there : Cardinality({h \in there : h <= i}) = k
       IN /\ \A k \in 1 .. Cardinality(there) : text[2 * k - 1] = Text(job.parts[nth(k)], job.value)
          /\ \A k \in 1 .. Cardinality(there) - 1 : text[2 * k] = job.separator
          /\ there = {} => text = <<>>
  /\ Done("wait") =>
       \A i \in DOMAIN job.paths :
         LET v == GetField(job.value, job.paths[i]) IN
         v # None /\ (\A k \in i + 1 .. Len(job.paths) : GetField(job.value, job.paths[k]) = None \/ Last(job.paths[k]) # Last(job.paths[i]))
           => GetField(Result, <<"metadata", Last(job.paths[i])>>) = v
  /\ Done("merge") /\ Result.is = "arr" =>
       LET order == [i \in DOMAIN Result.items |-> Result.items[i].num] IN
       /\ ToSet(order) = job.ports /\ Len(order) = Cardinality(job.ports)
       /\ job.ports \subseteq 0..9 => (\A i \in 1 .. Len(order) - 1 : order[i] < order[i + 1])
  /\ Done("aggregate") /\ ExtractValues(job) # <<>> =>
       LET values == {ExtractValues(job)[i].num : i \in DOMAIN ExtractValues(job)}
           n == Len(ExtractValues(job))
           of(op) == Apply(op, ExtractValues(job)).num
       IN /\ of("Min") \in values /\ of("Max") \in values
          /\ \A x \in values : of("Min") <= x /\ x <= of("Max")
          /\ n * of("Min") <= of("Sum") /\ of("Sum") <= n * of("Max")
          /\ Result = Apply(job.op, ExtractValues(job))

(* The standard nodes do what they are for.                                 *)
NodesRight == IterationsRight /\ ConditionsRight /\ PathsRight /\ SummariesRight
=============================================================================
