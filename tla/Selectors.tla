------------------------------ MODULE Selectors ------------------------------
(***************************************************************************)
(* Selectors: SelectorParser::parse_all and interpolate (linker/parser.rs) *)
(* find the expressions in a text, each in its own way, as the validator   *)
(* does when it counts braces (flow/validation/validator.rs), and Linker   *)
(* (linker/resolver.rs) compiles an expression to an offset in a node's    *)
(* output, or leaves it to run time.  A text is a sequence of "$", "{",    *)
(* "}" and "x", where "x" is a part of an identifier.                      *)
(***************************************************************************)
EXTENDS Naturals, FiniteSets, Sequences, SequencesExt

CONSTANTS
  Texts,       \* texts to parse
  Paths,       \* selectors to compile: sequences of names, the root first
  Worlds       \* what the linker knows: [nodes, types, registered, config]

VARIABLES
  source,      \* [text] or [path, world]
  compiled     \* what came of it

vars == <<source, compiled>>
Nothing == [done |-> FALSE]

Init ==
  /\ source \in [text : Texts] \cup [path : Paths, world : Worlds]
  /\ compiled = Nothing

-----------------------------------------------------------------------------
At(t, i, tok) == i \in DOMAIN t /\ t[i] = tok
Opens(t, i) == At(t, i, "$") /\ At(t, i + 1, "{")

\* parse_expression: identifiers separated by dots; anything else is an error.
ParseExpression(e) == e # <<>> /\ \A i \in DOMAIN e : e[i] = "x"

Start == [open |-> FALSE, skip |-> FALSE, depth |-> 0, expr |-> <<>>, ok |-> TRUE, found |-> <<>>, rest |-> 0]
Close(s) == [s EXCEPT !.open = FALSE, !.ok = ParseExpression(s.expr), !.found = Append(@, s.expr)]

\* Every function looks at each character in turn, until an error.
Scan(t, Step(_, _)) == FoldLeft(LAMBDA s, i : IF ~s.ok THEN s
                                              ELSE IF s.skip THEN [s EXCEPT !.skip = FALSE]
                                              ELSE Step(s, i),
                                Start, [i \in DOMAIN t |-> i])
Ended(s) == [ok |-> s.ok /\ ~s.open, found |-> s.found, rest |-> s.rest]

\* parse_all: braces inside an expression are matched.
ParseAll(t) ==
  Ended(Scan(t, LAMBDA s, i :
    CASE ~s.open /\ Opens(t, i) -> [s EXCEPT !.open = TRUE, !.skip = TRUE, !.depth = 1, !.expr = <<>>]
      [] ~s.open /\ ~Opens(t, i) -> [s EXCEPT !.rest = @ + 1]
      [] s.open /\ t[i] = "{" -> [s EXCEPT !.depth = @ + 1, !.expr = Append(@, t[i])]
      [] s.open /\ t[i] = "}" -> IF s.depth = 1 THEN Close(s)
                                 ELSE [s EXCEPT !.depth = @ - 1, !.expr = Append(@, t[i])]
      [] OTHER -> [s EXCEPT !.expr = Append(@, t[i])]))

\* interpolate: the first brace closes, and "${" begins anew.
Interpolate(t) ==
  Ended(Scan(t, LAMBDA s, i :
    CASE Opens(t, i) -> [s EXCEPT !.open = TRUE, !.skip = TRUE, !.expr = <<>>]
      [] s.open /\ t[i] = "}" -> Close(s)
      [] s.open /\ t[i] # "}" /\ ~Opens(t, i) -> [s EXCEPT !.expr = Append(@, t[i])]
      [] OTHER -> [s EXCEPT !.rest = @ + 1]))

\* validate_selector_syntax: every brace counts once there is a "${" anywhere.
Balanced(t) ==
  LET any == \E i \in DOMAIN t : Opens(t, i)
      step(s, i) == CASE t[i] = "{" /\ (s.open \/ any) -> [s EXCEPT !.depth = @ + 1, !.open = TRUE]
                      [] t[i] = "}" /\ s.open -> [s EXCEPT !.depth = @ - 1, !.open = s.depth > 1]
                      [] OTHER -> s
  IN Scan(t, step).depth = 0

-----------------------------------------------------------------------------
(* Linker.  A type is a function from field names to [type, offset]; some   *)
(* of the types are registered.                                             *)

Error == [kind |-> "error", port |-> "", offset |-> 0, type |-> ""]
Dynamic(port) == [kind |-> "dynamic", port |-> port, offset |-> 0, type |-> ""]

\* Mutant: the offset is that of the last field.
ResolveFieldChainLast(w, type, path) ==
  FoldLeft(LAMBDA r, f :
             IF ~r.ok \/ f \notin DOMAIN r.schema THEN [r EXCEPT !.ok = FALSE]
             ELSE LET field == r.schema[f] IN
                  [ok |-> TRUE, offset |-> field.offset, type |-> field.type,
                   schema |-> IF field.type \in w.registered THEN w.types[field.type] ELSE r.schema],
           [ok |-> TRUE, offset |-> 0, type |-> type, schema |-> w.types[type]], path)

(* resolve_field_chain: a field whose type is not registered leaves the     *)
(* schema as it is for the next name.                                       *)
ResolveFieldChain(w, type, path) ==
  FoldLeft(LAMBDA r, f :
             IF ~r.ok \/ f \notin DOMAIN r.schema THEN [r EXCEPT !.ok = FALSE]
             ELSE LET field == r.schema[f] IN
                  [ok |-> TRUE, offset |-> r.offset + field.offset, type |-> field.type,
                   schema |-> IF field.type \in w.registered THEN w.types[field.type] ELSE r.schema],
           [ok |-> TRUE, offset |-> 0, type |-> type, schema |-> w.types[type]], path)

\* The first name of the path is a port if the node has it; or else "out".
PortOf(n, path) == IF path # <<>> /\ path[1] \in DOMAIN n.outputs THEN path[1] ELSE "out"
FieldsOf(n, path) == IF path # <<>> /\ path[1] \in DOMAIN n.outputs THEN Tail(path) ELSE path

TryStaticCompile(w, root, path) ==
  IF root \notin DOMAIN w.nodes THEN Error
  ELSE LET n == w.nodes[root]
           port == PortOf(n, path)
           r == ResolveFieldChain(w, n.outputs[port], FieldsOf(n, path)) IN
       IF port \notin DOMAIN n.outputs THEN Error
       ELSE IF ~r.ok THEN Error
       ELSE [kind |-> "static", port |-> port, offset |-> r.offset, type |-> r.type]

CompileDynamic(w, root, path) == Dynamic(PortOf(w.nodes[root], path))

CompilePipelineConfig(w, path) ==
  IF w.config = "" THEN Error
  ELSE LET r == ResolveFieldChain(w, w.config, path) IN
       IF ~r.ok THEN Error
       ELSE [kind |-> "static", port |-> "__config__", offset |-> r.offset, type |-> r.type]

Compile(w, p) ==
  IF Len(p) > 1 /\ p[1] = "pipeline" /\ p[2] = "config" THEN CompilePipelineConfig(w, SubSeq(p, 3, Len(p)))
  ELSE LET static == TryStaticCompile(w, p[1], Tail(p)) IN
       IF static # Error THEN static
       ELSE IF p[1] \in DOMAIN w.nodes /\ w.nodes[p[1]].dynamic THEN CompileDynamic(w, p[1], Tail(p))
       ELSE Error

Next ==
  /\ compiled = Nothing
  /\ compiled' = IF "text" \in DOMAIN source
                 THEN [done |-> TRUE, all |-> ParseAll(source.text), inter |-> Interpolate(source.text),
                       balanced |-> Balanced(source.text)]
                 ELSE [done |-> TRUE, result |-> Compile(source.world, source.path)]
  /\ UNCHANGED source

Spec == Init /\ [][Next]_vars

-----------------------------------------------------------------------------
\* By definition: "${" is followed by an identifier and "}".
Good(t, i) == \E k \in i + 3 .. Len(t) : t[k] = "}" /\ \A j \in i + 2 .. k - 1 : t[j] = "x"
Openings(t) == {i \in DOMAIN t : Opens(t, i)}

(* A text is parsed if and only if every "${" in it begins an expression    *)
(* that is an identifier and is closed; it is then interpolated with the    *)
(* same expressions, and the validator accepts it unless it has braces      *)
(* outside of them.  (interpolate also takes texts that parse_all refuses:  *)
(* it drops what stands between a "${" and a second one.)                   *)
ParsersAgree ==
  "text" \in DOMAIN source /\ compiled.done =>
    LET t == source.text IN
    /\ compiled.all.ok <=> \A i \in Openings(t) : Good(t, i)
    /\ compiled.all.ok => compiled.inter = compiled.all
    /\ compiled.all.ok => Len(compiled.all.found) = Cardinality(Openings(t))
    /\ compiled.all.ok /\ (\A i \in DOMAIN t : t[i] = "{" => Opens(t, i - 1)) => compiled.balanced

\* By definition: the types on the way, field by field, through registered ones.
Ways(w, type, path) ==
  {ts \in [1 .. Len(path) + 1 -> DOMAIN w.types] :
     /\ ts[1] = type
     /\ \A i \in DOMAIN path : /\ i > 1 => ts[i] \in w.registered
                               /\ path[i] \in DOMAIN w.types[ts[i]]
                               /\ w.types[ts[i]][path[i]].type = ts[i + 1]}

\* A name follows a field whose type is not registered.
Strays(w, type, path) ==
  \E k \in 1 .. Len(path) - 1 : \E ts \in Ways(w, type, SubSeq(path, 1, k)) : ts[k + 1] \notin w.registered

(* A selector is compiled to an offset if and only if its names lead from   *)
(* field to field through the nested types; the offset is the sum of those  *)
(* on the way, and the type the one at the end.  (Unless a name follows a   *)
(* field whose type is not registered, such as a number: it is then looked  *)
(* up in the type that has the field.)                                      *)
OffsetsRight ==
  "path" \in DOMAIN source /\ compiled.done /\ source.path[1] \in DOMAIN source.world.nodes =>
    LET w == source.world
        n == w.nodes[source.path[1]]
        fields == FieldsOf(n, Tail(source.path))
        port == PortOf(n, Tail(source.path))
        type == n.outputs[port]
        Sum(ts) == FoldLeft(LAMBDA acc, i : acc + w.types[ts[i]][fields[i]].offset, 0, [i \in DOMAIN fields |-> i])
        static == {[kind |-> "static", port |-> port, offset |-> Sum(ts), type |-> ts[Len(ts)]]
                     : ts \in Ways(w, type, fields)}
    IN port \in DOMAIN n.outputs /\ ~Strays(w, type, fields) =>
         compiled.result \in IF static # {} THEN static
                            ELSE IF n.dynamic THEN {Dynamic(port)} ELSE {Error}

(* Selectors mean the same to all who read them.                            *)
SelectorsAgree == ParsersAgree /\ OffsetsRight
=============================================================================
