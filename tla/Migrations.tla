----------------------------- MODULE Migrations -----------------------------
(***************************************************************************)
(* Schema evolution (xerv-core schema/): the registry of migrations with   *)
(* its three locks and the search for a path (migration.rs), the report    *)
(* on two schemas (compatibility.rs, traits/schema.rs) and ranges of       *)
(* versions (version.rs).  A schema is known by its hash; a migration is   *)
(* known by its ends and by its place in the vector.                       *)
(***************************************************************************)
EXTENDS Naturals, FiniteSets, FiniteSetsExt, Sequences, SequencesExt

CONSTANTS
  Hashes,
  Keys,           \* pairs of hashes that are used
  Users,          \* threads
  MaxMigrations,  \* bound: entries of the vector
  Questions       \* pairs of schemas, or of ranges, to compare

VARIABLES
  migrations,     \* the vector, nothing is ever removed from it: [from, to]
  direct,         \* (from, to) -> index
  edges,          \* from -> sequence of [to, index]
  calls,          \* per thread: [op, key, held], the locks acquired so far
  question, answer

vars == <<migrations, direct, edges, calls, question, answer>>

\* A schema is a function to [type, optional]; a version has two parts.
MigrationsConstants ==
  /\ IsFiniteSet(Hashes) /\ Keys \subseteq Hashes \X Hashes
  /\ \A q \in Questions :
       /\ "from" \in DOMAIN q =>
            /\ \A f \in DOMAIN q.from : q.from[f].optional \in BOOLEAN
            /\ \A f \in DOMAIN q.to : q.to[f].optional \in BOOLEAN
       /\ "r" \in DOMAIN q =>
            \A x \in {q.r, q.s} : x.min \in Nat \X Nat /\ x.max \in Nat \X Nat /\ x.open \in BOOLEAN

NoCall == [op |-> "none", key |-> <<0, 0>>, held |-> 0]

Init ==
  /\ migrations = <<>> /\ direct = <<>> /\ edges = [h \in Hashes |-> <<>>]
  /\ calls = [u \in Users |-> NoCall]
  /\ question \in Questions /\ answer = "none"

-----------------------------------------------------------------------------
(* Locks, in the order in which each call acquires them.                    *)
Read(l) == [lock |-> l, write |-> FALSE]
WriteLock(l) == [lock |-> l, write |-> TRUE]

\* Mutant: the graph is locked first.
OrderReversed(op) ==
  CASE op = "register" -> <<WriteLock("migrations"), WriteLock("direct"), WriteLock("graph")>>
    [] op = "unregister" -> <<WriteLock("graph"), WriteLock("direct"), Read("migrations")>>
    [] op = "find_direct" -> <<Read("direct"), Read("migrations")>>
    [] op = "find_path" -> <<Read("graph"), Read("migrations")>>
    [] op = "migrations_from" -> <<Read("migrations"), Read("graph")>>
    [] op = "migrations_to" -> <<Read("migrations"), Read("direct")>>
    [] OTHER -> <<>>

Order(op) ==
  CASE op = "register" -> <<WriteLock("migrations"), WriteLock("direct"), WriteLock("graph")>>
    [] op = "unregister" -> <<Read("migrations"), WriteLock("direct"), WriteLock("graph")>>
    [] op = "find_direct" -> <<Read("direct"), Read("migrations")>>
    [] op = "find_path" -> <<Read("graph"), Read("migrations")>>
    [] op = "migrations_from" -> <<Read("migrations"), Read("graph")>>
    [] op = "migrations_to" -> <<Read("migrations"), Read("direct")>>
    [] OTHER -> <<>>

Changes == {"register", "unregister"}
Lookups == {"find_direct", "find_path", "migrations_from", "migrations_to"}   \* each for any arguments
Backwards == {"find_direct", "find_path"}

Holds(u) == {Order(calls[u].op)[i] : i \in 1 .. calls[u].held}
Waiting(u) == calls[u].held < Len(Order(calls[u].op))
Wanted(u) == Order(calls[u].op)[calls[u].held + 1]

\* parking_lot: a reader also queues behind a writer that is waiting.
Blocked(u) ==
  /\ Waiting(u)
  /\ \E v \in Users \ {u} :
       \/ \E h \in Holds(v) : h.lock = Wanted(u).lock /\ (h.write \/ Wanted(u).write)
       \/ ~Wanted(u).write /\ Waiting(v) /\ Wanted(v) = WriteLock(Wanted(u).lock)
            /\ \E w \in Users \ {u, v} : Read(Wanted(u).lock) \in Holds(w)

Call(u, op, key) ==
  /\ calls[u] = NoCall /\ calls' = [calls EXCEPT ![u] = [op |-> op, key |-> key, held |-> 0]]
  /\ UNCHANGED <<migrations, direct, edges, question, answer>>

Lock(u) ==
  /\ Waiting(u) /\ ~Blocked(u) /\ calls' = [calls EXCEPT ![u].held = @ + 1]
  /\ UNCHANGED <<migrations, direct, edges, question, answer>>

-----------------------------------------------------------------------------
(* What a call does once it has its locks.                                  *)
Through(u, op) ==
  /\ calls[u].op = op /\ ~Waiting(u) /\ calls' = [calls EXCEPT ![u] = NoCall]
  /\ UNCHANGED <<question, answer>>

With(f, key, v) == [x \in DOMAIN f \cup {key} |-> IF x = key THEN v ELSE f[x]]

\* retain, of the edges that lead elsewhere.
Retained(s, to) ==
  LET kept[n \in 0 .. Len(s)] ==
        IF n = 0 THEN <<>> ELSE IF s[n].to = to THEN kept[n - 1] ELSE Append(kept[n - 1], s[n])
  IN kept[Len(s)]

\* The newest of a pair takes the place of the one before it.
Register(u) ==
  LET key == calls[u].key
      new == [from |-> key[1], to |-> key[2]]
  IN  /\ Through(u, "register")
      /\ \/ /\ key \in DOMAIN direct
            /\ migrations' = [migrations EXCEPT ![direct[key]] = new]
            /\ UNCHANGED <<direct, edges>>
         \/ /\ key \notin DOMAIN direct /\ Len(migrations) < MaxMigrations
            /\ migrations' = Append(migrations, new)
            /\ direct' = With(direct, key, Len(migrations) + 1)
            /\ edges' = [edges EXCEPT ![key[1]] = Append(@, [to |-> key[2], index |-> Len(migrations) + 1])]

Unregister(u) ==
  LET key == calls[u].key IN
  /\ Through(u, "unregister") /\ UNCHANGED migrations
  /\ direct' = [k \in DOMAIN direct \ {key} |-> direct[k]]
  /\ edges' = IF key \in DOMAIN direct
              THEN [edges EXCEPT ![key[1]] = Retained(@, key[2])] ELSE edges

Look(u, op) == Through(u, op) /\ UNCHANGED <<migrations, direct, edges>>

\* find_direct and migrations_from: what they return.
FindDirect(key) == IF key \in DOMAIN direct THEN {direct[key]} ELSE {}
MigrationsFrom(h) == {e.index : e \in ToSet(edges[h])}
MigrationsTo(h) == {direct[k] : k \in {key \in DOMAIN direct : key[2] = h}}

\* shortest_path, breadth first; of a hash that is visited its parent and the
\* migration between them, of what is found the last but one hash and the last
\* migration.
Visit(s, e, current, to) ==
  IF s.found # <<>> THEN s
  ELSE IF e.to = to THEN [queue |-> s.queue, visited |-> s.visited, found |-> <<current, e.index>>]
  ELSE IF e.to \in DOMAIN s.visited THEN s
  ELSE [queue |-> Append(s.queue, e.to), visited |-> With(s.visited, e.to, <<current, e.index>>), found |-> <<>>]

Scan(s, current, to) ==
  LET seen[n \in 0 .. Len(edges[current])] ==
        IF n = 0 THEN s ELSE Visit(seen[n - 1], edges[current][n], current, to)
  IN seen[Len(edges[current])]

Round(s, to) ==
  IF s.queue = <<>> \/ s.found # <<>> THEN s
  ELSE Scan([queue |-> Tail(s.queue), visited |-> s.visited, found |-> <<>>], Head(s.queue), to)

Search(from, to) ==
  LET bfs[n \in 0 .. Cardinality(Hashes)] ==
        IF n = 0 THEN [queue |-> <<from>>, visited |-> [h \in {from} |-> <<from, 0>>], found |-> <<>>]
        ELSE Round(bfs[n - 1], to)
  IN bfs[Cardinality(Hashes)]

Back(visited, from, h) ==
  LET path[n \in 0 .. Cardinality(Hashes)] ==   \* of n steps before h, and where it begins
        IF n = 0 THEN [at |-> h, indices |-> <<>>]
        ELSE LET p == path[n - 1] IN
             IF p.at = from THEN p
             ELSE [at |-> visited[p.at][1], indices |-> <<visited[p.at][2]>> \o p.indices]
  IN path[Cardinality(Hashes)].indices

ShortestPath(from, to) ==
  LET s == Search(from, to) IN
  IF s.found = <<>> THEN <<>> ELSE Append(Back(s.visited, from, s.found[1]), s.found[2])

\* find_path and has_path; an empty path is none, unless the ends are the same.
FindPath(from, to) ==
  LET p == ShortestPath(from, to) IN
  [i \in DOMAIN p |-> [from |-> migrations[p[i]].from, to |-> migrations[p[i]].to, index |-> p[i]]]
HasPath(from, to) == from = to \/ ShortestPath(from, to) # <<>>

-----------------------------------------------------------------------------
(* CompatibilityMatrix::check.  A schema is a function from the names of    *)
(* fields to [type, optional].                                              *)
DetectChanges(from, to) ==
  {<<"RemoveField", f>> : f \in DOMAIN from \ DOMAIN to}
    \cup {<<IF to[f].optional THEN "AddOptionalField" ELSE "AddRequiredField", f>> : f \in DOMAIN to \ DOMAIN from}
    \cup UNION {LET a == from[f]  b == to[f] IN
                (IF a.type # b.type THEN {<<"ChangeFieldType", f>>} ELSE {})
                  \cup (IF a.optional /\ ~b.optional THEN {<<"MakeRequired", f>>} ELSE {})
                  \cup (IF ~a.optional /\ b.optional THEN {<<"MakeOptional", f>>} ELSE {})
                : f \in DOMAIN from \cap DOMAIN to}

IsBreaking(kind) ==
  kind \in {"AddRequiredField", "RemoveField", "ChangeFieldType", "RenameField", "MakeRequired"}

Check(from, to) == \A c \in DetectChanges(from, to) : ~IsBreaking(c[1])

\* TypeInfo::is_compatible_with
IsCompatibleWith(from, to) ==
  \A f \in DOMAIN to : ~to[f].optional => f \in DOMAIN from /\ from[f].type = to[f].type

\* SchemaVersion's order and VersionRange; a range without a max is open.
AtMost(v, w) == v[1] < w[1] \/ (v[1] = w[1] /\ v[2] <= w[2])
InRange(r, v) == AtMost(r.min, v) /\ (r.open \/ AtMost(v, r.max))
Overlaps(r, s) == (s.open \/ AtMost(r.min, s.max)) /\ (r.open \/ AtMost(s.min, r.max))

\* Of two schemas: may one become the other; of two ranges: do they overlap.
Answer(q) ==
  LET yes == IF "from" \in DOMAIN q THEN Check(q.from, q.to) ELSE Overlaps(q.r, q.s)
  IN  IF yes THEN "yes" ELSE "no"

Ask ==
  /\ answer = "none" /\ answer' = Answer(question)
  /\ UNCHANGED <<migrations, direct, edges, calls, question>>

Next ==
  \/ /\ question = <<>>
     /\ \E u \in Users : \/ \E op \in Changes, key \in Keys : Call(u, op, key)
                         \/ \E op \in Lookups : Call(u, op, NoCall.key)
                         \/ Lock(u) \/ Register(u) \/ Unregister(u)
                         \/ \E op \in Lookups : Look(u, op)
  \/ question # <<>> /\ Ask

Spec == Init /\ [][Next]_vars

-----------------------------------------------------------------------------
\* Nobody is about to change the registry half way.
Unlocked(l) == \A u \in Users : WriteLock(l) \notin Holds(u)

\* By definition: the chains of registered migrations.
Chains(from, to, n) ==
  {c \in [1..n -> DOMAIN direct] :
     c[1][1] = from /\ c[n][2] = to /\ \A i \in 1 .. n - 1 : c[i][2] = c[i + 1][1]}

(* A path is found if and only if there is a chain of migrations that are   *)
(* registered; it is a shortest one, and every migration in it is the one   *)
(* find_direct returns.                                                     *)
PathsRight ==
  \A from, to \in Hashes : from # to =>
    LET p == FindPath(from, to)
        lengths == {n \in 1 .. Cardinality(Hashes) : Chains(from, to, n) # {}}
    IN /\ HasPath(from, to) <=> lengths # {}
       /\ lengths # {} =>
            /\ Len(p) = Min(lengths)
            /\ p[1].from = from /\ p[Len(p)].to = to
            /\ \A i \in 1 .. Len(p) - 1 : p[i].to = p[i + 1].from
            /\ \A i \in DOMAIN p : {p[i].index} = FindDirect(<<p[i].from, p[i].to>>)

(* What leads from a schema and what leads to one are the same migrations.  *)
EndsAgree ==
  UNION {MigrationsFrom(h) : h \in Hashes} = UNION {MigrationsTo(h) : h \in Hashes}

(* The calls do not wait for one another in a circle, unless find_direct or *)
(* find_path is one of them: these lock in the opposite order.              *)
NoCircle ==
  (\E u \in Users : calls[u] # NoCall) /\ (\A u \in Users : calls[u].op \notin Backwards) =>
    \E u \in Users : calls[u] # NoCall /\ ~Blocked(u)

\* By definition: data that a schema allows, and no other fields.
Instances(schema, names, types) ==
  {d \in UNION {[N -> types] : N \in SUBSET names} :
     /\ DOMAIN d \subseteq DOMAIN schema
     /\ \A f \in DOMAIN schema : IF f \in DOMAIN d THEN d[f] = schema[f].type ELSE schema[f].optional}

(* A change needs no migration if and only if all data of the old schema is *)
(* data of the new one; then is_compatible_with agrees.  Ranges that are    *)
(* not empty overlap if and only if they have a version in common.          *)
SchemaAnswered ==
  "from" \in DOMAIN question /\ answer # "none" =>
    LET old == question.from  new == question.to
        names == DOMAIN old \cup DOMAIN new
        types == {old[f].type : f \in DOMAIN old} \cup {new[f].type : f \in DOMAIN new}
    IN /\ answer = "yes" <=> Instances(old, names, types) \subseteq Instances(new, names, types)
       /\ answer = "yes" => IsCompatibleWith(old, new)
NotEmpty(r) == r.open \/ AtMost(r.min, r.max)
RangesAnswered ==
  "from" \notin DOMAIN question /\ "r" \in DOMAIN question /\ answer # "none" =>
    LET r == question.r  s == question.s
        top == [r |-> IF r.open THEN s.min ELSE r.max, s |-> IF s.open THEN r.min ELSE s.max]
    IN NotEmpty(r) /\ NotEmpty(s) =>
         (answer = "yes" <=> \E v \in {r.min, s.min, top.r, top.s} : InRange(r, v) /\ InRange(s, v))
AnswersRight == SchemaAnswered /\ RangesAnswered

(* Schema evolution: paths, ends, locks and answers.                        *)
EvolutionRight == PathsRight /\ EndsAgree /\ NoCircle /\ AnswersRight
=============================================================================
