--------------------------- MODULE RegistryProofs ---------------------------
(***************************************************************************)
(* Proofs about the registries and the collectors of Storage: the logs,    *)
(* the migrations and the schemas, for any number of threads, processes,   *)
(* collectors, entries and schemas.  Each has its own inductive invariant. *)
(***************************************************************************)
EXTENDS StorageProofs

-----------------------------------------------------------------------------
(* Logs.  What is logged, with the number it gets.                          *)
LogEvents == {G!InContext(said.context, said.event) : said \in Said}
Numbered == {[x EXCEPT !.id = n] : x \in LogEvents, n \in Nat \ {0}}
Ledger == Numbered \cup {[id |-> 0]}
Underway == [pc : {"notify", "push"}, at : G!At, event : Numbered]

LEMMA CollectorsAre == /\ Len(Collectors) \in Nat /\ G!At = 1 .. Len(Collectors) /\ 1 \in G!At
                       /\ \A c \in G!At : Collectors[c].capacity \in Nat
BY StorageAssumption DEF G!LogsConstants

LEMMA EventShape ==
  ASSUME NEW x \in LogEvents
  PROVE  /\ x = [id |-> 0, level |-> x.level, category |-> x.category, message |-> x.message,
                 trace |-> x.trace, node |-> x.node, pipeline |-> x.pipeline]
         /\ x.level \in G!Levels
<1>1. PICK said \in Said : x = G!InContext(said.context, said.event)
  BY DEF LogEvents
<1> DEFINE y == said.event
<1>2. y = [id |-> 0, level |-> y.level, category |-> y.category, message |-> y.message,
           trace |-> y.trace, node |-> y.node, pipeline |-> y.pipeline] /\ y.level \in G!Levels
  BY StorageAssumption DEF G!LogsConstants
<1> HIDE DEF y
<1> DEFINE t == IF y.trace = G!None THEN said.context.trace ELSE y.trace
           n == IF y.node = G!None THEN said.context.node ELSE y.node
           p == IF y.pipeline = G!None THEN said.context.pipeline ELSE y.pipeline
<1>3. x = [y EXCEPT !.trace = t, !.node = n, !.pipeline = p]
  BY <1>1 DEF G!InContext, y
<1> HIDE DEF t, n, p
<1> DEFINE Shape(a, b, c) == [id |-> 0, level |-> y.level, category |-> y.category, message |-> y.message,
                              trace |-> a, node |-> b, pipeline |-> c]
<1>a. /\ [Shape(y.trace, y.node, y.pipeline) EXCEPT !.trace = t] = Shape(t, y.node, y.pipeline)
      /\ [Shape(t, y.node, y.pipeline) EXCEPT !.node = n] = Shape(t, n, y.pipeline)
      /\ [Shape(t, n, y.pipeline) EXCEPT !.pipeline = p] = Shape(t, n, p)
  OBVIOUS
<1>b. \A a, b, c : LET z == Shape(a, b, c) IN
        z.level = y.level /\ z.category = y.category /\ z.message = y.message /\ z.trace = a /\ z.node = b /\ z.pipeline = c
  OBVIOUS
<1>c. y = Shape(y.trace, y.node, y.pipeline)
  BY <1>2
<1> HIDE DEF Shape
<1>4. x = Shape(t, n, p)
  <2>1. [y EXCEPT !.trace = t] = [Shape(y.trace, y.node, y.pipeline) EXCEPT !.trace = t]
    BY <1>c, Zenon
  <2> QED
    BY <1>3, <1>a, <2>1, Zenon
<1>5. x = Shape(x.trace, x.node, x.pipeline) /\ x.level = y.level /\ x.category = y.category /\ x.message = y.message
  BY <1>4, <1>b
<1> QED
  BY <1>2, <1>5 DEF Shape

LEMMA NumberedIs ==
  ASSUME NEW x \in Numbered
  PROVE  /\ x.id \in Nat \ {0} /\ x.level \in G!Levels
         /\ \A n \in Nat \ {0} : [[x EXCEPT !.id = 0] EXCEPT !.id = n] \in Numbered
         /\ \A n : [[x EXCEPT !.id = 0] EXCEPT !.id = n].id = n
<1>1. PICK y \in LogEvents, m \in Nat \ {0} : x = [y EXCEPT !.id = m]
  BY DEF Numbered
<1>2. /\ y = [id |-> 0, level |-> y.level, category |-> y.category, message |-> y.message,
             trace |-> y.trace, node |-> y.node, pipeline |-> y.pipeline]
      /\ y.level \in G!Levels
  BY EventShape
<1>3. x = [id |-> m, level |-> y.level, category |-> y.category, message |-> y.message,
           trace |-> y.trace, node |-> y.node, pipeline |-> y.pipeline]
  BY <1>1, <1>2
<1>4. ASSUME NEW n
      PROVE  [[x EXCEPT !.id = 0] EXCEPT !.id = n] = [y EXCEPT !.id = n] /\ [y EXCEPT !.id = n].id = n
  <2>1. [x EXCEPT !.id = 0] = y
    BY <1>2, <1>3
  <2> QED
    BY <1>2, <2>1
<1>5. \A n \in Nat \ {0} : [y EXCEPT !.id = n] \in Numbered
  BY DEF Numbered
<1> QED
  BY <1>2, <1>3, <1>4, <1>5

LEMMA FirstNumber ==
  ASSUME NEW x \in LogEvents, NEW n \in Nat \ {0}
  PROVE  [x EXCEPT !.id = n] \in Numbered /\ [x EXCEPT !.id = n].id = n
<1>1. x = [id |-> 0, level |-> x.level, category |-> x.category, message |-> x.message,
           trace |-> x.trace, node |-> x.node, pipeline |-> x.pipeline]
  BY EventShape
<1>2. [x EXCEPT !.id = n].id = n
  BY <1>1
<1> QED
  BY <1>2 DEF Numbered

LEMMA LedgerIs ==
  ASSUME NEW x \in Ledger
  PROVE  x.id \in Nat /\ (x.id = 0 \/ x \in Numbered)
<1>1. [id |-> 0].id = 0
  OBVIOUS
<1>2. x = [id |-> 0] \/ x \in Numbered
  BY DEF Ledger
<1>3. CASE x = [id |-> 0]
  BY <1>1, <1>3
<1>4. CASE x \in Numbered
  BY <1>4, NumberedIs
<1> QED
  BY <1>2, <1>3, <1>4

LEMMA GMaxIs ==
  ASSUME NEW n \in Nat, NEW I \in SUBSET (0 .. n), I # {}
  PROVE  G!Max(I) \in I /\ \A y \in I : y <= G!Max(I)
<1> DEFINE J == {n - x : x \in I}
<1>1. J \in SUBSET Nat /\ J # {}
  <2>1. PICK x : x \in I
    OBVIOUS
  <2>2. n - x \in J
    BY <2>1
  <2>3. \A y \in I : n - y \in Nat
    OBVIOUS
  <2> QED
    BY <2>2, <2>3
<1>2. PICK z \in J : \A y \in J : z <= y
  BY <1>1, LeastNumber
<1>3. PICK x \in I : z = n - x
  BY <1>2
<1>4. ASSUME NEW y \in I PROVE y <= x
  <2>1. n - y \in J /\ x \in 0 .. n /\ y \in 0 .. n
    OBVIOUS
  <2>2. n - x <= n - y
    BY <1>2, <1>3, <2>1
  <2> QED
    BY <2>1, <2>2
<1>5. \A y \in I : x >= y
  BY <1>4
<1>6. G!Max(I) \in I /\ \A y \in I : G!Max(I) >= y
  BY <1>5, Zenon DEF G!Max
<1> QED
  BY <1>6

LEMMA GMinIs ==
  ASSUME NEW I \in SUBSET Nat, I # {}
  PROVE  G!Min(I) \in I /\ \A y \in I : G!Min(I) <= y
BY LeastNumber DEF G!Min

\* The next collector that an event enters, and its number there.
LEMMA ArriveIs ==
  ASSUME NEW x, NEW c \in Nat
  PROVE  \/ G!Arrive(x, c) = G!Resting
         \/ \E d \in G!At : G!Arrive(x, c) = [pc |-> "notify", at |-> d, event |-> [x EXCEPT !.id = s2[d]]]
<1> DEFINE open == {d \in G!At : d >= c /\ G!Enters(d, x)}
<1>1. CASE open = {}
  BY <1>1 DEF G!Arrive
<1>2. CASE open # {}
  <2>1. open \in SUBSET Nat
    BY CollectorsAre
  <2>2. G!Min(open) \in open
    BY <1>2, <2>1, GMinIs
  <2>3. G!Min(open) \in G!At
    BY <2>2
  <2>4. G!Arrive(x, c) = [pc |-> "notify", at |-> G!Min(open), event |-> [x EXCEPT !.id = s2[G!Min(open)]]]
    BY <1>2 DEF G!Arrive
  <2> HIDE DEF open
  <2> QED
    BY <2>3, <2>4
<1> QED
  BY <1>1, <1>2

-----------------------------------------------------------------------------
(* What a request asks for is what the filter lets through.                 *)
Requested == Seq([key : STRING, value : STRING])
AskedTo(request, n, key) == {i \in 1 .. n : request[i].key = key /\ G!Read(request[i])}
ValueOf(key, v) == IF key = "level" THEN G!ParseLevel[v] ELSE v

\* A field of the filter has the last value that was asked for.
Carries(f, field, request, n, key) ==
  LET asked == AskedTo(request, n, key) IN
  /\ field \in DOMAIN f <=> asked # {}
  /\ \A i \in asked : (\A j \in asked : j <= i) => f[field] = ValueOf(key, request[i].value)

CarriesAll(f, request, n) ==
  /\ Carries(f, "min", request, n, "level")
  /\ Carries(f, "trace", request, n, "trace_id")
  /\ Carries(f, "node", request, n, "node_id")
  /\ Carries(f, "pipeline", request, n, "pipeline_id")
  /\ Carries(f, "contains", request, n, "contains")
  /\ "categories" \in DOMAIN f <=> AskedTo(request, n, "category") # {}
  /\ "categories" \in DOMAIN f => f.categories = {request[i].value : i \in AskedTo(request, n, "category")}
  /\ "max" \notin DOMAIN f

LEMMA CarriesStep ==
  ASSUME NEW f, NEW g, NEW field, NEW request \in Requested, NEW n \in 1 .. Len(request), NEW key,
         Carries(f, field, request, n - 1, key),
         request[n].key = key /\ G!Read(request[n])
           => field \in DOMAIN g /\ g[field] = ValueOf(key, request[n].value),
         ~(request[n].key = key /\ G!Read(request[n]))
           => (field \in DOMAIN g <=> field \in DOMAIN f) /\ (field \in DOMAIN f => g[field] = f[field])
  PROVE  Carries(g, field, request, n, key)
<1> DEFINE before == AskedTo(request, n - 1, key)
           asked == AskedTo(request, n, key)
<1>1. n \in Nat /\ n - 1 \in Nat /\ \A i \in 1 .. n - 1 : i < n /\ i \in 1 .. n
  BY DEF Requested
<1>2. CASE request[n].key = key /\ G!Read(request[n])
  <2>1. n \in asked /\ \A i \in asked : i <= n
    BY <1>1, <1>2 DEF AskedTo
  <2>2. ASSUME NEW i \in asked, \A j \in asked : j <= i PROVE i = n
    <3>1. i \in 1 .. n /\ n <= i
      BY <2>1, <2>2 DEF AskedTo
    <3> QED
      BY <1>1, <3>1
  <2> QED
    BY <1>2, <2>1, <2>2 DEF Carries
<1>3. CASE ~(request[n].key = key /\ G!Read(request[n]))
  <2>1. asked = before
    <3>1. \A i \in 1 .. n : i = n \/ i \in 1 .. n - 1
      BY <1>1
    <3> QED
      BY <1>1, <1>3, <3>1 DEF AskedTo
  <2> QED
    BY <1>3, <2>1 DEF Carries
<1> QED
  BY <1>2, <1>3

LEMMA ParseStep ==
  ASSUME NEW f, NEW request \in Requested, NEW n \in 1 .. Len(request), CarriesAll(f, request, n - 1)
  PROVE  CarriesAll(G!Parse(f, request[n]), request, n)
<1> DEFINE p == request[n]
           g == G!Parse(f, p)
<1>1. n \in Nat /\ n - 1 \in Nat /\ (\A i \in 1 .. n - 1 : i < n /\ i \in 1 .. n) /\ (\A i \in 1 .. n : i = n \/ i \in 1 .. n - 1)
  BY DEF Requested
<1>2. /\ p.key = "level" /\ G!Read(p) => g = G!With(f, "min", ValueOf("level", p.value))
      /\ p.key = "trace_id" /\ G!Read(p) => g = G!With(f, "trace", ValueOf("trace_id", p.value))
      /\ p.key = "node_id" /\ G!Read(p) => g = G!With(f, "node", ValueOf("node_id", p.value))
      /\ p.key = "pipeline_id" /\ G!Read(p) => g = G!With(f, "pipeline", ValueOf("pipeline_id", p.value))
      /\ p.key = "contains" /\ G!Read(p) => g = G!With(f, "contains", ValueOf("contains", p.value))
      /\ p.key = "category" /\ G!Read(p) =>
           g = G!With(f, "categories", {p.value} \cup IF "categories" \in DOMAIN f THEN f.categories ELSE {})
      /\ p.key = "limit" /\ G!Read(p) => \E v : g = G!With(f, "limit", v)
      /\ p.key = "offset" /\ G!Read(p) => \E v : g = G!With(f, "offset", v)
      /\ p.key \notin {"level", "trace_id", "node_id", "pipeline_id", "contains", "category", "limit", "offset"} => g = f
      /\ ~G!Read(p) => g = f
  BY DEF G!Parse, ValueOf
<1> DEFINE Same(field) == (field \in DOMAIN g <=> field \in DOMAIN f) /\ (field \in DOMAIN f => g[field] = f[field])
           Takes(field, key) ==
             /\ p.key = key /\ G!Read(p) => field \in DOMAIN g /\ g[field] = ValueOf(key, p.value)
             /\ ~(p.key = key /\ G!Read(p)) => Same(field)
<1>3. ASSUME NEW field, NEW v, g = G!With(f, field, v)
      PROVE  field \in DOMAIN g /\ g[field] = v /\ \A other : other # field => Same(other)
  BY <1>3 DEF G!With
<1> HIDE DEF p, g
<1>4. /\ Takes("min", "level") /\ Takes("trace", "trace_id") /\ Takes("node", "node_id")
      /\ Takes("pipeline", "pipeline_id") /\ Takes("contains", "contains")
      /\ ~(p.key = "category" /\ G!Read(p)) => Same("categories")
      /\ Same("max")
  <2>1. CASE g = f
    BY <1>2, <1>3, <2>1
  <2>2. CASE p.key \in {"level", "trace_id", "node_id", "pipeline_id", "contains", "category"} /\ G!Read(p)
    <3> HIDE DEF Same
    <3> QED
      BY <1>2, <1>3, <2>2
  <2>3. CASE p.key \in {"limit", "offset"} /\ G!Read(p)
    <3> HIDE DEF Same
    <3> QED
      BY <1>2, <1>3, <2>3
  <2> QED
    BY <1>2, <2>1, <2>2, <2>3
<1>5. /\ Carries(g, "min", request, n, "level") /\ Carries(g, "trace", request, n, "trace_id")
      /\ Carries(g, "node", request, n, "node_id") /\ Carries(g, "pipeline", request, n, "pipeline_id")
      /\ Carries(g, "contains", request, n, "contains")
  <2>1. Carries(g, "min", request, n, "level")
    BY <1>4, CarriesStep DEF CarriesAll, p
  <2>2. Carries(g, "trace", request, n, "trace_id")
    BY <1>4, CarriesStep DEF CarriesAll, p
  <2>3. Carries(g, "node", request, n, "node_id")
    BY <1>4, CarriesStep DEF CarriesAll, p
  <2>4. Carries(g, "pipeline", request, n, "pipeline_id")
    BY <1>4, CarriesStep DEF CarriesAll, p
  <2>5. Carries(g, "contains", request, n, "contains")
    BY <1>4, CarriesStep DEF CarriesAll, p
  <2> QED
    BY <2>1, <2>2, <2>3, <2>4, <2>5
<1>6. /\ "categories" \in DOMAIN g <=> AskedTo(request, n, "category") # {}
      /\ "categories" \in DOMAIN g => g["categories"] = {request[i].value : i \in AskedTo(request, n, "category")}
  <2> DEFINE before == AskedTo(request, n - 1, "category")
             asked == AskedTo(request, n, "category")
  <2>1. CASE p.key = "category" /\ G!Read(p)
    <3>1. asked = before \cup {n}
      BY <1>1, <2>1 DEF AskedTo, p
    <3>2. "categories" \in DOMAIN g /\ g["categories"] = {p.value} \cup {request[i].value : i \in before}
      <4>1. "categories" \notin DOMAIN f => before = {}
        BY DEF CarriesAll
      <4>2. "categories" \in DOMAIN f => f["categories"] = {request[i].value : i \in before}
        BY DEF CarriesAll
      <4> DEFINE given == IF "categories" \in DOMAIN f THEN f.categories ELSE {}
      <4>3. g = G!With(f, "categories", {p.value} \cup given)
        BY <1>2, <2>1
      <4>4. given = {request[i].value : i \in before}
        BY <4>1, <4>2
      <4> HIDE DEF given, before
      <4>5. "categories" \in DOMAIN g /\ g["categories"] = {p.value} \cup given
        BY <1>3, <4>3
      <4> QED
        BY <4>4, <4>5
    <3> QED
      BY <3>1, <3>2 DEF p
  <2>2. CASE ~(p.key = "category" /\ G!Read(p))
    <3>1. asked = before
      BY <1>1, <2>2 DEF AskedTo, p
    <3> QED
      BY <1>4, <2>2, <3>1 DEF CarriesAll
  <2> QED
    BY <2>1, <2>2
<1>7. "max" \notin DOMAIN g
  BY <1>4 DEF CarriesAll
<1> QED
  BY <1>5, <1>6, <1>7 DEF CarriesAll, g, p

\* The filter that is read, parameter by parameter.
LEMMA ParsedIs ==
  ASSUME NEW request \in Requested
  PROVE  CarriesAll(G!ParseLogFilter(request), request, Len(request))
<1> DEFINE n == Len(request)
           Goes(f) == f = [k \in 0 .. n |-> IF k = 0 THEN G!NoFilter ELSE G!Parse(f[k - 1], request[k])]
           Begun(f, m) == /\ DOMAIN f = 0 .. m /\ f = [k \in 0 .. m |-> f[k]] /\ f[0] = G!NoFilter
                          /\ \A k \in 1 .. m : f[k] = G!Parse(f[k - 1], request[k])
           begun == {m \in Nat : \E f : Begun(f, m)}
<1>1. n \in Nat
  BY DEF Requested
<1>2. 0 \in begun
  <2>1. Begun([k \in 0 .. 0 |-> G!NoFilter], 0)
    OBVIOUS
  <2> QED
    BY <2>1
<1>3. ASSUME NEW m \in 1 .. n, m - 1 \in begun PROVE m \in begun
  <2>1. m \in Nat /\ m - 1 \in Nat
    BY <1>1
  <2>2. PICK f : Begun(f, m - 1)
    BY <1>3
  <2> DEFINE g == [k \in 0 .. m |-> IF k = m THEN G!Parse(f[m - 1], request[m]) ELSE f[k]]
  <2>3. \A k \in 0 .. m - 1 : g[k] = f[k] /\ k # m
    BY <2>1
  <2>4. g[m] = G!Parse(f[m - 1], request[m]) /\ DOMAIN g = 0 .. m /\ g = [k \in 0 .. m |-> g[k]]
    BY <2>1
  <2>5. ASSUME NEW k \in 1 .. m PROVE g[k] = G!Parse(g[k - 1], request[k])
    <3>1. k - 1 \in 0 .. m - 1 /\ g[k - 1] = f[k - 1]
      BY <2>1, <2>3
    <3> HIDE DEF g
    <3>2. CASE k = m
      BY <2>4, <3>1, <3>2
    <3>3. CASE k # m
      <4>1. k \in 1 .. m - 1 /\ k \in 0 .. m - 1
        BY <2>1, <3>3
      <4> QED
        BY <2>2, <2>3, <3>1, <4>1
    <3> QED
      BY <3>2, <3>3
  <2>6. g[0] = G!NoFilter
    BY <2>1, <2>2, <2>3
  <2> HIDE DEF g
  <2> QED
    BY <2>1, <2>4, <2>5, <2>6
<1>4. n \in begun
  <2>1. \A k \in 0 .. n : k \in begun
    <3> HIDE DEF begun
    <3> QED
      BY <1>1, <1>2, <1>3, Counting
  <2> QED
    BY <1>1, <2>1
<1>5. PICK f : Begun(f, n)
  BY <1>4
<1>6. Goes(f)
  <2>1. \A k \in 0 .. n : f[k] = IF k = 0 THEN G!NoFilter ELSE G!Parse(f[k - 1], request[k])
    BY <1>1, <1>5
  <2> QED
    BY <1>5, <2>1
<1> DEFINE parsed == CHOOSE h : Goes(h)
<1>7. Goes(parsed)
  <2> HIDE DEF Goes
  <2> QED
    BY <1>6
<1>8. G!ParseLogFilter(request) = parsed[n]
  BY DEF G!ParseLogFilter
<1> HIDE DEF parsed
<1>9. /\ parsed[0] = G!NoFilter /\ \A k \in 1 .. n : parsed[k] = G!Parse(parsed[k - 1], request[k])
  <2>1. \A k \in 0 .. n : parsed[k] = IF k = 0 THEN G!NoFilter ELSE G!Parse(parsed[k - 1], request[k])
    BY <1>1, <1>7
  <2> QED
    BY <1>1, <2>1
<1> DEFINE right == {k \in 0 .. n : CarriesAll(parsed[k], request, k)}
<1>10. 0 \in right
  <2>1. DOMAIN G!NoFilter = {}
    BY DEF G!NoFilter
  <2>2. \A key : AskedTo(request, 0, key) = {}
    BY DEF AskedTo
  <2>3. CarriesAll(parsed[0], request, 0)
    BY <1>9, <2>1, <2>2 DEF CarriesAll, Carries
  <2> QED
    BY <1>1, <2>3
<1>11. ASSUME NEW k \in 1 .. n, k - 1 \in right PROVE k \in right
  <2>1. CarriesAll(parsed[k - 1], request, k - 1) /\ k \in 0 .. n
    BY <1>1, <1>11
  <2>2. CarriesAll(parsed[k], request, k)
    BY <1>9, <2>1, ParseStep
  <2> QED
    BY <2>1, <2>2
<1>12. n \in right
  <2>1. \A k \in 0 .. n : k \in right
    <3> HIDE DEF right
    <3> QED
      BY <1>1, <1>10, <1>11, Counting
  <2> QED
    BY <1>1, <2>1
<1> QED
  BY <1>8, <1>12

LEMMA MatchesWanted ==
  ASSUME NEW request \in Requested, NEW x
  PROVE  G!Matches(G!ParseLogFilter(request), x) <=> G!Wanted(request, x)
<1> DEFINE f == G!ParseLogFilter(request)
           n == Len(request)
<1>1. CarriesAll(f, request, n) /\ n \in Nat /\ DOMAIN request = 1 .. n
  BY ParsedIs DEF Requested
<1> HIDE DEF f
<1>2. ASSUME NEW key PROVE G!Asked(request, key) = AskedTo(request, n, key)
  BY <1>1 DEF G!Asked, AskedTo
<1>3. ASSUME NEW key, G!Asked(request, key) # {}
      PROVE  /\ G!Max(G!Asked(request, key)) \in AskedTo(request, n, key)
             /\ \A j \in AskedTo(request, n, key) : j <= G!Max(G!Asked(request, key))
  <2>1. AskedTo(request, n, key) \in SUBSET (0 .. n)
    BY <1>1 DEF AskedTo
  <2> QED
    BY <1>1, <1>2, <1>3, <2>1, GMaxIs
<1>4. ASSUME NEW key, NEW field, Carries(f, field, request, n, key)
      PROVE  /\ field \in DOMAIN f <=> G!Asked(request, key) # {}
             /\ field \in DOMAIN f => f[field] = ValueOf(key, G!LastAsked(request, key))
  BY <1>2, <1>3, <1>4 DEF Carries, G!LastAsked
<1>5. /\ "min" \in DOMAIN f <=> G!Asked(request, "level") # {}
      /\ "min" \in DOMAIN f => f.min = G!ParseLevel[G!LastAsked(request, "level")]
  BY <1>1, <1>4 DEF CarriesAll, ValueOf
<1>6. /\ "trace" \in DOMAIN f <=> G!Asked(request, "trace_id") # {}
      /\ "trace" \in DOMAIN f => f.trace = G!LastAsked(request, "trace_id")
  BY <1>1, <1>4 DEF CarriesAll, ValueOf
<1>7. /\ "node" \in DOMAIN f <=> G!Asked(request, "node_id") # {}
      /\ "node" \in DOMAIN f => f.node = G!LastAsked(request, "node_id")
  BY <1>1, <1>4 DEF CarriesAll, ValueOf
<1>8. /\ "pipeline" \in DOMAIN f <=> G!Asked(request, "pipeline_id") # {}
      /\ "pipeline" \in DOMAIN f => f.pipeline = G!LastAsked(request, "pipeline_id")
  BY <1>1, <1>4 DEF CarriesAll, ValueOf
<1>9. /\ "contains" \in DOMAIN f <=> G!Asked(request, "contains") # {}
      /\ "contains" \in DOMAIN f => f.contains = G!LastAsked(request, "contains")
  BY <1>1, <1>4 DEF CarriesAll, ValueOf
<1>10. /\ "categories" \in DOMAIN f <=> G!Asked(request, "category") # {}
       /\ "categories" \in DOMAIN f => f.categories = {request[i].value : i \in G!Asked(request, "category")}
       /\ "max" \notin DOMAIN f
  BY <1>1, <1>2 DEF CarriesAll
<1>11. G!Matches(f, x) <=> G!Wanted(request, x)
  <2>1. ("categories" \in DOMAIN f => x.category \in f.categories)
          <=> (G!Asked(request, "category") # {} => \E i \in G!Asked(request, "category") : request[i].value = x.category)
    BY <1>10
  <2> QED
    BY <1>5, <1>6, <1>7, <1>8, <1>9, <1>10, <2>1 DEF G!Matches, G!Wanted
<1> QED
  BY <1>11 DEF f

-----------------------------------------------------------------------------
(* The collectors.  Numbers are given once; a buffer has the end of what    *)
(* was taken since it was cleared, and who reads has all of it that came    *)
(* in the order of the numbers.                                             *)
LogTypes ==
  /\ s1 \in [G!At -> Seq(Numbered)] /\ s2 \in [G!At -> Nat \ {0}]
  /\ s3 \subseteq Subscribers
  /\ s4 \in [Clients -> {G!Resting} \cup Underway]
  /\ s6 \in [G!At -> Seq(Ledger)]
  /\ s7 \in [Subscribers -> [got : Seq(Nat), since : Nat]]
  /\ s8 \in [last : Nat, got : SUBSET Nat]
  /\ s9 \in [pc : 0 .. 6, by_level : Seq(Nat), total : Nat, quiet : BOOLEAN]

Busy(w) == s4[w].pc \in {"notify", "push"}

\* No number is given twice.
NumbersRight ==
  /\ \A c \in G!At : \A i \in DOMAIN s6[c] : s6[c][i].id < s2[c]
  /\ \A w \in Clients : Busy(w) =>
       LET c == s4[w].at IN
       /\ s4[w].event.id < s2[c]
       /\ \A i \in DOMAIN s6[c] : s6[c][i].id # s4[w].event.id
       /\ \A v \in Clients : v # w /\ Busy(v) /\ s4[v].at = c => s4[v].event.id # s4[w].event.id

RoomOf(c) == IF Collectors[c].capacity < 1 THEN 1 ELSE Collectors[c].capacity

\* The end of what came after place z, where it was last cleared.
EndOf(b, p, z, room) ==
  /\ z \in 0 .. Len(p) /\ (z = 0 \/ p[z].id = 0) /\ \A i \in z + 1 .. Len(p) : p[i].id # 0
  /\ Len(p) - z < room => Len(b) = Len(p) - z
  /\ Len(p) - z >= room => Len(b) = room
  /\ \A i \in 1 .. Len(b) : b[i] = p[Len(p) - Len(b) + i]
BufferRight == \A c \in G!At : \E z \in Nat : EndOf(s1[c], s6[c], z, RoomOf(c))

PolledRight ==
  /\ s8.last = 0 \/ \E i \in DOMAIN s6[1] : s6[1][i].id = s8.last
  /\ G!NoneMissed

HeardBy(s) ==
  LET got == s7[s].got  since == s7[s].since IN
  /\ \A i, j \in DOMAIN got : got[i] = got[j] => i = j
  /\ \A i \in DOMAIN got : got[i] < s2[1]
  /\ \A w \in Clients : s4[w].pc = "notify" /\ s4[w].at = 1 => \A i \in DOMAIN got : got[i] # s4[w].event.id
  /\ s \in s3 =>
       /\ since >= 1
       /\ \A w \in Clients : s4[w].pc = "push" /\ s4[w].at = 1 /\ s4[w].event.id >= since
            => \E i \in DOMAIN got : got[i] = s4[w].event.id
       /\ \A k \in DOMAIN s6[1] : s6[1][k].id >= since => \E i \in DOMAIN got : got[i] = s6[1][k].id
HeardRight == \A s \in Subscribers : HeardBy(s)

\* The places of a level in the first collector.
OfLevel(b, k) == {i \in DOMAIN b : b[i].level = k}
StatsRight ==
  /\ Len(s9.by_level) = IF s9.pc < 5 THEN s9.pc ELSE 5
  /\ s9.quiet /\ s9.pc > 0 => \A k \in 1 .. Len(s9.by_level) : s9.by_level[k] = Cardinality(OfLevel(s1[1], k))
  /\ s9.quiet /\ s9.pc = 6 => s9.total = Len(s1[1])

LogParts == LogTypes /\ NumbersRight /\ BufferRight /\ PolledRight /\ HeardRight /\ StatsRight
LogInv == part = "logs" => LogParts

LEMMA SameCardinalityG == \A S : G!Cardinality(S) = Cardinality(S)
BY Zenon DEF G!Cardinality, Cardinality

LEMMA FiveLevels == G!Cardinality(G!Levels) = 5
<1>1. 1 \in Int /\ 5 \in Int /\ ~(1 > 5) /\ 5 - 1 + 1 = 5
  OBVIOUS
<1>2. Cardinality(1 .. 5) = IF 1 > 5 THEN 0 ELSE 5 - 1 + 1
  BY <1>1, FS_Interval, Zenon
<1> QED
  BY <1>1, <1>2, SameCardinalityG DEF G!Levels

LEMMA LogStarts ==
  ASSUME StorageInit
  PROVE  LogInv
<1> SUFFICES ASSUME part = "logs" PROVE LogParts
  BY DEF LogInv
<1>1. G!Init
  BY DEF StorageInit
<1>2. LogTypes
  <2>1. s9 \in [pc : 0 .. 6, by_level : Seq(Nat), total : Nat, quiet : BOOLEAN] /\ s8 \in [last : Nat, got : SUBSET Nat]
    BY <1>1 DEF G!Init, G!NoStats
  <2>2. s7 \in [Subscribers -> [got : Seq(Nat), since : Nat]]
    BY <1>1 DEF G!Init
  <2> QED
    BY <1>1, <2>1, <2>2, CollectorsAre DEF G!Init, LogTypes
<1>3. NumbersRight
  BY <1>1, CollectorsAre DEF G!Init, NumbersRight, Busy, G!Resting
<1>4. BufferRight
  <2>1. ASSUME NEW c \in G!At PROVE EndOf(s1[c], s6[c], 0, RoomOf(c))
    BY <1>1, CollectorsAre DEF G!Init, EndOf, RoomOf
  <2> QED
    BY <2>1 DEF BufferRight
<1>5. PolledRight
  BY <1>1, CollectorsAre DEF G!Init, PolledRight, G!NoneMissed
<1>6. HeardRight
  BY <1>1, CollectorsAre DEF G!Init, HeardRight, HeardBy, G!Resting
<1>7. StatsRight
  BY <1>1 DEF G!Init, StatsRight, G!NoStats
<1> QED
  BY <1>2, <1>3, <1>4, <1>5, <1>6, <1>7 DEF LogParts

\* What a thread that is busy does it with.
LEMMA BusyIs ==
  ASSUME LogTypes, NEW w \in Clients, Busy(w)
  PROVE  s4[w] \in Underway /\ s4[w].at \in G!At /\ s4[w].event \in Numbered /\ s4[w].event.id \in Nat \ {0}
<1>1. s4[w] # G!Resting
  BY DEF Busy, G!Resting
<1>2. s4[w] \in Underway
  BY <1>1 DEF LogTypes
<1> QED
  BY <1>2, NumberedIs DEF Underway

\* w goes to the next collector, where the event gets a new number, or rests.
Proceeds(w, to) ==
  /\ s4' = [s4 EXCEPT ![w] = to] /\ s2' = G!Counted(to)
  /\ to = G!Resting \/ \E x \in Numbered, d \in G!At :
                         to = [pc |-> "notify", at |-> d, event |-> x] /\ x.id = s2[d]

LEMMA GoesOnly ==
  ASSUME LogTypes, NEW w \in Clients, NEW to, Proceeds(w, to)
  PROVE  /\ s4' \in [Clients -> {G!Resting} \cup Underway] /\ s2' \in [G!At -> Nat \ {0}]
         /\ \A c \in G!At : s2'[c] >= s2[c]
         /\ \A v \in Clients \ {w} : s4'[v] = s4[v]
         /\ s4'[w] = to /\ to.pc # "push"
         /\ \/ to = G!Resting /\ s2' = s2 /\ to.pc = "rest"
            \/ /\ to \in Underway /\ to.pc = "notify" /\ to.event.id = s2[to.at] /\ s2'[to.at] = s2[to.at] + 1
               /\ to.at \in G!At /\ to.event \in Numbered
<1>1. CASE to = G!Resting
  <2>1. s2' = s2 /\ to.pc = "rest"
    BY <1>1 DEF Proceeds, G!Counted, G!Resting
  <2>2. s4' \in [Clients -> {G!Resting} \cup Underway] /\ s4'[w] = to /\ \A v \in Clients \ {w} : s4'[v] = s4[v]
    BY <1>1 DEF Proceeds, LogTypes
  <2> QED
    BY <1>1, <2>1, <2>2 DEF LogTypes
<1>2. CASE to # G!Resting
  <2>1. PICK x \in Numbered, d \in G!At : to = [pc |-> "notify", at |-> d, event |-> x] /\ x.id = s2[d]
    BY <1>2 DEF Proceeds
  <2>2. to \in Underway /\ to.pc = "notify" /\ to.event = x /\ to.at = d
    BY <2>1 DEF Underway
  <2>3. s4' \in [Clients -> {G!Resting} \cup Underway] /\ s4'[w] = to /\ \A v \in Clients \ {w} : s4'[v] = s4[v]
    BY <2>2 DEF Proceeds, LogTypes
  <2>4. s2' = [s2 EXCEPT ![d] = @ + 1]
    BY <1>2, <2>2 DEF Proceeds, G!Counted
  <2> QED
    BY <2>1, <2>2, <2>3, <2>4 DEF LogTypes
<1> QED
  BY <1>1, <1>2

LEMMA LogNotify ==
  ASSUME LogParts, NEW w \in Clients, G!Notify(w)
  PROVE  LogParts'
<1> DEFINE x == s4[w].event.id
<1>1. /\ LogTypes /\ Busy(w) /\ s4[w].pc = "notify" /\ s4[w] \in Underway /\ s4[w].at \in G!At
      /\ s4[w].event \in Numbered /\ x \in Nat \ {0}
  BY BusyIs DEF LogParts, G!Notify, Busy
<1>2. /\ s4' = [s4 EXCEPT ![w].pc = "push"]
      /\ s1' = s1 /\ s2' = s2 /\ s3' = s3 /\ s6' = s6 /\ s8' = s8 /\ s9' = s9
  BY DEF G!Notify
<1>3. /\ s4'[w].pc = "push" /\ s4'[w].at = s4[w].at /\ s4'[w].event = s4[w].event /\ s4'[w] \in Underway
      /\ \A v \in Clients \ {w} : s4'[v] = s4[v]
      /\ s4' \in [Clients -> {G!Resting} \cup Underway]
  BY <1>1, <1>2 DEF LogTypes, Underway
<1>4. ASSUME NEW s \in Subscribers
      PROVE  /\ s7'[s] \in [got : Seq(Nat), since : Nat] /\ s7'[s].since = s7[s].since
             /\ IF s \in s3 /\ s4[w].at = 1 THEN s7'[s].got = Append(s7[s].got, x) ELSE s7'[s] = s7[s]
  <2>1. s7[s] \in [got : Seq(Nat), since : Nat]
    BY <1>1 DEF LogTypes
  <2>2. s7'[s] = IF s \in s3 /\ s4[w].at = 1 THEN [s7[s] EXCEPT !.got = Append(@, x)] ELSE s7[s]
    BY DEF G!Notify
  <2>3. CASE ~(s \in s3 /\ s4[w].at = 1)
    BY <2>1, <2>2, <2>3
  <2>4. CASE s \in s3 /\ s4[w].at = 1
    <3> DEFINE longer == Append(s7[s].got, x)
    <3>1. longer \in Seq(Nat)
      BY <1>1, <2>1
    <3>2. s7'[s] = [s7[s] EXCEPT !.got = longer]
      BY <2>2, <2>4
    <3> HIDE DEF longer
    <3>3. s7'[s] \in [got : Seq(Nat), since : Nat] /\ s7'[s].since = s7[s].since /\ s7'[s].got = longer
      BY <2>1, <3>1, <3>2
    <3> QED
      BY <2>4, <3>3 DEF longer
  <2> QED
    BY <2>3, <2>4
<1>5. LogTypes'
  <2>1. s7' \in [Subscribers -> [got : Seq(Nat), since : Nat]]
    <3>1. s7' = [s \in Subscribers |-> s7'[s]]
      BY DEF G!Notify
    <3> QED
      BY <1>4, <3>1
  <2> QED
    BY <1>1, <1>2, <1>3, <2>1 DEF LogTypes
<1>6. \A v \in Clients : Busy(v)' <=> Busy(v)
  BY <1>1, <1>2, <1>3 DEF Busy
<1>7. \A v \in Clients : s4'[v].at = s4[v].at /\ s4'[v].event = s4[v].event
  BY <1>3
<1>8. NumbersRight'
  BY <1>2, <1>6, <1>7 DEF LogParts, NumbersRight
<1>9. BufferRight' /\ PolledRight' /\ StatsRight'
  BY <1>2 DEF LogParts, BufferRight, PolledRight, G!NoneMissed, G!Overtaken, StatsRight
<1>10. ASSUME NEW s \in Subscribers PROVE HeardBy(s)'
  <2> DEFINE got == s7[s].got
             now == s7'[s].got
  <2>1. HeardBy(s) /\ got \in Seq(Nat) /\ s7'[s].since = s7[s].since /\ s7[s].since \in Nat
    BY <1>1, <1>4 DEF LogParts, HeardRight, LogTypes
  <2>2. CASE s \in s3 /\ s4[w].at = 1
    <3>1. now = Append(got, x) /\ x < s2[1] /\ \A i \in DOMAIN got : got[i] # x
      BY <1>1, <1>4, <2>1, <2>2 DEF HeardBy, LogParts, NumbersRight
    <3>2. /\ DOMAIN now = 1 .. Len(got) + 1 /\ now[Len(got) + 1] = x /\ DOMAIN got = 1 .. Len(got) /\ Len(got) \in Nat
          /\ \A i \in 1 .. Len(got) : now[i] = got[i] /\ i \in DOMAIN now
      BY <2>1, <3>1
    <3>3. \A i \in DOMAIN now : i = Len(got) + 1 \/ i \in DOMAIN got
      BY <3>2
    <3> HIDE DEF got, now, x
    <3>4. \A i, j \in DOMAIN now : now[i] = now[j] => i = j
      BY <2>1, <3>1, <3>2, <3>3 DEF HeardBy, got
    <3>5. \A i \in DOMAIN now : now[i] < s2[1]
      BY <2>1, <3>1, <3>2, <3>3 DEF HeardBy, got
    <3>6. ASSUME NEW v \in Clients, s4'[v].pc = "notify", s4'[v].at = 1, NEW i \in DOMAIN now
          PROVE  now[i] # s4'[v].event.id
      <4>1. v # w /\ s4'[v] = s4[v] /\ Busy(v)
        BY <1>3, <3>6 DEF Busy
      <4>2. s4[v].event.id # x
        BY <1>1, <2>2, <3>6, <4>1 DEF LogParts, NumbersRight, x
      <4> QED
        BY <2>1, <3>2, <3>3, <3>6, <4>1, <4>2 DEF HeardBy, got
    <3>7. s7[s].since >= 1
      BY <2>1, <2>2 DEF HeardBy
    <3>8. ASSUME NEW n, \E i \in DOMAIN got : got[i] = n PROVE \E i \in DOMAIN now : now[i] = n
      BY <3>2, <3>8
    <3>9. ASSUME NEW v \in Clients, s4'[v].pc = "push", s4'[v].at = 1, s4'[v].event.id >= s7[s].since
          PROVE  \E i \in DOMAIN now : now[i] = s4'[v].event.id
      <4>1. CASE v = w
        <5>1. Len(got) + 1 \in DOMAIN now /\ s4'[v].event.id = x
          BY <1>3, <3>2, <4>1 DEF x
        <5> QED
          BY <3>2, <5>1
      <4>2. CASE v # w
        <5>1. s4'[v] = s4[v]
          BY <1>3, <4>2
        <5>2. \E i \in DOMAIN got : got[i] = s4[v].event.id
          BY <2>1, <2>2, <3>9, <5>1 DEF HeardBy, got
        <5> QED
          BY <3>8, <5>1, <5>2
      <4> QED
        BY <4>1, <4>2
    <3>10. ASSUME NEW k \in DOMAIN s6[1], s6[1][k].id >= s7[s].since PROVE \E i \in DOMAIN now : now[i] = s6[1][k].id
      BY <2>1, <2>2, <3>8, <3>10 DEF HeardBy, got
    <3> QED
      BY <1>2, <2>1, <3>4, <3>5, <3>6, <3>7, <3>9, <3>10 DEF HeardBy, now
  <2>3. CASE ~(s \in s3 /\ s4[w].at = 1)
    <3>1. s7'[s] = s7[s]
      BY <1>4, <2>3
    <3>2. \A v \in Clients : s4'[v].pc = "notify" => s4[v].pc = "notify"
      BY <1>1, <1>3
    <3>3. s \in s3 => \A v \in Clients : s4'[v].pc = "push" /\ s4'[v].at = 1 => s4[v].pc = "push"
      BY <1>3, <2>3
    <3> QED
      BY <1>2, <1>7, <2>1, <3>1, <3>2, <3>3 DEF HeardBy
  <2> QED
    BY <2>2, <2>3
<1> QED
  BY <1>5, <1>8, <1>9, <1>10 DEF LogParts, HeardRight

\* Log: a new number, and nothing else.
LEMMA LogLog ==
  ASSUME LogParts, NEW w \in Clients, NEW to, Proceeds(w, to), ~Busy(w),
         s1' = s1, s3' = s3, s6' = s6, s7' = s7, s8' = s8, s9' = s9
  PROVE  LogParts'
<1>1. LogTypes
  BY DEF LogParts
<1>2. /\ s4' \in [Clients -> {G!Resting} \cup Underway] /\ s2' \in [G!At -> Nat \ {0}]
      /\ \A c \in G!At : s2'[c] >= s2[c]
      /\ \A v \in Clients \ {w} : s4'[v] = s4[v]
      /\ s4'[w] = to /\ to.pc # "push"
      /\ \/ to = G!Resting /\ s2' = s2 /\ to.pc = "rest"
         \/ /\ to \in Underway /\ to.pc = "notify" /\ to.event.id = s2[to.at] /\ s2'[to.at] = s2[to.at] + 1
            /\ to.at \in G!At /\ to.event \in Numbered
  BY <1>1, GoesOnly
<1>3. LogTypes'
  BY <1>1, <1>2 DEF LogTypes
<1>4. \A c \in G!At : s2[c] \in Nat /\ s2'[c] \in Nat /\ \A i \in DOMAIN s6[c] : s6[c][i].id \in Nat /\ s6[c][i].id < s2[c]
  <2>1. ASSUME NEW c \in G!At, NEW i \in DOMAIN s6[c] PROVE s6[c][i].id \in Nat
    <3>1. s6[c][i] \in Ledger
      BY <1>1, <2>1 DEF LogTypes
    <3> QED
      BY <3>1, LedgerIs
  <2> QED
    BY <1>1, <1>2, <2>1 DEF LogParts, LogTypes, NumbersRight
<1>5. \A v \in Clients \ {w} : Busy(v) => s4[v].at \in G!At /\ s4[v].event.id \in Nat /\ s4[v].event.id < s2[s4[v].at]
  BY <1>1, BusyIs DEF LogParts, NumbersRight
<1>6. NumbersRight'
  <2>1. \A c \in G!At : \A i \in DOMAIN s6[c] : s6[c][i].id < s2'[c]
    BY <1>2, <1>4
  <2>2. ASSUME NEW v \in Clients, Busy(v)', v # w
        PROVE  LET c == s4'[v].at IN
               /\ s4'[v].event.id < s2'[c]
               /\ \A i \in DOMAIN s6[c] : s6[c][i].id # s4'[v].event.id
               /\ \A u \in Clients : u # v /\ Busy(u)' /\ s4'[u].at = c => s4'[u].event.id # s4'[v].event.id
    <3>1. s4'[v] = s4[v] /\ Busy(v)
      BY <1>2, <2>2 DEF Busy
    <3>2. s4[v].at \in G!At /\ s4[v].event.id \in Nat /\ s4[v].event.id < s2[s4[v].at]
      BY <1>5, <2>2, <3>1
    <3>3. \A i \in DOMAIN s6[s4[v].at] : s6[s4[v].at][i].id # s4[v].event.id
      BY <3>1 DEF LogParts, NumbersRight
    <3>4. ASSUME NEW u \in Clients, u # v, Busy(u)', s4'[u].at = s4[v].at PROVE s4'[u].event.id # s4[v].event.id
      <4>1. CASE u = w
        <5>1. to.event.id = s2[to.at] /\ to.at = s4[v].at
          BY <1>2, <3>4, <4>1 DEF Busy
        <5> QED
          BY <1>2, <1>4, <3>2, <4>1, <5>1
      <4>2. CASE u # w
        BY <1>2, <3>1, <3>4, <4>2 DEF LogParts, NumbersRight, Busy
      <4> QED
        BY <4>1, <4>2
    <3> QED
      BY <1>2, <1>4, <3>1, <3>2, <3>3, <3>4
  <2>3. ASSUME Busy(w)'
        PROVE  LET c == s4'[w].at IN
               /\ s4'[w].event.id < s2'[c]
               /\ \A i \in DOMAIN s6[c] : s6[c][i].id # s4'[w].event.id
               /\ \A u \in Clients : u # w /\ Busy(u)' /\ s4'[u].at = c => s4'[u].event.id # s4'[w].event.id
    <3>1. /\ to \in Underway /\ to.event.id = s2[to.at] /\ s2'[to.at] = s2[to.at] + 1 /\ to.at \in G!At
      BY <1>2, <2>3 DEF Busy
    <3>2. ASSUME NEW u \in Clients, u # w, Busy(u)', s4'[u].at = to.at PROVE s4'[u].event.id # to.event.id
      <4>1. s4'[u] = s4[u] /\ Busy(u)
        BY <1>2, <3>2 DEF Busy
      <4> QED
        BY <1>4, <1>5, <3>1, <3>2, <4>1
    <3> QED
      BY <1>2, <1>4, <3>1, <3>2
  <2> QED
    BY <2>1, <2>2, <2>3 DEF NumbersRight
<1>7. BufferRight' /\ PolledRight' /\ StatsRight'
  BY DEF LogParts, BufferRight, PolledRight, G!NoneMissed, G!Overtaken, StatsRight
<1>8. ASSUME NEW s \in Subscribers PROVE HeardBy(s)'
  <2>1. HeardBy(s) /\ s7[s].got \in Seq(Nat)
    BY <1>1 DEF LogParts, HeardRight, LogTypes
  <2>2. 1 \in G!At
    BY CollectorsAre
  <2>3. \A i \in DOMAIN s7[s].got : s7[s].got[i] \in Nat /\ s7[s].got[i] < s2[1] /\ s7[s].got[i] < s2'[1]
    BY <1>2, <1>4, <2>1, <2>2 DEF HeardBy
  <2>4. ASSUME NEW v \in Clients, s4'[v].pc = "notify", s4'[v].at = 1, NEW i \in DOMAIN s7[s].got
        PROVE  s7[s].got[i] # s4'[v].event.id
    <3>1. CASE v = w
      <4>1. to.event.id = s2[1]
        BY <1>2, <2>4, <3>1
      <4> QED
        BY <1>2, <1>4, <2>2, <2>3, <3>1, <4>1
    <3>2. CASE v # w
      BY <1>2, <2>1, <2>4, <3>2 DEF HeardBy
    <3> QED
      BY <3>1, <3>2
  <2>5. \A v \in Clients : s4'[v].pc = "push" => s4'[v] = s4[v]
    BY <1>2
  <2> QED
    BY <2>1, <2>3, <2>4, <2>5 DEF HeardBy
<1> QED
  BY <1>3, <1>6, <1>7, <1>8 DEF LogParts, HeardRight

LEMMA NoLength ==
  ASSUME NEW V, NEW b \in Seq(V)
  PROVE  /\ Len(b) \in Nat /\ DOMAIN b = 1 .. Len(b)
         /\ (b = <<>>) <=> (Len(b) = 0)
         /\ Len(b) >= 1 => /\ Tail(b) \in Seq(V) /\ Len(Tail(b)) = Len(b) - 1
                          /\ \A i \in 1 .. Len(b) - 1 : Tail(b)[i] = b[i + 1]
<1>1. Len(b) \in Nat /\ DOMAIN b = 1 .. Len(b)
  OBVIOUS
<1>2. b = <<>> => Len(b) = 0
  OBVIOUS
<1>3. ASSUME Len(b) = 0 PROVE b = <<>>
  BY <1>3
<1>4. ASSUME Len(b) >= 1
      PROVE  Tail(b) \in Seq(V) /\ Len(Tail(b)) = Len(b) - 1 /\ \A i \in 1 .. Len(b) - 1 : Tail(b)[i] = b[i + 1]
  <2>1. b # <<>>
    BY <1>2, <1>4
  <2> QED
    BY <1>1, <2>1
<1> QED
  BY <1>1, <1>2, <1>3, <1>4

\* The end of what was taken, when one more is.
LEMMA EndGrows ==
  ASSUME NEW b \in Seq(Numbered), NEW p \in Seq(Ledger), NEW z, NEW capacity \in Nat, NEW x \in Numbered,
         NEW room, room = IF capacity < 1 THEN 1 ELSE capacity, EndOf(b, p, z, room),
         NEW rest, rest = IF Len(b) >= capacity /\ b # <<>> THEN Tail(b) ELSE b
  PROVE  Append(rest, x) \in Seq(Numbered) /\ EndOf(Append(rest, x), Append(p, x), z, room)
<1> DEFINE c == Append(rest, x)
           q == Append(p, x)
<1>1. /\ room \in Nat /\ room >= 1 /\ room >= capacity /\ (capacity < 1 => room = 1) /\ (capacity >= 1 => room = capacity)
  OBVIOUS
<1>a. Len(p) \in Nat /\ Len(b) \in Nat
  BY NoLength
<1>b. /\ z \in 0 .. Len(p)
      /\ Len(p) - z < room => Len(b) = Len(p) - z
      /\ Len(p) - z >= room => Len(b) = room
      /\ \A i \in 1 .. Len(b) : b[i] = p[Len(p) - Len(b) + i]
  BY DEF EndOf
<1>2. /\ z \in 0 .. Len(p) /\ Len(p) \in Nat /\ Len(b) \in Nat
      /\ Len(p) - z < room => Len(b) = Len(p) - z
      /\ Len(p) - z >= room => Len(b) = room
      /\ \A i \in 1 .. Len(b) : b[i] = p[Len(p) - Len(b) + i]
  BY <1>a, <1>b
<1>3. /\ Len(q) = Len(p) + 1 /\ q[Len(p) + 1] = x /\ \A i \in 1 .. Len(p) : q[i] = p[i]
  BY <1>a DEF Ledger
<1>4. x.id # 0
  BY NumberedIs
<1>5. (b # <<>>) <=> Len(b) >= 1
  BY <1>a, NoLength
<1>6. CASE Len(p) - z < room
  <2>1. rest = b
    <3>1. Len(b) < room
      BY <1>2, <1>6
    <3> QED
      BY <1>1, <1>2, <1>5, <3>1
  <2>2. Len(c) = Len(b) + 1 /\ c[Len(b) + 1] = x /\ (\A i \in 1 .. Len(b) : c[i] = b[i]) /\ c \in Seq(Numbered)
    BY <2>1
  <2> HIDE DEF c, q
  <2>3. (Len(q) - z < room => Len(c) = Len(q) - z) /\ (Len(q) - z >= room => Len(c) = room)
    <3>1. \A i, j, k, l, y, r \in Int : l = i + 1 /\ k = j + 1 /\ i - y < r /\ j = i - y
             => (l - y < r => k = l - y) /\ (l - y >= r => k = r)
      OBVIOUS
    <3>2. /\ Len(p) \in Int /\ Len(b) \in Int /\ Len(c) \in Int /\ Len(q) \in Int /\ z \in Int /\ room \in Int
          /\ Len(q) = Len(p) + 1 /\ Len(c) = Len(b) + 1 /\ Len(b) = Len(p) - z
      BY <1>1, <1>2, <1>3, <1>6, <2>2
    <3> QED
      BY <1>6, <3>1, <3>2
  <2>4. \A i \in 1 .. Len(c) : c[i] = q[Len(q) - Len(c) + i]
    <3>1. Len(q) - Len(c) = Len(p) - Len(b) /\ Len(p) - Len(b) >= 0
      BY <1>1, <1>2, <1>3, <1>6, <2>2
    <3>2. ASSUME NEW i \in 1 .. Len(b) PROVE c[i] = q[Len(q) - Len(c) + i]
      <4> DEFINE at == Len(p) - Len(b) + i
      <4>1. at \in 1 .. Len(p) /\ b[i] = p[at]
        BY <1>2, <3>1
      <4>2. Len(q) - Len(c) + i = at
        BY <3>1
      <4> HIDE DEF at
      <4> QED
        BY <1>3, <2>2, <4>1, <4>2
    <3>3. c[Len(c)] = q[Len(q) - Len(c) + Len(c)]
      BY <1>2, <1>3, <2>2
    <3>4. \A i \in 1 .. Len(c) : i \in 1 .. Len(b) \/ i = Len(c)
      BY <1>2, <2>2
    <3> QED
      BY <3>2, <3>3, <3>4
  <2>5. z \in 0 .. Len(q) /\ (z = 0 \/ q[z].id = 0) /\ \A i \in z + 1 .. Len(q) : q[i].id # 0
    BY <1>2, <1>3, <1>4 DEF EndOf
  <2> QED
    BY <2>2, <2>3, <2>4, <2>5 DEF EndOf, c, q
<1>7. CASE ~(Len(p) - z < room)
  <2>1. Len(b) = room /\ rest = Tail(b)
    BY <1>1, <1>2, <1>5, <1>7
  <2>2. /\ Len(c) = Len(b) /\ c[Len(b)] = x /\ (\A i \in 1 .. Len(b) - 1 : c[i] = b[i + 1]) /\ c \in Seq(Numbered)
    <3>1. /\ Tail(b) \in Seq(Numbered) /\ Len(Tail(b)) = Len(b) - 1 /\ \A i \in 1 .. Len(b) - 1 : Tail(b)[i] = b[i + 1]
      BY <1>1, <2>1, NoLength
    <3> DEFINE t == Tail(b)
    <3> HIDE DEF t
    <3>2. c = Append(t, x) /\ t \in Seq(Numbered) /\ Len(t) = Len(b) - 1 /\ \A i \in 1 .. Len(b) - 1 : t[i] = b[i + 1]
      BY <2>1, <3>1 DEF t
    <3> HIDE DEF c
    <3> QED
      BY <1>1, <1>2, <2>1, <3>2
  <2> HIDE DEF c, q
  <2>3. (Len(q) - z < room => Len(c) = Len(q) - z) /\ (Len(q) - z >= room => Len(c) = room)
    BY <1>1, <1>2, <1>3, <1>7, <2>1, <2>2
  <2>4. \A i \in 1 .. Len(c) : c[i] = q[Len(q) - Len(c) + i]
    <3>1. Len(q) - Len(c) = Len(p) - Len(b) + 1 /\ Len(p) - Len(b) >= 0
      BY <1>1, <1>2, <1>3, <1>7, <2>1, <2>2
    <3>2. ASSUME NEW i \in 1 .. Len(b) - 1 PROVE c[i] = q[Len(q) - Len(c) + i]
      <4> DEFINE j == i + 1
                 at == Len(p) - Len(b) + j
      <4>1. j \in 1 .. Len(b) /\ at \in 1 .. Len(p)
        BY <1>2, <3>1
      <4> HIDE DEF j
      <4>2. b[j] = p[at]
        BY <1>2, <4>1
      <4>3. Len(q) - Len(c) + i = at
        <5>1. at = Len(p) - Len(b) + (i + 1)
          BY DEF j
        <5> HIDE DEF at
        <5> QED
          <6>1. \A k, l, m, n, y \in Int : l - k = m - n + 1 => l - k + y = m - n + (y + 1)
            OBVIOUS
          <6>2. Len(q) \in Int /\ Len(c) \in Int /\ Len(p) \in Int /\ Len(b) \in Int /\ i \in Int
            BY <1>2, <1>3, <2>2
          <6> QED
            BY <3>1, <5>1, <6>1, <6>2
      <4> HIDE DEF at
      <4>4. c[i] = b[j]
        BY <2>2 DEF j
      <4> QED
        BY <1>3, <4>1, <4>2, <4>3, <4>4
    <3>3. c[Len(c)] = q[Len(q) - Len(c) + Len(c)]
      BY <1>2, <1>3, <2>2
    <3>4. \A i \in 1 .. Len(c) : i \in 1 .. Len(b) - 1 \/ i = Len(c)
      BY <1>2, <2>2
    <3> QED
      BY <3>2, <3>3, <3>4
  <2>5. z \in 0 .. Len(q) /\ (z = 0 \/ q[z].id = 0) /\ \A i \in z + 1 .. Len(q) : q[i].id # 0
    BY <1>2, <1>3, <1>4 DEF EndOf
  <2> QED
    BY <2>2, <2>3, <2>4, <2>5 DEF EndOf, c, q
<1> QED
  BY <1>6, <1>7

LEMMA LogPush ==
  ASSUME LogParts, NEW w \in Clients, G!Push(w)
  PROVE  LogParts'
<1> DEFINE c == s4[w].at
           x == s4[w].event
           to == G!Arrive([x EXCEPT !.id = 0], c + 1)
<1>1. /\ LogTypes /\ NumbersRight /\ Busy(w) /\ s4[w].pc = "push" /\ c \in G!At /\ x \in Numbered /\ x.id \in Nat \ {0}
  BY BusyIs DEF LogParts, G!Push, Busy
<1>2. /\ s1' = [s1 EXCEPT ![c] = G!Pushed(c, x)] /\ s6' = [s6 EXCEPT ![c] = Append(@, x)]
      /\ s4' = [s4 EXCEPT ![w] = to] /\ s2' = G!Counted(to)
      /\ s9' = [s9 EXCEPT !.quiet = @ /\ c # 1]
      /\ s3' = s3 /\ s7' = s7 /\ s8' = s8
  BY DEF G!Push
<1>3. Proceeds(w, to)
  <2>1. c + 1 \in Nat
    BY <1>1, CollectorsAre
  <2>2. to = G!Resting \/ \E d \in G!At : to = [pc |-> "notify", at |-> d, event |-> [[x EXCEPT !.id = 0] EXCEPT !.id = s2[d]]]
    BY <2>1, ArriveIs
  <2>3. \A d \in G!At : [[x EXCEPT !.id = 0] EXCEPT !.id = s2[d]] \in Numbered
                        /\ [[x EXCEPT !.id = 0] EXCEPT !.id = s2[d]].id = s2[d]
    BY <1>1, NumberedIs DEF LogTypes
  <2> HIDE DEF to, x, c
  <2> QED
    BY <1>2, <2>2, <2>3 DEF Proceeds
<1> HIDE DEF to
<1>4. /\ s4' \in [Clients -> {G!Resting} \cup Underway] /\ s2' \in [G!At -> Nat \ {0}]
      /\ \A d \in G!At : s2'[d] >= s2[d]
      /\ \A v \in Clients \ {w} : s4'[v] = s4[v]
      /\ s4'[w] = to /\ to.pc # "push"
      /\ \/ to = G!Resting /\ s2' = s2 /\ to.pc = "rest"
         \/ /\ to \in Underway /\ to.pc = "notify" /\ to.event.id = s2[to.at] /\ s2'[to.at] = s2[to.at] + 1
            /\ to.at \in G!At /\ to.event \in Numbered
  BY <1>1, <1>3, GoesOnly
<1>5. s1[c] \in Seq(Numbered) /\ s6[c] \in Seq(Ledger) /\ x \in Ledger
  BY <1>1 DEF LogTypes, Ledger
<1>6. /\ Len(s6'[c]) = Len(s6[c]) + 1 /\ s6'[c][Len(s6[c]) + 1] = x /\ \A i \in 1 .. Len(s6[c]) : s6'[c][i] = s6[c][i]
      /\ \A d \in G!At \ {c} : s6'[d] = s6[d] /\ s1'[d] = s1[d]
      /\ s6'[c] = Append(s6[c], x) /\ s1'[c] = G!Pushed(c, x)
      /\ s6' \in [G!At -> Seq(Ledger)] /\ Len(s6[c]) \in Nat
      /\ DOMAIN s6[c] = 1 .. Len(s6[c]) /\ DOMAIN s6'[c] = 1 .. Len(s6[c]) + 1
  <2>1. s6'[c] = Append(s6[c], x) /\ s1'[c] = G!Pushed(c, x) /\ \A d \in G!At \ {c} : s6'[d] = s6[d] /\ s1'[d] = s1[d]
    BY <1>1, <1>2 DEF LogTypes
  <2>2. Append(s6[c], x) \in Seq(Ledger)
    BY <1>5
  <2>3. s6' \in [G!At -> Seq(Ledger)]
    BY <1>1, <1>2, <2>2 DEF LogTypes
  <2> HIDE DEF x, c
  <2> QED
    BY <1>5, <2>1, <2>3
<1>7. \A d \in G!At : \A i \in DOMAIN s6'[d] : (i \in DOMAIN s6[d] /\ s6'[d][i] = s6[d][i]) \/ (d = c /\ s6'[d][i] = x)
  <2>1. \A i \in 1 .. Len(s6[c]) + 1 : i \in 1 .. Len(s6[c]) \/ i = Len(s6[c]) + 1
    BY <1>6
  <2>2. \A d \in G!At \ {c} : s6'[d] = s6[d]
    BY <1>6
  <2>3. \A i \in DOMAIN s6'[c] : (i \in DOMAIN s6[c] /\ s6'[c][i] = s6[c][i]) \/ s6'[c][i] = x
    BY <1>6, <2>1
  <2> HIDE DEF c, x
  <2>4. ASSUME NEW d \in G!At, NEW i \in DOMAIN s6'[d]
        PROVE  (i \in DOMAIN s6[d] /\ s6'[d][i] = s6[d][i]) \/ (d = c /\ s6'[d][i] = x)
    <3>1. CASE d = c
      BY <2>3, <2>4, <3>1
    <3>2. CASE d # c
      BY <2>2, <2>4, <3>2
    <3> QED
      BY <3>1, <3>2
  <2> QED
    BY <2>4
<1>8. \A d \in G!At : \A i \in DOMAIN s6[d] : i \in DOMAIN s6'[d] /\ s6'[d][i] = s6[d][i]
  <2> HIDE DEF c, x
  <2>1. ASSUME NEW d \in G!At, NEW i \in DOMAIN s6[d] PROVE i \in DOMAIN s6'[d] /\ s6'[d][i] = s6[d][i]
    <3>1. CASE d = c
      BY <1>6, <2>1, <3>1
    <3>2. CASE d # c
      BY <1>6, <2>1, <3>2
    <3> QED
      BY <3>1, <3>2
  <2> QED
    BY <2>1
<1>9. \A d \in G!At : s2[d] \in Nat /\ s2'[d] \in Nat /\ \A i \in DOMAIN s6[d] : s6[d][i].id \in Nat /\ s6[d][i].id < s2[d]
  <2>1. ASSUME NEW d \in G!At, NEW i \in DOMAIN s6[d] PROVE s6[d][i].id \in Nat
    <3>1. s6[d][i] \in Ledger
      BY <1>1, <2>1 DEF LogTypes
    <3> QED
      BY <3>1, LedgerIs
  <2> QED
    BY <1>1, <1>4, <2>1 DEF LogTypes, NumbersRight
<1>10. BufferRight' /\ s1'[c] \in Seq(Numbered)
  <2>1. PICK z \in Nat : EndOf(s1[c], s6[c], z, RoomOf(c))
    BY <1>1 DEF LogParts, BufferRight
  <2>2. Collectors[c].capacity \in Nat
    BY <1>1, CollectorsAre
  <2>3. RoomOf(c) = IF Collectors[c].capacity < 1 THEN 1 ELSE Collectors[c].capacity
    BY DEF RoomOf
  <2> DEFINE rest == IF Len(s1[c]) >= Collectors[c].capacity /\ s1[c] # <<>> THEN Tail(s1[c]) ELSE s1[c]
  <2>4. s1'[c] = Append(rest, x)
    BY <1>6 DEF G!Pushed
  <2>5. s1'[c] \in Seq(Numbered) /\ EndOf(s1'[c], s6'[c], z, RoomOf(c))
    <3>1. Append(rest, x) \in Seq(Numbered) /\ EndOf(Append(rest, x), Append(s6[c], x), z, RoomOf(c))
      <4> HIDE DEF c, x
      <4> QED
        BY <1>1, <1>5, <2>1, <2>2, <2>3, EndGrows
    <3> QED
      BY <1>6, <2>4, <3>1
  <2> QED
    BY <1>6, <2>5 DEF LogParts, BufferRight
<1>11. LogTypes'
  <2>1. s1' \in [G!At -> Seq(Numbered)]
    BY <1>1, <1>2, <1>6, <1>10 DEF LogTypes
  <2>2. s9' \in [pc : 0 .. 6, by_level : Seq(Nat), total : Nat, quiet : BOOLEAN]
    BY <1>1, <1>2 DEF LogTypes
  <2> QED
    BY <1>1, <1>2, <1>4, <1>6, <2>1, <2>2 DEF LogTypes
<1>12. \A v \in Clients \ {w} : Busy(v)' <=> Busy(v)
  BY <1>4 DEF Busy
<1>13. \A v \in Clients : Busy(v) => s4[v].at \in G!At /\ s4[v].event.id \in Nat /\ s4[v].event.id < s2[s4[v].at]
  BY <1>1, BusyIs DEF NumbersRight
<1>14. NumbersRight'
  <2>1. ASSUME NEW d \in G!At, NEW i \in DOMAIN s6'[d] PROVE s6'[d][i].id < s2'[d]
    BY <1>1, <1>4, <1>7, <1>9, <1>13
  <2>2. ASSUME NEW v \in Clients, Busy(v)', v # w
        PROVE  LET d == s4'[v].at IN
               /\ s4'[v].event.id < s2'[d]
               /\ \A i \in DOMAIN s6'[d] : s6'[d][i].id # s4'[v].event.id
               /\ \A u \in Clients : u # v /\ Busy(u)' /\ s4'[u].at = d => s4'[u].event.id # s4'[v].event.id
    <3>1. s4'[v] = s4[v] /\ Busy(v)
      BY <1>4, <1>12, <2>2
    <3>2. s4[v].at \in G!At /\ s4[v].event.id \in Nat /\ s4[v].event.id < s2[s4[v].at]
      BY <1>13, <3>1
    <3>3. \A i \in DOMAIN s6'[s4[v].at] : s6'[s4[v].at][i].id # s4[v].event.id
      <4>1. \A i \in DOMAIN s6[s4[v].at] : s6[s4[v].at][i].id # s4[v].event.id
        BY <1>1, <3>1 DEF NumbersRight
      <4>2. s4[v].at = c => x.id # s4[v].event.id
        BY <1>1, <2>2, <3>1 DEF NumbersRight
      <4> QED
        BY <1>7, <3>2, <4>1, <4>2
    <3>4. ASSUME NEW u \in Clients, u # v, Busy(u)', s4'[u].at = s4[v].at PROVE s4'[u].event.id # s4[v].event.id
      <4>1. CASE u = w
        <5>1. to.event.id = s2[to.at] /\ to.at = s4[v].at
          BY <1>4, <3>4, <4>1 DEF Busy
        <5> QED
          BY <1>4, <1>9, <3>2, <4>1, <5>1
      <4>2. CASE u # w
        BY <1>1, <1>4, <3>1, <3>4, <4>2 DEF NumbersRight, Busy
      <4> QED
        BY <4>1, <4>2
    <3> QED
      BY <1>4, <1>9, <3>1, <3>2, <3>3, <3>4
  <2>3. ASSUME Busy(w)'
        PROVE  LET d == s4'[w].at IN
               /\ s4'[w].event.id < s2'[d]
               /\ \A i \in DOMAIN s6'[d] : s6'[d][i].id # s4'[w].event.id
               /\ \A u \in Clients : u # w /\ Busy(u)' /\ s4'[u].at = d => s4'[u].event.id # s4'[w].event.id
    <3>1. /\ to \in Underway /\ to.event.id = s2[to.at] /\ s2'[to.at] = s2[to.at] + 1 /\ to.at \in G!At
      BY <1>4, <2>3 DEF Busy
    <3>2. ASSUME NEW u \in Clients, u # w, Busy(u)', s4'[u].at = to.at PROVE s4'[u].event.id # to.event.id
      <4>1. s4'[u] = s4[u] /\ Busy(u)
        BY <1>4, <1>12, <3>2
      <4> QED
        BY <1>9, <1>13, <3>1, <3>2, <4>1
    <3>3. \A i \in DOMAIN s6'[to.at] : s6'[to.at][i].id # to.event.id
      BY <1>1, <1>7, <1>9, <1>13, <3>1
    <3> QED
      BY <1>4, <1>9, <3>1, <3>2, <3>3
  <2> QED
    BY <2>1, <2>2, <2>3 DEF NumbersRight
<1>15. PolledRight'
  <2>1. 1 \in G!At
    BY CollectorsAre
  <2>2. s8.last = 0 \/ \E i \in DOMAIN s6'[1] : s6'[1][i].id = s8.last
    BY <1>8, <2>1 DEF LogParts, PolledRight
  <2> DEFINE Late(p, n) == \E i, j \in DOMAIN p : i < j /\ p[j].id = n /\ p[i].id > n
  <2>3. ASSUME NEW n, Late(s6[1], n) PROVE Late(s6'[1], n)
    <3>1. PICK i, j \in DOMAIN s6[1] : i < j /\ s6[1][j].id = n /\ s6[1][i].id > n
      BY <2>3
    <3> QED
      BY <1>8, <2>1, <3>1
  <2>4. ASSUME NEW i \in DOMAIN s1'[1], s1'[1][i].id <= s8.last
        PROVE  s1'[1][i].id \in s8.got \/ Late(s6'[1], s1'[1][i].id)
    <3> DEFINE y == s1'[1][i]
    <3>1. CASE \E k \in DOMAIN s1[1] : s1[1][k] = y
      <4>1. y.id \in s8.got \/ Late(s6[1], y.id)
        BY <2>4, <3>1 DEF LogParts, PolledRight, G!NoneMissed, G!Overtaken
      <4> HIDE DEF Late
      <4> QED
        BY <2>3, <4>1
    <3>2. CASE c = 1 /\ y = x
      <4>1. s8.last \in Nat
        BY <1>1 DEF LogTypes
      <4>2. PICK k \in DOMAIN s6[1] : s6[1][k].id = s8.last
        BY <1>1, <2>4, <3>2, <4>1 DEF LogParts, PolledRight
      <4>3. s6[1][k].id # x.id
        BY <1>1, <3>2, <4>2 DEF NumbersRight
      <4>4. s6[1][k].id > x.id
        BY <1>1, <2>4, <3>2, <4>1, <4>2, <4>3
      <4>5. /\ k \in DOMAIN s6'[1] /\ s6'[1][k] = s6[1][k] /\ Len(s6[1]) + 1 \in DOMAIN s6'[1] /\ k < Len(s6[1]) + 1
            /\ s6'[1][Len(s6[1]) + 1] = x
        BY <1>6, <1>8, <2>1, <3>2
      <4>6. Late(s6'[1], x.id)
        <5> HIDE DEF x, c, y
        <5> QED
          BY <4>2, <4>4, <4>5
      <4> QED
        BY <3>2, <4>6
    <3>3. (\E k \in DOMAIN s1[1] : s1[1][k] = y) \/ (c = 1 /\ y = x)
      <4>1. CASE c # 1
        BY <1>6, <2>1, <4>1
      <4>2. CASE c = 1
        <5> DEFINE b == s1[1]
                   e == IF Len(b) >= Collectors[c].capacity /\ b # <<>> THEN Tail(b) ELSE b
        <5>1. b \in Seq(Numbered) /\ s1'[1] = Append(e, x)
          BY <1>1, <1>6, <2>1, <4>2 DEF LogTypes, G!Pushed
        <5>2. e \in Seq(Numbered) /\ \A k \in 1 .. Len(e) : \E m \in DOMAIN b : b[m] = e[k]
          <6>1. CASE e = b
            BY <5>1, <6>1
          <6>2. CASE e = Tail(b) /\ b # <<>>
            <7>1. Len(b) >= 1 /\ Len(b) \in Nat /\ DOMAIN b = 1 .. Len(b)
              BY <5>1, <6>2, NoLength
            <7>2. e \in Seq(Numbered) /\ Len(e) = Len(b) - 1 /\ \A k \in 1 .. Len(b) - 1 : e[k] = b[k + 1]
              BY <5>1, <6>2, <7>1, NoLength
            <7>3. \A k \in 1 .. Len(b) - 1 : k + 1 \in DOMAIN b
              BY <7>1
            <7> HIDE DEF e, b
            <7> QED
              BY <7>2, <7>3
          <6> QED
            BY <6>1, <6>2
        <5>3. \A k \in DOMAIN s1'[1] : (k \in 1 .. Len(e) /\ s1'[1][k] = e[k]) \/ s1'[1][k] = x
          <6> HIDE DEF e, b, x
          <6> QED
            BY <1>1, <5>1, <5>2 DEF x
        <5> HIDE DEF e, b, x
        <5> QED
          BY <2>4, <4>2, <5>2, <5>3 DEF b
      <4> QED
        BY <4>1, <4>2
    <3> QED
      BY <3>1, <3>2, <3>3
  <2> QED
    BY <1>2, <2>2, <2>4 DEF PolledRight, G!NoneMissed, G!Overtaken
<1>16. ASSUME NEW s \in Subscribers PROVE HeardBy(s)'
  <2>1. HeardBy(s) /\ s7[s].got \in Seq(Nat) /\ 1 \in G!At /\ s7'[s] = s7[s]
    BY <1>1, <1>2, CollectorsAre DEF LogParts, HeardRight, LogTypes
  <2>2. \A i \in DOMAIN s7[s].got : s7[s].got[i] \in Nat /\ s7[s].got[i] < s2[1] /\ s7[s].got[i] < s2'[1]
    BY <1>4, <1>9, <2>1 DEF HeardBy
  <2>3. ASSUME NEW v \in Clients, s4'[v].pc = "notify", s4'[v].at = 1, NEW i \in DOMAIN s7[s].got
        PROVE  s7[s].got[i] # s4'[v].event.id
    <3>1. CASE v = w
      <4>1. to.event.id = s2[1]
        BY <1>4, <2>3, <3>1
      <4> QED
        BY <1>4, <1>9, <2>1, <2>2, <3>1, <4>1
    <3>2. CASE v # w
      BY <1>4, <2>1, <2>3, <3>2 DEF HeardBy
    <3> QED
      BY <3>1, <3>2
  <2>4. \A v \in Clients : s4'[v].pc = "push" => s4'[v] = s4[v]
    BY <1>4
  <2>5. ASSUME s \in s3, NEW k \in DOMAIN s6'[1], s6'[1][k].id >= s7[s].since
        PROVE  \E i \in DOMAIN s7[s].got : s7[s].got[i] = s6'[1][k].id
    <3>1. CASE k \in DOMAIN s6[1] /\ s6'[1][k] = s6[1][k]
      BY <2>1, <2>5, <3>1 DEF HeardBy
    <3>2. CASE c = 1 /\ s6'[1][k] = x
      BY <1>1, <2>1, <2>5, <3>2 DEF HeardBy
    <3> QED
      BY <1>7, <2>1, <3>1, <3>2
  <2> QED
    BY <1>2, <2>1, <2>2, <2>3, <2>4, <2>5 DEF HeardBy
<1>17. StatsRight'
  <2>1. s9'.by_level = s9.by_level /\ s9'.pc = s9.pc /\ s9'.total = s9.total /\ (s9'.quiet => s9.quiet /\ c # 1)
    BY <1>1, <1>2 DEF LogTypes
  <2>2. c # 1 => s1'[1] = s1[1]
    BY <1>6, CollectorsAre
  <2> HIDE DEF c
  <2> QED
    BY <2>1, <2>2 DEF LogParts, StatsRight
<1> QED
  BY <1>10, <1>11, <1>14, <1>15, <1>16, <1>17 DEF LogParts, HeardRight

LEMMA LogSubscribes ==
  ASSUME LogParts, NEW s \in Subscribers, G!Subscribe(s) \/ G!Unsubscribe(s)
  PROVE  LogParts'
<1>1. /\ LogTypes /\ s1' = s1 /\ s2' = s2 /\ s4' = s4 /\ s6' = s6 /\ s8' = s8 /\ s9' = s9
      /\ 1 \in G!At /\ s2[1] \in Nat \ {0}
  BY CollectorsAre DEF LogParts, LogTypes, G!Subscribe, G!Unsubscribe
<1>2. /\ s3' \subseteq Subscribers /\ (\A u \in Subscribers \ {s} : s7'[u] = s7[u] /\ (u \in s3' => u \in s3))
      /\ s7'[s].got = s7[s].got /\ s7' \in [Subscribers -> [got : Seq(Nat), since : Nat]]
      /\ s \in s3' => s7'[s].since = s2[1]
  <2>1. CASE G!Unsubscribe(s)
    BY <1>1, <2>1 DEF LogTypes, G!Unsubscribe
  <2>2. CASE G!Subscribe(s)
    <3>1. s3' = s3 \cup {s} /\ s7' = [s7 EXCEPT ![s].since = s2[1]] /\ s7 \in [Subscribers -> [got : Seq(Nat), since : Nat]]
      BY <1>1, <2>2 DEF LogTypes, G!Subscribe
    <3>2. s7'[s] = [s7[s] EXCEPT !.since = s2[1]] /\ \A u \in Subscribers \ {s} : s7'[u] = s7[u]
      BY <3>1
    <3>3. s7'[s].since = s2[1] /\ s7'[s].got = s7[s].got /\ s7'[s] \in [got : Seq(Nat), since : Nat]
      BY <1>1, <3>1, <3>2
    <3>4. s7' \in [Subscribers -> [got : Seq(Nat), since : Nat]]
      BY <3>1, <3>3
    <3> QED
      BY <1>1, <3>1, <3>2, <3>3, <3>4 DEF LogTypes
  <2> QED
    BY <2>1, <2>2
<1>3. LogTypes' /\ NumbersRight' /\ BufferRight' /\ PolledRight' /\ StatsRight'
  <2>1. LogTypes'
    BY <1>1, <1>2 DEF LogTypes
  <2>2. NumbersRight'
    BY <1>1 DEF LogParts, NumbersRight, Busy
  <2>3. BufferRight' /\ PolledRight' /\ StatsRight'
    BY <1>1 DEF LogParts, BufferRight, PolledRight, G!NoneMissed, G!Overtaken, StatsRight
  <2> QED
    BY <2>1, <2>2, <2>3
<1>4. ASSUME NEW u \in Subscribers \ {s} PROVE HeardBy(u)'
  <2>1. HeardBy(u) /\ s7'[u] = s7[u] /\ (u \in s3' => u \in s3)
    BY <1>2 DEF LogParts, HeardRight
  <2> QED
    BY <1>1, <2>1 DEF HeardBy
<1>5. HeardBy(s)'
  <2>1. ASSUME NEW k \in DOMAIN s6[1] PROVE s6[1][k].id \in Nat /\ s6[1][k].id < s2[1]
    <3>1. s6[1][k] \in Ledger
      BY <1>1, <2>1 DEF LogTypes
    <3> QED
      BY <1>1, <2>1, <3>1, LedgerIs DEF LogParts, NumbersRight
  <2>2. ASSUME NEW w \in Clients, s4[w].pc = "push", s4[w].at = 1 PROVE s4[w].event.id \in Nat /\ s4[w].event.id < s2[1]
    BY <1>1, <2>2, BusyIs DEF LogParts, NumbersRight, Busy
  <2>3. HeardBy(s)
    BY DEF LogParts, HeardRight
  <2>4. s \in s3' =>
          /\ s7'[s].since >= 1
          /\ \A w \in Clients : ~(s4[w].pc = "push" /\ s4[w].at = 1 /\ s4[w].event.id >= s7'[s].since)
          /\ \A k \in DOMAIN s6[1] : ~(s6[1][k].id >= s7'[s].since)
    BY <1>1, <1>2, <2>1, <2>2
  <2> QED
    BY <1>1, <1>2, <2>3, <2>4 DEF HeardBy
<1> QED
  BY <1>3, <1>4, <1>5 DEF LogParts, HeardRight

LEMMA LogClear ==
  ASSUME LogParts, G!Clear
  PROVE  LogParts'
<1> DEFINE mark == [id |-> 0]
<1>1. /\ LogTypes /\ 1 \in G!At /\ s1' = [s1 EXCEPT ![1] = <<>>] /\ s6' = [s6 EXCEPT ![1] = Append(@, mark)]
      /\ s9' = [s9 EXCEPT !.quiet = FALSE] /\ s2' = s2 /\ s3' = s3 /\ s4' = s4 /\ s7' = s7 /\ s8' = s8
  BY CollectorsAre DEF LogParts, G!Clear
<1>2. mark.id = 0 /\ mark \in Ledger
  BY DEF Ledger
<1> HIDE DEF mark
<1>3. /\ s6[1] \in Seq(Ledger) /\ s6'[1] = Append(s6[1], mark) /\ s1'[1] = <<>> /\ s2[1] \in Nat \ {0}
      /\ \A d \in G!At \ {1} : s6'[d] = s6[d] /\ s1'[d] = s1[d]
  BY <1>1 DEF LogTypes
<1>4. /\ s6'[1] \in Seq(Ledger) /\ Len(s6'[1]) = Len(s6[1]) + 1 /\ Len(s6[1]) \in Nat /\ s6'[1][Len(s6[1]) + 1] = mark
      /\ \A i \in 1 .. Len(s6[1]) : s6'[1][i] = s6[1][i]
      /\ DOMAIN s6[1] = 1 .. Len(s6[1]) /\ DOMAIN s6'[1] = 1 .. Len(s6[1]) + 1
  BY <1>2, <1>3
<1>5. ASSUME NEW d \in G!At, NEW i \in DOMAIN s6'[d] PROVE (i \in DOMAIN s6[d] /\ s6'[d][i] = s6[d][i]) \/ s6'[d][i].id = 0
  <2>1. CASE d = 1
    <3>1. i \in 1 .. Len(s6[1]) \/ i = Len(s6[1]) + 1
      BY <1>4, <1>5, <2>1
    <3> QED
      BY <1>2, <1>4, <2>1, <3>1
  <2>2. CASE d # 1
    BY <1>3, <1>5, <2>2
  <2> QED
    BY <2>1, <2>2
<1>6. ASSUME NEW d \in G!At, NEW i \in DOMAIN s6[d] PROVE i \in DOMAIN s6'[d] /\ s6'[d][i] = s6[d][i]
  <2>1. CASE d = 1
    BY <1>4, <1>6, <2>1
  <2>2. CASE d # 1
    BY <1>3, <1>6, <2>2
  <2> QED
    BY <2>1, <2>2
<1>7. LogTypes'
  <2>1. s6' \in [G!At -> Seq(Ledger)]
    BY <1>1, <1>3, <1>4 DEF LogTypes
  <2>2. s1' \in [G!At -> Seq(Numbered)]
    BY <1>1 DEF LogTypes
  <2>3. s9' \in [pc : 0 .. 6, by_level : Seq(Nat), total : Nat, quiet : BOOLEAN]
    BY <1>1 DEF LogTypes
  <2> QED
    BY <1>1, <2>1, <2>2, <2>3 DEF LogTypes
<1>8. NumbersRight'
  <2>1. ASSUME NEW d \in G!At, NEW i \in DOMAIN s6'[d] PROVE s6'[d][i].id < s2[d]
    <3>1. s2[d] \in Nat \ {0}
      BY <1>1 DEF LogTypes
    <3> QED
      BY <1>5, <2>1, <3>1 DEF LogParts, NumbersRight
  <2>2. ASSUME NEW w \in Clients, Busy(w)
        PROVE  LET c == s4[w].at IN
               /\ s4[w].event.id < s2[c]
               /\ \A i \in DOMAIN s6'[c] : s6'[c][i].id # s4[w].event.id
               /\ \A v \in Clients : v # w /\ Busy(v) /\ s4[v].at = c => s4[v].event.id # s4[w].event.id
    <3>1. s4[w].at \in G!At /\ s4[w].event.id \in Nat \ {0}
      BY <1>1, <2>2, BusyIs
    <3>2. /\ s4[w].event.id < s2[s4[w].at]
          /\ \A i \in DOMAIN s6[s4[w].at] : s6[s4[w].at][i].id # s4[w].event.id
          /\ \A v \in Clients : v # w /\ Busy(v) /\ s4[v].at = s4[w].at => s4[v].event.id # s4[w].event.id
      BY <2>2 DEF LogParts, NumbersRight
    <3> QED
      BY <1>5, <3>1, <3>2
  <2> QED
    BY <1>1, <2>1, <2>2 DEF NumbersRight, Busy
<1>9. BufferRight'
  <2>1. EndOf(s1'[1], s6'[1], Len(s6[1]) + 1, RoomOf(1))
    <3>1. RoomOf(1) \in Nat /\ RoomOf(1) >= 1
      BY CollectorsAre DEF RoomOf
    <3> DEFINE z == Len(s6[1]) + 1
    <3>2. z \in Nat /\ Len(s1'[1]) = 0 /\ Len(s6'[1]) = z /\ s6'[1][z].id = 0
      BY <1>2, <1>3, <1>4
    <3> HIDE DEF z
    <3>3. z \in 0 .. z /\ z - z = 0 /\ (\A i \in z + 1 .. z : FALSE) /\ (\A i \in 1 .. 0 : FALSE)
      BY <3>2
    <3>4. EndOf(s1'[1], s6'[1], z, RoomOf(1))
      BY <3>1, <3>2, <3>3 DEF EndOf
    <3> QED
      BY <3>4 DEF z
  <2>2. Len(s6[1]) + 1 \in Nat
    BY <1>4
  <2>3. ASSUME NEW c \in G!At PROVE \E z \in Nat : EndOf(s1'[c], s6'[c], z, RoomOf(c))
    <3>1. CASE c = 1
      BY <2>1, <2>2, <3>1
    <3>2. CASE c # 1
      BY <1>3, <2>3, <3>2 DEF LogParts, BufferRight
    <3> QED
      BY <3>1, <3>2
  <2> QED
    BY <2>3 DEF BufferRight, RoomOf
<1>10. PolledRight'
  <2>1. s8.last = 0 \/ \E i \in DOMAIN s6'[1] : s6'[1][i].id = s8.last
    BY <1>1, <1>6 DEF LogParts, PolledRight
  <2>2. DOMAIN s1'[1] = {}
    BY <1>3
  <2> QED
    BY <1>1, <2>1, <2>2 DEF PolledRight, G!NoneMissed
<1>11. ASSUME NEW s \in Subscribers PROVE HeardBy(s)'
  <2>1. HeardBy(s) /\ s7[s].since \in Nat
    BY <1>1 DEF LogParts, HeardRight, LogTypes
  <2>2. ASSUME s \in s3, NEW k \in DOMAIN s6'[1], s6'[1][k].id >= s7[s].since
        PROVE  \E i \in DOMAIN s7[s].got : s7[s].got[i] = s6'[1][k].id
    <3>1. k \in DOMAIN s6[1] /\ s6'[1][k] = s6[1][k]
      BY <1>1, <1>5, <2>1, <2>2 DEF HeardBy
    <3> QED
      BY <2>1, <2>2, <3>1 DEF HeardBy
  <2> QED
    BY <1>1, <2>1, <2>2 DEF HeardBy
<1>12. StatsRight'
  <2>1. s9'.by_level = s9.by_level /\ s9'.pc = s9.pc /\ s9'.total = s9.total /\ s9'.quiet = FALSE
    BY <1>1 DEF LogTypes
  <2> QED
    BY <2>1 DEF LogParts, StatsRight
<1> QED
  BY <1>7, <1>8, <1>9, <1>10, <1>11, <1>12 DEF LogParts, HeardRight

LEMMA LogPoll ==
  ASSUME LogParts, G!Poll
  PROVE  LogParts'
<1> DEFINE new == G!Since(s8.last)
<1>1. /\ LogTypes /\ 1 \in G!At /\ new # {} /\ s8' = [last |-> G!Max(new), got |-> s8.got \cup new]
      /\ s1' = s1 /\ s2' = s2 /\ s3' = s3 /\ s4' = s4 /\ s6' = s6 /\ s7' = s7 /\ s9' = s9
  BY CollectorsAre DEF LogParts, G!Poll
<1>2. s1[1] \in Seq(Numbered) /\ s6[1] \in Seq(Ledger) /\ s8.last \in Nat /\ s8.got \in SUBSET Nat /\ s2[1] \in Nat
  BY <1>1 DEF LogTypes
<1>3. \A k \in DOMAIN s1[1] : \E i \in DOMAIN s6[1] : s6[1][i] = s1[1][k]
  <2>1. PICK z \in Nat : EndOf(s1[1], s6[1], z, RoomOf(1))
    BY <1>1 DEF LogParts, BufferRight
  <2>2. /\ Len(s6[1]) \in Nat /\ DOMAIN s6[1] = 1 .. Len(s6[1]) /\ Len(s1[1]) \in Nat /\ DOMAIN s1[1] = 1 .. Len(s1[1])
        /\ RoomOf(1) \in Nat
    <3>1. Len(s6[1]) \in Nat /\ DOMAIN s6[1] = 1 .. Len(s6[1])
      BY <1>2, NoLength
    <3>2. Len(s1[1]) \in Nat /\ DOMAIN s1[1] = 1 .. Len(s1[1])
      BY <1>2, NoLength
    <3> QED
      BY <3>1, <3>2, CollectorsAre DEF RoomOf
  <2>3. /\ z <= Len(s6[1]) /\ Len(s1[1]) <= Len(s6[1]) - z
        /\ \A i \in 1 .. Len(s1[1]) : s1[1][i] = s6[1][Len(s6[1]) - Len(s1[1]) + i]
    <3>1. /\ z \in 0 .. Len(s6[1]) /\ (Len(s6[1]) - z < RoomOf(1) => Len(s1[1]) = Len(s6[1]) - z)
          /\ Len(s6[1]) - z >= RoomOf(1) => Len(s1[1]) = RoomOf(1)
      BY <2>1 DEF EndOf
    <3>2. \A m, n, y, r \in Int : (m - y < r => n = m - y) /\ (m - y >= r => n = r) => n <= m - y
      OBVIOUS
    <3>3. Len(s1[1]) <= Len(s6[1]) - z /\ z <= Len(s6[1])
      BY <2>2, <3>1, <3>2
    <3> QED
      BY <2>1, <3>3 DEF EndOf
  <2>4. ASSUME NEW k \in 1 .. Len(s1[1]) PROVE Len(s6[1]) - Len(s1[1]) + k \in 1 .. Len(s6[1])
    <3>1. \A m, n, y, x \in Int : 0 <= y /\ n <= m - y /\ x \in 1 .. n => m - n + x \in 1 .. m
      OBVIOUS
    <3>2. Len(s1[1]) <= Len(s6[1]) - z /\ 0 <= z
      BY <2>3
    <3>3. Len(s6[1]) \in Int /\ Len(s1[1]) \in Int /\ z \in Int /\ k \in Int
      BY <2>2
    <3> QED
      BY <3>1, <3>2, <3>3
  <2> QED
    BY <2>2, <2>3, <2>4
<1>4. \A n \in new : n \in Nat /\ n > s8.last /\ n < s2[1] /\ \E i \in DOMAIN s6[1] : s6[1][i].id = n
  <2>1. ASSUME NEW n \in new PROVE n \in Nat /\ n > s8.last /\ n < s2[1] /\ \E i \in DOMAIN s6[1] : s6[1][i].id = n
    <3>1. PICK k \in DOMAIN s1[1] : s1[1][k].id = n /\ n > s8.last
      BY DEF G!Since, G!ToSet
    <3>2. s1[1][k] \in Numbered
      BY <1>2
    <3>3. PICK i \in DOMAIN s6[1] : s6[1][i] = s1[1][k]
      BY <1>3
    <3> QED
      BY <1>1, <3>1, <3>2, <3>3, NumberedIs DEF LogParts, NumbersRight
  <2> QED
    BY <2>1
<1>5. G!Max(new) \in new /\ \A y \in new : y <= G!Max(new)
  <2>1. new \in SUBSET (0 .. s2[1])
    BY <1>2, <1>4
  <2> HIDE DEF new
  <2> QED
    BY <1>1, <1>2, <2>1, GMaxIs
<1>6. LogTypes'
  <2>1. s8' \in [last : Nat, got : SUBSET Nat]
    BY <1>1, <1>2, <1>4, <1>5
  <2> QED
    BY <1>1, <2>1 DEF LogTypes
<1>7. NumbersRight' /\ BufferRight' /\ StatsRight'
  BY <1>1 DEF LogParts, NumbersRight, Busy, BufferRight, StatsRight
<1>8. HeardRight'
  BY <1>1 DEF LogParts, HeardRight, HeardBy
<1>9. PolledRight'
  <2>1. s8'.last = G!Max(new) /\ s8'.got = s8.got \cup new
    BY <1>1
  <2>2. \E i \in DOMAIN s6[1] : s6[1][i].id = s8'.last
    BY <1>4, <1>5, <2>1
  <2>3. ASSUME NEW k \in DOMAIN s1[1], s1[1][k].id <= s8'.last
        PROVE  s1[1][k].id \in s8'.got \/ G!Overtaken(1, s1[1][k])
    <3>1. s1[1][k].id \in Nat
      <4>1. s1[1][k] \in Numbered
        BY <1>2
      <4> QED
        BY <4>1, NumberedIs
    <3>2. CASE s1[1][k].id <= s8.last
      BY <2>1, <3>2 DEF LogParts, PolledRight, G!NoneMissed
    <3>3. CASE s1[1][k].id > s8.last
      <4>1. s1[1][k].id \in new
        BY <3>3 DEF G!Since, G!ToSet
      <4> QED
        BY <2>1, <4>1
    <3> QED
      BY <1>2, <3>1, <3>2, <3>3
  <2> QED
    BY <1>1, <2>2, <2>3 DEF PolledRight, G!NoneMissed, G!Overtaken
<1> QED
  BY <1>6, <1>7, <1>8, <1>9 DEF LogParts

Statistics == [pc : 0 .. 6, by_level : Seq(Nat), total : Nat, quiet : BOOLEAN]
\* The two changes to the statistics, one field after the other.
LEMMA StatsTotal ==
  ASSUME NEW r \in Statistics, NEW p \in 0 .. 6, NEW t \in Nat
  PROVE  LET n == [r EXCEPT !.pc = p, !.total = t] IN
         n \in Statistics /\ n.pc = p /\ n.by_level = r.by_level /\ n.total = t /\ n.quiet = r.quiet
<1> DEFINE s == [r EXCEPT !.pc = p]
<1>1. s \in Statistics /\ s.pc = p /\ s.by_level = r.by_level /\ s.total = r.total /\ s.quiet = r.quiet
  BY DEF Statistics
<1> HIDE DEF s
<1>2. LET n == [s EXCEPT !.total = t] IN
      n \in Statistics /\ n.pc = s.pc /\ n.by_level = s.by_level /\ n.total = t /\ n.quiet = s.quiet
  BY <1>1 DEF Statistics
<1>3. LET n == [s EXCEPT !.total = t] IN
      n \in Statistics /\ n.pc = p /\ n.by_level = r.by_level /\ n.total = t /\ n.quiet = r.quiet
  BY <1>1, <1>2, Zenon
<1> QED
  BY <1>3, Zenon DEF s

LEMMA StatsCounted ==
  ASSUME NEW r \in Statistics, NEW p \in 0 .. 6, NEW b \in Seq(Nat), NEW q \in BOOLEAN
  PROVE  LET n == [r EXCEPT !.pc = p, !.quiet = q, !.by_level = b] IN
         n \in Statistics /\ n.pc = p /\ n.by_level = b /\ n.total = r.total /\ n.quiet = q
<1> DEFINE s == [r EXCEPT !.pc = p]
<1>1. s \in Statistics /\ s.pc = p /\ s.by_level = r.by_level /\ s.total = r.total /\ s.quiet = r.quiet
  BY DEF Statistics
<1> HIDE DEF s
<1> DEFINE u == [s EXCEPT !.quiet = q]
<1>2. u \in Statistics /\ u.pc = s.pc /\ u.by_level = s.by_level /\ u.total = s.total /\ u.quiet = q
  BY <1>1 DEF Statistics
<1> HIDE DEF u
<1>3. LET n == [u EXCEPT !.by_level = b] IN
      n \in Statistics /\ n.pc = u.pc /\ n.by_level = b /\ n.total = u.total /\ n.quiet = u.quiet
  BY <1>2 DEF Statistics
<1>4. LET n == [u EXCEPT !.by_level = b] IN
      n \in Statistics /\ n.pc = p /\ n.by_level = b /\ n.total = r.total /\ n.quiet = q
  BY <1>1, <1>2, <1>3, Zenon
<1> QED
  BY <1>4, Zenon DEF s, u

LEMMA LogStats ==
  ASSUME LogParts, G!CountLevel \/ G!CountAll
  PROVE  LogParts'
<1>1. /\ LogTypes /\ 1 \in G!At /\ s1' = s1 /\ s2' = s2 /\ s3' = s3 /\ s4' = s4 /\ s6' = s6 /\ s7' = s7 /\ s8' = s8
      /\ s1[1] \in Seq(Numbered) /\ s9 \in [pc : 0 .. 6, by_level : Seq(Nat), total : Nat, quiet : BOOLEAN]
  BY CollectorsAre DEF LogParts, LogTypes, G!CountLevel, G!CountAll
<1>2. NumbersRight' /\ BufferRight'
  BY <1>1 DEF LogParts, NumbersRight, Busy, BufferRight
<1>3. HeardRight' /\ PolledRight'
  BY <1>1 DEF LogParts, HeardRight, HeardBy, PolledRight, G!NoneMissed, G!Overtaken
<1>4. ASSUME s9' \in [pc : 0 .. 6, by_level : Seq(Nat), total : Nat, quiet : BOOLEAN] PROVE LogTypes'
  BY <1>1, <1>4 DEF LogTypes
<1>5. StatsRight
  BY DEF LogParts
<1>6. CASE G!CountAll
  <2>1. s9.pc = 5 /\ s9' = [s9 EXCEPT !.pc = @ + 1, !.total = Len(s1[1])] /\ Len(s1[1]) \in Nat
    BY <1>1, <1>6, FiveLevels DEF G!CountAll
  <2>2. /\ s9'.pc = 6 /\ s9'.by_level = s9.by_level /\ s9'.quiet = s9.quiet /\ s9'.total = Len(s1[1])
        /\ s9' \in [pc : 0 .. 6, by_level : Seq(Nat), total : Nat, quiet : BOOLEAN]
    <3>1. s9' = [s9 EXCEPT !.pc = 6, !.total = Len(s1[1])]
      <4>1. s9' = [s9 EXCEPT !.pc = s9.pc + 1, !.total = Len(s1[1])] /\ s9.pc + 1 = 6
        BY <2>1
      <4> QED
        BY <4>1, Zenon
    <3> QED
      <4>1. 6 \in 0 .. 6
        OBVIOUS
      <4>2. LET n == [s9 EXCEPT !.pc = 6, !.total = Len(s1[1])] IN
            n \in Statistics /\ n.pc = 6 /\ n.by_level = s9.by_level /\ n.total = Len(s1[1]) /\ n.quiet = s9.quiet
        BY <1>1, <2>1, <4>1, StatsTotal DEF Statistics
      <4> QED
        BY <3>1, <4>2, Zenon DEF Statistics
  <2>3. StatsRight'
    <3>1. Len(s9.by_level) = 5 /\ (s9.quiet => \A k \in 1 .. Len(s9.by_level) : s9.by_level[k] = Cardinality(OfLevel(s1[1], k)))
      BY <1>5, <2>1 DEF StatsRight
    <3> QED
      BY <1>1, <2>2, <3>1 DEF StatsRight
  <2> QED
    BY <1>2, <1>3, <1>4, <2>2, <2>3 DEF LogParts
<1>7. CASE G!CountLevel
  <2> DEFINE n == s9.pc + 1
             many == G!Cardinality(G!Query([min |-> s9.pc + 1, max |-> s9.pc + 1]))
             longer == Append(s9.by_level, many)
  <2>1. /\ s9.pc < 5 /\ s9' = [s9 EXCEPT !.pc = @ + 1, !.quiet = @ \/ s9.pc = 0, !.by_level = longer]
    BY <1>7, FiveLevels DEF G!CountLevel
  <2>2. many = Cardinality(OfLevel(s1[1], n)) /\ many \in Nat
    <3>1. G!Query([min |-> s9.pc + 1, max |-> s9.pc + 1]) = OfLevel(s1[1], n)
      <4>1. ASSUME NEW i \in DOMAIN s1[1] PROVE s1[1][i].level \in 1 .. 5
        <5>1. s1[1][i] \in Numbered
          BY <1>1
        <5> QED
          BY <5>1, NumberedIs DEF G!Levels
      <4>2. n \in Int
        BY <1>1
      <4> DEFINE f == [min |-> n, max |-> n]
      <4>3. DOMAIN f = {"min", "max"} /\ f.min = n /\ f.max = n
        OBVIOUS
      <4> HIDE DEF f
      <4>4. ASSUME NEW x PROVE G!Matches(f, x) <=> x.level >= n /\ x.level <= n
        BY <4>3 DEF G!Matches
      <4>5. G!Query(f) = OfLevel(s1[1], n)
        <5>1. ASSUME NEW i \in DOMAIN s1[1] PROVE G!Matches(f, s1[1][i]) <=> s1[1][i].level = n
          <6>1. s1[1][i].level \in Int
            BY <4>1
          <6> HIDE DEF n
          <6> QED
            BY <4>2, <4>4, <6>1
        <5> QED
          BY <5>1 DEF G!Query, OfLevel
      <4> QED
        BY <4>5 DEF f
    <3>2. IsFiniteSet(OfLevel(s1[1], n))
      <4>1. OfLevel(s1[1], n) \subseteq 1 .. Len(s1[1]) /\ Len(s1[1]) \in Nat
        BY <1>1 DEF OfLevel
      <4>2. IsFiniteSet(1 .. Len(s1[1]))
        BY <4>1, FS_Interval
      <4> QED
        BY <4>1, <4>2, FS_Subset
    <3>3. Cardinality(OfLevel(s1[1], n)) \in Nat
      BY <3>2, FS_CardinalityType
    <3> QED
      BY <3>1, <3>3, SameCardinalityG
  <2> HIDE DEF many
  <2>3. longer \in Seq(Nat) /\ Len(longer) = Len(s9.by_level) + 1 /\ longer[Len(s9.by_level) + 1] = many
        /\ \A k \in 1 .. Len(s9.by_level) : longer[k] = s9.by_level[k]
    BY <1>1, <2>2
  <2>4. Len(s9.by_level) = s9.pc
    BY <1>1, <1>5, <2>1 DEF StatsRight
  <2> HIDE DEF longer
  <2>5. /\ s9'.pc = s9.pc + 1 /\ s9'.by_level = longer /\ s9'.quiet = (s9.quiet \/ s9.pc = 0) /\ s9'.total = s9.total
        /\ s9' \in [pc : 0 .. 6, by_level : Seq(Nat), total : Nat, quiet : BOOLEAN]
    <3> DEFINE q == s9.quiet \/ s9.pc = 0
    <3>1. s9' = [s9 EXCEPT !.pc = s9.pc + 1, !.quiet = q, !.by_level = longer] /\ s9.pc + 1 \in 0 .. 6
      BY <1>1, <2>1
    <3>2. q \in BOOLEAN
      OBVIOUS
    <3> HIDE DEF q
    <3>3. /\ s9'.pc = s9.pc + 1 /\ s9'.by_level = longer /\ s9'.quiet = q /\ s9'.total = s9.total
          /\ s9' \in [pc : 0 .. 6, by_level : Seq(Nat), total : Nat, quiet : BOOLEAN]
      BY <1>1, <2>3, <3>1, <3>2, StatsCounted DEF Statistics
    <3> QED
      BY <3>3 DEF q
  <2>6. StatsRight'
    <3>1. Len(s9'.by_level) = s9'.pc /\ s9'.pc <= 5
      <4>1. s9.pc \in 0 .. 6
        BY <1>1
      <4> QED
        BY <2>1, <2>3, <2>4, <2>5, <4>1
    <3>2. ASSUME s9'.quiet, NEW k \in 1 .. Len(longer) PROVE longer[k] = Cardinality(OfLevel(s1[1], k))
      <4>1. CASE k = n
        BY <2>2, <2>3, <2>4, <4>1
      <4>2. CASE k # n
        <5>1. k \in 1 .. Len(s9.by_level) /\ s9.pc > 0
          BY <1>1, <2>3, <2>4, <3>2, <4>2
        <5> QED
          BY <1>5, <2>3, <2>5, <3>2, <5>1 DEF StatsRight
      <4> QED
        BY <4>1, <4>2
    <3>3. s9'.pc # 6
      BY <1>1, <2>1, <2>5
    <3> QED
      BY <1>1, <2>5, <3>1, <3>2, <3>3 DEF StatsRight
  <2> QED
    BY <1>2, <1>3, <1>4, <2>5, <2>6 DEF LogParts
<1> QED
  BY <1>6, <1>7

LEMMA LogLogs ==
  ASSUME LogParts, NEW w \in Clients, NEW said \in Said, G!Log(w, said)
  PROVE  LogParts'
<1> DEFINE x == G!InContext(said.context, said.event)
           to == G!Arrive(x, 1)
<1>1. /\ s4[w] = G!Resting /\ s4' = [s4 EXCEPT ![w] = to] /\ s2' = G!Counted(to)
      /\ s1' = s1 /\ s3' = s3 /\ s6' = s6 /\ s7' = s7 /\ s8' = s8 /\ s9' = s9
  BY DEF G!Log
<1>2. x \in LogEvents /\ \A d \in G!At : s2[d] \in Nat \ {0}
  BY DEF LogEvents, LogParts, LogTypes
<1> HIDE DEF x
<1>3. to = G!Resting \/ \E d \in G!At : to = [pc |-> "notify", at |-> d, event |-> [x EXCEPT !.id = s2[d]]]
  BY ArriveIs
<1> HIDE DEF to
<1>4. to = G!Resting \/ \E y \in Numbered, d \in G!At : to = [pc |-> "notify", at |-> d, event |-> y] /\ y.id = s2[d]
  <2>1. ASSUME NEW d \in G!At PROVE [x EXCEPT !.id = s2[d]] \in Numbered /\ [x EXCEPT !.id = s2[d]].id = s2[d]
    BY <1>2, FirstNumber, Zenon
  <2> QED
    BY <1>3, <2>1, Zenon
<1>5. ~Busy(w)
  BY <1>1 DEF Busy, G!Resting
<1>6. Proceeds(w, to)
  BY <1>1, <1>4, Zenon DEF Proceeds
<1> QED
  BY <1>1, <1>5, <1>6, LogLog

LEMMA LogStep ==
  ASSUME LogInv, [StorageNext]_storage
  PROVE  LogInv'
<1>1. part' = part
  BY DEF StorageNext, storage
<1> SUFFICES ASSUME part = "logs" PROVE LogParts'
  BY <1>1 DEF LogInv
<1>2. LogParts
  BY DEF LogInv
<1>3. G!Next \/ UNCHANGED shared
  BY DEF StorageNext, storage
<1>4. CASE UNCHANGED shared
  <2>1. s1' = s1 /\ s2' = s2 /\ s3' = s3 /\ s4' = s4 /\ s6' = s6 /\ s7' = s7 /\ s8' = s8 /\ s9' = s9
    BY <1>4 DEF shared
  <2>2. LogTypes' /\ NumbersRight' /\ BufferRight' /\ StatsRight'
    BY <1>2, <2>1 DEF LogParts, LogTypes, NumbersRight, Busy, BufferRight, StatsRight
  <2>3. HeardRight' /\ PolledRight'
    BY <1>2, <2>1 DEF LogParts, HeardRight, HeardBy, PolledRight, G!NoneMissed, G!Overtaken
  <2> QED
    BY <2>2, <2>3 DEF LogParts
<1>5. CASE \E w \in Clients : (\E said \in Said : G!Log(w, said)) \/ G!Notify(w) \/ G!Push(w)
  BY <1>2, <1>5, LogLogs, LogNotify, LogPush, Zenon
<1>6. CASE \E s \in Subscribers : G!Subscribe(s) \/ G!Unsubscribe(s)
  BY <1>2, <1>6, LogSubscribes, Zenon
<1>7. CASE G!Poll
  BY <1>2, <1>7, LogPoll, Zenon
<1>8. CASE G!CountLevel \/ G!CountAll
  BY <1>2, <1>8, LogStats, Zenon
<1>9. CASE G!Clear
  BY <1>2, <1>9, LogClear, Zenon
<1> QED
  BY <1>3, <1>4, <1>5, <1>6, <1>7, <1>8, <1>9, Zenon DEF G!Next

-----------------------------------------------------------------------------
(* What LogsRight says follows.                                             *)
LEMMA EndPart ==
  ASSUME NEW V, NEW q \in Seq(V), NEW n \in Nat, n <= Len(q), NEW m, m = Len(q) - n + 1
  PROVE  LET r == SubSeq(q, m, Len(q)) IN
         r \in Seq(V) /\ Len(r) = n /\ \A i \in 1 .. n : r[i] = q[Len(q) - n + i]
<1> DEFINE k == Len(q)
<1>1. k \in Nat /\ m \in Int /\ m = k - n + 1 /\ n <= k /\ m >= 1
  OBVIOUS
<1>2. q \in Seq(V) /\ \A i \in 1 .. k : q[i] \in V
  OBVIOUS
<1>3. SubSeq(q, m, k) \in Seq(V)
  BY <1>1, <1>2
<1>4. Len(SubSeq(q, m, k)) = n
  BY <1>1, <1>2
<1>5. ASSUME NEW i \in 1 .. n PROVE SubSeq(q, m, k)[i] = q[k - n + i]
  <2>1. m + i - 1 = k - n + i /\ i \in 1 .. (k - m + 1)
    BY <1>1
  <2>2. SubSeq(q, m, k)[i] = q[m + i - 1]
    BY <1>1, <1>2, <2>1
  <2> QED
    BY <2>1, <2>2
<1> QED
  BY <1>3, <1>4, <1>5

LEMMA HeldNewest ==
  ASSUME LogParts
  PROVE  G!NewestHeld
<1> SUFFICES ASSUME NEW c \in G!At
             PROVE  LET room == G!Max({1, Collectors[c].capacity})  all == G!Held(c) IN
                    s1[c] = SubSeq(all, 1 + G!Max({room, Len(all)}) - room, Len(all))
  BY Zenon DEF G!NewestHeld
<1> DEFINE b == s1[c]
           p == s6[c]
           room == RoomOf(c)
           clears == {i \in DOMAIN p : p[i].id = 0}
<1>1. b \in Seq(Numbered) /\ p \in Seq(Ledger) /\ room \in Nat /\ room >= 1
  BY CollectorsAre DEF LogParts, LogTypes, RoomOf
<1>2. PICK z \in Nat : EndOf(b, p, z, room)
  BY DEF LogParts, BufferRight
<1>3. Len(p) \in Nat /\ DOMAIN p = 1 .. Len(p) /\ Len(b) \in Nat /\ DOMAIN b = 1 .. Len(b)
  BY <1>1, NoLength
<1>4. G!Max({0} \cup clears) = z
  <2>1. {0} \cup clears \in SUBSET (0 .. Len(p)) /\ {0} \cup clears # {}
    BY <1>3
  <2>2. z \in {0} \cup clears /\ \A i \in {0} \cup clears : i <= z
    BY <1>2, <1>3 DEF EndOf
  <2> DEFINE all == {0} \cup clears
  <2>3. all \in SUBSET (0 .. Len(p)) /\ all # {} /\ z \in all /\ \A i \in all : i <= z
    BY <2>1, <2>2
  <2> HIDE DEF all
  <2>4. G!Max(all) \in all /\ \A y \in all : y <= G!Max(all)
    BY <1>3, <2>3, GMaxIs
  <2>5. G!Max(all) = z
    <3>1. \A y \in all : y \in Nat
      BY <2>3
    <3>2. G!Max(all) \in Nat /\ G!Max(all) <= z /\ z <= G!Max(all)
      BY <2>3, <2>4, <3>1, Zenon
    <3> QED
      BY <3>2
  <2> QED
    BY <2>5 DEF all
<1>5. G!Max({1, Collectors[c].capacity}) = room
  <2> DEFINE k == Collectors[c].capacity
  <2>1. k \in Nat /\ room = IF k < 1 THEN 1 ELSE k
    BY CollectorsAre DEF RoomOf
  <2> HIDE DEF k
  <2>2. {1, k} \in SUBSET (0 .. k + 1) /\ {1, k} # {} /\ k + 1 \in Nat
    BY <2>1
  <2>3. G!Max({1, k}) \in {1, k} /\ \A y \in {1, k} : y <= G!Max({1, k})
    BY <2>2, GMaxIs
  <2>4. G!Max({1, k}) = room
    BY <2>1, <2>3
  <2> QED
    BY <2>4 DEF k
<1> DEFINE all == SubSeq(p, 1 + z, Len(p))
<1>6. G!Held(c) = all
  BY <1>4 DEF G!Held
<1> HIDE DEF b, p, room, clears
<1>7. z <= Len(p) /\ (Len(p) - z < room => Len(b) = Len(p) - z) /\ (Len(p) - z >= room => Len(b) = room)
      /\ \A i \in 1 .. Len(b) : b[i] = p[Len(p) - Len(b) + i]
  BY <1>2, <1>3 DEF EndOf
<1>8. all \in Seq(Ledger) /\ Len(all) = Len(p) - z /\ \A i \in 1 .. Len(p) - z : all[i] = p[z + i]
  <2>1. Len(p) - z \in Nat /\ Len(p) - z <= Len(p) /\ 1 + z = Len(p) - (Len(p) - z) + 1
        /\ \A i \in 1 .. Len(p) - z : Len(p) - (Len(p) - z) + i = z + i
    <3>1. \A m, y \in Nat : y <= m => /\ m - y \in Nat /\ m - y <= m /\ 1 + y = m - (m - y) + 1
                                       /\ \A i \in 1 .. m - y : m - (m - y) + i = y + i
      OBVIOUS
    <3>2. z <= Len(p) /\ Len(p) \in Nat
      BY <1>3, <1>7
    <3> QED
      BY <3>1, <3>2
  <2>2. LET r == SubSeq(p, 1 + z, Len(p)) IN
        r \in Seq(Ledger) /\ Len(r) = Len(p) - z /\ \A i \in 1 .. Len(p) - z : r[i] = p[Len(p) - (Len(p) - z) + i]
    BY <1>1, <2>1, EndPart
  <2> QED
    BY <2>1, <2>2
<1> HIDE DEF all
<1> DEFINE from == 1 + G!Max({room, Len(all)}) - room
<1>9. from = Len(all) - Len(b) + 1
  <2> DEFINE k == Len(all)
  <2>1. k \in Nat /\ (k < room => Len(b) = k) /\ (k >= room => Len(b) = room)
    <3>1. k = Len(p) - z
      BY <1>8
    <3>2. z <= Len(p) /\ Len(p) \in Nat
      BY <1>3, <1>7
    <3>3. Len(p) - z \in Nat
      BY <3>2
    <3> HIDE DEF k
    <3> QED
      BY <1>7, <3>1, <3>3, Zenon
  <2> HIDE DEF k
  <2>2. {room, k} \in SUBSET (0 .. room + k) /\ {room, k} # {} /\ room + k \in Nat
    BY <1>1, <2>1
  <2>3. G!Max({room, k}) \in {room, k} /\ \A y \in {room, k} : y <= G!Max({room, k})
    BY <2>2, GMaxIs
  <2>4. 1 + G!Max({room, k}) - room = k - Len(b) + 1
    <3>1. k < room => G!Max({room, k}) = room
      BY <1>1, <2>1, <2>3
    <3>2. k >= room => G!Max({room, k}) = k
      BY <1>1, <2>1, <2>3
    <3> QED
      <4>1. CASE k < room
        BY <1>1, <2>1, <3>1, <4>1
      <4>2. CASE k >= room
        BY <1>1, <2>1, <3>2, <4>2
      <4> QED
        BY <1>1, <2>1, <4>1, <4>2
  <2> QED
    BY <2>4 DEF k
<1> HIDE DEF from
<1>10. Len(b) <= Len(all)
  <2>1. \A d, n, r \in Nat : (d < r => n = d) /\ (d >= r => n = r) => n <= d
    OBVIOUS
  <2>2. Len(p) - z \in Nat /\ Len(all) = Len(p) - z
    BY <1>3, <1>7, <1>8
  <2> QED
    BY <1>1, <1>3, <1>7, <2>1, <2>2
<1> DEFINE end == SubSeq(all, from, Len(all))
<1>11. end \in Seq(Ledger) /\ Len(end) = Len(b) /\ \A i \in 1 .. Len(b) : end[i] = all[Len(all) - Len(b) + i]
  BY <1>3, <1>8, <1>9, <1>10, EndPart
<1> HIDE DEF end
<1>12. ASSUME NEW i \in 1 .. Len(b) PROVE end[i] = b[i]
  <2>1. Len(all) - Len(b) + i \in 1 .. Len(p) - z /\ z + (Len(all) - Len(b) + i) = Len(p) - Len(b) + i
    BY <1>3, <1>8, <1>10
  <2> QED
    BY <1>7, <1>8, <1>11, <2>1
<1>13. end = b
  BY <1>1, <1>3, <1>11, <1>12
<1> QED
  BY <1>5, <1>6, <1>13 DEF end, from, b

LEMMA HeardOnce ==
  ASSUME LogParts
  PROVE  G!EachHeardOnce
<1>1. 1 \in G!At /\ s6[1] \in Seq(Ledger) /\ HeardRight
  BY CollectorsAre DEF LogParts, LogTypes
<1>2. ASSUME NEW s \in Subscribers
      PROVE  /\ \A i, j \in DOMAIN s7[s].got : s7[s].got[i] = s7[s].got[j] => i = j
             /\ s \in s3 => {x.id : x \in G!ToSet(s6[1])} \ (0 .. s7[s].since - 1) \subseteq G!ToSet(s7[s].got)
  <2>1. HeardBy(s)
    BY <1>1 DEF HeardRight
  <2>2. ASSUME s \in s3, NEW n \in {x.id : x \in G!ToSet(s6[1])}, n \notin 0 .. s7[s].since - 1
        PROVE  n \in G!ToSet(s7[s].got)
    <3>1. PICK k \in DOMAIN s6[1] : s6[1][k].id = n
      BY <2>2 DEF G!ToSet
    <3>2. s6[1][k].id \in Nat
      <4>1. s6[1][k] \in Ledger
        BY <1>1
      <4> QED
        BY <4>1, LedgerIs
    <3>3. s7[s].since \in Nat
      BY DEF LogParts, LogTypes
    <3>4. n >= s7[s].since
      BY <2>2, <3>1, <3>2, <3>3
    <3>5. PICK i \in DOMAIN s7[s].got : s7[s].got[i] = n
      BY <2>1, <2>2, <3>1, <3>4 DEF HeardBy
    <3> QED
      BY <3>5 DEF G!ToSet
  <2> QED
    BY <2>1, <2>2 DEF HeardBy
<1> QED
  BY <1>2, Zenon DEF G!EachHeardOnce

\* Each event has one of the five levels.
LEMMA LevelsSum ==
  ASSUME NEW b \in Seq(Numbered)
  PROVE  Len(b) = Cardinality(OfLevel(b, 1)) + Cardinality(OfLevel(b, 2)) + Cardinality(OfLevel(b, 3))
                  + Cardinality(OfLevel(b, 4)) + Cardinality(OfLevel(b, 5))
<1>1. Len(b) \in Nat /\ DOMAIN b = 1 .. Len(b)
  OBVIOUS
<1>2. IsFiniteSet(1 .. Len(b)) /\ Cardinality(1 .. Len(b)) = Len(b)
  <2>1. 1 \in Int /\ Len(b) \in Int /\ (IF 1 > Len(b) THEN 0 ELSE Len(b) - 1 + 1) = Len(b)
    BY <1>1
  <2> QED
    BY <2>1, FS_Interval
<1>3. ASSUME NEW k PROVE OfLevel(b, k) \subseteq 1 .. Len(b) /\ IsFiniteSet(OfLevel(b, k)) /\ Cardinality(OfLevel(b, k)) \in Nat
  <2>1. OfLevel(b, k) \subseteq 1 .. Len(b)
    BY <1>1 DEF OfLevel
  <2> QED
    BY <1>2, <2>1, FS_Subset, FS_CardinalityType
<1>4. ASSUME NEW j, NEW k, j # k PROVE OfLevel(b, j) \cap OfLevel(b, k) = {}
  BY <1>4 DEF OfLevel
<1>5. 1 .. Len(b) = (((OfLevel(b, 1) \cup OfLevel(b, 2)) \cup OfLevel(b, 3)) \cup OfLevel(b, 4)) \cup OfLevel(b, 5)
  <2>1. ASSUME NEW i \in 1 .. Len(b) PROVE b[i].level \in {1, 2, 3, 4, 5}
    <3>1. b[i] \in Numbered
      BY <1>1
    <3>2. b[i].level \in 1 .. 5
      BY <3>1, NumberedIs DEF G!Levels
    <3> QED
      BY <3>2
  <2>2. \A i \in 1 .. Len(b) : b[i].level = 1 \/ b[i].level = 2 \/ b[i].level = 3 \/ b[i].level = 4 \/ b[i].level = 5
    BY <2>1
  <2> QED
    BY <1>1, <2>2, Zenon DEF OfLevel
<1> DEFINE A == OfLevel(b, 1)
           B == OfLevel(b, 2)
           D == OfLevel(b, 3)
           F == OfLevel(b, 4)
           J == OfLevel(b, 5)
<1>6. /\ A \cap B = {} /\ (A \cup B) \cap D = {} /\ ((A \cup B) \cup D) \cap F = {}
      /\ (((A \cup B) \cup D) \cup F) \cap J = {}
  <2>1. /\ A \cap B = {} /\ A \cap D = {} /\ A \cap F = {} /\ A \cap J = {} /\ B \cap D = {} /\ B \cap F = {}
        /\ B \cap J = {} /\ D \cap F = {} /\ D \cap J = {} /\ F \cap J = {}
    BY <1>4
  <2> HIDE DEF A, B, D, F, J
  <2> QED
    BY <2>1
<1>7. /\ IsFiniteSet(A) /\ IsFiniteSet(B) /\ IsFiniteSet(D) /\ IsFiniteSet(F) /\ IsFiniteSet(J)
      /\ Cardinality(A) \in Nat /\ Cardinality(B) \in Nat /\ Cardinality(D) \in Nat
      /\ Cardinality(F) \in Nat /\ Cardinality(J) \in Nat
  BY <1>3
<1> HIDE DEF A, B, D, F, J
<1>8. ASSUME NEW S, NEW T, IsFiniteSet(S), IsFiniteSet(T), S \cap T = {}, Cardinality(S) \in Nat, Cardinality(T) \in Nat
      PROVE  IsFiniteSet(S \cup T) /\ Cardinality(S \cup T) = Cardinality(S) + Cardinality(T) /\ Cardinality(S \cup T) \in Nat
  <2>1. IsFiniteSet(S \cup T) /\ Cardinality(S \cup T) = Cardinality(S) + Cardinality(T) - Cardinality(S \cap T)
    BY <1>8, FS_Union
  <2>2. Cardinality(S \cap T) = 0
    BY <1>8, FS_EmptySet
  <2> QED
    BY <1>8, <2>1, <2>2
<1>9. IsFiniteSet(A \cup B) /\ Cardinality(A \cup B) = Cardinality(A) + Cardinality(B) /\ Cardinality(A \cup B) \in Nat
  BY <1>6, <1>7, <1>8, Zenon
<1>10. /\ IsFiniteSet((A \cup B) \cup D) /\ Cardinality((A \cup B) \cup D) = Cardinality(A \cup B) + Cardinality(D)
       /\ Cardinality((A \cup B) \cup D) \in Nat
  BY <1>6, <1>7, <1>8, <1>9, Zenon
<1>11. /\ IsFiniteSet(((A \cup B) \cup D) \cup F)
       /\ Cardinality(((A \cup B) \cup D) \cup F) = Cardinality((A \cup B) \cup D) + Cardinality(F)
       /\ Cardinality(((A \cup B) \cup D) \cup F) \in Nat
  BY <1>6, <1>7, <1>8, <1>10, Zenon
<1>12. Cardinality((((A \cup B) \cup D) \cup F) \cup J) = Cardinality(((A \cup B) \cup D) \cup F) + Cardinality(J)
  BY <1>6, <1>7, <1>8, <1>11, Zenon
<1>13. Len(b) = Cardinality((((A \cup B) \cup D) \cup F) \cup J)
  BY <1>2, <1>5, Zenon DEF A, B, D, F, J
<1>14. Len(b) = Cardinality(A) + Cardinality(B) + Cardinality(D) + Cardinality(F) + Cardinality(J)
  BY <1>7, <1>9, <1>10, <1>11, <1>12, <1>13
<1> QED
  BY <1>14 DEF A, B, D, F, J

LEMMA LevelsCounted ==
  ASSUME LogParts
  PROVE  G!LevelsAddUp
<1> SUFFICES ASSUME s9.pc > G!Cardinality(G!Levels), s9.quiet
             PROVE  LET n == s9.by_level IN s9.total = n[1] + n[2] + n[3] + n[4] + n[5]
  BY Zenon DEF G!LevelsAddUp
<1>1. s9.pc = 6 /\ StatsRight /\ s1[1] \in Seq(Numbered)
  BY FiveLevels, CollectorsAre DEF LogParts, LogTypes
<1>2. Len(s9.by_level) = 5 /\ s9.total = Len(s1[1])
      /\ \A k \in 1 .. 5 : s9.by_level[k] = Cardinality(OfLevel(s1[1], k))
  BY <1>1 DEF StatsRight
<1>3. /\ s9.by_level[1] = Cardinality(OfLevel(s1[1], 1)) /\ s9.by_level[2] = Cardinality(OfLevel(s1[1], 2))
      /\ s9.by_level[3] = Cardinality(OfLevel(s1[1], 3)) /\ s9.by_level[4] = Cardinality(OfLevel(s1[1], 4))
      /\ s9.by_level[5] = Cardinality(OfLevel(s1[1], 5))
  BY <1>2
<1> QED
  BY <1>1, <1>2, <1>3, LevelsSum, Zenon

LEMMA Answered ==
  ASSUME LogParts
  PROVE  G!RequestsAnswered
<1> SUFFICES ASSUME NEW request \in Requests
             PROVE  LET recent == G!Recent(request) IN
                    /\ G!Query(G!ParseLogFilter(request)) = {i \in DOMAIN s1[1] : G!Wanted(request, s1[1][i])}
                    /\ \A i \in DOMAIN recent : recent[i] = s1[1][Len(s1[1]) + 1 - i]
  BY Zenon DEF G!RequestsAnswered
<1> DEFINE b == s1[1]
<1>1. request \in Requested /\ b \in Seq(Numbered)
  BY StorageAssumption, CollectorsAre DEF G!LogsConstants, Requested, LogParts, LogTypes
<1>2. G!Query(G!ParseLogFilter(request)) = {i \in DOMAIN b : G!Wanted(request, b[i])}
  BY <1>1, MatchesWanted DEF G!Query
<1>3. Len(b) \in Nat /\ DOMAIN b = 1 .. Len(b)
  BY <1>1
<1>4. G!ParseLimit(request, 50) \in Nat
  <2> DEFINE limits == {i \in DOMAIN request : request[i].key = "limit"}
             first == request[G!Min(limits)]
  <2>1. CASE limits = {} \/ ~G!Read(first)
    BY <2>1 DEF G!ParseLimit
  <2>2. CASE ~(limits = {} \/ ~G!Read(first))
    <3>1. limits \in SUBSET Nat /\ limits # {}
      BY <1>1, <2>2 DEF Requested
    <3>2. G!Min(limits) \in limits
      <4> HIDE DEF limits
      <4> QED
        BY <3>1, GMinIs
    <3>3. first.key = "limit"
      BY <3>2
    <3>4. first.value \in DOMAIN Numbers
      <4>1. G!Read(first)
        BY <2>2
      <4> HIDE DEF first, limits
      <4> QED
        BY <3>3, <4>1 DEF G!Read
    <3>5. Numbers[first.value] \in Nat
      BY <3>4, StorageAssumption DEF G!LogsConstants
    <3>6. G!ParseLimit(request, 50) = Numbers[first.value]
      BY <2>2 DEF G!ParseLimit
    <3> QED
      BY <3>5, <3>6
  <2> QED
    BY <2>1, <2>2
<1> DEFINE n == G!Min({G!ParseLimit(request, 50), 500})
           m == G!Min({n, Len(b)})
<1>5. n \in Nat
  <2> DEFINE I == {G!ParseLimit(request, 50), 500}
  <2>1. I \in SUBSET Nat /\ I # {}
    BY <1>4
  <2> HIDE DEF I
  <2>2. G!Min(I) \in I
    BY <2>1, GMinIs
  <2> QED
    BY <2>1, <2>2 DEF I
<1> HIDE DEF n
<1>6. m \in Nat /\ m <= Len(b)
  <2> DEFINE I == {n, Len(b)}
  <2>1. I \in SUBSET Nat /\ I # {} /\ Len(b) \in I
    BY <1>3, <1>5
  <2> HIDE DEF I, b
  <2>2. G!Min(I) \in I /\ G!Min(I) <= Len(b)
    BY <2>1, GMinIs
  <2>3. G!Min(I) \in Nat
    BY <2>1, <2>2
  <2> QED
    BY <2>2, <2>3 DEF I
<1> HIDE DEF m
<1> DEFINE turned == G!Reverse(b)
<1>7. turned \in Seq(Numbered) /\ Len(turned) = Len(b) /\ \A i \in 1 .. Len(b) : turned[i] = b[Len(b) - i + 1]
  BY <1>1, <1>3 DEF G!Reverse
<1>8. G!Recent(request) = SubSeq(turned, 1, m)
  BY DEF G!Recent, m, n
<1> HIDE DEF turned, b
<1>9. Len(SubSeq(turned, 1, m)) = m /\ DOMAIN SubSeq(turned, 1, m) = 1 .. m
      /\ \A i \in 1 .. m : SubSeq(turned, 1, m)[i] = turned[i]
  BY <1>3, <1>6, <1>7
<1>10. ASSUME NEW i \in 1 .. m PROVE SubSeq(turned, 1, m)[i] = b[Len(b) + 1 - i]
  <2>1. i \in 1 .. Len(b) /\ Len(b) + 1 - i = Len(b) - i + 1
    BY <1>3, <1>6
  <2> QED
    BY <1>7, <1>9, <2>1
<1>11. \A i \in DOMAIN G!Recent(request) : G!Recent(request)[i] = b[Len(b) + 1 - i]
  BY <1>8, <1>9, <1>10
<1> QED
  BY <1>2, <1>11 DEF b

(* The log.  For any number of threads, collectors of any capacity and with *)
(* any filters, subscribers, requests, and whenever the buffer is cleared:  *)
(* each collector has the newest of what it took, as many as it has room    *)
(* for; who polls by the last id misses only what was overtaken between     *)
(* getting its id and getting into the buffer; a subscriber hears each      *)
(* event once; the levels of the statistics add up if nothing came in       *)
(* between; and GET /logs answers what was asked for.                       *)
THEOREM LogsAreRight == StorageSpec => []LogsRight
<1>1. StorageInit => LogInv
  BY LogStarts
<1>2. LogInv /\ [StorageNext]_storage => LogInv'
  BY LogStep
<1>3. LogInv => LogsRight
  <2>1. ASSUME LogParts PROVE G!NewestHeld /\ G!NoneMissed /\ G!EachHeardOnce /\ G!LevelsAddUp /\ G!RequestsAnswered
    BY <2>1, HeldNewest, HeardOnce, LevelsCounted, Answered, Zenon DEF LogParts, PolledRight
  <2> QED
    BY <2>1, Zenon DEF LogInv, LogsRight, G!LogsRight
<1> QED
  BY <1>1, <1>2, <1>3, PTL DEF StorageSpec

-----------------------------------------------------------------------------
(* Schema evolution.  A call has at most the locks of its order.            *)
Calls == {"none"} \cup E!Changes \cup E!Lookups
CallsRight ==
  \A u \in Clients : s4[u].op \in Calls /\ s4[u].held \in 0 .. Len(E!Order(s4[u].op)) /\ "held" \in DOMAIN s4[u]
MigInv == part = "migrations" =>
  DOMAIN s4 = Clients /\ CallsRight /\ s5 \in Questions /\ (s6 = "none" \/ s6 = E!Answer(s5))

\* The locks in their order; find_direct and find_path take theirs backwards.
Rank(l) == IF l = "migrations" THEN 1 ELSE IF l = "direct" THEN 2 ELSE 3
LEMMA OrderIs ==
  ASSUME NEW op \in Calls
  PROVE  /\ Len(E!Order(op)) \in Nat
         /\ op = "none" => Len(E!Order(op)) = 0
         /\ op \notin E!Backwards =>
              \A i, j \in 1 .. Len(E!Order(op)) : i < j => Rank(E!Order(op)[i].lock) < Rank(E!Order(op)[j].lock)
         /\ \A i \in 1 .. Len(E!Order(op)) : Rank(E!Order(op)[i].lock) \in 1 .. 3
<1>1. CASE op = "none"
  BY <1>1 DEF E!Order
<1>2. CASE op = "register"
  BY <1>2 DEF E!Order, E!WriteLock, E!Read, Rank
<1>3. CASE op = "unregister"
  BY <1>3 DEF E!Order, E!WriteLock, E!Read, Rank
<1>4. CASE op = "migrations_from"
  BY <1>4 DEF E!Order, E!WriteLock, E!Read, Rank
<1>5. CASE op = "migrations_to"
  BY <1>5 DEF E!Order, E!WriteLock, E!Read, Rank
<1>6. CASE op = "find_direct"
  BY <1>6 DEF E!Order, E!WriteLock, E!Read, Rank, E!Backwards
<1>7. CASE op = "find_path"
  BY <1>7 DEF E!Order, E!WriteLock, E!Read, Rank, E!Backwards
<1> QED
  BY <1>1, <1>2, <1>3, <1>4, <1>5, <1>6, <1>7 DEF Calls, E!Changes, E!Lookups

LEMMA MigStarts ==
  ASSUME StorageInit
  PROVE  MigInv
<1> SUFFICES ASSUME part = "migrations" PROVE DOMAIN s4 = Clients /\ CallsRight /\ s5 \in Questions /\ s6 = "none"
  BY DEF MigInv
<1>1. E!Init
  BY DEF StorageInit
<1>2. \A u \in Clients : s4[u].op = "none" /\ s4[u].held = 0 /\ "held" \in DOMAIN s4[u]
  BY <1>1 DEF E!Init, E!NoCall
<1>3. "none" \in Calls /\ Len(E!Order("none")) = 0
  BY OrderIs DEF Calls
<1> QED
  BY <1>1, <1>2, <1>3 DEF CallsRight, E!Init

LEMMA MigStep ==
  ASSUME MigInv, [StorageNext]_storage
  PROVE  MigInv'
<1>1. part' = part
  BY DEF StorageNext, storage
<1> SUFFICES ASSUME part = "migrations"
             PROVE  (DOMAIN s4 = Clients /\ CallsRight /\ s5 \in Questions /\ (s6 = "none" \/ s6 = E!Answer(s5)))'
  BY <1>1 DEF MigInv
<1>2. DOMAIN s4 = Clients /\ CallsRight /\ s5 \in Questions /\ (s6 = "none" \/ s6 = E!Answer(s5))
  BY DEF MigInv
<1>3. E!Next \/ UNCHANGED shared
  BY DEF StorageNext, storage
<1>4. CASE UNCHANGED shared
  <2>1. s4' = s4 /\ s5' = s5 /\ s6' = s6
    BY <1>4 DEF shared
  <2> QED
    BY <1>2, <2>1 DEF CallsRight
<1>5. CASE E!Ask
  <2>1. s4' = s4 /\ s5' = s5 /\ s6' = E!Answer(s5)
    BY <1>5 DEF E!Ask
  <2> QED
    BY <1>2, <2>1 DEF CallsRight
<1>6. ASSUME NEW u \in Clients, NEW c, c.op \in Calls, c.held \in 0 .. Len(E!Order(c.op)), "held" \in DOMAIN c,
             s4' = [s4 EXCEPT ![u] = c], s5' = s5, s6' = s6
      PROVE  (DOMAIN s4 = Clients /\ CallsRight /\ s5 \in Questions /\ (s6 = "none" \/ s6 = E!Answer(s5)))'
  <2>1. DOMAIN s4' = Clients /\ CallsRight'
    BY <1>2, <1>6 DEF CallsRight
  <2>2. E!Answer(s5') = E!Answer(s5)
    BY <1>6
  <2> QED
    BY <1>2, <1>6, <2>1, <2>2
<1>7. ASSUME NEW u \in Clients, NEW op \in E!Changes \cup E!Lookups, NEW key, E!Call(u, op, key) PROVE
      (DOMAIN s4 = Clients /\ CallsRight /\ s5 \in Questions /\ (s6 = "none" \/ s6 = E!Answer(s5)))'
  <2> DEFINE c == [op |-> op, key |-> key, held |-> 0]
  <2>1. c.op = op /\ c.held = 0 /\ "held" \in DOMAIN c /\ s4' = [s4 EXCEPT ![u] = c] /\ s5' = s5 /\ s6' = s6
    BY <1>7 DEF E!Call
  <2>2. op \in Calls /\ 0 \in 0 .. Len(E!Order(op))
    BY OrderIs DEF Calls
  <2> HIDE DEF c
  <2> QED
    BY <1>6, <2>1, <2>2
<1>8. ASSUME NEW u \in Clients, E!Lock(u) PROVE
      (DOMAIN s4 = Clients /\ CallsRight /\ s5 \in Questions /\ (s6 = "none" \/ s6 = E!Answer(s5)))'
  <2> DEFINE c == [s4[u] EXCEPT !.held = s4[u].held + 1]
  <2>1. s4' = [s4 EXCEPT ![u] = c] /\ s5' = s5 /\ s6' = s6 /\ s4[u].held < Len(E!Order(s4[u].op))
    BY <1>8 DEF E!Lock, E!Waiting
  <2>2. s4[u].op \in Calls /\ s4[u].held \in 0 .. Len(E!Order(s4[u].op)) /\ Len(E!Order(s4[u].op)) \in Nat
    BY <1>2, OrderIs DEF CallsRight
  <2>3. "held" \in DOMAIN c /\ c.op = s4[u].op /\ c.held = s4[u].held + 1
    BY <1>2 DEF CallsRight
  <2> HIDE DEF c
  <2>4. c.held \in 0 .. Len(E!Order(c.op))
    BY <2>1, <2>2, <2>3
  <2> QED
    BY <1>6, <2>1, <2>2, <2>3, <2>4
<1>9. ASSUME NEW u \in Clients, NEW op, E!Through(u, op) PROVE
      (DOMAIN s4 = Clients /\ CallsRight /\ s5 \in Questions /\ (s6 = "none" \/ s6 = E!Answer(s5)))'
  <2>1. /\ E!NoCall.op = "none" /\ E!NoCall.held = 0 /\ "held" \in DOMAIN E!NoCall
        /\ s4' = [s4 EXCEPT ![u] = E!NoCall] /\ s5' = s5 /\ s6' = s6
    BY <1>9 DEF E!Through, E!NoCall
  <2>2. "none" \in Calls /\ 0 \in 0 .. Len(E!Order("none"))
    BY OrderIs DEF Calls
  <2> QED
    BY <1>6, <2>1, <2>2
<1> QED
  BY <1>3, <1>4, <1>5, <1>7, <1>8, <1>9, Zenon DEF E!Next, E!Register, E!Unregister, E!Look

\* Who is kept waiting waits for one who is kept waiting by a later lock.
LEMMA WaitsForLater ==
  ASSUME CallsRight, \A v \in Clients : s4[v].op \notin E!Backwards,
         \A v \in Clients : s4[v] # E!NoCall => E!Blocked(v),
         NEW u \in Clients, E!Blocked(u)
  PROVE  \E v \in Clients : E!Blocked(v) /\ Rank(E!Wanted(u).lock) < Rank(E!Wanted(v).lock)
<1>1. \E v \in Clients : \E h \in E!Holds(v) : h.lock = E!Wanted(u).lock
  <2>1. E!Read(E!Wanted(u).lock).lock = E!Wanted(u).lock
    BY DEF E!Read
  <2> QED
    BY <2>1, Zenon DEF E!Blocked
<1>2. PICK v \in Clients : \E h \in E!Holds(v) : h.lock = E!Wanted(u).lock
  BY <1>1
<1>3. PICK i \in 1 .. s4[v].held : E!Order(s4[v].op)[i].lock = E!Wanted(u).lock
  BY <1>2 DEF E!Holds
<1>4. s4[v].op \in Calls /\ s4[v].held \in 0 .. Len(E!Order(s4[v].op)) /\ Len(E!Order(s4[v].op)) \in Nat
  BY OrderIs DEF CallsRight
<1>5. s4[v] # E!NoCall
  <2>1. s4[v].op # "none"
    BY <1>3, <1>4, OrderIs
  <2> QED
    BY <2>1 DEF E!NoCall
<1>6. E!Blocked(v) /\ s4[v].held < Len(E!Order(s4[v].op))
  BY <1>5 DEF E!Blocked, E!Waiting
<1>7. i \in 1 .. Len(E!Order(s4[v].op)) /\ s4[v].held + 1 \in 1 .. Len(E!Order(s4[v].op)) /\ i < s4[v].held + 1
  BY <1>3, <1>4, <1>6
<1>8. Rank(E!Order(s4[v].op)[i].lock) < Rank(E!Order(s4[v].op)[s4[v].held + 1].lock)
  BY <1>4, <1>7, OrderIs
<1> QED
  BY <1>3, <1>6, <1>8 DEF E!Wanted

LEMMA NobodyCircles ==
  ASSUME CallsRight
  PROVE  E!NoCircle
<1> SUFFICES ASSUME NEW u \in Clients, s4[u] # E!NoCall, \A v \in Clients : s4[v].op \notin E!Backwards,
                    \A v \in Clients : s4[v] # E!NoCall => E!Blocked(v)
             PROVE  FALSE
  BY Zenon DEF E!NoCircle
<1>1. ASSUME NEW v \in Clients, E!Blocked(v) PROVE Rank(E!Wanted(v).lock) \in 1 .. 3
  <2>1. s4[v].op \in Calls /\ s4[v].held \in 0 .. Len(E!Order(s4[v].op)) /\ Len(E!Order(s4[v].op)) \in Nat
        /\ s4[v].held < Len(E!Order(s4[v].op))
    BY <1>1, OrderIs DEF CallsRight, E!Blocked, E!Waiting
  <2>2. s4[v].held + 1 \in 1 .. Len(E!Order(s4[v].op))
    BY <2>1
  <2> QED
    BY <2>1, <2>2, OrderIs DEF E!Wanted
<1>2. E!Blocked(u)
  OBVIOUS
<1>3. PICK v \in Clients : E!Blocked(v) /\ Rank(E!Wanted(u).lock) < Rank(E!Wanted(v).lock)
  BY <1>2, WaitsForLater
<1>4. PICK w \in Clients : E!Blocked(w) /\ Rank(E!Wanted(v).lock) < Rank(E!Wanted(w).lock)
  BY <1>3, WaitsForLater
<1>5. PICK x \in Clients : E!Blocked(x) /\ Rank(E!Wanted(w).lock) < Rank(E!Wanted(x).lock)
  BY <1>4, WaitsForLater
<1>6. /\ Rank(E!Wanted(u).lock) \in 1 .. 3 /\ Rank(E!Wanted(v).lock) \in 1 .. 3
      /\ Rank(E!Wanted(w).lock) \in 1 .. 3 /\ Rank(E!Wanted(x).lock) \in 1 .. 3
  BY <1>1, <1>2, <1>3, <1>4, <1>5
<1> HIDE DEF Rank
<1> QED
  BY <1>3, <1>4, <1>5, <1>6

\* What a compatible change is, field by field.
LEMMA CheckIs ==
  ASSUME NEW old, NEW new
  PROVE  E!Check(old, new) <=>
           /\ DOMAIN old \subseteq DOMAIN new
           /\ \A f \in DOMAIN new \ DOMAIN old : new[f].optional
           /\ \A f \in DOMAIN old \cap DOMAIN new :
                old[f].type = new[f].type /\ ~(old[f].optional /\ ~new[f].optional)
<1> DEFINE changes == E!DetectChanges(old, new)
           Change(f) == (IF old[f].type # new[f].type THEN {<<"ChangeFieldType", f>>} ELSE {})
                          \cup (IF old[f].optional /\ ~new[f].optional THEN {<<"MakeRequired", f>>} ELSE {})
                          \cup (IF ~old[f].optional /\ new[f].optional THEN {<<"MakeOptional", f>>} ELSE {})
<1>1. changes = {<<"RemoveField", f>> : f \in DOMAIN old \ DOMAIN new}
                  \cup {<<IF new[f].optional THEN "AddOptionalField" ELSE "AddRequiredField", f>> : f \in DOMAIN new \ DOMAIN old}
                  \cup UNION {Change(f) : f \in DOMAIN old \cap DOMAIN new}
  BY DEF E!DetectChanges
<1>2. E!Check(old, new) <=> \A c \in changes : ~E!IsBreaking(c[1])
  BY DEF E!Check
<1>3. ASSUME NEW f PROVE /\ \A c \in Change(f) : ~E!IsBreaking(c[1]) <=> c[1] = "MakeOptional"
                         /\ (\A c \in Change(f) : c[1] = "MakeOptional") <=>
                            old[f].type = new[f].type /\ ~(old[f].optional /\ ~new[f].optional)
  <2>1. ASSUME NEW c
        PROVE  c \in Change(f) <=> \/ old[f].type # new[f].type /\ c = <<"ChangeFieldType", f>>
                                   \/ (old[f].optional /\ ~new[f].optional) /\ c = <<"MakeRequired", f>>
                                   \/ (~old[f].optional /\ new[f].optional) /\ c = <<"MakeOptional", f>>
    BY Zenon
  <2>2. /\ <<"ChangeFieldType", f>>[1] = "ChangeFieldType" /\ <<"MakeRequired", f>>[1] = "MakeRequired"
        /\ <<"MakeOptional", f>>[1] = "MakeOptional" /\ E!IsBreaking("ChangeFieldType") /\ E!IsBreaking("MakeRequired")
        /\ ~E!IsBreaking("MakeOptional") /\ "ChangeFieldType" # "MakeOptional" /\ "MakeRequired" # "MakeOptional"
    BY DEF E!IsBreaking
  <2> HIDE DEF Change
  <2>3. ASSUME NEW c \in Change(f) PROVE ~E!IsBreaking(c[1]) <=> c[1] = "MakeOptional"
    <3>1. c = <<"ChangeFieldType", f>> \/ c = <<"MakeRequired", f>> \/ c = <<"MakeOptional", f>>
      BY <2>1, Zenon
    <3>2. c[1] = "ChangeFieldType" \/ c[1] = "MakeRequired" \/ c[1] = "MakeOptional"
      BY <2>2, <3>1
    <3> QED
      BY <2>2, <3>2
  <2>4. ASSUME \A c \in Change(f) : c[1] = "MakeOptional"
        PROVE  old[f].type = new[f].type /\ ~(old[f].optional /\ ~new[f].optional)
    <3>1. ASSUME old[f].type # new[f].type PROVE FALSE
      <4>1. <<"ChangeFieldType", f>> \in Change(f)
        BY <2>1, <3>1, Zenon
      <4> QED
        BY <2>2, <2>4, <4>1
    <3>2. ASSUME old[f].optional /\ ~new[f].optional PROVE FALSE
      <4>1. <<"MakeRequired", f>> \in Change(f)
        BY <2>1, <3>2, Zenon
      <4> QED
        BY <2>2, <2>4, <4>1
    <3> QED
      BY <3>1, <3>2
  <2>5. ASSUME old[f].type = new[f].type /\ ~(old[f].optional /\ ~new[f].optional), NEW c \in Change(f)
        PROVE  c[1] = "MakeOptional"
    <3>1. c = <<"MakeOptional", f>>
      BY <2>1, <2>5, Zenon
    <3> QED
      BY <2>2, <3>1
  <2> QED
    BY <2>3, <2>4, <2>5, Zenon
<1> HIDE DEF changes, Change
<1>4. ASSUME E!Check(old, new)
      PROVE  /\ DOMAIN old \subseteq DOMAIN new
             /\ \A f \in DOMAIN new \ DOMAIN old : new[f].optional
             /\ \A f \in DOMAIN old \cap DOMAIN new :
                  old[f].type = new[f].type /\ ~(old[f].optional /\ ~new[f].optional)
  <2>1. ASSUME NEW f \in DOMAIN old, f \notin DOMAIN new PROVE FALSE
    <3>1. <<"RemoveField", f>> \in changes
      BY <1>1, <2>1
    <3> QED
      BY <1>2, <1>4, <3>1 DEF E!IsBreaking
  <2>2. ASSUME NEW f \in DOMAIN new \ DOMAIN old, ~new[f].optional PROVE FALSE
    <3>1. <<"AddRequiredField", f>> \in changes
      BY <1>1, <2>2
    <3> QED
      BY <1>2, <1>4, <3>1 DEF E!IsBreaking
  <2>3. ASSUME NEW f \in DOMAIN old \cap DOMAIN new
        PROVE  old[f].type = new[f].type /\ ~(old[f].optional /\ ~new[f].optional)
    <3>1. Change(f) \subseteq changes
      BY <1>1, Zenon
    <3> QED
      BY <1>2, <1>3, <1>4, <3>1
  <2> QED
    BY <2>1, <2>2, <2>3
<1>5. ASSUME DOMAIN old \subseteq DOMAIN new,
             \A f \in DOMAIN new \ DOMAIN old : new[f].optional,
             \A f \in DOMAIN old \cap DOMAIN new :
               old[f].type = new[f].type /\ ~(old[f].optional /\ ~new[f].optional)
      PROVE  E!Check(old, new)
  <2>1. ASSUME NEW c \in changes PROVE ~E!IsBreaking(c[1])
    <3>1. CASE c \in {<<"RemoveField", f>> : f \in DOMAIN old \ DOMAIN new}
      BY <1>5, <3>1
    <3>2. CASE c \in {<<IF new[f].optional THEN "AddOptionalField" ELSE "AddRequiredField", f>> : f \in DOMAIN new \ DOMAIN old}
      BY <1>5, <3>2 DEF E!IsBreaking
    <3>3. CASE \E f \in DOMAIN old \cap DOMAIN new : c \in Change(f)
      BY <1>3, <1>5, <3>3
    <3> QED
      BY <1>1, <3>1, <3>2, <3>3, Zenon
  <2> QED
    BY <1>2, <2>1
<1> QED
  BY <1>4, <1>5

\* The data with all the fields of a schema, and with the required ones.
LEMMA CheckMeans ==
  ASSUME NEW old, NEW new, NEW names, NEW types, names = DOMAIN old \cup DOMAIN new,
         types = {old[f].type : f \in DOMAIN old} \cup {new[f].type : f \in DOMAIN new},
         \A f \in DOMAIN old : old[f].optional \in BOOLEAN, \A f \in DOMAIN new : new[f].optional \in BOOLEAN
  PROVE  /\ E!Check(old, new) <=> E!Instances(old, names, types) \subseteq E!Instances(new, names, types)
         /\ E!Check(old, new) => E!IsCompatibleWith(old, new)
<1> DEFINE Data == UNION {[N -> types] : N \in SUBSET names}
           Fits(d, schema) ==
             /\ DOMAIN d \subseteq DOMAIN schema
             /\ \A f \in DOMAIN schema : IF f \in DOMAIN d THEN d[f] = schema[f].type ELSE schema[f].optional
<1>1. \A schema, d : d \in E!Instances(schema, names, types) <=> d \in Data /\ Fits(d, schema)
  BY DEF E!Instances
<1>2. ASSUME NEW N \in SUBSET DOMAIN old
      PROVE  LET d == [f \in N |-> old[f].type] IN d \in Data /\ DOMAIN d = N /\ \A f \in N : d[f] = old[f].type
  <2>1. [f \in N |-> old[f].type] \in [N -> types] /\ N \in SUBSET names
    OBVIOUS
  <2> QED
    BY <2>1
<1> HIDE DEF Data
<1>3. ASSUME E!Check(old, new)
      PROVE  E!Instances(old, names, types) \subseteq E!Instances(new, names, types) /\ E!IsCompatibleWith(old, new)
  <2>1. /\ DOMAIN old \subseteq DOMAIN new
        /\ \A f \in DOMAIN new \ DOMAIN old : new[f].optional
        /\ \A f \in DOMAIN old \cap DOMAIN new :
             old[f].type = new[f].type /\ ~(old[f].optional /\ ~new[f].optional)
    BY <1>3, CheckIs
  <2>2. ASSUME NEW d, Fits(d, old) PROVE Fits(d, new)
    BY <2>1, <2>2
  <2>3. E!IsCompatibleWith(old, new)
    BY <2>1 DEF E!IsCompatibleWith
  <2> HIDE DEF Fits
  <2> QED
    BY <1>1, <2>2, <2>3, Zenon
<1>4. ASSUME E!Instances(old, names, types) \subseteq E!Instances(new, names, types)
      PROVE  E!Check(old, new)
  <2> DEFINE d == [f \in DOMAIN old |-> old[f].type]
             N == {f \in DOMAIN old : ~old[f].optional}
             e == [f \in N |-> old[f].type]
  <2>1. d \in Data /\ DOMAIN d = DOMAIN old /\ \A f \in DOMAIN old : d[f] = old[f].type
    BY <1>2
  <2>2. e \in Data /\ DOMAIN e = N /\ \A f \in N : e[f] = old[f].type
    BY <1>2
  <2> HIDE DEF d, e
  <2>3. Fits(d, old) /\ Fits(e, old)
    BY <2>1, <2>2
  <2>4. Fits(d, new) /\ Fits(e, new)
    <3> HIDE DEF Fits, N
    <3> QED
      BY <1>1, <1>4, <2>1, <2>2, <2>3, Zenon
  <2>5. /\ DOMAIN old \subseteq DOMAIN new
        /\ \A f \in DOMAIN new \ DOMAIN old : new[f].optional
        /\ \A f \in DOMAIN old \cap DOMAIN new : old[f].type = new[f].type
    BY <2>1, <2>4
  <2>6. ASSUME NEW f \in DOMAIN old \cap DOMAIN new, old[f].optional PROVE new[f].optional
    BY <2>2, <2>4, <2>6
  <2> QED
    BY <2>5, <2>6, CheckIs
<1> QED
  BY <1>3, <1>4

\* Versions are ordered.
LEMMA VersionsOrdered ==
  ASSUME NEW x \in Nat \X Nat, NEW y \in Nat \X Nat
  PROVE  /\ E!AtMost(x, y) \/ E!AtMost(y, x)
         /\ E!AtMost(x, x)
         /\ \A z \in Nat \X Nat : E!AtMost(x, y) /\ E!AtMost(y, z) => E!AtMost(x, z)
BY DEF E!AtMost

LEMMA OverlapMeans ==
  ASSUME NEW r, NEW s, r.min \in Nat \X Nat, r.max \in Nat \X Nat, r.open \in BOOLEAN,
         s.min \in Nat \X Nat, s.max \in Nat \X Nat, s.open \in BOOLEAN, E!NotEmpty(r), E!NotEmpty(s),
         NEW a \in Nat \X Nat, NEW b \in Nat \X Nat
  PROVE  E!Overlaps(r, s) <=> \E v \in {r.min, s.min, a, b} : E!InRange(r, v) /\ E!InRange(s, v)
<1>1. ASSUME NEW v \in Nat \X Nat, E!InRange(r, v), E!InRange(s, v) PROVE E!Overlaps(r, s)
  <2>1. E!AtMost(r.min, v) /\ E!AtMost(s.min, v) /\ (r.open \/ E!AtMost(v, r.max)) /\ (s.open \/ E!AtMost(v, s.max))
    BY <1>1, Zenon DEF E!InRange
  <2> QED
    BY <2>1, VersionsOrdered DEF E!Overlaps
<1>2. ASSUME E!Overlaps(r, s) PROVE \E v \in {r.min, s.min} : E!InRange(r, v) /\ E!InRange(s, v)
  <2>1. CASE E!AtMost(r.min, s.min)
    BY <1>2, <2>1, VersionsOrdered DEF E!Overlaps, E!InRange, E!NotEmpty
  <2>2. CASE E!AtMost(s.min, r.min)
    BY <1>2, <2>2, VersionsOrdered DEF E!Overlaps, E!InRange, E!NotEmpty
  <2> QED
    BY <2>1, <2>2, VersionsOrdered
<1> QED
  BY <1>1, <1>2

LEMMA RightlyAnswered ==
  ASSUME s5 \in Questions, s6 = "none" \/ s6 = E!Answer(s5)
  PROVE  E!AnswersRight
<1>1. E!SchemaAnswered
  <2> SUFFICES ASSUME "from" \in DOMAIN s5, s6 # "none"
               PROVE  LET old == s5.from  new == s5.to
                          names == DOMAIN old \cup DOMAIN new
                          types == {old[f].type : f \in DOMAIN old} \cup {new[f].type : f \in DOMAIN new}
                      IN /\ s6 = "yes" <=> E!Instances(old, names, types) \subseteq E!Instances(new, names, types)
                         /\ s6 = "yes" => E!IsCompatibleWith(old, new)
    BY Zenon DEF E!SchemaAnswered
  <2>1. s6 = "yes" <=> E!Check(s5.from, s5.to)
    <3>1. E!Answer(s5) = IF E!Check(s5.from, s5.to) THEN "yes" ELSE "no"
      BY Zenon DEF E!Answer
    <3>2. s6 = IF E!Check(s5.from, s5.to) THEN "yes" ELSE "no"
      BY <3>1
    <3> QED
      BY <3>2
  <2>2. (\A f \in DOMAIN s5.from : s5.from[f].optional \in BOOLEAN) /\ (\A f \in DOMAIN s5.to : s5.to[f].optional \in BOOLEAN)
    BY StorageAssumption DEF E!MigrationsConstants
  <2> DEFINE old == s5.from
             new == s5.to
             names == DOMAIN old \cup DOMAIN new
             types == {old[f].type : f \in DOMAIN old} \cup {new[f].type : f \in DOMAIN new}
  <2>3. /\ E!Check(old, new) <=> E!Instances(old, names, types) \subseteq E!Instances(new, names, types)
        /\ E!Check(old, new) => E!IsCompatibleWith(old, new)
    BY <2>2, CheckMeans, Zenon
  <2> QED
    BY <2>1, <2>3, Zenon
<1>2. E!RangesAnswered
  <2> SUFFICES ASSUME "from" \notin DOMAIN s5, "r" \in DOMAIN s5, s6 # "none", E!NotEmpty(s5.r), E!NotEmpty(s5.s)
               PROVE  LET r == s5.r  s == s5.s
                          most == [r |-> IF r.open THEN s.min ELSE r.max, s |-> IF s.open THEN r.min ELSE s.max]
                      IN s6 = "yes" <=> \E v \in {r.min, s.min, most.r, most.s} : E!InRange(r, v) /\ E!InRange(s, v)
    BY Zenon DEF E!RangesAnswered
  <2>1. s6 = "yes" <=> E!Overlaps(s5.r, s5.s)
    BY DEF E!Answer
  <2>2. /\ s5.r.min \in Nat \X Nat /\ s5.r.max \in Nat \X Nat /\ s5.r.open \in BOOLEAN
        /\ s5.s.min \in Nat \X Nat /\ s5.s.max \in Nat \X Nat /\ s5.s.open \in BOOLEAN
    BY StorageAssumption DEF E!MigrationsConstants
  <2> DEFINE a == IF s5.r.open THEN s5.s.min ELSE s5.r.max
             b == IF s5.s.open THEN s5.r.min ELSE s5.s.max
  <2>3. a \in Nat \X Nat /\ b \in Nat \X Nat
    BY <2>2
  <2> HIDE DEF a, b
  <2>4. s6 = "yes" <=> \E v \in {s5.r.min, s5.s.min, a, b} : E!InRange(s5.r, v) /\ E!InRange(s5.s, v)
    BY <2>1, <2>2, <2>3, OverlapMeans
  <2>5. [r |-> a, s |-> b].r = a /\ [r |-> a, s |-> b].s = b
    OBVIOUS
  <2> QED
    BY <2>4, <2>5, Zenon DEF a, b
<1> QED
  BY <1>1, <1>2 DEF E!AnswersRight

(* Schema evolution.  For any number of threads: the calls that change the  *)
(* registry of migrations, or list what leads from or to a schema, never    *)
(* wait for one another in a circle (find_direct and find_path, which lock  *)
(* in the opposite order, may); and for all schemas and ranges the report   *)
(* on a change is right: it breaks nothing exactly if all data of the old   *)
(* schema is data of the new one.                                           *)
THEOREM EvolutionIsSound == StorageSpec => [](part = "migrations" => E!NoCircle /\ E!AnswersRight)
<1>1. StorageInit => MigInv
  BY MigStarts
<1>2. MigInv /\ [StorageNext]_storage => MigInv'
  BY MigStep
<1>3. MigInv => (part = "migrations" => E!NoCircle /\ E!AnswersRight)
  BY NobodyCircles, RightlyAnswered DEF MigInv
<1> QED
  BY <1>1, <1>2, <1>3, PTL DEF StorageSpec

-----------------------------------------------------------------------------
(* The registry of schemas.  A history has its versions in order.           *)
Histories == Seq({H!Entry(i) : i \in Infos})
InOrder(h) == \A j, k \in 1 .. Len(h) : j < k => h[j].version < h[k].version
VersionsIn(h) == {h[k].version : k \in 1 .. Len(h)}

LEMMA InfoVersion == \A i \in Infos : H!Entry(i).version = i.version /\ i.version \in Nat
BY StorageAssumption DEF H!Entry, H!SchemasConstants

LEMMA HistoryIs ==
  ASSUME NEW h \in Histories
  PROVE  Len(h) \in Nat /\ DOMAIN h = 1 .. Len(h) /\ \A k \in 1 .. Len(h) : h[k].version \in Nat
<1>1. Len(h) \in Nat /\ DOMAIN h = 1 .. Len(h) /\ \A k \in 1 .. Len(h) : h[k] \in {H!Entry(i) : i \in Infos}
  BY DEF Histories
<1> QED
  BY <1>1, InfoVersion

\* A new version has its place in the order.
LEMMA SortedIs ==
  ASSUME NEW h \in Histories, InOrder(h), NEW i \in Infos, i.version \notin VersionsIn(h)
  PROVE  LET s == H!Sorted(Append(h, H!Entry(i))) IN
         s \in Histories /\ InOrder(s) /\ VersionsIn(s) = VersionsIn(h) \cup {i.version}
<1> DEFINE n == Len(h)
           x == H!Entry(i)
           v == i.version
           a == Append(h, x)
<1>1. n \in Nat /\ DOMAIN h = 1 .. n /\ \A k \in 1 .. n : h[k].version \in Nat /\ h[k] \in {H!Entry(j) : j \in Infos}
  BY HistoryIs DEF Histories
<1>2. x.version = v /\ v \in Nat /\ x \in {H!Entry(j) : j \in Infos}
  BY InfoVersion
<1>3. /\ a \in Histories /\ Len(a) = n + 1 /\ DOMAIN a = 1 .. n + 1 /\ a[n + 1] = x
      /\ \A k \in 1 .. n : a[k] = h[k]
  BY <1>1, <1>2 DEF Histories
<1>4. \A k \in 1 .. n : h[k].version # v
  BY DEF VersionsIn
<1> HIDE DEF x, a, n, v
<1> DEFINE Above(m) == m \in 0 .. n /\ (\A k \in 1 .. m : h[k].version < v) /\ \A k \in m + 1 .. n : h[k].version > v
<1>5. \E m \in 0 .. n : Above(m)
  <2> DEFINE over == {k \in 1 .. n : h[k].version > v}
  <2>1. CASE over = {}
    <3>1. \A k \in 1 .. n : h[k].version < v
      BY <1>1, <1>2, <1>4, <2>1
    <3>2. Above(n)
      BY <1>1, <3>1
    <3> QED
      BY <1>1, <3>2
  <2>2. CASE over # {}
    <3>1. over \in SUBSET Nat
      BY <1>1
    <3>2. PICK m \in over : \A y \in over : m <= y
      <4> HIDE DEF over
      <4> QED
        BY <2>2, <3>1, LeastNumber
    <3>3. m \in 1 .. n /\ h[m].version > v /\ m - 1 \in 0 .. n
      BY <1>1, <3>2
    <3>4. ASSUME NEW k \in 1 .. m - 1 PROVE h[k].version < v
      <4>1. k \in 1 .. n /\ ~(m <= k)
        BY <1>1, <3>3
      <4>2. k \notin over
        BY <3>2, <4>1
      <4> QED
        BY <1>1, <1>2, <1>4, <4>1, <4>2
    <3>5. ASSUME NEW k \in (m - 1) + 1 .. n PROVE h[k].version > v
      <4>1. k \in 1 .. n /\ (k = m \/ m < k)
        BY <1>1, <3>3
      <4>2. CASE m < k
        <5>1. h[m].version < h[k].version
          BY <3>3, <4>1, <4>2 DEF InOrder, n
        <5> QED
          BY <1>1, <1>2, <3>3, <4>1, <5>1
      <4> QED
        BY <3>3, <4>1, <4>2
    <3> QED
      BY <3>3, <3>4, <3>5
  <2> QED
    BY <2>1, <2>2
<1>6. PICK m \in 0 .. n : Above(m)
  BY <1>5
<1> DEFINE t == [k \in 1 .. n + 1 |-> IF k <= m THEN h[k] ELSE IF k = m + 1 THEN x ELSE h[k - 1]]
<1>7. DOMAIN t = 1 .. n + 1 /\ \A k \in 1 .. n + 1 :
        /\ k <= m => t[k] = h[k] /\ k \in 1 .. m /\ k \in 1 .. n
        /\ k = m + 1 => t[k] = x
        /\ k > m + 1 => t[k] = h[k - 1] /\ k - 1 \in m + 1 .. n /\ k - 1 \in 1 .. n
  BY <1>1
<1>f. t = [k \in 1 .. n + 1 |-> t[k]]
  OBVIOUS
<1> HIDE DEF t
<1>8. ASSUME NEW k \in 1 .. n + 1 PROVE k <= m \/ k = m + 1 \/ k > m + 1
  BY <1>1
<1> DEFINE Sorts(s) == H!ToSet(s) = H!ToSet(a) /\ \A j, k \in DOMAIN s : j < k => s[j].version < s[k].version
<1>9. H!ToSet(t) = H!ToSet(a)
  <2>1. ASSUME NEW k \in 1 .. n + 1 PROVE \E l \in 1 .. n + 1 : a[l] = t[k]
    <3>1. CASE k <= m
      BY <1>1, <1>3, <1>7, <3>1
    <3>2. CASE k = m + 1
      BY <1>1, <1>3, <1>7, <3>2
    <3>3. CASE k > m + 1
      <4>1. k - 1 \in 1 .. n /\ k - 1 \in 1 .. n + 1 /\ t[k] = h[k - 1]
        BY <1>1, <1>7, <3>3
      <4> QED
        BY <1>3, <4>1
    <3> QED
      BY <1>8, <3>1, <3>2, <3>3
  <2>2. ASSUME NEW k \in 1 .. n + 1 PROVE \E l \in 1 .. n + 1 : t[l] = a[k]
    <3>1. CASE k = n + 1
      <4>1. m + 1 \in 1 .. n + 1
        BY <1>1
      <4> QED
        BY <1>3, <1>7, <3>1, <4>1
    <3>2. CASE k # n + 1 /\ k <= m
      <4>1. k \in 1 .. n
        BY <1>1, <3>2
      <4> QED
        BY <1>3, <1>7, <3>2, <4>1
    <3>3. CASE k # n + 1 /\ ~(k <= m)
      <4>1. k \in 1 .. n /\ k + 1 \in 1 .. n + 1 /\ k + 1 > m + 1 /\ (k + 1) - 1 = k
        BY <1>1, <3>3
      <4>2. t[k + 1] = h[k]
        BY <1>7, <4>1
      <4> QED
        BY <1>3, <4>1, <4>2
    <3> QED
      BY <3>1, <3>2, <3>3
  <2>3. DOMAIN t = 1 .. n + 1 /\ DOMAIN a = 1 .. n + 1
    BY <1>3, <1>7
  <2>4. ASSUME NEW y \in H!ToSet(t) PROVE y \in H!ToSet(a)
    <3>1. PICK k \in 1 .. n + 1 : y = t[k]
      BY <2>3 DEF H!ToSet
    <3>2. PICK l \in 1 .. n + 1 : a[l] = y
      BY <2>1, <3>1
    <3> QED
      BY <2>3, <3>2 DEF H!ToSet
  <2>5. ASSUME NEW y \in H!ToSet(a) PROVE y \in H!ToSet(t)
    <3>1. PICK k \in 1 .. n + 1 : y = a[k]
      BY <2>3 DEF H!ToSet
    <3>2. PICK l \in 1 .. n + 1 : t[l] = y
      BY <2>2, <3>1
    <3> QED
      BY <2>3, <3>2 DEF H!ToSet
  <2> QED
    BY <2>4, <2>5
<1>10. ASSUME NEW j \in 1 .. n + 1, NEW k \in 1 .. n + 1, j < k PROVE t[j].version < t[k].version
  <2>1. CASE k <= m
    <3>1. j \in 1 .. n /\ k \in 1 .. n /\ t[j] = h[j] /\ t[k] = h[k]
      BY <1>1, <1>7, <1>10, <2>1
    <3> QED
      BY <1>10, <3>1 DEF InOrder, n
  <2>2. CASE k = m + 1
    <3>1. j \in 1 .. m /\ t[j] = h[j] /\ t[k] = x
      BY <1>1, <1>7, <1>10, <2>2
    <3> QED
      BY <1>2, <1>6, <3>1
  <2>3. CASE k > m + 1 /\ j <= m
    <3>1. j \in 1 .. n /\ k - 1 \in 1 .. n /\ j < k - 1 /\ t[j] = h[j] /\ t[k] = h[k - 1]
      BY <1>1, <1>7, <1>10, <2>3
    <3> QED
      BY <3>1 DEF InOrder, n
  <2>4. CASE k > m + 1 /\ j = m + 1
    <3>1. k - 1 \in m + 1 .. n /\ k - 1 \in 1 .. n /\ t[j] = x /\ t[k] = h[k - 1]
      BY <1>1, <1>7, <1>10, <2>4
    <3> QED
      BY <1>1, <1>2, <1>6, <3>1
  <2>5. CASE k > m + 1 /\ j > m + 1
    <3>1. j - 1 \in 1 .. n /\ k - 1 \in 1 .. n /\ j - 1 < k - 1 /\ t[j] = h[j - 1] /\ t[k] = h[k - 1]
      BY <1>1, <1>7, <1>10, <2>5
    <3> QED
      BY <3>1 DEF InOrder, n
  <2> QED
    BY <1>8, <2>1, <2>2, <2>3, <2>4, <2>5
<1>11. t \in [DOMAIN a -> H!ToSet(a)] /\ Sorts(t)
  <2>1. ASSUME NEW k \in 1 .. n + 1 PROVE t[k] \in H!ToSet(t)
    BY <1>7 DEF H!ToSet
  <2>2. \A k \in DOMAIN a : t[k] \in H!ToSet(a)
    BY <1>3, <1>9, <2>1
  <2>3. t \in [DOMAIN a -> H!ToSet(a)]
    BY <1>3, <1>f, <2>2
  <2> QED
    BY <1>7, <1>9, <1>10, <2>3
<1> DEFINE s == H!Sorted(a)
<1>12. s \in [DOMAIN a -> H!ToSet(a)] /\ Sorts(s)
  <2>1. s = CHOOSE y \in [DOMAIN a -> H!ToSet(a)] : Sorts(y)
    BY DEF H!Sorted
  <2> HIDE DEF s, Sorts
  <2> QED
    BY <1>11, <2>1, Zenon
<1> HIDE DEF s
<1>13. DOMAIN s = 1 .. n + 1 /\ \A k \in 1 .. n + 1 : s[k] \in H!ToSet(a)
  BY <1>3, <1>12
<1>14. H!ToSet(a) \subseteq {H!Entry(j) : j \in Infos}
  <2>1. \A k \in DOMAIN a : a[k] \in {H!Entry(j) : j \in Infos}
    BY <1>3 DEF Histories
  <2> QED
    BY <2>1 DEF H!ToSet
<1>15. s \in Histories /\ Len(s) = n + 1
  <2>1. s \in [1 .. n + 1 -> {H!Entry(j) : j \in Infos}] /\ n + 1 \in Nat
    BY <1>1, <1>3, <1>12, <1>14
  <2> QED
    BY <2>1 DEF Histories
<1>16. InOrder(s)
  BY <1>12, <1>13, <1>15 DEF InOrder
<1>17. VersionsIn(s) = VersionsIn(h) \cup {v}
  <2>1. VersionsIn(s) = {y.version : y \in H!ToSet(s)}
    BY <1>13, <1>15 DEF VersionsIn, H!ToSet
  <2>2. {y.version : y \in H!ToSet(a)} = VersionsIn(h) \cup {v}
    <3>1. ASSUME NEW y \in H!ToSet(a) PROVE y.version \in VersionsIn(h) \cup {v}
      <4>1. PICK k \in 1 .. n + 1 : y = a[k]
        BY <1>3 DEF H!ToSet
      <4>2. CASE k = n + 1
        BY <1>2, <1>3, <4>1, <4>2
      <4>3. CASE k # n + 1
        <5>1. k \in 1 .. n
          BY <1>1, <4>3
        <5> QED
          BY <1>3, <4>1, <5>1 DEF VersionsIn, n
      <4> QED
        BY <4>2, <4>3
    <3>2. ASSUME NEW w \in VersionsIn(h) PROVE \E y \in H!ToSet(a) : y.version = w
      <4>1. PICK k \in 1 .. n : w = h[k].version
        BY DEF VersionsIn, n
      <4>2. k \in DOMAIN a /\ a[k] = h[k]
        BY <1>1, <1>3, <4>1
      <4> QED
        BY <4>1, <4>2 DEF H!ToSet
    <3>3. \E y \in H!ToSet(a) : y.version = v
      <4>1. n + 1 \in DOMAIN a
        BY <1>1, <1>3
      <4> QED
        BY <1>2, <1>3, <4>1 DEF H!ToSet
    <3> QED
      BY <3>1, <3>2, <3>3
  <2> QED
    BY <1>12, <2>1, <2>2
<1> QED
  BY <1>15, <1>16, <1>17 DEF s, a, x, v

\* There is one order of a set of versions.
LEMMA OneOrder ==
  ASSUME NEW g \in Histories, NEW h \in Histories, InOrder(g), InOrder(h), VersionsIn(g) = VersionsIn(h)
  PROVE  Len(g) = Len(h) /\ \A k \in 1 .. Len(g) : g[k].version = h[k].version
<1>1. /\ Len(g) \in Nat /\ \A k \in 1 .. Len(g) : g[k].version \in Nat
      /\ Len(h) \in Nat /\ \A k \in 1 .. Len(h) : h[k].version \in Nat
  BY HistoryIs
<1>2. /\ \A k \in 1 .. Len(g) : \E j \in 1 .. Len(h) : h[j].version = g[k].version
      /\ \A k \in 1 .. Len(h) : \E j \in 1 .. Len(g) : g[j].version = h[k].version
  BY DEF VersionsIn
<1> DEFINE apart == {k \in Nat : k \in 1 .. Len(g) /\ k \in 1 .. Len(h) /\ g[k].version # h[k].version}
<1>3. apart = {}
  <2> SUFFICES ASSUME apart # {} PROVE FALSE
    OBVIOUS
  <2>1. apart \in SUBSET Nat
    OBVIOUS
  <2>2. PICK k \in apart : \A y \in apart : k <= y
    <3> HIDE DEF apart
    <3> QED
      BY <2>1, LeastNumber
  <2>3. k \in 1 .. Len(g) /\ k \in 1 .. Len(h) /\ g[k].version # h[k].version
    BY <2>2
  <2>4. ASSUME NEW j \in 1 .. k - 1 PROVE j \in 1 .. Len(g) /\ j \in 1 .. Len(h) /\ g[j].version = h[j].version /\ j < k
    <3>1. j \in 1 .. Len(g) /\ j \in 1 .. Len(h) /\ j < k /\ ~(k <= j) /\ j \in Nat
      BY <1>1, <2>3
    <3>2. j \notin apart
      BY <2>2, <3>1
    <3> QED
      BY <3>1, <3>2
  <2>5. CASE g[k].version < h[k].version
    <3>1. PICK j \in 1 .. Len(h) : h[j].version = g[k].version
      BY <1>2, <2>3
    <3>2. CASE j < k
      <4>1. j \in 1 .. k - 1
        BY <1>1, <2>3, <3>2
      <4>2. g[j].version = g[k].version /\ j \in 1 .. Len(g)
        BY <2>4, <3>1, <4>1
      <4>3. g[j].version < g[k].version
        BY <2>3, <3>2, <4>2 DEF InOrder
      <4> QED
        BY <1>1, <2>3, <4>2, <4>3
    <3>3. CASE k < j
      <4>1. h[k].version < h[j].version
        BY <2>3, <3>3 DEF InOrder
      <4> QED
        BY <1>1, <2>3, <2>5, <3>1, <4>1
    <3>4. j = k \/ j < k \/ k < j
      BY <1>1, <2>3
    <3> QED
      BY <2>3, <3>1, <3>2, <3>3, <3>4
  <2>6. CASE h[k].version < g[k].version
    <3>1. PICK j \in 1 .. Len(g) : g[j].version = h[k].version
      BY <1>2, <2>3
    <3>2. CASE j < k
      <4>1. j \in 1 .. k - 1
        BY <1>1, <2>3, <3>2
      <4>2. h[j].version = h[k].version /\ j \in 1 .. Len(h)
        BY <2>4, <3>1, <4>1
      <4>3. h[j].version < h[k].version
        BY <2>3, <3>2, <4>2 DEF InOrder
      <4> QED
        BY <1>1, <2>3, <4>2, <4>3
    <3>3. CASE k < j
      <4>1. g[k].version < g[j].version
        BY <2>3, <3>3 DEF InOrder
      <4> QED
        BY <1>1, <2>3, <2>6, <3>1, <4>1
    <3>4. j = k \/ j < k \/ k < j
      BY <1>1, <2>3
    <3> QED
      BY <2>3, <3>1, <3>2, <3>3, <3>4
  <2> QED
    BY <1>1, <2>3, <2>5, <2>6
<1>4. ~(Len(g) < Len(h))
  <2> SUFFICES ASSUME Len(g) < Len(h) PROVE FALSE
    OBVIOUS
  <2>1. Len(g) + 1 \in 1 .. Len(h)
    BY <1>1
  <2>2. PICK j \in 1 .. Len(g) : g[j].version = h[Len(g) + 1].version
    BY <1>2, <2>1
  <2>3. j \in 1 .. Len(h) /\ j < Len(g) + 1 /\ j \in Nat
    BY <1>1
  <2>4. h[j].version < h[Len(g) + 1].version /\ g[j].version = h[j].version
    BY <1>3, <2>1, <2>3 DEF InOrder
  <2> QED
    BY <1>1, <2>1, <2>2, <2>3, <2>4
<1>5. ~(Len(h) < Len(g))
  <2> SUFFICES ASSUME Len(h) < Len(g) PROVE FALSE
    OBVIOUS
  <2>1. Len(h) + 1 \in 1 .. Len(g)
    BY <1>1
  <2>2. PICK j \in 1 .. Len(h) : h[j].version = g[Len(h) + 1].version
    BY <1>2, <2>1
  <2>3. j \in 1 .. Len(g) /\ j < Len(h) + 1 /\ j \in Nat
    BY <1>1
  <2>4. g[j].version < g[Len(h) + 1].version /\ g[j].version = h[j].version
    BY <1>3, <2>1, <2>3 DEF InOrder
  <2> QED
    BY <1>1, <2>1, <2>2, <2>3, <2>4
<1>6. Len(g) = Len(h)
  BY <1>1, <1>4, <1>5
<1>7. ASSUME NEW k \in 1 .. Len(g) PROVE g[k].version = h[k].version
  <2>1. k \in Nat /\ k \in 1 .. Len(h)
    BY <1>1, <1>6
  <2> QED
    BY <1>3, <2>1
<1> QED
  BY <1>6, <1>7

\* A registry: names, hashes and histories agree.
OfFamily(sch, f) == {sch[n].version : n \in {m \in DOMAIN sch : sch[m].family = f}}
NamesRight(sch) ==
  /\ sch \in [DOMAIN sch -> Infos] /\ IsFiniteSet(DOMAIN sch)
  /\ \A n \in DOMAIN sch : H!NameOf(sch[n]) = n
HashesKnown(sch, bh, repl) ==
  \A h \in DOMAIN bh : bh[h] \in DOMAIN sch /\ (sch[bh[h]].hash = h \/ bh[h] \in repl)
HistoriesRight(sch, vs) ==
  /\ vs \in [H!Families -> Histories]
  /\ \A f \in H!Families : InOrder(vs[f]) /\ VersionsIn(vs[f]) = OfFamily(sch, f)
RegistryRight(r, repl) ==
  NamesRight(r.schemas) /\ HashesKnown(r.schemas, r.by_hash, repl) /\ HistoriesRight(r.schemas, r.versions)

LEMMA EmptyRight == RegistryRight(H!Empty, {}) /\ H!Empty.schemas = <<>>
<1>1. H!Empty.schemas = <<>> /\ H!Empty.by_hash = <<>> /\ H!Empty.versions = [f \in H!Families |-> <<>>]
  BY DEF H!Empty
<1>2. NamesRight(<<>>) /\ HashesKnown(<<>>, <<>>, {})
  BY FS_EmptySet DEF NamesRight, HashesKnown
<1>3. HistoriesRight(<<>>, [f \in H!Families |-> <<>>])
  BY DEF HistoriesRight, Histories, InOrder, VersionsIn, OfFamily
<1> QED
  BY <1>1, <1>2, <1>3 DEF RegistryRight

\* What registering i makes of a registry.
Grown(q, r, i, repl) ==
  /\ RegistryRight(q, repl) /\ DOMAIN q.schemas = DOMAIN r.schemas \cup {H!NameOf(i)}
  /\ q.schemas[H!NameOf(i)] = i
  /\ \A n \in DOMAIN r.schemas \ {H!NameOf(i)} : q.schemas[n] = r.schemas[n]

LEMMA RegistersRight ==
  ASSUME NEW r, NEW repl, RegistryRight(r, repl), NEW i \in Infos, NEW repl2, repl \subseteq repl2,
         H!NameOf(i) \in DOMAIN r.schemas /\ r.schemas[H!NameOf(i)].hash # i.hash => H!NameOf(i) \in repl2
  PROVE  Grown(H!Registered(r, i), r, i, repl2)
<1> DEFINE name == H!NameOf(i)
           sch == r.schemas
           bh == r.by_hash
           vs == r.versions
           q == H!Registered(r, i)
           sch2 == H!With(sch, name, i)
           bh2 == H!With(bh, i.hash, name)
           vs2 == [vs EXCEPT ![i.family] = H!WithVersion(@, i)]
<1>1. q.schemas = sch2 /\ q.by_hash = bh2 /\ q.versions = vs2
  BY DEF H!Registered
<1>2. NamesRight(sch) /\ HashesKnown(sch, bh, repl) /\ HistoriesRight(sch, vs)
  BY DEF RegistryRight
<1>3. name = <<i.family, i.version, i.minor>> /\ i.family \in H!Families
  BY DEF H!NameOf, H!Families
<1>4. DOMAIN sch2 = DOMAIN sch \cup {name} /\ sch2[name] = i /\ (\A n \in DOMAIN sch \ {name} : sch2[n] = sch[n])
      /\ sch2 = [n \in DOMAIN sch \cup {name} |-> sch2[n]]
  BY DEF H!With
<1>5. DOMAIN bh2 = DOMAIN bh \cup {i.hash} /\ bh2[i.hash] = name /\ \A h \in DOMAIN bh \ {i.hash} : bh2[h] = bh[h]
  BY DEF H!With
<1> HIDE DEF q, sch2, bh2, name
<1>6. NamesRight(sch2)
  <2>1. IsFiniteSet(DOMAIN sch2)
    BY <1>2, <1>4, FS_AddElement DEF NamesRight
  <2>2. \A n \in DOMAIN sch2 : sch2[n] \in Infos /\ H!NameOf(sch2[n]) = n
    BY <1>2, <1>4 DEF NamesRight, name
  <2>3. sch2 \in [DOMAIN sch2 -> Infos]
    BY <1>4, <2>2
  <2> QED
    BY <2>1, <2>2, <2>3 DEF NamesRight
<1>7. HashesKnown(sch2, bh2, repl2)
  <2>1. ASSUME NEW h \in DOMAIN bh2 PROVE bh2[h] \in DOMAIN sch2 /\ (sch2[bh2[h]].hash = h \/ bh2[h] \in repl2)
    <3>1. CASE h = i.hash
      BY <1>4, <1>5, <3>1
    <3>2. CASE h # i.hash
      <4>1. h \in DOMAIN bh /\ bh2[h] = bh[h] /\ bh[h] \in DOMAIN sch /\ (sch[bh[h]].hash = h \/ bh[h] \in repl)
        BY <1>2, <1>5, <3>2 DEF HashesKnown
      <4>2. CASE bh[h] = name
        <5>1. bh[h] \in repl2
          BY <3>2, <4>1, <4>2 DEF name
        <5> QED
          BY <1>4, <4>1, <5>1
      <4>3. CASE bh[h] # name
        BY <1>4, <4>1, <4>3
      <4> QED
        BY <4>2, <4>3
    <3> QED
      BY <3>1, <3>2
  <2> QED
    BY <2>1 DEF HashesKnown
<1>8. ASSUME NEW f \in H!Families PROVE OfFamily(sch2, f) = OfFamily(sch, f) \cup (IF f = i.family THEN {i.version} ELSE {})
  <2>1. ASSUME name \in DOMAIN sch PROVE sch[name].version = i.version /\ sch[name].family = i.family
    <3>1. H!NameOf(sch[name]) = name
      BY <1>2, <2>1 DEF NamesRight
    <3> QED
      BY <1>3, <3>1 DEF H!NameOf
  <2>2. ASSUME NEW v \in OfFamily(sch2, f) PROVE v \in OfFamily(sch, f) \cup (IF f = i.family THEN {i.version} ELSE {})
    <3>1. PICK n \in DOMAIN sch2 : sch2[n].family = f /\ v = sch2[n].version
      BY DEF OfFamily
    <3> QED
      BY <1>4, <3>1 DEF OfFamily
  <2>3. ASSUME NEW v \in OfFamily(sch, f) PROVE v \in OfFamily(sch2, f)
    <3>1. PICK n \in DOMAIN sch : sch[n].family = f /\ v = sch[n].version
      BY DEF OfFamily
    <3>2. n \in DOMAIN sch2 /\ sch2[n].family = f /\ sch2[n].version = v
      BY <1>4, <2>1, <3>1
    <3> QED
      BY <3>2 DEF OfFamily
  <2>4. f = i.family => i.version \in OfFamily(sch2, f)
    BY <1>4 DEF OfFamily
  <2> QED
    BY <2>2, <2>3, <2>4
<1>9. HistoriesRight(sch2, vs2)
  <2> DEFINE g == i.family
             old == vs[g]
             new == H!WithVersion(old, i)
  <2>1. g \in H!Families /\ old \in Histories /\ InOrder(old) /\ VersionsIn(old) = OfFamily(sch, g)
        /\ vs \in [H!Families -> Histories] /\ vs2 = [vs EXCEPT ![g] = new]
    BY <1>2, <1>3 DEF HistoriesRight
  <2>2. new \in Histories /\ InOrder(new) /\ VersionsIn(new) = VersionsIn(old) \cup {i.version}
    <3>1. DOMAIN old = 1 .. Len(old)
      BY <2>1, HistoryIs
    <3>2. (\E k \in DOMAIN old : old[k].version = i.version) <=> i.version \in VersionsIn(old)
      BY <3>1 DEF VersionsIn
    <3> HIDE DEF old
    <3>3. CASE i.version \in VersionsIn(old)
      <4>1. new = old
        BY <3>2, <3>3 DEF H!WithVersion
      <4> QED
        BY <2>1, <3>3, <4>1
    <3>4. CASE i.version \notin VersionsIn(old)
      <4>1. new = H!Sorted(Append(old, H!Entry(i)))
        BY <3>2, <3>4 DEF H!WithVersion
      <4> HIDE DEF new
      <4> QED
        BY <2>1, <3>4, <4>1, SortedIs
    <3> QED
      BY <3>3, <3>4
  <2> HIDE DEF new, vs2, old, g
  <2>3. vs2 \in [H!Families -> Histories] /\ vs2[g] = new /\ \A f \in H!Families : f # g => vs2[f] = vs[f]
    BY <2>1, <2>2
  <2>4. ASSUME NEW f \in H!Families PROVE InOrder(vs2[f]) /\ VersionsIn(vs2[f]) = OfFamily(sch2, f)
    <3>1. CASE f = g
      <4>1. OfFamily(sch2, f) = OfFamily(sch, f) \cup {i.version}
        BY <1>8, <3>1 DEF g
      <4> QED
        BY <2>1, <2>2, <2>3, <3>1, <4>1
    <3>2. CASE f # g
      <4>1. OfFamily(sch2, f) = OfFamily(sch, f)
        BY <1>8, <3>2 DEF g
      <4>2. InOrder(vs[f]) /\ VersionsIn(vs[f]) = OfFamily(sch, f)
        BY <1>2 DEF HistoriesRight
      <4> QED
        BY <2>3, <3>2, <4>1, <4>2
    <3> QED
      BY <3>1, <3>2
  <2> QED
    BY <2>3, <2>4 DEF HistoriesRight
<1>10. RegistryRight(q, repl2)
  BY <1>1, <1>6, <1>7, <1>9 DEF RegistryRight
<1> QED
  BY <1>1, <1>4, <1>10, Zenon DEF q, name, Grown

\* What is stored: each name once.
Storable(S) == S \subseteq Infos /\ IsFiniteSet(S) /\ \A i, j \in S : H!NameOf(i) = H!NameOf(j) => i = j

LEMMA StoredFrom ==
  ASSUME NEW sch, NamesRight(sch)
  PROVE  Storable(H!Range(sch)) /\ \A i : i \in H!Range(sch) <=> \E n \in DOMAIN sch : i = sch[n]
<1>1. \A i : i \in H!Range(sch) <=> \E n \in DOMAIN sch : i = sch[n]
  BY DEF H!Range
<1>2. IsFiniteSet(H!Range(sch))
  <2>1. sch \in Surjection(DOMAIN sch, H!Range(sch))
    BY DEF NamesRight, Surjection, H!Range
  <2> QED
    BY <2>1, FS_Surjection DEF NamesRight
<1> QED
  BY <1>1, <1>2 DEF NamesRight, Storable

\* An order of a set has all of it.
LEMMA OrderHasAll ==
  ASSUME NEW S, IsFiniteSet(S), NEW order \in H!SetToSeqs(S)
  PROVE  /\ Len(order) \in Nat /\ \A k \in 1 .. Len(order) : order[k] \in S
         /\ \A i \in S : \E k \in 1 .. Len(order) : order[k] = i
<1> DEFINE n == Cardinality(S)
           D == 1 .. n
<1>1. n \in Nat /\ Cardinality(D) = n
  <2>1. n \in Nat
    BY FS_CardinalityType
  <2> HIDE DEF n
  <2>2. Cardinality(1 .. n) = IF 1 > n THEN 0 ELSE n - 1 + 1
    BY <2>1, FS_Interval
  <2> QED
    BY <2>1, <2>2
<1>2. order \in [D -> S] /\ \A i, j \in D : i # j => order[i] # order[j]
  BY DEF H!SetToSeqs, H!Cardinality, Cardinality
<1>3. order \in Injection(D, S)
  <2> HIDE DEF D, n
  <2>1. IsInjective(order)
    BY <1>2 DEF IsInjective
  <2> QED
    BY <1>2, <2>1 DEF Injection
<1>4. order \in Surjection(D, S)
  <2> HIDE DEF D, n
  <2> QED
    BY <1>1, <1>3, FS_Injection DEF n
<1>5. Len(order) = n
  <2> HIDE DEF n
  <2> QED
    BY <1>1, <1>2
<1> QED
  BY <1>1, <1>2, <1>4, <1>5 DEF Surjection

\* The registry that holds the first k of them.
Holds(r, order, k) ==
  /\ RegistryRight(r, {}) /\ DOMAIN r.schemas = {H!NameOf(order[j]) : j \in 1 .. k}
  /\ \A j \in 1 .. k : r.schemas[H!NameOf(order[j])] = order[j]

LEMMA HoldsOneMore ==
  ASSUME NEW S, Storable(S), NEW order \in H!SetToSeqs(S), NEW k \in 1 .. Len(order), NEW r, Holds(r, order, k - 1)
  PROVE  Holds(H!Registered(r, order[k]), order, k)
<1> DEFINE i == order[k]
           q == H!Registered(r, i)
<1>1. Len(order) \in Nat /\ \A j \in 1 .. Len(order) : order[j] \in S /\ order[j] \in Infos
  BY OrderHasAll DEF Storable
<1>2. ASSUME H!NameOf(i) \in DOMAIN r.schemas PROVE r.schemas[H!NameOf(i)] = i
  <2>1. PICK j \in 1 .. k - 1 : H!NameOf(i) = H!NameOf(order[j])
    BY <1>2 DEF Holds
  <2>2. order[j] = i
    <3>1. j \in 1 .. Len(order)
      BY <1>1
    <3> QED
      BY <1>1, <2>1, <3>1 DEF Storable
  <2> QED
    BY <2>1, <2>2 DEF Holds
<1>3. /\ RegistryRight(q, {}) /\ DOMAIN q.schemas = DOMAIN r.schemas \cup {H!NameOf(i)} /\ q.schemas[H!NameOf(i)] = i
      /\ \A n \in DOMAIN r.schemas \ {H!NameOf(i)} : q.schemas[n] = r.schemas[n]
  <2> DEFINE none == {}
  <2>1. RegistryRight(r, none) /\ i \in Infos /\ none \subseteq none
    BY <1>1 DEF Holds
  <2>2. H!NameOf(i) \in DOMAIN r.schemas /\ r.schemas[H!NameOf(i)].hash # i.hash => H!NameOf(i) \in none
    BY <1>2
  <2> HIDE DEF i, none
  <2>3. Grown(q, r, i, none)
    BY <2>1, <2>2, RegistersRight
  <2> HIDE DEF q
  <2> QED
    BY <2>3, Zenon DEF none, Grown
<1> HIDE DEF q
<1>4. \A j : j \in 1 .. k <=> j \in 1 .. k - 1 \/ j = k
  BY <1>1
<1>5. DOMAIN q.schemas = {H!NameOf(order[j]) : j \in 1 .. k}
  BY <1>3, <1>4 DEF Holds
<1>6. ASSUME NEW j \in 1 .. k PROVE q.schemas[H!NameOf(order[j])] = order[j]
  <2>1. CASE H!NameOf(order[j]) = H!NameOf(i)
    <3>1. order[j] = i
      <4>1. j \in 1 .. Len(order)
        BY <1>1
      <4> QED
        BY <1>1, <2>1, <4>1 DEF Storable
    <3> QED
      BY <1>3, <3>1
  <2>2. CASE H!NameOf(order[j]) # H!NameOf(i)
    <3>1. j \in 1 .. k - 1
      BY <1>4, <2>2
    <3> QED
      BY <1>3, <2>2, <3>1 DEF Holds
  <2> QED
    BY <2>1, <2>2
<1> QED
  BY <1>3, <1>5, <1>6 DEF Holds, q

LEMMA LoadedRight ==
  ASSUME NEW S, Storable(S), NEW order \in H!SetToSeqs(S)
  PROVE  LET r == H!Loaded(order) IN
         /\ RegistryRight(r, {}) /\ DOMAIN r.schemas = {H!NameOf(i) : i \in S}
         /\ \A i \in S : r.schemas[H!NameOf(i)] = i
<1> DEFINE n == Len(order)
           Goes(f) == f = [k \in 0 .. n |-> IF k = 0 THEN H!Empty ELSE H!Registered(f[k - 1], order[k])]
           Begun(f, m) == /\ DOMAIN f = 0 .. m /\ f = [k \in 0 .. m |-> f[k]] /\ f[0] = H!Empty
                          /\ \A k \in 1 .. m : f[k] = H!Registered(f[k - 1], order[k])
           begun == {m \in Nat : \E f : Begun(f, m)}
<1>1. n \in Nat
  BY OrderHasAll DEF Storable
<1>2. 0 \in begun
  <2>1. Begun([k \in 0 .. 0 |-> H!Empty], 0)
    OBVIOUS
  <2> QED
    BY <2>1
<1>3. ASSUME NEW m \in 1 .. n, m - 1 \in begun PROVE m \in begun
  <2>1. m \in Nat /\ m - 1 \in Nat
    BY <1>1
  <2>2. PICK f : Begun(f, m - 1)
    BY <1>3
  <2> DEFINE g == [k \in 0 .. m |-> IF k = m THEN H!Registered(f[m - 1], order[m]) ELSE f[k]]
  <2>3. \A k \in 0 .. m - 1 : g[k] = f[k] /\ k # m
    BY <2>1
  <2>4. g[m] = H!Registered(f[m - 1], order[m]) /\ DOMAIN g = 0 .. m /\ g = [k \in 0 .. m |-> g[k]]
    BY <2>1
  <2>5. ASSUME NEW k \in 1 .. m PROVE g[k] = H!Registered(g[k - 1], order[k])
    <3>1. k - 1 \in 0 .. m - 1 /\ g[k - 1] = f[k - 1]
      BY <2>1, <2>3
    <3> HIDE DEF g
    <3>2. CASE k = m
      BY <2>4, <3>1, <3>2
    <3>3. CASE k # m
      <4>1. k \in 1 .. m - 1 /\ k \in 0 .. m - 1
        BY <2>1, <3>3
      <4> QED
        BY <2>2, <2>3, <3>1, <4>1
    <3> QED
      BY <3>2, <3>3
  <2>6. g[0] = H!Empty
    BY <2>1, <2>2, <2>3
  <2> HIDE DEF g
  <2> QED
    BY <2>1, <2>4, <2>5, <2>6
<1>4. n \in begun
  <2>1. \A k \in 0 .. n : k \in begun
    <3> HIDE DEF begun
    <3> QED
      BY <1>1, <1>2, <1>3, Counting
  <2> QED
    BY <1>1, <2>1
<1>5. PICK f : Begun(f, n)
  BY <1>4
<1>6. Goes(f)
  <2>1. \A k \in 0 .. n : f[k] = IF k = 0 THEN H!Empty ELSE H!Registered(f[k - 1], order[k])
    BY <1>1, <1>5
  <2> QED
    BY <1>5, <2>1
<1> DEFINE loaded == CHOOSE h : Goes(h)
<1>7. Goes(loaded)
  <2> HIDE DEF Goes
  <2> QED
    BY <1>6
<1>8. H!Loaded(order) = loaded[n]
  BY DEF H!Loaded
<1> HIDE DEF loaded
<1>9. loaded[0] = H!Empty /\ \A k \in 1 .. n : loaded[k] = H!Registered(loaded[k - 1], order[k])
  <2>1. \A k \in 0 .. n : loaded[k] = IF k = 0 THEN H!Empty ELSE H!Registered(loaded[k - 1], order[k])
    BY <1>1, <1>7
  <2> QED
    BY <1>1, <2>1
<1> DEFINE right == {k \in 0 .. n : Holds(loaded[k], order, k)}
<1>10. 0 \in right
  <2>1. Holds(H!Empty, order, 0)
    BY EmptyRight DEF Holds
  <2> QED
    BY <1>1, <1>9, <2>1
<1>11. ASSUME NEW k \in 1 .. n, k - 1 \in right PROVE k \in right
  <2>1. Holds(loaded[k - 1], order, k - 1) /\ k \in 0 .. n
    BY <1>1, <1>11
  <2>2. Holds(loaded[k], order, k)
    BY <1>9, <2>1, HoldsOneMore
  <2> QED
    BY <2>1, <2>2
<1>12. n \in right
  <2>1. \A k \in 0 .. n : k \in right
    <3> HIDE DEF right
    <3> QED
      BY <1>1, <1>10, <1>11, Counting
  <2> QED
    BY <1>1, <2>1
<1>13. Holds(H!Loaded(order), order, n)
  BY <1>8, <1>12
<1> HIDE DEF n
<1>14. (\A k \in 1 .. n : order[k] \in S) /\ \A i \in S : \E k \in 1 .. n : order[k] = i
  BY OrderHasAll DEF n, Storable
<1> QED
  BY <1>13, <1>14 DEF Holds

-----------------------------------------------------------------------------
(* The inductive invariant of the registries of schemas: each is right; and *)
(* while no two have persisted at the same time, at most one is at it, the  *)
(* temporary file is the one it opened and is not the live one, and holds   *)
(* nothing until it holds all.                                              *)
Contents == (SUBSET Infos) \cup {H!Garbage, H!Truncated}
Persisting == [pc : {"idle", "lock", "write", "rename"}, file : Nat, data : SUBSET Infos]
RegistriesRight ==
  /\ DOMAIN s1 = Clients /\ DOMAIN s2 = Clients /\ DOMAIN s3 = Clients /\ DOMAIN s4 = Clients
  /\ \A p \in Clients : RegistryRight(H!Registry(p), s4[p]) /\ s4[p] \subseteq DOMAIN s1[p]
FilesTyped ==
  /\ s7 \in Seq(Contents) /\ s5 \in 0 .. Len(s7) /\ s6 \in 0 .. Len(s7) /\ (s5 = s6 => s6 = 0)
  /\ s8 \in [Clients -> Persisting]
PersistsRight(p) ==
  /\ s8[p].file = s6 /\ s6 # 0 /\ Storable(s8[p].data)
  /\ s8[p].pc \in {"lock", "write"} => s7[s6] = H!Truncated
  /\ s8[p].pc = "rename" => s7[s6] = s8[p].data
FilesRight ==
  /\ FilesTyped /\ (s5 # 0 => Storable(s7[s5]))
  /\ \A p, q \in Clients : s8[p] # H!Idle /\ s8[q] # H!Idle => p = q
  /\ \A p \in Clients : s8[p] # H!Idle => PersistsRight(p)
SchemaInv == part = "schemas" => RegistriesRight /\ s9 \in BOOLEAN /\ (~s9 => FilesRight)

LEMMA SchemasStart == StorageInit => SchemaInv
<1> SUFFICES ASSUME H!Init PROVE RegistriesRight /\ s9 \in BOOLEAN /\ FilesRight
  BY DEF StorageInit, SchemaInv
<1>1. RegistriesRight
  <2>1. ASSUME NEW p \in Clients PROVE RegistryRight(H!Registry(p), {}) /\ s4[p] = {}
    <3>1. H!Registry(p) = H!Empty
      BY DEF H!Init, H!Registry, H!Empty
    <3>2. s4[p] = {}
      BY DEF H!Init
    <3> QED
      BY <3>1, <3>2, EmptyRight
  <2>2. DOMAIN s1 = Clients /\ DOMAIN s2 = Clients /\ DOMAIN s3 = Clients /\ DOMAIN s4 = Clients
    BY DEF H!Init
  <2> QED
    BY <2>1, <2>2 DEF RegistriesRight
<1>2. FilesTyped /\ s5 = 0 /\ \A p \in Clients : s8[p] = H!Idle
  <2>1. s7 = <<>> /\ s5 = 0 /\ s6 = 0 /\ s8 = [p \in Clients |-> H!Idle] /\ H!Idle \in Persisting
    BY DEF H!Init, H!Idle, Persisting
  <2> QED
    BY <2>1 DEF FilesTyped
<1> QED
  BY <1>1, <1>2 DEF FilesRight, H!Init

LEMMA Becomes ==
  ASSUME RegistriesRight, NEW p \in Clients, NEW r, H!Become(p, r), RegistryRight(r, s4'[p]), s4'[p] \subseteq DOMAIN r.schemas,
         DOMAIN s4' = Clients, \A q \in Clients : q # p => s4'[q] = s4[q]
  PROVE  RegistriesRight'
<1>1. /\ DOMAIN s1' = Clients /\ DOMAIN s2' = Clients /\ DOMAIN s3' = Clients
      /\ s1'[p] = r.schemas /\ s2'[p] = r.by_hash /\ s3'[p] = r.versions
      /\ \A q \in Clients : q # p => s1'[q] = s1[q] /\ s2'[q] = s2[q] /\ s3'[q] = s3[q]
  BY DEF H!Become, RegistriesRight
<1>2. ASSUME NEW q \in Clients
      PROVE  /\ NamesRight(s1'[q]) /\ HashesKnown(s1'[q], s2'[q], s4'[q]) /\ HistoriesRight(s1'[q], s3'[q])
             /\ s4'[q] \subseteq DOMAIN s1'[q]
  <2>1. CASE q = p
    BY <1>1, <2>1 DEF RegistryRight
  <2>2. CASE q # p
    <3>1. NamesRight(s1[q]) /\ HashesKnown(s1[q], s2[q], s4[q]) /\ HistoriesRight(s1[q], s3[q]) /\ s4[q] \subseteq DOMAIN s1[q]
      BY DEF RegistriesRight, RegistryRight, H!Registry
    <3> QED
      BY <1>1, <2>2, <3>1
  <2> QED
    BY <2>1, <2>2
<1>3. ASSUME NEW q \in Clients PROVE RegistryRight(H!Registry(q), s4[q])'
  BY <1>2 DEF RegistryRight, H!Registry
<1> QED
  BY <1>1, <1>2, <1>3 DEF RegistriesRight

LEMMA RegistriesSame == ASSUME RegistriesRight, UNCHANGED <<s1, s2, s3, s4>> PROVE RegistriesRight'
BY DEF RegistriesRight, H!Registry

LEMMA FilesSame == ASSUME FilesRight, UNCHANGED <<s5, s6, s7, s8>> PROVE FilesRight'
BY DEF FilesRight, FilesTyped, PersistsRight

LEMMA RegisterKeeps ==
  ASSUME RegistriesRight, NEW p \in Clients, NEW i \in Infos, H!Register(p, i)
  PROVE  RegistriesRight'
<1> DEFINE name == H!NameOf(i)
           r == H!Registry(p)
           repl == IF name \in DOMAIN s1[p] /\ s1[p][name].hash # i.hash THEN s4[p] \cup {name} ELSE s4[p]
           q == H!Registered(r, i)
<1>1. RegistryRight(r, s4[p]) /\ s4[p] \subseteq DOMAIN s1[p] /\ r.schemas = s1[p] /\ DOMAIN s4 = Clients
  BY DEF RegistriesRight, H!Registry
<1>2. H!Become(p, q) /\ s4' = [s4 EXCEPT ![p] = repl]
  BY DEF H!Register
<1>3. s4'[p] = repl /\ DOMAIN s4' = Clients /\ \A x \in Clients : x # p => s4'[x] = s4[x]
  BY <1>1, <1>2
<1>4. s4[p] \subseteq repl /\ (name \in DOMAIN r.schemas /\ r.schemas[name].hash # i.hash => name \in repl)
  BY <1>1
<1>5. repl \subseteq DOMAIN s1[p] \cup {name}
  BY <1>1
<1> HIDE DEF repl, r, name
<1>6. RegistryRight(q, repl) /\ DOMAIN q.schemas = DOMAIN r.schemas \cup {name}
  <2>1. Grown(H!Registered(r, i), r, i, repl)
    <3>1. RegistryRight(r, s4[p]) /\ s4[p] \subseteq repl
      BY <1>1, <1>4
    <3>2. H!NameOf(i) \in DOMAIN r.schemas /\ r.schemas[H!NameOf(i)].hash # i.hash => H!NameOf(i) \in repl
      BY <1>4 DEF name
    <3> QED
      BY <3>1, <3>2, RegistersRight
  <2> QED
    BY <2>1, Zenon DEF name, Grown
<1> HIDE DEF q
<1> QED
  BY <1>1, <1>2, <1>3, <1>5, <1>6, Becomes

LEMMA LoadKeeps ==
  ASSUME RegistriesRight, FilesRight, NEW p \in Clients, H!Load(p)
  PROVE  RegistriesRight'
<1>1. s5 # 0 /\ s1[p] = <<>> /\ s4' = s4 /\ \E order \in H!SetToSeqs(s7[s5]) : H!Become(p, H!Loaded(order))
  BY DEF H!Load
<1>2. PICK order \in H!SetToSeqs(s7[s5]) : H!Become(p, H!Loaded(order))
  BY <1>1
<1>3. RegistryRight(H!Loaded(order), {})
  <2>1. Storable(s7[s5])
    BY <1>1 DEF FilesRight
  <2> QED
    BY <2>1, LoadedRight
<1>4. s4[p] = {} /\ DOMAIN s4 = Clients
  BY <1>1 DEF RegistriesRight
<1> HIDE DEF H!Loaded
<1> QED
  BY <1>1, <1>2, <1>3, <1>4, Becomes

LEMMA NotInfos == ASSUME NEW c \in SUBSET Infos PROVE c # H!Truncated
<1>1. \A i \in Infos : i.family # "truncated"
  BY StorageAssumption DEF H!SchemasConstants
<1>2. [family |-> "truncated", version |-> 0, minor |-> 0, hash |-> 0].family = "truncated"
  OBVIOUS
<1> QED
  BY <1>1, <1>2 DEF H!Truncated, H!NoInfo

LEMMA OpenTempKeeps ==
  ASSUME RegistriesRight, FilesRight, NEW p \in Clients, H!OpenTemp(p), ~s9'
  PROVE  FilesRight'
<1> DEFINE f == IF s6 = 0 THEN Len(s7) + 1 ELSE s6
           new == [pc |-> "lock", file |-> f, data |-> H!Range(s1[p])]
<1>1. /\ s6' = f /\ s5' = s5 /\ s8' = [s8 EXCEPT ![p] = new]
      /\ s7' = IF s6 = 0 THEN Append(s7, H!Truncated) ELSE [s7 EXCEPT ![f] = H!Truncated]
  BY DEF H!OpenTemp
<1>2. \A q \in Clients : s8[q] = H!Idle
  BY DEF H!OpenTemp
<1>3. s7 \in Seq(Contents) /\ Len(s7) \in Nat /\ s5 \in 0 .. Len(s7) /\ s6 \in 0 .. Len(s7) /\ (s5 = s6 => s6 = 0)
  BY DEF FilesRight, FilesTyped
<1>4. Storable(H!Range(s1[p]))
  <2>1. NamesRight(s1[p])
    BY DEF RegistriesRight, RegistryRight, H!Registry
  <2> QED
    BY <2>1, StoredFrom
<1>5. /\ f \in 1 .. Len(s7') /\ s7' \in Seq(Contents) /\ s7'[f] = H!Truncated /\ s5 \in 0 .. Len(s7') /\ s5 # f
      /\ s5 # 0 => s7'[s5] = s7[s5]
  <2>1. H!Truncated \in Contents
    BY DEF Contents
  <2>2. CASE s6 = 0
    <3>1. s7' = Append(s7, H!Truncated) /\ f = Len(s7) + 1
      BY <1>1, <2>2
    <3> QED
      BY <1>3, <2>1, <3>1
  <2>3. CASE s6 # 0
    <3>1. s7' = [s7 EXCEPT ![f] = H!Truncated] /\ f = s6 /\ f \in 1 .. Len(s7)
      BY <1>1, <1>3, <2>3
    <3>2. s7' \in Seq(Contents) /\ Len(s7') = Len(s7) /\ s7'[f] = H!Truncated /\ \A k \in 1 .. Len(s7) : k # f => s7'[k] = s7[k]
      BY <1>3, <2>1, <3>1
    <3> QED
      BY <1>3, <2>3, <3>1, <3>2
  <2> QED
    BY <2>2, <2>3
<1> HIDE DEF f
<1>6. f \in Nat /\ f # 0
  BY <1>5
<1>7. new \in Persisting /\ new.pc = "lock" /\ new.file = f /\ new.data = H!Range(s1[p])
  BY <1>4, <1>6 DEF Persisting, Storable
<1>8. s8' \in [Clients -> Persisting] /\ s8'[p] = new /\ \A q \in Clients : q # p => s8'[q] = H!Idle
  <2> HIDE DEF new
  <2> QED
    BY <1>1, <1>2, <1>7 DEF FilesRight, FilesTyped
<1> HIDE DEF new
<1>9. FilesTyped'
  BY <1>1, <1>5, <1>6, <1>8 DEF FilesTyped
<1>10. PersistsRight(p)'
  BY <1>1, <1>4, <1>5, <1>6, <1>7, <1>8 DEF PersistsRight
<1> QED
  BY <1>1, <1>5, <1>8, <1>9, <1>10 DEF FilesRight

\* What the one that persists has.
LEMMA PersistingIs ==
  ASSUME FilesRight, NEW p \in Clients, s8[p].pc # "idle"
  PROVE  /\ s8[p] \in Persisting /\ PersistsRight(p) /\ s6 \in 1 .. Len(s7) /\ s5 # s6
         /\ \A q \in Clients : q # p => s8[q] = H!Idle
<1>1. H!Idle.pc = "idle"
  BY DEF H!Idle
<1>2. s8[p] # H!Idle
  BY <1>1
<1>3. PersistsRight(p) /\ \A q \in Clients : q # p => s8[q] = H!Idle
  BY <1>2 DEF FilesRight
<1> QED
  BY <1>3 DEF FilesRight, FilesTyped, PersistsRight

\* Only p's persisting and the content of the temporary file change.
LEMMA PersistGoesOn ==
  ASSUME FilesRight, NEW p \in Clients, s8[p].pc # "idle", s5' = s5, s6' = s6,
         NEW pc \in {"lock", "write", "rename"}, s8' = [s8 EXCEPT ![p].pc = pc],
         NEW c \in Contents, s7' = [s7 EXCEPT ![s6] = c],
         pc \in {"lock", "write"} => c = H!Truncated, pc = "rename" => c = s8[p].data
  PROVE  FilesRight'
<1>1. /\ s8[p] \in Persisting /\ PersistsRight(p) /\ s6 \in 1 .. Len(s7) /\ s5 # s6
      /\ \A q \in Clients : q # p => s8[q] = H!Idle
  BY PersistingIs
<1>2. s7 \in Seq(Contents) /\ s5 \in 0 .. Len(s7) /\ s8 \in [Clients -> Persisting]
  BY DEF FilesRight, FilesTyped
<1>3. s7' \in Seq(Contents) /\ Len(s7') = Len(s7) /\ s7'[s6] = c /\ (s5 # 0 => s7'[s5] = s7[s5])
  BY <1>1, <1>2
<1>4. /\ s8' \in [Clients -> Persisting] /\ s8'[p].pc = pc /\ s8'[p].file = s8[p].file /\ s8'[p].data = s8[p].data
      /\ \A q \in Clients : q # p => s8'[q] = H!Idle
  BY <1>1, <1>2 DEF Persisting
<1>5. FilesTyped'
  BY <1>1, <1>2, <1>3, <1>4 DEF FilesTyped
<1>6. PersistsRight(p)'
  BY <1>1, <1>3, <1>4 DEF PersistsRight
<1> QED
  BY <1>3, <1>4, <1>5, <1>6 DEF FilesRight

\* p is done; what the temporary file holds does not matter.
LEMMA PersistEnds ==
  ASSUME FilesRight, NEW p \in Clients, s8[p].pc # "idle", s8' = [s8 EXCEPT ![p] = H!Idle],
         s7' \in Seq(Contents), Len(s7') = Len(s7), s5' \in 0 .. Len(s7), s6' \in 0 .. Len(s7),
         s5' = s6' => s6' = 0, s5' # 0 => Storable(s7'[s5'])
  PROVE  FilesRight'
<1>1. \A q \in Clients : s8'[q] = H!Idle
  BY PersistingIs DEF FilesRight, FilesTyped
<1>2. H!Idle \in Persisting
  BY DEF H!Idle, Persisting
<1>3. FilesTyped'
  BY <1>2 DEF FilesRight, FilesTyped
<1> QED
  BY <1>1, <1>3 DEF FilesRight

LEMMA LockTempKeeps ==
  ASSUME FilesRight, NEW p \in Clients, H!LockTemp(p)
  PROVE  FilesRight'
<1>1. s8[p].pc = "lock" /\ s8' = [s8 EXCEPT ![p].pc = "write"] /\ s5' = s5 /\ s6' = s6 /\ s7' = s7
  BY DEF H!LockTemp
<1>2. s6 \in 1 .. Len(s7) /\ s7[s6] = H!Truncated /\ s7 \in Seq(Contents) /\ H!Truncated \in Contents
  BY <1>1, PersistingIs DEF PersistsRight, FilesRight, FilesTyped, Contents
<1>3. s7' = [s7 EXCEPT ![s6] = H!Truncated]
  BY <1>1, <1>2
<1> QED
  BY <1>1, <1>2, <1>3, PersistGoesOn

LEMMA WriteTempKeeps ==
  ASSUME FilesRight, NEW p \in Clients, H!WriteTemp(p)
  PROVE  FilesRight'
<1> DEFINE new == s8[p].data
<1>1. s8[p].pc = "write" /\ s8' = [s8 EXCEPT ![p].pc = "rename"] /\ s5' = s5 /\ s6' = s6
  BY DEF H!WriteTemp
<1>2. s8[p].file = s6 /\ s7[s6] = H!Truncated /\ Storable(new) /\ s8[p] \in Persisting
  BY <1>1, PersistingIs DEF PersistsRight
<1>3. PICK c \in {new, H!Garbage} : /\ c = H!Garbage => H!Length(s7[s6]) >= H!Length(new)
                                    /\ s7' = [s7 EXCEPT ![s6] = c]
  BY <1>2 DEF H!WriteTemp
<1>4. H!Length(s7[s6]) = 0 /\ H!Length(new) \in Nat \ {0}
  <2>1. new # H!Truncated /\ IsFiniteSet(new)
    BY <1>2, NotInfos DEF Storable
  <2>2. H!Cardinality(new) = Cardinality(new)
    BY Zenon DEF H!Cardinality, Cardinality
  <2>3. Cardinality(new) \in Nat
    BY <2>1, FS_CardinalityType
  <2> QED
    BY <1>2, <2>1, <2>2, <2>3 DEF H!Length
<1>5. c = new
  BY <1>3, <1>4
<1>6. new \in Contents
  BY <1>2 DEF Contents, Storable
<1> QED
  BY <1>1, <1>3, <1>5, <1>6, PersistGoesOn

LEMMA RenameTempKeeps ==
  ASSUME FilesRight, NEW p \in Clients, H!RenameTemp(p)
  PROVE  FilesRight'
<1>1. /\ s8[p].pc = "rename" /\ s8' = [s8 EXCEPT ![p] = H!Idle] /\ s7' = s7
      /\ \/ s6 # 0 /\ s5' = s6 /\ s6' = 0
         \/ s6 = 0
  BY DEF H!RenameTemp
<1>2. s6 \in 1 .. Len(s7) /\ Storable(s7[s6]) /\ s7 \in Seq(Contents)
  BY <1>1, PersistingIs DEF PersistsRight, FilesRight, FilesTyped
<1>3. s5' = s6 /\ s6' = 0 /\ s5' \in 0 .. Len(s7) /\ s6' \in 0 .. Len(s7)
  BY <1>1, <1>2
<1> QED
  BY <1>1, <1>2, <1>3, PersistEnds

LEMMA CrashKeeps ==
  ASSUME FilesRight, NEW p \in Clients, H!Crash(p)
  PROVE  FilesRight'
<1>1. /\ s8[p] # H!Idle /\ s8' = [s8 EXCEPT ![p] = H!Idle] /\ s5' = s5 /\ s6' = s6
      /\ s7' = s7 \/ s7' = [s7 EXCEPT ![s8[p].file] = H!Garbage]
  BY DEF H!Crash
<1>2. PersistsRight(p) /\ FilesTyped
  BY <1>1 DEF FilesRight
<1>3. s6 \in 1 .. Len(s7) /\ s5 # s6 /\ s8[p].file = s6 /\ s7 \in Seq(Contents) /\ H!Garbage \in Contents
  BY <1>2 DEF FilesTyped, PersistsRight, Contents
<1>4. s7' \in Seq(Contents) /\ Len(s7') = Len(s7) /\ (s5 # 0 => s7'[s5] = s7[s5])
  <2>1. CASE s7' = s7
    BY <1>3, <2>1
  <2>2. CASE s7' = [s7 EXCEPT ![s6] = H!Garbage]
    BY <1>2, <1>3, <2>2 DEF FilesTyped
  <2> QED
    BY <1>1, <1>3, <2>1, <2>2
<1>5. \A q \in Clients : s8'[q] = H!Idle
  BY <1>1, <1>2 DEF FilesRight, FilesTyped
<1>6. FilesTyped'
  <2>1. H!Idle \in Persisting
    BY DEF H!Idle, Persisting
  <2> QED
    BY <1>1, <1>2, <1>3, <1>4, <2>1 DEF FilesTyped
<1> QED
  BY <1>1, <1>3, <1>4, <1>5, <1>6 DEF FilesRight

LEMMA SchemaStep == SchemaInv /\ [StorageNext]_storage => SchemaInv'
<1> SUFFICES ASSUME SchemaInv, [StorageNext]_storage, part' = "schemas" PROVE SchemaInv'
  BY DEF SchemaInv
<1>1. CASE UNCHANGED storage
  <2>1. UNCHANGED <<part, s1, s2, s3, s4, s5, s6, s7, s8, s9>>
    BY <1>1 DEF storage, shared
  <2> QED
    BY <2>1, RegistriesSame, FilesSame DEF SchemaInv
<1>2. CASE StorageNext
  <2>1. part' = part /\ part = "schemas" /\ H!Next
    BY <1>2 DEF StorageNext
  <2>2. RegistriesRight /\ s9 \in BOOLEAN /\ (~s9 => FilesRight)
    BY <2>1 DEF SchemaInv
  <2> SUFFICES RegistriesRight' /\ s9' \in BOOLEAN /\ (~s9' => FilesRight')
    BY DEF SchemaInv
  <2>3. PICK p \in Clients :
          \/ ~s9 /\ ((\E i \in Infos : H!Register(p, i)) \/ H!ClearAll(p) \/ H!OpenTemp(p) \/ H!Load(p))
          \/ H!LockTemp(p) \/ H!WriteTemp(p) \/ H!RenameTemp(p) \/ H!Crash(p)
    BY <2>1 DEF H!Next
  <2> DEFINE Cleared == H!Become(p, H!Empty) /\ s4' = [s4 EXCEPT ![p] = {}]
  <2>4. ASSUME Cleared PROVE RegistriesRight'
    <3>1. H!Become(p, H!Empty) /\ s4'[p] = {} /\ DOMAIN s4' = Clients /\ \A q \in Clients : q # p => s4'[q] = s4[q]
      BY <2>2, <2>4 DEF RegistriesRight
    <3>2. RegistryRight(H!Empty, {})
      BY EmptyRight
    <3> QED
      BY <2>2, <3>1, <3>2, Becomes
  <2>5. ASSUME ~s9, NEW i \in Infos, H!Register(p, i) PROVE RegistriesRight' /\ s9' = s9 /\ (~s9' => FilesRight')
    BY <2>2, <2>5, RegisterKeeps, FilesSame DEF H!Register, H!KeepFiles
  <2>6. ASSUME ~s9, H!ClearAll(p) PROVE RegistriesRight' /\ s9' = s9 /\ (~s9' => FilesRight')
    <3>1. Cleared /\ UNCHANGED <<s5, s6, s7, s8, s9>>
      BY <2>6 DEF H!ClearAll, H!KeepFiles
    <3> QED
      BY <2>2, <2>4, <2>6, <3>1, FilesSame
  <2>7. ASSUME ~s9, H!OpenTemp(p) PROVE RegistriesRight' /\ s9' \in BOOLEAN /\ (~s9' => FilesRight')
    <3>1. UNCHANGED <<s1, s2, s3, s4>> /\ s9' \in BOOLEAN
      BY <2>7 DEF H!OpenTemp, H!KeepRegistry
    <3> QED
      BY <2>2, <2>7, <3>1, RegistriesSame, OpenTempKeeps
  <2>8. ASSUME ~s9, H!Load(p) PROVE RegistriesRight' /\ s9' = s9 /\ (~s9' => FilesRight')
    <3>1. UNCHANGED <<s5, s6, s7, s8, s9>>
      BY <2>8 DEF H!Load, H!KeepFiles
    <3> QED
      BY <2>2, <2>8, <3>1, LoadKeeps, FilesSame
  <2>9. ASSUME H!LockTemp(p) PROVE RegistriesRight' /\ s9' = s9 /\ (~s9' => FilesRight')
    <3>1. UNCHANGED <<s1, s2, s3, s4, s9>>
      BY <2>9 DEF H!LockTemp, H!KeepRegistry
    <3> QED
      BY <2>2, <2>9, <3>1, RegistriesSame, LockTempKeeps
  <2>10. ASSUME H!WriteTemp(p) PROVE RegistriesRight' /\ s9' = s9 /\ (~s9' => FilesRight')
    <3>1. UNCHANGED <<s1, s2, s3, s4, s9>>
      BY <2>10 DEF H!WriteTemp, H!KeepRegistry
    <3> QED
      BY <2>2, <2>10, <3>1, RegistriesSame, WriteTempKeeps
  <2>11. ASSUME H!RenameTemp(p) PROVE RegistriesRight' /\ s9' = s9 /\ (~s9' => FilesRight')
    <3>1. UNCHANGED <<s1, s2, s3, s4, s9>>
      BY <2>11 DEF H!RenameTemp, H!KeepRegistry
    <3> QED
      BY <2>2, <2>11, <3>1, RegistriesSame, RenameTempKeeps
  <2>12. ASSUME H!Crash(p) PROVE RegistriesRight' /\ s9' = s9 /\ (~s9' => FilesRight')
    <3>1. Cleared /\ s9' = s9
      BY <2>12 DEF H!Crash
    <3> QED
      BY <2>2, <2>4, <2>12, <3>1, CrashKeeps
  <2> QED
    BY <2>2, <2>3, <2>5, <2>6, <2>7, <2>8, <2>9, <2>10, <2>11, <2>12
<1> QED
  BY <1>1, <1>2

LEMMA SchemaInvAlways == StorageSpec => []SchemaInv
<1>1. StorageInit => SchemaInv
  BY SchemasStart
<1>2. SchemaInv /\ [StorageNext]_storage => SchemaInv'
  BY SchemaStep
<1> QED
  BY <1>1, <1>2, PTL DEF StorageSpec

-----------------------------------------------------------------------------
(* What a registry that is right answers.                                   *)
LEMMA LoadsTheSame ==
  ASSUME RegistriesRight, NEW p \in Clients, NEW order \in H!SetToSeqs(H!Range(s1[p]))
  PROVE  /\ H!Loaded(order).schemas = s1[p]
         /\ \A f \in H!Families : /\ H!GetVersions(H!Loaded(order), f) = H!GetVersions(H!Registry(p), f)
                                  /\ H!GetLatest(H!Loaded(order), f) = H!GetLatest(H!Registry(p), f)
<1> DEFINE r == H!Loaded(order)
           sch == s1[p]
           own == H!Registry(p)
<1>1. NamesRight(sch) /\ HistoriesRight(sch, s3[p]) /\ own.schemas = sch /\ own.versions = s3[p]
  BY DEF RegistriesRight, RegistryRight, H!Registry
<1>2. Storable(H!Range(sch)) /\ \A i : i \in H!Range(sch) <=> \E n \in DOMAIN sch : i = sch[n]
  BY <1>1, StoredFrom
<1>3. /\ RegistryRight(r, {}) /\ DOMAIN r.schemas = {H!NameOf(i) : i \in H!Range(sch)}
      /\ \A i \in H!Range(sch) : r.schemas[H!NameOf(i)] = i
  BY <1>2, LoadedRight
<1> HIDE DEF r, own, sch
<1>4. r.schemas = sch
  <2>1. \A n \in DOMAIN sch : sch[n] \in H!Range(sch) /\ H!NameOf(sch[n]) = n
    BY <1>1, <1>2 DEF NamesRight
  <2>2. DOMAIN r.schemas = DOMAIN sch
    BY <1>2, <1>3, <2>1
  <2>3. \A n \in DOMAIN sch : r.schemas[n] = sch[n]
    BY <1>3, <2>1
  <2>4. NamesRight(r.schemas)
    BY <1>3 DEF RegistryRight
  <2> QED
    BY <1>1, <2>2, <2>3, <2>4 DEF NamesRight
<1>5. HistoriesRight(sch, r.versions)
  BY <1>3, <1>4 DEF RegistryRight
<1>6. ASSUME NEW f \in H!Families
      PROVE  H!GetVersions(r, f) = H!GetVersions(own, f) /\ H!GetLatest(r, f) = H!GetLatest(own, f)
  <2> DEFINE g == r.versions[f]
             h == own.versions[f]
  <2>1. g \in Histories /\ h \in Histories /\ InOrder(g) /\ InOrder(h) /\ VersionsIn(g) = VersionsIn(h)
    BY <1>1, <1>5 DEF HistoriesRight
  <2> HIDE DEF g, h
  <2>2. Len(g) = Len(h) /\ \A k \in 1 .. Len(g) : g[k].version = h[k].version
    BY <2>1, OneOrder
  <2>3. /\ DOMAIN g = 1 .. Len(g) /\ DOMAIN h = 1 .. Len(h) /\ Len(g) \in Nat
        /\ (g = <<>> <=> Len(g) = 0) /\ (h = <<>> <=> Len(h) = 0)
    BY <2>1 DEF Histories
  <2>4. H!GetVersions(r, f) = H!GetVersions(own, f)
    BY <2>2, <2>3 DEF H!GetVersions, g, h
  <2>5. ASSUME g # <<>> PROVE g[Len(g)].version = h[Len(h)].version
    BY <2>2, <2>3, <2>5
  <2>6. H!GetLatest(r, f) = H!GetLatest(own, f)
    <3>1. \A name : H!Get(r, name) = H!Get(own, name)
      BY <1>1, <1>4 DEF H!Get
    <3>2. g = <<>> <=> h = <<>>
      BY <2>2, <2>3
    <3>3. /\ H!GetLatest(r, f) = IF g = <<>> THEN {} ELSE H!Get(r, <<f, g[Len(g)].version, 0>>)
          /\ H!GetLatest(own, f) = IF h = <<>> THEN {} ELSE H!Get(own, <<f, h[Len(h)].version, 0>>)
      BY Zenon DEF H!GetLatest, g, h
    <3> QED
      BY <2>5, <3>1, <3>2, <3>3
  <2> QED
    BY <2>4, <2>6
<1> QED
  BY <1>4, <1>6 DEF r, own, sch

LEMMA LatestIs ==
  ASSUME RegistriesRight, NEW p \in Clients, NEW f \in H!Families,
         NEW known, known = {i \in H!Range(s1[p]) : i.family = f}, known # {}, \A i \in known : i.minor = 0
  PROVE  H!GetLatest(H!Registry(p), f) = {i \in known : \A j \in known : j.version <= i.version}
<1> DEFINE sch == s1[p]
           own == H!Registry(p)
           h == s3[p][f]
           highest == h[Len(h)].version
<1>1. NamesRight(sch) /\ HistoriesRight(sch, s3[p]) /\ own.schemas = sch /\ own.versions = s3[p]
  BY DEF RegistriesRight, RegistryRight, H!Registry
<1>2. h \in Histories /\ InOrder(h) /\ VersionsIn(h) = OfFamily(sch, f)
  BY <1>1 DEF HistoriesRight
<1>3. \A i : i \in known <=> i.family = f /\ \E n \in DOMAIN sch : i = sch[n]
  BY <1>1, StoredFrom
<1>4. \A v : v \in VersionsIn(h) <=> \E i \in known : v = i.version
  BY <1>2, <1>3 DEF OfFamily
<1> HIDE DEF h, own, sch
<1>5. Len(h) \in Nat /\ \A k \in 1 .. Len(h) : h[k].version \in Nat
  BY <1>2, HistoryIs
<1>6. Len(h) # 0
  <2>1. \E v : v \in VersionsIn(h)
    BY <1>4
  <2> QED
    BY <1>5, <2>1 DEF VersionsIn
<1>7. highest \in VersionsIn(h) /\ highest \in Nat /\ \A v \in VersionsIn(h) : v \in Nat /\ v <= highest
  <2>1. Len(h) \in 1 .. Len(h)
    BY <1>5, <1>6
  <2>2. ASSUME NEW k \in 1 .. Len(h) PROVE h[k].version <= h[Len(h)].version
    <3>1. CASE k = Len(h)
      BY <1>5, <2>1, <3>1
    <3>2. CASE k # Len(h)
      <4>1. k < Len(h)
        BY <1>5, <3>2
      <4>2. h[k].version < h[Len(h)].version
        BY <1>2, <2>1, <4>1 DEF InOrder
      <4> QED
        BY <1>5, <2>1, <4>2
    <3> QED
      BY <3>1, <3>2
  <2> QED
    BY <1>5, <2>1, <2>2 DEF VersionsIn
<1> HIDE DEF highest
<1>8. PICK x \in known : highest = x.version
  BY <1>4, <1>7
<1>9. \A i \in known : \E n \in DOMAIN sch : i = sch[n] /\ n = <<f, i.version, 0>>
  <2>1. ASSUME NEW i \in known PROVE H!NameOf(i) = <<f, i.version, 0>>
    BY <1>3 DEF H!NameOf
  <2> QED
    BY <1>1, <1>3, <2>1 DEF NamesRight
<1>10. H!GetLatest(own, f) = {x}
  <2>1. own.versions[f] = h /\ h # <<>>
    BY <1>1, <1>6 DEF h
  <2>2. <<f, highest, 0>> \in DOMAIN sch /\ sch[<<f, highest, 0>>] = x
    BY <1>8, <1>9
  <2>3. H!GetLatest(own, f) = H!Get(own, <<f, highest, 0>>)
    BY <2>1, Zenon DEF H!GetLatest, highest
  <2> QED
    BY <1>1, <2>2, <2>3 DEF H!Get
<1>11. ASSUME NEW i \in known PROVE (\A j \in known : j.version <= i.version) <=> i = x
  <2>1. /\ i.version \in Nat /\ i.version <= highest /\ x.version = highest
        /\ \A j \in known : j.version \in Nat /\ j.version <= highest
    BY <1>4, <1>7, <1>8
  <2>2. i.version = highest => i = x
    BY <1>8, <1>9
  <2> QED
    BY <1>7, <2>1, <2>2
<1> QED
  BY <1>8, <1>10, <1>11 DEF own

LEMMA FoundByHash ==
  ASSUME RegistriesRight, NEW p \in Clients, NEW h \in DOMAIN s2[p]
  PROVE  LET found == H!GetByHash(H!Registry(p), h) IN
         found # {} /\ \A i \in found : i.hash = h \/ H!NameOf(i) \in s4[p]
<1> DEFINE own == H!Registry(p)
           n == s2[p][h]
<1>1. NamesRight(s1[p]) /\ HashesKnown(s1[p], s2[p], s4[p]) /\ own.schemas = s1[p] /\ own.by_hash = s2[p]
  BY DEF RegistriesRight, RegistryRight, H!Registry
<1>2. n \in DOMAIN s1[p] /\ (s1[p][n].hash = h \/ n \in s4[p]) /\ H!NameOf(s1[p][n]) = n
  BY <1>1 DEF HashesKnown, NamesRight
<1>3. H!GetByHash(own, h) = {s1[p][n]}
  <2>1. H!GetByHash(own, h) = H!Get(own, n)
    BY <1>1 DEF H!GetByHash
  <2> QED
    BY <1>1, <1>2, <2>1 DEF H!Get
<1> QED
  BY <1>2, <1>3

(* The registry of schemas.  For any number of processes and schemas: who   *)
(* opens the registry's file finds all that some process stored, also after *)
(* crashes, unless two persisted at the same time; what is loaded from the  *)
(* file answers as what was stored, whatever the order in it; the latest    *)
(* schema is the one of the highest version; and a hash leads to a schema   *)
(* with that hash, unless its name was registered with another one.         *)
THEOREM SchemasAreKept == StorageSpec => [](part = "schemas" => H!SchemasKept)
<1>1. SchemaInv => (part = "schemas" => H!SchemasKept)
  <2> SUFFICES ASSUME RegistriesRight, ~s9 => FilesRight PROVE H!SchemasKept
    BY DEF SchemaInv
  <2>1. H!FileWhole
    BY DEF FilesRight, Storable, H!FileWhole, H!Whole
  <2>2. H!LoadedAgrees
    BY LoadsTheSame, Zenon DEF H!LoadedAgrees
  <2>3. H!LatestRight
    <3>1. ASSUME NEW p \in Clients, NEW f \in H!Families
          PROVE  LET known == {i \in H!Range(s1[p]) : i.family = f} IN
                 known # {} /\ (\A i \in known : i.minor = 0) =>
                   H!GetLatest(H!Registry(p), f) = {i \in known : \A j \in known : j.version <= i.version}
      <4> DEFINE known == {i \in H!Range(s1[p]) : i.family = f}
      <4>1. known = {i \in H!Range(s1[p]) : i.family = f}
        OBVIOUS
      <4> HIDE DEF known
      <4>2. known # {} /\ (\A i \in known : i.minor = 0) =>
              H!GetLatest(H!Registry(p), f) = {i \in known : \A j \in known : j.version <= i.version}
        BY <4>1, LatestIs
      <4> QED
        BY <4>2, Zenon DEF known
    <3> QED
      BY <3>1, Zenon DEF H!LatestRight
  <2>4. H!HashesRight
    BY FoundByHash, Zenon DEF H!HashesRight
  <2> QED
    BY <2>1, <2>2, <2>3, <2>4 DEF H!SchemasKept
<1> QED
  BY <1>1, SchemaInvAlways, PTL

(* Schemas, as a whole: migrations are found, their locks are taken without *)
(* a circle, compatibility means what it says, and what is registered and   *)
(* persisted is kept.                                                       *)
THEOREM SchemasEvolution == StorageSpec => []SchemasEvolve
<1>1. /\ part = "migrations" => E!NoCircle /\ E!AnswersRight
      /\ part = "migrations" => E!PathsRight /\ E!EndsAgree
      /\ part = "schemas" => H!SchemasKept
      => SchemasEvolve
  BY Zenon DEF SchemasEvolve, E!EvolutionRight
<1> QED
  BY <1>1, EvolutionIsSound, PathsAreShortest, SchemasAreKept, PTL
=============================================================================
