-------------------------------- MODULE Logs --------------------------------
(***************************************************************************)
(* The log of the service (xerv-core logging/): events and their context,  *)
(* filters, collectors with a bounded buffer and subscribers, and what the *)
(* handlers of the API read from it (xerv-executor api/handlers/logs.rs).  *)
(* An event is collected in three steps, and by any number of threads.     *)
(***************************************************************************)
EXTENDS Naturals, FiniteSets, FiniteSetsExt, Sequences, SequencesExt, TLC

CONSTANTS
  Writers,        \* threads that log
  Collectors,     \* of a MultiCollector, in order: [capacity, filter]
  Said,           \* what is logged, with the context it is logged in
  Subscribers,
  Requests,       \* query strings: sequences of [key, value]
  Numbers,        \* the texts that are numbers, and these
  MaxLogs         \* bound: events that are logged

VARIABLES
  buffer,         \* per collector: its events, each with an id
  next_log,       \* per collector: the next id
  subscribed,     \* per collector: the subscribers
  writing,        \* per thread: [pc, at, event], at is the collector's place
  count,          \* bound: events logged so far
  pushed,         \* per collector: all events it took, with clear in between
  heard,          \* per subscriber: ids, in order, and the subscription's age
  polled,         \* a reader of the first collector: the last id, what it got
  stats,          \* the request for statistics: [pc, by_level, total, quiet]
  reader          \* bound: who reads in this behaviour

vars == <<buffer, next_log, subscribed, writing, count, pushed, heard, polled, stats, reader>>

None == "none"
Levels == 1..5                          \* trace, debug, info, warn, error
At == DOMAIN Collectors

LogsConstants ==
  /\ Len(Collectors) \in Nat \ {0} /\ At = 1 .. Len(Collectors)
  /\ \A c \in At : Collectors[c].capacity \in Nat
  /\ \A said \in Said : LET e == said.event IN
       /\ e.level \in Levels
       /\ e = [id |-> 0, level |-> e.level, category |-> e.category, message |-> e.message,
               trace |-> e.trace, node |-> e.node, pipeline |-> e.pipeline]
  /\ Requests \subseteq Seq([key : STRING, value : STRING])
  /\ \A text \in DOMAIN Numbers : Numbers[text] \in Nat
Resting == [pc |-> "rest", at |-> 1, event |-> <<>>]
NoStats == [pc |-> 0, by_level |-> <<>>, total |-> 0, quiet |-> TRUE]

Init ==
  /\ buffer = [c \in At |-> <<>>] /\ next_log = [c \in At |-> 1]
  /\ subscribed = {} /\ heard = [s \in Subscribers |-> [got |-> <<>>, since |-> 0]]
  /\ writing = [w \in Writers |-> Resting] /\ count = 0 /\ pushed = [c \in At |-> <<>>]
  /\ polled = [last |-> 0, got |-> {}] /\ stats = NoStats
  /\ reader \in {"subscriber", "poll", "stats", "query"}

-----------------------------------------------------------------------------
(* Events and filters.                                                      *)
NewEvent(level, category, message) ==
  [id |-> 0, level |-> level, category |-> category, message |-> message,
   trace |-> None, node |-> None, pipeline |-> None]

\* LogEventBuilder::event: the context is put over the event.
Built(context, level, category, message) ==
  [NewEvent(level, category, message) EXCEPT !.trace = context.trace, !.node = context.node, !.pipeline = context.pipeline]

\* LogContext::log: an event that has its own keeps it.
InContext(context, e) ==
  LET or(own, given) == IF own = None THEN given ELSE own IN
  [e EXCEPT !.trace = or(e.trace, context.trace), !.node = or(e.node, context.node), !.pipeline = or(e.pipeline, context.pipeline)]

\* A filter has the fields that are set.
NoFilter == <<>>

\* LogFilter::matches; the limit and the offset are no part of it.  A message
\* is the set of the (lower case) texts that it contains.
Matches(f, e) ==
  /\ "min" \in DOMAIN f => e.level >= f.min
  /\ "max" \in DOMAIN f => e.level <= f.max
  /\ "categories" \in DOMAIN f => e.category \in f.categories
  /\ "trace" \in DOMAIN f => e.trace = f.trace
  /\ "node" \in DOMAIN f => e.node = f.node
  /\ "pipeline" \in DOMAIN f => e.pipeline = f.pipeline
  /\ "contains" \in DOMAIN f => f.contains \in e.message

-----------------------------------------------------------------------------
(* Collecting.                                                              *)
\* collect returns at once what its filter does not let in.
Enters(c, e) == Matches(Collectors[c].filter, e)

\* The event with its id at the first collector from c on that lets it in.
Arrive(e, c) ==
  LET open == {d \in At : d >= c /\ Enters(d, e)} IN
  IF open = {} THEN Resting
  ELSE [pc |-> "notify", at |-> Min(open), event |-> [e EXCEPT !.id = next_log[Min(open)]]]

Counted(to) == IF to = Resting THEN next_log ELSE [next_log EXCEPT ![to.at] = @ + 1]

Log(w, said) ==
  LET to == Arrive(InContext(said.context, said.event), 1) IN
  /\ writing[w] = Resting /\ count < MaxLogs
  /\ count' = count + 1 /\ writing' = [writing EXCEPT ![w] = to] /\ next_log' = Counted(to)
  /\ UNCHANGED <<buffer, subscribed, pushed, heard, polled, stats, reader>>

\* All of them, under the read lock.  The subscribers are the first collector's.
Notify(w) ==
  /\ writing[w].pc = "notify" /\ writing' = [writing EXCEPT ![w].pc = "push"]
  /\ heard' = [s \in Subscribers |->
                IF s \in subscribed /\ writing[w].at = 1 THEN [heard[s] EXCEPT !.got = Append(@, writing[w].event.id)]
                ELSE heard[s]]
  /\ UNCHANGED <<buffer, next_log, subscribed, count, pushed, polled, stats, reader>>

\* Mutant: the oldest is dropped one event too late.
PushedLate(c, e) ==
  Append(IF Len(buffer[c]) > Collectors[c].capacity THEN Tail(buffer[c]) ELSE buffer[c], e)

\* The oldest makes room, if there is one.
Pushed(c, e) ==
  Append(IF Len(buffer[c]) >= Collectors[c].capacity /\ buffer[c] # <<>> THEN Tail(buffer[c]) ELSE buffer[c], e)

\* Push to one collector, and arrive at the next.
Push(w) ==
  LET c == writing[w].at
      e == writing[w].event
      to == Arrive([e EXCEPT !.id = 0], c + 1)
  IN  /\ writing[w].pc = "push"
      /\ buffer' = [buffer EXCEPT ![c] = Pushed(c, e)]
      /\ pushed' = [pushed EXCEPT ![c] = Append(@, e)]
      /\ writing' = [writing EXCEPT ![w] = to] /\ next_log' = Counted(to)
      /\ stats' = [stats EXCEPT !.quiet = @ /\ c # 1]
      /\ UNCHANGED <<subscribed, count, heard, polled, reader>>

Subscribe(s) ==
  /\ s \notin subscribed /\ heard[s].since = 0 /\ subscribed' = subscribed \cup {s}
  /\ heard' = [heard EXCEPT ![s].since = next_log[1]]
  /\ UNCHANGED <<buffer, next_log, writing, count, pushed, polled, stats, reader>>

Unsubscribe(s) ==
  /\ s \in subscribed /\ subscribed' = subscribed \ {s}
  /\ UNCHANGED <<buffer, next_log, writing, count, pushed, heard, polled, stats, reader>>

-----------------------------------------------------------------------------
(* Reading.                                                                 *)
Clear ==
  /\ buffer' = [buffer EXCEPT ![1] = <<>>] /\ pushed' = [pushed EXCEPT ![1] = Append(@, [id |-> 0])]
  /\ buffer[1] # <<>> /\ stats' = [stats EXCEPT !.quiet = FALSE]
  /\ UNCHANGED <<next_log, subscribed, writing, count, heard, polled, reader>>

Since(after) == {e.id : e \in {x \in ToSet(buffer[1]) : x.id > after}}

\* A client reads what came after the last id it knows.
Poll ==
  /\ Since(polled.last) # {}
  /\ polled' = [last |-> Max(Since(polled.last)), got |-> polled.got \cup Since(polled.last)]
  /\ UNCHANGED <<buffer, next_log, subscribed, writing, count, pushed, heard, stats, reader>>

\* LogLevel::parse, parse_category, and numbers; other texts are not read.
ParseLevel == [trace |-> 1, debug |-> 2, info |-> 3, warn |-> 4, warning |-> 4, error |-> 5]
CategoryNames == {"trace", "node", "trigger", "pipeline", "schema", "system", "custom"}
Read(p) ==
  CASE p.key = "level" -> p.value \in DOMAIN ParseLevel
    [] p.key = "category" -> p.value \in CategoryNames
    [] p.key \in {"limit", "offset"} -> p.value \in DOMAIN Numbers
    [] OTHER -> p.value # "bad"

\* parse_log_filter: what cannot be read is as if it were not there.
With(f, field, v) == [x \in DOMAIN f \cup {field} |-> IF x = field THEN v ELSE f[x]]
Parse(f, p) ==
  IF ~Read(p) THEN f
  ELSE CASE p.key = "level" -> With(f, "min", ParseLevel[p.value])
         [] p.key = "category" ->
              With(f, "categories", {p.value} \cup IF "categories" \in DOMAIN f THEN f.categories ELSE {})
         [] p.key = "trace_id" -> With(f, "trace", p.value)
         [] p.key = "node_id" -> With(f, "node", p.value)
         [] p.key = "pipeline_id" -> With(f, "pipeline", p.value)
         [] p.key = "contains" -> With(f, "contains", p.value)
         [] p.key = "limit" -> With(f, "limit", Min({Numbers[p.value], 1000}))
         [] p.key = "offset" -> With(f, "offset", Numbers[p.value])
         [] OTHER -> f

\* The parameters are read one by one.
ParseLogFilter(request) ==
  LET parsed[n \in 0 .. Len(request)] == IF n = 0 THEN NoFilter ELSE Parse(parsed[n - 1], request[n])
  IN parsed[Len(request)]

\* parse_limit: the first one, if it can be read.
ParseLimit(request, default) ==
  LET limits == {i \in DOMAIN request : request[i].key = "limit"} IN
  IF limits = {} \/ ~Read(request[Min(limits)]) THEN default ELSE Numbers[request[Min(limits)].value]

\* query, also what GET /logs answers: the places, in the order of the buffer,
\* of what is answered.  Its limit is described but not applied.
Query(f) == {i \in DOMAIN buffer[1] : Matches(f, buffer[1][i])}
ByTrace(t) == Query([trace |-> t])
ByLevel(level) == Query([min |-> level])
Recent(request) ==
  LET n == Min({ParseLimit(request, 50), 500}) IN
  SubSeq(Reverse(buffer[1]), 1, Min({n, Len(buffer[1])}))

\* The statistics are read level by level, and then the length.
CountLevel ==
  /\ stats.pc < Cardinality(Levels)
  /\ stats' = [stats EXCEPT !.pc = @ + 1, !.quiet = @ \/ stats.pc = 0,
                            !.by_level = Append(@, Cardinality(Query([min |-> stats.pc + 1, max |-> stats.pc + 1])))]
  /\ UNCHANGED <<buffer, next_log, subscribed, writing, count, pushed, heard, polled, reader>>

CountAll ==
  /\ stats.pc = Cardinality(Levels) /\ stats' = [stats EXCEPT !.pc = @ + 1, !.total = Len(buffer[1])]
  /\ UNCHANGED <<buffer, next_log, subscribed, writing, count, pushed, heard, polled, reader>>

Next ==
  \/ \E w \in Writers : (\E said \in Said : Log(w, said)) \/ Notify(w) \/ Push(w)
  \/ reader = "subscriber" /\ \E s \in Subscribers : Subscribe(s) \/ Unsubscribe(s)
  \/ reader = "poll" /\ Poll
  \/ reader = "stats" /\ (CountLevel \/ CountAll)
  \/ Clear

Spec == Init /\ [][Next]_vars

-----------------------------------------------------------------------------
\* The events a collector took since it was last cleared.
Held(c) ==
  LET clears == {i \in DOMAIN pushed[c] : pushed[c][i].id = 0} IN
  SubSeq(pushed[c], 1 + Max({0} \cup clears), Len(pushed[c]))
Overtaken(c, e) ==
  \E i, j \in DOMAIN pushed[c] : i < j /\ pushed[c][j].id = e.id /\ pushed[c][i].id > e.id

(* A collector has the newest of what it took since it was cleared, as many *)
(* as it has room for; room for none is room for one.                       *)
NewestHeld ==
  \A c \in At : LET room == Max({1, Collectors[c].capacity})  all == Held(c) IN
    buffer[c] = SubSeq(all, 1 + Max({room, Len(all)}) - room, Len(all))

(* A client that polls has seen all that is in the buffer up to the last id *)
(* it knows, but for an event that another overtook between getting its id  *)
(* and getting into the buffer: that one it never sees.                     *)
NoneMissed ==
  \A i \in DOMAIN buffer[1] : LET e == buffer[1][i] IN
    e.id <= polled.last => e.id \in polled.got \/ Overtaken(1, e)

(* A subscriber hears no event twice, and all that were logged since it     *)
(* subscribed.                                                              *)
EachHeardOnce ==
  \A s \in Subscribers : LET h == heard[s] IN
    /\ \A i, j \in DOMAIN h.got : h.got[i] = h.got[j] => i = j
    /\ s \in subscribed => {e.id : e \in ToSet(pushed[1])} \ (0 .. h.since - 1) \subseteq ToSet(h.got)

(* The levels add up to the total, if nothing happened while they were      *)
(* counted.                                                                 *)
LevelsAddUp ==
  stats.pc > Cardinality(Levels) /\ stats.quiet =>
    LET n == stats.by_level IN stats.total = n[1] + n[2] + n[3] + n[4] + n[5]

\* By definition: what a request asks for.  Of several values the last counts.
Asked(request, key) == {i \in DOMAIN request : request[i].key = key /\ Read(request[i])}
LastAsked(request, key) == request[Max(Asked(request, key))].value
Wanted(request, e) ==
  /\ Asked(request, "level") # {} => e.level >= ParseLevel[LastAsked(request, "level")]
  /\ Asked(request, "trace_id") # {} => e.trace = LastAsked(request, "trace_id")
  /\ Asked(request, "node_id") # {} => e.node = LastAsked(request, "node_id")
  /\ Asked(request, "pipeline_id") # {} => e.pipeline = LastAsked(request, "pipeline_id")
  /\ Asked(request, "contains") # {} => LastAsked(request, "contains") \in e.message
  /\ Asked(request, "category") # {} => \E i \in Asked(request, "category") : request[i].value = e.category

(* GET /logs answers what was asked for; the recent ones are the last ones, *)
(* newest first.                                                            *)
RequestsAnswered ==
  reader = "query" => \A request \in Requests :
    LET recent == Recent(request) IN
    /\ Query(ParseLogFilter(request)) = {i \in DOMAIN buffer[1] : Wanted(request, buffer[1][i])}
    /\ \A i \in DOMAIN recent : recent[i] = buffer[1][Len(buffer[1]) + 1 - i]

(* The log: what it keeps, what is heard, polled, counted and answered.     *)
LogsRight == NewestHeld /\ NoneMissed /\ EachHeardOnce /\ LevelsAddUp /\ RequestsAnswered
=============================================================================
