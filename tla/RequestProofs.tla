--------------------------- MODULE RequestProofs ---------------------------
(***************************************************************************)
(* Proofs about what the API promises to those who call it, for every      *)
(* configuration, key, scope and path, and for every number of suspended   *)
(* traces, hooks and callers: access to the handlers, and the resumption   *)
(* of a trace by its caller, its timeout and the cleanup.  And about what  *)
(* tests of flows are run with, for every number of tasks and every graph: *)
(* the clock, the file system, the HTTP client and the runner.             *)
(***************************************************************************)
EXTENDS ServiceProofs

\* The least of some numbers is one of them.
LEMMA MinIn ==
  ASSUME NEW I \in SUBSET Nat, I # {}
  PROVE  A!Min(I) \in I
<1>1. \E x \in I : \A y \in I : ~(<<y, x>> \in OpToRel(<, Nat))
  BY NatLessThanWellFounded, WFMin
<1>2. PICK x \in I : \A y \in I : ~(<<y, x>> \in OpToRel(<, Nat))
  BY <1>1
<1>3. ASSUME NEW y \in I PROVE x <= y
  <2>1. <<y, x>> \in Nat \X Nat /\ <<y, x>>[1] = y /\ <<y, x>>[2] = x
    OBVIOUS
  <2>2. ~(y < x)
    BY <1>2, <2>1 DEF OpToRel
  <2> QED
    BY <2>2
<1> QED
  BY <1>3 DEF A!Min

-----------------------------------------------------------------------------
(* Access.  In this part s1 is the configuration, s2 the request, s3 the    *)
(* clock, s4 what authentication returned and s5 the reply.                 *)

Changers == UNION {A!Changing[s] : s \in DOMAIN A!Changing}
Exact(path) == path[1] = "resume" \/ (path[Len(path)] # "" /\ Len(path) <= 5)

\* What a route may be for a path: an error; a public handler; or one behind a
\* scope, which is the scope of the change if the handler makes one, and then
\* the path fits.
RouteFits(to, path) ==
  \/ "status" \in DOMAIN to /\ to.status \in {404, 405}
  \/ DOMAIN to = {"handler"} /\ to.handler \in A!Public
  \/ /\ DOMAIN to = {"scope", "handler"}
     /\ \A s \in DOMAIN A!Changing : to.handler \in A!Changing[s] => to.scope = s
     /\ to.handler \in Changers => Exact(path)

Reading ==
  {"pipelines::list", "pipelines::validate", "pipelines::validate_deploy", "pipelines::get", "pipelines::metrics",
   "traces::list", "traces::list_by_pipeline", "traces::get", "traces::stream", "traces::logs_by_trace",
   "resume::list", "resume::list_by_pipeline", "resume::get", "triggers::list",
   "logs::query", "logs::recent", "logs::stats", "logs::by_trace", "logs::by_level", "not_found"}

LEMMA StatusFits == \A path : RouteFits(A!Status(404), path) /\ RouteFits(A!Status(405), path)
BY DEF RouteFits, A!Status

LEMMA ChangingIs ==
  /\ DOMAIN A!Changing = {"PipelineWrite", "TraceWrite", "TraceResume", "Admin"}
  /\ A!Changing["PipelineWrite"] =
       {"pipelines::create", "pipelines::update", "pipelines::delete", "pipelines::start",
        "pipelines::pause", "pipelines::resume", "pipelines::drain", "pipelines::stop",
        "triggers::pause", "triggers::resume"}
  /\ A!Changing["TraceWrite"] = {"traces::create", "traces::suspend", "traces::cancel", "triggers::fire"}
  /\ A!Changing["TraceResume"] = {"traces::resume", "resume::resume"}
  /\ A!Changing["Admin"] = {"logs::clear"}
BY DEF A!Changing

LEMMA ReadsFit ==
  ASSUME NEW path, NEW scope, NEW h \in Reading
  PROVE  RouteFits(A!To(scope, h), path)
<1>1. \A s \in DOMAIN A!Changing : h \notin A!Changing[s]
  BY ChangingIs DEF Reading
<1>2. h \notin Changers
  BY <1>1 DEF Changers
<1>3. DOMAIN A!To(scope, h) = {"scope", "handler"} /\ A!To(scope, h).handler = h
  BY DEF A!To
<1> QED
  BY <1>1, <1>2, <1>3 DEF RouteFits

LEMMA ChangesFit ==
  ASSUME NEW path, NEW s \in DOMAIN A!Changing, NEW h \in A!Changing[s], Exact(path)
  PROVE  RouteFits(A!To(s, h), path)
<1>1. \A t \in DOMAIN A!Changing : h \in A!Changing[t] => t = s
  <2>1. CASE s = "PipelineWrite"
    BY <2>1, ChangingIs
  <2>2. CASE s = "TraceWrite"
    BY <2>2, ChangingIs
  <2>3. CASE s = "TraceResume"
    BY <2>3, ChangingIs
  <2>4. CASE s = "Admin"
    BY <2>4, ChangingIs
  <2> QED
    BY <2>1, <2>2, <2>3, <2>4, ChangingIs
<1>2. DOMAIN A!To(s, h) = {"scope", "handler"} /\ A!To(s, h).handler = h /\ A!To(s, h).scope = s
  BY DEF A!To
<1> QED
  BY <1>1, <1>2 DEF RouteFits

LEMMA ActionsFit ==
  ASSUME NEW method, NEW rest, NEW gets, NEW posts, NEW path,
         \A x \in DOMAIN gets : RouteFits(gets[x], path),
         Len(rest) = 1 => \A x \in DOMAIN posts : rest[1] = x => RouteFits(posts[x], path)
  PROVE  RouteFits(A!Actions(method, rest, gets, posts), path)
BY StatusFits DEF A!Actions

Blank == ""

LEMMA ExactIf ==
  ASSUME NEW path, NEW n, Len(path) = n, n <= 5, path[n] # Blank
  PROVE  Exact(path)
BY Zenon DEF Exact, Blank

LEMMA TailIs ==
  ASSUME NEW Names, NEW path \in Seq(Names), path # <<>>
  PROVE  /\ Tail(path) \in Seq(Names) /\ Len(path) \in Nat /\ Len(Tail(path)) = Len(path) - 1
         /\ \A i \in 1 .. Len(path) - 1 : Tail(path)[i] = path[i + 1]
OBVIOUS

\* The tail of a tail, by the positions.
Behind(k, rest, path) ==
  Len(path) \in Nat /\ Len(rest) = Len(path) - k /\ \A i \in 1 .. Len(path) - k : rest[i] = path[i + k]

LEMMA BehindTwice ==
  ASSUME NEW j \in Nat, NEW k \in Nat, NEW a, NEW b, NEW c, Behind(j, b, a), Behind(k, c, b)
  PROVE  Behind(j + k, c, a)
BY DEF Behind

LEMMA BehindTail ==
  ASSUME NEW Names, NEW path \in Seq(Names), path # <<>>
  PROVE  Tail(path) \in Seq(Names) /\ Behind(1, Tail(path), path)
BY TailIs DEF Behind

LEMMA BehindOne ==
  ASSUME NEW k \in 0 .. 4, NEW a, NEW b, Behind(k, b, a), Len(b) = 1
  PROVE  Len(a) = k + 1 /\ b[1] = a[k + 1]
<1>1. Len(a) \in Nat /\ 1 = Len(a) - k /\ \A i \in 1 .. Len(a) - k : b[i] = a[i + k]
  BY DEF Behind
<1>2. Len(a) = k + 1
  BY <1>1
<1>3. \A i \in 1 .. 1 : b[i] = a[i + k]
  BY <1>1
<1>4. 1 \in 1 .. 1 /\ 1 + k = k + 1
  OBVIOUS
<1>5. b[1] = a[1 + k]
  BY <1>3, <1>4
<1> QED
  BY <1>2, <1>4, <1>5

LEMMA TriggersFit ==
  ASSUME NEW Names, NEW path \in Seq(Names), NEW method, Len(path) >= 3
  PROVE  RouteFits(A!RouteTriggerSubpath(method, Tail(Tail(path))), path)
<1> DEFINE rest == Tail(Tail(path))
           own == A!TriggerPath(rest)
<1>1. rest \in Seq(Names) /\ rest # <<>> /\ Behind(2, rest, path)
  <2>1. path # <<>> /\ Len(path) \in Nat
    OBVIOUS
  <2>2. Tail(path) \in Seq(Names) /\ Behind(1, Tail(path), path)
    BY <2>1, BehindTail
  <2>3. Tail(path) # <<>>
    <3>1. Len(Tail(path)) # 0 /\ Len(<<>>) = 0
      BY <2>1, <2>2 DEF Behind
    <3> QED
      BY <3>1
  <2>4. rest \in Seq(Names) /\ Behind(1, rest, Tail(path))
    BY <2>2, <2>3, BehindTail
  <2>5. Behind(1 + 1, rest, path)
    BY <2>2, <2>4, BehindTwice
  <2>6. rest # <<>>
    <3> HIDE DEF rest
    <3>1. Len(rest) = Len(path) - 2
      BY <2>5 DEF Behind
    <3>2. Len(rest) # 0 /\ Len(<<>>) = 0
      BY <2>1, <3>1
    <3> QED
      BY <3>2
  <2> QED
    BY <2>4, <2>5, <2>6
<1>2. RouteFits(A!To("PipelineRead", "triggers::list"), path)
  BY ReadsFit DEF Reading
<1> DEFINE posts == [fire |-> A!To("TraceWrite", "triggers::fire"), pause |-> A!To("PipelineWrite", "triggers::pause"),
                     resume |-> A!To("PipelineWrite", "triggers::resume")]
<1> HIDE DEF rest
<1>3. ASSUME own # <<>> PROVE RouteFits(A!Actions(method, Tail(own), <<>>, posts), path)
  <2>1. ASSUME Len(Tail(own)) = 1, Tail(own)[1] # Blank PROVE Exact(path)
    <3>0. Tail(rest) \in Seq(Names) /\ Behind(3, Tail(rest), path)
      <4>1. Tail(rest) \in Seq(Names) /\ Behind(1, Tail(rest), rest)
        BY <1>1, BehindTail
      <4>2. Behind(2 + 1, Tail(rest), path)
        BY <1>1, <4>1, BehindTwice
      <4> QED
        BY <4>1, <4>2
    <3>1. CASE rest[1] = "triggers"
      <4>1. own = Tail(rest)
        BY <3>1 DEF A!TriggerPath
      <4>2. Behind(1, Tail(own), own)
        BY <1>3, <3>0, <4>1, BehindTail
      <4>3. Behind(3 + 1, Tail(own), path)
        BY <3>0, <4>1, <4>2, BehindTwice
      <4>4. Len(path) = 4 + 1 /\ Tail(own)[1] = path[4 + 1]
        <5>1. 3 + 1 = 4 /\ 4 \in 0 .. 4
          OBVIOUS
        <5> QED
          BY <2>1, <4>3, <5>1, BehindOne, Zenon
      <4>5. 4 + 1 <= 5
        OBVIOUS
      <4> QED
        BY <2>1, <4>4, <4>5, ExactIf
    <3>2. CASE rest[1] # "triggers"
      <4>1. own = <<"x">> \o Tail(rest)
        BY <3>2 DEF A!TriggerPath
      <4>2. Tail(own) = Tail(rest)
        BY <3>0, <4>1
      <4>3. Len(path) = 3 + 1 /\ Tail(own)[1] = path[3 + 1]
        <5>1. 3 \in 0 .. 4
          OBVIOUS
        <5> QED
          BY <2>1, <3>0, <4>2, <5>1, BehindOne, Zenon
      <4>4. 3 + 1 <= 5
        OBVIOUS
      <4> QED
        BY <2>1, <4>3, <4>4, ExactIf
    <3> QED
      BY <3>1, <3>2
  <2>2. DOMAIN posts = {"fire", "pause", "resume"} /\ Blank \notin {"fire", "pause", "resume"}
    BY DEF Blank
  <2>3. ASSUME Exact(path), NEW x \in DOMAIN posts PROVE RouteFits(posts[x], path)
    <3>1. RouteFits(A!To("TraceWrite", "triggers::fire"), path)
      BY <2>3, ChangesFit, ChangingIs
    <3>2. RouteFits(A!To("PipelineWrite", "triggers::pause"), path)
      BY <2>3, ChangesFit, ChangingIs
    <3>3. RouteFits(A!To("PipelineWrite", "triggers::resume"), path)
      BY <2>3, ChangesFit, ChangingIs
    <3> QED
      BY <2>2, <2>3, <3>1, <3>2, <3>3
  <2> HIDE DEF posts, own
  <2>4. Len(Tail(own)) = 1 => \A x \in DOMAIN posts : Tail(own)[1] = x => RouteFits(posts[x], path)
    BY <2>1, <2>2, <2>3
  <2>5. \A x \in DOMAIN <<>> : RouteFits(<<>>[x], path)
    OBVIOUS
  <2> QED
    BY <2>4, <2>5, ActionsFit
<1> HIDE DEF own, posts
<1>4. A!RouteTriggerSubpath(method, rest) =
        IF own \in {<<>>, <<Blank>>}
        THEN IF method = "GET" THEN A!To("PipelineRead", "triggers::list") ELSE A!Status(405)
        ELSE IF own[1] = Blank THEN A!Status(404)
        ELSE A!Actions(method, Tail(own), <<>>, posts)
  BY DEF A!RouteTriggerSubpath, own, posts, Blank
<1>5. \/ A!RouteTriggerSubpath(method, rest) \in {A!To("PipelineRead", "triggers::list"), A!Status(405), A!Status(404)}
      \/ own # <<>> /\ A!RouteTriggerSubpath(method, rest) = A!Actions(method, Tail(own), <<>>, posts)
  BY <1>4
<1> QED
  BY <1>2, <1>3, <1>5, StatusFits DEF rest

\* Below a root: the path after it, and what follows the name there.
LEMMA BelowRoot ==
  ASSUME NEW Names, NEW path \in Seq(Names), Len(path) > 1
  PROVE  /\ Behind(1, Tail(path), path) /\ Behind(2, Tail(Tail(path)), path)
         /\ Tail(Tail(path)) = <<>> => Len(path) = 2
         /\ Tail(Tail(path)) # <<>> => Len(path) >= 3
         /\ Tail(path)[1] = path[2]
<1> DEFINE own == Tail(path)
           rest == Tail(own)
<1>1. path # <<>> /\ Len(path) \in Nat
  OBVIOUS
<1>2. own \in Seq(Names) /\ Behind(1, own, path)
  BY <1>1, BehindTail
<1> HIDE DEF own
<1>3. Len(own) = Len(path) - 1 /\ \A i \in 1 .. Len(path) - 1 : own[i] = path[i + 1]
  BY <1>2 DEF Behind
<1>4. own # <<>> /\ own[1] = path[2]
  <2>1. Len(own) # 0 /\ Len(<<>>) = 0 /\ 1 \in 1 .. Len(path) - 1
    BY <1>1, <1>3
  <2> QED
    BY <1>3, <2>1
<1>5. rest \in Seq(Names) /\ Behind(1, rest, own)
  BY <1>2, <1>4, BehindTail
<1> HIDE DEF rest
<1>6. Behind(1 + 1, rest, path)
  BY <1>2, <1>5, BehindTwice
<1>7. Len(rest) = Len(path) - 2
  BY <1>6 DEF Behind
<1>8. rest = <<>> => Len(path) = 2
  <2>1. Len(<<>>) = 0
    OBVIOUS
  <2> QED
    BY <1>1, <1>7, <2>1
<1>9. rest # <<>> => Len(path) >= 3
  <2>1. rest # <<>> => Len(rest) # 0
    BY <1>5
  <2> QED
    BY <1>1, <1>7, <2>1
<1>10. Behind(2, rest, path)
  BY <1>6
<1> QED
  BY <1>2, <1>4, <1>8, <1>9, <1>10 DEF own, rest

\* The last of three segments is the one that Actions looks at.
LEMMA ThirdExact ==
  ASSUME NEW path, NEW rest, Behind(2, rest, path), Len(rest) = 1, rest[1] # Blank
  PROVE  Exact(path)
<1>1. 2 \in 0 .. 4 /\ 2 + 1 <= 5
  OBVIOUS
<1>2. Len(path) = 2 + 1 /\ rest[1] = path[2 + 1]
  BY <1>1, BehindOne, Zenon
<1> QED
  BY <1>1, <1>2, ExactIf

LEMMA SecondExact ==
  ASSUME NEW path, Len(path) = 2, path[2] # Blank
  PROVE  Exact(path)
<1>1. 2 <= 5
  OBVIOUS
<1> QED
  BY <1>1, ExactIf

LEMMA PipelinesFit ==
  ASSUME NEW Names, NEW path \in Seq(Names), NEW method, Len(path) > 1
  PROVE  RouteFits(A!RoutePipelineSubpath(method, Tail(path)), path)
<1> DEFINE own == Tail(path)
           rest == Tail(own)
           gets == [metrics |-> A!To("PipelineRead", "pipelines::metrics"), traces |-> A!To("TraceRead", "traces::list_by_pipeline"),
                    suspensions |-> A!To("TraceRead", "resume::list_by_pipeline")]
           posts == [start |-> A!To("PipelineWrite", "pipelines::start"), pause |-> A!To("PipelineWrite", "pipelines::pause"),
                     resume |-> A!To("PipelineWrite", "pipelines::resume"), drain |-> A!To("PipelineWrite", "pipelines::drain"),
                     stop |-> A!To("PipelineWrite", "pipelines::stop")]
<1>1. /\ Behind(2, rest, path) /\ own[1] = path[2]
      /\ rest = <<>> => Len(path) = 2
      /\ rest # <<>> => Len(path) >= 3
  BY BelowRoot
<1>2. CASE rest = <<>> /\ own[1] # Blank
  <2>1. Exact(path)
    BY <1>1, <1>2, SecondExact
  <2>2. RouteFits(A!To("PipelineRead", "pipelines::get"), path)
    BY ReadsFit DEF Reading
  <2>3. /\ RouteFits(A!To("PipelineWrite", "pipelines::update"), path)
        /\ RouteFits(A!To("PipelineWrite", "pipelines::delete"), path)
    BY <2>1, ChangesFit, ChangingIs
  <2>4. A!RoutePipelineSubpath(method, own) =
          CASE method = "GET" -> A!To("PipelineRead", "pipelines::get")
            [] method = "PUT" -> A!To("PipelineWrite", "pipelines::update")
            [] method = "DELETE" -> A!To("PipelineWrite", "pipelines::delete")
            [] OTHER -> A!Status(404)
    BY <1>2, Zenon DEF A!RoutePipelineSubpath, Blank
  <2> HIDE DEF own
  <2>5. A!RoutePipelineSubpath(method, own) \in
          {A!To("PipelineRead", "pipelines::get"), A!To("PipelineWrite", "pipelines::update"),
           A!To("PipelineWrite", "pipelines::delete"), A!Status(404)}
    BY <2>4
  <2> QED
    BY <2>2, <2>3, <2>5, StatusFits DEF own
<1>3. RouteFits(A!To("PipelineWrite", "pipelines::validate_deploy"), path)
  BY ReadsFit DEF Reading
<1>4. rest # <<>> => RouteFits(A!RouteTriggerSubpath(method, rest), path)
  BY <1>1, TriggersFit
<1>5. RouteFits(A!Actions(method, rest, gets, posts), path)
  <2>1. /\ RouteFits(A!To("PipelineRead", "pipelines::metrics"), path)
        /\ RouteFits(A!To("TraceRead", "traces::list_by_pipeline"), path)
        /\ RouteFits(A!To("TraceRead", "resume::list_by_pipeline"), path)
    BY ReadsFit DEF Reading
  <2>2. ASSUME Exact(path)
        PROVE  /\ RouteFits(A!To("PipelineWrite", "pipelines::start"), path)
               /\ RouteFits(A!To("PipelineWrite", "pipelines::pause"), path)
               /\ RouteFits(A!To("PipelineWrite", "pipelines::resume"), path)
               /\ RouteFits(A!To("PipelineWrite", "pipelines::drain"), path)
               /\ RouteFits(A!To("PipelineWrite", "pipelines::stop"), path)
    BY <2>2, ChangesFit, ChangingIs
  <2> HIDE DEF rest
  <2>3. \A x \in DOMAIN gets : RouteFits(gets[x], path)
    BY <2>1
  <2>4. DOMAIN posts = {"start", "pause", "resume", "drain", "stop"}
    OBVIOUS
  <2>5. Exact(path) => \A x \in DOMAIN posts : RouteFits(posts[x], path)
    BY <2>2, <2>4
  <2>6. Blank \notin {"start", "pause", "resume", "drain", "stop"}
    BY DEF Blank
  <2> HIDE DEF gets, posts
  <2>7. Len(rest) = 1 => \A x \in DOMAIN posts : rest[1] = x => RouteFits(posts[x], path)
    BY <1>1, <2>4, <2>5, <2>6, ThirdExact
  <2> QED
    BY <2>3, <2>7, ActionsFit
<1>6. CASE rest # <<>>
  <2> HIDE DEF own, rest, gets, posts
  <2>1. \/ A!RoutePipelineSubpath(method, own) \in
             {A!Status(404), A!To("PipelineWrite", "pipelines::validate_deploy"), A!RouteTriggerSubpath(method, rest)}
        \/ A!RoutePipelineSubpath(method, own) = A!Actions(method, rest, gets, posts)
    BY <1>6, Zenon DEF A!RoutePipelineSubpath, rest, gets, posts
  <2> QED
    BY <1>3, <1>4, <1>5, <1>6, <2>1, StatusFits DEF own
<1>7. CASE own[1] = Blank
  <2>1. A!RoutePipelineSubpath(method, own) = A!Status(404)
    BY <1>7, Zenon DEF A!RoutePipelineSubpath, Blank
  <2> QED
    BY <2>1, StatusFits
<1> QED
  BY <1>2, <1>6, <1>7

LEMMA TracesFit ==
  ASSUME NEW Names, NEW path \in Seq(Names), NEW method, Len(path) > 1
  PROVE  RouteFits(A!RouteTraceSubpath(method, Tail(path)), path)
<1> DEFINE own == Tail(path)
           rest == Tail(own)
           gets == [stream |-> A!To("TraceRead", "traces::stream"), logs |-> A!To("TraceRead", "traces::logs_by_trace")]
           posts == [suspend |-> A!To("TraceWrite", "traces::suspend"), resume |-> A!To("TraceResume", "traces::resume"),
                     cancel |-> A!To("TraceWrite", "traces::cancel")]
<1>1. Behind(2, rest, path)
  BY BelowRoot
<1>2. /\ RouteFits(A!To("TraceRead", "traces::stream"), path)
      /\ RouteFits(A!To("TraceRead", "traces::logs_by_trace"), path)
      /\ RouteFits(A!To("TraceRead", "traces::get"), path)
  BY ReadsFit DEF Reading
<1>3. ASSUME Exact(path)
      PROVE  /\ RouteFits(A!To("TraceWrite", "traces::suspend"), path)
             /\ RouteFits(A!To("TraceResume", "traces::resume"), path)
             /\ RouteFits(A!To("TraceWrite", "traces::cancel"), path)
  BY <1>3, ChangesFit, ChangingIs
<1> HIDE DEF rest, own
<1>4. \A x \in DOMAIN gets : RouteFits(gets[x], path)
  BY <1>2
<1>5. DOMAIN posts = {"suspend", "resume", "cancel"} /\ Blank \notin {"suspend", "resume", "cancel"}
  BY DEF Blank
<1>6. Exact(path) => \A x \in DOMAIN posts : RouteFits(posts[x], path)
  BY <1>3, <1>5
<1> HIDE DEF gets, posts
<1>7. Len(rest) = 1 => \A x \in DOMAIN posts : rest[1] = x => RouteFits(posts[x], path)
  BY <1>1, <1>5, <1>6, ThirdExact
<1>8. RouteFits(A!Actions(method, rest, gets, posts), path)
  BY <1>4, <1>7, ActionsFit
<1>9. A!RouteTraceSubpath(method, own) \in
        {A!Status(404), A!Status(405), A!To("TraceRead", "traces::get"), A!Actions(method, rest, gets, posts)}
  <2> DEFINE to == A!Actions(method, rest, gets, posts)
  <2>1. A!RouteTraceSubpath(method, own) =
          IF own[1] = Blank THEN A!Status(404)
          ELSE IF rest = <<>> /\ method = "GET" THEN A!To("TraceRead", "traces::get")
          ELSE IF to = A!Status(404) THEN A!Status(405) ELSE to
    BY DEF A!RouteTraceSubpath, rest, gets, posts, Blank
  <2> HIDE DEF to
  <2> QED
    BY <2>1 DEF to
<1> QED
  BY <1>2, <1>8, <1>9, StatusFits DEF own

LEMMA LogsFit ==
  ASSUME NEW own, NEW path
  PROVE  RouteFits(A!RouteLogSubpath(own), path)
<1>1. A!RouteLogSubpath(own) \in
        {A!Status(404), A!To("TraceRead", "logs::by_trace"), A!To("TraceRead", "logs::by_level"),
         A!To("TraceRead", "not_found")}
  BY Zenon DEF A!RouteLogSubpath
<1>2. /\ RouteFits(A!To("TraceRead", "logs::by_trace"), path)
      /\ RouteFits(A!To("TraceRead", "logs::by_level"), path)
      /\ RouteFits(A!To("TraceRead", "not_found"), path)
  BY ReadsFit DEF Reading
<1> QED
  BY <1>1, <1>2, StatusFits

LEMMA ResumesFit ==
  ASSUME NEW method, NEW own, NEW path, path[1] = "resume"
  PROVE  RouteFits(A!RouteResumeSubpath(method, own), path)
<1>1. Exact(path)
  BY Zenon DEF Exact
<1>2. RouteFits(A!To("TraceRead", "resume::get"), path)
  BY ReadsFit DEF Reading
<1>3. RouteFits(A!To("TraceResume", "resume::resume"), path)
  BY <1>1, ChangesFit, ChangingIs
<1>4. A!RouteResumeSubpath(method, own) =
        CASE own = <<Blank>> -> A!Status(404)
          [] own # <<Blank>> /\ method = "GET" -> A!To("TraceRead", "resume::get")
          [] own # <<Blank>> /\ method = "POST" -> A!To("TraceResume", "resume::resume")
          [] OTHER -> A!Status(405)
  BY Zenon DEF A!RouteResumeSubpath, Blank
<1>5. A!RouteResumeSubpath(method, own) \in
        {A!Status(404), A!Status(405), A!To("TraceRead", "resume::get"), A!To("TraceResume", "resume::resume")}
  BY <1>4
<1> QED
  BY <1>2, <1>3, <1>5, StatusFits

LEMMA FixedFit ==
  ASSUME NEW path, NEW i \in DOMAIN A!Fixed, A!Fixed[i][2] = path
  PROVE  RouteFits(A!Fixed[i][3], path)
<1>1. DOMAIN A!Fixed = 1 .. 10
  BY DEF A!Fixed
<1>2. /\ RouteFits(A!To("PipelineRead", "pipelines::list"), path)
      /\ RouteFits(A!To("PipelineWrite", "pipelines::validate"), path)
      /\ RouteFits(A!To("TraceRead", "traces::list"), path)
      /\ RouteFits(A!To("TraceRead", "logs::query"), path)
      /\ RouteFits(A!To("TraceRead", "logs::recent"), path)
      /\ RouteFits(A!To("TraceRead", "logs::stats"), path)
      /\ RouteFits(A!To("TraceRead", "resume::list"), path)
  BY ReadsFit DEF Reading
<1>3. ASSUME NEW root, path = <<root>>, root # Blank PROVE Exact(path)
  <2>1. Len(path) = 1 /\ path[1] = root /\ 1 <= 5
    BY <1>3
  <2> QED
    BY <1>3, <2>1, ExactIf
<1>4. Blank # "pipelines" /\ Blank # "traces" /\ Blank # "logs"
  BY DEF Blank
<1>5. CASE i = 2
  <2>1. A!Fixed[i][2] = <<"pipelines">> /\ A!Fixed[i][3] = A!To("PipelineWrite", "pipelines::create")
    BY <1>5 DEF A!Fixed
  <2>2. Exact(path)
    BY <1>3, <1>4, <2>1
  <2> QED
    BY <2>1, <2>2, ChangesFit, ChangingIs
<1>6. CASE i = 5
  <2>1. A!Fixed[i][2] = <<"traces">> /\ A!Fixed[i][3] = A!To("TraceWrite", "traces::create")
    BY <1>6 DEF A!Fixed
  <2>2. Exact(path)
    BY <1>3, <1>4, <2>1
  <2> QED
    BY <2>1, <2>2, ChangesFit, ChangingIs
<1>7. CASE i = 9
  <2>1. A!Fixed[i][2] = <<"logs">> /\ A!Fixed[i][3] = A!To("Admin", "logs::clear")
    BY <1>7 DEF A!Fixed
  <2>2. Exact(path)
    BY <1>3, <1>4, <2>1
  <2> QED
    BY <2>1, <2>2, ChangesFit, ChangingIs
<1>8. CASE i \in {1, 3, 4, 6, 7, 8, 10}
  <2>1. A!Fixed[i][3] \in
          {A!To("PipelineRead", "pipelines::list"), A!To("PipelineWrite", "pipelines::validate"),
           A!To("TraceRead", "traces::list"), A!To("TraceRead", "logs::query"), A!To("TraceRead", "logs::recent"),
           A!To("TraceRead", "logs::stats"), A!To("TraceRead", "resume::list")}
    BY <1>8 DEF A!Fixed
  <2> QED
    BY <1>2, <2>1
<1>9. i = 2 \/ i = 5 \/ i = 9 \/ i \in {1, 3, 4, 6, 7, 8, 10}
  BY <1>1
<1> QED
  BY <1>5, <1>6, <1>7, <1>8, <1>9

\* Every route of the router is for its path.
LEMMA RoutesFit ==
  ASSUME NEW Names, NEW path \in Seq(Names), NEW method
  PROVE  RouteFits(A!Route(method, path), path)
<1> DEFINE fixed == {i \in DOMAIN A!Fixed : A!Fixed[i][1] = method /\ A!Fixed[i][2] = path}
           below(root) == Len(path) > 1 /\ path[1] = root
           public == [handler |-> A!Open[path[1]]]
           nodes == [handler |-> "nodes::metadata"]
<1>1. A!Route(method, path) =
        IF method = "GET" /\ Len(path) = 1 /\ path[1] \in DOMAIN A!Open THEN public
        ELSE IF method = "GET" /\ path = <<"nodes", "metadata">> THEN nodes
        ELSE IF fixed # {} THEN A!Fixed[A!Min(fixed)][3]
        ELSE IF below("pipelines") THEN A!RoutePipelineSubpath(method, Tail(path))
        ELSE IF below("traces") THEN A!RouteTraceSubpath(method, Tail(path))
        ELSE IF below("logs") THEN A!RouteLogSubpath(Tail(path))
        ELSE IF below("resume") THEN A!RouteResumeSubpath(method, Tail(path))
        ELSE A!Status(404)
  BY DEF A!Route
<1>2. path[1] \in DOMAIN A!Open => RouteFits(public, path)
  <2>1. path[1] \in DOMAIN A!Open => A!Open[path[1]] \in A!Public
    BY DEF A!Open, A!Public
  <2>2. DOMAIN public = {"handler"} /\ public.handler = A!Open[path[1]]
    OBVIOUS
  <2> HIDE DEF public
  <2> QED
    BY <2>1, <2>2 DEF RouteFits
<1>3. RouteFits(nodes, path)
  <2>1. DOMAIN nodes = {"handler"} /\ nodes.handler \in A!Public
    BY DEF A!Public
  <2> HIDE DEF nodes
  <2> QED
    BY <2>1 DEF RouteFits
<1>4. fixed # {} => RouteFits(A!Fixed[A!Min(fixed)][3], path)
  <2>1. DOMAIN A!Fixed = 1 .. 10
    BY DEF A!Fixed
  <2>2. fixed \in SUBSET Nat
    BY <2>1
  <2>3. fixed # {} => A!Min(fixed) \in fixed
    BY <2>2, MinIn
  <2> QED
    BY <2>3, FixedFit
<1>5. below("pipelines") => RouteFits(A!RoutePipelineSubpath(method, Tail(path)), path)
  BY PipelinesFit
<1>6. below("traces") => RouteFits(A!RouteTraceSubpath(method, Tail(path)), path)
  BY TracesFit
<1>7. RouteFits(A!RouteLogSubpath(Tail(path)), path)
  BY LogsFit
<1>8. below("resume") => RouteFits(A!RouteResumeSubpath(method, Tail(path)), path)
  BY ResumesFit
<1> HIDE DEF fixed, below, public, nodes
<1> QED
  BY <1>1, <1>2, <1>3, <1>4, <1>5, <1>6, <1>7, <1>8, StatusFits

LEMMA AccessAssumed ==
  ASSUME s1 \in AuthConfigs, s2 \in Calls
  PROVE  /\ s1.keys \in Seq(A!Range(s1.keys))
         /\ \A i \in DOMAIN s1.keys :
              /\ s1.keys[i].key # NoKey
              /\ "expires_at" \in DOMAIN s1.keys[i] => s1.keys[i].expires_at \in Nat
         /\ s2.path \in Seq(A!Range(s2.path))
<1>1. A!AccessConstants
  BY ServiceAssumption
<1> QED
  BY <1>1 DEF A!AccessConstants, A!Range

\* What authentication has granted: everything where there is none, nothing on
\* an exempt path, and otherwise the scopes of an entry with the key.
Entry(i, c) ==
  LET e == s1.keys[i] IN
  e.key = s2.key /\ c.scopes = e.scopes /\ ("expires_at" \in DOMAIN e => c.at < e.expires_at)
GrantedBy(c) ==
  \/ ~s1.enabled /\ c.scopes = A!Scopes
  \/ s1.enabled /\ A!IsPathExempt(s2.path) /\ c.scopes = {}
  \/ s1.enabled /\ ~A!IsPathExempt(s2.path) /\ s1.api_key /\ \E i \in DOMAIN s1.keys : Entry(i, c)

AccessTypes == s1 \in AuthConfigs /\ s2 \in Calls /\ s3 \in Nat
AccessParts ==
  /\ AccessTypes
  /\ s4.ok => GrantedBy(s4)
  /\ s5 = A!NoReply \/ A!AccessRight
AccessInv == part = "access" => AccessParts

\* An entry with a key that no other repeats is the one that was found.
LEMMA OnlyOne ==
  ASSUME AccessTypes, NEW i \in DOMAIN s1.keys, NEW j \in DOMAIN s1.keys, s1.keys[i].key = s1.keys[j].key,
         A!Cardinality({k \in DOMAIN s1.keys : s1.keys[k].key = s1.keys[j].key}) = 1
  PROVE  i = j
<1> DEFINE same == {k \in DOMAIN s1.keys : s1.keys[k].key = s1.keys[j].key}
<1>1. A!Cardinality(same) = Cardinality(same)
  BY Zenon DEF A!Cardinality, Cardinality
<1>2. s1.keys \in Seq(A!Range(s1.keys))
  BY AccessAssumed DEF AccessTypes
<1>3. DOMAIN s1.keys = 1 .. Len(s1.keys) /\ Len(s1.keys) \in Int
  BY <1>2
<1>4. IsFiniteSet(DOMAIN s1.keys)
  BY <1>3, FS_Interval
<1>5. IsFiniteSet(same)
  BY <1>4, FS_Subset
<1>6. i \in same /\ j \in same
  OBVIOUS
<1> HIDE DEF same
<1>7. Cardinality(same) = 1
  BY <1>1 DEF same
<1>8. PICK x : same = {x}
  BY <1>5, <1>7, FS_Singleton
<1> QED
  BY <1>6, <1>8

LEMMA FirstIsEntry ==
  ASSUME AccessTypes, NEW key, {i \in DOMAIN s1.keys : s1.keys[i].key = key} # {}
  PROVE  LET first == A!Min({i \in DOMAIN s1.keys : s1.keys[i].key = key}) IN
         first \in DOMAIN s1.keys /\ s1.keys[first].key = key
<1> DEFINE same == {i \in DOMAIN s1.keys : s1.keys[i].key = key}
<1>1. s1.keys \in Seq(A!Range(s1.keys))
  BY AccessAssumed DEF AccessTypes
<1>2. same \in SUBSET Nat
  BY <1>1
<1>3. A!Min(same) \in same
  BY <1>2, MinIn
<1> QED
  BY <1>3

Refused ==
  /\ s1.enabled
  /\ ~A!IsPathExempt(s2.path) /\ s1.api_key =>
       \A j \in DOMAIN s1.keys :
         /\ s1.keys[j].key = s2.key /\ "Admin" \in s1.keys[j].scopes
         /\ A!Cardinality({k \in DOMAIN s1.keys : s1.keys[k].key = s1.keys[j].key}) = 1
         => "expires_at" \in DOMAIN s1.keys[j] /\ s3 >= s1.keys[j].expires_at

LEMMA Authenticates ==
  ASSUME AccessTypes
  PROVE  LET c == A!Authenticate(s2.path, s2.key) IN
         IF c.ok THEN GrantedBy(c) ELSE Refused
<1> DEFINE c == A!Authenticate(s2.path, s2.key)
           same == {i \in DOMAIN s1.keys : s1.keys[i].key = s2.key}
           first == A!Min(same)
           e == s1.keys[first]
           good == [ok |-> TRUE, identity |-> e.identity, scopes |-> e.scopes, at |-> s3]
<1>0. ~A!NoContext.ok
  BY Zenon DEF A!NoContext
<1>1. CASE ~s1.enabled
  <2>1. c = A!Anonymous(A!Scopes)
    BY <1>1 DEF A!Authenticate
  <2>2. c.ok /\ c.scopes = A!Scopes
    BY <2>1 DEF A!Anonymous
  <2> HIDE DEF c
  <2> QED
    BY <1>1, <2>2 DEF GrantedBy, c
<1>2. CASE s1.enabled /\ A!IsPathExempt(s2.path)
  <2>1. c = A!Anonymous({})
    BY <1>2 DEF A!Authenticate
  <2>2. c.ok /\ c.scopes = {}
    BY <2>1 DEF A!Anonymous
  <2> HIDE DEF c
  <2> QED
    BY <1>2, <2>2 DEF GrantedBy, c
<1>3. CASE s1.enabled /\ ~A!IsPathExempt(s2.path) /\ ~(s1.api_key /\ s2.key # NoKey)
  <2>1. c = A!NoContext
    BY <1>3 DEF A!Authenticate
  <2>2. ~c.ok
    BY <1>0, <2>1
  <2>3. Refused
    BY <1>3, AccessAssumed DEF Refused, AccessTypes
  <2> HIDE DEF c
  <2> QED
    BY <2>2, <2>3 DEF c
<1>4. CASE s1.enabled /\ ~A!IsPathExempt(s2.path) /\ s1.api_key /\ s2.key # NoKey
  <2>1. c = IF same = {} \/ A!IsExpired(e) THEN A!NoContext ELSE good
    BY <1>4 DEF A!Authenticate, A!Validate
  <2>2. same # {} => first \in DOMAIN s1.keys /\ e.key = s2.key
    BY FirstIsEntry
  <2>3. CASE same = {}
    <3>1. ~c.ok
      BY <1>0, <2>1, <2>3
    <3>2. Refused
      BY <1>4, <2>3 DEF Refused
    <3> HIDE DEF c
    <3> QED
      BY <3>1, <3>2 DEF c
  <2>4. CASE same # {} /\ A!IsExpired(e)
    <3>1. ~c.ok
      BY <1>0, <2>1, <2>4
    <3>2. "expires_at" \in DOMAIN e /\ s3 >= e.expires_at
      BY <2>4 DEF A!IsExpired
    <3>3. Refused
      <4> SUFFICES ASSUME NEW j \in DOMAIN s1.keys, s1.keys[j].key = s2.key,
                          A!Cardinality({k \in DOMAIN s1.keys : s1.keys[k].key = s1.keys[j].key}) = 1
                   PROVE  "expires_at" \in DOMAIN s1.keys[j] /\ s3 >= s1.keys[j].expires_at
        BY <1>4 DEF Refused
      <4> HIDE DEF first, same
      <4>1. first = j
        BY <2>2, <2>4, OnlyOne
      <4> QED
        BY <3>2, <4>1
    <3> HIDE DEF c
    <3> QED
      BY <3>1, <3>3 DEF c
  <2>5. CASE same # {} /\ ~A!IsExpired(e)
    <3>1. c = good
      BY <2>1, <2>5
    <3>2. good.ok /\ good.scopes = e.scopes /\ good.at = s3
      OBVIOUS
    <3> HIDE DEF good, first, same, c
    <3>3. "expires_at" \in DOMAIN e => s3 < e.expires_at
      BY <2>2, <2>5, AccessAssumed DEF A!IsExpired, AccessTypes
    <3>4. Entry(first, c)
      BY <2>2, <2>5, <3>1, <3>2, <3>3 DEF Entry
    <3> QED
      BY <1>4, <2>2, <2>5, <3>1, <3>2, <3>4 DEF GrantedBy, c
  <2> QED
    BY <2>3, <2>4, <2>5
<1> QED
  BY <1>1, <1>2, <1>3, <1>4

LEMMA AccessSteps ==
  ASSUME [Next]_vars
  PROVE  part' = part /\ (part = "access" => A!Next \/ UNCHANGED <<s1, s2, s3, s4, s5>>)
BY DEF Next, SmallNext, vars, others, shared, server, triggers, apistate, breaker

\* Public handlers change nothing.
LEMMA PublicReads == \A h \in A!Public : h \notin Changers /\ \A s \in DOMAIN A!Changing : h \notin A!Changing[s]
<1> SUFFICES ASSUME NEW h \in A!Public PROVE \A s \in DOMAIN A!Changing : h \notin A!Changing[s]
  BY DEF Changers
<1> QED
  BY ChangingIs DEF A!Public

\* A reply that runs nothing but a public handler and refuses nobody is right.
LEMMA HarmlessRight ==
  ASSUME s5'.handler \in A!Public, s5'.status \notin {401, 403}
  PROVE  A!AccessRight'
BY PublicReads DEF A!AccessRight, A!OnlyTheAllowed, A!TheAllowedPass, A!NoSloppyChange, Changers

LEMMA RefusalRight ==
  ASSUME UNCHANGED <<s1, s2, s3>>, s5'.handler = "none", Refused
  PROVE  A!AccessRight'
<1>1. "none" \in A!Public
  BY DEF A!Public
<1>2. A!OnlyTheAllowed' /\ A!NoSloppyChange'
  BY <1>1, PublicReads DEF A!OnlyTheAllowed, A!NoSloppyChange, Changers
<1>3. A!IsPathExempt(s2.path)' <=> A!IsPathExempt(s2.path)
  BY DEF A!IsPathExempt
<1>4. A!TheAllowedPass'
  BY <1>3 DEF Refused, A!TheAllowedPass, A!Range
<1> QED
  BY <1>2, <1>4 DEF A!AccessRight

LEMMA GrantedKept ==
  ASSUME UNCHANGED <<s1, s2>>, GrantedBy(s4')
  PROVE  GrantedBy(s4)'
<1>1. A!IsPathExempt(s2.path)' <=> A!IsPathExempt(s2.path)
  BY DEF A!IsPathExempt
<1> QED
  BY <1>1 DEF GrantedBy, Entry

LEMMA AccessStarts == InitPart => AccessInv
<1> SUFFICES ASSUME A!Init PROVE AccessParts
  BY DEF InitPart, Init, AccessInv
<1>1. ~A!NoContext.ok
  BY Zenon DEF A!NoContext
<1> QED
  BY <1>1 DEF A!Init, AccessParts, AccessTypes

LEMMA TickKeeps ==
  ASSUME AccessParts, A!Tick
  PROVE  AccessParts'
<1>1. UNCHANGED <<s1, s2, s4, s5>> /\ s5 = A!NoReply /\ s3' = s3 + 1
  BY DEF A!Tick
<1>2. s5' = A!NoReply'
  BY <1>1 DEF A!NoReply
<1>3. s4'.ok => GrantedBy(s4)'
  BY <1>1, GrantedKept DEF AccessParts
<1>4. AccessTypes'
  BY <1>1 DEF AccessParts, AccessTypes
<1> QED
  BY <1>2, <1>3, <1>4 DEF AccessParts

LEMMA EnterKeeps ==
  ASSUME AccessParts, A!Enter
  PROVE  AccessParts'
<1>1. UNCHANGED <<s1, s2, s3>>
  BY DEF A!Enter
<1>2. AccessTypes /\ AccessTypes'
  BY <1>1 DEF AccessParts, AccessTypes
<1>3. CASE s5' = [status |-> 204, handler |-> "preflight"] /\ UNCHANGED s4
  <2>1. s5'.handler \in A!Public /\ s5'.status \notin {401, 403}
    BY <1>3 DEF A!Public
  <2>2. A!AccessRight'
    BY <2>1, HarmlessRight
  <2>3. s4'.ok => GrantedBy(s4)'
    BY <1>1, <1>3, GrantedKept DEF AccessParts
  <2> QED
    BY <1>2, <2>2, <2>3 DEF AccessParts
<1>4. CASE /\ s4' = A!Authenticate(s2.path, s2.key)
           /\ s5' = IF s4'.ok THEN A!NoReply ELSE [status |-> 401, handler |-> "none"]
  <2>1. IF s4'.ok THEN GrantedBy(s4') ELSE Refused
    BY <1>2, <1>4, Authenticates
  <2>2. CASE s4'.ok
    <3>1. GrantedBy(s4)'
      BY <1>1, <2>1, <2>2, GrantedKept
    <3>2. s5' = A!NoReply'
      BY <1>4, <2>2 DEF A!NoReply
    <3> QED
      BY <1>2, <3>1, <3>2 DEF AccessParts
  <2>3. CASE ~s4'.ok
    <3>1. s5'.handler = "none" /\ Refused
      BY <1>4, <2>1, <2>3
    <3>2. A!AccessRight'
      BY <1>1, <3>1, RefusalRight
    <3> QED
      BY <1>2, <2>3, <3>2 DEF AccessParts
  <2> QED
    BY <2>2, <2>3
<1> QED
  BY <1>3, <1>4 DEF A!Enter

\* A scope that is missing is missed by somebody who may be refused.
LEMMA ForbiddenRight ==
  ASSUME AccessTypes, GrantedBy(s4), NEW scope, ~A!HasScope(s4, scope)
  PROVE  Refused
<1>1. "Admin" \notin s4.scopes
  BY DEF A!HasScope
<1>2. s1.enabled
  BY <1>1 DEF GrantedBy, A!Scopes
<1>3. ASSUME ~A!IsPathExempt(s2.path), s1.api_key, NEW j \in DOMAIN s1.keys, s1.keys[j].key = s2.key,
             A!Cardinality({k \in DOMAIN s1.keys : s1.keys[k].key = s1.keys[j].key}) = 1
      PROVE  "Admin" \notin s1.keys[j].scopes
  <2>1. PICK i \in DOMAIN s1.keys : Entry(i, s4)
    BY <1>2, <1>3 DEF GrantedBy
  <2>2. i = j
    BY <1>3, <2>1, OnlyOne DEF Entry
  <2> QED
    BY <1>1, <2>1, <2>2 DEF Entry
<1> QED
  BY <1>2, <1>3 DEF Refused

\* The handler of a route that fits the path, for somebody with its scope.
LEMMA HandledRight ==
  ASSUME AccessTypes, GrantedBy(s4), UNCHANGED <<s1, s2, s3, s4>>, NEW to,
         DOMAIN to = {"scope", "handler"}, A!HasScope(s4, to.scope), RouteFits(to, s2.path),
         s5'.status = 200, s5'.handler = to.handler
  PROVE  A!AccessRight'
<1>1. /\ \A s \in DOMAIN A!Changing : to.handler \in A!Changing[s] => to.scope = s
      /\ to.handler \in Changers => Exact(s2.path)
  BY DEF RouteFits
<1>2. s4.scopes # {} /\ s4.scopes \cap {to.scope, "Admin"} # {}
  BY DEF A!HasScope
<1>3. ASSUME s1.enabled PROVE s1.api_key /\ \E e \in A!Holder' : s4.scopes = e.scopes
  <2>1. PICK i \in DOMAIN s1.keys : Entry(i, s4)
    BY <1>2, <1>3 DEF GrantedBy
  <2>2. s1.keys[i] \in A!Holder'
    BY <2>1 DEF Entry, A!Holder, A!Range
  <2> QED
    BY <1>2, <1>3, <2>1, <2>2 DEF GrantedBy, Entry
<1>4. A!OnlyTheAllowed'
  <2> SUFFICES ASSUME s1.enabled
               PROVE  /\ s1.api_key
                      /\ \E e \in A!Holder' :
                           /\ e.scopes # {}
                           /\ \A s \in DOMAIN A!Changing : to.handler \in A!Changing[s] => e.scopes \cap {s, "Admin"} # {}
    BY DEF A!OnlyTheAllowed, A!Changing
  <2>1. PICK e \in A!Holder' : s4.scopes = e.scopes
    BY <1>3
  <2>2. \A s \in DOMAIN A!Changing : to.handler \in A!Changing[s] => e.scopes \cap {s, "Admin"} # {}
    BY <1>1, <1>2, <2>1
  <2> QED
    BY <1>2, <1>3, <2>1, <2>2
<1>5. A!TheAllowedPass'
  BY DEF A!TheAllowedPass
<1>6. A!NoSloppyChange'
  BY <1>1, Zenon DEF A!NoSloppyChange, Changers, Exact
<1> QED
  BY <1>4, <1>5, <1>6 DEF A!AccessRight

LEMMA HandleKeeps ==
  ASSUME AccessParts, A!Handle
  PROVE  AccessParts'
<1> DEFINE to == A!Route(s2.method, s2.path)
<1>1. UNCHANGED <<s1, s2, s3, s4>> /\ s4.ok
  BY DEF A!Handle
<1>2. AccessTypes /\ AccessTypes' /\ GrantedBy(s4)
  BY <1>1 DEF AccessParts, AccessTypes
<1>3. s5' = IF "status" \in DOMAIN to THEN [status |-> to.status, handler |-> "none"]
            ELSE IF "scope" \in DOMAIN to /\ ~A!HasScope(s4, to.scope) THEN [status |-> 403, handler |-> "none"]
            ELSE [status |-> 200, handler |-> to.handler]
  BY DEF A!Handle
<1>4. RouteFits(to, s2.path)
  BY <1>2, AccessAssumed, RoutesFit DEF AccessTypes
<1> HIDE DEF to
<1>5. "none" \in A!Public
  BY DEF A!Public
<1>6. A!AccessRight'
  <2>1. CASE "status" \in DOMAIN to
    <3>1. to.status \in {404, 405}
      BY <1>4, <2>1 DEF RouteFits
    <3>2. s5'.handler = "none" /\ s5'.status \notin {401, 403}
      BY <1>3, <2>1, <3>1
    <3> QED
      BY <1>5, <3>2, HarmlessRight
  <2>2. CASE "status" \notin DOMAIN to /\ DOMAIN to = {"handler"}
    <3>1. to.handler \in A!Public
      BY <1>4, <2>2 DEF RouteFits
    <3>2. s5'.handler = to.handler /\ s5'.status \notin {401, 403}
      BY <1>3, <2>2
    <3> QED
      BY <3>1, <3>2, HarmlessRight
  <2>3. CASE DOMAIN to = {"scope", "handler"} /\ ~A!HasScope(s4, to.scope)
    <3>1. s5'.handler = "none"
      BY <1>3, <2>3
    <3>2. Refused
      BY <1>2, <2>3, ForbiddenRight
    <3> QED
      BY <1>1, <3>1, <3>2, RefusalRight
  <2>4. CASE DOMAIN to = {"scope", "handler"} /\ A!HasScope(s4, to.scope)
    <3>1. s5'.status = 200 /\ s5'.handler = to.handler
      BY <1>3, <2>4
    <3> QED
      BY <1>1, <1>2, <1>4, <2>4, <3>1, HandledRight
  <2> QED
    BY <1>4, <2>1, <2>2, <2>3, <2>4 DEF RouteFits
<1>7. (s4.ok => GrantedBy(s4))'
  BY <1>1, <1>2, GrantedKept
<1> QED
  BY <1>2, <1>6, <1>7 DEF AccessParts

LEMMA AccessSame ==
  ASSUME AccessParts, UNCHANGED <<s1, s2, s3, s4, s5>>
  PROVE  AccessParts'
<1>1. AccessTypes' /\ (s4.ok => GrantedBy(s4))'
  BY GrantedKept DEF AccessParts, AccessTypes
<1>2. CASE s5 = A!NoReply
  <2>1. s5' = A!NoReply'
    BY <1>2 DEF A!NoReply
  <2> QED
    BY <1>1, <2>1 DEF AccessParts
<1>3. CASE A!AccessRight
  <2>1. A!IsPathExempt(s2.path)' <=> A!IsPathExempt(s2.path)
    BY DEF A!IsPathExempt
  <2>2. A!Holder' = A!Holder
    BY DEF A!Holder
  <2>3. A!AccessRight'
    <3>1. A!OnlyTheAllowed'
      BY <1>3, <2>2 DEF A!AccessRight, A!OnlyTheAllowed
    <3>2. A!TheAllowedPass'
      BY <1>3, <2>1 DEF A!AccessRight, A!TheAllowedPass
    <3>3. A!NoSloppyChange'
      BY <1>3 DEF A!AccessRight, A!NoSloppyChange
    <3> QED
      BY <3>1, <3>2, <3>3 DEF A!AccessRight
  <2> QED
    BY <1>1, <2>3 DEF AccessParts
<1> QED
  BY <1>2, <1>3 DEF AccessParts

LEMMA AccessKept ==
  ASSUME AccessInv, [Next]_vars
  PROVE  AccessInv'
BY AccessSteps, TickKeeps, EnterKeeps, HandleKeeps, AccessSame DEF AccessInv, A!Next

LEMMA AccessTells ==
  ASSUME AccessParts
  PROVE  A!AccessRight
<1>1. CASE s5 = A!NoReply
  <2>1. s5.handler = "none" /\ s5.status = 0
    BY <1>1 DEF A!NoReply
  <2>2. "none" \in A!Public
    BY DEF A!Public
  <2>3. A!OnlyTheAllowed /\ A!TheAllowedPass
    BY <2>1, <2>2 DEF A!OnlyTheAllowed, A!TheAllowedPass
  <2>4. A!NoSloppyChange
    BY <2>1, <2>2, PublicReads, Zenon DEF A!NoSloppyChange, Changers
  <2> QED
    BY <2>3, <2>4 DEF A!AccessRight
<1> QED
  BY <1>1 DEF AccessParts

-----------------------------------------------------------------------------
(* Resume.  In this part s1 is the store, s2 the pending resumes, s4 the    *)
(* traces, s5 the clients, s6 the sweep, s7 the last serial number and s8   *)
(* who took each suspension.                                                *)

States == {"running", "suspending", "failed", "suspended", "lost", "decided"}
Who == {"http", "timeout", "cleanup", "overwritten"}

StoreTypes ==
  /\ s7 \in Nat /\ s8 \in [1 .. s7 -> SUBSET Who]
  /\ s4 \in [E!Traces -> [st : States, hook : Hooks \cup {"none"}]]
  /\ \A h \in DOMAIN s1 :
       /\ DOMAIN s1[h] = {"trace", "pipeline", "serial", "expired"}
       /\ s1[h].trace \in E!Traces /\ s1[h].serial \in 1 .. s7

\* A suspension that has not ended is in one place of the store.
Ended(by) == by = {} \/ \E w \in Who : by = {w}
Stored(s) == \E h \in DOMAIN s1 : s1[h].serial = s
OnePlace ==
  /\ \A s \in 1 .. s7 : Ended(s8[s]) /\ (s8[s] = {} <=> Stored(s))
  /\ \A g, h \in DOMAIN s1 : s1[g].serial = s1[h].serial => g = h

\* E!StoredWaits in two parts.
TracesWait == \A h \in DOMAIN s1 : s4[s1[h].trace] = [st |-> "suspended", hook |-> h]
Entered(t) == \E h \in DOMAIN s1 : s1[h].trace = t
Overwritten == \E s \in 1 .. s7 : s8[s] = {"overwritten"}
Missing == \A t \in E!Traces : s4[t].st = "suspended" /\ ~Entered(t) => Overwritten
LEMMA WaitingParts == E!StoredWaits <=> TracesWait /\ Missing
BY DEF E!StoredWaits, TracesWait, Missing, Entered, Overwritten

\* What a caller has seen under its hook was there, and what is there now is
\* the same or newer.
HasSeen(c) ==
  /\ s5[c].saw.serial \in 1 .. s7
  /\ \A h \in DOMAIN s1 :
       /\ s1[h].serial = s5[c].saw.serial => h = s5[c].hook /\ s1[h].pipeline = s5[c].saw.pipeline
       /\ h = s5[c].hook => s1[h].serial >= s5[c].saw.serial

Decided(c) ==
  LET saw == s5[c].saw  got == s5[c].got IN
  /\ saw.serial \in 1 .. s7 /\ got.serial \in 1 .. s7
  /\ "http" \in s8[got.serial] /\ s5[c].hook \in DOMAIN s2
  /\ got.serial = saw.serial \/ (got.serial > saw.serial /\ s8[saw.serial] # {})
  /\ got.pipeline = saw.pipeline \/ got.serial # saw.serial

ClientAt(c) ==
  /\ s5[c].pc \in {"idle", "get", "lookup", "state", "take", "done"}
  /\ s5[c].pc \in {"lookup", "state", "take"} => HasSeen(c) /\ {"pc", "hook", "saw"} \subseteq DOMAIN s5[c]
  /\ s5[c].pc = "done" /\ s5[c].status = 200 => Decided(c)
ClientsSeen == DOMAIN s5 = Clients /\ \A c \in Clients : ClientAt(c)

SweepsExpired ==
  /\ s6 = [op |-> s6.op, list |-> s6.list]
  /\ \A x \in s6.list : x.serial \in 1 .. s7
  /\ E!OnlyExpiredSwept

ResumeParts == StoreTypes /\ OnePlace /\ TracesWait /\ Missing /\ ClientsSeen /\ SweepsExpired
ResumeInv == part = "resume" => ResumeParts

LEMMA ResumeSteps ==
  ASSUME [Next]_vars
  PROVE  part' = part /\ (part = "resume" => E!Next \/ UNCHANGED <<s1, s2, s4, s5, s6, s7, s8>>)
BY DEF Next, SmallNext, vars, others, shared, server, triggers, apistate, breaker

LEMMA ResumeStarts == InitPart => ResumeInv
<1> SUFFICES ASSUME E!Init PROVE ResumeParts
  BY DEF InitPart, Init, ResumeInv
<1>1. s1 = <<>> /\ DOMAIN s1 = {} /\ s7 = 0 /\ s8 = <<>> /\ s6 = E!NoSweep
  BY DEF E!Init
<1>2. s4 = [t \in E!Traces |-> [st |-> "running", hook |-> "none"]] /\ s5 = [c \in Clients |-> E!NoCall]
  BY DEF E!Init
<1>3. StoreTypes
  <2>1. s8 \in [1 .. s7 -> SUBSET Who]
    BY <1>1
  <2>2. s4 \in [E!Traces -> [st : States, hook : Hooks \cup {"none"}]]
    BY <1>2 DEF States
  <2>3. s7 \in Nat /\ \A h : h \notin DOMAIN s1
    BY <1>1
  <2> QED
    BY <2>1, <2>2, <2>3 DEF StoreTypes
<1>4. OnePlace /\ TracesWait /\ Missing
  BY <1>1, <1>2 DEF OnePlace, TracesWait, Missing
<1>5. ClientsSeen
  BY <1>2 DEF ClientsSeen, ClientAt, E!NoCall
<1>6. SweepsExpired
  BY <1>1 DEF SweepsExpired, E!OnlyExpiredSwept, E!NoSweep
<1> QED
  BY <1>3, <1>4, <1>5, <1>6 DEF ResumeParts

\* What a step may do to the store without disturbing what the callers know:
\* entries that are new have a new serial number, and what has ended stays so.
Ages ==
  /\ s7' \in Nat /\ s7 <= s7'
  /\ \A s \in 1 .. s7 : s8[s] \subseteq s8'[s]
  /\ DOMAIN s2 \subseteq DOMAIN s2'
  /\ \A h \in DOMAIN s1' :
       \/ s1'[h].serial > s7
       \/ h \in DOMAIN s1 /\ s1'[h].serial = s1[h].serial /\ s1'[h].pipeline = s1[h].pipeline
            /\ (s1[h].expired => s1'[h].expired)

LEMMA SeenKept ==
  ASSUME StoreTypes, StoreTypes', Ages, NEW c, NEW d, s5'[d].hook = s5[c].hook, s5'[d].saw = s5[c].saw, HasSeen(c)
  PROVE  HasSeen(d)'
BY DEF StoreTypes, Ages, HasSeen

LEMMA DecidedKept ==
  ASSUME StoreTypes, StoreTypes', Ages, NEW c, s5'[c] = s5[c], Decided(c)
  PROVE  Decided(c)'
BY DEF StoreTypes, Ages, Decided

LEMMA ClientAtKept ==
  ASSUME StoreTypes, StoreTypes', Ages, NEW c, s5'[c] = s5[c], ClientAt(c)
  PROVE  ClientAt(c)'
BY SeenKept, DecidedKept DEF ClientAt

LEMMA ClientsKept ==
  ASSUME StoreTypes, StoreTypes', Ages, ClientsSeen, s5' = s5
  PROVE  ClientsSeen'
BY ClientAtKept DEF ClientsSeen

\* One caller goes on.
LEMMA OthersKept ==
  ASSUME StoreTypes, StoreTypes', Ages, ClientsSeen, NEW c \in Clients, NEW z,
         s5' = [s5 EXCEPT ![c] = z], ClientAt(c)'
  PROVE  ClientsSeen'
<1>1. DOMAIN s5' = Clients /\ \A d \in Clients : d # c => s5'[d] = s5[d]
  BY DEF ClientsSeen
<1>2. \A d \in Clients : ClientAt(d)'
  BY <1>1, ClientAtKept DEF ClientsSeen
<1> QED
  BY <1>1, <1>2 DEF ClientsSeen

LEMMA SweepsKept ==
  ASSUME StoreTypes, StoreTypes', Ages, SweepsExpired, s6'.list \subseteq s6.list,
         s6' = [op |-> s6'.op, list |-> s6'.list]
  PROVE  SweepsExpired'
<1>1. \A x \in s6'.list : x.serial \in 1 .. s7 /\ x.serial \in 1 .. s7'
  BY DEF SweepsExpired, StoreTypes, Ages
<1>2. E!OnlyExpiredSwept'
  BY <1>1 DEF SweepsExpired, E!OnlyExpiredSwept, StoreTypes, Ages
<1> QED
  BY <1>1, <1>2 DEF SweepsExpired

\* Steps that leave the store.
LEMMA StoreSame ==
  ASSUME ResumeParts, UNCHANGED <<s1, s2, s7, s8>>
  PROVE  /\ Ages
         /\ OnePlace'
         /\ s4' = s4 => StoreTypes' /\ TracesWait' /\ Missing'
<1>1. Ages
  BY DEF ResumeParts, StoreTypes, Ages
<1>2. OnePlace'
  BY DEF ResumeParts, OnePlace, Stored
<1>3. ASSUME s4' = s4 PROVE StoreTypes' /\ TracesWait' /\ Missing'
  BY <1>3 DEF ResumeParts, StoreTypes, TracesWait, Missing, Entered, Overwritten
<1> QED
  BY <1>1, <1>2, <1>3


LEMMA CheckKeeps ==
  ASSUME ResumeParts, NEW t \in E!Traces, NEW h \in Hooks, E!SuspendCheck(t, h)
  PROVE  ResumeParts'
<1> DEFINE st == IF h \in DOMAIN s1 THEN "failed" ELSE "suspending"
<1>1. UNCHANGED <<s1, s2, s5, s6, s7, s8>> /\ s4[t].st = "running" /\ s4' = [s4 EXCEPT ![t] = [st |-> st, hook |-> h]]
  BY DEF E!SuspendCheck
<1>2. st \in States /\ st # "suspended"
  BY DEF States
<1> HIDE DEF st
<1>3. /\ s4' \in [E!Traces -> [st : States, hook : Hooks \cup {"none"}]]
      /\ s4'[t].st = st
      /\ \A u \in E!Traces : u # t => s4'[u] = s4[u]
  BY <1>1, <1>2 DEF ResumeParts, StoreTypes
<1>4. StoreTypes'
  BY <1>1, <1>3 DEF ResumeParts, StoreTypes
<1>5. TracesWait'
  <2> SUFFICES ASSUME NEW k \in DOMAIN s1 PROVE s4'[s1[k].trace] = [st |-> "suspended", hook |-> k]
    BY <1>1 DEF TracesWait
  <2>1. s4[s1[k].trace] = [st |-> "suspended", hook |-> k] /\ s1[k].trace \in E!Traces
    BY DEF ResumeParts, TracesWait, StoreTypes
  <2>2. s1[k].trace # t
    BY <1>1, <2>1
  <2> QED
    BY <1>3, <2>1, <2>2
<1>6. Missing'
  <2> SUFFICES ASSUME NEW u \in E!Traces, s4'[u].st = "suspended", ~Entered(u) PROVE Overwritten
    BY <1>1 DEF Missing, Entered, Overwritten
  <2>1. u # t /\ s4[u].st = "suspended"
    BY <1>2, <1>3
  <2> QED
    BY <2>1 DEF ResumeParts, Missing
<1> QED
  BY <1>1, <1>4, <1>5, <1>6, StoreSame, ClientsKept, SweepsKept DEF ResumeParts, SweepsExpired

LEMMA InsertKeeps ==
  ASSUME ResumeParts, NEW t \in E!Traces, E!SuspendInsert(t)
  PROVE  ResumeParts'
<1> DEFINE h == s4[t].hook
           x == [trace |-> t, pipeline |-> Owner[t], serial |-> s7 + 1, expired |-> FALSE]
<1>1. /\ UNCHANGED <<s2, s5, s6>> /\ s4[t].st = "suspending" /\ s7' = s7 + 1
      /\ s4' = [s4 EXCEPT ![t].st = "suspended"]
      /\ s1' = [k \in DOMAIN s1 \cup {h} |-> IF k = h THEN x ELSE s1[k]]
      /\ s8' = [s \in 1 .. s7 + 1 |->
                 IF s = s7 + 1 THEN {}
                 ELSE IF h \in DOMAIN s1 /\ s = s1[h].serial THEN s8[s] \cup {"overwritten"} ELSE s8[s]]
  BY DEF E!SuspendInsert, E!Put
<1>2. /\ s7 \in Nat /\ s8 \in [1 .. s7 -> SUBSET Who]
      /\ s4 \in [E!Traces -> [st : States, hook : Hooks \cup {"none"}]]
      /\ \A k \in DOMAIN s1 : s1[k].trace \in E!Traces /\ s1[k].serial \in 1 .. s7
  BY DEF ResumeParts, StoreTypes
<1>3. DOMAIN x = {"trace", "pipeline", "serial", "expired"}
      /\ x.trace = t /\ x.serial = s7 + 1 /\ ~x.expired
  OBVIOUS
<1> HIDE DEF x
<1>4. /\ h \in Hooks \cup {"none"} /\ s4' \in [E!Traces -> [st : States, hook : Hooks \cup {"none"}]]
      /\ s4'[t] = [st |-> "suspended", hook |-> h] /\ \A u \in E!Traces : u # t => s4'[u] = s4[u]
  BY <1>1, <1>2 DEF States
<1>5. /\ DOMAIN s1' = DOMAIN s1 \cup {h} /\ s1'[h] = x
      /\ \A k \in DOMAIN s1 : k # h => s1'[k] = s1[k]
  BY <1>1
<1>6. /\ s8' \in [1 .. s7' -> SUBSET Who] /\ s8'[s7 + 1] = {}
      /\ \A s \in 1 .. s7 : s8'[s] = IF h \in DOMAIN s1 /\ s = s1[h].serial THEN s8[s] \cup {"overwritten"} ELSE s8[s]
  BY <1>1, <1>2 DEF Who
<1> HIDE DEF h
<1>7. StoreTypes'
  BY <1>1, <1>2, <1>3, <1>4, <1>5, <1>6 DEF ResumeParts, StoreTypes
<1>8. OnePlace'
  <2>1. ASSUME NEW s \in 1 .. s7' PROVE Ended(s8'[s]) /\ (s8'[s] = {} <=> Stored(s)')
    <3>1. CASE s = s7 + 1
      BY <1>3, <1>5, <1>6, <3>1 DEF Ended, Stored
    <3>2. CASE s \in 1 .. s7 /\ h \in DOMAIN s1 /\ s = s1[h].serial
      <4>1. Stored(s) /\ \A k \in DOMAIN s1 : s1[k].serial = s => k = h
        BY <3>2 DEF ResumeParts, OnePlace, Stored
      <4>2. s8[s] = {}
        BY <3>2, <4>1 DEF ResumeParts, OnePlace
      <4>3. s8'[s] = {"overwritten"}
        BY <1>6, <3>2, <4>2
      <4>4. Ended(s8'[s])
        BY <4>3 DEF Ended, Who
      <4>5. ASSUME NEW k \in DOMAIN s1', s1'[k].serial = s PROVE FALSE
        BY <1>2, <1>3, <1>5, <3>2, <4>1, <4>5
      <4> QED
        BY <4>3, <4>4, <4>5 DEF Stored
    <3>3. CASE s \in 1 .. s7 /\ ~(h \in DOMAIN s1 /\ s = s1[h].serial)
      <4>1. s8'[s] = s8[s]
        BY <1>6, <3>3
      <4>2. Ended(s8[s]) /\ (s8[s] = {} <=> Stored(s))
        BY <3>3 DEF ResumeParts, OnePlace
      <4>3. ASSUME Stored(s) PROVE Stored(s)'
        <5>1. PICK k \in DOMAIN s1 : s1[k].serial = s
          BY <4>3 DEF Stored
        <5>2. k # h /\ k \in DOMAIN s1' /\ s1'[k] = s1[k]
          BY <1>5, <3>3, <5>1
        <5> QED
          BY <5>1, <5>2 DEF Stored
      <4>4. ASSUME Stored(s)' PROVE Stored(s)
        <5>1. PICK k \in DOMAIN s1' : s1'[k].serial = s
          BY <4>4 DEF Stored
        <5>2. k # h
          BY <1>2, <1>3, <1>5, <3>3, <5>1
        <5> QED
          BY <1>5, <5>1, <5>2 DEF Stored
      <4> QED
        BY <4>1, <4>2, <4>3, <4>4
    <3>4. s = s7 + 1 \/ s \in 1 .. s7
      BY <1>1, <1>2
    <3> QED
      BY <3>1, <3>2, <3>3, <3>4
  <2>2. ASSUME NEW g \in DOMAIN s1', NEW k \in DOMAIN s1', s1'[g].serial = s1'[k].serial PROVE g = k
    <3>1. CASE g = h \/ k = h
      BY <1>2, <1>3, <1>5, <2>2, <3>1
    <3>2. CASE g # h /\ k # h
      <4>1. g \in DOMAIN s1 /\ k \in DOMAIN s1 /\ s1'[g] = s1[g] /\ s1'[k] = s1[k]
        BY <1>5, <3>2
      <4> QED
        BY <2>2, <4>1 DEF ResumeParts, OnePlace
    <3> QED
      BY <3>1, <3>2
  <2> QED
    BY <2>1, <2>2 DEF OnePlace
<1>9. TracesWait'
  <2> SUFFICES ASSUME NEW k \in DOMAIN s1' PROVE s4'[s1'[k].trace] = [st |-> "suspended", hook |-> k]
    BY DEF TracesWait
  <2>1. CASE k = h
    BY <1>3, <1>4, <1>5, <2>1
  <2>2. CASE k # h
    <3>1. k \in DOMAIN s1 /\ s1'[k] = s1[k]
      BY <1>5, <2>2
    <3>2. s4[s1[k].trace] = [st |-> "suspended", hook |-> k] /\ s1[k].trace \in E!Traces
      BY <1>2, <3>1 DEF ResumeParts, TracesWait
    <3>3. s1[k].trace # t
      BY <1>1, <3>2
    <3> QED
      BY <1>4, <3>1, <3>2, <3>3
  <2> QED
    BY <2>1, <2>2
<1>10. Missing'
  <2> SUFFICES ASSUME NEW u \in E!Traces, s4'[u].st = "suspended", ~Entered(u)' PROVE Overwritten'
    BY DEF Missing
  <2>1. h \in DOMAIN s1' /\ s1'[h].trace = t
    BY <1>3, <1>5
  <2>2. u # t
    BY <2>1 DEF Entered
  <2>3. s4[u].st = "suspended"
    BY <1>4, <2>2
  <2>4. CASE h \in DOMAIN s1 /\ s1[h].trace = u
    <3>1. s1[h].serial \in 1 .. s7 /\ Stored(s1[h].serial)
      BY <1>2, <2>4 DEF Stored
    <3>2. s8[s1[h].serial] = {}
      BY <3>1 DEF ResumeParts, OnePlace
    <3>3. s8'[s1[h].serial] = {"overwritten"}
      BY <1>6, <2>4, <3>1, <3>2
    <3>4. s1[h].serial \in 1 .. s7'
      BY <1>1, <1>2, <3>1
    <3> QED
      BY <3>3, <3>4 DEF Overwritten
  <2>5. CASE ~(h \in DOMAIN s1 /\ s1[h].trace = u)
    <3>1. ASSUME NEW k \in DOMAIN s1, s1[k].trace = u PROVE FALSE
      <4>1. k # h /\ k \in DOMAIN s1' /\ s1'[k] = s1[k]
        BY <1>5, <2>5, <3>1
      <4> QED
        BY <3>1, <4>1 DEF Entered
    <3>2. Overwritten
      BY <2>3, <3>1 DEF ResumeParts, Missing, Entered
    <3>3. PICK s \in 1 .. s7 : s8[s] = {"overwritten"}
      BY <3>2 DEF Overwritten
    <3>4. s8'[s] = s8[s] \/ s8'[s] = s8[s] \cup {"overwritten"}
      <4>1. CASE h \in DOMAIN s1 /\ s = s1[h].serial
        BY <1>6, <4>1
      <4>2. CASE ~(h \in DOMAIN s1 /\ s = s1[h].serial)
        BY <1>6, <4>2
      <4> QED
        BY <4>1, <4>2
    <3>5. s8'[s] = {"overwritten"}
      BY <3>3, <3>4
    <3>6. s \in 1 .. s7'
      BY <1>1, <1>2
    <3> QED
      BY <3>5, <3>6 DEF Overwritten
  <2> QED
    BY <2>4, <2>5
<1>11. Ages
  BY <1>1, <1>2, <1>3, <1>5, <1>6 DEF Ages
<1> QED
  BY <1>1, <1>7, <1>8, <1>9, <1>10, <1>11, ClientsKept, SweepsKept DEF ResumeParts, SweepsExpired

LEMMA ExpireKeeps ==
  ASSUME ResumeParts, NEW h \in Hooks, E!Expire(h)
  PROVE  ResumeParts'
<1>1. /\ UNCHANGED <<s2, s4, s5, s6, s7, s8>> /\ h \in DOMAIN s1
      /\ s1' = [s1 EXCEPT ![h].expired = TRUE]
  BY DEF E!Expire
<1>2. /\ DOMAIN s1' = DOMAIN s1 /\ \A k \in DOMAIN s1 : k # h => s1'[k] = s1[k]
      /\ s1'[h] = [s1[h] EXCEPT !.expired = TRUE]
  BY <1>1
<1>3. DOMAIN s1[h] = {"trace", "pipeline", "serial", "expired"}
  BY <1>1 DEF ResumeParts, StoreTypes
<1>4. \A k \in DOMAIN s1 :
        /\ s1'[k].trace = s1[k].trace /\ s1'[k].serial = s1[k].serial /\ s1'[k].pipeline = s1[k].pipeline
        /\ s1[k].expired => s1'[k].expired
        /\ DOMAIN s1'[k] = DOMAIN s1[k]
  BY <1>2, <1>3
<1>5. StoreTypes'
  BY <1>1, <1>2, <1>4 DEF ResumeParts, StoreTypes
<1>6. (\A s : Stored(s)' <=> Stored(s)) /\ (\A u : Entered(u)' <=> Entered(u)) /\ (Overwritten' <=> Overwritten)
  BY <1>1, <1>2, <1>4 DEF Stored, Entered, Overwritten
<1>7. OnePlace'
  <2>1. \A s \in 1 .. s7' : Ended(s8'[s]) /\ (s8'[s] = {} <=> Stored(s)')
    <3> SUFFICES ASSUME NEW s \in 1 .. s7 PROVE Ended(s8[s]) /\ (s8[s] = {} <=> Stored(s)')
      BY <1>1
    <3> QED
      BY <1>6 DEF ResumeParts, OnePlace
  <2>2. \A g, k \in DOMAIN s1' : s1'[g].serial = s1'[k].serial => g = k
    BY <1>2, <1>4 DEF ResumeParts, OnePlace
  <2> QED
    BY <2>1, <2>2 DEF OnePlace
<1>8. TracesWait' /\ Missing'
  BY <1>1, <1>2, <1>4, <1>6 DEF ResumeParts, TracesWait, Missing
<1>9. Ages
  BY <1>1, <1>2, <1>4 DEF ResumeParts, StoreTypes, Ages
<1> QED
  BY <1>1, <1>5, <1>7, <1>8, <1>9, ClientsKept, SweepsKept DEF ResumeParts, SweepsExpired

\* An entry is taken out, by one who is recorded, and its trace goes on.
LEMMA TakeKeeps ==
  ASSUME ResumeParts, NEW h \in DOMAIN s1, NEW who \in Who \ {"overwritten"}, NEW z \in [st : States, hook : Hooks \cup {"none"}],
         z.st # "suspended", DOMAIN s2 \subseteq DOMAIN s2', s7' = s7,
         s1' = E!Drop(s1, h), s8' = [s8 EXCEPT ![s1[h].serial] = @ \cup {who}],
         s4' = [s4 EXCEPT ![s1[h].trace] = z]
  PROVE  StoreTypes' /\ OnePlace' /\ TracesWait' /\ Missing' /\ Ages /\ who \in s8'[s1[h].serial]
<1>1. DOMAIN s1' = DOMAIN s1 \ {h} /\ \A k \in DOMAIN s1' : s1'[k] = s1[k]
  BY DEF E!Drop
<1>2. /\ s7 \in Nat /\ s8 \in [1 .. s7 -> SUBSET Who]
      /\ s4 \in [E!Traces -> [st : States, hook : Hooks \cup {"none"}]]
      /\ \A k \in DOMAIN s1 : s1[k].trace \in E!Traces /\ s1[k].serial \in 1 .. s7
  BY DEF ResumeParts, StoreTypes
<1>3. /\ s8' \in [1 .. s7 -> SUBSET Who] /\ s8[s1[h].serial] = {} /\ s8'[s1[h].serial] = {who}
      /\ \A s \in 1 .. s7 : s # s1[h].serial => s8'[s] = s8[s]
  <2>1. Stored(s1[h].serial)
    BY DEF Stored
  <2>2. s8[s1[h].serial] = {}
    BY <1>2, <2>1 DEF ResumeParts, OnePlace
  <2> QED
    BY <1>2, <2>2
<1>4. /\ s4' \in [E!Traces -> [st : States, hook : Hooks \cup {"none"}]]
      /\ s4'[s1[h].trace] = z /\ \A u \in E!Traces : u # s1[h].trace => s4'[u] = s4[u]
  BY <1>2
<1>5. StoreTypes'
  BY <1>1, <1>2, <1>3, <1>4 DEF ResumeParts, StoreTypes
<1>6. OnePlace'
  <2>1. ASSUME NEW s \in 1 .. s7 PROVE Ended(s8'[s]) /\ (s8'[s] = {} <=> Stored(s)')
    <3>1. CASE s = s1[h].serial
      <4>1. s8'[s] = {who}
        BY <1>3, <3>1
      <4>2. Ended(s8'[s])
        BY <4>1 DEF Ended
      <4>3. ~Stored(s)'
        BY <1>1, <3>1 DEF ResumeParts, OnePlace, Stored
      <4> QED
        BY <4>1, <4>2, <4>3
    <3>2. CASE s # s1[h].serial
      <4>1. s8'[s] = s8[s] /\ Ended(s8[s]) /\ (s8[s] = {} <=> Stored(s))
        BY <1>3, <3>2 DEF ResumeParts, OnePlace
      <4>2. Stored(s) <=> Stored(s)'
        BY <1>1, <3>2 DEF Stored
      <4> QED
        BY <4>1, <4>2
    <3> QED
      BY <3>1, <3>2
  <2>2. \A g, k \in DOMAIN s1' : s1'[g].serial = s1'[k].serial => g = k
    BY <1>1 DEF ResumeParts, OnePlace
  <2> QED
    BY <2>1, <2>2 DEF OnePlace
<1>7. TracesWait'
  <2> SUFFICES ASSUME NEW k \in DOMAIN s1' PROVE s4'[s1'[k].trace] = [st |-> "suspended", hook |-> k]
    BY DEF TracesWait
  <2>1. /\ s4[s1[k].trace] = [st |-> "suspended", hook |-> k] /\ s1'[k] = s1[k] /\ k # h
        /\ s4[s1[h].trace] = [st |-> "suspended", hook |-> h] /\ s1[k].trace \in E!Traces
    BY <1>1, <1>2 DEF ResumeParts, TracesWait
  <2>2. [st |-> "suspended", hook |-> k].hook = k /\ [st |-> "suspended", hook |-> h].hook = h
    OBVIOUS
  <2>3. s1[k].trace # s1[h].trace
    BY <2>1, <2>2
  <2> QED
    BY <1>4, <2>1, <2>3
<1>8. Missing'
  <2> SUFFICES ASSUME NEW u \in E!Traces, s4'[u].st = "suspended", ~Entered(u)' PROVE Overwritten'
    BY DEF Missing
  <2>1. u # s1[h].trace
    BY <1>4
  <2>2. s4[u].st = "suspended"
    BY <1>4, <2>1
  <2>3. ~Entered(u)
    BY <1>1, <2>1 DEF Entered
  <2>4. PICK s \in 1 .. s7 : s8[s] = {"overwritten"}
    BY <2>2, <2>3 DEF ResumeParts, Missing, Overwritten
  <2>5. s # s1[h].serial
    BY <1>3, <2>4
  <2> QED
    BY <1>3, <2>4, <2>5 DEF Overwritten
<1>9. Ages
  BY <1>1, <1>2, <1>3 DEF Ages
<1> QED
  BY <1>3, <1>5, <1>6, <1>7, <1>8, <1>9

\* A request is answered with an error.
LEMMA RefusedKeeps ==
  ASSUME StoreTypes, StoreTypes', Ages, ClientsSeen, NEW c \in Clients, NEW status \in {400, 404, 503},
         E!Reply(c, status)
  PROVE  ClientsSeen'
<1> DEFINE z == [pc |-> "done", status |-> status]
<1>1. s5' = [s5 EXCEPT ![c] = z]
  BY DEF E!Reply
<1>2. s5'[c] = z /\ z.pc = "done" /\ z.status # 200
  BY <1>1 DEF ClientsSeen
<1>3. ClientAt(c)'
  BY <1>2 DEF ClientAt
<1> HIDE DEF z
<1> QED
  BY <1>1, <1>3, OthersKept

\* The handlers before the resumption leave the store.
LEMMA HandlerSame ==
  ASSUME ResumeParts, UNCHANGED <<s1, s2, s4, s6, s7, s8>>, ClientsSeen'
  PROVE  ResumeParts'
BY StoreSame, SweepsKept DEF ResumeParts, SweepsExpired

LEMMA PostKeeps ==
  ASSUME ResumeParts, NEW c \in Clients, NEW h, NEW d, E!Post(c, h, d)
  PROVE  ResumeParts'
<1>1. UNCHANGED <<s1, s2, s4, s6, s7, s8>>
  BY DEF E!Post, E!calm
<1>2. StoreTypes /\ StoreTypes' /\ Ages /\ ClientsSeen
  BY <1>1, StoreSame DEF ResumeParts
<1>3. CASE E!Reply(c, 400)
  BY <1>1, <1>2, <1>3, RefusedKeeps, HandlerSame
<1>4. CASE s5' = [s5 EXCEPT ![c] = [pc |-> "get", hook |-> h, decision |-> d]]
  <2>1. s5'[c].pc = "get"
    BY <1>2, <1>4 DEF ClientsSeen
  <2>2. ClientAt(c)'
    BY <2>1 DEF ClientAt
  <2> QED
    BY <1>1, <1>2, <1>4, <2>2, OthersKept, HandlerSame
<1> QED
  BY <1>3, <1>4 DEF E!Post

LEMMA GetKeeps ==
  ASSUME ResumeParts, NEW c \in Clients, E!Get(c)
  PROVE  ResumeParts'
<1> DEFINE h == s5[c].hook
           z == [pc |-> "lookup", hook |-> h, decision |-> s5[c].decision, saw |-> s1[h]]
<1>1. UNCHANGED <<s1, s2, s4, s6, s7, s8>>
  BY DEF E!Get, E!calm
<1>2. StoreTypes /\ StoreTypes' /\ Ages /\ ClientsSeen
  BY <1>1, StoreSame DEF ResumeParts
<1>3. CASE E!Reply(c, 404)
  BY <1>1, <1>2, <1>3, RefusedKeeps, HandlerSame
<1>4. CASE h \in DOMAIN s1 /\ s5' = [s5 EXCEPT ![c] = z]
  <2>1. s5'[c] = z
    BY <1>2, <1>4 DEF ClientsSeen
  <2>2. z.pc = "lookup" /\ z.hook = h /\ z.saw = s1[h] /\ {"pc", "hook", "saw"} \subseteq DOMAIN z
    OBVIOUS
  <2> HIDE DEF z, h
  <2>3. /\ s1[h].serial \in 1 .. s7
        /\ \A k \in DOMAIN s1 : s1[k].serial = s1[h].serial => k = h
    BY <1>4 DEF ResumeParts, StoreTypes, OnePlace
  <2>4. HasSeen(c)'
    BY <1>1, <1>2, <2>1, <2>2, <2>3 DEF HasSeen, StoreTypes
  <2>5. ClientAt(c)'
    BY <2>1, <2>2, <2>4 DEF ClientAt
  <2> QED
    BY <1>1, <1>2, <1>4, <2>5, OthersKept, HandlerSame
<1> QED
  BY <1>3, <1>4 DEF E!Get

\* The caller goes on with what it has seen.
LEMMA HooksGoOn ==
  ASSUME ResumeParts, NEW c \in Clients, UNCHANGED <<s1, s2, s4, s6, s7, s8>>, NEW z, s5' = [s5 EXCEPT ![c] = z],
         s5[c].pc \in {"lookup", "state"}, z.pc \in {"state", "take"}, z.hook = s5[c].hook, z.saw = s5[c].saw,
         {"pc", "hook", "saw"} \subseteq DOMAIN z
  PROVE  ResumeParts'
<1>1. StoreTypes /\ StoreTypes' /\ Ages /\ ClientsSeen
  BY StoreSame DEF ResumeParts
<1>2. s5'[c] = z
  BY <1>1 DEF ClientsSeen
<1>3. HasSeen(c)
  BY <1>1 DEF ClientsSeen, ClientAt
<1>4. HasSeen(c)'
  BY <1>1, <1>2, <1>3, SeenKept
<1>5. ClientAt(c)'
  BY <1>2, <1>4 DEF ClientAt
<1> QED
  BY <1>1, <1>5, OthersKept, HandlerSame

LEMMA LookupKeeps ==
  ASSUME ResumeParts, NEW c \in Clients, E!Lookup(c)
  PROVE  ResumeParts'
<1> DEFINE z == [pc |-> "state", hook |-> s5[c].hook, decision |-> s5[c].decision,
                 saw |-> s5[c].saw, instance |-> s3[s5[c].saw.pipeline].instance]
<1>1. UNCHANGED <<s1, s2, s4, s6, s7, s8>> /\ s5[c].pc = "lookup"
  BY DEF E!Lookup, E!calm
<1>2. StoreTypes /\ StoreTypes' /\ Ages /\ ClientsSeen
  BY <1>1, StoreSame DEF ResumeParts
<1>3. CASE E!Reply(c, 404)
  BY <1>1, <1>2, <1>3, RefusedKeeps, HandlerSame
<1>4. CASE s5' = [s5 EXCEPT ![c] = z]
  <2>1. z.pc = "state" /\ z.hook = s5[c].hook /\ z.saw = s5[c].saw /\ {"pc", "hook", "saw"} \subseteq DOMAIN z
    OBVIOUS
  <2> HIDE DEF z
  <2> QED
    BY <1>1, <1>4, <2>1, HooksGoOn
<1> QED
  BY <1>3, <1>4 DEF E!Lookup

LEMMA CheckStateKeeps ==
  ASSUME ResumeParts, NEW c \in Clients, E!CheckState(c)
  PROVE  ResumeParts'
<1>1. UNCHANGED <<s1, s2, s4, s6, s7, s8>> /\ s5[c].pc = "state"
  BY DEF E!CheckState, E!calm
<1>2. StoreTypes /\ StoreTypes' /\ Ages /\ ClientsSeen
  BY <1>1, StoreSame DEF ResumeParts
<1>3. CASE E!Reply(c, 503)
  BY <1>1, <1>2, <1>3, RefusedKeeps, HandlerSame
<1>4. CASE s5' = [s5 EXCEPT ![c].pc = "take"]
  <2> DEFINE z == [s5[c] EXCEPT !.pc = "take"]
  <2>1. {"pc", "hook", "saw"} \subseteq DOMAIN s5[c]
    BY <1>1, <1>2 DEF ClientsSeen, ClientAt
  <2>2. z.pc = "take" /\ z.hook = s5[c].hook /\ z.saw = s5[c].saw /\ {"pc", "hook", "saw"} \subseteq DOMAIN z
    BY <2>1
  <2>3. s5' = [s5 EXCEPT ![c] = z]
    BY <1>4
  <2> HIDE DEF z
  <2> QED
    BY <1>1, <2>2, <2>3, HooksGoOn
<1> QED
  BY <1>3, <1>4 DEF E!CheckState

LEMMA ResumeTakeKeeps ==
  ASSUME ResumeParts, NEW c \in Clients, E!ResumeTake(c)
  PROVE  ResumeParts'
<1> DEFINE h == s5[c].hook
<1>1. UNCHANGED <<s6, s7>> /\ s5[c].pc = "take"
  BY DEF E!ResumeTake, E!calm
<1>2. CASE UNCHANGED <<s1, s2, s4, s8>> /\ E!Reply(c, 404)
  <2>1. StoreTypes /\ StoreTypes' /\ Ages /\ ClientsSeen
    BY <1>1, <1>2, StoreSame DEF ResumeParts
  <2> QED
    BY <1>1, <1>2, <2>1, RefusedKeeps, HandlerSame
<1>3. ASSUME h \in DOMAIN s1, E!Take(h, s5[c].decision, "http"), NEW opened \in BOOLEAN,
             s4' = [s4 EXCEPT ![s1[h].trace] = [st |-> IF opened THEN "running" ELSE "lost", hook |-> "none"]],
             s5' = [s5 EXCEPT ![c] = [pc |-> "done", status |-> IF opened THEN 200 ELSE 500, hook |-> h,
                                      saw |-> s5[c].saw, got |-> s1[h]]]
      PROVE  ResumeParts'
  <2> DEFINE z == [pc |-> "done", status |-> IF opened THEN 200 ELSE 500, hook |-> h, saw |-> s5[c].saw, got |-> s1[h]]
             y == [st |-> IF opened THEN "running" ELSE "lost", hook |-> "none"]
  <2>1. /\ s1' = E!Drop(s1, h) /\ s8' = [s8 EXCEPT ![s1[h].serial] = @ \cup {"http"}]
        /\ DOMAIN s2' = DOMAIN s2 \cup {h}
    BY <1>3 DEF E!Take, E!Put
  <2>2. y \in [st : States, hook : Hooks \cup {"none"}] /\ y.st # "suspended" /\ s4' = [s4 EXCEPT ![s1[h].trace] = y]
    BY <1>3 DEF States
  <2>3. "http" \in Who \ {"overwritten"}
    BY DEF Who
  <2>4. z.pc = "done" /\ z.hook = h /\ z.saw = s5[c].saw /\ z.got = s1[h] /\ s5' = [s5 EXCEPT ![c] = z]
    BY <1>3
  <2> HIDE DEF y, z
  <2>5. StoreTypes' /\ OnePlace' /\ TracesWait' /\ Missing' /\ Ages /\ "http" \in s8'[s1[h].serial]
    BY <1>1, <1>3, <2>1, <2>2, <2>3, TakeKeeps
  <2>6. StoreTypes /\ ClientsSeen /\ SweepsExpired
    BY DEF ResumeParts
  <2>7. s5'[c] = z
    BY <2>4, <2>6 DEF ClientsSeen
  <2>8. HasSeen(c)
    BY <1>1, <2>6 DEF ClientsSeen, ClientAt
  <2> DEFINE saw == s5[c].saw
  <2>9. /\ saw.serial \in 1 .. s7 /\ s1[h].serial \in 1 .. s7 /\ s1[h].serial >= saw.serial
        /\ s1[h].serial = saw.serial => s1[h].pipeline = saw.pipeline
    BY <1>3, <2>6, <2>8 DEF HasSeen, StoreTypes
  <2>10. ASSUME s1[h].serial # saw.serial PROVE s1[h].serial > saw.serial /\ s8'[saw.serial] # {}
    <3>1. ~Stored(saw.serial)
      BY <2>8, <2>10 DEF HasSeen, Stored
    <3>2. s8[saw.serial] # {} /\ s8[saw.serial] \subseteq s8'[saw.serial]
      BY <2>5, <2>9, <3>1 DEF ResumeParts, OnePlace, Ages
    <3>3. s1[h].serial > saw.serial
      BY <2>6, <2>9, <2>10 DEF StoreTypes
    <3> QED
      BY <3>2, <3>3
  <2>11. Decided(c)'
    BY <1>1, <2>1, <2>4, <2>5, <2>7, <2>9, <2>10 DEF Decided
  <2>12. ClientAt(c)'
    BY <2>4, <2>7, <2>11 DEF ClientAt
  <2>13. ClientsSeen'
    BY <2>4, <2>5, <2>6, <2>12, OthersKept
  <2>14. SweepsExpired'
    BY <1>1, <2>5, <2>6, SweepsKept DEF SweepsExpired
  <2> QED
    BY <2>5, <2>13, <2>14 DEF ResumeParts
<1> QED
  BY <1>2, <1>3 DEF E!ResumeTake

LEMMA SweepKeeps ==
  ASSUME ResumeParts, NEW op, E!Sweep(op)
  PROVE  ResumeParts'
<1>1. /\ UNCHANGED <<s1, s2, s4, s5, s7, s8>>
      /\ s6' = [op |-> op, list |-> {[hook |-> h, serial |-> s1[h].serial] : h \in {k \in DOMAIN s1 : s1[k].expired}}]
  BY DEF E!Sweep
<1>2. StoreTypes /\ StoreTypes' /\ Ages /\ ClientsSeen /\ OnePlace' /\ TracesWait' /\ Missing'
  BY <1>1, StoreSame DEF ResumeParts
<1>3. \A x \in s6'.list : x.serial \in 1 .. s7 /\ x.hook \in DOMAIN s1 /\ s1[x.hook].expired
  BY <1>1, <1>2 DEF StoreTypes
<1>4. s6' = [op |-> s6'.op, list |-> s6'.list]
  BY <1>1
<1>5. SweepsExpired'
  BY <1>1, <1>3, <1>4 DEF SweepsExpired, E!OnlyExpiredSwept
<1> QED
  BY <1>1, <1>2, <1>5, ClientsKept DEF ResumeParts

LEMMA SweptKeeps ==
  ASSUME ResumeParts, NEW x \in s6.list, E!Swept(x)
  PROVE  ResumeParts'
<1>1. UNCHANGED <<s5, s7>> /\ s6'.list \subseteq s6.list /\ s6' = [op |-> s6'.op, list |-> s6'.list]
  <2>1. s6 = [op |-> s6.op, list |-> s6.list]
    BY DEF ResumeParts, SweepsExpired
  <2>2. CASE s6' = E!NoSweep
    <3>1. s6' = [op |-> "none", list |-> {}]
      BY <2>2 DEF E!NoSweep
    <3>2. s6'.op = "none" /\ s6'.list = {}
      BY <3>1
    <3> QED
      BY <3>1, <3>2 DEF E!Swept
  <2>3. CASE s6' = [s6 EXCEPT !.list = s6.list \ {x}]
    <3>1. s6' = [op |-> s6.op, list |-> s6.list \ {x}]
      BY <2>1, <2>3
    <3> QED
      BY <3>1 DEF E!Swept
  <2> QED
    BY <2>2, <2>3 DEF E!Swept
<1>2. StoreTypes /\ ClientsSeen /\ SweepsExpired
  BY DEF ResumeParts
<1>3. ASSUME StoreTypes', Ages, OnePlace', TracesWait', Missing' PROVE ResumeParts'
  BY <1>1, <1>2, <1>3, ClientsKept, SweepsKept DEF ResumeParts
<1>4. CASE UNCHANGED <<s1, s2, s4, s8>>
  BY <1>1, <1>3, <1>4, StoreSame
<1>5. ASSUME x.hook \in DOMAIN s1, NEW who \in {"timeout", "cleanup"}, NEW st \in {"decided", "lost"},
             s4' = [s4 EXCEPT ![s1[x.hook].trace].st = st], s1' = E!Drop(s1, x.hook),
             s8' = [s8 EXCEPT ![s1[x.hook].serial] = @ \cup {who}], DOMAIN s2 \subseteq DOMAIN s2'
      PROVE  ResumeParts'
  <2> DEFINE h == x.hook
             y == [s4[s1[h].trace] EXCEPT !.st = st]
  <2>1. s4[s1[h].trace] \in [st : States, hook : Hooks \cup {"none"}]
    BY <1>2, <1>5 DEF StoreTypes
  <2>2. y \in [st : States, hook : Hooks \cup {"none"}] /\ y.st # "suspended"
    BY <2>1 DEF States
  <2>3. s4' = [s4 EXCEPT ![s1[h].trace] = y] /\ who \in Who \ {"overwritten"}
    BY <1>5 DEF Who
  <2> HIDE DEF y
  <2>4. StoreTypes' /\ OnePlace' /\ TracesWait' /\ Missing' /\ Ages
    BY <1>1, <1>5, <2>2, <2>3, TakeKeeps
  <2> QED
    BY <1>3, <2>4
<1>6. CASE s6.op = "timeout" /\ x.hook \in DOMAIN s1
  BY <1>5, <1>6 DEF E!Swept, E!Take, E!Put
<1>7. CASE s6.op # "timeout" /\ x.hook \in DOMAIN s1
  BY <1>5, <1>7 DEF E!Swept
<1> QED
  BY <1>4, <1>6, <1>7 DEF E!Swept

LEMMA ResumeKept ==
  ASSUME ResumeInv, [Next]_vars
  PROVE  ResumeInv'
<1> SUFFICES ASSUME part = "resume", ResumeParts PROVE ResumeParts'
  BY ResumeSteps DEF ResumeInv
<1>1. CASE UNCHANGED <<s1, s2, s4, s5, s6, s7, s8>>
  <2>1. StoreTypes /\ StoreTypes' /\ Ages /\ ClientsSeen
    BY <1>1, StoreSame DEF ResumeParts
  <2> QED
    BY <1>1, <2>1, ClientsKept, HandlerSame
<1>2. CASE E!Next
  <2>1. CASE \E p \in E!Pipelines : E!Change(p)
    BY <1>1, <2>1 DEF E!Change
  <2> QED
    BY <1>2, <2>1, CheckKeeps, InsertKeeps, ExpireKeeps, PostKeeps, GetKeeps, LookupKeeps, CheckStateKeeps,
       ResumeTakeKeeps, SweepKeeps, SweptKeeps DEF E!Next
<1> QED
  BY <1>1, <1>2, ResumeSteps

LEMMA EndedOnce == \A by : Ended(by) => E!Cardinality(by) <= 1
<1>1. \A X : E!Cardinality(X) = Cardinality(X)
  BY Zenon DEF E!Cardinality, Cardinality
<1>2. Cardinality({}) = 0 /\ \A w : Cardinality({w}) = 1
  BY FS_EmptySet, FS_Singleton
<1> QED
  BY <1>1, <1>2 DEF Ended

LEMMA ResumeTells ==
  ASSUME ResumeParts
  PROVE  E!ResumesRight
<1>1. E!EndsOnce
  BY EndedOnce DEF ResumeParts, OnePlace, Stored, E!EndsOnce
<1>2. E!StoredWaits
  BY WaitingParts DEF ResumeParts
<1>3. E!DecidesOnWhatItSaw
  BY DEF ResumeParts, ClientsSeen, ClientAt, Decided, E!DecidesOnWhatItSaw, E!Answered
<1> QED
  BY <1>1, <1>2, <1>3 DEF ResumeParts, SweepsExpired, E!ResumesRight

(* Whatever keys, scopes, expiries, exemptions and paths there are, nobody  *)
(* runs a handler of the API that changes something without a key that was  *)
(* good when the request came in and has the scope, no holder of such a key *)
(* with all scopes is refused, and only exact paths lead to changes.  And   *)
(* however callers, timeouts, cleanups, new suspensions on the same hook    *)
(* and redeployments interleave, a suspension ends once, an entry of the    *)
(* store has its trace waiting, a caller that is told of success has        *)
(* decided on what it saw or on a later suspension of that hook, and only   *)
(* what has expired is swept.                                               *)
THEOREM RequestsAreRight == Spec => []RequestsRight
<1>1. AccessInv /\ ResumeInv => RequestsRight
  BY AccessTells, ResumeTells DEF AccessInv, ResumeInv, RequestsRight
<1> QED
  BY AccessStarts, AccessKept, ResumeStarts, ResumeKept, <1>1, PTL DEF Spec

-----------------------------------------------------------------------------
(* What tests are run with.  The clock: s1 is the time, s2 the sleeps that  *)
(* wait, s3 the tasks, s4 the calls of advance, s5 the tasks that were      *)
(* woken, s6 those that missed a change of the time and s7 those whose      *)
(* waker was replaced.                                                      *)

Sleeps == [wake_at : Nat, waker : Clients]
SleepStates == {"awake", "decide", "poll", "register", "pending", "done"}

\* What is left of the first m sleeps is those whose time has not come.
Remains(left, sleeps, time, m) ==
  /\ left \in Seq(Sleeps)
  /\ \A x : (\E i \in 1 .. Len(left) : left[i] = x) <=> \E i \in 1 .. m : sleeps[i] = x /\ ~(x.wake_at <= time)

LEMMA RemainsNext ==
  ASSUME NEW left, NEW sleeps \in Seq(Sleeps), NEW time, NEW m \in 1 .. Len(sleeps), Remains(left, sleeps, time, m - 1)
  PROVE  Remains(IF sleeps[m].wake_at <= time THEN left ELSE Append(left, sleeps[m]), sleeps, time, m)
<1>1. sleeps[m] \in Sleeps /\ m \in Nat /\ \A i : i \in 1 .. m <=> i \in 1 .. m - 1 \/ i = m
  OBVIOUS
<1>2. left \in Seq(Sleeps) /\ \A x : (\E i \in 1 .. Len(left) : left[i] = x) <=> \E i \in 1 .. m - 1 : sleeps[i] = x /\ ~(x.wake_at <= time)
  BY DEF Remains
<1>3. CASE sleeps[m].wake_at <= time
  <2>1. \A x : (\E i \in 1 .. m - 1 : sleeps[i] = x /\ ~(x.wake_at <= time)) <=> \E i \in 1 .. m : sleeps[i] = x /\ ~(x.wake_at <= time)
    BY <1>1, <1>3, Zenon
  <2> QED
    BY <1>2, <1>3, <2>1, Zenon DEF Remains
<1>4. CASE ~(sleeps[m].wake_at <= time)
  <2> DEFINE new == Append(left, sleeps[m])
  <2>1. /\ new \in Seq(Sleeps) /\ Len(left) \in Nat /\ Len(new) = Len(left) + 1
        /\ \A i \in 1 .. Len(left) : new[i] = left[i]
        /\ new[Len(left) + 1] = sleeps[m]
    BY <1>1, <1>2
  <2> HIDE DEF new
  <2>2. \A i : i \in 1 .. Len(new) <=> i \in 1 .. Len(left) \/ i = Len(left) + 1
    BY <2>1
  <2>3. \A x : (\E i \in 1 .. Len(new) : new[i] = x) <=> (\E i \in 1 .. Len(left) : left[i] = x) \/ x = sleeps[m]
    BY <2>1, <2>2, Zenon
  <2>4. \A x : (\E i \in 1 .. m : sleeps[i] = x /\ ~(x.wake_at <= time))
                 <=> (\E i \in 1 .. m - 1 : sleeps[i] = x /\ ~(x.wake_at <= time)) \/ x = sleeps[m]
    BY <1>1, <1>4, Zenon
  <2>5. Remains(new, sleeps, time, m)
    BY <1>2, <2>1, <2>3, <2>4, Zenon DEF Remains
  <2> QED
    BY <1>4, <2>5 DEF new
<1> QED
  BY <1>3, <1>4

LEMMA RemainingIs ==
  ASSUME NEW sleeps \in Seq(Sleeps), NEW time
  PROVE  Remains(K!Remaining(sleeps, time), sleeps, time, Len(sleeps))
<1> DEFINE size == Len(sleeps)
           V == Seq(Sleeps)
           base == <<>>
           Then(v, k) == IF sleeps[k].wake_at <= time THEN v ELSE Append(v, sleeps[k])
           Goes(f) == f = [k \in 0 .. size |-> IF k = 0 THEN <<>> ELSE IF sleeps[k].wake_at <= time THEN f[k - 1] ELSE Append(f[k - 1], sleeps[k])]
           step == [k \in 1 .. size |-> [v \in V |-> Then(v, k)]]
<1>1. size \in Nat /\ \A k \in 1 .. size : sleeps[k] \in Sleeps
  OBVIOUS
<1>2. step \in [1 .. size -> [V -> V]] /\ base \in V
  <2>1. ASSUME NEW k \in 1 .. size, NEW v \in V PROVE Then(v, k) \in V
    BY <1>1
  <2> QED
    BY <2>1
<1>3. PICK f : GoesOn(f, size, V, base, step)
  <2> HIDE DEF step, size, V, base
  <2> QED
    BY <1>1, <1>2, Recurs
<1>4. f \in [0 .. size -> V] /\ f[0] = <<>> /\ \A k \in 1 .. size : f[k] = Then(f[k - 1], k)
  <2>1. f \in [0 .. size -> V] /\ f[0] = base /\ \A k \in 1 .. size : f[k] = step[k][f[k - 1]]
    BY <1>3 DEF GoesOn
  <2>2. ASSUME NEW k \in 1 .. size PROVE f[k] = Then(f[k - 1], k)
    <3>1. k - 1 \in 0 .. size
      BY <1>1
    <3>2. f[k - 1] \in V
      BY <2>1, <3>1
    <3>3. step[k][f[k - 1]] = Then(f[k - 1], k)
      BY <3>2
    <3> QED
      BY <2>1, <3>3
  <2> QED
    BY <2>1, <2>2
<1>5. Goes(f)
  <2> HIDE DEF V
  <2>1. ASSUME NEW k \in 0 .. size
        PROVE  f[k] = IF k = 0 THEN <<>> ELSE IF sleeps[k].wake_at <= time THEN f[k - 1] ELSE Append(f[k - 1], sleeps[k])
    <3>1. k = 0 \/ (k # 0 /\ k \in 1 .. size)
      BY <1>1
    <3> QED
      BY <1>4, <3>1, Zenon
  <2>2. f = [k \in 0 .. size |-> f[k]]
    BY <1>4
  <2> HIDE DEF size
  <2> QED
    BY <2>1, <2>2
<1> DEFINE left == CHOOSE h : Goes(h)
<1>6. Goes(left)
  <2> HIDE DEF Goes
  <2> QED
    BY <1>5
<1>7. K!Remaining(sleeps, time) = left[size]
  BY DEF K!Remaining
<1> HIDE DEF left
<1>8. left[0] = <<>> /\ \A k \in 1 .. size : left[k] = Then(left[k - 1], k)
  <2>1. \A k \in 0 .. size : left[k] = IF k = 0 THEN <<>> ELSE IF sleeps[k].wake_at <= time THEN left[k - 1] ELSE Append(left[k - 1], sleeps[k])
    BY <1>1, <1>6
  <2> QED
    BY <1>1, <2>1
<1> DEFINE right == {m \in 0 .. size : Remains(left[m], sleeps, time, m)}
<1>9. 0 \in right
  <2>1. 1 .. 0 = {} /\ Len(<<>>) = 0 /\ <<>> \in Seq(Sleeps)
    OBVIOUS
  <2>2. Remains(<<>>, sleeps, time, 0)
    BY <2>1, Zenon DEF Remains
  <2> QED
    BY <1>1, <1>8, <2>2
<1>10. ASSUME NEW k \in 1 .. size, k - 1 \in right PROVE k \in right
  <2>1. Remains(Then(left[k - 1], k), sleeps, time, k) /\ k \in 0 .. size
    BY <1>1, <1>10, RemainsNext
  <2> QED
    BY <1>8, <2>1
<1>11. size \in right
  <2>1. size \in 0 .. size
    BY <1>1
  <2> HIDE DEF right, size
  <2> QED
    BY <1>1, <1>9, <1>10, <2>1, Counting, Zenon
<1> QED
  BY <1>7, <1>11

-----------------------------------------------------------------------------
Listed(t) == \E i \in 1 .. Len(s2) : s2[i] = K!Entry(t)

ClockTypes ==
  /\ s1 \in Nat /\ s2 \in Seq(Sleeps)
  /\ s3 \in [Clients -> [pc : SleepStates, wake_at : Nat, registered : BOOLEAN, polls : Nat]]
  /\ s4 \in [Clients -> Nat] /\ \A a \in Clients : s4[a] <= s1

(* Of a task.  One that is done has had its time; one that is to wait has a *)
(* deadline; one that has looked at the time and not yet registered has     *)
(* time, or the time was advanced since; one that has registered is listed  *)
(* as long as it has time; and if it has not, it was woken, or a call of    *)
(* advance will see to it.                                                  *)
SleepRight(t) ==
  /\ s3[t].pc = "done" => s1 >= s3[t].wake_at
  /\ s3[t].pc \in {"poll", "register", "pending"} => s3[t].wake_at > 0
  /\ s3[t].pc = "pending" => s3[t].registered
  /\ s3[t].pc = "register" /\ t \notin s6 => s1 < s3[t].wake_at
  /\ s3[t].registered /\ s1 < s3[t].wake_at /\ t \notin s7 => Listed(t)
  /\ s3[t].registered /\ s3[t].pc \in {"register", "pending"} => t \in s5 \cup s7 \/ Listed(t)
  /\ s3[t].pc = "pending" /\ t \notin s5 \cup s6 \cup s7 =>
       s1 < s3[t].wake_at \/ \E a \in Clients : s4[a] >= s3[t].wake_at

ClockParts == ClockTypes /\ \A t \in Clients : SleepRight(t)
ClockInv == part = "clock" => ClockParts

LEMMA DurationsAre == Durations \in SUBSET Nat
BY ServiceAssumption DEF K!ClockConstants

\* A task that an action does not touch.
LEMMA OtherSleeps ==
  ASSUME NEW t \in Clients, SleepRight(t), s3'[t] = s3[t], s1' = s1, s4' = s4, s6' = s6,
         s5 \subseteq s5' \cup {u \in Clients : u # t}, t \in s5 => t \in s5', t \in s7 => t \in s7',
         Listed(t) => Listed(t)' \/ t \in s7'
  PROVE  SleepRight(t)'
BY DEF SleepRight

LEMMA SleepStep ==
  ASSUME ClockParts, NEW t \in Clients, NEW d \in Durations, K!Sleep(t, d)
  PROVE  ClockParts'
<1>1. d \in Nat
  BY DurationsAre
<1>2. ClockTypes'
  <2>1. ClockTypes /\ s3' = [s3 EXCEPT ![t] = [s3[t] EXCEPT !.pc = "decide", !.wake_at = s1 + d]]
    BY DEF ClockParts, ClockTypes, K!Sleep
  <2>2. [s3[t] EXCEPT !.pc = "decide", !.wake_at = s1 + d] \in [pc : SleepStates, wake_at : Nat, registered : BOOLEAN, polls : Nat]
    <3>1. s3[t] \in [pc : SleepStates, wake_at : Nat, registered : BOOLEAN, polls : Nat] /\ s1 + d \in Nat
      BY <1>1, <2>1 DEF ClockTypes
    <3>2. "decide" \in SleepStates
      BY DEF SleepStates
    <3> QED
      BY <3>1, <3>2
  <2> QED
    BY <2>1, <2>2 DEF ClockTypes, K!Sleep
<1>3. ASSUME NEW u \in Clients PROVE SleepRight(u)'
  <2>1. CASE u = t
    <3>1. s3[t].registered = FALSE /\ s3'[t].registered = FALSE /\ s3'[t].pc = "decide"
      BY DEF ClockParts, ClockTypes, K!Sleep, K!Awake
    <3> QED
      BY <2>1, <3>1 DEF SleepRight
  <2>2. CASE u # t
    <3>1. s3'[u] = s3[u]
      BY <2>2 DEF ClockParts, ClockTypes, K!Sleep
    <3>2. Listed(u) => Listed(u)'
      BY <3>1 DEF Listed, K!Entry, K!Sleep
    <3> QED
      BY <3>1, <3>2, OtherSleeps DEF ClockParts, K!Sleep
  <2> QED
    BY <2>1, <2>2
<1> QED
  BY <1>2, <1>3 DEF ClockParts

LEMMA DecideStep ==
  ASSUME ClockParts, NEW t \in Clients, K!Decide(t)
  PROVE  ClockParts'
<1> DEFINE to == IF s1 >= s3[t].wake_at THEN "done" ELSE "poll"
<1>1. /\ s3' = [s3 EXCEPT ![t].pc = to] /\ to \in SleepStates
      /\ s3[t].pc = "decide" /\ s1' = s1 /\ s2' = s2 /\ s4' = s4 /\ s5' = s5 /\ s6' = s6 /\ s7' = s7
  BY DEF K!Decide, K!Goes, SleepStates
<1>2. ClockTypes'
  BY <1>1 DEF ClockParts, ClockTypes
<1>3. ASSUME NEW u \in Clients PROVE SleepRight(u)'
  <2>0. s3'[u].wake_at = s3[u].wake_at /\ s3'[u].registered = s3[u].registered
    BY <1>1 DEF ClockParts, ClockTypes
  <2>1. Listed(u) => Listed(u)'
    BY <1>1, <2>0 DEF Listed, K!Entry
  <2>2. CASE u = t
    <3>1. s3'[t].pc = to /\ s1 \in Nat /\ s3[t].wake_at \in Nat
      BY <1>1 DEF ClockParts, ClockTypes
    <3> QED
      BY <1>1, <2>0, <2>1, <2>2, <3>1 DEF ClockParts, SleepRight
  <2>3. CASE u # t
    <3>1. s3'[u] = s3[u]
      BY <1>1, <2>3 DEF ClockParts, ClockTypes
    <3> QED
      BY <1>1, <2>1, <3>1, OtherSleeps DEF ClockParts
  <2> QED
    BY <2>2, <2>3
<1> QED
  BY <1>2, <1>3 DEF ClockParts

LEMMA PollTimeStep ==
  ASSUME ClockParts, NEW t \in Clients, K!PollTime(t)
  PROVE  ClockParts'
<1> DEFINE to == IF s1 >= s3[t].wake_at THEN "done" ELSE "register"
<1>1. /\ s3' = [s3 EXCEPT ![t].pc = to] /\ to \in SleepStates /\ s3[t].pc = "poll"
      /\ s1' = s1 /\ s2' = s2 /\ s4' = s4 /\ s5' = s5 \ {t} /\ s6' = s6 \ {t} /\ s7' = s7
  BY DEF K!PollTime, K!Goes, SleepStates
<1>2. ClockTypes'
  BY <1>1 DEF ClockParts, ClockTypes
<1>3. ASSUME NEW u \in Clients PROVE SleepRight(u)'
  <2>0. s3'[u].wake_at = s3[u].wake_at /\ s3'[u].registered = s3[u].registered
    BY <1>1 DEF ClockParts, ClockTypes
  <2>1. Listed(u) <=> Listed(u)'
    BY <1>1, <2>0 DEF Listed, K!Entry
  <2>2. CASE u = t
    <3>1. s3'[t].pc = to /\ s1 \in Nat /\ s3[t].wake_at \in Nat /\ SleepRight(t)
      BY <1>1 DEF ClockParts, ClockTypes
    <3>2. CASE s1 >= s3[t].wake_at
      BY <1>1, <2>0, <2>1, <2>2, <3>1, <3>2 DEF SleepRight
    <3>3. CASE s1 < s3[t].wake_at
      BY <1>1, <2>0, <2>1, <2>2, <3>1, <3>3 DEF SleepRight
    <3> QED
      BY <3>1, <3>2, <3>3
  <2>3. CASE u # t
    <3>1. s3'[u] = s3[u] /\ SleepRight(u)
      BY <1>1, <2>3 DEF ClockParts, ClockTypes
    <3> QED
      BY <1>1, <2>1, <2>3, <3>1 DEF SleepRight
  <2> QED
    BY <2>2, <2>3
<1> QED
  BY <1>2, <1>3 DEF ClockParts

LEMMA RegisterStep ==
  ASSUME ClockParts, NEW t \in Clients, K!Register(t)
  PROVE  ClockParts'
<1>1. /\ s2' = Append(s2, K!Entry(t)) /\ s3' = [s3 EXCEPT ![t].pc = "pending", ![t].registered = TRUE]
      /\ s3[t].pc = "register" /\ s1' = s1 /\ s4' = s4 /\ s5' = s5 /\ s6' = s6 /\ s7' = s7
  BY DEF K!Register
<1>2. ClockTypes /\ K!Entry(t) \in Sleeps
  BY DEF ClockParts, ClockTypes, K!Entry, Sleeps
<1>3. /\ Len(s2) \in Nat /\ Len(s2') = Len(s2) + 1 /\ s2' \in Seq(Sleeps)
      /\ s2'[Len(s2) + 1] = K!Entry(t) /\ \A i \in 1 .. Len(s2) : s2'[i] = s2[i]
  BY <1>1, <1>2 DEF ClockTypes
<1>4. ClockTypes'
  <2> DEFINE states == [pc : SleepStates, wake_at : Nat, registered : BOOLEAN, polls : Nat]
             waits == [s3[t] EXCEPT !.pc = "pending", !.registered = TRUE]
  <2>1. s3 \in [Clients -> states] /\ waits \in states
    BY <1>2 DEF ClockTypes, SleepStates
  <2>2. s3' = [s3 EXCEPT ![t] = waits]
    BY <1>1, <2>1
  <2> HIDE DEF states, waits
  <2>3. s3' \in [Clients -> states]
    BY <2>1, <2>2
  <2> QED
    BY <1>1, <1>2, <1>3, <2>3 DEF ClockTypes, states
<1>5. ASSUME NEW u \in Clients PROVE SleepRight(u)'
  <2>0. s3'[u].wake_at = s3[u].wake_at
    BY <1>1, <1>2 DEF ClockTypes
  <2>1. K!Entry(u)' = K!Entry(u)
    BY <2>0 DEF K!Entry
  <2>2. CASE u = t
    <3>1. Listed(t)'
      BY <1>3, <2>1, <2>2 DEF Listed
    <3>2. s3'[t].pc = "pending" /\ s3'[t].registered
      BY <1>1, <1>2 DEF ClockTypes
    <3> QED
      BY <1>1, <2>0, <2>2, <3>1, <3>2 DEF ClockParts, SleepRight
  <2>3. CASE u # t
    <3>1. s3'[u] = s3[u]
      BY <1>1, <1>2, <2>3 DEF ClockTypes
    <3>2. Listed(u) => Listed(u)'
      BY <1>3, <2>1 DEF Listed
    <3> QED
      BY <1>1, <3>1, <3>2, OtherSleeps DEF ClockParts
  <2> QED
    BY <2>2, <2>3
<1> QED
  BY <1>4, <1>5 DEF ClockParts

LEMMA UpdateWakerStep ==
  ASSUME ClockParts, NEW t \in Clients, K!UpdateWaker(t)
  PROVE  ClockParts'
<1> DEFINE same == {i \in DOMAIN s2 : s2[i].wake_at = s3[t].wake_at}
           first == K!Min(same)
<1>1. /\ s3[t].pc = "register" /\ s3[t].registered
      /\ s2' = IF same = {} THEN s2 ELSE [s2 EXCEPT ![first].waker = t]
      /\ s7' = IF same = {} THEN s7 ELSE (s7 \cup {s2[first].waker}) \ {t}
      /\ s3' = [s3 EXCEPT ![t].pc = "pending"]
      /\ s1' = s1 /\ s4' = s4 /\ s5' = s5 /\ s6' = s6
  BY DEF K!UpdateWaker, K!Goes
<1>2. ClockTypes /\ DOMAIN s2 = 1 .. Len(s2) /\ Len(s2) \in Nat
  BY DEF ClockParts, ClockTypes
<1>3. ASSUME same # {} PROVE first \in same
  <2>1. same \in SUBSET Nat
    BY <1>2
  <2> HIDE DEF same
  <2> QED
    BY <1>3, <2>1, LeastNumber DEF K!Min
<1>4. s2' \in Seq(Sleeps) /\ Len(s2') = Len(s2) /\ DOMAIN s2' = DOMAIN s2
  <2>1. CASE same = {}
    BY <1>1, <1>2, <2>1 DEF ClockTypes
  <2>2. CASE same # {}
    <3>0. first \in 1 .. Len(s2)
      BY <1>2, <1>3, <2>2
    <3>1. s2[first] \in Sleeps
      BY <1>2, <3>0 DEF ClockTypes
    <3>3. [s2[first] EXCEPT !.waker = t] \in Sleeps
      BY <3>1 DEF Sleeps
    <3>2. s2' = [s2 EXCEPT ![first] = [s2[first] EXCEPT !.waker = t]]
      BY <1>1, <2>2
    <3> DEFINE woken == [s2[first] EXCEPT !.waker = t]
    <3>4. s2' = [s2 EXCEPT ![first] = woken] /\ woken \in Sleeps
      BY <3>2, <3>3
    <3> HIDE DEF first, woken
    <3> QED
      BY <1>2, <3>0, <3>4 DEF ClockTypes
  <2> QED
    BY <2>1, <2>2
<1>5. ClockTypes'
  BY <1>1, <1>2, <1>4 DEF ClockTypes, SleepStates
<1>6. ASSUME NEW u \in Clients PROVE SleepRight(u)'
  <2>0. s3'[u].wake_at = s3[u].wake_at /\ s3'[u].registered = s3[u].registered
    BY <1>1, <1>2 DEF ClockTypes
  <2>1. K!Entry(u)' = K!Entry(u)
    BY <2>0 DEF K!Entry
  <2>2. CASE u = t
    <3>1. s3'[t].pc = "pending"
      BY <1>1, <1>2 DEF ClockTypes
    <3>2. t \in s5' \cup s7' \/ Listed(t)'
      <4>1. CASE same = {}
        <5>1. ~Listed(t)
          BY <1>2, <4>1 DEF Listed, K!Entry
        <5>2. t \in s5 \cup s7
          BY <1>1, <5>1 DEF ClockParts, SleepRight
        <5> QED
          BY <1>1, <4>1, <5>2
      <4>2. CASE same # {}
        <5>1. first \in 1 .. Len(s2) /\ s2[first].wake_at = s3[t].wake_at /\ s2[first] \in Sleeps
          BY <1>2, <1>3, <4>2 DEF ClockTypes
        <5>2. s2'[first] = [s2[first] EXCEPT !.waker = t]
          BY <1>1, <4>2, <5>1, <1>2 DEF ClockTypes
        <5>3. s2'[first] = K!Entry(t)
          BY <5>1, <5>2 DEF K!Entry, Sleeps
        <5> QED
          BY <1>4, <2>1, <2>2, <5>1, <5>3 DEF Listed
      <4> QED
        BY <4>1, <4>2
    <3>3. t \notin s7' => Listed(t)' \/ ~(s1 < s3[t].wake_at)
      <4>1. CASE same = {}
        <5>1. ~Listed(t)
          BY <1>2, <4>1 DEF Listed, K!Entry
        <5> QED
          BY <1>1, <4>1, <5>1 DEF ClockParts, SleepRight
      <4>2. CASE same # {}
        <5>1. first \in 1 .. Len(s2) /\ s2[first].wake_at = s3[t].wake_at /\ s2[first] \in Sleeps
          BY <1>2, <1>3, <4>2 DEF ClockTypes
        <5>2. s2'[first] = [s2[first] EXCEPT !.waker = t]
          BY <1>1, <4>2, <5>1, <1>2 DEF ClockTypes
        <5>3. s2'[first] = K!Entry(t)
          BY <5>1, <5>2 DEF K!Entry, Sleeps
        <5> QED
          BY <1>4, <2>1, <2>2, <5>1, <5>3 DEF Listed
      <4> QED
        BY <4>1, <4>2
    <3>4. SleepRight(t)
      BY DEF ClockParts
    <3> HIDE DEF same, first
    <3> QED
      BY <1>1, <2>0, <2>2, <3>1, <3>2, <3>3, <3>4 DEF SleepRight
  <2>3. CASE u # t
    <3>1. s3'[u] = s3[u]
      BY <1>1, <1>2, <2>3 DEF ClockTypes
    <3>2. u \in s7 => u \in s7'
      BY <1>1, <2>3
    <3>3. Listed(u) => Listed(u)' \/ u \in s7'
      <4>1. SUFFICES ASSUME NEW i \in 1 .. Len(s2), s2[i] = K!Entry(u) PROVE Listed(u)' \/ u \in s7'
        BY DEF Listed
      <4>2. CASE same # {} /\ i = first
        BY <1>1, <2>3, <4>1, <4>2 DEF K!Entry
      <4>3. CASE ~(same # {} /\ i = first)
        <5>1. s2'[i] = s2[i]
          BY <1>1, <1>2, <4>3 DEF ClockTypes
        <5> QED
          BY <1>4, <2>1, <4>1, <5>1 DEF Listed
      <4> QED
        BY <4>2, <4>3
    <3> QED
      BY <1>1, <3>1, <3>2, <3>3, OtherSleeps DEF ClockParts
  <2> QED
    BY <2>2, <2>3
<1> QED
  BY <1>5, <1>6 DEF ClockParts

LEMMA PollStep ==
  ASSUME ClockParts, NEW t \in Clients, K!Poll(t)
  PROVE  ClockParts'
<1>1. /\ s3[t].pc = "pending" /\ s1' = s1 /\ s2' = s2 /\ s4' = s4 /\ s5' = s5 /\ s6' = s6 /\ s7' = s7
      /\ \E n \in {s3[t].polls, s3[t].polls + 1} : s3' = [s3 EXCEPT ![t] = [s3[t] EXCEPT !.pc = "poll", !.polls = n]]
  BY DEF K!Poll, K!Goes, ClockParts, ClockTypes
<1>2. ClockTypes /\ ClockTypes'
  <2>1. PICK n \in {s3[t].polls, s3[t].polls + 1} : s3' = [s3 EXCEPT ![t] = [s3[t] EXCEPT !.pc = "poll", !.polls = n]]
    BY <1>1
  <2>2. ClockTypes /\ [s3[t] EXCEPT !.pc = "poll", !.polls = n] \in [pc : SleepStates, wake_at : Nat, registered : BOOLEAN, polls : Nat]
    <3>1. ClockTypes /\ s3[t] \in [pc : SleepStates, wake_at : Nat, registered : BOOLEAN, polls : Nat]
      BY DEF ClockParts, ClockTypes
    <3>2. "poll" \in SleepStates /\ n \in Nat
      BY <3>1, <2>1 DEF SleepStates
    <3> QED
      BY <3>1, <3>2
  <2> QED
    BY <1>1, <2>1, <2>2 DEF ClockTypes
<1>3. ASSUME NEW u \in Clients PROVE SleepRight(u)'
  <2>0. s3'[u].wake_at = s3[u].wake_at /\ s3'[u].registered = s3[u].registered
    BY <1>1, <1>2 DEF ClockTypes
  <2>1. Listed(u) => Listed(u)'
    BY <1>1, <2>0 DEF Listed, K!Entry
  <2>2. CASE u = t
    <3>1. s3'[t].pc = "poll"
      BY <1>1, <1>2 DEF ClockTypes
    <3> QED
      BY <1>1, <2>0, <2>1, <2>2, <3>1 DEF ClockParts, SleepRight
  <2>3. CASE u # t
    <3>1. s3'[u] = s3[u]
      BY <1>1, <1>2, <2>3 DEF ClockTypes
    <3> QED
      BY <1>1, <2>1, <3>1, OtherSleeps DEF ClockParts
  <2> QED
    BY <2>2, <2>3
<1> QED
  BY <1>2, <1>3 DEF ClockParts

LEMMA AdvanceStep ==
  ASSUME ClockParts, NEW a \in Clients, NEW d \in Durations, K!Advance(a, d)
  PROVE  ClockParts'
<1>1. /\ s4[a] = 0 /\ s1' = s1 + d /\ s4' = [s4 EXCEPT ![a] = s1 + d] /\ s2' = s2 /\ s3' = s3 /\ s5' = s5 /\ s7' = s7
      /\ s6' = s6 \cup {t \in Clients : s3[t].pc = "register"}
  BY DEF K!Advance
<1>2. d \in Nat /\ ClockTypes
  BY DurationsAre DEF ClockParts
<1>3. ClockTypes'
  BY <1>1, <1>2 DEF ClockTypes
<1>4. ASSUME NEW u \in Clients PROVE SleepRight(u)'
  <2>1. Listed(u) <=> Listed(u)'
    BY <1>1 DEF Listed, K!Entry
  <2>2. SleepRight(u) /\ s3[u].wake_at \in Nat /\ s1 \in Nat /\ s4[a] \in Nat /\ s1' >= s1 /\ s4'[a] = s1'
    BY <1>1, <1>2 DEF ClockParts, ClockTypes
  <2>3. (\E b \in Clients : s4[b] >= s3[u].wake_at) => \E b \in Clients : s4'[b] >= s3[u].wake_at
    <3>1. SUFFICES ASSUME NEW b \in Clients, s4[b] >= s3[u].wake_at PROVE s4'[b] >= s3[u].wake_at
      OBVIOUS
    <3> QED
      BY <1>1, <1>2, <2>2, <3>1 DEF ClockTypes
  <2>4. s1' < s3[u].wake_at \/ s4'[a] >= s3[u].wake_at
    BY <1>1, <1>2, <2>2
  <2> QED
    BY <1>1, <1>2, <2>1, <2>2, <2>3, <2>4 DEF SleepRight
<1> QED
  BY <1>3, <1>4 DEF ClockParts

LEMMA WakeStep ==
  ASSUME ClockParts, NEW a \in Clients, K!WakeExpiredSleeps(a)
  PROVE  ClockParts'
<1>1. /\ s4' = [s4 EXCEPT ![a] = 0] /\ s1' = s1 /\ s3' = s3 /\ s6' = s6 /\ s7' = s7
      /\ s5' = s5 \cup {e.waker : e \in {x \in K!Range(s2) : x.wake_at <= s4[a]}}
      /\ s2' = K!Remaining(s2, s4[a])
  BY DEF K!WakeExpiredSleeps
<1>2. ClockTypes /\ DOMAIN s2 = 1 .. Len(s2)
  BY DEF ClockParts, ClockTypes
<1>3. Remains(s2', s2, s4[a], Len(s2))
  BY <1>1, <1>2, RemainingIs DEF ClockTypes
<1>4. ClockTypes'
  BY <1>1, <1>2, <1>3 DEF ClockTypes, Remains
<1>5. ASSUME NEW u \in Clients, Listed(u) PROVE Listed(u)' \/ (u \in s5' /\ s3[u].wake_at <= s4[a])
  <2>1. PICK i \in 1 .. Len(s2) : s2[i] = K!Entry(u)
    BY <1>5 DEF Listed
  <2>2. K!Entry(u)' = K!Entry(u) /\ K!Entry(u).wake_at = s3[u].wake_at /\ K!Entry(u).waker = u
    BY <1>1 DEF K!Entry
  <2>3. CASE s3[u].wake_at <= s4[a]
    <3>1. K!Entry(u) \in {x \in K!Range(s2) : x.wake_at <= s4[a]}
      BY <1>2, <2>1, <2>2, <2>3 DEF K!Range
    <3> QED
      BY <1>1, <2>2, <2>3, <3>1
  <2>4. CASE ~(s3[u].wake_at <= s4[a])
    BY <1>3, <2>1, <2>2, <2>4 DEF Listed, Remains
  <2> QED
    BY <2>3, <2>4
<1>6. ASSUME NEW u \in Clients PROVE SleepRight(u)'
  <2>1. SleepRight(u) /\ s3[u].wake_at \in Nat /\ s1 \in Nat /\ s4[a] \in Nat /\ s4[a] <= s1 /\ s5 \subseteq s5'
    BY <1>1, <1>2 DEF ClockParts, ClockTypes
  <2>2. (\E b \in Clients : s4[b] >= s3[u].wake_at) /\ ~(s3[u].wake_at <= s4[a]) => \E b \in Clients : s4'[b] >= s3[u].wake_at
    <3>1. SUFFICES ASSUME NEW b \in Clients, s4[b] >= s3[u].wake_at, ~(s3[u].wake_at <= s4[a]) PROVE s4'[b] >= s3[u].wake_at
      OBVIOUS
    <3>2. b # a
      BY <1>2, <2>1, <3>1 DEF ClockTypes
    <3> QED
      BY <1>1, <1>2, <3>1, <3>2 DEF ClockTypes
  <2>3. Listed(u) => Listed(u)' \/ (u \in s5' /\ s3[u].wake_at <= s4[a])
    BY <1>5
  <2>4. s3[u].registered /\ s1 < s3[u].wake_at /\ u \notin s7 => Listed(u)'
    BY <2>1, <2>3 DEF SleepRight
  <2>5. s3[u].registered /\ s3[u].pc \in {"register", "pending"} => u \in s5' \cup s7 \/ Listed(u)'
    BY <2>1, <2>3 DEF SleepRight
  <2>6. s3[u].pc = "pending" /\ u \notin s5' \cup s6 \cup s7 =>
          s1 < s3[u].wake_at \/ \E b \in Clients : s4'[b] >= s3[u].wake_at
    <3>1. SUFFICES ASSUME s3[u].pc = "pending", u \notin s5', u \notin s6, u \notin s7, ~(s1 < s3[u].wake_at)
                   PROVE  \E b \in Clients : s4'[b] >= s3[u].wake_at
      OBVIOUS
    <3>2. u \notin s5 /\ s3[u].registered /\ Listed(u)
      BY <2>1, <3>1 DEF SleepRight
    <3>3. \E b \in Clients : s4[b] >= s3[u].wake_at
      BY <2>1, <3>1, <3>2 DEF SleepRight
    <3>4. CASE ~(s3[u].wake_at <= s4[a])
      BY <2>2, <3>3, <3>4
    <3>5. CASE s3[u].wake_at <= s4[a]
      <4>1. PICK i \in 1 .. Len(s2) : s2[i] = K!Entry(u)
        BY <3>2 DEF Listed
      <4>2. K!Entry(u).wake_at = s3[u].wake_at /\ K!Entry(u).waker = u
        BY DEF K!Entry
      <4>3. K!Entry(u) \in {x \in K!Range(s2) : x.wake_at <= s4[a]}
        BY <1>2, <3>5, <4>1, <4>2 DEF K!Range
      <4> QED
        BY <1>1, <3>1, <4>2, <4>3
    <3> QED
      BY <3>4, <3>5
  <2> QED
    BY <1>1, <2>1, <2>4, <2>5, <2>6 DEF SleepRight
<1> QED
  BY <1>4, <1>6 DEF ClockParts

LEMMA ClockStarts == InitPart => ClockInv
<1>1. SUFFICES ASSUME part = "clock", K!Init PROVE ClockParts
  BY DEF InitPart, Init, ClockInv
<1>2. ClockTypes /\ \A t \in Clients : s3[t].pc = "awake" /\ ~s3[t].registered
  BY <1>1 DEF K!Init, K!Awake, ClockTypes, SleepStates
<1> QED
  BY <1>2 DEF ClockParts, SleepRight

LEMMA ClockStep == ClockInv /\ [Next]_vars => ClockInv'
<1>1. SUFFICES ASSUME ClockInv, [Next]_vars, part' = "clock" PROVE ClockParts'
  BY DEF ClockInv
<1>2. part = "clock" /\ ClockParts /\ (K!Next \/ UNCHANGED <<s1, s2, s3, s4, s5, s6, s7>>)
  BY <1>1 DEF ClockInv, Next, SmallNext, vars, shared
<1>3. CASE UNCHANGED <<s1, s2, s3, s4, s5, s6, s7>>
  <2>1. \A t \in Clients : Listed(t)' <=> Listed(t)
    BY <1>3 DEF Listed, K!Entry
  <2> QED
    BY <1>2, <1>3, <2>1 DEF ClockParts, ClockTypes, SleepRight
<1>4. CASE K!Next
  BY <1>2, <1>4, SleepStep, DecideStep, PollTimeStep, RegisterStep, UpdateWakerStep, PollStep, AdvanceStep, WakeStep DEF K!Next
<1> QED
  BY <1>2, <1>3, <1>4

LEMMA ClockTells == ASSUME ClockParts PROVE K!SleepsEnd
<1>1. ClockTypes /\ DOMAIN s2 = 1 .. Len(s2)
  BY DEF ClockParts, ClockTypes
<1>2. K!AllWoken
  <2>1. SUFFICES ASSUME NEW t \in Clients, s3[t].pc = "pending", s3[t].wake_at <= s1, \A a \in Clients : s4[a] = 0
                 PROVE  t \in s5 \cup s6 \cup s7
    BY DEF K!AllWoken
  <2>2. s3[t].wake_at \in Nat /\ s1 \in Nat /\ SleepRight(t)
    BY <1>1 DEF ClockParts, ClockTypes
  <2> QED
    BY <2>1, <2>2 DEF SleepRight
<1>3. K!WaitersListed
  BY <1>1 DEF ClockParts, SleepRight, Listed, K!WaitersListed
<1> QED
  BY <1>2, <1>3 DEF K!SleepsEnd

-----------------------------------------------------------------------------
(* The runner: s1 is the graph, s2 what its nodes answer, s3 the order of   *)
(* execution, s4 the place in it, s5 the inputs of the nodes that answered, *)
(* s6 the completed nodes, s7 the records and s8 the verdict.               *)

LEMMA RunnerSizes == \A X : U!Cardinality(X) = Cardinality(X) /\ (U!IsFiniteSet(X) <=> IsFiniteSet(X))
<1>1. \A X : U!Cardinality(X) = Cardinality(X)
  BY Zenon DEF U!Cardinality, Cardinality
<1>2. \A X : U!IsFiniteSet(X) <=> IsFiniteSet(X)
  BY Zenon DEF U!IsFiniteSet, IsFiniteSet
<1> QED
  BY <1>1, <1>2

LEMMA GraphIs ==
  ASSUME s1 \in TestGraphs
  PROVE  /\ IsFiniteSet(s1.nodes) /\ Cardinality(s1.nodes) \in Nat
         /\ Len(s1.edges) \in Nat /\ DOMAIN s1.edges = 1 .. Len(s1.edges)
<1>1. IsFiniteSet(s1.nodes) /\ s1.edges \in Seq(U!Range(s1.edges))
  BY ServiceAssumption, RunnerSizes DEF U!RunnerConstants
<1> QED
  BY <1>1, FS_CardinalityType

LEMMA EmptyIs == \A f : DOMAIN f = {} /\ f = [x \in DOMAIN f |-> f[x]] => f = <<>>
<1>1. DOMAIN <<>> = {} /\ <<>> = [x \in {} |-> <<>>[x]]
  OBVIOUS
<1> QED
  BY <1>1

-----------------------------------------------------------------------------
(* What the executor gives a node: of the edges into a port the last.       *)
LEMMA MaxIs ==
  ASSUME NEW set \in SUBSET Nat, NEW m \in set, \A i \in set : i <= m
  PROVE  U!Max(set) = m
<1>0. \A i \in set : i \in Nat
  OBVIOUS
<1>1. \E x \in set : \A y \in set : x >= y
  BY <1>0
<1>2. U!Max(set) \in set /\ \A y \in set : U!Max(set) >= y
  BY <1>1 DEF U!Max
<1>3. U!Max(set) \in Nat /\ m \in Nat /\ U!Max(set) <= m /\ U!Max(set) >= m
  BY <1>0, <1>2
<1> QED
  BY <1>3

LastOf(edges, live) ==
  [p \in {edges[i].into : i \in live} |-> edges[U!Max({i \in live : edges[i].into = p})].from]

LEMMA LastOfMore ==
  ASSUME NEW edges, NEW live \in SUBSET Nat, NEW m \in Nat, \A i \in live : i < m
  PROVE  LastOf(edges, live \cup {m}) = U!With(LastOf(edges, live), edges[m].into, edges[m].from)
<1>0. \A i \in live : i \in Nat /\ i <= m
  OBVIOUS
<1> DEFINE more == live \cup {m}
           Into(p, set) == {i \in set : edges[i].into = p}
           ports(set) == {edges[i].into : i \in set}
<1>1. ports(more) = ports(live) \cup {edges[m].into}
  OBVIOUS
<1>2. ASSUME NEW p \in ports(more)
      PROVE  edges[U!Max(Into(p, more))].from = IF p = edges[m].into THEN edges[m].from ELSE edges[U!Max(Into(p, live))].from
  <2>1. CASE p = edges[m].into
    <3>1. Into(p, more) \in SUBSET Nat /\ m \in Into(p, more) /\ \A i \in Into(p, more) : i <= m
      <4>1. \A i \in more : i \in Nat /\ i <= m
        BY <1>0
      <4>2. m \in more
        OBVIOUS
      <4> HIDE DEF more
      <4> QED
        BY <2>1, <4>1, <4>2
    <3>2. U!Max(Into(p, more)) = m
      <4> HIDE DEF Into, more
      <4> QED
        BY <3>1, MaxIs
    <3> QED
      BY <2>1, <3>2
  <2>2. CASE p # edges[m].into
    <3>1. Into(p, more) = Into(p, live)
      BY <2>2
    <3> QED
      BY <2>2, <3>1
  <2> QED
    BY <2>1, <2>2
<1>3. LastOf(edges, more) = [p \in ports(more) |-> edges[U!Max(Into(p, more))].from]
  BY DEF LastOf
<1>4. /\ DOMAIN LastOf(edges, live) = ports(live)
      /\ \A p \in ports(live) : LastOf(edges, live)[p] = edges[U!Max(Into(p, live))].from
  BY DEF LastOf
<1>5. ASSUME NEW p \in ports(more), p # edges[m].into PROVE p \in ports(live)
  BY <1>1, <1>5
<1> HIDE DEF ports, Into, more
<1>6. U!With(LastOf(edges, live), edges[m].into, edges[m].from) =
        [p \in ports(more) |-> IF p = edges[m].into THEN edges[m].from ELSE LastOf(edges, live)[p]]
  BY <1>1, <1>4 DEF U!With
<1>7. \A p \in ports(more) : edges[U!Max(Into(p, more))].from = IF p = edges[m].into THEN edges[m].from ELSE LastOf(edges, live)[p]
  BY <1>2, <1>4, <1>5
<1> QED
  BY <1>3, <1>6, <1>7 DEF more

LEMMA GivenIs ==
  ASSUME s1 \in TestGraphs, NEW n, n \notin s1.entries, NEW done
  PROVE  U!Given(n, done) = LastOf(s1.edges, U!Pending(n, done))
<1> DEFINE edges == s1.edges
           size == Len(edges)
           live == U!Pending(n, done)
           froms == {edges[i].from : i \in 1 .. size}
           intos == {edges[i].into : i \in 1 .. size}
           V == UNION {[D -> froms] : D \in SUBSET intos}
           base == <<>>
           Then(v, k) == IF k \notin live THEN v ELSE U!With(v, edges[k].into, edges[k].from)
           Goes(f) == f = [k \in 0 .. size |-> IF k = 0 THEN <<>>
                                              ELSE IF k \notin live THEN f[k - 1]
                                              ELSE U!With(f[k - 1], edges[k].into, edges[k].from)]
           step == [k \in 1 .. size |-> [v \in V |-> Then(v, k)]]
<1>1. size \in Nat /\ live \in SUBSET (1 .. size)
  BY GraphIs DEF U!Pending, U!Incoming
<1>2. step \in [1 .. size -> [V -> V]] /\ base \in V
  <2>1. ASSUME NEW k \in 1 .. size, NEW v \in V PROVE Then(v, k) \in V
    <3>1. PICK D \in SUBSET intos : v \in [D -> froms]
      OBVIOUS
    <3>2. D \cup {edges[k].into} \in SUBSET intos /\ edges[k].from \in froms
      OBVIOUS
    <3>3. U!With(v, edges[k].into, edges[k].from) \in [D \cup {edges[k].into} -> froms]
      <4> HIDE DEF froms
      <4> QED
        BY <3>1, <3>2 DEF U!With
    <3> HIDE DEF live, froms, intos
    <3> QED
      BY <3>2, <3>3
  <2>2. <<>> \in [{} -> froms]
    BY EmptyIs
  <2>3. base \in V
    <3> HIDE DEF froms, intos
    <3> QED
      BY <2>2
  <2> HIDE DEF V, Then
  <2> QED
    BY <2>1, <2>3
<1>3. PICK f : GoesOn(f, size, V, base, step)
  <2> HIDE DEF step, size, V, base
  <2> QED
    BY <1>1, <1>2, Recurs
<1> HIDE DEF V
<1>4. f \in [0 .. size -> V] /\ f[0] = <<>> /\ \A k \in 1 .. size : f[k] = Then(f[k - 1], k)
  <2>1. f \in [0 .. size -> V] /\ f[0] = base /\ \A k \in 1 .. size : f[k] = step[k][f[k - 1]]
    BY <1>3 DEF GoesOn
  <2>2. ASSUME NEW k \in 1 .. size PROVE f[k] = Then(f[k - 1], k)
    <3>1. k - 1 \in 0 .. size
      BY <1>1
    <3>2. f[k - 1] \in V
      BY <2>1, <3>1
    <3>3. step[k][f[k - 1]] = Then(f[k - 1], k)
      <4> HIDE DEF Then
      <4> QED
        BY <3>2
    <3> QED
      BY <2>1, <3>3
  <2> QED
    BY <2>1, <2>2
<1> HIDE DEF live, edges
<1>5. Goes(f)
  <2>1. ASSUME NEW k \in 0 .. size
        PROVE  f[k] = IF k = 0 THEN <<>> ELSE IF k \notin live THEN f[k - 1] ELSE U!With(f[k - 1], edges[k].into, edges[k].from)
    <3>1. k = 0 \/ (k # 0 /\ k \in 1 .. size)
      BY <1>1
    <3> QED
      BY <1>4, <3>1, Zenon
  <2>2. f = [k \in 0 .. size |-> f[k]]
    BY <1>4
  <2> HIDE DEF size
  <2> QED
    BY <2>1, <2>2
<1> DEFINE inputs == CHOOSE h : Goes(h)
<1>6. Goes(inputs)
  <2> HIDE DEF Goes
  <2> QED
    BY <1>5
<1>7. U!Given(n, done) = inputs[size]
  BY DEF U!Given, edges, live
<1> HIDE DEF inputs
<1>8. inputs[0] = <<>> /\ \A k \in 1 .. size : inputs[k] = Then(inputs[k - 1], k)
  <2>1. \A k \in 0 .. size : inputs[k] = IF k = 0 THEN <<>> ELSE IF k \notin live THEN inputs[k - 1] ELSE U!With(inputs[k - 1], edges[k].into, edges[k].from)
    BY <1>1, <1>6
  <2> QED
    BY <1>1, <2>1
<1> DEFINE Upto(m) == {i \in live : i <= m}
           right == {m \in 0 .. size : inputs[m] = LastOf(edges, Upto(m))}
<1>u. \A i \in live : i \in Nat /\ i > 0 /\ i <= size
  BY <1>1
<1>v. \A m, i : i \in Upto(m) <=> i \in live /\ i <= m
  OBVIOUS
<1>r. \A m : m \in right <=> m \in 0 .. size /\ inputs[m] = LastOf(edges, Upto(m))
  <2> HIDE DEF Upto
  <2> QED
    OBVIOUS
<1> HIDE DEF right
<1>9. 0 \in right
  <2>1. Upto(0) = {} /\ 0 \in 0 .. size
    <3>1. \A i : ~(i \in Upto(0))
      BY <1>u, <1>v
    <3> QED
      BY <1>1, <3>1
  <2>2. LastOf(edges, {}) = <<>>
    BY EmptyIs DEF LastOf
  <2> HIDE DEF Upto
  <2> QED
    BY <1>r, <1>8, <2>1, <2>2
<1>10. ASSUME NEW k \in 1 .. size, k - 1 \in right PROVE k \in right
  <2>1. k \in 0 .. size /\ k \in Nat /\ Upto(k - 1) \in SUBSET Nat /\ \A i \in Upto(k - 1) : i < k
    <3>1. k \in 0 .. size /\ k \in Nat
      BY <1>1
    <3>2. \A i \in Upto(k - 1) : i \in Nat /\ i < k
      BY <1>u, <1>v, <3>1
    <3> HIDE DEF Upto
    <3> QED
      BY <3>1, <3>2
  <2>2. CASE k \in live
    <3>1. Upto(k) = Upto(k - 1) \cup {k}
      <4>1. \A i : i \in Upto(k) <=> i \in Upto(k - 1) \cup {k}
        <5>1. k <= k /\ \A i \in Nat : i <= k <=> i <= k - 1 \/ i = k
          BY <2>1
        <5> HIDE DEF Upto
        <5> QED
          BY <1>u, <1>v, <2>2, <5>1, Zenon
      <4> HIDE DEF Upto
      <4> QED
        BY <4>1
    <3> HIDE DEF Upto
    <3> QED
      BY <1>r, <1>8, <1>10, <2>1, <2>2, <3>1, LastOfMore
  <2>3. CASE k \notin live
    <3>1. Upto(k) = Upto(k - 1)
      BY <1>u, <2>1, <2>3
    <3> HIDE DEF Upto
    <3> QED
      BY <1>r, <1>8, <1>10, <2>1, <2>3, <3>1
  <2> QED
    BY <2>2, <2>3
<1>11. size \in right
  <2>1. size \in 0 .. size
    BY <1>1
  <2> HIDE DEF size
  <2> QED
    BY <1>1, <1>9, <1>10, <2>1, Counting
<1>12. Upto(size) = live
  BY <1>1, <1>u
<1> HIDE DEF Upto
<1> QED
  BY <1>7, <1>r, <1>11, <1>12 DEF live, edges

-----------------------------------------------------------------------------
(* What the executor runs: round by round, all that is ready.               *)
ReadyAfter(set) == set \cup {n \in s1.nodes : U!IsNodeReady(n, set)}
RunRounds ==
  CHOOSE round : round = [k \in 0 .. Cardinality(s1.nodes) |-> IF k = 0 THEN {} ELSE ReadyAfter(round[k - 1])]

LEMMA RoundsAre ==
  ASSUME s1 \in TestGraphs
  PROVE  /\ U!Executed = RunRounds[Cardinality(s1.nodes)] /\ RunRounds[0] = {}
         /\ \A k \in 1 .. Cardinality(s1.nodes) : RunRounds[k] = ReadyAfter(RunRounds[k - 1])
         /\ \A k \in 0 .. Cardinality(s1.nodes) : RunRounds[k] \in SUBSET s1.nodes
<1> DEFINE n == Cardinality(s1.nodes)
           nodes == s1.nodes
           V == SUBSET nodes
           base == {}
           step == [k \in 1 .. n |-> [v \in V |-> ReadyAfter(v)]]
           Goes(g) == g = [k \in 0 .. n |-> IF k = 0 THEN {} ELSE ReadyAfter(g[k - 1])]
           s == RunRounds
<1>1. n \in Nat /\ base \in V
  BY GraphIs
<1>2. ASSUME NEW v \in V PROVE ReadyAfter(v) \in V
  BY DEF ReadyAfter
<1>3. step \in [1 .. n -> [V -> V]]
  BY <1>2
<1>4. PICK g : GoesOn(g, n, V, base, step)
  <2> HIDE DEF step, n, V, base
  <2> QED
    BY <1>1, <1>3, Recurs
<1>5. g \in [0 .. n -> V] /\ g[0] = base /\ \A k \in 1 .. n : g[k] = step[k][g[k - 1]]
  BY <1>4 DEF GoesOn
<1>6. ASSUME NEW k \in 1 .. n PROVE g[k] = ReadyAfter(g[k - 1])
  <2>1. k - 1 \in 0 .. n
    BY <1>1
  <2>2. g[k - 1] \in V /\ g[k] = step[k][g[k - 1]]
    BY <1>5, <2>1
  <2> HIDE DEF V
  <2> QED
    BY <2>2
<1>7. Goes(g)
  <2> HIDE DEF V, step
  <2>1. ASSUME NEW k \in 0 .. n PROVE g[k] = IF k = 0 THEN {} ELSE ReadyAfter(g[k - 1])
    <3>1. k = 0 \/ (k # 0 /\ k \in 1 .. n)
      BY <1>1
    <3> QED
      BY <1>5, <1>6, <3>1, Zenon
  <2>2. g = [k \in 0 .. n |-> g[k]]
    BY <1>5
  <2> QED
    BY <2>1, <2>2
<1>8. Goes(s)
  BY <1>7 DEF RunRounds
<1> HIDE DEF V, step, s
<1>9. s[0] = {} /\ \A k \in 1 .. n : s[k] = ReadyAfter(s[k - 1])
  <2>1. \A k \in 0 .. n : s[k] = IF k = 0 THEN {} ELSE ReadyAfter(s[k - 1])
    <3> HIDE DEF n
    <3> QED
      BY <1>8, Zenon
  <2>2. 0 \in 0 .. n /\ \A k \in 1 .. n : k \in 0 .. n /\ k # 0
    BY <1>1
  <2> QED
    BY <2>1, <2>2, Zenon
<1> DEFINE typed == {k \in Nat : s[k] \in V}
<1>10. \A k \in 0 .. n : k \in typed
  <2>1. 0 \in typed
    BY <1>1, <1>9
  <2>2. \A k \in 1 .. n : k - 1 \in typed => k \in typed
    BY <1>1, <1>2, <1>9
  <2> HIDE DEF typed, n
  <2> QED
    BY <1>1, <2>1, <2>2, Counting
<1>11. U!Executed = s[n]
  BY RunnerSizes DEF U!Executed, s, RunRounds, ReadyAfter
<1> QED
  BY <1>9, <1>10, <1>11 DEF s, V

\* More nodes done make no node less ready.
LEMMA ReadyStays ==
  ASSUME NEW n, NEW done, NEW more, done \subseteq more, U!IsNodeReady(n, done)
  PROVE  U!IsNodeReady(n, more)
<1>1. U!Pending(n, done) \subseteq U!Pending(n, more)
  BY DEF U!Pending
<1> QED
  BY <1>1 DEF U!IsNodeReady

\* What is run was ready, and when the executor stops nothing else is.
LEMMA ExecutedIs ==
  ASSUME s1 \in TestGraphs
  PROVE  /\ U!Executed \in SUBSET s1.nodes
         /\ \A n \in s1.nodes : n \in U!Executed <=> U!IsNodeReady(n, U!Executed)
<1> DEFINE nodes == s1.nodes
           size == Cardinality(nodes)
           s == RunRounds
           Closed(v) == ReadyAfter(v) = v
           far == {k \in Nat : Closed(s[k]) \/ Cardinality(s[k]) >= k}
           ready == {k \in Nat : \A n \in s[k] : U!IsNodeReady(n, s[k])}
<1>1. size \in Nat /\ IsFiniteSet(nodes)
  BY GraphIs
<1>2. /\ U!Executed = s[size] /\ s[0] = {}
      /\ \A k \in 1 .. size : s[k] = ReadyAfter(s[k - 1])
      /\ \A k \in 0 .. size : s[k] \in SUBSET nodes
  BY RoundsAre
<1> HIDE DEF s, size, nodes
<1>3. \A k \in 0 .. size : IsFiniteSet(s[k]) /\ Cardinality(s[k]) \in Nat /\ Cardinality(s[k]) <= Cardinality(nodes)
  BY <1>1, <1>2, FS_Subset, FS_CardinalityType
<1>4. 0 \in far /\ 0 \in ready
  <2>1. Cardinality(s[0]) = 0
    BY <1>2, FS_EmptySet
  <2> QED
    BY <1>2, <2>1
<1>5. ASSUME NEW k \in 1 .. size, k - 1 \in far PROVE k \in far
  <2>1. k \in Nat /\ k - 1 \in 0 .. size /\ k \in 0 .. size /\ s[k] = ReadyAfter(s[k - 1]) /\ s[k - 1] \subseteq s[k]
    BY <1>1, <1>2 DEF ReadyAfter
  <2>2. CASE Closed(s[k - 1])
    BY <2>1, <2>2
  <2>3. CASE ~Closed(s[k - 1])
    <3>1. s[k] # s[k - 1] /\ Cardinality(s[k - 1]) >= k - 1
      BY <1>5, <2>1, <2>3
    <3>2. Cardinality(s[k - 1]) <= Cardinality(s[k]) /\ Cardinality(s[k]) # Cardinality(s[k - 1])
      <4>1. s[k - 1] \in SUBSET s[k] /\ IsFiniteSet(s[k])
        BY <1>3, <2>1
      <4> QED
        BY <3>1, <4>1, FS_Subset
    <3>3. Cardinality(s[k]) >= k
      BY <1>3, <2>1, <3>1, <3>2
    <3> QED
      BY <2>1, <3>3
  <2> QED
    BY <2>2, <2>3
<1>6. ASSUME NEW k \in 1 .. size, k - 1 \in ready PROVE k \in ready
  <2>1. k \in Nat /\ s[k] = ReadyAfter(s[k - 1]) /\ s[k - 1] \subseteq s[k]
    BY <1>1, <1>2 DEF ReadyAfter
  <2>2. ASSUME NEW n \in s[k] PROVE U!IsNodeReady(n, s[k])
    <3>1. U!IsNodeReady(n, s[k - 1])
      BY <1>6, <2>1, <2>2 DEF ReadyAfter
    <3> QED
      BY <2>1, <3>1, ReadyStays
  <2> QED
    BY <2>1, <2>2
<1>7. \A k \in 0 .. size : k \in far
  <2> HIDE DEF far
  <2> QED
    BY <1>1, <1>4, <1>5, Counting
<1>8. \A k \in 0 .. size : k \in ready
  <2> HIDE DEF ready
  <2> QED
    BY <1>1, <1>4, <1>6, Counting
<1>9. size \in 0 .. size /\ size \in far /\ size \in ready
  BY <1>1, <1>7, <1>8
<1>10. Closed(s[size])
  <2>1. CASE Cardinality(s[size]) >= size
    <3>1. s[size] \in SUBSET nodes /\ Cardinality(s[size]) = Cardinality(nodes)
      BY <1>1, <1>2, <1>3, <1>9, <2>1 DEF size
    <3>2. s[size] = nodes
      BY <1>1, <3>1, FS_Subset
    <3> QED
      BY <3>2 DEF ReadyAfter, nodes
  <2> QED
    BY <1>9, <2>1
<1> QED
  BY <1>2, <1>9, <1>10 DEF ReadyAfter, nodes

-----------------------------------------------------------------------------
RunRecords ==
  {[type |-> "TraceStart"], [type |-> "TraceComplete"]}
    \cup {[type |-> y, node |-> n] : y \in {"NodeStart", "NodeDone", "NodeError"}, n \in s1.nodes}

\* The first m nodes of the order have run, with their inputs.
RanUpTo(m) ==
  /\ s6 \in Seq(s1.nodes) /\ Len(s6) = m /\ \A i \in 1 .. m : s6[i] = s3[i]
  /\ DOMAIN s5 = {s3[i] : i \in 1 .. m}
  /\ \A n \in DOMAIN s5 : s5[n] = U!CollectInputs(n, s1.nodes)

RunnerStages ==
  /\ s8 \in {"building", "refused", "running", "ok", "error"}
  /\ s8 \in {"building", "refused"} => s6 = <<>> /\ s7 = <<>>
  /\ s8 = "building" => s4 = 0 /\ s5 = <<>>
  /\ s8 \in {"running", "ok", "error"} =>
       s3 \in U!TopologicalSorts /\ s4 \in 0 .. Cardinality(s1.nodes) /\ s7 \in Seq(RunRecords)
  /\ s8 \in {"running", "ok"} => RanUpTo(s4)
  /\ s8 = "ok" => s4 = Cardinality(s1.nodes) /\ U!Last(s7) = [type |-> "TraceComplete"]
  /\ s8 = "error" =>
       s4 > 0 /\ RanUpTo(s4 - 1) /\ U!Last(s7) = [type |-> "NodeError", node |-> s3[s4]]

RunnerInv == part = "runner" => s1 \in TestGraphs /\ RunnerStages

\* A topological order has each node once, and after its predecessors.
LEMMA SortIs ==
  ASSUME s1 \in TestGraphs, s3 \in U!TopologicalSorts
  PROVE  /\ s3 \in Seq(s1.nodes) /\ Len(s3) = Cardinality(s1.nodes)
         /\ {s3[i] : i \in 1 .. Cardinality(s1.nodes)} = s1.nodes
         /\ \A i, j \in 1 .. Cardinality(s1.nodes) : s3[i] = s3[j] => i = j
         /\ \A k \in 1 .. Cardinality(s1.nodes) : U!Predecessors(s3[k]) \subseteq {s3[i] : i \in 1 .. k - 1}
         /\ \A i \in DOMAIN s1.edges : s1.edges[i].from \in s1.nodes
<1> DEFINE size == Cardinality(s1.nodes)
<1>1. size \in Nat /\ IsFiniteSet(s1.nodes) /\ U!Cardinality(s1.nodes) = size
  BY GraphIs, RunnerSizes
<1>2. /\ s3 \in [1 .. size -> s1.nodes] /\ \A i, j \in 1 .. size : i # j => s3[i] # s3[j]
      /\ \A i \in DOMAIN s1.edges :
           /\ {s1.edges[i].from, s1.edges[i].to} \subseteq s1.nodes
           /\ \E j, k \in DOMAIN s3 : j < k /\ s3[j] = s1.edges[i].from /\ s3[k] = s1.edges[i].to
  BY <1>1 DEF U!TopologicalSorts, U!SetToSeqs
<1> HIDE DEF size
<1>3. s3 \in Seq(s1.nodes) /\ Len(s3) = size /\ DOMAIN s3 = 1 .. size
  BY <1>1, <1>2
<1>4. {s3[i] : i \in 1 .. size} = s1.nodes
  <2>1. s3 \in Injection(1 .. size, s1.nodes)
    BY <1>2 DEF Injection, IsInjective
  <2>2. Cardinality(1 .. size) = Cardinality(s1.nodes)
    <3>1. Cardinality(1 .. size) = IF 1 > size THEN 0 ELSE size - 1 + 1
      BY <1>1, FS_Interval
    <3> QED
      BY <1>1, <3>1 DEF size
  <2>3. s3 \in Surjection(1 .. size, s1.nodes)
    BY <1>1, <2>1, <2>2, FS_Injection
  <2> QED
    BY <1>2, <2>3 DEF Surjection
<1>5. ASSUME NEW k \in 1 .. size PROVE U!Predecessors(s3[k]) \subseteq {s3[i] : i \in 1 .. k - 1}
  <2>1. SUFFICES ASSUME NEW i \in DOMAIN s1.edges, s1.edges[i].to = s3[k]
                 PROVE  s1.edges[i].from \in {s3[j] : j \in 1 .. k - 1}
    BY DEF U!Predecessors, U!Incoming
  <2>2. PICK j, h \in 1 .. size : j < h /\ s3[j] = s1.edges[i].from /\ s3[h] = s3[k]
    BY <1>2, <1>3, <2>1
  <2>3. h = k /\ j \in 1 .. k - 1
    BY <1>1, <1>2, <2>2
  <2> QED
    BY <2>2, <2>3
<1> QED
  BY <1>2, <1>3, <1>4, <1>5 DEF size

\* Once its predecessors have answered, a node's inputs are what they will be.
LEMMA InputsSettled ==
  ASSUME NEW n, NEW done \in SUBSET s1.nodes, U!Predecessors(n) \subseteq done
  PROVE  U!CollectInputs(n, done) = U!CollectInputs(n, s1.nodes)
<1>1. \A i \in U!Incoming(n) : s1.edges[i].from \in done /\ s1.edges[i].from \in s1.nodes
  BY DEF U!Predecessors
<1>2. {i \in U!Incoming(n) : s1.edges[i].from \in done /\ U!MatchesPort(s2[s1.edges[i].from], s1.edges[i].port)}
        = {i \in U!Incoming(n) : s1.edges[i].from \in s1.nodes /\ U!MatchesPort(s2[s1.edges[i].from], s1.edges[i].port)}
  BY <1>1
<1> QED
  BY <1>2, Zenon DEF U!CollectInputs

LEMMA RunnerStarts == InitPart => RunnerInv
BY DEF InitPart, Init, U!Init, RunnerInv, RunnerStages

LEMMA BuildStep ==
  ASSUME s1 \in TestGraphs, RunnerStages, U!Build
  PROVE  s1' \in TestGraphs /\ RunnerStages'
<1>1. s8 = "building" /\ s1' = s1 /\ s2' = s2 /\ s4' = 0 /\ s5' = <<>> /\ s6' = <<>> /\ s7 = <<>>
  BY DEF U!Build, RunnerStages
<1>2. CASE s8' = "refused"
  BY <1>1, <1>2 DEF U!Build, RunnerStages
<1>3. CASE s8' # "refused"
  <2>1. s8' = "running" /\ s3' \in U!TopologicalSorts /\ s7' = <<[type |-> "TraceStart"]>>
    BY <1>3 DEF U!Build
  <2>2. U!TopologicalSorts' = {s \in U!SetToSeqs(s1.nodes) :
     \A i \in DOMAIN s1.edges : LET e == s1.edges[i] IN
       {e.from, e.to} \subseteq s1.nodes /\ \E j, k \in DOMAIN s : j < k /\ s[j] = e.from /\ s[k] = e.to}
    BY <1>1 DEF U!TopologicalSorts
  <2>3. s3' \in U!TopologicalSorts'
    BY <2>1, <2>2 DEF U!TopologicalSorts
  <2>4. s7' \in Seq(RunRecords)'
    BY <1>1, <2>1 DEF RunRecords
  <2>5. RanUpTo(s4)'
    <3>1. 1 .. 0 = {} /\ <<>> \in Seq(s1.nodes) /\ Len(<<>>) = 0 /\ DOMAIN <<>> = {}
      OBVIOUS
    <3> QED
      BY <1>1, <3>1 DEF RanUpTo
  <2>6. Cardinality(s1.nodes) \in Nat
    BY GraphIs
  <2> QED
    BY <1>1, <2>1, <2>3, <2>4, <2>5, <2>6 DEF RunnerStages
<1> QED
  BY <1>2, <1>3

\* Nothing but the graph and the order matters to the orders there are.
LEMMA SortsStay ==
  ASSUME s1' = s1
  PROVE  U!TopologicalSorts' = U!TopologicalSorts /\ RunRecords' = RunRecords
BY DEF U!TopologicalSorts, RunRecords

LEMMA InputsStay ==
  ASSUME s1' = s1, s2' = s2, NEW n
  PROVE  U!CollectInputs(n, s1.nodes)' = U!CollectInputs(n, s1.nodes)
BY DEF U!CollectInputs, U!Incoming

LEMMA RunNodeStep ==
  ASSUME s1 \in TestGraphs, RunnerStages, U!RunNode
  PROVE  s1' \in TestGraphs /\ RunnerStages'
<1> DEFINE n == s3[s4 + 1]
           size == Cardinality(s1.nodes)
<1>1. /\ s8 = "running" /\ s4 < Len(s3) /\ s4' = s4 + 1 /\ s1' = s1 /\ s2' = s2 /\ s3' = s3
      /\ s3 \in U!TopologicalSorts /\ s4 \in 0 .. size /\ s7 \in Seq(RunRecords) /\ RanUpTo(s4)
  BY DEF U!RunNode, RunnerStages
<1>2. /\ Len(s3) = size /\ size \in Nat /\ s4 + 1 \in 1 .. size /\ n \in s1.nodes /\ s4 \in Nat
      /\ \A i, j \in 1 .. size : s3[i] = s3[j] => i = j
      /\ U!Predecessors(n) \subseteq {s3[i] : i \in 1 .. s4}
  <2>1. s4 + 1 \in 1 .. size /\ size \in Nat /\ Len(s3) = size /\ s4 \in Nat /\ s4 + 1 - 1 = s4
    BY <1>1, SortIs, GraphIs
  <2> QED
    BY <1>1, <2>1, SortIs
<1>3. U!ShouldExecute(n) /\ DOMAIN s5 = {s3[i] : i \in 1 .. s4} /\ DOMAIN s5 \in SUBSET s1.nodes
  <2>1. \A i \in 1 .. s4 : s3[i] \in s1.nodes
    BY <1>1, <1>2, SortIs
  <2> QED
    BY <1>1, <1>2, <2>1 DEF U!ShouldExecute, RanUpTo
<1>4. U!CollectInputs(n, DOMAIN s5) = U!CollectInputs(n, s1.nodes)
  <2> HIDE DEF n
  <2> QED
    BY <1>2, <1>3, InputsSettled
<1>5. U!TopologicalSorts' = U!TopologicalSorts /\ RunRecords' = RunRecords
  BY <1>1, SortsStay
<1>6. /\ [type |-> "NodeStart", node |-> n] \in RunRecords
      /\ [type |-> "NodeError", node |-> n] \in RunRecords
      /\ [type |-> "NodeDone", node |-> n] \in RunRecords
  BY <1>2 DEF RunRecords
<1> DEFINE started == Append(s7, [type |-> "NodeStart", node |-> n])
<1>7. started \in Seq(RunRecords)
  <2> HIDE DEF n
  <2> QED
    BY <1>1, <1>6
<1>8. CASE s2[n] = Err
  <2>1. s7' = Append(started, [type |-> "NodeError", node |-> n]) /\ s8' = "error" /\ s5' = s5 /\ s6' = s6
    BY <1>3, <1>8 DEF U!RunNode
  <2>2. s7' \in Seq(RunRecords) /\ U!Last(s7') = [type |-> "NodeError", node |-> n]
    <3> HIDE DEF started, n
    <3> QED
      BY <1>6, <1>7, <2>1 DEF U!Last
  <2>3. s4' - 1 = s4
    BY <1>1, <1>2
  <2>4. RanUpTo(s4 - 1)'
    <3>1. \A m : U!CollectInputs(m, s1.nodes)' = U!CollectInputs(m, s1.nodes)
      BY <1>1, InputsStay
    <3>2. RanUpTo(s4) /\ s1' = s1 /\ s3' = s3
      BY <1>1
    <3> HIDE DEF n, size, started
    <3> QED
      BY <2>1, <2>3, <3>1, <3>2 DEF RanUpTo
  <2>5. U!Last(s7)' = U!Last(s7')
    BY DEF U!Last
  <2> QED
    BY <1>1, <1>2, <1>5, <2>1, <2>2, <2>4, <2>5 DEF RunnerStages
<1>9. CASE s2[n] # Err
  <2>1. /\ s7' = Append(started, [type |-> "NodeDone", node |-> n]) /\ s8' = "running"
        /\ s5' = U!With(s5, n, U!CollectInputs(n, DOMAIN s5)) /\ s6' = Append(s6, n)
    BY <1>1, <1>3, <1>9 DEF U!RunNode
  <2>2. s7' \in Seq(RunRecords)
    <3> HIDE DEF started, n
    <3> QED
      BY <1>6, <1>7, <2>1
  <2>3. s6' \in Seq(s1.nodes) /\ Len(s6') = s4 + 1 /\ \A i \in 1 .. s4 + 1 : s6'[i] = s3[i]
    <3>1. s6 \in Seq(s1.nodes) /\ Len(s6) = s4 /\ \A i \in 1 .. s4 : s6[i] = s3[i]
      BY <1>1 DEF RanUpTo
    <3>2. s6' \in Seq(s1.nodes) /\ Len(s6') = s4 + 1 /\ s6'[s4 + 1] = n /\ \A i \in 1 .. s4 : s6'[i] = s6[i]
      <4> HIDE DEF n
      <4> QED
        BY <1>2, <2>1, <3>1
    <3>3. \A i : i \in 1 .. s4 + 1 <=> i \in 1 .. s4 \/ i = s4 + 1
      BY <1>2
    <3> QED
      BY <3>1, <3>2, <3>3
  <2>4. DOMAIN s5' = {s3[i] : i \in 1 .. s4 + 1}
    <3>1. DOMAIN s5' = DOMAIN s5 \cup {n}
      BY <2>1 DEF U!With
    <3>2. \A i : i \in 1 .. s4 + 1 <=> i \in 1 .. s4 \/ i = s4 + 1
      BY <1>2
    <3>3. {s3[i] : i \in 1 .. s4 + 1} = {s3[i] : i \in 1 .. s4} \cup {n}
      BY <3>2
    <3> QED
      BY <1>3, <3>1, <3>3
  <2>5. \A m \in DOMAIN s5' : s5'[m] = U!CollectInputs(m, s1.nodes)
    <3> HIDE DEF n
    <3> QED
      BY <1>1, <1>4, <2>1 DEF U!With, RanUpTo
  <2>6. RanUpTo(s4)'
    BY <1>1, <2>3, <2>4, <2>5, InputsStay DEF RanUpTo
  <2> QED
    BY <1>1, <1>2, <1>5, <2>1, <2>2, <2>6 DEF RunnerStages
<1> QED
  BY <1>8, <1>9

LEMMA FinishStep ==
  ASSUME s1 \in TestGraphs, RunnerStages, U!Finish
  PROVE  s1' \in TestGraphs /\ RunnerStages'
<1>1. /\ s8 = "running" /\ s8' = "ok" /\ s4 = Len(s3) /\ s7' = Append(s7, [type |-> "TraceComplete"])
      /\ s1' = s1 /\ s2' = s2 /\ s3' = s3 /\ s4' = s4 /\ s5' = s5 /\ s6' = s6
      /\ s3 \in U!TopologicalSorts /\ s7 \in Seq(RunRecords) /\ RanUpTo(s4)
  BY DEF U!Finish, RunnerStages
<1>2. s4 = Cardinality(s1.nodes) /\ Cardinality(s1.nodes) \in Nat
  BY <1>1, SortIs, GraphIs
<1>3. [type |-> "TraceComplete"] \in RunRecords
  BY DEF RunRecords
<1>4. s7' \in Seq(RunRecords) /\ U!Last(s7)' = [type |-> "TraceComplete"]
  BY <1>1, <1>3 DEF U!Last
<1>5. RanUpTo(s4)'
  BY <1>1, InputsStay DEF RanUpTo
<1>6. U!TopologicalSorts' = U!TopologicalSorts /\ RunRecords' = RunRecords
  BY <1>1, SortsStay
<1> QED
  BY <1>1, <1>2, <1>4, <1>5, <1>6 DEF RunnerStages

LEMMA RunnerStep == RunnerInv /\ [Next]_vars => RunnerInv'
<1>1. SUFFICES ASSUME RunnerInv, [Next]_vars, part' = "runner" PROVE s1' \in TestGraphs /\ RunnerStages'
  BY DEF RunnerInv
<1>2. part = "runner" /\ s1 \in TestGraphs /\ RunnerStages /\ (U!Next \/ UNCHANGED <<s1, s2, s3, s4, s5, s6, s7, s8>>)
  BY <1>1 DEF RunnerInv, Next, SmallNext, vars, shared
<1>3. CASE UNCHANGED <<s1, s2, s3, s4, s5, s6, s7, s8>>
  <2>1. U!TopologicalSorts' = U!TopologicalSorts /\ RunRecords' = RunRecords
    BY <1>3, SortsStay
  <2>3. RanUpTo(s4)' <=> RanUpTo(s4)
    BY <1>3, InputsStay DEF RanUpTo
  <2>4. RanUpTo(s4 - 1)' <=> RanUpTo(s4 - 1)
    BY <1>3, InputsStay DEF RanUpTo
  <2> QED
    BY <1>2, <1>3, <2>1, <2>3, <2>4 DEF RunnerStages, U!Last
<1> QED
  BY <1>2, <1>3, BuildStep, RunNodeStep, FinishStep DEF U!Next

LEMMA RunnerTells ==
  ASSUME s1 \in TestGraphs, RunnerStages
  PROVE  U!RunnerAgrees
<1> DEFINE nodes == s1.nodes
           size == Cardinality(nodes)
           run == U!Executed
<1>1. size \in Nat /\ run \in SUBSET nodes /\ \A n \in nodes : n \in run <=> U!IsNodeReady(n, run)
  BY GraphIs, ExecutedIs
<1>2. ASSUME s8 = "ok"
      PROVE  /\ DOMAIN s5 = nodes /\ s3 \in U!TopologicalSorts
             /\ \A n \in nodes : s5[n] = U!CollectInputs(n, nodes) /\ U!Predecessors(n) \subseteq nodes
  <2>1. s3 \in U!TopologicalSorts /\ RanUpTo(size)
    BY <1>2 DEF RunnerStages
  <2> QED
    BY <2>1, SortIs DEF RanUpTo, U!Predecessors, U!Incoming
<1>3. ASSUME s8 = "ok", U!Answered = nodes, NEW n \in nodes, n \notin s1.entries, U!Predecessors(n) \subseteq run
      PROVE  s5[n] = LastOf(s1.edges, U!Pending(n, run))
  <2> DEFINE live == {i \in U!Incoming(n) : s1.edges[i].from \in nodes /\ U!MatchesPort(s2[s1.edges[i].from], s1.edges[i].port)}
  <2>1. live = U!Pending(n, run)
    <3>1. \A i \in U!Incoming(n) : s1.edges[i].from \in run /\ s1.edges[i].from \in nodes /\ s2[s1.edges[i].from] # Suspend
      <4>1. \A i \in U!Incoming(n) : s1.edges[i].from \in run
        BY <1>3 DEF U!Predecessors
      <4>2. ASSUME NEW m \in nodes PROVE s2[m] # Suspend
        <5>1. m \in U!Answered
          BY <1>3
        <5> QED
          BY <5>1 DEF U!Answered
      <4> HIDE DEF run, nodes
      <4> QED
        BY <1>1, <4>1, <4>2
    <3> HIDE DEF run, nodes
    <3> QED
      BY <3>1 DEF U!Pending, U!MatchesPort
  <2>2. s5[n] = LastOf(s1.edges, live)
    BY <1>2, <1>3, Zenon DEF U!CollectInputs, LastOf
  <2> QED
    BY <2>1, <2>2
<1>4. U!TestCoversRun
  <2>1. SUFFICES ASSUME s8 = "ok", U!Answered = nodes, NEW n \in run
                 PROVE  n \in DOMAIN s5 /\ s5[n] = U!Given(n, run)
    BY DEF U!TestCoversRun
  <2>2. n \in nodes /\ DOMAIN s5 = nodes /\ s5[n] = U!CollectInputs(n, nodes) /\ U!IsNodeReady(n, run)
    BY <1>1, <1>2, <2>1
  <2>3. CASE n \in s1.entries
    BY <2>2, <2>3 DEF U!CollectInputs, U!Given
  <2>4. CASE n \notin s1.entries
    <3>1. U!Predecessors(n) \subseteq run
      BY <2>2, <2>4 DEF U!IsNodeReady
    <3> HIDE DEF run
    <3> QED
      BY <1>3, <2>1, <2>2, <2>4, <3>1, GivenIs
  <2> QED
    BY <2>3, <2>4
<1>5. U!ExtraHasNoInput
  <2>1. SUFFICES ASSUME s8 = "ok", U!Answered = nodes, NEW n \in DOMAIN s5 \ run,
                        ~\E m \in U!Predecessors(n) : m \in DOMAIN s5 \ run
                 PROVE  s5[n] = <<>>
    BY DEF U!ExtraHasNoInput
  <2>2. n \in nodes /\ U!Predecessors(n) \subseteq run /\ ~U!IsNodeReady(n, run)
    BY <1>1, <1>2, <2>1
  <2>3. n \notin s1.entries /\ U!Pending(n, run) = {}
    BY <2>2 DEF U!IsNodeReady
  <2>4. LastOf(s1.edges, {}) = <<>>
    BY EmptyIs DEF LastOf
  <2> HIDE DEF run
  <2> QED
    BY <1>3, <2>1, <2>2, <2>3, <2>4
<1>6. U!LogTellsVerdict
  <2>1. s8 \in {"ok", "error"} =>
          U!Last(s7) = IF s8 = "ok" THEN [type |-> "TraceComplete"] ELSE [type |-> "NodeError", node |-> s3[s4]]
    BY DEF RunnerStages
  <2>2. s8 = "ok" => U!ToSet(s6) = nodes
    <3>1. SUFFICES ASSUME s8 = "ok" PROVE U!ToSet(s6) = nodes
      OBVIOUS
    <3>2. RanUpTo(size) /\ s3 \in U!TopologicalSorts
      BY <3>1 DEF RunnerStages
    <3>3. DOMAIN s6 = 1 .. size /\ \A i \in 1 .. size : s6[i] = s3[i]
      BY <3>2 DEF RanUpTo
    <3>4. {s3[i] : i \in 1 .. size} = nodes
      BY <3>2, SortIs
    <3> QED
      BY <3>3, <3>4 DEF U!ToSet
  <2>3. s8 \in {"refused", "building"} => s7 = <<>>
    BY DEF RunnerStages
  <2>4. s6 = [i \in 1 .. Len(s6) |-> s3[i]]
    <3>1. CASE s8 \in {"building", "refused"}
      <4>1. s6 = <<>> /\ Len(<<>>) = 0 /\ 1 .. 0 = {}
        BY <3>1 DEF RunnerStages
      <4> DEFINE f == [i \in 1 .. Len(s6) |-> s3[i]]
      <4>2. f = <<>>
        BY <4>1, EmptyIs
      <4> QED
        BY <4>1, <4>2
    <3>2. CASE s8 \notin {"building", "refused"}
      <4>1. PICK m : RanUpTo(m)
        BY <3>2 DEF RunnerStages
      <4>2. s6 \in Seq(nodes) /\ \A i \in 1 .. Len(s6) : s6[i] = s3[i]
        BY <4>1 DEF RanUpTo
      <4> QED
        BY <4>2
    <3> QED
      BY <3>1, <3>2
  <2> QED
    BY <2>1, <2>2, <2>3, <2>4 DEF U!LogTellsVerdict
<1> QED
  BY <1>4, <1>5, <1>6 DEF U!RunnerAgrees

-----------------------------------------------------------------------------
(* However many tasks sleep and advance the clock, none that waits past its *)
(* time is forgotten, unless it missed the change of the time or its waker  *)
(* was replaced, as the source allows; whatever paths, contents and rules   *)
(* the mocks are given, the files are a tree that lists what it has, and    *)
(* the requests are answered by the first rule that is not used up, in      *)
(* their order unless calls crossed; and the runner runs every node that    *)
(* the executor would, with the same inputs, and its log ends as its        *)
(* verdict does.                                                            *)
THEOREM TestsAreTelling == Spec => []TestsTell
<1>1. ClockInv /\ MocksInv /\ RunnerInv => TestsTell
  BY ClockTells, MocksTell, RunnerTells DEF ClockInv, MocksInv, RunnerInv, TestsTell
<1> QED
  BY ClockStarts, ClockStep, MocksStart, MocksStep, RunnerStarts, RunnerStep, <1>1, PTL DEF Spec
=============================================================================
