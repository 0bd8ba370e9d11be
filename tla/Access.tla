------------------------------- MODULE Access -------------------------------
(***************************************************************************)
(* Who may do what over HTTP: authentication by API key (xerv-core auth/)  *)
(* and the routes of the API with the scope each requires (xerv-executor   *)
(* api/router.rs).  A path is the sequence of its segments after the       *)
(* prefix /api/v1; a path that ends in a slash has an empty last segment.  *)
(***************************************************************************)
EXTENDS Naturals, FiniteSets, FiniteSetsExt, Functions, Sequences

CONSTANTS
  AuthConfigs,    \* [enabled, api_key, keys, exempt]
  Calls,          \* [method, path, key], the key may be NoKey
  NoKey,
  MaxHour         \* bound: the clock

VARIABLES
  config,         \* the AuthConfig, which does not change
  call,           \* the request
  hour,           \* the clock, in seconds
  context,        \* what authenticate returned: [ok, identity, scopes, at]
  reply           \* [status, handler]

vars == <<config, call, hour, context, reply>>

\* Keys are kept by their hashes, and no key has the hash of none.
AccessConstants ==
  /\ \A c \in AuthConfigs :
       /\ c.keys \in Seq(Range(c.keys))
       /\ \A e \in Range(c.keys) : e.key # NoKey /\ ("expires_at" \in DOMAIN e => e.expires_at \in Nat)
  /\ \A r \in Calls : r.path \in Seq(Range(r.path))

Scopes == {"PipelineRead", "PipelineWrite", "TraceRead", "TraceWrite", "TraceResume", "Admin"}
NoContext == [ok |-> FALSE, identity |-> "", scopes |-> {}, at |-> 0]
NoReply == [status |-> 0, handler |-> "none"]

Init ==
  /\ config \in AuthConfigs /\ call \in Calls
  /\ hour = 0 /\ context = NoContext /\ reply = NoReply

-----------------------------------------------------------------------------
(* Authentication.                                                          *)
\* An entry has no expires_at if it never expires.
IsExpired(entry) == "expires_at" \in DOMAIN entry /\ hour >= entry.expires_at

\* Mutant: a key that has expired still counts.
ValidateForever(keys, key) ==
  LET same == {i \in DOMAIN keys : keys[i].key = key} IN
  IF same = {} THEN NoContext
  ELSE [ok |-> TRUE, identity |-> keys[Min(same)].identity, scopes |-> keys[Min(same)].scopes, at |-> hour]

\* Of the entries with the key's hash the first decides.
Validate(keys, key) ==
  LET same == {i \in DOMAIN keys : keys[i].key = key} IN
  IF same = {} \/ IsExpired(keys[Min(same)]) THEN NoContext
  ELSE [ok |-> TRUE, identity |-> keys[Min(same)].identity, scopes |-> keys[Min(same)].scopes, at |-> hour]

\* Slashes at the end do not count.
Trimmed(path) == LET named == {0} \cup {i \in DOMAIN path : path[i] # ""} IN SubSeq(path, 1, Max(named))
StartsWith(path, e) == Len(e) <= Len(path) /\ SubSeq(path, 1, Len(e)) = e
IsPathExempt(path) == \E e \in config.exempt : StartsWith(Trimmed(path), Trimmed(e))

Anonymous(scopes) == [ok |-> TRUE, identity |-> "anonymous", scopes |-> scopes, at |-> hour]
Authenticate(path, key) ==
  IF ~config.enabled THEN Anonymous(Scopes)
  ELSE IF IsPathExempt(path) THEN Anonymous({})
  ELSE IF config.api_key /\ key # NoKey THEN Validate(config.keys, key)
  ELSE NoContext

HasScope(c, scope) == "Admin" \in c.scopes \/ scope \in c.scopes

-----------------------------------------------------------------------------
(* Routes.  A route is [scope, handler] or [status].                        *)
To(scope, handler) == [scope |-> scope, handler |-> handler]
Status(s) == [status |-> s]

\* The handlers that need no scope.
Open == [health |-> "get_health", status |-> "get_status", metrics |-> "get_metrics",
         capabilities |-> "capabilities"]

Actions(method, rest, gets, posts) ==
  IF method = "GET" /\ Len(rest) = 1 /\ rest[1] \in DOMAIN gets THEN gets[rest[1]]
  ELSE IF method = "POST" /\ Len(rest) = 1 /\ rest[1] \in DOMAIN posts THEN posts[rest[1]]
  ELSE Status(404)

\* A subpath that begins with the text "triggers" counts as one; what is left
\* of a longer first segment is the trigger's id.
TriggerPath(rest) ==
  IF rest[1] = "triggers" THEN Tail(rest) ELSE <<"x">> \o Tail(rest)
RouteTriggerSubpath(method, rest) ==
  LET path == TriggerPath(rest) IN
  IF path \in {<<>>, <<"">>}
  THEN IF method = "GET" THEN To("PipelineRead", "triggers::list") ELSE Status(405)
  ELSE IF path[1] = "" THEN Status(404)
  ELSE Actions(method, Tail(path), <<>>,
               [fire |-> To("TraceWrite", "triggers::fire"), pause |-> To("PipelineWrite", "triggers::pause"),
                resume |-> To("PipelineWrite", "triggers::resume")])

RoutePipelineSubpath(method, path) ==
  LET rest == Tail(path) IN
  IF path[1] = "" THEN Status(404)
  ELSE IF rest = <<>>
       THEN CASE method = "GET" -> To("PipelineRead", "pipelines::get")
              [] method = "PUT" -> To("PipelineWrite", "pipelines::update")
              [] method = "DELETE" -> To("PipelineWrite", "pipelines::delete")
              [] OTHER -> Status(404)
  ELSE IF method = "POST" /\ rest = <<"deploy", "validate">> THEN To("PipelineWrite", "pipelines::validate_deploy")
  ELSE IF rest[1] \in {"triggers", "triggersx"} THEN RouteTriggerSubpath(method, rest)
  ELSE Actions(method, rest,
         [metrics |-> To("PipelineRead", "pipelines::metrics"), traces |-> To("TraceRead", "traces::list_by_pipeline"),
          suspensions |-> To("TraceRead", "resume::list_by_pipeline")],
         [start |-> To("PipelineWrite", "pipelines::start"), pause |-> To("PipelineWrite", "pipelines::pause"),
          resume |-> To("PipelineWrite", "pipelines::resume"), drain |-> To("PipelineWrite", "pipelines::drain"),
          stop |-> To("PipelineWrite", "pipelines::stop")])

RouteTraceSubpath(method, path) ==
  LET rest == Tail(path) IN
  IF path[1] = "" THEN Status(404)
  ELSE IF rest = <<>> /\ method = "GET" THEN To("TraceRead", "traces::get")
  ELSE LET to == Actions(method, rest,
                   [stream |-> To("TraceRead", "traces::stream"), logs |-> To("TraceRead", "traces::logs_by_trace")],
                   [suspend |-> To("TraceWrite", "traces::suspend"), resume |-> To("TraceResume", "traces::resume"),
                    cancel |-> To("TraceWrite", "traces::cancel")])
       IN IF to = Status(404) THEN Status(405) ELSE to

\* Any method will do; the scope is asked for even if nothing is there.
RouteLogSubpath(path) ==
  IF path = <<"">> THEN Status(404)
  ELSE IF Len(path) > 1 /\ path[1] = "by-trace" /\ Tail(path) # <<"">> THEN To("TraceRead", "logs::by_trace")
  ELSE IF Len(path) > 1 /\ path[1] = "by-level" /\ Tail(path) # <<"">> THEN To("TraceRead", "logs::by_level")
  ELSE To("TraceRead", "not_found")

RouteResumeSubpath(method, path) ==
  CASE path = <<"">> -> Status(404)
    [] path # <<"">> /\ method = "GET" -> To("TraceRead", "resume::get")
    [] path # <<"">> /\ method = "POST" -> To("TraceResume", "resume::resume")
    [] OTHER -> Status(405)

Fixed ==
  << <<"GET", <<"pipelines">>, To("PipelineRead", "pipelines::list")>>,
     <<"POST", <<"pipelines">>, To("PipelineWrite", "pipelines::create")>>,
     <<"POST", <<"pipelines", "validate">>, To("PipelineWrite", "pipelines::validate")>>,
     <<"GET", <<"traces">>, To("TraceRead", "traces::list")>>,
     <<"POST", <<"traces">>, To("TraceWrite", "traces::create")>>,
     <<"GET", <<"logs">>, To("TraceRead", "logs::query")>>,
     <<"GET", <<"logs", "recent">>, To("TraceRead", "logs::recent")>>,
     <<"GET", <<"logs", "stats">>, To("TraceRead", "logs::stats")>>,
     <<"DELETE", <<"logs">>, To("Admin", "logs::clear")>>,
     <<"GET", <<"suspensions">>, To("TraceRead", "resume::list")>> >>

Route(method, path) ==
  LET fixed == {i \in DOMAIN Fixed : Fixed[i][1] = method /\ Fixed[i][2] = path}
      below(root) == Len(path) > 1 /\ path[1] = root
  IN  IF method = "GET" /\ Len(path) = 1 /\ path[1] \in DOMAIN Open THEN [handler |-> Open[path[1]]]
      ELSE IF method = "GET" /\ path = <<"nodes", "metadata">> THEN [handler |-> "nodes::metadata"]
      ELSE IF fixed # {} THEN Fixed[Min(fixed)][3]
      ELSE IF below("pipelines") THEN RoutePipelineSubpath(method, Tail(path))
      ELSE IF below("traces") THEN RouteTraceSubpath(method, Tail(path))
      ELSE IF below("logs") THEN RouteLogSubpath(Tail(path))
      ELSE IF below("resume") THEN RouteResumeSubpath(method, Tail(path))
      ELSE Status(404)

-----------------------------------------------------------------------------
Tick == hour < MaxHour /\ reply = NoReply /\ hour' = hour + 1 /\ UNCHANGED <<config, call, context, reply>>

Enter ==
  /\ context = NoContext /\ reply = NoReply
  /\ IF call.method = "OPTIONS" THEN reply' = [status |-> 204, handler |-> "preflight"] /\ UNCHANGED context
     ELSE /\ context' = Authenticate(call.path, call.key)
          /\ reply' = IF context'.ok THEN NoReply ELSE [status |-> 401, handler |-> "none"]
  /\ UNCHANGED <<config, call, hour>>

\* The scope is checked after the route is known, and the key's time is not
\* looked at again.
Handle ==
  LET to == Route(call.method, call.path) IN
  /\ context.ok /\ reply = NoReply
  /\ reply' = IF "status" \in DOMAIN to THEN [status |-> to.status, handler |-> "none"]
              ELSE IF "scope" \in DOMAIN to /\ ~HasScope(context, to.scope) THEN [status |-> 403, handler |-> "none"]
              ELSE [status |-> 200, handler |-> to.handler]
  /\ UNCHANGED <<config, call, hour, context>>

Next == Tick \/ Enter \/ Handle
Spec == Init /\ [][Next]_vars

-----------------------------------------------------------------------------
\* By what they do: handlers that change, and by whom they may be called.
Changing == [PipelineWrite |-> {"pipelines::create", "pipelines::update", "pipelines::delete", "pipelines::start",
                                "pipelines::pause", "pipelines::resume", "pipelines::drain", "pipelines::stop",
                                "triggers::pause", "triggers::resume"},
             TraceWrite |-> {"traces::create", "traces::suspend", "traces::cancel", "triggers::fire"},
             TraceResume |-> {"traces::resume", "resume::resume"},
             Admin |-> {"logs::clear"}]
Public == {"get_health", "get_status", "get_metrics", "capabilities", "nodes::metadata", "not_found", "none", "preflight"}

\* The keys that were good when the request was authenticated.
Holder == {e \in Range(config.keys) : e.key = call.key /\ ("expires_at" \in DOMAIN e => context.at < e.expires_at)}

(* Nothing is changed by a caller whose key was not good, or has not the    *)
(* scope for that kind of change or Admin; nor read, but for what is        *)
(* public; nor anything at all behind an exempt path.                       *)
OnlyTheAllowed ==
  config.enabled /\ reply.handler \notin Public =>
    /\ config.api_key
    /\ \E e \in Holder :
         /\ e.scopes # {}
         /\ \A s \in DOMAIN Changing : reply.handler \in Changing[s] => e.scopes \cap {s, "Admin"} # {}

(* Who may is not refused: a caller with a good key that no other entry     *)
(* repeats and all scopes is answered 401 or 403 only for a path that is    *)
(* exempt, where the key is not looked at; and without authentication       *)
(* nobody is refused.                                                       *)
TheAllowedPass ==
  reply.status \in {401, 403} =>
    /\ config.enabled
    /\ ~IsPathExempt(call.path) /\ config.api_key =>
         \A e \in Range(config.keys) :
           e.key = call.key /\ "Admin" \in e.scopes /\ Cardinality({i \in DOMAIN config.keys : config.keys[i].key = e.key}) = 1
             => "expires_at" \in DOMAIN e /\ hour >= e.expires_at

(* Every handler has its one place: with a slash at the end, or with more   *)
(* segments than the route has, a path does not lead to a change.  Only a   *)
(* hook may be anything: what follows /resume/ is taken for its id.         *)
NoSloppyChange ==
  reply.handler \in UNION {Changing[s] : s \in DOMAIN Changing} =>
    call.path[1] = "resume" \/ (call.path[Len(call.path)] # "" /\ Len(call.path) <= 5)

(* Access: callers get what they may, and nothing else.                     *)
AccessRight == OnlyTheAllowed /\ TheAllowedPass /\ NoSloppyChange
=============================================================================
