----------------------------- MODULE MockWorld -----------------------------
(***************************************************************************)
(* The file system and the HTTP client of a test (xerv-core                *)
(* testing/providers/fs.rs and http.rs), used by several nodes at the same *)
(* time.  MockFs keeps files and directories under two locks, MockHttp its *)
(* rules and the requests under two.  A path is the sequence of its        *)
(* components, Root first unless it is relative.                           *)
(***************************************************************************)
EXTENDS Integers, FiniteSets, FiniteSetsExt, Sequences, SequencesExt, TLC

CONSTANTS
  Users,          \* tasks that use the mocks
  Root, Up, Here, \* the components "/", ".." and "."
  FsPaths,        \* paths as they are given
  Data,           \* what is written
  Rules,          \* sets of rules: sequences of [method, urls, times], times < 0 is no limit
  Sent,           \* requests: [method, url]
  Fallback,       \* fail_on_unmatched, as the answer it gives
  MaxUses         \* bound: calls

VARIABLES
  files,          \* path -> contents
  dirs,           \* paths
  rules,          \* [rule, matched_count]
  requests,       \* those recorded
  using,          \* per task: [op, path, data], between two locks
  uses,           \* the calls so far
  answered,       \* ghost: [request, by], in the order of the rules' lock
  crossed         \* ghost: a call began while another was between its locks

vars == <<files, dirs, rules, requests, using, uses, answered, crossed>>

MockConstants ==
  /\ IsFiniteSet(Users) /\ Root \notin {Up, Here}
  /\ \A p \in FsPaths : p \in Seq(Range(p))
  /\ \A r \in Rules : r \in Seq(Range(r)) /\ \A i \in DOMAIN r : r[i].times \in Int

Idle == [op |-> "none", path |-> <<>>, data |-> <<>>]

Init ==
  /\ files = <<>> /\ dirs = {<<Root>>}
  /\ rules \in {[i \in DOMAIN r |-> [rule |-> r[i], matched_count |-> 0]] : r \in Rules}
  /\ requests = <<>> /\ answered = <<>>
  /\ using = [u \in Users |-> Idle] /\ uses = 0 /\ crossed = FALSE

-----------------------------------------------------------------------------
(* Paths.                                                                   *)
\* PathBuf::parent, of what has one.
Parent(path) == SubSeq(path, 1, Len(path) - 1)
HasParent(path) == path # <<>> /\ path # <<Root>>

\* pop does nothing on the root and on the empty path.
Joined(p, c) ==
  CASE c = Up -> IF HasParent(p) THEN Parent(p) ELSE p
    [] c = Here -> p
    [] OTHER -> Append(p, c)

NormalizePath(path) ==
  LET normalized[k \in 0 .. Len(path)] == IF k = 0 THEN <<>> ELSE Joined(normalized[k - 1], path[k])
  IN normalized[Len(path)]

-----------------------------------------------------------------------------
Begin == uses < MaxUses /\ uses' = uses + 1 /\ crossed' = (crossed \/ \E v \in Users : using[v] # Idle)
Unlock(u) == using' = [using EXCEPT ![u] = Idle] /\ UNCHANGED <<uses, crossed>>
web == <<rules, requests, answered>>

(* MockFs.                                                                  *)
\* write: the parent is looked up, and the lock released.
Write(u, path, data) ==
  LET p == NormalizePath(path) IN
  /\ using[u] = Idle /\ Begin
  /\ ~HasParent(p) \/ Parent(p) = <<>> \/ Parent(p) \in dirs
  /\ using' = [using EXCEPT ![u] = [op |-> "write", path |-> p, data |-> data]]
  /\ UNCHANGED <<files, dirs, web>>

WriteInsert(u) ==
  /\ using[u].op = "write"
  /\ files' = [p \in DOMAIN files \cup {using[u].path} |-> IF p = using[u].path THEN using[u].data ELSE files[p]]
  /\ Unlock(u) /\ UNCHANGED <<dirs, web>>

\* ensure_parent_dirs, of the path itself as well
CreateDirAll(u, path) ==
  /\ using[u] = Idle /\ Begin /\ dirs' = dirs \cup (Prefixes(NormalizePath(path)) \ {<<>>})
  /\ UNCHANGED <<files, using, web>>

RemoveFile(u, path) ==
  /\ using[u] = Idle /\ Begin /\ NormalizePath(path) \in DOMAIN files
  /\ files' = [p \in DOMAIN files \ {NormalizePath(path)} |-> files[p]]
  /\ UNCHANGED <<dirs, using, web>>

\* remove_dir_all: the files under it, then the directories.
RemoveDirAll(u, path) ==
  LET p == NormalizePath(path) IN
  /\ using[u] = Idle /\ Begin
  /\ files' = [f \in {g \in DOMAIN files : ~IsPrefix(p, g)} |-> files[f]]
  /\ using' = [using EXCEPT ![u] = [op |-> "remove", path |-> p, data |-> <<>>]]
  /\ UNCHANGED <<dirs, web>>

RemoveDirs(u) ==
  /\ using[u].op = "remove"
  /\ dirs' = {d \in dirs : ~IsPrefix(using[u].path, d)}
  /\ Unlock(u) /\ UNCHANGED <<files, web>>

Clear(u) ==
  /\ using[u] = Idle /\ Begin /\ files' = <<>> /\ dirs' = {<<Root>>}
  /\ UNCHANGED <<using, web>>

\* What read, exists, metadata and read_dir tell.
Exists(path) == NormalizePath(path) \in DOMAIN files \cup dirs
Metadata(path) ==
  LET p == NormalizePath(path) IN
  CASE p \in DOMAIN files -> "file"
    [] p \in dirs \ DOMAIN files -> "dir"
    [] OTHER -> "NotFound"
ReadDir(path) ==
  LET p == NormalizePath(path) IN {q \in DOMAIN files \cup dirs : HasParent(q) /\ Parent(q) = p /\ q # p}

-----------------------------------------------------------------------------
(* MockHttp.                                                                *)
\* Mutant: a rule matches once more than it should.
MatchesOnceMore(r, request) ==
  /\ r.rule.method \in {"any", request.method}
  /\ r.rule.times < 0 \/ r.matched_count <= r.rule.times
  /\ request.url \in r.rule.urls

Matches(r, request) ==
  /\ r.rule.method \in {"any", request.method}
  /\ r.rule.times < 0 \/ r.matched_count < r.rule.times
  /\ request.url \in r.rule.urls

\* request: it is recorded, and the lock released.
Request(u, request) ==
  /\ using[u] = Idle /\ Begin /\ requests' = Append(requests, request)
  /\ using' = [using EXCEPT ![u] = [op |-> "request", path |-> <<>>, data |-> request]]
  /\ UNCHANGED <<files, dirs, rules, answered>>

Respond(u) ==
  LET request == using[u].data
      matching == {i \in DOMAIN rules : Matches(rules[i], request)}
  IN
  /\ using[u].op = "request"
  /\ IF matching = {}
     THEN answered' = Append(answered, [request |-> request, by |-> Fallback]) /\ UNCHANGED rules
     ELSE /\ answered' = Append(answered, [request |-> request, by |-> ToString(Min(matching))])
          /\ rules' = [rules EXCEPT ![Min(matching)].matched_count = @ + 1]
  /\ Unlock(u) /\ UNCHANGED <<files, dirs, requests>>

Next ==
  \E u \in Users :
    \/ \E p \in FsPaths : \/ \E d \in Data : Write(u, p, d)
                          \/ CreateDirAll(u, p) \/ RemoveFile(u, p) \/ RemoveDirAll(u, p)
    \/ WriteInsert(u) \/ RemoveDirs(u) \/ Clear(u)
    \/ \E r \in Sent : Request(u, r)
    \/ Respond(u)

Spec == Init /\ [][Next]_vars

-----------------------------------------------------------------------------
Quiet == \A u \in Users : using[u] = Idle
Everything == DOMAIN files \cup dirs

(* A tree: unless calls crossed, what exists has a parent that is a         *)
(* directory; the root may be removed, but then nothing is left below it.   *)
IsTree ==
  Quiet /\ ~crossed =>
    \A p \in Everything : HasParent(p) /\ Parent(p) # <<>> => Parent(p) \in dirs

(* Whatever crossed, ".." and "." never get into the tree, what a directory *)
(* lists exists, and what exists under a directory is listed by it.         *)
ListsAgree ==
  /\ \A p \in Everything : Range(p) \cap {Up, Here} = {} /\ Exists(p)
  /\ \A d \in dirs, p \in FsPaths :
       NormalizePath(p) \in ReadDir(d) => Exists(p) /\ Metadata(p) # "NotFound" /\ Parent(NormalizePath(p)) = d
  /\ \A p \in Everything : HasParent(p) => p \in ReadDir(Parent(p))

\* The answers that rules give to requests one after another.
Reply(given, s, request) ==
  LET fit == {i \in DOMAIN given : /\ given[i].method \in {"any", request.method}
                                   /\ request.url \in given[i].urls
                                   /\ given[i].times < 0 \/ s.used[i] < given[i].times}
  IN [used |-> [i \in DOMAIN given |-> IF fit # {} /\ i = Min(fit) THEN s.used[i] + 1 ELSE s.used[i]],
      by |-> Append(s.by, IF fit = {} THEN Fallback ELSE ToString(Min(fit)))]
Unasked(given) == [used |-> [i \in DOMAIN given |-> 0], by |-> <<>>]
Replay(given, sent) ==
  LET replies[k \in 0 .. Len(sent)] == IF k = 0 THEN Unasked(given) ELSE Reply(given, replies[k - 1], sent[k])
  IN replies[Len(sent)]
Given == [i \in DOMAIN rules |-> rules[i].rule]

(* Requests are answered by the first rule that is not used up, in the      *)
(* order in which they were recorded unless calls crossed; each is recorded *)
(* once, and a rule is used as often as it says at most.                    *)
AnswersInOrder ==
  /\ Quiet => /\ Len(requests) = Len(answered)
              /\ ~crossed => [i \in DOMAIN answered |-> answered[i].by] = Replay(Given, requests).by
  /\ Replay(Given, [i \in DOMAIN answered |-> answered[i].request]).used = [i \in DOMAIN rules |-> rules[i].matched_count]
  /\ \A i \in DOMAIN rules : rules[i].rule.times < 0 \/ rules[i].matched_count <= rules[i].rule.times

(* The mocks behave as what they stand for.                                 *)
MocksBehave == IsTree /\ ListsAgree /\ AnswersInOrder
=============================================================================
