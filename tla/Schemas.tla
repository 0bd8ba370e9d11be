------------------------------ MODULE Schemas ------------------------------
(***************************************************************************)
(* The versioned registry of schemas (xerv-core schema/registry/): what it *)
(* answers, and the file that processes keep it in.  A process that        *)
(* persists opens the temporary file, truncates it, waits for the lock on  *)
(* it, writes, and renames it; a lock and what is written belong to the    *)
(* file that was opened, whatever its name is by then.                     *)
(***************************************************************************)
EXTENDS Naturals, FiniteSets, Sequences, SequencesExt

CONSTANTS
  Processes,
  Infos,          \* [family, version, minor, hash]; the first three name a schema
  MaxSchemas,     \* bound: schemas of a process
  MaxPersists     \* bound: files that are ever opened for writing

VARIABLES
  schemas,        \* per process: name -> info
  by_hash,        \* per process: hash -> name
  versions,       \* per process: family -> sequence of [version, hash]
  replaced,       \* per process: names that were registered with two hashes
  live, temp,     \* the file each path names; 0 is none
  content,        \* per file: the infos in it, or Garbage, or Truncated
  persisting,     \* per process: [pc, file, data]
  raced           \* two have persisted at the same time

vars == <<schemas, by_hash, versions, replaced, live, temp, content, persisting, raced>>

\* Garbage and a truncated file are no infos.
SchemasConstants ==
  \A i \in Infos : i.version \in Nat /\ i.family \notin {"garbage", "truncated"}

NameOf(i) == <<i.family, i.version, i.minor>>
Families == {i.family : i \in Infos}
NoInfo(why) == {[family |-> why, version |-> 0, minor |-> 0, hash |-> 0]}
Garbage == NoInfo("garbage")
Truncated == NoInfo("truncated")
Length(c) == IF c = Truncated THEN 0 ELSE 1 + Cardinality(c)   \* in whole infos
Idle == [pc |-> "idle", file |-> 0, data |-> {}]

Init ==
  /\ schemas = [p \in Processes |-> <<>>] /\ by_hash = [p \in Processes |-> <<>>]
  /\ versions = [p \in Processes |-> [f \in Families |-> <<>>]]
  /\ replaced = [p \in Processes |-> {}]
  /\ live = 0 /\ temp = 0 /\ content = <<>> /\ raced = FALSE
  /\ persisting = [p \in Processes |-> Idle]

-----------------------------------------------------------------------------
(* The registry.  The minor version of a schema is only in its name.        *)
Entry(i) == [version |-> i.version, hash |-> i.hash]

\* Mutant: the history is not sorted.
WithVersionUnsorted(history, i) ==
  IF \E k \in DOMAIN history : history[k].version = i.version THEN history ELSE Append(history, Entry(i))

\* sort_by_key, of versions that differ.
Sorted(history) ==
  CHOOSE s \in [DOMAIN history -> ToSet(history)] :
    ToSet(s) = ToSet(history) /\ \A j, k \in DOMAIN s : j < k => s[j].version < s[k].version

WithVersion(history, i) ==
  IF \E k \in DOMAIN history : history[k].version = i.version THEN history
  ELSE Sorted(Append(history, Entry(i)))

With(f, key, v) == [x \in DOMAIN f \cup {key} |-> IF x = key THEN v ELSE f[x]]
Empty == [schemas |-> <<>>, by_hash |-> <<>>, versions |-> [f \in Families |-> <<>>]]
Registered(r, i) ==
  [schemas |-> With(r.schemas, NameOf(i), i),
   by_hash |-> With(r.by_hash, i.hash, NameOf(i)),
   versions |-> [r.versions EXCEPT ![i.family] = WithVersion(@, i)]]

Registry(p) == [schemas |-> schemas[p], by_hash |-> by_hash[p], versions |-> versions[p]]
Become(p, r) ==
  /\ schemas' = [schemas EXCEPT ![p] = r.schemas]
  /\ by_hash' = [by_hash EXCEPT ![p] = r.by_hash]
  /\ versions' = [versions EXCEPT ![p] = r.versions]
KeepFiles == UNCHANGED <<live, temp, content, persisting, raced>>

\* register and register_versioned.  persist holds read locks all the while.
Register(p, i) ==
  /\ persisting[p] = Idle /\ Cardinality(DOMAIN schemas[p] \cup {NameOf(i)}) <= MaxSchemas
  /\ Become(p, Registered(Registry(p), i))
  /\ replaced' = [replaced EXCEPT ![p] = IF NameOf(i) \in DOMAIN schemas[p] /\ schemas[p][NameOf(i)].hash # i.hash
                                        THEN @ \cup {NameOf(i)} ELSE @]
  /\ KeepFiles

ClearAll(p) ==
  /\ persisting[p] = Idle /\ Become(p, Empty) /\ replaced' = [replaced EXCEPT ![p] = {}] /\ KeepFiles

\* get, get_by_hash, get_versions, get_latest: the set of the answer, or none.
Get(r, name) == IF name \in DOMAIN r.schemas THEN {r.schemas[name]} ELSE {}
GetByHash(r, h) == IF h \in DOMAIN r.by_hash THEN Get(r, r.by_hash[h]) ELSE {}
GetVersions(r, f) == [k \in DOMAIN r.versions[f] |-> r.versions[f][k].version]
GetLatest(r, f) ==
  IF r.versions[f] = <<>> THEN {} ELSE Get(r, <<f, r.versions[f][Len(r.versions[f])].version, 0>>)

-----------------------------------------------------------------------------
(* The file.                                                                *)
KeepRegistry == UNCHANGED <<schemas, by_hash, versions, replaced>>
Locked(file) == \E p \in Processes : persisting[p].pc \in {"write", "rename"} /\ persisting[p].file = file

\* A new file, or what is at the temporary path, which is truncated.
OpenTemp(p) ==
  LET file == IF temp = 0 THEN Len(content) + 1 ELSE temp IN
  /\ persisting[p] = Idle /\ file <= MaxPersists
  /\ temp' = file
  /\ content' = IF temp = 0 THEN Append(content, Truncated) ELSE [content EXCEPT ![file] = Truncated]
  /\ persisting' = [persisting EXCEPT ![p] = [pc |-> "lock", file |-> file, data |-> Range(schemas[p])]]
  /\ raced' = (raced \/ \E q \in Processes \ {p} : persisting[q] # Idle)
  /\ KeepRegistry /\ UNCHANGED live

LockTemp(p) ==
  /\ persisting[p].pc = "lock" /\ ~Locked(persisting[p].file)
  /\ persisting' = [persisting EXCEPT ![p].pc = "write"]
  /\ KeepRegistry /\ UNCHANGED <<live, temp, content, raced>>

\* From the start of the file: of a longer content the end stays.
WriteTemp(p) ==
  LET file == persisting[p].file
      new == persisting[p].data
      old == content[file]
  IN  /\ persisting[p].pc = "write"
      /\ \E c \in {new, Garbage} :
           /\ c = new => Length(old) <= Length(new)
           /\ c = Garbage => Length(old) >= Length(new) /\ old # new
           /\ content' = [content EXCEPT ![file] = c]
      /\ persisting' = [persisting EXCEPT ![p].pc = "rename"]
      /\ KeepRegistry /\ UNCHANGED <<live, temp, raced>>

\* rename moves whatever the temporary path names by now; it fails if that is nothing.
RenameTemp(p) ==
  /\ persisting[p].pc = "rename" /\ persisting' = [persisting EXCEPT ![p] = Idle]
  /\ \/ temp # 0 /\ live' = temp /\ temp' = 0
     \/ temp = 0 /\ UNCHANGED <<live, temp>>
  /\ KeepRegistry /\ UNCHANGED <<content, raced>>

\* One that stops while it writes leaves part of it.
Crash(p) ==
  /\ persisting[p] # Idle /\ persisting' = [persisting EXCEPT ![p] = Idle]
  /\ Become(p, Empty) /\ replaced' = [replaced EXCEPT ![p] = {}]
  /\ \/ UNCHANGED content
     \/ persisting[p].pc = "write" /\ content' = [content EXCEPT ![persisting[p].file] = Garbage]
  /\ UNCHANGED <<live, temp, raced>>

\* load: what was stored is registered again, in any order.
Whole(c) == c \subseteq Infos
Loaded(order) ==
  LET loaded[n \in 0 .. Len(order)] == IF n = 0 THEN Empty ELSE Registered(loaded[n - 1], order[n])
  IN loaded[Len(order)]
Load(p) ==
  /\ persisting[p] = Idle /\ live # 0 /\ ~Locked(live) /\ schemas[p] = <<>>
  /\ Whole(content[live])
  /\ \E order \in SetToSeqs(content[live]) : Become(p, Loaded(order))
  /\ UNCHANGED replaced /\ KeepFiles

\* Bound: no new calls once two have persisted at the same time.
Next ==
  \E p \in Processes :
    \/ ~raced /\ ((\E i \in Infos : Register(p, i)) \/ ClearAll(p) \/ OpenTemp(p) \/ Load(p))
    \/ LockTemp(p) \/ WriteTemp(p) \/ RenameTemp(p) \/ Crash(p)

Spec == Init /\ [][Next]_vars

-----------------------------------------------------------------------------
(* Who opens the registry's file finds all that some process stored, also   *)
(* after crashes, unless two processes persisted at the same time: then one *)
(* truncates what the other has written, or writes into the live file.      *)
FileWhole == ~raced /\ live # 0 => Whole(content[live])

(* The registry that is loaded from what a process would store answers as   *)
(* the process's own does, whatever the order in the file.                  *)
LoadedAgrees ==
  \A p \in Processes : \A order \in SetToSeqs(Range(schemas[p])) :
    /\ Loaded(order).schemas = schemas[p]
    /\ \A f \in Families : /\ GetVersions(Loaded(order), f) = GetVersions(Registry(p), f)
                           /\ GetLatest(Loaded(order), f) = GetLatest(Registry(p), f)

(* The latest schema of a family is the one with the highest version, if no *)
(* minor versions are used.                                                 *)
LatestRight ==
  \A p \in Processes, f \in Families :
    LET known == {i \in Range(schemas[p]) : i.family = f} IN
    known # {} /\ (\A i \in known : i.minor = 0) =>
      GetLatest(Registry(p), f) = {i \in known : \A j \in known : j.version <= i.version}

(* A hash, such as the log has for replay, leads to a schema with that hash *)
(* or to none, unless the schema's name was registered with another hash.   *)
HashesRight ==
  \A p \in Processes : \A h \in DOMAIN by_hash[p] :
    LET found == GetByHash(Registry(p), h) IN
    found # {} /\ \A i \in found : i.hash = h \/ NameOf(i) \in replaced[p]

(* The registry: its file, and its answers.                                 *)
SchemasKept == FileWhole /\ LoadedAgrees /\ LatestRight /\ HashesRight
=============================================================================
