-------------------------------- MODULE Wasm --------------------------------
(***************************************************************************)
(* WASM nodes (xerv-executor wasm/): the cache of compiled modules, the    *)
(* inputs laid out in a guest's memory, the host functions a guest may     *)
(* call, and the output that is made of what it left.  Memory and arena    *)
(* are counted in words of four bytes; an address or a length is a number  *)
(* below Word, and their sum wraps.                                        *)
(***************************************************************************)
EXTENDS Naturals, FiniteSets, FiniteSetsExt, Sequences, SequencesExt, TLC

CONSTANTS
  Guests,         \* executions of WASM nodes
  Programs,       \* wasm bytes
  Hash,           \* program -> hash_bytes
  Inputs,         \* functions from a name (a number) to [offset, size]
  Environment,    \* names that have a value, and its words
  Word,           \* 2^32
  MemSize,        \* the size of a guest's memory
  ArenaSize,      \* the arena's capacity
  CopyBelow,      \* HOST_API_THRESHOLD
  MaxCalls        \* bound: host calls of all guests

VARIABLES
  cache,          \* module_cache: hash -> program
  arena,          \* the words written to it
  guest,          \* per guest: its execution
  said            \* per guest: the last result it set, the errors it raised

vars == <<cache, arena, guest, said>>

Edges == {0, 1, 2, MemSize - 1, MemSize, MemSize + 1, Word - 1}
Null == [offset |-> 0, size |-> 0]
NoResult == [set |-> FALSE, port |-> 0, ptr |-> Null]
Blank == [i \in 0 .. MemSize - 1 |-> 100 + i]
Waiting == [pc |-> "idle", program |-> 0, module |-> 0, inputs |-> <<>>, memory |-> Blank,
            result |-> NoResult, error |-> FALSE, calls |-> 0, out |-> "none", port |-> 0, ptr |-> Null]

WasmConstants == MemSize <= Word /\ Hash \in [Programs -> Nat]

Init ==
  /\ cache = <<>> /\ arena = <<200, 201>>
  /\ guest = [g \in Guests |-> Waiting]
  /\ said = [g \in Guests |-> [port |-> 0, data |-> <<>>, error |-> FALSE, trap |-> FALSE, code |-> 0]]

To(g, pc) == guest' = [guest EXCEPT ![g].pc = pc]

-----------------------------------------------------------------------------
(* WasmRuntime::compile: looked up, compiled, and inserted.                 *)
Create(g, program) ==
  /\ guest[g].pc = "idle"
  /\ guest' = IF Hash[program] \in DOMAIN cache
              THEN [guest EXCEPT ![g].program = program, ![g].pc = "ready", ![g].module = cache[Hash[program]]]
              ELSE [guest EXCEPT ![g].program = program, ![g].pc = "compile"]
  /\ UNCHANGED <<cache, arena, said>>

Insert(g) ==
  /\ guest[g].pc = "compile" /\ guest' = [guest EXCEPT ![g].pc = "ready", ![g].module = guest[g].program]
  /\ cache' = Hash[guest[g].program] :> guest[g].program @@ cache
  /\ UNCHANGED <<arena, said>>

ClearCache == cache # <<>> /\ cache' = <<>> /\ UNCHANGED <<arena, guest, said>>

-----------------------------------------------------------------------------
(* A guest's memory.                                                        *)
\* get(start .. start + len): none if the end is before the start or beyond
\* the memory.
InBounds(start, len) == LET end == (start + len) % Word IN start <= end /\ end <= MemSize

Slice(m, start, len) == [i \in 1..len |-> m[start + i - 1]]
Put(m, start, words) ==
  [a \in DOMAIN m |-> IF a \in start .. start + Len(words) - 1 THEN words[a - start + 1] ELSE m[a]]

\* Arena offsets have 64 bits, and pass in two halves.
EncodeOffset(offset) == <<offset % Word, offset \div Word>>
DecodeOffset(lo, hi) == hi * Word + lo

\* The guest's allocator hands out its memory from below; it traps at the end.
Allocate(s, size) ==
  IF ~s.ok \/ s.top + size > MemSize THEN [s EXCEPT !.ok = FALSE] ELSE [s EXCEPT !.top = @ + size, !.at = s.top]
CopyToWasm(s, words) ==
  IF words = <<>> THEN [s EXCEPT !.at = 0]
  ELSE LET a == Allocate(s, Len(words)) IN IF ~a.ok THEN a ELSE [a EXCEPT !.memory = Put(@, a.at, words)]

\* Of each input the name, where it is and how large; small ones are copied
\* too, to a place that the guest is not told.
EntrySize == 5
ReadArena(offset, size) == SubSeq(arena, offset + 1, offset + size)
PrepareInput(s, name, input, place) ==
  LET named == CopyToWasm(s, <<name>>)
      half == EncodeOffset(input.offset)
      entered == [named EXCEPT !.memory = Put(@, place, <<named.at, 1, half[1], half[2], input.size>>)]
  IN  IF ~named.ok THEN named
      ELSE IF input.size >= CopyBelow \/ input.size = 0 THEN entered
      ELSE IF input.offset + input.size > Len(arena) THEN [entered EXCEPT !.ok = FALSE]
      ELSE CopyToWasm(entered, ReadArena(input.offset, input.size))

PrepareInputs(inputs, order) ==
  LET array == Allocate([ok |-> TRUE, memory |-> Blank, top |-> 1, at |-> 0], EntrySize * Len(order))
      step(s, i) == IF ~s.ok THEN s ELSE PrepareInput(s, order[i], inputs[order[i]], array.at + EntrySize * (i - 1))
  IN  IF order = <<>> THEN array ELSE FoldLeft(step, array, [i \in DOMAIN order |-> i])

\* The store goes, and the memory with it.
Ended(g, out, ptr) ==
  [Waiting EXCEPT !.pc = "done", !.out = out, !.ptr = ptr, !.calls = guest[g].calls, !.port = IF out = "output" THEN guest[g].result.port ELSE 0]

Start(g, inputs) ==
  /\ guest[g].pc = "ready"
  /\ \E order \in SetToSeqs(DOMAIN inputs) :
       LET s == PrepareInputs(inputs, order) IN
       guest' = [guest EXCEPT ![g] = IF s.ok THEN [@ EXCEPT !.pc = "run", !.memory = s.memory, !.inputs = inputs]
                                    ELSE Ended(g, "err", Null)]
  /\ UNCHANGED <<cache, arena, said>>

-----------------------------------------------------------------------------
(* Host functions.  A call that fails changes nothing, except that what     *)
(* write_bytes has put into the arena stays there.                          *)
MayCall(g) == guest[g].pc = "run" /\ MapThenSumSet(LAMBDA h : guest[h].calls, Guests) < MaxCalls
Memory(g) == guest[g].memory
Room(size) == Len(arena) + size <= ArenaSize
Called(g, m) == guest' = [guest EXCEPT ![g].calls = @ + 1, ![g].memory = m]

ReadBytes(g, offset, dest, size) ==
  LET half == EncodeOffset(offset) IN
  /\ MayCall(g)
  /\ DecodeOffset(half[1], half[2]) + size <= Len(arena) /\ InBounds(dest, size)
  /\ Called(g, Put(Memory(g), dest, ReadArena(offset, size)))
  /\ UNCHANGED <<cache, arena, said>>

WriteBytes(g, src, size, out_lo, out_hi) ==
  LET half == EncodeOffset(Len(arena))
      one == IF InBounds(out_lo, 1) THEN Put(Memory(g), out_lo, <<half[1]>>) ELSE Memory(g)
      both == IF InBounds(out_lo, 1) /\ InBounds(out_hi, 1) THEN Put(one, out_hi, <<half[2]>>) ELSE one
  IN  /\ MayCall(g) /\ InBounds(src, size) /\ Room(size)
      /\ arena' = arena \o Slice(Memory(g), src, size)
      /\ Called(g, both) /\ UNCHANGED <<cache, said>>

\* __xerv_env_get and __xerv_secret_get: as much of the value as there is room for.
EnvGet(g, key, val_ptr, val_cap) ==
  LET value == Environment[key]
      len == Min({Len(value), val_cap})
  IN  /\ MayCall(g) /\ key \in DOMAIN Environment /\ val_ptr + len <= MemSize
      /\ Called(g, Put(Memory(g), val_ptr, SubSeq(value, 1, len)))
      /\ UNCHANGED <<cache, arena, said>>

UuidNewV4(g, dest) ==
  /\ MayCall(g) /\ InBounds(dest, 4)
  /\ Called(g, Put(Memory(g), dest, <<301, 302, 303, 304>>)) /\ UNCHANGED <<cache, arena, said>>

\* Of several results the last counts; the data of the others stays in the arena.
SetResult(g, port, data_ptr, data_size) ==
  /\ MayCall(g) /\ InBounds(port, 1) /\ InBounds(data_ptr, data_size) /\ Room(data_size)
  /\ LET data == Slice(Memory(g), data_ptr, data_size) IN
       /\ arena' = arena \o data
       /\ guest' = [guest EXCEPT ![g].calls = @ + 1, ![g].result =
                      [set |-> TRUE, port |-> Memory(g)[port], ptr |-> [offset |-> Len(arena), size |-> data_size]]]
       /\ said' = [said EXCEPT ![g].port = Memory(g)[port], ![g].data = data]
  /\ UNCHANGED cache

SetError(g, msg_ptr, msg_len) ==
  /\ MayCall(g) /\ InBounds(msg_ptr, msg_len)
  /\ guest' = [guest EXCEPT ![g].calls = @ + 1, ![g].error = TRUE]
  /\ said' = [said EXCEPT ![g].error = TRUE] /\ UNCHANGED <<cache, arena>>

\* __xerv_log, __xerv_clock_now, __xerv_rng_next_u64, and calls that fail.
NoEffect(g) == MayCall(g) /\ Called(g, Memory(g)) /\ UNCHANGED <<cache, arena, said>>

-----------------------------------------------------------------------------
(* The end of execute_sync: a result counts even if the code is not 0.      *)
\* Mutant: an error that is raised after a result is lost.
OutputResultFirst(s, code) ==
  IF s.result.set THEN [out |-> "output", ptr |-> s.result.ptr]
  ELSE IF s.error THEN [out |-> "error", ptr |-> Null]
  ELSE [out |-> IF code = 0 THEN "empty" ELSE "err", ptr |-> Null]

Output(s, code) ==
  IF s.error THEN [out |-> "error", ptr |-> Null]
  ELSE IF s.result.set THEN [out |-> "output", ptr |-> s.result.ptr]
  ELSE [out |-> IF code = 0 THEN "empty" ELSE "err", ptr |-> Null]

Return(g, code) ==
  /\ guest[g].pc = "run"
  /\ guest' = [guest EXCEPT ![g] = Ended(g, Output(guest[g], code).out, Output(guest[g], code).ptr)]
  /\ said' = [said EXCEPT ![g].code = code] /\ UNCHANGED <<cache, arena>>

\* Out of fuel, unreachable, or out of its memory.
Trap(g) ==
  /\ guest[g].pc = "run" /\ guest' = [guest EXCEPT ![g] = Ended(g, "err", Null)]
  /\ said' = [said EXCEPT ![g].trap = TRUE] /\ UNCHANGED <<cache, arena>>

\* What a guest passes: ranges within, at the end of, and beyond its memory.
Places == {0, MemSize - 1, Word - 1}
Sizes == {0, 2}
Next ==
  \/ ClearCache
  \/ \E g \in Guests :
       \/ (\E p \in Programs : Create(g, p)) \/ Insert(g) \/ (\E inputs \in Inputs : Start(g, inputs))
       \/ \E a \in Places, n \in Sizes :
            \/ n > 0 /\ ReadBytes(g, 1, a, n)
            \/ SetError(g, a, n) \/ SetResult(g, 3, a, n)
            \/ \E b \in {2, Word - 1} : WriteBytes(g, a, n, 1, b)
            \/ \E k \in DOMAIN Environment : EnvGet(g, k, a, n)
       \/ (\E a \in Places : UuidNewV4(g, a)) \/ NoEffect(g)
       \/ (\E code \in {0, 1} : Return(g, code)) \/ Trap(g)

Spec == Init /\ [][Next]_vars

-----------------------------------------------------------------------------
(* The output of a node is what its guest said: the words of its last       *)
(* result, still in the arena under the result's pointer whatever other     *)
(* guests wrote; an error if it raised one; and a failure if it trapped or  *)
(* if it returned a code without a result.                                  *)
OutcomeRight ==
  \A g \in Guests : LET s == guest[g]  t == said[g] IN
    /\ s.out = "output" => /\ ~t.error /\ ~t.trap /\ s.port = t.port
                           /\ ReadArena(s.ptr.offset, s.ptr.size) = t.data
    /\ t.trap => s.out = "err"
    /\ s.pc = "done" /\ t.error /\ ~t.trap => s.out = "error"
    /\ s.out = "empty" => t.code = 0

(* A node runs the program it was created with, also if several nodes       *)
(* compile at once, unless two programs have the same hash.                 *)
ModuleRight ==
  (\A p, q \in Programs : Hash[p] = Hash[q] => p = q) =>
    \A g \in Guests : guest[g].pc \in {"ready", "run"} => guest[g].module = guest[g].program

(* A guest finds its inputs: every name, and an offset and a size that are  *)
(* those of the arena.                                                      *)
InputsSeen ==
  \A g \in Guests : LET s == guest[g] IN
    s.pc = "run" /\ s.calls = 0 =>
      {LET w == Slice(s.memory, 1 + EntrySize * (i - 1), EntrySize)
       IN [name |-> s.memory[w[1]], offset |-> DecodeOffset(w[3], w[4]), size |-> w[5]]
         : i \in 1 .. Cardinality(DOMAIN s.inputs)}
      = {[name |-> n, offset |-> s.inputs[n].offset, size |-> s.inputs[n].size] : n \in DOMAIN s.inputs}

(* A range is allowed if and only if it is within the memory; of a memory   *)
(* of the full 2^32 bytes the ranges up to its end are refused.             *)
RangesRight ==
  \A start, len \in Edges : start + len # Word => (InBounds(start, len) <=> start + len <= MemSize)

(* WASM nodes: outputs, modules, inputs and memory ranges.                  *)
WasmRight == OutcomeRight /\ ModuleRight /\ InputsSeen /\ RangesRight
=============================================================================
