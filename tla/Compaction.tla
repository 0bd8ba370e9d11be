----------------------------- MODULE Compaction -----------------------------
(***************************************************************************)
(* Allocation tracking and compaction of an arena (xerv-core               *)
(* arena/allocation.rs, arena/compaction.rs).  Whoever drives them records *)
(* what Arena::write_bytes hands out: aligned places, one behind the       *)
(* other, and after a compaction from CompactionPlan::new_write_pos on.    *)
(***************************************************************************)
EXTENDS Integers

CONSTANTS
  DataOffset,  \* start of the data region, aligned
  Capacity,    \* length of the buffer
  Sizes,       \* sizes of allocations
  Bytes,       \* contents; every byte of an allocation is the same
  Zero,        \* initial content of the buffer
  Threshold,   \* [num, den]: CompactionConfig::fragmentation_threshold
  MinDead,     \* CompactionConfig::min_reclaimable_bytes
  MaxGen       \* bound: generations

CompactionConstants ==
  /\ {DataOffset, Capacity, MinDead, MaxGen} \subseteq Nat
  /\ DataOffset % 8 = 0 /\ DataOffset <= Capacity /\ Sizes \subseteq Nat \ {0}
  /\ Threshold \in [num : Nat, den : Nat \ {0}]

VARIABLES
  allocs,      \* AllocationTracker::allocations: offset -> [size, generation, live]
  generation,  \* AllocationTracker::generation
  total, dead, \* total_allocated, total_dead
  buffer,      \* the bytes of the arena
  top          \* where the next output will be written

vars == <<allocs, generation, total, dead, buffer, top>>

Cells == DataOffset .. Capacity - 1
Entry == [size : Sizes, generation : Nat, live : BOOLEAN]

TypeOK ==
  /\ allocs \in [DOMAIN allocs -> Entry] /\ DOMAIN allocs \subseteq Cells
  /\ generation \in Nat \ {0}
  /\ total \in Nat /\ dead \in Nat
  /\ buffer \in [Cells -> Bytes \cup {Zero}]
  /\ top \in DataOffset .. Capacity

Init ==
  /\ allocs = <<>> /\ generation = 1 /\ total = 0 /\ dead = 0
  /\ buffer = [i \in Cells |-> Zero]
  /\ top = DataOffset

-----------------------------------------------------------------------------
\* align_size
AlignSize(size) == ((size + 7) \div 8) * 8

\* Arena::write_bytes, then AllocationTracker::record_allocation.
Allocate(size, byte) ==
  /\ top + AlignSize(size) <= Capacity
  /\ allocs' = [o \in DOMAIN allocs \cup {top} |->
                 IF o = top THEN [size |-> size, generation |-> generation, live |-> TRUE] ELSE allocs[o]]
  /\ total' = total + size
  /\ buffer' = [i \in Cells |-> IF top <= i /\ i < top + size THEN byte ELSE buffer[i]]
  /\ top' = top + AlignSize(size)
  /\ UNCHANGED <<generation, dead>>

\* AllocationTracker::mark_dead; nothing for what is dead or unknown.
MarkDead(o) ==
  /\ allocs[o].live
  /\ allocs' = [allocs EXCEPT ![o].live = FALSE]
  /\ dead' = dead + allocs[o].size
  /\ UNCHANGED <<generation, total, buffer, top>>

-----------------------------------------------------------------------------
\* get_live_allocations, by their offsets.
Live == {o \in DOMAIN allocs : allocs[o].live}

\* ArenaCompactor::should_compact
ShouldCompact ==
  /\ total > 0 \/ Threshold.num = 0
  /\ dead * Threshold.den >= total * Threshold.num
  /\ dead >= MinDead

\* Going over the allocations by offset: what has come together before each one.
Offsets == 0 .. Capacity - 1
Sums(weight) ==
  LET sum[x \in 0 .. Capacity] == IF x = 0 THEN 0 ELSE sum[x - 1] + weight[x - 1]
  IN  sum

\* The sizes of those at some offsets, as rebuild adds them up.
SizeOf(S) == Sums([o \in Offsets |-> IF o \in S THEN allocs[o].size ELSE 0])[Capacity]

\* ArenaCompactor::plan: the live allocations, packed in the order they have.
Span == Sums([o \in Offsets |-> IF o \in Live THEN AlignSize(allocs[o].size) ELSE 0])
NewOffset(o) == DataOffset + Span[o]
NewWritePos == DataOffset + Span[Capacity]

\* Mutant: the last byte is forgotten.
MovedShort(m, o) ==
  LET to == NewOffset(o) IN
  [i \in Cells |-> IF to <= i /\ i < to + allocs[o].size - 1 THEN m[o + (i - to)] ELSE m[i]]

(* One move.  Both copy loops work for overlapping ranges: what arrives is  *)
(* what was there before.                                                   *)
Moved(m, o) ==
  LET to == NewOffset(o) IN
  [i \in Cells |-> IF to <= i /\ i < to + allocs[o].size THEN m[o + (i - to)] ELSE m[i]]

\* The bytes after each of the moves, which go from the last allocation to the first.
Moves ==
  LET bytes[k \in 0 .. Capacity] ==
        IF k = 0 THEN buffer
        ELSE IF Capacity - k \in Live THEN Moved(bytes[k - 1], Capacity - k) ELSE bytes[k - 1]
  IN  bytes

(* ArenaCompactor::execute: the moves, then the tracker rebuilt from the    *)
(* live allocations.                                                        *)
Compact ==
  /\ ShouldCompact /\ generation < MaxGen
  /\ buffer' = Moves[Capacity]
  /\ generation' = generation + 1
  /\ allocs' = [n \in {NewOffset(o) : o \in Live} |->
                 [allocs[CHOOSE o \in Live : NewOffset(o) = n] EXCEPT !.generation = generation + 1]]
  /\ total' = SizeOf(Live)
  /\ dead' = 0
  /\ top' = NewWritePos

Next ==
  \/ \E size \in Sizes, byte \in Bytes : Allocate(size, byte)
  \/ \E o \in DOMAIN allocs : MarkDead(o)
  \/ Compact

Spec == Init /\ [][Next]_vars

-----------------------------------------------------------------------------
(***************************************************************************)
(* Tracked allocations are aligned, lie below the write                    *)
(* position and do not share an aligned word, through any sequence of      *)
(* allocations, deaths and compactions.                                    *)
(***************************************************************************)
AllocationsApart ==
  \A o \in DOMAIN allocs :
    /\ o % 8 = 0 /\ o + AlignSize(allocs[o].size) <= top
    /\ \A p \in DOMAIN allocs : o < p => o + AlignSize(allocs[o].size) <= p

(***************************************************************************)
(* The totals that should_compact judges by agree with the table: all      *)
(* bytes, and the reclaimable ones, so that total_live does not underflow. *)
(***************************************************************************)
TotalsAgree == total = SizeOf(DOMAIN allocs) /\ dead = SizeOf(DOMAIN allocs \ Live)

\* The allocation is tracked in its new place, with the bytes it had.
Kept(o) ==
  LET n == NewOffset(o) IN
  /\ n \in DOMAIN allocs' /\ allocs'[n].size = allocs[o].size
  /\ \A i \in 0 .. allocs[o].size - 1 : buffer'[n + i] = buffer[o + i]

(***************************************************************************)
(* "Execute moves from end to start to avoid overwriting data that hasn't  *)
(* been moved yet" (compaction.rs): compaction keeps the bytes of every    *)
(* live allocation, and their order, as long as no later allocation is     *)
(* moved to where the allocation still lies.  (Compaction moves towards    *)
(* the start, and then a later allocation does get there whenever less     *)
(* space has become free before an allocation than it occupies.)           *)
(***************************************************************************)
Overrun(o) == \E p \in Live : p > o /\ NewOffset(p) < o + allocs[o].size
BytesKept ==
  [][generation' # generation => \A o \in Live : ~Overrun(o) => Kept(o)]_vars

(* The tracker agrees with the arena.                                       *)
TrackerRight == AllocationsApart /\ TotalsAgree
=============================================================================
