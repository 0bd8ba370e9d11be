------------------------------- MODULE Arena -------------------------------
(***************************************************************************)
(* The arena of one trace (xerv-core arena/writer.rs, arena/header.rs): a  *)
(* memory-mapped file to which node outputs are appended and from which    *)
(* they are read through relative pointers, also after the file has been   *)
(* closed and opened again.                                                *)
(*                                                                         *)
(* The write position lives in memory; the header of the file holds a copy *)
(* that is brought up to date when the Arena object is dropped.  Of the    *)
(* header only that copy is modelled.  The process may die at any moment;  *)
(* what has been stored through the mapping is then in the file.           *)
(***************************************************************************)
EXTENDS Integers

CONSTANTS
  Capacity,    \* ArenaConfig::capacity, at least the header
  Sizes,       \* lengths of the outputs that are written
  Bytes,       \* contents of outputs; every byte of one is the same
  Zero,        \* the padding byte
  MaxWriters,  \* bound: ArenaWriter handles at a time
  SyncOnWrite  \* ArenaConfig::sync_on_write

HEADER_SIZE == 128
ENTRY_ALIGNMENT == 8

ASSUME ArenaAssumption ==
  /\ Capacity \in Nat /\ Capacity >= HEADER_SIZE
  /\ Sizes \subseteq Nat /\ Zero \notin Bytes
  /\ MaxWriters \in Nat /\ SyncOnWrite \in BOOLEAN

VARIABLES
  file,     \* "absent", "present" or "deleted"
  arena,    \* is the Arena object alive?
  writers,  \* ArenaWriter handles that are alive
  sync,     \* ArenaInner::sync_on_write
  pos,      \* ArenaInner::write_pos
  hdr,      \* write_pos in the header of the file
  mem,      \* the mapped data region
  safe,     \* history: pointers that have been handed out and must be good
  saved     \* history: of these, the ones a reopened arena must still know

vars == <<file, arena, writers, sync, pos, hdr, mem, safe, saved>>

Cells == HEADER_SIZE .. Capacity - 1
Pointers == [off : HEADER_SIZE .. Capacity, size : Sizes, byte : Bytes]  \* RelPtr

TypeOK ==
  /\ file \in {"absent", "present", "deleted"}
  /\ arena \in BOOLEAN /\ sync \in BOOLEAN
  /\ writers \in 0 .. MaxWriters
  /\ pos \in HEADER_SIZE .. Capacity
  /\ hdr \in HEADER_SIZE .. Capacity
  /\ mem \in [Cells -> Bytes \cup {Zero}]
  /\ safe \subseteq Pointers /\ saved \subseteq Pointers

Init ==
  /\ file = "absent" /\ arena = FALSE /\ writers = 0 /\ sync = FALSE
  /\ pos = HEADER_SIZE /\ hdr = HEADER_SIZE
  /\ mem = [i \in Cells |-> Zero]
  /\ safe = {} /\ saved = {}

-----------------------------------------------------------------------------
\* The inner state lives as long as somebody refers to it, and locks the file.
Mapped == arena \/ writers > 0

\* Arena::create
Create ==
  /\ file = "absent"
  /\ file' = "present" /\ arena' = TRUE /\ sync' = SyncOnWrite
  /\ UNCHANGED <<writers, pos, hdr, mem, safe, saved>>

\* Mutant: the new arena starts behind the header, not at the write position.
OpenAfresh ==
  /\ file = "present" /\ ~Mapped
  /\ arena' = TRUE /\ sync' = FALSE
  /\ pos' = HEADER_SIZE /\ safe' = saved
  /\ UNCHANGED <<file, writers, hdr, mem, saved>>
(* Arena::open: the lock must be free; the write position is the header's.  *)
(* A reopened arena does not sync, whatever the configuration.              *)
Open ==
  /\ file = "present" /\ ~Mapped
  /\ arena' = TRUE /\ sync' = FALSE
  /\ pos' = hdr /\ safe' = saved
  /\ UNCHANGED <<file, writers, hdr, mem, saved>>

\* Mutant: only the bytes themselves are taken.
AlignedUnpadded(size) == size
\* (size + ENTRY_ALIGNMENT - 1) & !(ENTRY_ALIGNMENT - 1)
Aligned(size) == ((size + ENTRY_ALIGNMENT - 1) \div ENTRY_ALIGNMENT) * ENTRY_ALIGNMENT

Stored(size, byte) ==
  [i \in Cells |-> IF i < pos \/ i >= pos + Aligned(size) THEN mem[i]
                   ELSE IF i < pos + size THEN byte ELSE Zero]

\* Mutant: the padding is left out of the check.
WriteOverrun(size, byte) ==
  /\ Mapped
  /\ pos + size <= Capacity
  /\ mem' = Stored(size, byte)
  /\ pos' = pos + Aligned(size)
  /\ \/ safe' = safe \cup {[off |-> pos, size |-> size, byte |-> byte]}
     \/ sync /\ safe' = safe
  /\ UNCHANGED <<file, arena, writers, sync, hdr, saved>>
(* Arena::write_bytes and ArenaWriter::write_bytes, under the write lock.   *)
(* If the flush fails the bytes are there and their place is taken, but no  *)
(* pointer is returned.  An output that does not fit changes nothing.       *)
Write(size, byte) ==
  /\ Mapped
  /\ pos + Aligned(size) <= Capacity
  /\ mem' = Stored(size, byte)
  /\ pos' = pos + Aligned(size)
  /\ \/ safe' = safe \cup {[off |-> pos, size |-> size, byte |-> byte]}
     \/ sync /\ safe' = safe
  /\ UNCHANGED <<file, arena, writers, sync, hdr, saved>>

\* Arena::writer, and Clone of ArenaWriter
NewWriter ==
  /\ Mapped /\ writers < MaxWriters
  /\ writers' = writers + 1
  /\ UNCHANGED <<file, arena, sync, pos, hdr, mem, safe, saved>>

DropWriter ==
  /\ writers > 0
  /\ writers' = writers - 1
  /\ UNCHANGED <<file, arena, sync, pos, hdr, mem, safe, saved>>

\* Mutant: the header is not written.
DropArenaSilently ==
  /\ arena
  /\ arena' = FALSE /\ saved' = safe
  /\ UNCHANGED <<file, writers, sync, pos, hdr, mem, safe>>
(* Drop for Arena: update_header, whatever its result.  Handles that are    *)
(* still alive go on without it.                                            *)
DropArena ==
  /\ arena
  /\ arena' = FALSE
  /\ hdr' = pos /\ saved' = safe
  /\ UNCHANGED <<file, writers, sync, pos, mem, safe>>

\* Arena::delete: drop, then remove the file.
Delete ==
  /\ arena
  /\ arena' = FALSE /\ file' = "deleted"
  /\ hdr' = pos /\ saved' = {}
  /\ UNCHANGED <<writers, sync, pos, mem, safe>>

\* The process dies: nothing is dropped, the header stays as it is.
Crash ==
  /\ Mapped
  /\ arena' = FALSE /\ writers' = 0
  /\ UNCHANGED <<file, sync, pos, hdr, mem, safe, saved>>

Next ==
  \/ Create \/ Open \/ NewWriter \/ DropWriter \/ DropArena \/ Delete \/ Crash
  \/ \E size \in Sizes, byte \in Bytes : Write(size, byte)

Spec == Init /\ [][Next]_vars

-----------------------------------------------------------------------------
\* Arena::read_bytes and ArenaReader::read_bytes give back what was written.
Readable(p) ==
  /\ p.off + p.size <= pos
  /\ \A i \in p.off .. p.off + p.size - 1 : mem[i] = p.byte

(***************************************************************************)
(* Append-only: a pointer that write_bytes has returned reads back the     *)
(* bytes written for as long as the arena is mapped, whatever is written   *)
(* later through any handle; after Arena::open this holds for the pointers *)
(* that were handed out before the Arena object was last dropped.  (Those  *)
(* handed out after that, or before a crash, are beyond the write position *)
(* of the header; Arena::open forgets them.)                               *)
(***************************************************************************)
PointersGood == Mapped => \A p \in safe : Readable(p)

(***************************************************************************)
(* What a dropped Arena leaves in the file is not disturbed by handles     *)
(* that outlive it, by later writers or by crashes: the header covers it   *)
(* and the bytes are there.                                                *)
(***************************************************************************)
SavedSurvives ==
  \A p \in saved : /\ p.off + p.size <= hdr
                   /\ \A i \in p.off .. p.off + p.size - 1 : mem[i] = p.byte

(***************************************************************************)
(* rkyv reads its archives in place: every pointer is aligned and no two   *)
(* outputs share an aligned word, also across a reopening in an arena      *)
(* whose capacity is no multiple of the alignment.                         *)
(***************************************************************************)
Words(p) == p.off \div ENTRY_ALIGNMENT .. (p.off + p.size - 1) \div ENTRY_ALIGNMENT
WordsApart ==
  \A p \in safe : /\ p.off % ENTRY_ALIGNMENT = 0
                  /\ \A q \in safe : p # q => Words(p) \cap Words(q) = {}
=============================================================================
