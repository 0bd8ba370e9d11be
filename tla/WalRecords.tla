----------------------------- MODULE WalRecords -----------------------------
(***************************************************************************)
(* The bytes of the write-ahead log (xerv-core wal/record.rs) and how they *)
(* are read back after a crash (wal/writer/reader.rs): records are         *)
(* prefixed with their length, and only the payload is under the checksum. *)
(* A byte is a number below Base; the length has two of them, all other    *)
(* fields have one, and a checksum is one that differs for payloads that   *)
(* differ in a byte.  A log that is opened again is appended to as it is.          *)
(***************************************************************************)
EXTENDS Naturals, FiniteSets, FiniteSetsExt, Sequences, SequencesExt, TLC

CONSTANTS
  Base,           \* 256
  Samples,        \* records: [type, trace, node, output, error, metadata]
  MaxAppends, MaxDamage   \* bounds

VARIABLES
  file,           \* the bytes
  logged,         \* what was appended: [record, at, bytes, torn]
  flipped         \* the places of bytes that changed

vars == <<file, logged, flipped>>

Init == file = <<>> /\ logged = <<>> /\ flipped = {}

-----------------------------------------------------------------------------
(* to_bytes.  A text that may be absent is <<>> or <<text>>.                *)
Prefixed(option) == IF option = <<>> THEN <<0>> ELSE <<Len(option[1])>> \o option[1]
Payload(r) == <<r.output>> \o Prefixed(r.error) \o Prefixed(r.metadata)

MinRecordSize == 6
Crc(payload) == FoldLeft(LAMBDA a, b : (a * Base + b) % 999983, 1, payload)

ToBytes(r) ==
  LET payload == Payload(r)
      total == MinRecordSize + Len(payload)
  IN  <<total % Base, total \div Base, Crc(payload), r.type, r.trace, r.node>> \o payload

SerializedSize(r) ==
  LET size(option) == IF option = <<>> THEN 1 ELSE 1 + Len(option[1])
  IN MinRecordSize + 1 + size(r.error) + size(r.metadata)

-----------------------------------------------------------------------------
(* from_bytes.  A read beyond the end fails.                                *)
Failed == [ok |-> FALSE]
Types == 0..10

\* A text and what is after it.
ReadText(bytes) ==
  IF bytes = <<>> \/ Len(bytes) <= bytes[1] THEN Failed
  ELSE [ok |-> TRUE, text |-> IF bytes[1] = 0 THEN <<>> ELSE <<SubSeq(bytes, 2, 1 + bytes[1])>>,
        rest |-> SubSeq(bytes, 2 + bytes[1], Len(bytes))]

ReadPayload(p) ==
  LET error == ReadText(Tail(p))
      metadata == ReadText(error.rest)
  IN  IF p = <<>> THEN Failed ELSE IF ~error.ok THEN Failed ELSE IF ~metadata.ok THEN Failed
      ELSE [ok |-> TRUE, output |-> p[1], error |-> error.text, metadata |-> metadata.text]

\* Mutant: the checksum is not compared.
FromBytesUnchecked(bytes) ==
  LET payload == SubSeq(bytes, MinRecordSize + 1, Len(bytes))
      p == ReadPayload(payload)
  IN  IF bytes[4] \notin Types THEN Failed
      ELSE IF ~p.ok THEN Failed
      ELSE [ok |-> TRUE, record |-> [type |-> bytes[4], trace |-> bytes[5], node |-> bytes[6],
                                     output |-> p.output, error |-> p.error, metadata |-> p.metadata]]

\* Of bytes that are as many as their first two say.
FromBytes(bytes) ==
  LET payload == SubSeq(bytes, MinRecordSize + 1, Len(bytes))
      p == ReadPayload(payload)
  IN  IF bytes[4] \notin Types THEN Failed
      ELSE IF Crc(payload) # bytes[3] THEN Failed
      ELSE IF ~p.ok THEN Failed
      ELSE [ok |-> TRUE, record |-> [type |-> bytes[4], trace |-> bytes[5], node |-> bytes[6],
                                     output |-> p.output, error |-> p.error, metadata |-> p.metadata]]

\* read_file_from: the end within a length is the end; a length that cannot be,
\* or that the file has not, fails the whole; a record that cannot be read is
\* left out.
ReadFile(f) ==
  LET step(s) ==
        LET length == f[s.pos + 1] + Base * f[s.pos + 2]
            r == FromBytes(SubSeq(f, s.pos + 1, s.pos + length))
        IN  IF s.end # "no" THEN s
            ELSE IF Len(f) < s.pos + 2 THEN [s EXCEPT !.end = "eof"]
            ELSE IF length < MinRecordSize \/ s.pos + length > Len(f) THEN [s EXCEPT !.end = "error"]
            ELSE [s EXCEPT !.pos = @ + length, !.records = IF r.ok THEN Append(@, r.record) ELSE @]
      read[k \in Nat] == IF k = 0 THEN [pos |-> 0, records |-> <<>>, end |-> "no"] ELSE step(read[k - 1])
  IN read[1 + Len(f) \div MinRecordSize]

-----------------------------------------------------------------------------
(* The log is appended to, cut by a crash, and damaged.                     *)
Torn == {i \in DOMAIN logged : logged[i].torn}
Damage == Cardinality(Torn) + Cardinality(flipped)

AppendRecord(r) ==
  /\ Len(logged) < MaxAppends /\ file' = file \o ToBytes(r)
  /\ logged' = Append(logged, [record |-> r, at |-> Len(file), bytes |-> Len(ToBytes(r)), torn |-> FALSE])
  /\ UNCHANGED flipped

\* Only a part of the last record is in the file.
Crash(keep) ==
  LET n == Len(logged) IN
  /\ n > 0 /\ Damage < MaxDamage /\ ~logged[n].torn /\ keep < logged[n].bytes
  /\ file' = SubSeq(file, 1, logged[n].at + keep)
  /\ logged' = [logged EXCEPT ![n].bytes = keep, ![n].torn = TRUE]
  /\ flipped' = flipped \cap (1 .. logged[n].at + keep)

Flip(i, byte) ==
  /\ Damage < MaxDamage /\ i \notin flipped /\ file[i] # byte /\ file' = [file EXCEPT ![i] = byte]
  /\ flipped' = flipped \cup {i} /\ UNCHANGED logged

Next ==
  \/ \E r \in Samples : AppendRecord(r)
  \/ \E keep \in 0 .. 9 : Crash(keep)
  \/ \E i \in DOMAIN file, byte \in {0, 2, 7} : Flip(i, byte)

Spec == Init /\ [][Next]_vars

-----------------------------------------------------------------------------
\* An empty text comes back as none.
Normal(r) ==
  LET text(option) == IF option = << <<>> >> THEN <<>> ELSE option
  IN [r EXCEPT !.error = text(@), !.metadata = text(@)]
Records == [i \in DOMAIN logged |-> Normal(logged[i].record)]
UpTo(n) == SubSeq(Records, 1, n)
Read == ReadFile(file)
RecordsAt(places) == [k \in DOMAIN places |-> Records[places[k]]]

\* The records none of whose bytes changed, and those of whose header some did.
Whole(i) == \A p \in flipped : p - 1 \notin logged[i].at .. logged[i].at + logged[i].bytes - 1
HeaderWhole == \A i \in DOMAIN logged, p \in flipped : p - 1 - logged[i].at \notin 0 .. MinRecordSize - 1

(* An undamaged log reads as it was written, and each record takes the      *)
(* bytes that were counted for it.                                          *)
ReadsAsWritten ==
  /\ Damage = 0 => Read.end = "eof" /\ Read.records = Records
  /\ \A i \in DOMAIN logged \ Torn : logged[i].bytes = SerializedSize(logged[i].record)

(* After a crash the records before it are read, if it left no more than    *)
(* part of a length; if it left more, the whole file is refused.            *)
TornTail ==
  LET n == Len(logged) IN
  Torn = {n} /\ flipped = {} =>
    IF logged[n].bytes < 2 THEN Read.end = "eof" /\ Read.records = UpTo(n - 1) ELSE Read.end = "error"

(* A byte that changes in a payload costs that one record.                  *)
OneLost ==
  Torn = {} /\ HeaderWhole =>
    /\ Read.end = "eof"
    /\ Read.records = RecordsAt(SelectSeq([i \in DOMAIN logged |-> i], LAMBDA i : Whole(i)))

(* Nothing is read that was not written, nor in another order, if           *)
(* payloads change, or if logs are cut and appended to after that.  What    *)
(* comes after a torn record may be lost, and the torn one may be read if   *)
(* the bytes it lacks are those that follow.                                *)
NothingInvented ==
  HeaderWhole /\ (Torn = {} \/ flipped = {}) => \E kept \in SUBSET DOMAIN logged :
    Read.records = RecordsAt(SetToSortSeq(kept, LAMBDA i, j : i < j))

(* The bytes of the log.                                                    *)
RecordsKept == ReadsAsWritten /\ TornTail /\ OneLost /\ NothingInvented
=============================================================================
