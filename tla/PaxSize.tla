------------------------------- MODULE PaxSize -------------------------------
(***************************************************************************)
(* parse_pax_size of guard.rs, record by record over the bytes of a        *)
(* payload.  Every record states its own length in decimal, that number    *)
(* included, so that each step depends on where the last one ended.        *)
(***************************************************************************)
EXTENDS Integers, Sequences, SequencesExt

CONSTANTS
  Payloads,    \* the payloads considered
  MaxU64       \* largest value of a u64

(* Bytes: the ten digits stand for themselves; "size=" is one byte here.   *)
Digits == 0 .. 9
Space   == 10
Newline == 11
Key     == 12
Letter  == 13
Byte == 0 .. 13

(* A payload lies in memory: its length is a usize, which is a u64 here.   *)
ASSUME PaxSizeAssumption ==
  /\ MaxU64 \in Nat
  /\ \A p \in Payloads : p \in Seq(Byte) /\ Len(p) <= MaxU64

NoSize == -1
Bad == -2

VARIABLES
  payload,    \* the whole payload
  body,       \* what is left to parse
  size,       \* the size found last
  verdict     \* "parsing", "parsed" or "malformed"

vars == <<payload, body, size, verdict>>

Init ==
  /\ payload \in Payloads
  /\ body = payload
  /\ size = NoSize
  /\ verdict = "parsing"

-----------------------------------------------------------------------------
(* is_ascii_digit, checked_mul and checked_add.                            *)
Shift(value, byte) ==
  IF \/ value = Bad \/ byte \notin Digits
     \/ 10 * value > MaxU64 \/ 10 * value + byte > MaxU64
  THEN Bad ELSE 10 * value + byte

Folded(bytes) ==
  LET value[i \in 0 .. Len(bytes)] ==
        IF i = 0 THEN 0 ELSE Shift(value[i - 1], bytes[i])
  IN  value
Decimal(bytes) == IF bytes = <<>> THEN Bad ELSE Folded(bytes)[Len(bytes)]

(* The first space, counted from 1; a body without one is malformed.       *)
SpaceAt(b) == SelectInSeq(b, LAMBDA byte : byte = Space)
LengthOf(b) == Decimal(SubSeq(b, 1, SpaceAt(b) - 1))
Record(b) == SubSeq(b, SpaceAt(b) + 1, LengthOf(b))

EmptyRecord(length, space) == length <= space          \* mutant: off by one
TooShort(length, space) == length <= space + 1

TooLong(length, b) == length > Len(b)

HasSize(record) == record[1] = Key
SizeOf(record) == Decimal(SubSeq(record, 2, Len(record) - 1))

FirstSize(record) == IF size = NoSize THEN SizeOf(record) ELSE size   \* mutant
NewSize(record) == SizeOf(record)

Broken(b) ==
  \/ SpaceAt(b) = 0
  \/ LengthOf(b) = Bad
  \/ TooShort(LengthOf(b), SpaceAt(b))
  \/ TooLong(LengthOf(b), b)
  \/ Last(Record(b)) # Newline
  \/ HasSize(Record(b)) /\ SizeOf(Record(b)) = Bad

Malformed == verdict' = "malformed" /\ UNCHANGED <<body, size>>

ParseRecord ==
  /\ verdict = "parsing"
  /\ body # <<>>
  /\ IF Broken(body) THEN Malformed
     ELSE /\ size' = IF HasSize(Record(body)) THEN NewSize(Record(body)) ELSE size
          /\ body' = SubSeq(body, LengthOf(body) + 1, Len(body))
          /\ UNCHANGED verdict
  /\ UNCHANGED payload

Finish ==
  /\ verdict = "parsing"
  /\ body = <<>>
  /\ verdict' = "parsed"
  /\ UNCHANGED <<payload, body, size>>

Next == ParseRecord \/ Finish
Spec == Init /\ [][Next]_vars

-----------------------------------------------------------------------------
(* What a payload should be, said without parsing it: it can be cut into   *)
(* records, each of which is a number, a space, a text and a newline, and  *)
(* as long as its number says.  A text that begins with the key ends with  *)
(* a number that fits a u64.                                               *)
Read(bytes) ==
  LET number[i \in 0 .. Len(bytes)] ==
        IF i = 0 THEN 0 ELSE 10 * number[i - 1] + bytes[i]
  IN  number
Numeral(bytes) == Read(bytes)[Len(bytes)]
IsNumeral(bytes) == bytes # <<>> /\ ToSet(bytes) \subseteq Digits
Text(record, space) == SubSeq(record, space + 1, Len(record) - 1)
SizeText(text) == SubSeq(text, 2, Len(text))

IsRecord(record, space) ==
  /\ record[space] = Space /\ Last(record) = Newline
  /\ IsNumeral(SubSeq(record, 1, space - 1))
  /\ Numeral(SubSeq(record, 1, space - 1)) = Len(record)
  /\ LET text == Text(record, space)
     IN  /\ text # <<>>
         /\ text[1] = Key => IsNumeral(SizeText(text)) /\ Numeral(SizeText(text)) <= MaxU64

(* The cuts of a payload, its two ends among them: what lies between two   *)
(* that are next to one another is a record.                               *)
NextTo(cuts, b, c) == b < c /\ \A d \in cuts : d <= b \/ c <= d
RecordAt(p, b, c, space) == space \in 1 .. c - b /\ IsRecord(SubSeq(p, b + 1, c), space)

CutsTo(p, end) ==
  {cuts \in SUBSET (0 .. end) :
     /\ {0, end} \subseteq cuts
     /\ \A b, c \in cuts : NextTo(cuts, b, c) => \E space \in 1 .. c - b : RecordAt(p, b, c, space)}
Cuts(p) == CutsTo(p, Len(p))

(* The sizes a cut payload states, and where.                              *)
States(p, b, c, n) ==
  \E space \in 1 .. c - b :
    LET text == Text(SubSeq(p, b + 1, c), space)
    IN  RecordAt(p, b, c, space) /\ text[1] = Key /\ Numeral(SizeText(text)) = n
Sizes(p, cuts) ==
  {s \in cuts \X (0 .. MaxU64) :
     \E b \in cuts : NextTo(cuts, b, s[1]) /\ States(p, b, s[1], s[2])}
LastSize(p, cuts, n) ==
  IF Sizes(p, cuts) = {} THEN n = NoSize
  ELSE \E s \in Sizes(p, cuts) : n = s[2] /\ \A t \in Sizes(p, cuts) : t[1] <= s[1]

(* A payload is accepted if and only if it can be cut into records, in     *)
(* which there is then no choice (guard.rs:163-181).                       *)
AcceptsRecords ==
  /\ verdict = "parsed" => Cardinality(Cuts(payload)) = 1
  /\ verdict = "malformed" => Cuts(payload) = {}

(* The size is the one the last record with the key states, or none        *)
(* (guard.rs:177-179).                                                     *)
LastSizeWins ==
  verdict = "parsed" => \A cuts \in Cuts(payload) : LastSize(payload, cuts, size)
=============================================================================
