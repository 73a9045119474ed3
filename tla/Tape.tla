-------------------------------- MODULE Tape --------------------------------
(***************************************************************************)
(* The decoded tar byte stream that etar's read layers pass to one         *)
(* another, and what a 512-byte block of it means to guard.rs.             *)
(*                                                                         *)
(* A tape is a record                                                      *)
(*   len    number of bytes before the source reports its end              *)
(*   dirty  the offsets of the bytes that are not zero                     *)
(*   at     for each offset, the header read when the Block bytes that     *)
(*          start there are taken for one.  Payload bytes have a           *)
(*          description too: a layer that loses its alignment reads them   *)
(*          as a header, exactly as the code would.                        *)
(*                                                                         *)
(* A header is a record                                                    *)
(*   kind   "entry" for the flags a member may have, "pax" for 'x', "long" *)
(*          for 'L' and 'K', "other" for every flag guard.rs rejects       *)
(*   size   the size field, Bad if it does not parse                       *)
(*   pax    for an 'x' header, what parse_pax_size says of its payload:    *)
(*          Bad, NoSize or the number after "size="                        *)
(***************************************************************************)
EXTENDS Integers

CONSTANTS
  Block,        \* bytes of a tar block (512)
  MaxU64,       \* largest u64
  MaxMetadata   \* ReadLimits::max_metadata_bytes

ASSUME TapeAssumption ==
  /\ Block \in Nat \ {0}
  /\ MaxU64 \in Nat
  /\ MaxMetadata \in 0 .. MaxU64

NoSize == -1                 \* Option::None of a u64
Bad    == -2                 \* a field or a record that does not parse

U64 == 0 .. MaxU64
Header == [kind : {"entry", "pax", "long", "other"},
           size : U64 \cup {Bad},
           pax  : U64 \cup {NoSize, Bad}]

(* What a tape must look like for the layers to make sense of it.          *)
IsTape(t) ==
  /\ t.len \in Nat
  /\ t.dirty \subseteq 0 .. t.len - 1
  /\ t.at \in [0 .. t.len -> Header]

Least(a, b) == IF a < b THEN a ELSE b

(* A block of zeros, the only block that is not a header.                  *)
ZeroBlock(t, o) == \A b \in o .. o + Block - 1 : b \notin t.dirty

IsExtension(h) == h.kind \in {"pax", "long"}

(* Bytes that follow a header: a pending pax size replaces the size field  *)
(* of a member, never that of an extension record.                         *)
PayloadSize(h, pax) ==
  IF IsExtension(h) \/ pax = NoSize THEN h.size ELSE pax

(* A size rounded up to whole blocks.                                      *)
Padded(size) == ((size + (Block - 1)) \div Block) * Block

(* An extension record larger than the parser may buffer.                  *)
Oversize(h) == IsExtension(h) /\ h.size > MaxMetadata

(* A size that does not parse, or that cannot be rounded up in a u64.      *)
Unsized(h, pax) ==
  h.size = Bad \/ PayloadSize(h, pax) + (Block - 1) > MaxU64

(* Mutant: extension records of any size reach the parser.                 *)
RefusalUncapped(h, pax) ==
  IF h.kind = "other" THEN "disallowed"
  ELSE IF Unsized(h, pax) THEN "malformed"
  ELSE "none"

(* Why guard.rs refuses a header before it hands on one byte of it.        *)
Refusal(h, pax) ==
  IF h.kind = "other" THEN "disallowed"
  ELSE IF Oversize(h) THEN "max_metadata_bytes"
  ELSE IF Unsized(h, pax) THEN "malformed"
  ELSE "none"

(* The smallest of a set of offsets.                                       *)
First(body) == CHOOSE b \in body : \A c \in body : b <= c

(* parse_pax_size over the bytes at the offsets in body.  Only the whole   *)
(* payload of an 'x' header, from its first byte to its last, parses as    *)
(* that header says; any other selection of bytes is garbage.              *)
ParsePaxSize(t, body) ==
  IF body = {} THEN NoSize
  ELSE LET start == First(body) - Block
       IN  IF /\ start \in DOMAIN t.at
              /\ t.at[start].kind = "pax"
              /\ body = First(body) .. First(body) + t.at[start].size - 1
           THEN t.at[start].pax
           ELSE Bad
=============================================================================
