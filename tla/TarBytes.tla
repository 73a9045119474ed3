------------------------------ MODULE TarBytes ------------------------------
(***************************************************************************)
(* The bytes of an archive that Writer makes.                              *)
(*                                                                         *)
(* An entry is a record: name, kind ("file" or "meta"), size (the length   *)
(* its header declares), yields (the number of bytes its body source       *)
(* really has) and long (the bytes of a name too long for the header, or   *)
(* 0).  Bytes are tokens that say which entry they belong to and what they *)
(* are; a compressed stream is written down as the plain bytes it stands   *)
(* for, and a token for the end of the zstd frame.                         *)
(***************************************************************************)
EXTENDS Integers, Sequences

CONSTANTS
  Block,        \* bytes of a tar block (512)
  Entries       \* the entries a caller may append

(* What WriteEntry::file and WriteEntry::metadata can make.                *)
IsEntry(e) ==
  /\ e.kind \in {"file", "meta"}
  /\ {e.size, e.yields, e.long} \subseteq Nat
  /\ e.kind = "meta" => e.size = 0 /\ e.yields = 0

ASSUME SinkAssumption == Block \in Nat \ {0} /\ \A e \in Entries : IsEntry(e)

Formats == {"Tar", "TarZstd"}

Bytes(n, name, part) == [i \in 1 .. n |-> [entry |-> name, part |-> part]]

PaddingLength(size) == (Block - (size % Block)) % Block

(* A header, of which the first byte tells where it is.                    *)
OneHeader(e, part) == Bytes(1, e.name, part) \o Bytes(Block - 1, e.name, "fields")

(* A name or link that does not fit its header goes before it, in an       *)
(* extension record of its own.                                            *)
LongName(e) ==
  IF e.long = 0 THEN <<>>
  ELSE OneHeader(e, "long header") \o Bytes(e.long, e.name, "long name")
       \o Bytes(PaddingLength(e.long), e.name, "padding")

HeaderBytes(e)  == LongName(e) \o OneHeader(e, "header")
BodyBytes(e, n) == Bytes(n, e.name, "body")
Padding(e) == Bytes(PaddingLength(e.size), e.name, "padding")

(* An entry as it stands in the archive.                                   *)
Record(e) == HeaderBytes(e) \o BodyBytes(e, e.size) \o Padding(e)

Trailer(format) ==
  Bytes(2 * Block, "archive", "end")
  \o (IF format = "TarZstd" THEN Bytes(1, "archive", "frame end") ELSE <<>>)
=============================================================================
