----------------------------- MODULE RoundTrip -----------------------------
(***************************************************************************)
(* Writer and the reading side on one tape: what the writer has put into   *)
(* its sink, at any time, as HeaderGuard and the parser would walk it.     *)
(*                                                                         *)
(* Bodies are zeros, which is the worst case for a reader: a body then     *)
(* looks like padding and end blocks.                                      *)
(***************************************************************************)
EXTENDS Writer

CONSTANTS
  MaxU64,         \* largest u64
  MaxMetadata     \* ReadLimits::max_metadata_bytes of the reader

(* The name on a byte tells its entry; and the reader's limits leave room  *)
(* for what is written: one that allows less refuses some of it.           *)
ASSUME RoundTripAssumption ==
  /\ MaxU64 \in Nat /\ MaxMetadata \in 0 .. MaxU64
  /\ \A e, f \in Entries : e.name = f.name => e = f
  /\ \A e \in Entries :
       /\ e.long <= MaxMetadata
       /\ e.long + (Block - 1) <= MaxU64
       /\ e.size + (Block - 1) <= MaxU64

Tapes == INSTANCE TapeWalk

Named(name) == CHOOSE e \in Entries : e.name = name

(* The header read at offset o, 0 being the first byte.                    *)
HeaderAt(out, o) ==
  LET token == out[o + 1]
      header(kind, size) == [kind |-> kind, size |-> size, pax |-> Tapes!NoSize]
  IN  IF o = Len(out) \/ token.part \notin {"header", "long header"}
      THEN header("other", 0)
      ELSE IF token.part = "header" THEN header("entry", Named(token.entry).size)
      ELSE header("long", Named(token.entry).long)

(* A decoder makes a tape of the bytes before the end of the frame, which  *)
(* it misses when it is not there.                                         *)
FrameEnd == [entry |-> "archive", part |-> "frame end"]
Ended(out) == out # <<>> /\ out[Len(out)] = FrameEnd
Plain(out) == IF Ended(out) THEN SubSeq(out, 1, Len(out) - 1) ELSE out

TapeOf(plain) ==
  [len   |-> Len(plain),
   dirty |-> {o \in 0 .. Len(plain) - 1 :
                plain[o + 1].part \in {"header", "long header", "long name"}},
   at    |-> [o \in 0 .. Len(plain) |-> HeaderAt(plain, o)]]

AsTape(out) == TapeOf(Plain(out))

Decodes(out) == format = "TarZstd" => Ended(out)
Readable(out) == Decodes(out) /\ Tapes!Complete(AsTape(out))

-----------------------------------------------------------------------------
(* What finish returns is an archive that the reading side walks to a      *)
(* clean end, and the members it meets are the entries append answered Ok  *)
(* to, each at the place it was written: no record is missing, doubled or  *)
(* taken for payload (writer.rs:155-198 against guard.rs:45-83).           *)
PublishedIsReadable ==
  step = "published" =>
    /\ Readable(sink)
    /\ Tapes!Walk(AsTape(sink)).members
         = {o \in 0 .. Len(accepted) - 1 : accepted[o + 1].part = "header"}

(* As long as a writer lives, what it has put into its sink passes for a   *)
(* complete archive only once finish has begun and nothing has failed,     *)
(* wherever in a record or a body an append stopped (writer.rs:178,        *)
(* reader.rs:234).  What is written when it is dropped is not modelled.    *)
UnfinishedIsIncomplete ==
  step # "lost" /\ (failed \/ step \in {"idle"} \cup Appending) => ~Readable(sink)
=============================================================================
