------------------------------ MODULE ByteCaps ------------------------------
(***************************************************************************)
(* The layers between the source of an archive and HeaderGuard: Meter      *)
(* counts what is pulled, compress::decoded peeks at the magic and selects *)
(* the decoder, Cap charges what is decoded and takes a read back that     *)
(* breaches a limit; read_error names the failure on its way up.           *)
(*                                                                         *)
(* The caller may keep polling after a failure: a lent body goes on being  *)
(* read (ReadEntry does not stop it), and only Cap's own flag refuses.     *)
(***************************************************************************)
EXTENDS Integers

CONSTANTS
  Sources,      \* the sources considered, see IsSource
  LimitSets,    \* ReadLimits: [total : max_total_bytes, ratio : max_compression_ratio]
  PeekLen,      \* PEEK_LEN, the length of the zstd magic
  Floor,        \* RATIO_FLOOR_BYTES
  MaxU64,       \* largest value of a u64
  Chunk         \* most bytes one pull or one read moves

(* len: encoded bytes; zstd: they begin with the magic; out: the bytes     *)
(* they decode to; flaw: what a codec, the guard or the parser finds wrong *)
(* with them.  Nobody decodes 2^64 bytes, so the counters do not wrap.     *)
Flaws == {"none", "Malformed", "DisallowedEntryType", "max_metadata_bytes"}
IsSource(s) ==
  /\ s.len \in 0 .. MaxU64
  /\ s.out \in 0 .. MaxU64
  /\ s.zstd \in BOOLEAN
  /\ s.flaw \in Flaws
  /\ s.zstd => s.len >= PeekLen
  /\ ~s.zstd => s.out = s.len

ASSUME ByteCapsAssumption ==
  /\ MaxU64 \in Nat /\ PeekLen \in Nat \ {0} /\ Floor \in Nat /\ Chunk \in Nat \ {0}
  /\ \A s \in Sources : IsSource(s)
  /\ \A l \in LimitSets : l.total \in 0 .. MaxU64 /\ l.ratio \in 0 .. MaxU64

VARIABLES
  source, limits,   \* fixed when the archive is opened
  pos,              \* bytes the source has given
  encoded,          \* Meter::count, shared with Cap and Reader
  seen,             \* bytes peeked at
  open,             \* compress::decoded has returned
  decoded,          \* Cap::total, shared with Reader
  cap_failed,       \* Cap::failed
  handed,           \* bytes that left Cap (history)
  broken,           \* the transport has failed (history)
  answer            \* what the last poll gave the reader above

vars == <<source, limits, pos, encoded, seen, open, decoded, cap_failed, handed, broken, answer>>
fixed == <<source, limits>>

Breaches == {"max_total_bytes", "max_compression_ratio", "aborted"}
Answers == (Flaws \ {"none"}) \cup {"pending", "bytes", "end", "Io"} \cup Breaches

TypeOK ==
  /\ source \in Sources /\ limits \in LimitSets
  /\ pos \in 0 .. source.len
  /\ encoded \in 0 .. MaxU64
  /\ seen \in 0 .. PeekLen
  /\ decoded \in 0 .. source.out
  /\ handed \in 0 .. decoded
  /\ {open, cap_failed, broken} \subseteq BOOLEAN
  /\ answer \in Answers

Init ==
  /\ source \in Sources /\ limits \in LimitSets
  /\ pos = 0 /\ encoded = 0 /\ seen = 0 /\ decoded = 0 /\ handed = 0
  /\ open = FALSE /\ cap_failed = FALSE /\ broken = FALSE
  /\ answer = "pending"

-----------------------------------------------------------------------------
(* compress::decoded.                                                      *)
AnyRead(n) == n > 0             \* mutant: one read is taken for all
PeekedEnough(n) == n = PeekLen

(* Mutant: the source is metered only after the peek.                      *)
PeekUnmetered(k) ==
  /\ pos' = pos + k
  /\ seen' = seen + k
  /\ open' = PeekedEnough(seen')
  /\ UNCHANGED <<encoded, broken, answer>>

PeekSome(k) ==
  /\ pos' = pos + k
  /\ encoded' = encoded + k
  /\ seen' = seen + k
  /\ open' = PeekedEnough(seen')
  /\ UNCHANGED <<broken, answer>>

PeekEnd ==
  /\ pos = source.len
  /\ open' = TRUE
  /\ UNCHANGED <<pos, encoded, seen, broken, answer>>

PeekFails ==
  /\ answer' = "Io"
  /\ broken' = TRUE
  /\ UNCHANGED <<pos, encoded, seen, open>>

Peek ==
  /\ ~open
  /\ answer # "Io"
  /\ \/ \E k \in 1 .. PeekLen - seen : pos + k <= source.len /\ PeekSome(k)
     \/ PeekEnd
     \/ PeekFails
  /\ UNCHANGED <<fixed, decoded, cap_failed, handed>>

(* wrap.  The peeked bytes are replayed in front of the rest.              *)
Zstd == source.zstd /\ seen = PeekLen
WholeArray == PeekLen           \* mutant: magic, not magic[..seen]
Replayed == seen
Buffered == Replayed + (pos - seen) - decoded

-----------------------------------------------------------------------------
(* read_error: the total cap has the first word, then the payload of the   *)
(* io::Error; an error of the codec or the parser has none.                *)
ReadError(payload, total) ==
  IF total > limits.total THEN "max_total_bytes"
  ELSE IF payload = "codec" THEN "Malformed" ELSE payload

Polls == open /\ ~cap_failed

(* The buffered reader below the decoder pulls through Meter.              *)
Pull ==
  /\ Polls
  /\ \E k \in 1 .. Chunk :
       /\ pos + k <= source.len
       /\ pos' = pos + k
       /\ encoded' = encoded + k
  /\ UNCHANGED <<fixed, seen, open, decoded, cap_failed, handed, broken, answer>>

Wrapping(a, b) == (a * b) % (MaxU64 + 1)     \* mutant: a plain multiplication
Saturating(a, b) == IF a * b > MaxU64 THEN MaxU64 ELSE a * b

Breach(now) ==
  IF now > limits.total THEN "max_total_bytes"
  ELSE IF now > Floor /\ encoded > 0 /\ now > Saturating(encoded, limits.ratio)
       THEN "max_compression_ratio"
  ELSE "none"

(* Mutant: the error is returned, the bytes stay in the caller's buffer.   *)
TakeNothingBack(n) ==
  /\ handed' = handed + n
  /\ cap_failed' = TRUE
  /\ answer' = ReadError(Breach(decoded'), decoded')

(* Mutant: the next read goes on behind the bytes that were taken back.    *)
TakeBackOnce(n) ==
  /\ answer' = ReadError(Breach(decoded'), decoded')
  /\ UNCHANGED <<handed, cap_failed>>

TakeBack(n) ==
  /\ cap_failed' = TRUE
  /\ answer' = ReadError(Breach(decoded'), decoded')
  /\ UNCHANGED handed

(* The decoder has n bytes for Cap, which charges them in any case.        *)
Emit(n) ==
  /\ Polls
  /\ IF Zstd THEN decoded + n <= source.out ELSE n <= Buffered
  /\ decoded' = decoded + n
  /\ \/ /\ Breach(decoded') = "none"
        /\ handed' = handed + n
        /\ answer' = "bytes"
        /\ UNCHANGED cap_failed
     \/ /\ Breach(decoded') # "none"
        /\ TakeBack(n)
  /\ UNCHANGED <<fixed, pos, encoded, seen, open, broken>>

(* The decoder answers a read with nothing, which is the end.              *)
End ==
  /\ Polls
  /\ pos = source.len
  /\ IF Zstd THEN decoded = source.out ELSE Buffered = 0
  /\ source.flaw = "none"
  /\ answer' = "end"
  /\ UNCHANGED <<fixed, pos, encoded, seen, open, decoded, cap_failed, handed, broken>>

(* A poll fails: the transport, whose error Meter wraps in Error::Io; the  *)
(* codec or the parser, on a broken stream; or the guard above.            *)
PollFails ==
  /\ Polls
  /\ \/ /\ answer' = ReadError("Io", decoded)
        /\ broken' = TRUE
     \/ /\ source.flaw # "none"
        /\ answer' = ReadError(IF source.flaw = "Malformed" THEN "codec" ELSE source.flaw, decoded)
        /\ UNCHANGED broken
  /\ UNCHANGED <<fixed, pos, encoded, seen, open, decoded, cap_failed, handed>>

PollAborted ==
  /\ cap_failed
  /\ answer' = "aborted"
  /\ UNCHANGED <<fixed, pos, encoded, seen, open, decoded, cap_failed, handed, broken>>

Next ==
  \/ Peek
  \/ Pull
  \/ \E n \in 1 .. Chunk : Emit(n)
  \/ End
  \/ PollFails
  \/ PollAborted

Spec == Init /\ [][Next]_vars

-----------------------------------------------------------------------------
(* However reads are cut, no byte above max_total_bytes leaves the cap     *)
(* (open.rs:253), and above the floor none that more than ratio times the  *)
(* bytes pulled could account for (open.rs:276).                           *)
CapsHold ==
  /\ handed <= limits.total
  /\ handed > Floor => handed <= encoded * limits.ratio

(* An error has the name of its cause, also where counters come near 2^64: *)
(* a limit is named only when it is exceeded, a flaw of the stream only    *)
(* where there is one, and Io only where the transport has failed; and no  *)
(* other answer hides that a limit was exceeded, Malformed and Io included *)
(* (open.rs:149-155, 283-296).                                             *)
ErrorIsTrue ==
  /\ answer = "max_total_bytes" => decoded > limits.total
  /\ answer = "max_compression_ratio" =>
       /\ decoded \in Floor + 1 .. limits.total
       /\ decoded > encoded * limits.ratio
  /\ answer = "aborted" => cap_failed /\ handed < decoded
  /\ answer \in Flaws => answer = source.flaw
  /\ answer = "Io" => broken
  /\ answer \notin Breaches => handed = decoded /\ decoded <= limits.total

(* An archive that is not compressed is never taken for a bomb, unless the *)
(* ratio is zero: the bytes peeked at count as input (reader.rs:131).      *)
PlainIsNeverSuspect ==
  ~source.zstd /\ limits.ratio > 0 => answer # "max_compression_ratio"

(* A clean end vouches for every byte: the source is drained, all it       *)
(* decodes to was handed on, and the counts of ValidationReport are exact, *)
(* however short the reads of the peek were (compress.rs:14-20).           *)
NothingLost ==
  answer = "end" =>
    /\ encoded = source.len /\ pos = source.len
    /\ decoded = source.out /\ handed = source.out

(* Once bytes were taken back there is a gap, and no byte behind it may    *)
(* ever be handed on (open.rs:240, 255).                                   *)
NoByteBehindGap == [][handed < decoded => handed' = handed]_vars
=============================================================================
