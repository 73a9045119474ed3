---------------------------- MODULE HeaderGuard ----------------------------
(***************************************************************************)
(* HeaderGuard of guard.rs: an AsyncRead between the metered decoder and   *)
(* the tar parser.  It collects each 512-byte header in a buffer of its    *)
(* own, inspects it before the parser sees a byte of it, hands it on, and  *)
(* then counts the payload down to the next header.  Headers and payloads  *)
(* arrive and leave in pieces of any length: every poll may be cut short   *)
(* by the source (Poll::Pending, an error, its end) or by the room in the  *)
(* caller's buffer, and the next poll resumes from the fields below.       *)
(*                                                                         *)
(* One action is one call of poll_read.  An error of the guard's own is    *)
(* final here: it reaches Reader::next_entry, which poisons the reader     *)
(* (reader.rs:162-182), so the guard is never polled again.  An error of   *)
(* the source is not: a body read that failed may be polled again.         *)
(***************************************************************************)
EXTENDS Tape

CONSTANTS
  Tapes,        \* the streams considered
  Chunk         \* largest room a caller's ReadBuf has (bounds the polls)

ASSUME GuardAssumption ==
  /\ \A t \in Tapes : IsTape(t)
  /\ Chunk \in Nat \ {0}

VARIABLES
  tape,             \* the stream behind the guard; never changes
  pos,              \* bytes the guard has pulled from it
  handed,           \* bytes the guard has put in its callers' buffers
  filled,           \* bytes of the header buffer that are filled
  emitted,          \* bytes of it that are handed on
  data_remaining,   \* padded payload still to pass
  next_data,        \* padded payload of the header being handed on
  next_trailer,     \* that header is the first end block
  trailer,          \* past the first end block: everything passes
  pax_body,         \* kept payload of an 'x' record, as offsets, or NoBody
  pax_remaining,    \* bytes of it still to keep
  pax_size,         \* size override for the next member, or NoSize
  verdict           \* the error the guard ended with, "none" before it

paxVars == <<pax_body, pax_remaining, pax_size>>
headerVars == <<filled, emitted, next_data, next_trailer>>
guardVars == <<tape, pos, handed, headerVars, data_remaining, trailer,
               paxVars, verdict>>

NoBody == {-1}               \* Option::None of the kept payload

Verdicts == {"none", "disallowed", "malformed", "max_metadata_bytes"}

TypeOK ==
  /\ IsTape(tape)
  /\ pos \in 0 .. tape.len
  /\ handed \in 0 .. tape.len
  /\ filled \in 0 .. Block
  /\ emitted \in 0 .. Block - 1
  /\ data_remaining \in Nat
  /\ next_data \in Nat
  /\ next_trailer \in BOOLEAN
  /\ trailer \in BOOLEAN
  /\ pax_body \subseteq Nat \/ pax_body = NoBody
  /\ pax_remaining \in Nat
  /\ pax_size \in U64 \cup {NoSize}
  /\ verdict \in Verdicts

GuardInit ==
  /\ tape \in Tapes
  /\ pos = 0
  /\ handed = 0
  /\ filled = 0
  /\ emitted = 0
  /\ data_remaining = 0
  /\ next_data = 0
  /\ next_trailer = FALSE
  /\ trailer = FALSE
  /\ pax_body = NoBody
  /\ pax_remaining = 0
  /\ pax_size = NoSize
  /\ verdict = "none"

-----------------------------------------------------------------------------
(* The header whose first byte is the first byte in the buffer.            *)
HeaderStart == pos - filled
InHeader == ~trailer /\ data_remaining = 0

(* The payload just ended: take what was kept and parse it.                *)
FinishPax(body) ==
  LET size == ParsePaxSize(tape, body)
  IN  /\ pax_body' = NoBody
      /\ pax_size' = IF size = Bad THEN pax_size ELSE size
      /\ verdict' = IF size = Bad THEN "malformed" ELSE verdict

(* Mutant: each poll fills the buffer from its start again.                *)
StallAtStart(k) ==
  /\ InHeader
  /\ filled + k < Block
  /\ pos + k <= tape.len
  /\ pos' = pos + k
  /\ filled' = k
  /\ UNCHANGED <<tape, handed, emitted, next_data, next_trailer,
                 data_remaining, trailer, paxVars, verdict>>

(* The fill loop leaves the poll early, with k more bytes in the buffer:   *)
(* the source is pending, failed, or at its end.                           *)
StallInHeader(k) ==
  /\ InHeader
  /\ filled + k < Block
  /\ pos + k <= tape.len
  /\ pos' = pos + k
  /\ filled' = filled + k
  /\ UNCHANGED <<tape, handed, emitted, next_data, next_trailer,
                 data_remaining, trailer, paxVars, verdict>>

(* inspect runs when the header in the buffer is complete and none of it   *)
(* is handed on yet.  What the fields are after it, or still are when it   *)
(* ran in an earlier poll: the kept payload is opened and a pending        *)
(* override is taken before the rounded size is computed.                  *)
TheHeader == tape.at[HeaderStart]
IsZero    == ZeroBlock(tape, HeaderStart)
Opens     == emitted = 0 /\ ~IsZero

(* Mutant: an end block does not return from inspect early.                *)
NextDataOfAny == IF emitted = 0 THEN Padded(PayloadSize(TheHeader, pax_size)) ELSE next_data

NextData    == IF Opens THEN Padded(PayloadSize(TheHeader, pax_size)) ELSE next_data
NextTrailer == next_trailer \/ (emitted = 0 /\ IsZero)

(* Mutants: the padding of an 'x' record is kept too; a member reads the  *)
(* override and leaves it for the next one.                                *)
PaddedRemaining ==
  IF Opens /\ TheHeader.kind = "pax" THEN Padded(TheHeader.size) ELSE pax_remaining
KeptSize == pax_size

OpenedBody == IF Opens /\ TheHeader.kind = "pax" THEN {} ELSE pax_body
OpenedRemaining ==
  IF Opens /\ TheHeader.kind = "pax" THEN TheHeader.size ELSE pax_remaining
TakenSize == IF Opens /\ ~IsExtension(TheHeader) THEN NoSize ELSE pax_size

(* The header is complete and inspect refuses it: nothing is handed on.    *)
(* Only the overflow of the rounded size is found after the pax fields     *)
(* have changed.                                                           *)
RefuseHeader ==
  /\ InHeader
  /\ HeaderStart + Block <= tape.len
  /\ Opens
  /\ Refusal(TheHeader, pax_size) # "none"
  /\ pos' = HeaderStart + Block
  /\ filled' = Block
  /\ verdict' = Refusal(TheHeader, pax_size)
  /\ IF verdict' = "malformed" /\ TheHeader.size # Bad
     THEN /\ pax_body' = OpenedBody
          /\ pax_remaining' = OpenedRemaining
          /\ pax_size' = TakenSize
     ELSE UNCHANGED paxVars
  /\ UNCHANGED <<tape, handed, emitted, next_data, next_trailer,
                 data_remaining, trailer>>

HeaderReady ==
  /\ InHeader
  /\ HeaderStart + Block <= tape.len
  /\ Opens => Refusal(TheHeader, pax_size) = "none"

(* The caller's room takes some of the header but not the rest of it.      *)
IsPart(room) == emitted + room < Block

HandOnPart(room) ==
  /\ HeaderReady
  /\ IsPart(room)
  /\ pos' = HeaderStart + Block
  /\ filled' = Block
  /\ emitted' = emitted + room
  /\ handed' = handed + room
  /\ next_data' = NextData
  /\ next_trailer' = NextTrailer
  /\ pax_body' = OpenedBody
  /\ pax_remaining' = OpenedRemaining
  /\ pax_size' = TakenSize
  /\ UNCHANGED <<tape, data_remaining, trailer, verdict>>

(* The last byte of the header leaves and the payload, if any, begins; an  *)
(* 'x' record without one is complete at once.                             *)
HandOnRest(room) ==
  /\ HeaderReady
  /\ ~IsPart(room)
  /\ pos' = HeaderStart + Block
  /\ filled' = 0
  /\ emitted' = 0
  /\ handed' = handed + (Block - emitted)
  /\ data_remaining' = NextData
  /\ next_data' = 0
  /\ next_trailer' = NextTrailer
  /\ trailer' = NextTrailer
  /\ pax_remaining' = OpenedRemaining
  /\ IF NextData = 0 /\ OpenedBody # NoBody
     THEN FinishPax(OpenedBody)
     ELSE /\ pax_body' = OpenedBody
          /\ pax_size' = TakenSize
          /\ UNCHANGED verdict
  /\ UNCHANGED tape

(* What read_data may take from the source: never more than the payload.   *)
(* Mutants: the room is not capped; the last byte is left behind.          *)
Uncapped(n)    == pos + n <= tape.len /\ data_remaining > 0
AllButLast(n)  == pos + n <= tape.len /\ n < data_remaining
Takes(n)       == pos + n <= tape.len /\ n <= data_remaining

(* read_data: n bytes of payload pass, those of an 'x' record are kept up  *)
(* to its unpadded size, and the last one completes the record.            *)
PassData(n) ==
  LET keep == Least(n, pax_remaining)
      body == pax_body \cup (pos .. pos + keep - 1)
  IN  /\ ~trailer
      /\ Takes(n)
      /\ pos' = pos + n
      /\ handed' = handed + n
      /\ data_remaining' = data_remaining - n
      /\ \/ /\ pax_body = NoBody
            /\ UNCHANGED <<paxVars, verdict>>
         \/ /\ pax_body # NoBody
            /\ pax_remaining' = pax_remaining - keep
            /\ \/ /\ n < data_remaining
                  /\ pax_body' = body
                  /\ UNCHANGED <<pax_size, verdict>>
               \/ /\ n = data_remaining
                  /\ FinishPax(body)
      /\ UNCHANGED <<tape, headerVars, trailer>>

PassTrailer(n) ==
  /\ trailer
  /\ pos + n <= tape.len
  /\ pos' = pos + n
  /\ handed' = handed + n
  /\ UNCHANGED <<tape, headerVars, data_remaining, trailer, paxVars, verdict>>

(* A poll that puts at least one byte in a buffer with the given room.     *)
Deliver(room) ==
  \/ HandOnPart(room)
  \/ HandOnRest(room)
  \/ \E n \in 1 .. room : PassData(n) \/ PassTrailer(n)

GuardNext ==
  /\ verdict = "none"
  /\ \/ \E k \in 1 .. Block : StallInHeader(k)
     \/ RefuseHeader
     \/ \E room \in 1 .. Chunk : Deliver(room)

GuardSpec == GuardInit /\ [][GuardNext]_guardVars

(* Callers that keep polling, a source that keeps answering.               *)
GuardFairSpec == GuardSpec /\ WF_guardVars(GuardNext)

-----------------------------------------------------------------------------
(* Every byte pulled from the source is in the header buffer or has been   *)
(* handed on, once and in order, whatever the lengths of the polls: the    *)
(* buffer is never refilled over bytes that are still owed (guard.rs:102), *)
(* and payload never overtakes it (guard.rs:99).                           *)
Accounting ==
  /\ filled <= pos
  /\ handed = pos - filled + emitted
  /\ emitted > 0 => filled = Block
  /\ data_remaining > 0 => filled = 0
  /\ trailer => filled = 0

(* A header is inspected once, before its first byte is handed on, and     *)
(* what inspect found is spent when its last byte is: the two counters are *)
(* never alive together, and nothing follows the first end block.          *)
SpentOnce ==
  /\ emitted = 0 => next_data = 0
  /\ data_remaining > 0 => emitted = 0
  /\ next_trailer =>
       /\ next_data = 0 /\ data_remaining = 0 /\ pax_body = NoBody
       /\ trailer \/ emitted > 0
  /\ trailer => next_trailer /\ emitted = 0

(* While an 'x' record is under way, the bytes kept of its payload are its *)
(* first ones, none skipped and none of the padding, and they will be      *)
(* complete when the payload is over (guard.rs:140-156): first is where    *)
(* the payload begins.                                                     *)
PayloadFrom(first) ==
  LET h == tape.at[first - Block]
      kept == h.size - pax_remaining
  IN  /\ h.kind = "pax"
      /\ h.size \in Nat
      /\ pax_remaining <= h.size
      /\ pax_body = first .. first + kept - 1
      /\ first + kept <= pos
      /\ pax_remaining > 0 => pos = first + kept
      /\ first + Padded(h.size) = pos + next_data + data_remaining
      /\ data_remaining > 0 \/ (emitted > 0 /\ kept = 0 /\ pos = first)

PaxIsPrefix ==
  pax_body # NoBody /\ verdict = "none" => \E first \in Block .. tape.len : PayloadFrom(first)

(* The walk of TarFraming that the fields of the guard stand for: next_data *)
(* and data_remaining lie between the bytes pulled and the next header.    *)
Ahead == next_data + data_remaining

FramingAt ==
  IF next_trailer THEN -1 ELSE pos - (IF emitted > 0 THEN 0 ELSE filled) + Ahead

FramingPending ==
  IF verdict # "none" \/ (pax_body # NoBody /\ Ahead = 0) THEN NoSize ELSE pax_size

FramingExt ==
  IF verdict # "none" \/ pax_body = NoBody \/ Ahead = 0 THEN -1
  ELSE IF pax_body = {} THEN pos - Block ELSE First(pax_body) - Block

Framing ==
  INSTANCE TarFraming WITH
    at <- FramingAt, pending <- FramingPending, ext <- FramingExt

(* Reads cut anywhere visit the same headers, give the same members the    *)
(* same size and refuse the same tapes for the same reason as the walk     *)
(* that never sees a cut.                                                  *)
FollowsFraming == Framing!FramingSpec

(* A guard that is polled on ends with every byte of the tape handed on,   *)
(* with a refusal, or inside a header that the tape cuts short; it never   *)
(* answers a live stream with nothing.                                     *)
Drained ==
  \/ handed = tape.len
  \/ verdict # "none"
  \/ pos = tape.len /\ 0 < filled /\ filled < Block

Drains == <>[]Drained
=============================================================================
