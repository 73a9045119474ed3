----------------------------- MODULE TarFraming -----------------------------
(***************************************************************************)
(* What HeaderGuard promises, with no bytes in flight: the headers of a    *)
(* tape are visited one by one, each exactly where the payload of the one  *)
(* before it ends.  How the tape was cut into reads cannot matter here,    *)
(* because nothing is cut.                                                 *)
(***************************************************************************)
EXTENDS Tape

CONSTANT Tapes

VARIABLES
  tape,      \* the stream
  at,        \* offset of the next header to visit, or Over
  pending,   \* size the last 'x' record gave the next member, or NoSize
  ext,       \* offset of the 'x' header whose payload comes next, or NoExt
  verdict    \* why the walk was refused, "none" if it was not

framingVars == <<tape, at, pending, ext, verdict>>

Over  == -1                  \* the first end block has been visited
NoExt == -1

FramingInit ==
  /\ tape \in Tapes
  /\ at = 0
  /\ pending = NoSize
  /\ ext = NoExt
  /\ verdict = "none"

Fail(why) ==
  /\ verdict' = why
  /\ pending' = NoSize
  /\ ext' = NoExt
  /\ UNCHANGED <<tape, at>>

(* The whole header is on the tape and no payload is outstanding.          *)
Visitable == verdict = "none" /\ ext = NoExt /\ at # Over /\ at + Block <= tape.len

End ==
  /\ Visitable
  /\ ZeroBlock(tape, at)
  /\ at' = Over
  /\ UNCHANGED <<tape, pending, ext, verdict>>

Refuse ==
  /\ Visitable
  /\ ~ZeroBlock(tape, at)
  /\ Refusal(tape.at[at], pending) # "none"
  /\ Fail(Refusal(tape.at[at], pending))

(* A member uses the pending size up; an extension record leaves it alone, *)
(* except that a new 'x' record replaces it once its payload is read.      *)
Visit ==
  LET h == tape.at[at]
  IN  /\ Visitable
      /\ ~ZeroBlock(tape, at)
      /\ Refusal(h, pending) = "none"
      /\ at' = at + Block + Padded(PayloadSize(h, pending))
      /\ \/ h.kind = "entry" /\ pending' = NoSize /\ ext' = NoExt
         \/ h.kind = "long"  /\ UNCHANGED <<pending, ext>>
         \/ h.kind = "pax"   /\ h.size = 0 /\ pending' = NoSize /\ ext' = NoExt
         \/ h.kind = "pax"   /\ h.size > 0 /\ pending' = pending /\ ext' = at
      /\ UNCHANGED <<tape, verdict>>

(* The payload of the 'x' record has been read to its end.                 *)
Absorb ==
  /\ verdict = "none"
  /\ ext # NoExt
  /\ at <= tape.len
  /\ \/ /\ tape.at[ext].pax = Bad
        /\ Fail("malformed")
     \/ /\ tape.at[ext].pax # Bad
        /\ pending' = tape.at[ext].pax
        /\ ext' = NoExt
        /\ UNCHANGED <<tape, at, verdict>>

FramingNext == End \/ Refuse \/ Visit \/ Absorb

FramingSpec == FramingInit /\ [][FramingNext]_framingVars
=============================================================================
