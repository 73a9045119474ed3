--------------------------- MODULE GuardedParser ---------------------------
(***************************************************************************)
(* HeaderGuard with the two readers that sit on top of it: the tar parser  *)
(* (the tokio_tar crate, modelled from how reader.rs and the tests of the  *)
(* repository use it) and, once the parser says the archive is over,       *)
(* Reader::verify_end.  The parser keeps its own account of where headers  *)
(* are; nothing but arithmetic keeps it in step with the guard's.          *)
(*                                                                         *)
(* The parser may refuse any header for reasons of its own (a checksum, a  *)
(* second extension record for one member), and Reader may refuse a member *)
(* (open_entry): both end in the phase "refused".                          *)
(***************************************************************************)
EXTENDS HeaderGuard, TapeWalk

(* A payload without bytes holds no records: parse_pax_size says None      *)
(* (guard.rs:163).                                                         *)
ASSUME EmptyPayloads ==
  \A t \in Tapes : \A o \in DOMAIN t.at :
    t.at[o].kind = "pax" /\ t.at[o].size = 0 => t.at[o].pax = NoSize

VARIABLES
  phase,      \* what the bytes being read are for, see Phases
  start,      \* offset of the header the parser is at
  limit,      \* end of the bytes this phase reads
  next,       \* offset of the header after that
  override    \* the parser's own pax size for the next member, or NoSize

parserVars == <<phase, start, limit, next, override>>
vars == <<guardVars, parserVars>>

Reading  == {"header", "extension", "member", "seek", "verify"}
Finished == {"accepted",    \* verify_end returned Ok
             "rejected",    \* guard, parser or verify_end found the tape bad
             "refused",     \* the parser or Reader had another reason
             "unguarded"}   \* the parser interprets a type the guard bars
Phases == Reading \cup Finished

Init ==
  /\ GuardInit
  /\ phase = "header"
  /\ start = 0
  /\ limit = Block
  /\ next = Block
  /\ override = NoSize

Goto(p) == phase' = p /\ UNCHANGED <<start, limit, next, override>>

-----------------------------------------------------------------------------
(* The reader on top polls the guard.                                      *)
Room == IF phase = "verify" THEN Chunk ELSE Least(Chunk, limit - handed)

(* verify_end rejects the first chunk with a byte that is not zero.        *)
Dirty(from, to) == \E b \in from .. to - 1 : b \in tape.dirty

Poll ==
  /\ phase \in Reading
  /\ \E room \in 1 .. Room : Deliver(room)
  /\ IF verdict' # "none" \/ (phase = "verify" /\ Dirty(handed, handed'))
     THEN Goto("rejected")
     ELSE UNCHANGED parserVars

PollRefused ==
  /\ phase \in Reading
  /\ Room > 0
  /\ RefuseHeader
  /\ Goto("rejected")

PollStalls ==
  /\ phase \in Reading
  /\ Room > 0
  /\ \E k \in 1 .. Block : StallInHeader(k)
  /\ UNCHANGED parserVars

-----------------------------------------------------------------------------
(* verify_end has seen an end block's worth of zeros behind the first one. *)
AnyTrailer   == handed > start                  \* mutant: any zero will do
WholeTrailer == handed - start >= Block

(* The guard answers a poll with nothing: the source is at its end and the *)
(* header, if one was begun, stays in the guard.                           *)
NothingLeft ==
  /\ pos = tape.len
  /\ InHeader => filled < Block

(* Between two headers the parser takes that for the end of the archive;   *)
(* verify_end then finds less than a block behind it.                      *)
EndOfFile ==
  /\ Room > 0
  /\ NothingLeft
  /\ \/ /\ phase = "header" /\ handed = start
        /\ phase' = "verify"
        /\ start' = handed
        /\ UNCHANGED <<limit, next, override>>
     \/ /\ phase = "header" /\ handed # start
        /\ Goto("rejected")
     \/ /\ phase = "extension"
        /\ Goto("seek")
     \/ /\ phase = "seek"
        /\ Goto("rejected")
     \/ /\ phase = "verify"
        /\ Goto(IF WholeTrailer THEN "accepted" ELSE "rejected")
  /\ UNCHANGED guardVars

-----------------------------------------------------------------------------
(* The parser has a whole header.  A zero block ends the archive and hands *)
(* the rest of the stream to verify_end; a member's body is lent out.      *)
ReadHeader ==
  LET h == tape.at[start]
      size == PayloadSize(h, override)
  IN  /\ phase = "header"
      /\ handed = limit
      /\ \/ /\ ZeroBlock(tape, start)
            /\ phase' = "verify"
            /\ start' = handed
            /\ UNCHANGED <<limit, next, override>>
         \/ /\ ~ZeroBlock(tape, start)
            /\ h.kind = "other"
            /\ Goto("unguarded")
         \/ /\ ~ZeroBlock(tape, start)
            /\ h.kind # "other"
            /\ phase' = IF IsExtension(h) THEN "extension" ELSE "member"
            /\ start' = start
            /\ limit' = start + Block + size
            /\ next' = start + Block + Padded(size)
            /\ override' = IF IsExtension(h) THEN override ELSE NoSize
         \/ /\ ~ZeroBlock(tape, start)
            /\ Goto("refused")
      /\ UNCHANGED guardVars

(* The payload of an extension record is in the parser's buffer.           *)
ReadExtension ==
  LET h == tape.at[start]
  IN  /\ phase = "extension"
      /\ handed = limit
      /\ \/ /\ h.kind = "pax" /\ h.pax = Bad
            /\ Goto("rejected")
         \/ /\ h.kind = "pax" => h.pax # Bad
            /\ phase' = "seek"
            /\ override' = IF h.kind = "pax" THEN h.pax ELSE override
            /\ limit' = next
            /\ UNCHANGED <<start, next>>
      /\ UNCHANGED guardVars

(* next_entry is called, with any part of the body still unread: the       *)
(* parser skips to the next header.                                        *)
LeaveMember ==
  /\ phase = "member"
  /\ phase' = "seek"
  /\ limit' = next
  /\ UNCHANGED <<start, next, override, guardVars>>

(* The next header begins here.                                            *)
ArriveAtHeader ==
  /\ phase = "seek"
  /\ handed = next
  /\ phase' = "header"
  /\ start' = next
  /\ limit' = next + Block
  /\ next' = next + Block
  /\ UNCHANGED <<override, guardVars>>

Next ==
  \/ Poll
  \/ PollRefused
  \/ PollStalls
  \/ EndOfFile
  \/ ReadHeader
  \/ ReadExtension
  \/ LeaveMember
  \/ ArriveAtHeader

Spec == Init /\ [][Next]_vars

(* next_entry drives every step but LeaveMember to its end without waiting *)
(* for anyone but the source; its caller does call it again.               *)
FairSpec == Spec /\ WF_vars(Next)

-----------------------------------------------------------------------------
(* The guard and the parser agree, byte for byte and however the stream is *)
(* cut, on where the current header or payload ends (guard.rs:73-82 and    *)
(* 151 against the parser's own count), and on the pax size of the next    *)
(* member whenever no record is in flight.  Once they disagree the guard   *)
(* inspects payload and lets headers through.                              *)
Lockstep ==
  /\ phase \in Reading \ {"verify"} =>
       IF phase = "header" /\ handed < limit
       THEN emitted = handed - start /\ data_remaining = 0 /\ ~trailer
       ELSE IF phase = "header" \* read in full, not yet looked at
       THEN filled = 0 /\ data_remaining
                            = IF ZeroBlock(tape, start) THEN 0
                              ELSE Padded(PayloadSize(tape.at[start], override))
       ELSE emitted = 0 /\ data_remaining = next - handed
  /\ phase = "header" /\ handed = start /\ emitted = 0 => override = pax_size

(* The parser never interprets a member type guard.rs:51-59 bars, and      *)
(* never buffers an extension record above max_metadata_bytes.             *)
ParserIsGuarded ==
  /\ phase # "unguarded"
  /\ phase = "extension" => limit - start - Block <= MaxMetadata

(* next_entry reports a clean end only for a complete archive, read to its *)
(* last byte: in particular never for a header that the tape cuts short,   *)
(* which the guard turns into a plain end of file (guard.rs:106).  And     *)
(* every archive that is rejected deserves it.                             *)
AcceptedIffComplete ==
  /\ phase = "accepted" => Complete(tape) /\ handed = tape.len
  /\ phase = "rejected" => ~Complete(tape)

(* Reading an archive entry by entry comes to an end.                      *)
ReadingEnds == <>(phase \in Finished)
=============================================================================
