------------------------------- MODULE Reader -------------------------------
(***************************************************************************)
(* Reader of reader.rs as its caller sees it: next_entry, the body it      *)
(* lends, and the end it vouches for.  The stream below (HeaderGuard and   *)
(* the tar parser, see GuardedParser) is a sequence of members and what    *)
(* follows them; any read of it may also fail (transport, or a byte cap).  *)
(*                                                                         *)
(* next_entry is async: its future may be dropped while it parses or       *)
(* verifies.  A lent body may be read in part, in full or not at all, fail, *)
(* and be dropped - or leaked, which safe Rust allows.                     *)
(***************************************************************************)
EXTENDS Integers, Sequences

CONSTANTS
  Streams,          \* the archives considered, see IsStream
  MaxEntries,       \* ReadLimits::max_entries
  MaxEntryBytes,    \* ReadLimits::max_entry_bytes
  Links,            \* link kinds that ReadLimits allows
  Chunk             \* most bytes one read of a body moves

(* A member as open.rs looks at it.  size is the header's size field; body *)
(* is the length of the body the parser streams, which a pax record may    *)
(* have overridden.                                                        *)
Member ==
  [path : {"safe", "unsafe", "unreadable", "too long"},
   kind : {"file", "dir", "symlink", "hardlink",
           "other",       \* a type the guard bars
           "broken"},     \* a header the guard or the parser cannot read
   target : BOOLEAN,      \* a link's target is there and readable
   size : Nat,
   body : Nat,
   meta : BOOLEAN]        \* mode, ids and mtime are readable and fit

(* missing: bytes by which the stream ends inside the last body; sound:    *)
(* what follows the last member is two end blocks and zeros, and the       *)
(* decoder ends cleanly.                                                   *)
IsStream(s) ==
  /\ s.members \in Seq(Member)
  /\ s.sound \in BOOLEAN
  /\ s.missing \in Nat
  /\ s.missing > 0 => Len(s.members) > 0 /\ s.missing <= s.members[Len(s.members)].body

ASSUME ReaderAssumption ==
  /\ \A s \in Streams : IsStream(s)
  /\ MaxEntries \in Nat
  /\ MaxEntryBytes \in Nat
  /\ Links \subseteq {"symlink", "hardlink"}
  /\ Chunk \in Nat \ {0}

VARIABLES
  stream,          \* the archive behind the reader; never changes
  archive,         \* Reader::archive is Some
  entries,         \* Reader::entries is Some
  body_failed,     \* Reader::body_failed, shared with every lent entry
  seen,            \* Reader::seen
  done,            \* Reader::done
  call,            \* "idle", inside next_entry, or "lent"
  at,              \* members whose header the parser has passed
  unread,          \* bytes of the current body the parser has not passed
  bounded_left,    \* Bounded::remaining of the lent body
  bounded_failed,  \* Bounded::failed
  got,             \* bytes the lent body has given the caller
  eof,             \* the lent body has answered Ok(0)
  leaked,          \* an entry was leaked and still holds the archive
  answer,          \* what the last call of next_entry returned
  mishap           \* some call or body read failed or was cancelled (history)

boundedVars == <<bounded_left, bounded_failed, got, eof>>
vars == <<stream, archive, entries, body_failed, seen, done, call, at, unread,
          boundedVars, leaked, answer, mishap>>

Errors == {"Malformed", "Io", "LimitExceeded", "DisallowedEntryType",
           "NonFilePayload", "UnsafePath"}
Answers == {"none", "entry", "end", "Aborted", "cancelled"} \cup Errors

TypeOK ==
  /\ stream \in Streams
  /\ {archive, entries, body_failed, done, bounded_failed, eof, leaked, mishap}
       \subseteq BOOLEAN
  /\ seen \in Nat
  /\ call \in {"idle", "parsing", "verifying", "lent"}
  /\ at \in 0 .. Len(stream.members)
  /\ unread \in Nat
  /\ bounded_left \in 0 .. MaxEntryBytes
  /\ got \in Nat
  /\ answer \in Answers

Init ==
  /\ stream \in Streams
  /\ archive = TRUE
  /\ entries = TRUE
  /\ body_failed = FALSE
  /\ seen = 0
  /\ done = FALSE
  /\ call = "idle"
  /\ at = 0
  /\ unread = 0
  /\ bounded_left = 0
  /\ bounded_failed = FALSE
  /\ got = 0
  /\ eof = FALSE
  /\ leaked = FALSE
  /\ answer = "none"
  /\ mishap = FALSE

-----------------------------------------------------------------------------
(* open_entry, check by check.                                             *)
OpenEntry(m) ==
  CASE m.path = "unreadable"                    -> "Malformed"
    [] m.path = "too long"                      -> "LimitExceeded"
    [] m.path = "unsafe"                        -> "UnsafePath"
    [] m.path = "safe" ->
         IF m.kind \notin {"file", "dir"} \cup Links THEN "DisallowedEntryType"
         ELSE IF m.kind \in Links /\ ~m.target THEN "Malformed"
         ELSE IF m.kind # "file" /\ m.size # 0 THEN "NonFilePayload"
         ELSE IF m.size > MaxEntryBytes THEN "LimitExceeded"
         ELSE IF ~m.meta THEN "Malformed"
         ELSE "entry"

(* A member whose header never reaches open_entry, and what next_entry     *)
(* answers instead.                                                        *)
Barred(m) == m.kind \in {"other", "broken"}
BarredFor(m) == IF m.kind = "other" THEN "DisallowedEntryType" ELSE "Malformed"

(* Bytes of the current body that the stream still has.                    *)
Last == at = Len(stream.members)
Available == IF Last THEN unread - stream.missing ELSE unread

(* Mutant: the error is returned and forgotten.                            *)
FailForgets(why) ==
  /\ call' = "idle"
  /\ answer' = why
  /\ mishap' = TRUE
  /\ UNCHANGED body_failed

(* next_entry returns an error, or is dropped, with AbortOnDrop armed.     *)
Fail(why) ==
  /\ body_failed' = TRUE
  /\ call' = "idle"
  /\ answer' = why
  /\ mishap' = TRUE

-----------------------------------------------------------------------------
NextEntry ==
  /\ call = "idle"
  /\ \/ /\ body_failed
        /\ answer' = "Aborted"
        /\ UNCHANGED <<call, body_failed, mishap>>
     \/ /\ ~body_failed
        /\ done
        /\ answer' = "end"
        /\ UNCHANGED <<call, body_failed, mishap>>
     \/ /\ ~body_failed
        /\ ~done
        /\ IF entries
           THEN call' = "parsing" /\ UNCHANGED <<answer, body_failed, mishap>>
           ELSE Fail("Malformed")
  /\ UNCHANGED <<stream, archive, entries, seen, done, at, unread, boundedVars, leaked>>

(* accept counts before it looks at the member.                            *)
TooManyByOne(n) == n > MaxEntries + 1     \* mutant: compares the old count
TooMany(n) == n > MaxEntries

(* The parser skips what is left of the last body and finds a member;      *)
(* accept counts it, opens it and lends its body.                          *)
ParseMember ==
  /\ call = "parsing"
  /\ ~Last
  /\ ~Barred(stream.members[at + 1])
  /\ at' = at + 1
  /\ seen' = seen + 1
  /\ LET m == stream.members[at']
         verdict == IF TooMany(seen') THEN "LimitExceeded" ELSE OpenEntry(m)
     IN  /\ unread' = m.body
         /\ \/ /\ verdict = "entry"
               /\ call' = "lent"
               /\ answer' = "entry"
               /\ bounded_left' = MaxEntryBytes
               /\ bounded_failed' = FALSE
               /\ got' = 0
               /\ eof' = FALSE
               /\ UNCHANGED <<body_failed, mishap>>
            \/ /\ verdict # "entry"
               /\ Fail(verdict)
               /\ UNCHANGED boundedVars
  /\ UNCHANGED <<stream, archive, entries, done, leaked>>

(* A read below the parser fails, the stream ends inside a body, or the    *)
(* next header is refused before it is a member.                           *)
ParseFails ==
  /\ call = "parsing"
  /\ \/ Fail("Io")
     \/ Fail("LimitExceeded")
     \/ Last /\ stream.missing > 0 /\ Fail("Malformed")
     \/ /\ ~Last
        /\ Barred(stream.members[at + 1])
        /\ Fail(BarredFor(stream.members[at + 1]))
  /\ UNCHANGED <<stream, archive, entries, seen, done, at, unread, boundedVars, leaked>>

(* Mutant: the archive is taken back while the parser still holds it.      *)
ParseEndHolding ==
  /\ call = "parsing"
  /\ Last
  /\ stream.missing = 0
  /\ archive' = FALSE
  /\ Fail("Malformed")
  /\ UNCHANGED <<stream, entries, seen, done, at, unread, boundedVars, leaked>>

(* The parser is at an end block; verify_end takes the stream back from    *)
(* it, which fails while anyone else holds the archive.                    *)
ParseEnd ==
  /\ call = "parsing"
  /\ Last
  /\ stream.missing = 0
  /\ entries' = FALSE
  /\ archive' = FALSE
  /\ IF archive /\ ~leaked
     THEN call' = "verifying" /\ UNCHANGED <<body_failed, answer, mishap>>
     ELSE Fail("Malformed")
  /\ UNCHANGED <<stream, seen, done, at, unread, boundedVars, leaked>>

(* Mutant: what follows the first end block is not looked at.              *)
VerifyNothing ==
  /\ call = "verifying"
  /\ done' = TRUE
  /\ call' = "idle"
  /\ answer' = "end"
  /\ UNCHANGED <<stream, archive, entries, body_failed, seen, at, unread,
                 boundedVars, leaked, mishap>>

VerifyEnd ==
  /\ call = "verifying"
  /\ \/ /\ stream.sound
        /\ done' = TRUE
        /\ call' = "idle"
        /\ answer' = "end"
        /\ UNCHANGED <<body_failed, mishap>>
     \/ /\ ~stream.sound
        /\ Fail("Malformed")
        /\ UNCHANGED done
     \/ /\ Fail("Io") \/ Fail("LimitExceeded")
        /\ UNCHANGED done
  /\ UNCHANGED <<stream, archive, entries, seen, at, unread, boundedVars, leaked>>

(* Mutant: dropping the future leaves no trace.                            *)
CancelQuietly ==
  /\ call \in {"parsing", "verifying"}
  /\ call' = "idle"
  /\ answer' = "cancelled"
  /\ mishap' = TRUE
  /\ UNCHANGED <<stream, archive, entries, body_failed, seen, done, at, unread,
                 boundedVars, leaked>>

(* The caller drops the future of next_entry.                              *)
CancelNextEntry ==
  /\ call \in {"parsing", "verifying"}
  /\ Fail("cancelled")
  /\ UNCHANGED <<stream, archive, entries, seen, done, at, unread, boundedVars, leaked>>

-----------------------------------------------------------------------------
(* Mutant: the reader never hears of it.                                   *)
BodyErrorUnheard ==
  /\ mishap' = TRUE
  /\ UNCHANGED <<body_failed, got, eof, bounded_left>>

(* A poll of the lent body fails: the reader hears of it at once.          *)
BodyError ==
  /\ body_failed' = TRUE
  /\ mishap' = TRUE
  /\ UNCHANGED <<got, eof, bounded_left>>

ExceedsByOne(n) == n > bounded_left + 1   \* mutant: one byte too many passes
Exceeds(n) == n > bounded_left

(* Bounded lets n bytes through, or takes them back when they are too many. *)
ReadBody(n) ==
  /\ call = "lent"
  /\ ~bounded_failed
  /\ n <= Available
  /\ unread' = unread - n
  /\ \/ /\ Exceeds(n)
        /\ bounded_failed' = TRUE
        /\ BodyError
     \/ /\ ~Exceeds(n)
        /\ bounded_left' = bounded_left - n
        /\ got' = got + n
        /\ UNCHANGED <<bounded_failed, eof, body_failed, mishap>>
  /\ UNCHANGED <<stream, archive, entries, seen, done, call, at, leaked, answer>>

(* A failed Bounded keeps failing; the stream may fail under a good one.   *)
BodyFails ==
  /\ call = "lent"
  /\ BodyError
  /\ UNCHANGED <<stream, archive, entries, seen, done, call, at, unread,
                 bounded_failed, leaked, answer>>

(* Mutant: a body without a byte never ends.                               *)
BodyEndsIfAny ==
  /\ call = "lent"
  /\ ~bounded_failed
  /\ Available = 0
  /\ got > 0
  /\ eof' = TRUE
  /\ UNCHANGED <<stream, archive, entries, body_failed, seen, done, call, at,
                 unread, bounded_left, bounded_failed, got, leaked, answer, mishap>>

(* The body is over, or the stream is and the body looks over.             *)
BodyEnds ==
  /\ call = "lent"
  /\ ~bounded_failed
  /\ Available = 0
  /\ eof' = TRUE
  /\ UNCHANGED <<stream, archive, entries, body_failed, seen, done, call, at,
                 unread, bounded_left, bounded_failed, got, leaked, answer, mishap>>

DropEntry ==
  /\ call = "lent"
  /\ call' = "idle"
  /\ UNCHANGED <<stream, archive, entries, body_failed, seen, done, at, unread,
                 boundedVars, leaked, answer, mishap>>

LeakEntry ==
  /\ call = "lent"
  /\ call' = "idle"
  /\ leaked' = TRUE
  /\ UNCHANGED <<stream, archive, entries, body_failed, seen, done, at, unread,
                 boundedVars, answer, mishap>>

Next ==
  \/ NextEntry
  \/ ParseMember
  \/ ParseFails
  \/ ParseEnd
  \/ VerifyEnd
  \/ CancelNextEntry
  \/ \E n \in 1 .. Chunk : ReadBody(n)
  \/ BodyFails
  \/ BodyEnds
  \/ DropEntry
  \/ LeakEntry

Spec == Init /\ [][Next]_vars

-----------------------------------------------------------------------------
(* The end is reported only behind a sound archive every member of which   *)
(* was opened and lent, and only if nothing went wrong on the way: no      *)
(* failed or cancelled call, no body that failed and was then ignored.     *)
EndIsEarned ==
  answer = "end" =>
    /\ at = Len(stream.members)
    /\ seen = at /\ seen <= MaxEntries
    /\ \A i \in 1 .. at : OpenEntry(stream.members[i]) = "entry"
    /\ stream.sound /\ stream.missing = 0
    /\ ~mishap /\ ~leaked

(* A mishap is final: every later call answers Aborted, the parser is not  *)
(* resumed, and no entry is lent any more - what was lent may only be      *)
(* given back (reader.rs:156).                                             *)
MishapIsFinal ==
  [][mishap =>
       /\ answer' # answer => answer' = "Aborted" /\ call' = "idle"
       /\ call' # call => call' = "idle"
       /\ at' = at]_vars

(* The reader is never both done and failed, and the parser is there       *)
(* whenever a call that will parse can begin: the branch of reader.rs:168  *)
(* is never taken.                                                         *)
ParserIsThere ==
  /\ done => ~body_failed
  /\ call = "idle" /\ ~body_failed /\ ~done => entries /\ archive

(* No body gives its caller more than max_entry_bytes, however its header  *)
(* and a pax override disagree, and none is lent beyond max_entries.       *)
BodiesAreBounded ==
  call = "lent" =>
    /\ got + bounded_left = MaxEntryBytes
    /\ got + unread <= stream.members[at].body
    /\ seen <= MaxEntries

(* docs/api.md:39: "Directory and link entries with nonzero body lengths   *)
(* are rejected."  open.rs:45-48 looks at the header's size field alone.   *)
NoPayloadOnNonFiles ==
  call = "lent" /\ stream.members[at].kind # "file" => stream.members[at].body = 0
=============================================================================
