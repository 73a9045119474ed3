---------------------------- MODULE ReaderProofs ----------------------------
(***************************************************************************)
(* Proofs about Reader, for every set of archives, all limits and every    *)
(* way its caller reads, drops, leaks and cancels; and then about the one  *)
(* client of it that etar has, Validate.                                   *)
(***************************************************************************)
EXTENDS Validate, TLAPS

Members == stream.members

(* body_failed is the memory of every mishap.                              *)
FlagIsMemory == body_failed <=> mishap

(* The reader is done only between calls, and never failed.                *)
DoneRests ==
  done => /\ call = "idle" /\ ~body_failed /\ ~leaked
          /\ at = Len(Members) /\ stream.missing = 0 /\ stream.sound

(* A call in progress began on a good reader; verify_end began at the end  *)
(* of the members, with the archive to itself.                             *)
CallsAreGood ==
  /\ call \in {"parsing", "verifying"} => ~body_failed /\ ~done
  /\ call \in {"parsing", "lent"} => entries /\ archive
  /\ call = "verifying" => ~leaked /\ at = Len(Members) /\ stream.missing = 0
  /\ call = "lent" => at > 0 /\ ~done

(* Every member passed was counted, and opened unless it was the last one  *)
(* and failed.                                                             *)
MembersAreOpened ==
  /\ seen = at
  /\ ~body_failed \/ call = "lent" =>
       /\ seen <= MaxEntries
       /\ \A i \in 1 .. at : OpenEntry(Members[i]) = "entry"

EndMeansDone == answer = "end" => done

(* The invariant that is inductive.                                        *)
IInv ==
  /\ TypeOK
  /\ FlagIsMemory
  /\ DoneRests
  /\ CallsAreGood
  /\ MembersAreOpened
  /\ EndMeansDone
  /\ ParserIsThere
  /\ BodiesAreBounded

-----------------------------------------------------------------------------
LEMMA StreamShape ==
  ASSUME stream \in Streams
  PROVE  /\ Members \in Seq(Member) /\ Len(Members) \in Nat
         /\ \A i \in 1 .. Len(Members) : Members[i] \in Member /\ Members[i].body \in Nat
         /\ stream.sound \in BOOLEAN /\ stream.missing \in Nat
         /\ MaxEntries \in Nat /\ MaxEntryBytes \in Nat
<1>1. IsStream(stream)
  BY ReaderAssumption
<1>2. Members \in Seq(Member)
  BY <1>1 DEF IsStream, Members
<1>3. Len(Members) \in Nat /\ \A i \in 1 .. Len(Members) : Members[i] \in Member
  BY <1>2
<1>4. \A m \in Member : m.body \in Nat
  BY DEF Member
<1> QED
  BY <1>1, <1>2, <1>3, <1>4, ReaderAssumption DEF IsStream

LEMMA Values ==
  ASSUME IInv
  PROVE  /\ stream \in Streams
         /\ archive \in BOOLEAN /\ entries \in BOOLEAN /\ body_failed \in BOOLEAN
         /\ done \in BOOLEAN /\ bounded_failed \in BOOLEAN /\ eof \in BOOLEAN
         /\ leaked \in BOOLEAN /\ mishap \in BOOLEAN
         /\ seen \in Nat /\ at \in Nat /\ at <= Len(Members) /\ Len(Members) \in Nat
         /\ unread \in Nat /\ got \in Nat
         /\ bounded_left \in Nat /\ bounded_left <= MaxEntryBytes
         /\ answer \in Answers
<1>1. stream \in Streams
  BY DEF IInv, TypeOK
<1> QED
  BY <1>1, StreamShape DEF IInv, TypeOK, Members

(* What open_entry can answer.                                             *)
LEMMA OpenEntryAnswers ==
  ASSUME NEW m \in Member PROVE OpenEntry(m) \in {"entry"} \cup Errors
<1>1. m.path \in {"safe", "unsafe", "unreadable", "too long"}
  BY DEF Member
<1> QED
  BY <1>1 DEF OpenEntry, Errors

LEMMA InitIInv == Init => IInv
<1> SUFFICES ASSUME Init PROVE IInv
  OBVIOUS
<1>1. stream \in Streams /\ Len(Members) \in Nat /\ MaxEntries \in Nat /\ MaxEntryBytes \in Nat
  BY StreamShape DEF Init
<1>2. TypeOK
  <2>1. {archive, entries, body_failed, done, bounded_failed, eof, leaked, mishap} \subseteq BOOLEAN
    BY DEF Init
  <2>2. at \in 0 .. Len(stream.members) /\ bounded_left \in 0 .. MaxEntryBytes
    BY <1>1 DEF Init, Members
  <2>3. seen \in Nat /\ unread \in Nat /\ got \in Nat /\ answer \in Answers
        /\ call \in {"idle", "parsing", "verifying", "lent"}
    BY DEF Init, Answers
  <2> QED
    BY <1>1, <2>1, <2>2, <2>3 DEF TypeOK
<1> QED
  BY <1>1, <1>2
     DEF Init, IInv, FlagIsMemory, DoneRests, CallsAreGood, MembersAreOpened, EndMeansDone,
         ParserIsThere, BodiesAreBounded

(* A call that fails leaves a reader that is not done and rests.           *)
LEMMA FailKeeps ==
  ASSUME IInv, NEW why \in Errors \cup {"cancelled"}, Fail(why),
         call # "lent", ~done,
         stream' = stream, done' = done, leaked' = leaked, boundedVars' = boundedVars,
         archive' \in BOOLEAN, entries' \in BOOLEAN,
         at' \in 0 .. Len(Members), seen' = at', unread' \in Nat
  PROVE  IInv'
<1>1. /\ body_failed' = TRUE /\ call' = "idle" /\ answer' = why /\ mishap' = TRUE
      /\ done' = FALSE /\ UNCHANGED <<stream, leaked, bounded_left, bounded_failed, got, eof>>
  BY Values DEF Fail, boundedVars
<1>2. TypeOK'
  <2>1. answer' \in Answers
    BY <1>1 DEF Answers
  <2>2. at' \in 0 .. Len(stream'.members) /\ seen' \in Nat
    BY <1>1, Values DEF Members
  <2> QED
    BY <1>1, <2>1, <2>2 DEF IInv, TypeOK
<1>3. answer' # "end"
  BY <1>1 DEF Errors
<1> QED
  BY <1>1, <1>2, <1>3
     DEF IInv, FlagIsMemory, DoneRests, CallsAreGood, MembersAreOpened, EndMeansDone,
         ParserIsThere, BodiesAreBounded

LEMMA NextEntryIInv == IInv /\ NextEntry => IInv'
<1> SUFFICES ASSUME IInv, NextEntry PROVE IInv'
  OBVIOUS
<1>1. /\ call = "idle"
      /\ UNCHANGED <<stream, archive, entries, seen, done, at, unread, bounded_left,
                     bounded_failed, got, eof, leaked>>
  BY DEF NextEntry, boundedVars
<1>2. CASE body_failed \/ done
  <2>1. /\ UNCHANGED <<call, body_failed, mishap>>
        /\ answer' \in {"Aborted", "end"} /\ (answer' = "end" => done)
    BY <1>2 DEF NextEntry
  <2>2. TypeOK'
    BY <1>1, <2>1 DEF IInv, TypeOK, Answers
  <2> QED
    BY <1>1, <2>1, <2>2
       DEF IInv, FlagIsMemory, DoneRests, CallsAreGood, MembersAreOpened, EndMeansDone,
           ParserIsThere, BodiesAreBounded, Members
<1>3. CASE ~body_failed /\ ~done
  <2>1. entries /\ archive
    BY <1>1, <1>3 DEF IInv, ParserIsThere
  <2>2. call' = "parsing" /\ UNCHANGED <<answer, body_failed, mishap>>
    BY <1>3, <2>1 DEF NextEntry
  <2>3. TypeOK'
    BY <1>1, <2>2 DEF IInv, TypeOK
  <2> QED
    BY <1>1, <1>3, <2>1, <2>2, <2>3
       DEF IInv, FlagIsMemory, DoneRests, CallsAreGood, MembersAreOpened, EndMeansDone,
           ParserIsThere, BodiesAreBounded, Members
<1> QED
  BY <1>2, <1>3

(* The member is lent, or it fails the call.                               *)
LEMMA ParseMemberIInv == IInv /\ ParseMember => IInv'
<1> SUFFICES ASSUME IInv, ParseMember PROVE IInv'
  OBVIOUS
<1> DEFINE m == Members[at + 1]
           verdict == IF TooMany(seen + 1) THEN "LimitExceeded" ELSE OpenEntry(m)
<1>1. /\ call = "parsing" /\ at # Len(Members) /\ at' = at + 1 /\ seen' = seen + 1
      /\ unread' = m.body
      /\ UNCHANGED <<stream, archive, entries, done, leaked>>
  BY DEF ParseMember, Last, Members
<1>2. ~body_failed /\ ~done /\ entries /\ archive
  BY <1>1 DEF IInv, CallsAreGood
<1>3. at + 1 \in 1 .. Len(Members) /\ m \in Member /\ m.body \in Nat
  BY <1>1, Values, StreamShape
<1>4. verdict \in {"entry"} \cup Errors
  BY <1>3, OpenEntryAnswers DEF Errors
<1>5. CASE verdict # "entry"
  <2>1. Fail(verdict) /\ UNCHANGED boundedVars
    BY <1>1, <1>5 DEF ParseMember, Members
  <2>2. verdict \in Errors
    BY <1>4, <1>5
  <2>3. seen' = at' /\ at' \in 0 .. Len(Members)
    BY <1>1, <1>3, Values DEF IInv, MembersAreOpened
  <2> QED
    BY <1>1, <1>2, <1>3, <2>1, <2>2, <2>3, FailKeeps, Values
<1>6. CASE verdict = "entry"
  <2>1. /\ call' = "lent" /\ answer' = "entry" /\ bounded_left' = MaxEntryBytes
        /\ bounded_failed' = FALSE /\ got' = 0 /\ eof' = FALSE
        /\ UNCHANGED <<body_failed, mishap>>
    BY <1>1, <1>6 DEF ParseMember, Members
  <2>2. seen + 1 <= MaxEntries /\ OpenEntry(m) = "entry"
    <3>1. ~TooMany(seen + 1)
      BY <1>6
    <3> QED
      BY <1>6, <3>1, Values, StreamShape DEF TooMany
  <2>3. seen' = at' /\ at' > 0 /\ at' \in 0 .. Len(Members) /\ seen' <= MaxEntries
    BY <1>1, <1>3, <2>2, Values DEF IInv, MembersAreOpened
  <2>4. \A i \in 1 .. at' : OpenEntry(Members[i]) = "entry"
    <3>1. \A i \in 1 .. at : OpenEntry(Members[i]) = "entry"
      BY <1>2 DEF IInv, MembersAreOpened
    <3> QED
      BY <1>1, <2>2, <3>1, Values
  <2>5. TypeOK'
    <3>1. at' \in 0 .. Len(stream'.members) /\ seen' \in Nat
      BY <1>1, <2>3, Values DEF Members
    <3>2. bounded_left' \in 0 .. MaxEntryBytes
      BY <2>1, Values, StreamShape
    <3> QED
      BY <1>1, <1>3, <2>1, <3>1, <3>2 DEF IInv, TypeOK, Answers
  <2>6. BodiesAreBounded'
    <3>1. stream'.members[at'] = m
      BY <1>1 DEF Members
    <3> QED
      BY <1>1, <1>3, <2>1, <2>3, <3>1, Values, StreamShape DEF BodiesAreBounded
  <2>7. MembersAreOpened'
    BY <1>1, <2>3, <2>4 DEF MembersAreOpened, Members
  <2> QED
    BY <1>1, <1>2, <2>1, <2>3, <2>5, <2>6, <2>7
       DEF IInv, FlagIsMemory, DoneRests, CallsAreGood, EndMeansDone, ParserIsThere
<1> QED
  BY <1>5, <1>6

LEMMA ParseFailsIInv == IInv /\ ParseFails => IInv'
<1> SUFFICES ASSUME IInv, ParseFails PROVE IInv'
  OBVIOUS
<1>1. call = "parsing"
      /\ UNCHANGED <<stream, archive, entries, seen, done, at, unread, boundedVars, leaked>>
  BY DEF ParseFails
<1>2. PICK why \in Errors : Fail(why)
  BY DEF ParseFails, BarredFor, Errors
<1>3. ~done /\ seen = at
  BY <1>1 DEF IInv, CallsAreGood, MembersAreOpened
<1> QED
  BY <1>1, <1>2, <1>3, FailKeeps, Values

LEMMA ParseEndIInv == IInv /\ ParseEnd => IInv'
<1> SUFFICES ASSUME IInv, ParseEnd PROVE IInv'
  OBVIOUS
<1>1. /\ call = "parsing" /\ at = Len(Members) /\ stream.missing = 0
      /\ entries' = FALSE /\ archive' = FALSE
      /\ UNCHANGED <<stream, seen, done, at, unread, boundedVars, leaked>>
  BY DEF ParseEnd, Last, Members
<1>2. ~body_failed /\ ~done /\ seen = at
  BY <1>1 DEF IInv, CallsAreGood, MembersAreOpened
<1>3. CASE Fail("Malformed")
  <2>1. "Malformed" \in Errors
    BY DEF Errors
  <2>2. /\ seen' = at' /\ at' \in 0 .. Len(Members) /\ unread' \in Nat
        /\ archive' \in BOOLEAN /\ entries' \in BOOLEAN
    <3>1. seen' = seen /\ at' = at /\ unread' = unread
      BY <1>1
    <3>2. seen' = at' /\ at' \in 0 .. Len(Members) /\ unread' \in Nat
      BY <1>2, <3>1, Values
    <3>3. archive' \in BOOLEAN /\ entries' \in BOOLEAN
      BY <1>1
    <3> QED
      BY <3>2, <3>3
  <2>3. /\ call # "lent" /\ boundedVars' = boundedVars
        /\ stream' = stream /\ done' = done /\ leaked' = leaked
    BY <1>1
  <2> QED
    BY <1>2, <1>3, <2>1, <2>2, <2>3, FailKeeps
<1>4. CASE ~Fail("Malformed")
  <2>1. call' = "verifying" /\ ~leaked /\ UNCHANGED <<body_failed, answer, mishap>>
    BY <1>4 DEF ParseEnd
  <2>2. TypeOK'
    BY <1>1, <2>1 DEF IInv, TypeOK, boundedVars
  <2> QED
    BY <1>1, <1>2, <2>1, <2>2
       DEF IInv, FlagIsMemory, DoneRests, CallsAreGood, MembersAreOpened, EndMeansDone,
           ParserIsThere, BodiesAreBounded, Members
<1> QED
  BY <1>3, <1>4

LEMMA VerifyEndIInv == IInv /\ VerifyEnd => IInv'
<1> SUFFICES ASSUME IInv, VerifyEnd PROVE IInv'
  OBVIOUS
<1>1. /\ call = "verifying"
      /\ UNCHANGED <<stream, archive, entries, seen, at, unread, boundedVars, leaked>>
  BY DEF VerifyEnd
<1>2. /\ ~body_failed /\ ~done /\ ~leaked /\ seen = at
      /\ at = Len(Members) /\ stream.missing = 0
  BY <1>1 DEF IInv, CallsAreGood, MembersAreOpened
<1>3. ASSUME NEW why \in Errors, Fail(why), done' = done PROVE IInv'
  BY <1>1, <1>2, <1>3, FailKeeps, Values
<1>4. CASE /\ stream.sound /\ done' = TRUE /\ call' = "idle" /\ answer' = "end"
           /\ UNCHANGED <<body_failed, mishap>>
  <2>1. TypeOK'
    BY <1>1, <1>4 DEF IInv, TypeOK, boundedVars, Answers
  <2> QED
    BY <1>1, <1>2, <1>4, <2>1
       DEF IInv, FlagIsMemory, DoneRests, CallsAreGood, MembersAreOpened, EndMeansDone,
           ParserIsThere, BodiesAreBounded, Members
<1> QED
  BY <1>3, <1>4 DEF VerifyEnd, Errors

LEMMA CancelIInv == IInv /\ CancelNextEntry => IInv'
<1> SUFFICES ASSUME IInv, CancelNextEntry PROVE IInv'
  OBVIOUS
<1>1. /\ call \in {"parsing", "verifying"} /\ Fail("cancelled")
      /\ UNCHANGED <<stream, archive, entries, seen, done, at, unread, boundedVars, leaked>>
  BY DEF CancelNextEntry
<1>2. ~done /\ seen = at /\ call # "lent"
  BY <1>1 DEF IInv, CallsAreGood, MembersAreOpened
<1> QED
  BY <1>1, <1>2, FailKeeps, Values

-----------------------------------------------------------------------------
(* A step of a lent body that leaves the two counts of Bounded in balance. *)
LEMMA LentKeeps ==
  ASSUME IInv, call = "lent", call' \in {"lent", "idle"},
         UNCHANGED <<stream, archive, entries, seen, done, at, answer>>,
         body_failed' <=> mishap', body_failed => body_failed',
         body_failed' \in BOOLEAN, mishap' \in BOOLEAN,
         bounded_failed' \in BOOLEAN, eof' \in BOOLEAN, leaked' \in BOOLEAN,
         unread' \in Nat, got' \in Nat, bounded_left' \in 0 .. MaxEntryBytes,
         got' + bounded_left' = MaxEntryBytes, got' + unread' <= Members[at].body
  PROVE  IInv'
<1>1. entries /\ archive /\ at > 0 /\ ~done
  BY DEF IInv, CallsAreGood
<1>2. TypeOK'
  BY DEF IInv, TypeOK
<1>3. BodiesAreBounded'
  BY DEF IInv, BodiesAreBounded, Members
<1>4. MembersAreOpened' /\ FlagIsMemory'
  BY DEF IInv, MembersAreOpened, FlagIsMemory, Members
<1> QED
  BY <1>1, <1>2, <1>3, <1>4
     DEF IInv, DoneRests, CallsAreGood, EndMeansDone, ParserIsThere

LEMMA Lent ==
  ASSUME IInv, call = "lent"
  PROVE  /\ got + bounded_left = MaxEntryBytes /\ got + unread <= Members[at].body
         /\ bounded_left \in 0 .. MaxEntryBytes
         /\ Members[at].body \in Nat /\ MaxEntryBytes \in Nat
<1>1. at \in 1 .. Len(Members)
  BY Values DEF IInv, CallsAreGood
<1> QED
  BY <1>1, Values, StreamShape DEF IInv, BodiesAreBounded, TypeOK, Members

LEMMA ReadBodyIInv == ASSUME NEW n \in 1 .. Chunk PROVE IInv /\ ReadBody(n) => IInv'
<1> SUFFICES ASSUME IInv, ReadBody(n) PROVE IInv'
  OBVIOUS
<1>1. /\ call = "lent" /\ n <= Available /\ unread' = unread - n
      /\ UNCHANGED <<stream, archive, entries, seen, done, call, at, leaked, answer>>
      /\ n \in Nat
  BY ReaderAssumption DEF ReadBody
<1>2. n <= unread
  <2>1. Available <= unread /\ Available \in Int
    BY Values, StreamShape DEF Available
  <2> QED
    BY <1>1, <2>1, Values
<1>3. CASE Exceeds(n) /\ bounded_failed' = TRUE /\ BodyError
  <2>1. /\ body_failed' = TRUE /\ mishap' = TRUE /\ UNCHANGED <<got, eof, bounded_left>>
    BY <1>3 DEF BodyError
  <2>2. /\ got + bounded_left = MaxEntryBytes /\ got + unread <= Members[at].body
        /\ Members[at].body \in Nat /\ bounded_left \in 0 .. MaxEntryBytes
        /\ got \in Nat /\ unread \in Nat
    BY <1>1, Lent, Values
  <2>3. unread' \in Nat /\ got + unread' <= Members[at].body
    BY <1>1, <1>2, <2>2
  <2>4. /\ got' \in Nat /\ bounded_left' \in 0 .. MaxEntryBytes
        /\ got' + bounded_left' = MaxEntryBytes /\ got' + unread' <= Members[at].body
    BY <2>1, <2>2, <2>3
  <2>5. /\ bounded_failed' \in BOOLEAN /\ eof' \in BOOLEAN /\ leaked' \in BOOLEAN
        /\ body_failed' \in BOOLEAN /\ mishap' \in BOOLEAN
        /\ (body_failed' <=> mishap') /\ (body_failed => body_failed')
    BY <1>1, <1>3, <2>1, Values
  <2> QED
    <3>1. call' \in {"lent", "idle"} /\ UNCHANGED <<stream, archive, entries, seen, done, at, answer>>
      BY <1>1
    <3>2. call = "lent"
      BY <1>1
    <3> QED
      BY <2>3, <2>4, <2>5, <3>1, <3>2, LentKeeps
<1>4. CASE /\ ~Exceeds(n) /\ bounded_left' = bounded_left - n /\ got' = got + n
           /\ UNCHANGED <<bounded_failed, eof, body_failed, mishap>>
  <2>1. bounded_left' \in 0 .. MaxEntryBytes /\ got' \in Nat /\ unread' \in Nat
        /\ got' + bounded_left' = MaxEntryBytes /\ got' + unread' <= Members[at].body
    <3>1. n \in Nat /\ n <= bounded_left /\ n <= unread
      BY <1>1, <1>2, <1>4, Values DEF Exceeds
    <3>2. /\ got + bounded_left = MaxEntryBytes /\ got + unread <= Members[at].body
          /\ Members[at].body \in Nat /\ MaxEntryBytes \in Nat
          /\ got \in Nat /\ unread \in Nat /\ bounded_left \in Nat
      BY <1>1, Lent, Values
    <3> QED
      BY <1>1, <1>4, <3>1, <3>2
  <2>2. body_failed' <=> mishap'
    BY <1>4 DEF IInv, FlagIsMemory
  <2> QED
    BY <1>1, <1>4, <2>1, <2>2, LentKeeps, Values
<1> QED
  BY <1>3, <1>4 DEF ReadBody

LEMMA BodyFailsIInv == IInv /\ BodyFails => IInv'
<1> SUFFICES ASSUME IInv, BodyFails PROVE IInv'
  OBVIOUS
<1>1. /\ call = "lent" /\ body_failed' = TRUE /\ mishap' = TRUE
      /\ UNCHANGED <<stream, archive, entries, seen, done, call, at, unread, got, eof,
                     bounded_left, bounded_failed, leaked, answer>>
  BY DEF BodyFails, BodyError
<1>2. /\ got \in Nat /\ unread \in Nat /\ bounded_left \in 0 .. MaxEntryBytes
      /\ bounded_failed \in BOOLEAN /\ eof \in BOOLEAN /\ leaked \in BOOLEAN
  BY <1>1, Lent, Values
<1> QED
  BY <1>1, <1>2, Lent, LentKeeps

LEMMA QuietLentIInv == IInv /\ (BodyEnds \/ DropEntry \/ LeakEntry) => IInv'
<1> SUFFICES ASSUME IInv, BodyEnds \/ DropEntry \/ LeakEntry PROVE IInv'
  OBVIOUS
<1>1. /\ call = "lent" /\ call' \in {"lent", "idle"}
      /\ UNCHANGED <<stream, archive, entries, body_failed, seen, done, at, unread, got,
                     bounded_left, bounded_failed, answer, mishap>>
      /\ eof' \in {eof, TRUE} /\ leaked' \in {leaked, TRUE}
  BY DEF BodyEnds, DropEntry, LeakEntry, boundedVars
<1>2. body_failed' <=> mishap'
  BY <1>1 DEF IInv, FlagIsMemory
<1>3. /\ got \in Nat /\ unread \in Nat /\ bounded_left \in 0 .. MaxEntryBytes
      /\ bounded_failed \in BOOLEAN /\ eof' \in BOOLEAN /\ leaked' \in BOOLEAN
      /\ body_failed \in BOOLEAN /\ mishap \in BOOLEAN
  BY <1>1, Lent, Values
<1> QED
  BY <1>1, <1>2, <1>3, Lent, LentKeeps

LEMMA StutterIInv == IInv /\ UNCHANGED vars => IInv'
<1> SUFFICES ASSUME IInv, UNCHANGED vars PROVE IInv'
  OBVIOUS
<1>1. UNCHANGED <<stream, archive, entries, body_failed, seen, done, call, at, unread,
                  bounded_left, bounded_failed, got, eof, leaked, answer, mishap>>
  BY DEF vars, boundedVars
<1>2. TypeOK'
  BY <1>1 DEF IInv, TypeOK
<1> QED
  BY <1>1, <1>2
     DEF IInv, FlagIsMemory, DoneRests, CallsAreGood, MembersAreOpened, EndMeansDone,
         ParserIsThere, BodiesAreBounded, Members

LEMMA NextIInv == IInv /\ [Next]_vars => IInv'
  BY NextEntryIInv, ParseMemberIInv, ParseFailsIInv, ParseEndIInv, VerifyEndIInv, CancelIInv,
     ReadBodyIInv, BodyFailsIInv, QuietLentIInv, StutterIInv
     DEF Next

LEMMA ReaderInvariant == Spec => []IInv
  BY InitIInv, NextIInv, PTL DEF Spec

-----------------------------------------------------------------------------
(* The reader is well typed in every reachable state; Bounded never counts *)
(* below zero.                                                             *)
THEOREM ReaderTypeCorrect == Spec => []TypeOK
<1>1. IInv => TypeOK
  BY DEF IInv
<1> QED
  BY <1>1, ReaderInvariant, PTL

(* An end that next_entry reports was earned: a sound archive, all of it   *)
(* opened, and no mishap on the way (reader.rs:155-191).                   *)
THEOREM ReaderEarnsEnd == Spec => []EndIsEarned
<1>1. IInv => EndIsEarned
  BY DEF IInv, EndIsEarned, EndMeansDone, DoneRests, MembersAreOpened, FlagIsMemory, Members
<1> QED
  BY <1>1, ReaderInvariant, PTL

(* The parser is there whenever a call needs it (reader.rs:168).           *)
THEOREM ReaderHasParser == Spec => []ParserIsThere
<1>1. IInv => ParserIsThere
  BY DEF IInv
<1> QED
  BY <1>1, ReaderInvariant, PTL

(* No lent body exceeds the limits (open.rs:180-210).                      *)
THEOREM ReaderBoundsBodies == Spec => []BodiesAreBounded
<1>1. IInv => BodiesAreBounded
  BY DEF IInv
<1> QED
  BY <1>1, ReaderInvariant, PTL

(* After a mishap no call answers anything but Aborted, no member is       *)
(* parsed and no entry lent (reader.rs:156).                               *)
THEOREM ReaderMishapIsFinal == Spec => MishapIsFinal
<1> DEFINE Final == mishap =>
                      /\ answer' # answer => answer' = "Aborted" /\ call' = "idle"
                      /\ call' # call => call' = "idle"
                      /\ at' = at
<1>1. IInv /\ [Next]_vars => [Final]_vars
  <2> SUFFICES ASSUME IInv, Next, mishap PROVE Final
    OBVIOUS
  <2>1. body_failed /\ call \notin {"parsing", "verifying"}
    BY DEF IInv, FlagIsMemory, CallsAreGood
  <2>2. CASE NextEntry
    BY <2>1, <2>2 DEF NextEntry
  <2>3. CASE DropEntry \/ LeakEntry
    BY <2>3 DEF DropEntry, LeakEntry
  <2>4. CASE BodyFails \/ BodyEnds \/ \E n \in 1 .. Chunk : ReadBody(n)
    BY <2>4 DEF BodyFails, BodyEnds, ReadBody
  <2> QED
    BY <2>1, <2>2, <2>3, <2>4
       DEF Next, ParseMember, ParseFails, ParseEnd, VerifyEnd, CancelNextEntry
<1> QED
  BY <1>1, ReaderInvariant, PTL DEF Spec, MishapIsFinal

-----------------------------------------------------------------------------
(* Validate: every step of it is a step of Reader, so that IInv holds of   *)
(* it; what it adds is that it reads each body to its end.                 *)

(* Bytes of member i that the stream has.                                  *)
There(i) == IF i = Len(Members) THEN Members[i].body - stream.missing ELSE Members[i].body

(* The count is of the members behind the reader, and all of them fit.     *)
CountIsExact ==
  /\ count \in Nat
  /\ ~mishap => /\ count = IF call = "lent" THEN at - 1 ELSE at
                /\ \A i \in 1 .. count : There(i) <= MaxEntryBytes

(* What a good body has given and what it still has is all of it; one that *)
(* has ended has nothing left.                                             *)
BodyIsWhole ==
  call = "lent" /\ ~mishap =>
    /\ ~bounded_failed
    /\ got + unread = Members[at].body
    /\ eof => Available = 0

(* validate leaks nothing, and returns Ok where the reader is at the end.  *)
OkMeansEnd ==
  /\ ~leaked
  /\ bounded_failed => mishap
  /\ status = "ok" => answer = "end" /\ call = "idle"

(* The invariant that is inductive.                                        *)
VInv == IInv /\ CountIsExact /\ BodyIsWhole /\ OkMeansEnd /\ MalformedIsDeserved

-----------------------------------------------------------------------------
LEMMA VInitInv == ValidateInit => VInv
<1> SUFFICES ASSUME ValidateInit PROVE VInv
  OBVIOUS
<1>1. Init
  BY DEF ValidateInit
<1>2. IInv
  BY <1>1, InitIInv
<1> QED
  BY <1>1, <1>2
     DEF ValidateInit, Init, VInv, CountIsExact, BodyIsWhole, OkMeansEnd, MalformedIsDeserved

(* Every step of validate is one of Reader.                                *)
LEMMA ValidateRefinesReader == [ValidateNext]_validateVars => [Next]_vars
<1>1. ValidateRun => [Next]_vars
  BY DEF ValidateRun, Ask, AwaitEntry, Copy, EntryDone, ReturnErr, ReturnOk, Next
<1>2. CopyFails => [Next]_vars
  BY DEF CopyFails, Next
<1> QED
  BY <1>1, <1>2 DEF ValidateNext, validateVars

-----------------------------------------------------------------------------
LEMMA AskInv == VInv /\ status = "running" /\ Ask /\ IInv' => VInv'
<1> SUFFICES ASSUME VInv, status = "running", Ask, IInv' PROVE VInv'
  OBVIOUS
<1>1. /\ call = "idle" /\ ~body_failed /\ ~mishap /\ NextEntry
      /\ UNCHANGED <<stream, at, unread, bounded_failed, got, eof, leaked, status, count>>
  BY DEF Ask, NextEntry, boundedVars, VInv, IInv, FlagIsMemory
<1>2. ~done => entries
  BY <1>1 DEF VInv, IInv, ParserIsThere
<1>3. /\ mishap' = mishap /\ call' \in {"idle", "parsing"}
      /\ answer' = "end" \/ answer' = answer
  BY <1>1, <1>2 DEF NextEntry
<1>4. CountIsExact' /\ BodyIsWhole' /\ OkMeansEnd' /\ MalformedIsDeserved'
  BY <1>1, <1>3
     DEF VInv, CountIsExact, BodyIsWhole, OkMeansEnd, MalformedIsDeserved, There, Members
<1> QED
  BY <1>4 DEF VInv

LEMMA AwaitMemberInv ==
  VInv /\ status = "running" /\ ParseMember /\ UNCHANGED <<status, count>> /\ IInv' => VInv'
<1> SUFFICES ASSUME VInv, status = "running", ParseMember, UNCHANGED <<status, count>>, IInv'
             PROVE  VInv'
  OBVIOUS
<1> DEFINE m == Members[at + 1]
           verdict == IF TooMany(seen + 1) THEN "LimitExceeded" ELSE OpenEntry(m)
<1>1. /\ call = "parsing" /\ at # Len(Members) /\ at' = at + 1 /\ seen' = seen + 1
      /\ unread' = m.body /\ UNCHANGED <<stream, leaked>>
  BY DEF ParseMember, Last, Members
<1>2. ~mishap /\ at + 1 \in 1 .. Len(Members) /\ m.body \in Nat /\ ~bounded_failed
  <2>1. ~mishap
    BY <1>1 DEF VInv, IInv, CallsAreGood, FlagIsMemory
  <2>2. at + 1 \in 1 .. Len(Members)
    BY <1>1, Values DEF VInv
  <2> QED
    BY <2>1, <2>2, Values, StreamShape DEF VInv, OkMeansEnd
<1>3. CASE verdict # "entry"
  <2>1. Fail(verdict) /\ UNCHANGED boundedVars
    BY <1>1, <1>3 DEF ParseMember, Members
  <2>2. mishap' = TRUE /\ answer' = verdict /\ call' = "idle"
    BY <2>1 DEF Fail
  <2>3. MalformedIsDeserved'
    <3>1. verdict = "Malformed" => OpenEntry(Members[at + 1]) = "Malformed"
      OBVIOUS
    <3> QED
      BY <1>1, <1>2, <2>2, <3>1 DEF MalformedIsDeserved, Members
  <2> QED
    BY <1>1, <2>2, <2>3 DEF VInv, CountIsExact, BodyIsWhole, OkMeansEnd
<1>4. CASE verdict = "entry"
  <2>1. /\ call' = "lent" /\ answer' = "entry" /\ bounded_failed' = FALSE
        /\ got' = 0 /\ eof' = FALSE /\ UNCHANGED mishap
    BY <1>1, <1>4 DEF ParseMember, Members
  <2>2. CountIsExact'
    <3>1. count = at /\ count \in Nat /\ \A i \in 1 .. count : There(i) <= MaxEntryBytes
      BY <1>1, <1>2 DEF VInv, CountIsExact
    <3>2. count' = at' - 1
      BY <1>1, <3>1
    <3> QED
      BY <1>1, <2>1, <3>1, <3>2 DEF CountIsExact, There, Members
  <2>3. BodyIsWhole'
    BY <1>1, <1>2, <2>1 DEF BodyIsWhole, Members
  <2> QED
    BY <1>1, <2>1, <2>2, <2>3 DEF VInv, OkMeansEnd, MalformedIsDeserved
<1> QED
  BY <1>3, <1>4

(* The other answers of next_entry leave count and reader where they are.  *)
LEMMA AwaitRestInv ==
  VInv /\ status = "running" /\ (ParseFails \/ ParseEnd \/ VerifyEnd)
    /\ UNCHANGED <<status, count>> /\ IInv' => VInv'
<1> SUFFICES ASSUME VInv, status = "running", ParseFails \/ ParseEnd \/ VerifyEnd,
                    UNCHANGED <<status, count>>, IInv'
             PROVE  VInv'
  OBVIOUS
<1>1. /\ call \in {"parsing", "verifying"}
      /\ UNCHANGED <<stream, at, unread, bounded_failed, leaked>>
      /\ call' \in {"idle", "verifying"}
  BY DEF ParseFails, ParseEnd, VerifyEnd, boundedVars, Fail
<1>2. ~mishap /\ ~leaked /\ (call = "parsing" => archive)
  BY <1>1 DEF VInv, IInv, CallsAreGood, FlagIsMemory, OkMeansEnd
<1>3. MalformedIsDeserved'
  <2>1. CASE ParseFails
    <3>1. \/ answer' \in {"Io", "LimitExceeded", "DisallowedEntryType"}
          \/ stream.missing > 0
          \/ at # Len(Members) /\ Members[at + 1].kind = "broken"
      BY <2>1 DEF ParseFails, Fail, Barred, BarredFor, Last, Members
    <3>2. at # Len(Members) => at + 1 \in 1 .. Len(Members)
      BY Values DEF VInv
    <3> QED
      BY <1>1, <3>1, <3>2 DEF MalformedIsDeserved, Members
  <2>2. CASE ParseEnd
    <3>1. answer' = answer
      BY <1>2, <2>2 DEF ParseEnd
    <3> QED
      BY <1>1, <3>1 DEF VInv, MalformedIsDeserved
  <2>3. CASE VerifyEnd
    <3>1. answer' = "Malformed" => ~stream.sound
      BY <2>3 DEF VerifyEnd, Fail
    <3> QED
      BY <1>1, <3>1 DEF MalformedIsDeserved
  <2> QED
    BY <2>1, <2>2, <2>3
<1>4. CountIsExact' /\ BodyIsWhole' /\ OkMeansEnd'
  <2>1. bounded_failed' = FALSE
    BY <1>1, <1>2, Values DEF VInv, OkMeansEnd
  <2>2. CountIsExact'
    BY <1>1, <1>2 DEF VInv, CountIsExact, There, Members
  <2> QED
    BY <1>1, <1>2, <2>1, <2>2 DEF VInv, BodyIsWhole, OkMeansEnd
<1> QED
  BY <1>3, <1>4 DEF VInv

LEMMA CopyInv == VInv /\ status = "running" /\ Copy /\ IInv' => VInv'
<1> SUFFICES ASSUME VInv, status = "running", Copy, IInv' PROVE VInv'
  OBVIOUS
<1>1. /\ call = "lent" /\ call' = "lent" /\ ~eof /\ ~mishap
      /\ UNCHANGED <<stream, at, leaked, answer, status, count>>
  BY DEF Copy, ReadBody, BodyEnds
<1>2. got + unread = Members[at].body /\ ~bounded_failed /\ at \in Nat
      /\ got \in Nat /\ unread \in Nat
  BY <1>1, Values DEF VInv, BodyIsWhole
<1>3. CountIsExact' /\ MalformedIsDeserved'
  BY <1>1 DEF VInv, CountIsExact, MalformedIsDeserved, There, Members
<1>4. CASE BodyEnds
  <2>1. /\ Available = 0 /\ UNCHANGED <<unread, got, bounded_failed, mishap>>
    BY <1>4 DEF BodyEnds
  <2>2. BodyIsWhole'
    BY <1>1, <1>2, <2>1 DEF BodyIsWhole, Available, Last, Members
  <2> QED
    BY <1>1, <1>2, <1>3, <2>1, <2>2 DEF VInv, OkMeansEnd
<1>5. ASSUME NEW n \in 1 .. Chunk, ReadBody(n) PROVE VInv'
  <2>1. unread' = unread - n /\ n \in Nat
    BY <1>5, ReaderAssumption DEF ReadBody
  <2>2. CASE bounded_failed' = TRUE /\ BodyError
    BY <1>1, <1>3, <2>2 DEF BodyError, VInv, BodyIsWhole, OkMeansEnd, CountIsExact
  <2>3. CASE got' = got + n /\ UNCHANGED <<bounded_failed, eof, body_failed, mishap>>
    <3>1. got' + unread' = Members[at].body
      BY <1>2, <2>1, <2>3
    <3> QED
      BY <1>1, <1>2, <1>3, <2>3, <3>1 DEF VInv, BodyIsWhole, OkMeansEnd, Members
  <2> QED
    BY <1>5, <2>2, <2>3 DEF ReadBody
<1> QED
  BY <1>4, <1>5 DEF Copy

LEMMA CopyFailsInv == VInv /\ status = "running" /\ CopyFails /\ IInv' => VInv'
<1> SUFFICES ASSUME VInv, status = "running", CopyFails, IInv' PROVE VInv'
  OBVIOUS
<1>1. /\ call' = call /\ mishap' = TRUE
      /\ UNCHANGED <<stream, bounded_failed, leaked, answer, status, count>>
  BY DEF CopyFails, BodyFails, BodyError
<1> QED
  BY <1>1 DEF VInv, CountIsExact, BodyIsWhole, OkMeansEnd, MalformedIsDeserved

(* The body was read to its end within the limit: it counts.               *)
LEMMA EntryDoneInv == VInv /\ status = "running" /\ EntryDone /\ IInv' => VInv'
<1> SUFFICES ASSUME VInv, status = "running", EntryDone, IInv' PROVE VInv'
  OBVIOUS
<1>1. /\ call = "lent" /\ call' = "idle" /\ eof /\ count' = count + 1
      /\ UNCHANGED <<stream, at, bounded_failed, leaked, answer, mishap, status>>
  BY DEF EntryDone, DropEntry, boundedVars
<1>2. CountIsExact'
  <2>1. count \in Nat /\ count' \in Nat
    BY <1>1 DEF VInv, CountIsExact
  <2>2. CASE mishap
    BY <1>1, <2>1, <2>2 DEF CountIsExact
  <2>3. CASE ~mishap
    <3>1. count = at - 1 /\ \A i \in 1 .. count : There(i) <= MaxEntryBytes
      BY <1>1, <2>3 DEF VInv, CountIsExact
    <3>2. got + unread = Members[at].body /\ Available = 0 /\ got + bounded_left = MaxEntryBytes
      BY <1>1, <2>3, Lent DEF VInv, BodyIsWhole
    <3>3. There(at) <= MaxEntryBytes
      <4>1. /\ got \in Nat /\ unread \in Nat /\ bounded_left \in Nat /\ at \in Nat
            /\ stream.missing \in Nat /\ Members[at].body \in Nat /\ MaxEntryBytes \in Nat
        BY <1>1, Lent, Values, StreamShape DEF VInv
      <4> QED
        BY <3>2, <4>1 DEF There, Available, Last, Members
    <3>4. count' = at
      BY <1>1, <2>1, <3>1, Values DEF VInv
    <3>5. \A i \in 1 .. at : There(i) <= MaxEntryBytes
      BY <2>1, <3>1, <3>3, Values DEF VInv
    <3> QED
      BY <1>1, <2>1, <3>4, <3>5 DEF CountIsExact, There, Members
  <2> QED
    BY <2>2, <2>3
<1> QED
  BY <1>1, <1>2 DEF VInv, BodyIsWhole, OkMeansEnd, MalformedIsDeserved

LEMMA QuietInv ==
  ASSUME VInv, UNCHANGED <<vars, count>>, status' = status \/ ReturnErr \/ ReturnOk, IInv'
  PROVE  VInv'
<1>1. /\ UNCHANGED <<stream, call, at, unread, bounded_failed, got, eof, leaked,
                     answer, mishap, count>>
  BY DEF vars, boundedVars
<1>2. status' = "ok" => answer = "end" /\ call = "idle"
  BY DEF ReturnErr, ReturnOk, VInv, OkMeansEnd
<1> QED
  BY <1>1, <1>2 DEF VInv, CountIsExact, BodyIsWhole, OkMeansEnd, MalformedIsDeserved,
                    There, Available, Last, Members

LEMMA VNextInv == VInv /\ [ValidateNext]_validateVars => VInv'
<1> SUFFICES ASSUME VInv, [ValidateNext]_validateVars PROVE VInv'
  OBVIOUS
<1>1. IInv'
  BY ValidateRefinesReader, NextIInv DEF VInv
<1>2. CASE UNCHANGED validateVars
  BY <1>1, <1>2, QuietInv DEF validateVars
<1>3. CASE status = "running" /\ AwaitEntry
  BY <1>1, <1>3, AwaitMemberInv, AwaitRestInv DEF AwaitEntry
<1>4. CASE ReturnErr \/ ReturnOk
  BY <1>1, <1>4, QuietInv DEF ReturnErr, ReturnOk
<1> QED
  BY <1>1, <1>2, <1>3, <1>4, AskInv, CopyInv, CopyFailsInv, EntryDoneInv
     DEF ValidateNext, ValidateRun

LEMMA ValidateInvariant == ValidateSpec => []VInv
  BY VInitInv, VNextInv, PTL DEF ValidateSpec

-----------------------------------------------------------------------------
(* A report of validate is true: every member was opened, each body is     *)
(* there and within the limit, and all are counted (reader.rs:268-287).    *)
THEOREM ValidateReportsTruly == ValidateSpec => []ReportIsTrue
<1>1. VInv => ReportIsTrue
  <2> SUFFICES ASSUME VInv, status = "ok" PROVE ReportIsTrue
    BY DEF ReportIsTrue
  <2>1. answer = "end" /\ call = "idle" /\ done
    BY DEF VInv, OkMeansEnd, IInv, EndMeansDone
  <2>2. ~mishap /\ at = Len(Members) /\ stream.missing = 0 /\ stream.sound
    BY <2>1 DEF VInv, IInv, DoneRests, FlagIsMemory
  <2>3. count = at /\ \A i \in 1 .. at : There(i) <= MaxEntryBytes
    BY <2>1, <2>2 DEF VInv, CountIsExact
  <2>4. at <= MaxEntries /\ \A i \in 1 .. at : OpenEntry(Members[i]) = "entry"
    BY <2>2 DEF VInv, IInv, MembersAreOpened, FlagIsMemory
  <2>5. \A i \in 1 .. at : Members[i].body <= MaxEntryBytes
    BY <2>2, <2>3, Values, StreamShape DEF VInv, There
  <2> QED
    BY <2>2, <2>3, <2>4, <2>5 DEF ReportIsTrue, Members
<1> QED
  BY <1>1, ValidateInvariant, PTL

(* Malformed is the answer only for an archive with a defect: validate     *)
(* holds no entry when it asks for the next one (reader.rs:218).           *)
THEOREM ValidateBlamesTruly == ValidateSpec => []MalformedIsDeserved
<1>1. VInv => MalformedIsDeserved
  BY DEF VInv
<1> QED
  BY <1>1, ValidateInvariant, PTL
=============================================================================
