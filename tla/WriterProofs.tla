---------------------------- MODULE WriterProofs ----------------------------
(***************************************************************************)
(* Proofs about Writer, for every set of entries, every block length, any  *)
(* number of appends and every way the body and the sink cut their bytes;  *)
(* then about RoundTrip: what the writer makes, the reading side walks,    *)
(* for every set of entries within the reader's limits.                    *)
(***************************************************************************)
EXTENDS RoundTrip, SequenceTheorems, TLAPS

Names == {e.name : e \in Entries} \cup {"archive"}
Parts == {"long header", "long name", "header", "fields", "body", "padding", "end", "frame end"}
Token == [entry : Names, part : Parts]

Sent == sink \o buffer

Streams == sink \in Seq(Token) /\ buffer \in Seq(Token) /\ accepted \in Seq(Token)

(* What a body has supplied and what Exact still expects add up to the     *)
(* declared length; the record is closed when nothing is expected.         *)
Balance ==
  step \in Appending =>
    /\ remaining + supplied = entry.size
    /\ supplied <= entry.yields
    /\ step = "begin" => supplied = 0
    /\ step = "probe" => remaining = 0

(* A writer that failed is never inside a call, and never published.       *)
FailedRests == failed => step \in {"idle", "lost"}

(* The invariant that is inductive.                                        *)
IInv ==
  /\ TypeOK
  /\ Streams
  /\ Balance
  /\ FailedRests
  /\ StreamIsExact
  /\ AcceptedIsKept
  /\ CountsSink
  /\ HonestAnswer

-----------------------------------------------------------------------------
(* Bytes: their type, and that a body written in two parts is the body.    *)
LEMMA BytesType ==
  ASSUME NEW n \in Nat, NEW name \in Names, NEW part \in Parts
  PROVE  Bytes(n, name, part) \in Seq(Token) /\ Len(Bytes(n, name, part)) = n
<1>1. [entry |-> name, part |-> part] \in Token
  BY DEF Token
<1> DEFINE tok == [entry |-> name, part |-> part]
<1>2. Bytes(n, name, part) = [i \in 1 .. n |-> tok]
  BY DEF Bytes
<1> HIDE DEF tok
<1>3. [i \in 1 .. n |-> tok] \in [1 .. n -> Token]
  BY <1>1 DEF tok
<1>4. [i \in 1 .. n |-> tok] \in Seq(Token)
  BY <1>3, SeqDef
<1>5. Len([i \in 1 .. n |-> tok]) = n
  BY <1>3, <1>4, LenProperties
<1> QED
  BY <1>2, <1>4, <1>5

LEMMA BytesJoin ==
  ASSUME NEW m \in Nat, NEW n \in Nat, NEW name \in Names, NEW part \in Parts
  PROVE  Bytes(m, name, part) \o Bytes(n, name, part) = Bytes(m + n, name, part)
<1> DEFINE a == Bytes(m, name, part)
           b == Bytes(n, name, part)
           c == Bytes(m + n, name, part)
           tok == [entry |-> name, part |-> part]
<1>1. /\ a \in Seq(Token) /\ b \in Seq(Token) /\ c \in Seq(Token)
      /\ Len(a) = m /\ Len(b) = n /\ Len(c) = m + n
  BY BytesType
<1>2. /\ \A i \in 1 .. m : a[i] = tok
      /\ \A i \in 1 .. n : b[i] = tok
      /\ \A i \in 1 .. m + n : c[i] = tok
  BY DEF Bytes
<1> HIDE DEF a, b, c, tok
<1>3. /\ a \o b \in Seq(Token) /\ Len(a \o b) = m + n
      /\ \A i \in 1 .. m + n : (a \o b)[i] = IF i <= m THEN a[i] ELSE b[i - m]
  BY <1>1, ConcatProperties
<1>4. \A i \in 1 .. m + n : (a \o b)[i] = c[i]
  <2> SUFFICES ASSUME NEW i \in 1 .. m + n PROVE (a \o b)[i] = c[i]
    OBVIOUS
  <2>1. CASE i <= m
    BY <2>1, <1>2, <1>3
  <2>2. CASE ~(i <= m)
    <3>1. i - m \in 1 .. n
      BY <2>2
    <3> QED
      BY <2>2, <3>1, <1>2, <1>3
  <2> QED
    BY <2>1, <2>2
<1>5. a \o b = c
  BY <1>1, <1>3, <1>4, SeqEqual
<1> QED
  BY <1>5 DEF a, b, c

(* The parts of a record.                                                  *)
LEMMA EntryNumbers ==
  ASSUME NEW e \in Entries
  PROVE  /\ e.size \in Nat /\ e.yields \in Nat /\ e.long \in Nat
         /\ e.kind \in {"file", "meta"}
         /\ e.kind = "meta" => e.size = 0 /\ e.yields = 0
         /\ e.name \in Names
         /\ Block \in Nat /\ Block > 0
  BY SinkAssumption DEF IsEntry, Names

LEMMA PaddingNumber ==
  ASSUME NEW size \in Nat PROVE PaddingLength(size) \in Nat
<1>1. Block \in Nat /\ Block > 0
  BY SinkAssumption
<1>2. size % Block \in 0 .. Block - 1
  BY <1>1
<1>3. Block - (size % Block) \in Nat
  BY <1>1, <1>2
<1> DEFINE left == Block - (size % Block)
<1> HIDE DEF left
<1>4. left % Block \in 0 .. Block - 1
  BY <1>1, <1>3 DEF left
<1> QED
  BY <1>4, <1>1 DEF PaddingLength, left

LEMMA HeaderType ==
  ASSUME NEW e \in Entries PROVE HeaderBytes(e) \in Seq(Token)
<1>1. e.name \in Names /\ e.long \in Nat /\ Block \in Nat /\ Block > 0 /\ Block - 1 \in Nat
  BY EntryNumbers
<1>2. ASSUME NEW part \in {"header", "long header"}
      PROVE  OneHeader(e, part) \in Seq(Token)
  <2>1. Bytes(1, e.name, part) \in Seq(Token)
    BY <1>1, BytesType DEF Parts
  <2>2. Bytes(Block - 1, e.name, "fields") \in Seq(Token)
    BY <1>1, BytesType DEF Parts
  <2> QED
    BY <2>1, <2>2, ConcatProperties DEF OneHeader
<1>3. LongName(e) \in Seq(Token)
  <2>1. Bytes(e.long, e.name, "long name") \in Seq(Token)
    BY <1>1, BytesType DEF Parts
  <2>2. Bytes(PaddingLength(e.long), e.name, "padding") \in Seq(Token)
    BY <1>1, PaddingNumber, BytesType DEF Parts
  <2>3. OneHeader(e, "long header") \in Seq(Token)
    BY <1>2
  <2>4. (OneHeader(e, "long header") \o Bytes(e.long, e.name, "long name")) \in Seq(Token)
    BY <2>1, <2>3, ConcatProperties
  <2>5. (OneHeader(e, "long header") \o Bytes(e.long, e.name, "long name"))
          \o Bytes(PaddingLength(e.long), e.name, "padding") \in Seq(Token)
    BY <2>2, <2>4, ConcatProperties
  <2> QED
    BY <2>5, EmptySeq DEF LongName
<1>4. OneHeader(e, "header") \in Seq(Token)
  BY <1>2
<1> QED
  BY <1>3, <1>4, ConcatProperties DEF HeaderBytes

LEMMA PartTypes ==
  ASSUME NEW e \in Entries
  PROVE  /\ HeaderBytes(e) \in Seq(Token)
         /\ \A n \in Nat : BodyBytes(e, n) \in Seq(Token)
         /\ Padding(e) \in Seq(Token)
         /\ Record(e) \in Seq(Token)
         /\ BodyBytes(e, 0) = <<>>
<1>1. e.name \in Names /\ e.size \in Nat
  BY EntryNumbers
<1>2. HeaderBytes(e) \in Seq(Token)
  BY HeaderType
<1>3. \A n \in Nat : BodyBytes(e, n) \in Seq(Token) /\ Len(BodyBytes(e, n)) = n
  BY <1>1, BytesType DEF BodyBytes, Parts
<1>4. Padding(e) \in Seq(Token)
  BY <1>1, PaddingNumber, BytesType DEF Padding, Parts
<1>5. HeaderBytes(e) \o BodyBytes(e, e.size) \in Seq(Token)
  BY <1>1, <1>2, <1>3, ConcatProperties
<1>6. (HeaderBytes(e) \o BodyBytes(e, e.size)) \o Padding(e) \in Seq(Token)
  BY <1>4, <1>5, ConcatProperties
<1>7. BodyBytes(e, 0) = <<>>
  BY <1>3, EmptySeq
<1> QED
  BY <1>2, <1>3, <1>4, <1>6, <1>7 DEF Record

LEMMA TrailerType ==
  /\ Bytes(2 * Block, "archive", "end") \in Seq(Token)
  /\ Bytes(1, "archive", "frame end") \in Seq(Token)
<1>1. 2 * Block \in Nat
  BY SinkAssumption
<1> QED
  BY <1>1, BytesType DEF Names, Parts

-----------------------------------------------------------------------------
(* Appending to a stream leaves its prefixes alone.                        *)
LEMMA PrefixKept ==
  ASSUME NEW s \in Seq(Token), NEW t \in Seq(Token), NEW a \in Seq(Token),
         Len(a) <= Len(s), SubSeq(s, 1, Len(a)) = a
  PROVE  Len(a) <= Len(s \o t) /\ SubSeq(s \o t, 1, Len(a)) = a
<1>1. Len(a) \in Nat /\ Len(s) \in Nat /\ Len(t) \in Nat /\ Len(s \o t) = Len(s) + Len(t)
  BY LenProperties, ConcatProperties
<1>2. CASE Len(a) = 0
  <2>1. a = <<>> /\ SubSeq(s \o t, 1, 0) = <<>>
    BY <1>2, EmptySeq, SubSeqEmpty
  <2> QED
    BY <2>1, <1>1, <1>2
<1>3. CASE Len(a) > 0
  <2>1. 1 \in 1 .. Len(s) /\ Len(a) \in 1 .. Len(s)
    BY <1>1, <1>3
  <2>2. SubSeq(s \o t, 1, Len(a)) = SubSeq(s, 1, Len(a))
    BY <2>1, SubSeqOfConcat1
  <2> QED
    BY <2>2, <1>1
<1> QED
  BY <1>1, <1>2, <1>3

(* Streams may be joined in any order.                                     *)
LEMMA JoinInAnyOrder ==
  \A x, y, z \in Seq(Token) : (x \o y) \o z = x \o (y \o z)
<1> TAKE x, y, z \in Seq(Token)
<1> QED
  BY ConcatAssociative

(* A write that the sink takes a part of loses nothing.                    *)
LEMMA PartTaken ==
  ASSUME NEW s \in Seq(Token), NEW b \in Seq(Token), NEW n \in 1 .. Len(b)
  PROVE  /\ SubSeq(b, 1, n) \in Seq(Token) /\ Len(SubSeq(b, 1, n)) = n
         /\ SubSeq(b, n + 1, Len(b)) \in Seq(Token)
         /\ s \o SubSeq(b, 1, n) \in Seq(Token)
         /\ Len(s \o SubSeq(b, 1, n)) = Len(s) + n
         /\ (s \o SubSeq(b, 1, n)) \o SubSeq(b, n + 1, Len(b)) = s \o b
<1>1. Len(b) \in Nat /\ Len(s) \in Nat
  BY LenProperties
<1>2. SubSeq(b, 1, n) \in Seq(Token) /\ Len(SubSeq(b, 1, n)) = n
  <2>1. \A i \in 1 .. n : b[i] \in Token
    BY <1>1, ElementOfSeq
  <2> QED
    BY <2>1, <1>1, SubSeqProperties
<1>3. SubSeq(b, n + 1, Len(b)) \in Seq(Token)
  <2>1. \A i \in n + 1 .. Len(b) : b[i] \in Token
    BY <1>1, ElementOfSeq
  <2>2. n + 1 \in Int /\ Len(b) \in Int
    BY <1>1
  <2> QED
    BY <2>1, <2>2, SubSeqProperties
<1>4. SubSeq(b, 1, n) \o SubSeq(b, n + 1, Len(b)) = b
  <2>1. 1 \in 1 .. Len(b) + 1 /\ n \in 1 - 1 .. Len(b) /\ Len(b) \in n .. Len(b)
    BY <1>1
  <2>2. SubSeq(b, 1, n) \o SubSeq(b, n + 1, Len(b)) = SubSeq(b, 1, Len(b))
    BY <2>1, ConcatAdjacentSubSeq
  <2> QED
    BY <2>2, SubSeqFull
<1>5. (s \o SubSeq(b, 1, n)) \o SubSeq(b, n + 1, Len(b)) = s \o b
  <2> DEFINE p == SubSeq(b, 1, n)
             q == SubSeq(b, n + 1, Len(b))
  <2>1. p \in Seq(Token) /\ q \in Seq(Token)
    BY <1>2, <1>3
  <2>2. p \o q = b
    BY <1>4
  <2> HIDE DEF p, q
  <2>3. (s \o p) \o q = s \o (p \o q)
    BY <2>1, JoinInAnyOrder, Zenon
  <2>4. (s \o p) \o q = s \o b
    BY <2>2, <2>3
  <2> QED
    BY <2>4 DEF p, q
<1> QED
  BY <1>1, <1>2, <1>3, <1>5, ConcatProperties

-----------------------------------------------------------------------------
LEMMA InitIInv == Init => IInv
<1> SUFFICES ASSUME Init PROVE IInv
  OBVIOUS
<1>1. entry \in Entries
  BY WriterAssumption DEF Init, NoEntry
<1>2. TypeOK
  <2>1. 0 \in 0 .. MaxAppends
    BY WriterAssumption
  <2> QED
    BY <1>1, <2>1 DEF Init, TypeOK, Steps, Answers
<1>3. Streams
  BY EmptySeq DEF Init, Streams
<1>4. Balance /\ FailedRests /\ HonestAnswer
  BY DEF Init, Balance, FailedRests, HonestAnswer, Appending
<1>5. sink \o buffer = <<>> /\ accepted \o <<>> = <<>> /\ Len(accepted) = 0
  BY EmptySeq, ConcatEmptySeq DEF Init
<1>6. StreamIsExact
  BY <1>5 DEF Init, StreamIsExact, InProgress
<1>7. AcceptedIsKept
  BY <1>5, SubSeqEmpty DEF Init, AcceptedIsKept
<1>8. CountsSink
  BY EmptySeq DEF Init, CountsSink
<1> QED
  BY <1>2, <1>3, <1>4, <1>6, <1>7, <1>8 DEF IInv

(* What a step that moves no byte keeps.                                   *)
LEMMA NoByte ==
  ASSUME IInv, UNCHANGED <<buffer, sink, bytes, accepted>>
  PROVE  Streams' /\ AcceptedIsKept' /\ CountsSink'
  BY DEF IInv, Streams, AcceptedIsKept, CountsSink

(* What a step of the builder that writes keeps.                           *)
LEMMA Written ==
  ASSUME IInv, NEW new \in Seq(Token), Write(new), UNCHANGED accepted
  PROVE  /\ Streams' /\ AcceptedIsKept' /\ CountsSink' /\ bytes' = bytes
         /\ sink' \o buffer' = (sink \o buffer) \o new
<1>1. sink \in Seq(Token) /\ buffer \in Seq(Token) /\ accepted \in Seq(Token)
  BY DEF IInv, Streams
<1>2. sink' = sink /\ bytes' = bytes /\ buffer' = buffer \o new /\ accepted' = accepted
  BY DEF Write
<1>3. sink \o buffer \in Seq(Token) /\ buffer \o new \in Seq(Token)
  BY <1>1, ConcatProperties
<1>4. sink' \o buffer' = (sink \o buffer) \o new
  <2>1. (sink \o buffer) \o new = sink \o (buffer \o new)
    BY <1>1, JoinInAnyOrder, Zenon
  <2>2. sink' \o buffer' = sink \o (buffer \o new)
    BY <1>2, Zenon
  <2> QED
    BY <2>1, <2>2, Zenon
<1>5. AcceptedIsKept'
  <2>1. Len(accepted) <= Len(sink \o buffer) /\ SubSeq(sink \o buffer, 1, Len(accepted)) = accepted
    BY DEF IInv, AcceptedIsKept
  <2> DEFINE s == sink \o buffer
  <2>2. s \in Seq(Token)
    BY <1>3
  <2>3. Len(accepted) <= Len(s) /\ SubSeq(s, 1, Len(accepted)) = accepted
    BY <2>1
  <2>4. sink' \o buffer' = s \o new
    BY <1>4
  <2> HIDE DEF s
  <2>5. Len(accepted) <= Len(s \o new) /\ SubSeq(s \o new, 1, Len(accepted)) = accepted
    BY <1>1, <2>2, <2>3, PrefixKept
  <2> QED
    BY <1>2, <2>4, <2>5 DEF AcceptedIsKept
<1>6. Streams' /\ CountsSink'
  BY <1>1, <1>2, <1>3 DEF IInv, Streams, CountsSink
<1> QED
  BY <1>2, <1>4, <1>5, <1>6

(* The stream grows by what the record in progress grows by.               *)
LEMMA ProgressJoins ==
  ASSUME NEW s, NEW a \in Seq(Token), NEW p \in Seq(Token), NEW new \in Seq(Token),
         s = a \o p
  PROVE  s \o new = a \o (p \o new)
  BY ConcatAssociative

(* A call that fails leaves the stream where it is, and poisons the        *)
(* writer.                                                                 *)
LEMMA AppendFailsIInv ==
  ASSUME IInv, NEW why \in {"BodyLengthMismatch", "Failed", "cancelled"}, AppendFails(why),
         why = "BodyLengthMismatch" => entry.size # entry.yields
  PROVE  IInv'
<1>1. /\ failed' = TRUE /\ step' = "idle" /\ answer' = why
      /\ UNCHANGED <<format, entry, remaining, supplied, buffer, sink, bytes, accepted, appends>>
  BY DEF AppendFails, bodyVars, pipeVars
<1>2. Streams' /\ AcceptedIsKept' /\ CountsSink'
  BY <1>1, NoByte
<1>3. TypeOK'
  BY <1>1 DEF IInv, TypeOK, Steps, Answers
<1>4. Balance' /\ FailedRests' /\ StreamIsExact' /\ HonestAnswer'
  BY <1>1 DEF Balance, FailedRests, StreamIsExact, HonestAnswer, Appending
<1> QED
  BY <1>2, <1>3, <1>4 DEF IInv

LEMMA LoseIInv ==
  ASSUME IInv, NEW why \in {"Failed", "Aborted", "cancelled"}, Lose(why)
  PROVE  IInv'
<1>1. /\ step' = "lost" /\ answer' = why
      /\ UNCHANGED <<format, failed, entry, remaining, supplied, buffer, sink, bytes, accepted, appends>>
  BY DEF Lose, bodyVars, pipeVars
<1>2. Streams' /\ AcceptedIsKept' /\ CountsSink'
  BY <1>1, NoByte
<1>3. TypeOK'
  BY <1>1 DEF IInv, TypeOK, Steps, Answers
<1>4. Balance' /\ FailedRests' /\ StreamIsExact' /\ HonestAnswer'
  BY <1>1 DEF Balance, FailedRests, StreamIsExact, HonestAnswer, Appending
<1> QED
  BY <1>2, <1>3, <1>4 DEF IInv

LEMMA AppendEntryIInv == ASSUME NEW e \in Entries PROVE IInv /\ AppendEntry(e) => IInv'
<1> SUFFICES ASSUME IInv, AppendEntry(e) PROVE IInv'
  OBVIOUS
<1>1. /\ step = "idle" /\ appends < MaxAppends /\ appends' = appends + 1
      /\ UNCHANGED <<format, failed, buffer, sink, bytes, accepted>>
  BY DEF AppendEntry, pipeVars
<1>2. Streams' /\ AcceptedIsKept' /\ CountsSink'
  BY <1>1, NoByte
<1>3. appends' \in 0 .. MaxAppends
  BY <1>1, WriterAssumption DEF IInv, TypeOK
<1>4. CASE failed
  <2>1. answer' = "Aborted" /\ UNCHANGED <<step, entry, remaining, supplied>>
    BY <1>4 DEF AppendEntry, bodyVars
  <2>2. TypeOK'
    BY <1>1, <1>3, <2>1 DEF IInv, TypeOK, Answers
  <2>3. Balance' /\ FailedRests' /\ StreamIsExact' /\ HonestAnswer'
    BY <1>1, <1>4, <2>1 DEF Balance, FailedRests, StreamIsExact, HonestAnswer, Appending
  <2> QED
    BY <1>2, <2>2, <2>3 DEF IInv
<1>5. CASE ~failed
  <2>1. step' = "begin" /\ entry' = e /\ remaining' = e.size /\ supplied' = 0 /\ answer' = answer
    BY <1>5 DEF AppendEntry
  <2>2. TypeOK'
    BY <1>1, <1>3, <2>1, EntryNumbers DEF IInv, TypeOK, Steps, Appending
  <2>3. Balance' /\ FailedRests' /\ HonestAnswer'
    BY <1>1, <1>5, <2>1, EntryNumbers DEF Balance, FailedRests, HonestAnswer
  <2>4. StreamIsExact'
    BY <1>1, <1>5, <2>1 DEF IInv, StreamIsExact, InProgress
  <2> QED
    BY <1>2, <2>2, <2>3, <2>4 DEF IInv
<1> QED
  BY <1>4, <1>5

LEMMA BeginRecordIInv == IInv /\ BeginRecord => IInv'
<1> SUFFICES ASSUME IInv, BeginRecord PROVE IInv'
  OBVIOUS
<1>1. CASE AppendFails("Failed")
  BY <1>1, AppendFailsIInv
<1>2. CASE ~AppendFails("Failed")
  <2>1. /\ step = "begin" /\ Write(HeaderBytes(entry)) /\ step' = "body"
        /\ UNCHANGED <<format, failed, entry, remaining, supplied, accepted, answer, appends>>
    BY <1>2 DEF BeginRecord, bodyVars
  <2>2. ~failed /\ entry \in Entries /\ accepted \in Seq(Token) /\ supplied = 0
        /\ sink \o buffer = accepted \o <<>>
    BY <2>1 DEF IInv, FailedRests, TypeOK, Streams, Balance, Appending, StreamIsExact, InProgress
  <2>3. HeaderBytes(entry) \in Seq(Token) /\ BodyBytes(entry, 0) = <<>>
    BY <2>2, PartTypes
  <2>4. /\ Streams' /\ AcceptedIsKept' /\ CountsSink' /\ bytes' = bytes
        /\ sink' \o buffer' = (sink \o buffer) \o HeaderBytes(entry)
    BY <2>1, <2>3, Written
  <2>5. sink' \o buffer' = accepted \o (HeaderBytes(entry) \o <<>>)
    BY <2>2, <2>3, <2>4, ConcatEmptySeq
  <2>6. StreamIsExact'
    BY <2>1, <2>2, <2>3, <2>5 DEF StreamIsExact, InProgress
  <2>7. TypeOK'
    BY <2>1, <2>4 DEF IInv, TypeOK, Steps, Appending
  <2>8. Balance' /\ FailedRests' /\ HonestAnswer'
    BY <2>1, <2>2 DEF IInv, Balance, FailedRests, HonestAnswer, Appending
  <2> QED
    BY <2>4, <2>6, <2>7, <2>8 DEF IInv
<1> QED
  BY <1>1, <1>2

(* The bytes a body yields continue the body.                              *)
LEMMA BodyGrows ==
  ASSUME IInv, step = "body", NEW n \in Nat, Write(BodyBytes(entry, n)),
         UNCHANGED <<accepted, entry>>
  PROVE  /\ Streams' /\ AcceptedIsKept' /\ CountsSink' /\ bytes' = bytes
         /\ sink' \o buffer' = accepted \o (HeaderBytes(entry) \o BodyBytes(entry, supplied + n))
<1>1. ~failed /\ entry \in Entries /\ accepted \in Seq(Token) /\ supplied \in Nat
  BY DEF IInv, FailedRests, TypeOK, Streams
<1> DEFINE header == HeaderBytes(entry)
           was == BodyBytes(entry, supplied)
           new == BodyBytes(entry, n)
<1>2. header \in Seq(Token) /\ was \in Seq(Token) /\ new \in Seq(Token)
  BY <1>1, PartTypes
<1>3. was \o new = BodyBytes(entry, supplied + n)
  <2>1. entry.name \in Names /\ "body" \in Parts
    BY <1>1, EntryNumbers DEF Parts
  <2> QED
    BY <1>1, <2>1, BytesJoin DEF BodyBytes
<1>4. sink \o buffer = accepted \o (header \o was)
  BY <1>1 DEF IInv, StreamIsExact, InProgress
<1>5. /\ Streams' /\ AcceptedIsKept' /\ CountsSink' /\ bytes' = bytes
      /\ sink' \o buffer' = (sink \o buffer) \o new
  BY <1>2, Written
<1> HIDE DEF header, was, new
<1>6. header \o was \in Seq(Token)
  BY <1>2, ConcatProperties
<1>7. (accepted \o (header \o was)) \o new = accepted \o ((header \o was) \o new)
  BY <1>1, <1>2, <1>6, JoinInAnyOrder, Zenon
<1>8. (header \o was) \o new = header \o (was \o new)
  BY <1>2, JoinInAnyOrder, Zenon
<1>9. sink' \o buffer' = accepted \o (header \o BodyBytes(entry, supplied + n))
  BY <1>3, <1>4, <1>5, <1>7, <1>8
<1> QED
  BY <1>5, <1>9 DEF header

LEMMA ReadBodyIInv == ASSUME NEW n \in 1 .. Chunk PROVE IInv /\ ReadBody(n) => IInv'
<1> SUFFICES ASSUME IInv, ReadBody(n) PROVE IInv'
  OBVIOUS
<1>1. /\ step = "body" /\ remaining > 0 /\ n <= entry.yields - supplied
      /\ ~failed /\ entry \in Entries
      /\ remaining \in Nat /\ supplied \in Nat /\ n \in Nat
      /\ remaining + supplied = entry.size /\ supplied <= entry.yields
  BY WriterAssumption DEF ReadBody, IInv, FailedRests, TypeOK, Balance, Appending
<1>2. entry.size \in Nat /\ entry.yields \in Nat
  BY <1>1, EntryNumbers
<1>3. CASE n > remaining /\ AppendFails("BodyLengthMismatch")
  <2>1. entry.size # entry.yields
    BY <1>1, <1>2, <1>3
  <2> QED
    BY <1>3, <2>1, AppendFailsIInv
<1>4. CASE ~(n > remaining /\ AppendFails("BodyLengthMismatch"))
  <2>1. /\ n <= remaining /\ remaining' = remaining - n /\ supplied' = supplied + n
        /\ Write(BodyBytes(entry, n))
        /\ UNCHANGED <<format, failed, step, entry, accepted, answer, appends>>
    BY <1>4 DEF ReadBody
  <2>2. /\ Streams' /\ AcceptedIsKept' /\ CountsSink' /\ bytes' = bytes
        /\ sink' \o buffer' = accepted \o (HeaderBytes(entry) \o BodyBytes(entry, supplied + n))
    BY <1>1, <2>1, BodyGrows
  <2>3. StreamIsExact'
    BY <1>1, <2>1, <2>2 DEF StreamIsExact, InProgress
  <2>4. remaining' \in Nat /\ supplied' \in Nat
    BY <1>1, <2>1
  <2>5. TypeOK'
    BY <2>1, <2>2, <2>4 DEF IInv, TypeOK
  <2>6. remaining' + supplied' = entry.size /\ supplied' <= entry.yields
    BY <1>1, <1>2, <2>1
  <2>7. Balance' /\ FailedRests' /\ HonestAnswer'
    BY <1>1, <2>1, <2>6 DEF Balance, FailedRests, HonestAnswer
  <2> QED
    BY <2>2, <2>3, <2>5, <2>7 DEF IInv
<1> QED
  BY <1>3, <1>4

LEMMA BodyIsShortIInv == IInv /\ BodyIsShort => IInv'
<1> SUFFICES ASSUME IInv, BodyIsShort PROVE IInv'
  OBVIOUS
<1>1. /\ remaining > 0 /\ supplied = entry.yields /\ entry \in Entries
      /\ remaining \in Nat /\ remaining + supplied = entry.size
      /\ AppendFails("BodyLengthMismatch")
  BY DEF BodyIsShort, IInv, TypeOK, Balance, Appending
<1>2. entry.size # entry.yields
  BY <1>1, EntryNumbers
<1> QED
  BY <1>1, <1>2, AppendFailsIInv

LEMMA BodyFailsIInv == IInv /\ BodyFails => IInv'
  BY AppendFailsIInv DEF BodyFails

(* The padding closes the record.                                          *)
LEMMA EndRecordIInv == IInv /\ EndRecord => IInv'
<1> SUFFICES ASSUME IInv, EndRecord PROVE IInv'
  OBVIOUS
<1>1. /\ step = "body" /\ remaining = 0 /\ Write(Padding(entry)) /\ step' = "probe"
      /\ UNCHANGED <<format, failed, entry, remaining, supplied, accepted, answer, appends>>
  BY DEF EndRecord, bodyVars
<1>2. ~failed /\ entry \in Entries /\ accepted \in Seq(Token) /\ supplied = entry.size
      /\ supplied <= entry.yields
  <2>1. entry.size \in Nat /\ supplied \in Nat
    BY EntryNumbers DEF IInv, TypeOK
  <2> QED
    BY <1>1, <2>1 DEF IInv, FailedRests, TypeOK, Streams, Balance, Appending
<1> DEFINE open == HeaderBytes(entry) \o BodyBytes(entry, entry.size)
           padding == Padding(entry)
<1>3. sink \o buffer = accepted \o open
  BY <1>1, <1>2 DEF IInv, StreamIsExact, InProgress
<1>4. open \in Seq(Token) /\ padding \in Seq(Token)
  <2>1. entry.size \in Nat
    BY <1>2, EntryNumbers
  <2> QED
    BY <1>2, <2>1, PartTypes, ConcatProperties
<1>5. /\ Streams' /\ AcceptedIsKept' /\ CountsSink' /\ bytes' = bytes
      /\ sink' \o buffer' = (sink \o buffer) \o padding
  BY <1>1, <1>4, Written
<1>6. open \o padding = Record(entry)
  BY DEF Record
<1> HIDE DEF open, padding
<1>7. (accepted \o open) \o padding = accepted \o (open \o padding)
  BY <1>2, <1>4, JoinInAnyOrder, Zenon
<1>8. StreamIsExact'
  BY <1>1, <1>3, <1>5, <1>6, <1>7 DEF StreamIsExact, InProgress
<1>9. TypeOK'
  BY <1>1, <1>5 DEF IInv, TypeOK, Steps, Appending
<1>10. Balance' /\ FailedRests' /\ HonestAnswer'
  BY <1>1, <1>2 DEF IInv, Balance, FailedRests, HonestAnswer, Appending
<1> QED
  BY <1>5, <1>8, <1>9, <1>10 DEF IInv

(* The record is accepted: the stream is whole records again.              *)
LEMMA ProbeIInv == IInv /\ Probe => IInv'
<1> SUFFICES ASSUME IInv, Probe PROVE IInv'
  OBVIOUS
<1>1. /\ step = "probe" /\ ~failed /\ entry \in Entries
      /\ accepted \in Seq(Token) /\ sink \in Seq(Token) /\ buffer \in Seq(Token)
      /\ supplied = entry.size /\ supplied <= entry.yields
      /\ sink \o buffer = accepted \o Record(entry)
  <2>1. step = "probe"
    BY DEF Probe
  <2>2. entry \in Entries /\ remaining = 0 /\ remaining + supplied = entry.size
        /\ supplied <= entry.yields /\ supplied \in Nat
    BY <2>1 DEF IInv, TypeOK, Balance, Appending
  <2>3. supplied = entry.size
    BY <2>2, EntryNumbers
  <2>4. ~failed /\ sink \o buffer = accepted \o Record(entry)
    BY <2>1 DEF IInv, FailedRests, StreamIsExact, InProgress
  <2> QED
    BY <2>1, <2>2, <2>3, <2>4 DEF IInv, Streams
<1>2. entry.size \in Nat /\ entry.yields \in Nat
      /\ (entry.kind = "meta" => entry.size = 0 /\ entry.yields = 0)
  BY <1>1, EntryNumbers
<1>3. CASE supplied < entry.yields /\ AppendFails("BodyLengthMismatch")
  <2>1. entry.size # entry.yields
    BY <1>1, <1>2, <1>3
  <2> QED
    BY <1>3, <2>1, AppendFailsIInv
<1>4. CASE ~(supplied < entry.yields /\ AppendFails("BodyLengthMismatch"))
  <2>1. /\ entry.kind = "meta" \/ supplied = entry.yields
        /\ step' = "idle" /\ answer' = "Ok" /\ accepted' = accepted \o Record(entry)
        /\ UNCHANGED <<format, failed, entry, remaining, supplied, buffer, sink, bytes, appends>>
    BY <1>4 DEF Probe, bodyVars, pipeVars
  <2>2. entry.size = entry.yields
    BY <1>1, <1>2, <2>1
  <2>3. accepted' \in Seq(Token)
    BY <1>1, <2>1, PartTypes, ConcatProperties
  <2>4. accepted' = sink \o buffer
    BY <1>1, <2>1
  <2>5. StreamIsExact'
    BY <2>1, <2>3, <2>4, ConcatEmptySeq DEF StreamIsExact, InProgress
  <2>6. AcceptedIsKept'
    BY <2>1, <2>3, <2>4, LenProperties, SubSeqFull DEF AcceptedIsKept
  <2>7. Streams' /\ CountsSink'
    BY <2>1, <2>3 DEF IInv, Streams, CountsSink
  <2>8. TypeOK'
    BY <2>1 DEF IInv, TypeOK, Steps, Answers
  <2>9. Balance' /\ FailedRests' /\ HonestAnswer'
    BY <1>1, <2>1, <2>2 DEF Balance, FailedRests, HonestAnswer, Appending
  <2> QED
    BY <2>5, <2>6, <2>7, <2>8, <2>9 DEF IInv
<1> QED
  BY <1>3, <1>4

LEMMA FinishIInv == IInv /\ Finish => IInv'
<1> SUFFICES ASSUME IInv, Finish PROVE IInv'
  OBVIOUS
<1>1. CASE Lose("Aborted")
  BY <1>1, LoseIInv
<1>2. CASE ~Lose("Aborted")
  <2> DEFINE end == Bytes(2 * Block, "archive", "end")
  <2>1. /\ step = "idle" /\ ~failed /\ step' = "terminate" /\ Write(end)
        /\ UNCHANGED <<format, failed, entry, remaining, supplied, accepted, answer, appends>>
    BY <1>2 DEF Finish, bodyVars
  <2>2. end \in Seq(Token) /\ accepted \in Seq(Token)
    BY TrailerType DEF IInv, Streams
  <2>3. /\ Streams' /\ AcceptedIsKept' /\ CountsSink' /\ bytes' = bytes
        /\ sink' \o buffer' = (sink \o buffer) \o end
    BY <2>1, <2>2, Written
  <2>4. sink \o buffer = accepted
    BY <2>1, <2>2, ConcatEmptySeq DEF IInv, StreamIsExact, InProgress
  <2>5. StreamIsExact'
    BY <2>1, <2>3, <2>4 DEF StreamIsExact, InProgress
  <2>6. TypeOK'
    BY <2>1, <2>3 DEF IInv, TypeOK, Steps, Finishing
  <2>7. Balance' /\ FailedRests' /\ HonestAnswer'
    BY <2>1 DEF Balance, FailedRests, HonestAnswer, Appending
  <2> QED
    BY <2>3, <2>5, <2>6, <2>7 DEF IInv
<1> QED
  BY <1>1, <1>2

LEMMA ShutdownIInv == IInv /\ Shutdown => IInv'
<1> SUFFICES ASSUME IInv, Shutdown PROVE IInv'
  OBVIOUS
<1> DEFINE end == Bytes(2 * Block, "archive", "end")
           new == IF format = "TarZstd" THEN Bytes(1, "archive", "frame end") ELSE <<>>
<1>1. /\ step = "terminate" /\ step' = "shutdown" /\ Write(new)
      /\ UNCHANGED <<format, failed, entry, remaining, supplied, accepted, answer, appends>>
  BY DEF Shutdown, bodyVars
<1>2. end \in Seq(Token) /\ new \in Seq(Token) /\ accepted \in Seq(Token)
  BY TrailerType, EmptySeq DEF IInv, Streams
<1>3. ~failed /\ sink \o buffer = accepted \o end
  BY <1>1 DEF IInv, FailedRests, StreamIsExact, InProgress
<1>4. /\ Streams' /\ AcceptedIsKept' /\ CountsSink' /\ bytes' = bytes
      /\ sink' \o buffer' = (sink \o buffer) \o new
  BY <1>1, <1>2, Written
<1>5. end \o new = Trailer(format)
  BY DEF Trailer
<1> HIDE DEF end, new
<1>6. (accepted \o end) \o new = accepted \o (end \o new)
  BY <1>2, JoinInAnyOrder, Zenon
<1>7. sink' \o buffer' = accepted' \o Trailer(format')
  BY <1>1, <1>3, <1>4, <1>5, <1>6
<1>8. StreamIsExact'
  BY <1>1, <1>7 DEF StreamIsExact, InProgress
<1>9. TypeOK'
  BY <1>1, <1>4 DEF IInv, TypeOK, Steps, Finishing
<1>10. Balance' /\ FailedRests' /\ HonestAnswer'
  BY <1>1, <1>3 DEF Balance, FailedRests, HonestAnswer, Appending
<1> QED
  BY <1>4, <1>8, <1>9, <1>10 DEF IInv

LEMMA PublishIInv == IInv /\ Publish => IInv'
<1> SUFFICES ASSUME IInv, Publish PROVE IInv'
  OBVIOUS
<1>1. /\ step = "shutdown" /\ step' = "published" /\ answer' = "Ok"
      /\ UNCHANGED <<format, failed, entry, remaining, supplied, buffer, sink, bytes, accepted, appends>>
  BY DEF Publish, bodyVars, pipeVars
<1>2. Streams' /\ AcceptedIsKept' /\ CountsSink'
  BY <1>1, NoByte
<1>3. ~failed /\ sink \o buffer = accepted \o Trailer(format)
  BY <1>1 DEF IInv, FailedRests, StreamIsExact, InProgress
<1>4. StreamIsExact'
  BY <1>1, <1>3 DEF StreamIsExact, InProgress
<1>5. TypeOK'
  BY <1>1 DEF IInv, TypeOK, Steps, Answers
<1>6. Balance' /\ FailedRests' /\ HonestAnswer'
  BY <1>1, <1>3 DEF Balance, FailedRests, HonestAnswer, Appending
<1> QED
  BY <1>2, <1>4, <1>5, <1>6 DEF IInv

(* The sink takes a part: the stream as a whole stays as it is.            *)
LEMMA SinkTakesIInv == ASSUME NEW n \in 1 .. Chunk PROVE IInv /\ SinkTakes(n) => IInv'
<1> SUFFICES ASSUME IInv, SinkTakes(n) PROVE IInv'
  OBVIOUS
<1>1. /\ n <= Len(buffer) /\ sink' = sink \o SubSeq(buffer, 1, n)
      /\ buffer' = SubSeq(buffer, n + 1, Len(buffer)) /\ bytes' = bytes + n
      /\ UNCHANGED <<format, failed, step, entry, remaining, supplied, accepted, answer, appends>>
  BY DEF SinkTakes, bodyVars
<1>2. sink \in Seq(Token) /\ buffer \in Seq(Token) /\ accepted \in Seq(Token)
  BY DEF IInv, Streams
<1>3. n \in 1 .. Len(buffer)
  BY <1>1, <1>2, LenProperties, WriterAssumption
<1>4. /\ sink' \in Seq(Token) /\ buffer' \in Seq(Token) /\ Len(sink') = Len(sink) + n
      /\ sink' \o buffer' = sink \o buffer
  BY <1>1, <1>2, <1>3, PartTaken
<1>5. Streams' /\ AcceptedIsKept' /\ CountsSink'
  BY <1>1, <1>2, <1>4 DEF IInv, Streams, AcceptedIsKept, CountsSink
<1>6. StreamIsExact'
  BY <1>1, <1>4 DEF IInv, StreamIsExact, InProgress
<1>7. TypeOK'
  <2>1. bytes' \in Nat
    BY <1>1, <1>3, WriterAssumption DEF IInv, TypeOK
  <2> QED
    BY <1>1, <2>1 DEF IInv, TypeOK
<1>8. Balance' /\ FailedRests' /\ HonestAnswer'
  BY <1>1 DEF IInv, Balance, FailedRests, HonestAnswer
<1> QED
  BY <1>5, <1>6, <1>7, <1>8 DEF IInv

LEMMA SinkFailsIInv == IInv /\ SinkFails => IInv'
  BY AppendFailsIInv, LoseIInv DEF SinkFails

LEMMA CancelIInv == IInv /\ Cancel => IInv'
  BY AppendFailsIInv, LoseIInv DEF Cancel

LEMMA StutterIInv == IInv /\ UNCHANGED vars => IInv'
<1> SUFFICES ASSUME IInv, UNCHANGED vars PROVE IInv'
  OBVIOUS
<1>1. UNCHANGED <<format, failed, step, entry, remaining, supplied, buffer, sink, bytes,
                  accepted, answer, appends>>
  BY DEF vars, bodyVars, pipeVars
<1>2. Streams' /\ AcceptedIsKept' /\ CountsSink'
  BY <1>1, NoByte
<1>3. TypeOK' /\ Balance' /\ FailedRests' /\ HonestAnswer'
  BY <1>1 DEF IInv, TypeOK, Balance, FailedRests, HonestAnswer
<1>4. StreamIsExact'
  BY <1>1 DEF IInv, StreamIsExact, InProgress
<1> QED
  BY <1>2, <1>3, <1>4 DEF IInv

LEMMA NextIInv == IInv /\ [Next]_vars => IInv'
  BY AppendEntryIInv, BeginRecordIInv, ReadBodyIInv, BodyIsShortIInv, BodyFailsIInv,
     EndRecordIInv, ProbeIInv, FinishIInv, ShutdownIInv, PublishIInv, SinkTakesIInv,
     SinkFailsIInv, CancelIInv, StutterIInv
     DEF Next, Run

LEMMA WriterInvariant == Spec => []IInv
  BY InitIInv, NextIInv, PTL DEF Spec

-----------------------------------------------------------------------------
(* Every reachable state of the writer is well typed.                      *)
THEOREM WriterTypeCorrect == Spec => []TypeOK
<1>1. IInv => TypeOK
  BY DEF IInv
<1> QED
  BY <1>1, WriterInvariant, PTL

(* What leaves the writer is what was put in, in order, up to the record   *)
(* in progress (writer.rs:150-168).                                        *)
THEOREM WriterStreamIsExact == Spec => []StreamIsExact
<1>1. IInv => StreamIsExact
  BY DEF IInv
<1> QED
  BY <1>1, WriterInvariant, PTL

(* An entry answered with Ok stays whole at its place, whatever fails      *)
(* after it.                                                               *)
THEOREM WriterKeepsAccepted == Spec => []AcceptedIsKept
<1>1. IInv => AcceptedIsKept
  BY DEF IInv
<1> QED
  BY <1>1, WriterInvariant, PTL

(* encoded_bytes is what the sink took (writer.rs:206).                    *)
THEOREM WriterCountsSink == Spec => []CountsSink
<1>1. IInv => CountsSink
  BY DEF IInv
<1> QED
  BY <1>1, WriterInvariant, PTL

(* Ok is for bodies of the declared length only, and only the others are   *)
(* blamed for it (pack.rs:104).                                            *)
THEOREM WriterAnswersHonestly == Spec => []HonestAnswer
<1>1. IInv => HonestAnswer
  BY DEF IInv
<1> QED
  BY <1>1, WriterInvariant, PTL

-----------------------------------------------------------------------------
(* Writer implements ArchiveSink.                                          *)
SinkStep == [Abstract!SinkNext]_<<format, accepted, SinkState, SinkArchive>>

(* Both levels mean the same bytes.                                        *)
LEMMA SameBytes ==
  /\ Abstract!Formats = Formats
  /\ \A e : Abstract!Record(e) = Record(e)
  /\ \A f : Abstract!Trailer(f) = Trailer(f)
<1>1. \A n, name, part : Abstract!Bytes(n, name, part) = Bytes(n, name, part)
  BY DEF Abstract!Bytes, Bytes
<1>2. \A size : Abstract!PaddingLength(size) = PaddingLength(size)
  BY DEF Abstract!PaddingLength, PaddingLength
<1>3. \A e, part : Abstract!OneHeader(e, part) = OneHeader(e, part)
  BY <1>1 DEF Abstract!OneHeader, OneHeader
<1>4. \A e : Abstract!LongName(e) = LongName(e)
  BY <1>1, <1>2, <1>3 DEF Abstract!LongName, LongName
<1>5. \A e : Abstract!HeaderBytes(e) = HeaderBytes(e)
  BY <1>3, <1>4 DEF Abstract!HeaderBytes, HeaderBytes
<1>6. \A e : Abstract!Padding(e) = Padding(e)
  BY <1>1, <1>2 DEF Abstract!Padding, Padding
<1>7. \A e, n : Abstract!BodyBytes(e, n) = BodyBytes(e, n)
  BY <1>1 DEF Abstract!BodyBytes, BodyBytes
<1>8. \A e : Abstract!Record(e) = Record(e)
  BY <1>5, <1>6, <1>7 DEF Abstract!Record, Record
<1>9. \A f : Abstract!Trailer(f) = Trailer(f)
  BY <1>1 DEF Abstract!Trailer, Trailer
<1> QED
  BY <1>8, <1>9 DEF Abstract!Formats, Formats

LEMMA InitSink == Init => Abstract!SinkInit
  BY SameBytes DEF Init, Abstract!SinkInit, SinkState, SinkArchive

(* A step of a call that neither ends nor fails is not seen from outside.  *)
LEMMA UnseenBySink ==
  ASSUME UNCHANGED <<format, failed, accepted>>,
         step \notin {"published", "lost"}, step' \notin {"published", "lost"}
  PROVE  SinkStep
<1>1. UNCHANGED <<SinkState, SinkArchive>>
  BY DEF SinkState, SinkArchive
<1> QED
  BY <1>1 DEF SinkStep

(* A failure aborts an archive that is open, and is no news afterwards.    *)
LEMMA FailureAborts ==
  ASSUME IInv, step \notin {"published", "lost"},
         UNCHANGED <<format, accepted>>,
         \/ failed' = TRUE /\ step' = "idle"
         \/ step' = "lost" /\ failed' = failed
  PROVE  SinkStep
<1>1. SinkState \in {"open", "aborted"} /\ SinkState' = "aborted"
      /\ SinkArchive = <<>> /\ SinkArchive' = <<>>
  BY DEF SinkState, SinkArchive
<1>2. CASE SinkState = "open"
  <2>1. Abstract!Abort
    BY <1>1, <1>2 DEF Abstract!Abort
  <2> QED
    BY <2>1 DEF SinkStep, Abstract!SinkNext
<1>3. CASE SinkState = "aborted"
  <2>1. UNCHANGED <<format, accepted, SinkState, SinkArchive>>
    BY <1>1, <1>3
  <2> QED
    BY <2>1 DEF SinkStep
<1> QED
  BY <1>1, <1>2, <1>3

LEMMA AppendFailsSink ==
  ASSUME IInv, NEW why, AppendFails(why), step \notin {"published", "lost"}
  PROVE  SinkStep
<1>1. step' = "idle" /\ failed' = TRUE /\ UNCHANGED <<format, accepted>>
  BY DEF AppendFails
<1> QED
  BY <1>1, FailureAborts

LEMMA LoseSink ==
  ASSUME IInv, NEW why, Lose(why), step \notin {"published", "lost"}
  PROVE  SinkStep
<1>1. step' = "lost" /\ UNCHANGED <<format, failed, accepted>>
  BY DEF Lose
<1> QED
  BY <1>1, FailureAborts

(* The probe that finds nothing accepts the entry.                         *)
LEMMA ProbeSink == IInv /\ Probe => SinkStep
<1> SUFFICES ASSUME IInv, Probe PROVE SinkStep
  OBVIOUS
<1>1. step = "probe" /\ ~failed /\ entry \in Entries
  BY DEF Probe, IInv, TypeOK, FailedRests
<1>2. CASE AppendFails("BodyLengthMismatch")
  BY <1>1, <1>2, AppendFailsSink
<1>3. CASE ~AppendFails("BodyLengthMismatch")
  <2>1. /\ entry.kind = "meta" \/ supplied = entry.yields
        /\ step' = "idle" /\ accepted' = accepted \o Record(entry) /\ UNCHANGED <<format, failed>>
        /\ answer' = "Ok" /\ entry' = entry
    BY <1>3 DEF Probe, bodyVars
  <2>2. entry.size = entry.yields
    BY <2>1, ProbeIInv DEF IInv, HonestAnswer
  <2>3. SinkState = "open" /\ SinkState' = "open" /\ SinkArchive = <<>> /\ SinkArchive' = <<>>
    BY <1>1, <2>1 DEF SinkState, SinkArchive
  <2>4. Abstract!Accept(entry)
    BY <2>1, <2>2, <2>3, SameBytes DEF Abstract!Accept
  <2> QED
    BY <1>1, <2>4 DEF SinkStep, Abstract!SinkNext
<1> QED
  BY <1>2, <1>3

(* What finish returns is the complete archive.                            *)
LEMMA PublishSink == IInv /\ Publish => SinkStep
<1> SUFFICES ASSUME IInv, Publish PROVE SinkStep
  OBVIOUS
<1>1. /\ step = "shutdown" /\ buffer = <<>> /\ step' = "published"
      /\ UNCHANGED <<format, sink, accepted>>
  BY DEF Publish, pipeVars
<1>2. ~failed /\ sink \o buffer = accepted \o Trailer(format) /\ sink \in Seq(Token)
  BY <1>1 DEF IInv, FailedRests, StreamIsExact, InProgress, Streams
<1>3. sink = accepted \o Trailer(format)
  BY <1>1, <1>2, ConcatEmptySeq
<1>4. SinkState = "open" /\ SinkState' = "published" /\ SinkArchive' = sink
  BY <1>1, <1>2 DEF SinkState, SinkArchive
<1>5. Abstract!Publish
  BY <1>1, <1>3, <1>4, SameBytes DEF Abstract!Publish
<1> QED
  BY <1>5 DEF SinkStep, Abstract!SinkNext

LEMMA NextSink == IInv /\ [Next]_vars => SinkStep
<1> SUFFICES ASSUME IInv, [Next]_vars PROVE SinkStep
  OBVIOUS
<1>1. CASE UNCHANGED vars
  <2>1. UNCHANGED <<format, accepted, SinkState, SinkArchive>>
    BY <1>1 DEF vars, pipeVars, SinkState, SinkArchive
  <2> QED
    BY <2>1 DEF SinkStep
<1>2. ASSUME NEW e \in Entries, AppendEntry(e) PROVE SinkStep
  BY <1>2, UnseenBySink DEF AppendEntry
<1>3. CASE BeginRecord
  <2>1. step = "begin"
    BY <1>3 DEF BeginRecord
  <2> QED
    BY <1>3, <2>1, AppendFailsSink, UnseenBySink DEF BeginRecord
<1>4. ASSUME NEW n \in 1 .. Chunk, ReadBody(n) PROVE SinkStep
  <2>1. step = "body"
    BY <1>4 DEF ReadBody
  <2> QED
    BY <1>4, <2>1, AppendFailsSink, UnseenBySink DEF ReadBody
<1>5. ASSUME NEW n \in 1 .. Chunk, SinkTakes(n) PROVE SinkStep
  BY <1>5, UnseenBySink DEF SinkTakes, Appending, Finishing
<1>6. CASE BodyIsShort \/ BodyFails
  BY <1>6, AppendFailsSink DEF BodyIsShort, BodyFails
<1>7. CASE EndRecord \/ Shutdown
  BY <1>7, UnseenBySink DEF EndRecord, Shutdown
<1>8. CASE Finish
  <2>1. step = "idle"
    BY <1>8 DEF Finish
  <2> QED
    BY <1>8, <2>1, LoseSink, UnseenBySink DEF Finish
<1>9. CASE SinkFails \/ Cancel
  BY <1>9, AppendFailsSink, LoseSink DEF SinkFails, Cancel, Appending, Finishing
<1> QED
  BY <1>1, <1>2, <1>3, <1>4, <1>5, <1>6, <1>7, <1>8, <1>9, ProbeSink, PublishSink
     DEF Next, Run

(* Whatever is dropped, fails or comes in pieces, the writer grows by      *)
(* whole entries and is published complete, once, or never                 *)
(* (Writer::append and Writer::finish, writer.rs:155-198).                 *)
THEOREM WriterImplementsSink == Spec => ImplementsArchiveSink
<1>1. Init => Abstract!SinkInit
  BY InitSink
<1>2. IInv /\ [Next]_vars => SinkStep
  BY NextSink
<1> QED
  BY <1>1, <1>2, WriterInvariant, PTL
     DEF Spec, ImplementsArchiveSink, Abstract!SinkSpec, Abstract!sinkVars, SinkStep

-----------------------------------------------------------------------------
(* RoundTrip.  The facts about the walk over a tape hold of its tapes.     *)
Walked == INSTANCE TapeWalkProofs

(* The operators of TapeWalk mean the same to both.                        *)
LEMMA SameWalk ==
  /\ \A t : Tapes!Walks(t) = Walked!Walks(t)
  /\ \A t, o, size, rest : Tapes!Meets(t, o, size, rest) = Walked!Meets(t, o, size, rest)
  /\ Tapes!Overrides = Walked!Overrides
  /\ \A t : Tapes!IsTape(t) <=> Walked!IsTape(t)
  /\ \A n : Tapes!Padded(n) = Walked!Padded(n)
  /\ Tapes!NoSize = -1 /\ Tapes!Bad = -2
  BY DEF Tapes!Walks, Walked!Walks, Tapes!Meets, Walked!Meets, Tapes!Overrides,
         Walked!Overrides, Tapes!U64, Walked!U64, Tapes!NoSize, Walked!NoSize, Tapes!Bad,
         Walked!Bad, Tapes!Lost, Walked!Lost, Tapes!PayloadSize, Walked!PayloadSize,
         Tapes!Padded, Walked!Padded, Tapes!IsExtension, Walked!IsExtension,
         Tapes!ZeroBlock, Walked!ZeroBlock, Tapes!Refusal, Walked!Refusal,
         Tapes!Oversize, Walked!Oversize, Tapes!Unsized, Walked!Unsized,
         Tapes!IsTape, Walked!IsTape, Tapes!Header, Walked!Header

LEMMA WalkUnfolds ==
  ASSUME NEW t, Tapes!IsTape(t), NEW o \in 0 .. t.len
  PROVE  Tapes!Walks(t)[o][-1] = Tapes!Meets(t, o, -1, Tapes!Walks(t))
<1>1. Walked!TapeAssumption
  BY SinkAssumption, RoundTripAssumption DEF Walked!TapeAssumption
<1>2. -1 \in Walked!Overrides
  BY DEF Walked!Overrides, Walked!NoSize
<1> QED
  BY <1>1, <1>2, SameWalk, Walked!WalksUnfold

-----------------------------------------------------------------------------
(* The padding a writer adds is the one a reader expects (pack.rs against  *)
(* guard.rs:78-80).                                                        *)
LEMMA DivIs ==
  ASSUME NEW a \in Nat, NEW b \in Nat \ {0}, NEW q \in Nat, q * b <= a, a < q * b + b
  PROVE  a \div b = q
<1> DEFINE d == a \div b
<1>1. d \in Nat /\ d * b <= a /\ a < d * b + b
  BY Walked!DivBounds, Z3
<1> HIDE DEF d
<1>2. ~(d >= q + 1)
  <2> SUFFICES ASSUME d >= q + 1 PROVE d * b >= q * b + b
    BY <1>1
  <2> QED
    BY <1>1, Z3
<1>3. ~(q >= d + 1)
  <2> SUFFICES ASSUME q >= d + 1 PROVE q * b >= d * b + b
    BY <1>1
  <2> QED
    BY <1>1, Z3
<1>4. d = q
  BY <1>1, <1>2, <1>3
<1> QED
  BY <1>4 DEF d

LEMMA PaddedIs ==
  ASSUME NEW n \in Nat
  PROVE  /\ Tapes!Padded(n) = n + PaddingLength(n)
         /\ PaddingLength(n) \in Nat
<1> DEFINE q == n \div Block
           r == n % Block
<1>1. Block \in Nat \ {0}
  BY SinkAssumption
<1>2. q \in Nat /\ r \in 0 .. Block - 1 /\ n = q * Block + r /\ q * Block \in Nat
  BY <1>1, Z3
<1>3. Tapes!Padded(n) = ((n + (Block - 1)) \div Block) * Block
  BY DEF Tapes!Padded
<1>4. PaddingLength(n) = (Block - r) % Block
  BY DEF PaddingLength
<1> HIDE DEF q, r
<1>5. CASE r = 0
  <2>1. (n + (Block - 1)) \div Block = q
    BY <1>1, <1>2, <1>5, DivIs
  <2>2. (Block - r) % Block = 0
    BY <1>1, <1>5, Z3
  <2> QED
    BY <1>2, <1>3, <1>4, <1>5, <2>1, <2>2
<1>6. CASE r > 0
  <2>0. (q + 1) * Block = q * Block + Block
    BY <1>1, <1>2, Z3
  <2>1. (n + (Block - 1)) \div Block = q + 1
    BY <1>1, <1>2, <1>6, <2>0, DivIs
  <2>2. (Block - r) % Block = Block - r
    BY <1>1, <1>2, <1>6, Z3
  <2> QED
    BY <1>1, <1>2, <1>3, <1>4, <1>6, <2>0, <2>1, <2>2
<1> QED
  BY <1>1, <1>2, <1>5, <1>6

-----------------------------------------------------------------------------
(* The tokens of a stream that is joined from two.                         *)
LEMMA Joined ==
  ASSUME NEW s \in Seq(Token), NEW t \in Seq(Token)
  PROVE  /\ s \o t \in Seq(Token)
         /\ Len(s) \in Nat /\ Len(t) \in Nat
         /\ Len(s \o t) = Len(s) + Len(t)
         /\ \A i \in 1 .. Len(s) : (s \o t)[i] = s[i]
         /\ \A i \in 1 .. Len(t) : (s \o t)[Len(s) + i] = t[i]
<1>1. /\ s \o t \in Seq(Token) /\ Len(s \o t) = Len(s) + Len(t)
      /\ \A i \in 1 .. Len(s) + Len(t) : (s \o t)[i] = IF i <= Len(s) THEN s[i] ELSE t[i - Len(s)]
  BY ConcatProperties
<1>2. Len(s) \in Nat /\ Len(t) \in Nat
  BY LenProperties
<1>3. \A i \in 1 .. Len(s) : (s \o t)[i] = s[i]
  BY <1>1, <1>2
<1>4. ASSUME NEW i \in 1 .. Len(t) PROVE (s \o t)[Len(s) + i] = t[i]
  <2>1. Len(s) + i \in 1 .. Len(s) + Len(t) /\ ~(Len(s) + i <= Len(s)) /\ Len(s) + i - Len(s) = i
    BY <1>2
  <2> QED
    BY <1>1, <2>1
<1> QED
  BY <1>1, <1>2, <1>3, <1>4

Only(s, parts) == \A i \in 1 .. Len(s) : s[i].part \in parts

LEMMA OnlyJoined ==
  ASSUME NEW s \in Seq(Token), NEW t \in Seq(Token), NEW parts,
         Only(s, parts), Only(t, parts)
  PROVE  Only(s \o t, parts)
<1> SUFFICES ASSUME NEW i \in 1 .. Len(s \o t) PROVE (s \o t)[i].part \in parts
  BY DEF Only
<1>1. CASE i <= Len(s)
  BY <1>1, Joined DEF Only
<1>2. CASE ~(i <= Len(s))
  <2>1. i - Len(s) \in 1 .. Len(t) /\ i = Len(s) + (i - Len(s))
    BY <1>2, Joined
  <2> QED
    BY <2>1, Joined DEF Only
<1> QED
  BY <1>1, <1>2

(* Where the parts of a record lie.                                        *)
LEMMA BytesShape ==
  ASSUME NEW n \in Nat, NEW name \in Names, NEW which \in Parts
  PROVE  /\ Bytes(n, name, which) \in Seq(Token)
         /\ Len(Bytes(n, name, which)) = n
         /\ \A i \in 1 .. n : Bytes(n, name, which)[i] = [entry |-> name, part |-> which]
         /\ Only(Bytes(n, name, which), {which})
<1>1. Bytes(n, name, which) \in Seq(Token) /\ Len(Bytes(n, name, which)) = n
  BY BytesType
<1>2. \A i \in 1 .. n : Bytes(n, name, which)[i] = [entry |-> name, part |-> which]
  BY DEF Bytes
<1> QED
  BY <1>1, <1>2 DEF Only

LEMMA OneHeaderShape ==
  ASSUME NEW e \in Entries, NEW which \in Parts
  PROVE  /\ OneHeader(e, which) \in Seq(Token)
         /\ Len(OneHeader(e, which)) = Block
         /\ OneHeader(e, which)[1] = [entry |-> e.name, part |-> which]
         /\ \A i \in 2 .. Block : OneHeader(e, which)[i].part = "fields"
<1> DEFINE one == 1
           most == Block - 1
           h == Bytes(one, e.name, which)
           f == Bytes(most, e.name, "fields")
<1>0. Block \in Nat /\ Block > 0 /\ Block - 1 \in Nat
  BY SinkAssumption
<1>1. e.name \in Names /\ which \in Parts /\ "fields" \in Parts
  BY EntryNumbers DEF Parts
<1>a. one \in Nat /\ most \in Nat /\ 1 \in 1 .. one
  BY <1>0
<1>4. OneHeader(e, which) = h \o f
  BY DEF OneHeader
<1> HIDE DEF one, most
<1>2. /\ h \in Seq(Token) /\ Len(h) = one /\ h[1] = [entry |-> e.name, part |-> which]
  <2>1. h \in Seq(Token) /\ Len(h) = one
    BY <1>1, <1>a, BytesShape
  <2>2. \A i \in 1 .. one : h[i] = [entry |-> e.name, part |-> which]
    BY DEF Bytes
  <2> QED
    BY <1>a, <2>1, <2>2
<1>3. /\ f \in Seq(Token) /\ Len(f) = most /\ \A i \in 1 .. most : f[i].part = "fields"
  <2>1. f \in Seq(Token) /\ Len(f) = most
    BY <1>1, <1>a, BytesShape
  <2>2. \A i \in 1 .. most : f[i] = [entry |-> e.name, part |-> "fields"]
    BY DEF Bytes
  <2> QED
    BY <2>1, <2>2
<1> HIDE DEF h, f
<1>5. /\ h \o f \in Seq(Token) /\ Len(h \o f) = Len(h) + Len(f)
      /\ \A i \in 1 .. Len(h) : (h \o f)[i] = h[i]
      /\ \A i \in 1 .. Len(f) : (h \o f)[Len(h) + i] = f[i]
  BY <1>2, <1>3, Joined
<1>6. Len(h) = 1 /\ Len(f) = Block - 1
  BY <1>2, <1>3 DEF one, most
<1>7. 1 \in 1 .. Len(h) /\ Len(h) + Len(f) = Block
  BY <1>0, <1>6
<1>8. \A i \in 2 .. Block : (h \o f)[i].part = "fields"
  <2> TAKE i \in 2 .. Block
  <2>1. i - 1 \in 1 .. Len(f) /\ i = Len(h) + (i - 1)
    BY <1>0, <1>6
  <2>2. (h \o f)[i] = f[i - 1]
    BY <1>5, <2>1
  <2> QED
    BY <1>3, <2>1, <2>2
<1> QED
  BY <1>2, <1>4, <1>5, <1>7, <1>8

LongParts == {"long header", "fields", "long name", "padding"}

LEMMA LongShape ==
  ASSUME NEW e \in Entries
  PROVE  /\ LongName(e) \in Seq(Token)
         /\ Len(LongName(e)) = IF e.long = 0 THEN 0 ELSE Block + Tapes!Padded(e.long)
         /\ Only(LongName(e), LongParts)
         /\ e.long # 0 => LongName(e)[1] = [entry |-> e.name, part |-> "long header"]
<1>0. e.name \in Names
  BY EntryNumbers
<1>1. /\ e.long \in Nat /\ Block \in Nat /\ Block > 0
      /\ PaddingLength(e.long) \in Nat /\ Tapes!Padded(e.long) = e.long + PaddingLength(e.long)
  BY EntryNumbers, PaddedIs
<1>2. CASE e.long = 0
  BY <1>2, EmptySeq DEF LongName, Only
<1>3. CASE e.long # 0
  <2> DEFINE h == OneHeader(e, "long header")
             b == Bytes(e.long, e.name, "long name")
             p == Bytes(PaddingLength(e.long), e.name, "padding")
  <2>1. /\ h \in Seq(Token) /\ Len(h) = Block /\ h[1] = [entry |-> e.name, part |-> "long header"]
        /\ \A i \in 2 .. Block : h[i].part = "fields"
    BY OneHeaderShape DEF Parts
  <2>1a. Len(h) = Block /\ 1 \in 1 .. Len(h)
    <3>1. Len(h) = Block
      BY <2>1
    <3> HIDE DEF h
    <3> QED
      BY <1>1, <3>1
  <2>1b. h[1].part = "long header"
    <3>1. h[1] = [entry |-> e.name, part |-> "long header"]
      BY <2>1
    <3> DEFINE first == h[1]
    <3> HIDE DEF h, first
    <3>2. first = [entry |-> e.name, part |-> "long header"]
      BY <3>1 DEF first
    <3>3. first.part = "long header"
      BY <3>2
    <3> QED
      BY <3>3 DEF first
  <2>2. Only(h, LongParts)
    <3> SUFFICES ASSUME NEW i \in 1 .. Block PROVE h[i].part \in LongParts
      BY <2>1 DEF Only
    <3> HIDE DEF h
    <3>1. i = 1 \/ i \in 2 .. Block
      BY <1>1
    <3>2. CASE i = 1
      BY <2>1b, <3>2 DEF LongParts
    <3>3. CASE i \in 2 .. Block
      <4>1. h[i].part = "fields"
        BY <2>1, <3>3
      <4> QED
        BY <4>1 DEF LongParts
    <3> QED
      BY <3>1, <3>2, <3>3
  <2>3. b \in Seq(Token) /\ Len(b) = e.long /\ Only(b, {"long name"})
    BY <1>0, <1>1, BytesShape DEF Parts
  <2>4. p \in Seq(Token) /\ Len(p) = PaddingLength(e.long) /\ Only(p, {"padding"})
    BY <1>0, <1>1, BytesShape DEF Parts
  <2>5. LongName(e) = (h \o b) \o p
    BY <1>3 DEF LongName
  <2> HIDE DEF h, b, p
  <2>6. Only(b, LongParts) /\ Only(p, LongParts)
    BY <2>3, <2>4 DEF Only, LongParts
  <2>7. /\ h \o b \in Seq(Token) /\ Len(h \o b) = Block + e.long /\ (h \o b)[1] = h[1]
        /\ Only(h \o b, LongParts)
    <3>1. /\ h \o b \in Seq(Token) /\ Len(h \o b) = Len(h) + Len(b)
          /\ \A i \in 1 .. Len(h) : (h \o b)[i] = h[i]
      BY <2>1, <2>3, Joined
    <3>2. 1 \in 1 .. Len(h)
      BY <2>1a
    <3>3. Only(h \o b, LongParts)
      BY <2>1, <2>2, <2>3, <2>6, OnlyJoined
    <3> QED
      BY <2>1a, <2>3, <3>1, <3>2, <3>3
  <2>8. /\ (h \o b) \o p \in Seq(Token) /\ Len((h \o b) \o p) = Block + e.long + Len(p)
        /\ ((h \o b) \o p)[1] = (h \o b)[1]
        /\ Only((h \o b) \o p, LongParts)
    <3>1. /\ (h \o b) \o p \in Seq(Token) /\ Len((h \o b) \o p) = Len(h \o b) + Len(p)
          /\ \A i \in 1 .. Len(h \o b) : ((h \o b) \o p)[i] = (h \o b)[i]
      BY <2>4, <2>7, Joined
    <3>2. 1 \in 1 .. Len(h \o b)
      <4>1. Len(h \o b) = Block + e.long
        BY <2>7
      <4> QED
        BY <1>1, <4>1
    <3>3. Only((h \o b) \o p, LongParts)
      BY <2>4, <2>6, <2>7, OnlyJoined
    <3> QED
      BY <2>7, <3>1, <3>2, <3>3
  <2>9. Len(LongName(e)) = Block + Tapes!Padded(e.long)
    BY <1>1, <2>4, <2>5, <2>8
  <2> QED
    BY <1>3, <2>1, <2>5, <2>7, <2>8, <2>9
<1> QED
  BY <1>2, <1>3

RestParts == LongParts \cup {"body"}

(* A record is a long name, if it has one, a header and a padded body; the *)
(* header is where its first byte says, and nowhere else.                  *)
LEMMA RecordShape ==
  ASSUME NEW e \in Entries
  PROVE  LET long == Len(LongName(e))
             r == Record(e)
         IN  /\ r \in Seq(Token)
             /\ long \in Nat
             /\ Len(r) = long + Block + Tapes!Padded(e.size)
             /\ r[long + 1] = [entry |-> e.name, part |-> "header"]
             /\ e.long # 0 => r[1] = [entry |-> e.name, part |-> "long header"]
             /\ \A i \in 1 .. Len(r) : i # long + 1 => r[i].part \in RestParts
<1> DEFINE l == LongName(e)
           h == OneHeader(e, "header")
           b == Bytes(e.size, e.name, "body")
           p == Bytes(PaddingLength(e.size), e.name, "padding")
<1>0. e.name \in Names
  BY EntryNumbers
<1>1. /\ e.size \in Nat /\ e.long \in Nat /\ Block \in Nat /\ Block > 0
      /\ PaddingLength(e.size) \in Nat /\ Tapes!Padded(e.size) = e.size + PaddingLength(e.size)
  BY EntryNumbers, PaddedIs
<1>2. /\ l \in Seq(Token) /\ Only(l, LongParts) /\ (e.long = 0 => Len(l) = 0)
      /\ e.long # 0 => Len(l) > 0 /\ l[1] = [entry |-> e.name, part |-> "long header"]
  <2>1. Tapes!Padded(e.long) \in Nat
    BY <1>1, PaddedIs
  <2> QED
    <3>1. /\ l \in Seq(Token) /\ Only(l, LongParts)
          /\ Len(l) = IF e.long = 0 THEN 0 ELSE Block + Tapes!Padded(e.long)
          /\ e.long # 0 => l[1] = [entry |-> e.name, part |-> "long header"]
      BY LongShape
    <3> HIDE DEF l
    <3>3. Len(l) = IF e.long = 0 THEN 0 ELSE Block + Tapes!Padded(e.long)
      BY <3>1
    <3>2. (e.long = 0 => Len(l) = 0) /\ (e.long # 0 => Len(l) > 0)
      BY <1>1, <2>1, <3>3
    <3> QED
      BY <3>1, <3>2
<1>3. /\ h \in Seq(Token) /\ Len(h) = Block /\ h[1] = [entry |-> e.name, part |-> "header"]
      /\ \A i \in 2 .. Block : h[i].part = "fields"
  BY OneHeaderShape DEF Parts
<1>4. b \in Seq(Token) /\ Len(b) = e.size /\ Only(b, {"body"})
  BY <1>0, <1>1, BytesShape DEF Parts
<1>5. p \in Seq(Token) /\ Len(p) = PaddingLength(e.size) /\ Only(p, {"padding"})
  BY <1>0, <1>1, BytesShape DEF Parts
<1>6. Record(e) = ((l \o h) \o b) \o p
  BY DEF Record, HeaderBytes, BodyBytes, Padding
<1> HIDE DEF l, h, b, p
<1>7. Len(l) \in Nat
  BY <1>2, LenProperties
<1>8. /\ l \o h \in Seq(Token) /\ Len(l \o h) = Len(l) + Block
      /\ (l \o h)[Len(l) + 1] = h[1]
      /\ e.long # 0 => (l \o h)[1] = l[1]
      /\ \A i \in 1 .. Len(l) + Block : i # Len(l) + 1 => (l \o h)[i].part \in RestParts
  <2>1. /\ l \o h \in Seq(Token) /\ Len(l \o h) = Len(l) + Block
        /\ \A i \in 1 .. Len(l) : (l \o h)[i] = l[i]
        /\ \A i \in 1 .. Block : (l \o h)[Len(l) + i] = h[i]
    BY <1>2, <1>3, Joined
  <2>2. ASSUME NEW i \in 1 .. Len(l) + Block, i # Len(l) + 1
        PROVE  (l \o h)[i].part \in RestParts
    <3>1. CASE i \in 1 .. Len(l)
      BY <1>2, <2>1, <3>1 DEF Only, RestParts
    <3>2. CASE i \notin 1 .. Len(l)
      <4>1. i - Len(l) \in 2 .. Block /\ i = Len(l) + (i - Len(l)) /\ i - Len(l) \in 1 .. Block
        BY <1>1, <1>7, <2>2, <3>2
      <4>2. (l \o h)[Len(l) + (i - Len(l))] = h[i - Len(l)]
        BY <2>1, <4>1
      <4> QED
        BY <1>3, <4>1, <4>2 DEF RestParts, LongParts
    <3> QED
      BY <3>1, <3>2
  <2>3. 1 \in 1 .. Block /\ (e.long # 0 => 1 \in 1 .. Len(l))
    <3>1. e.long # 0 => Len(l) > 0
      BY <1>2
    <3> QED
      BY <1>1, <1>7, <3>1
  <2> QED
    BY <2>1, <2>2, <2>3
<1> DEFINE n == Len(l) + Block
<1>9. n \in Nat /\ 1 \in 1 .. n /\ Len(l) + 1 \in 1 .. n
  BY <1>1, <1>7
<1>10. /\ (l \o h) \o b \in Seq(Token) /\ Len((l \o h) \o b) = n + e.size
       /\ \A i \in 1 .. n : ((l \o h) \o b)[i] = (l \o h)[i]
       /\ \A i \in 1 .. e.size : ((l \o h) \o b)[n + i] = b[i]
  <2>1. Len(l \o h) = n /\ Len(b) = e.size /\ l \o h \in Seq(Token) /\ b \in Seq(Token)
    BY <1>4, <1>8
  <2> DEFINE lh == l \o h
  <2> HIDE DEF lh, n
  <2>2. /\ lh \o b \in Seq(Token) /\ Len(lh \o b) = Len(lh) + Len(b)
        /\ \A i \in 1 .. Len(lh) : (lh \o b)[i] = lh[i]
        /\ \A i \in 1 .. Len(b) : (lh \o b)[Len(lh) + i] = b[i]
    BY <2>1, Joined DEF lh
  <2>3. Len(lh) = n /\ Len(b) = e.size
    BY <2>1 DEF lh
  <2> QED
    BY <2>2, <2>3 DEF lh
<1>11. /\ ((l \o h) \o b) \o p \in Seq(Token)
       /\ Len(((l \o h) \o b) \o p) = n + e.size + Len(p)
       /\ \A i \in 1 .. n + e.size : (((l \o h) \o b) \o p)[i] = ((l \o h) \o b)[i]
       /\ \A i \in 1 .. Len(p) : (((l \o h) \o b) \o p)[n + e.size + i] = p[i]
  <2> DEFINE lhb == (l \o h) \o b
  <2> HIDE DEF lhb, n
  <2>1. Len(lhb) = n + e.size /\ lhb \in Seq(Token)
    BY <1>10 DEF lhb
  <2>2. /\ lhb \o p \in Seq(Token) /\ Len(lhb \o p) = Len(lhb) + Len(p)
        /\ \A i \in 1 .. Len(lhb) : (lhb \o p)[i] = lhb[i]
        /\ \A i \in 1 .. Len(p) : (lhb \o p)[Len(lhb) + i] = p[i]
    BY <1>5, <2>1, Joined
  <2> QED
    BY <2>1, <2>2 DEF lhb
<1> DEFINE r == ((l \o h) \o b) \o p
<1>12. \A i \in 1 .. n : r[i] = (l \o h)[i]
  <2> TAKE i \in 1 .. n
  <2>1. i \in 1 .. n + e.size
    BY <1>1, <1>9
  <2> QED
    BY <1>10, <1>11, <2>1
<1>13. \A i \in 1 .. e.size : r[n + i].part = "body"
  <2> TAKE i \in 1 .. e.size
  <2>1. n + i \in 1 .. n + e.size
    BY <1>1, <1>9
  <2> QED
    <3>1. b[i].part = "body"
      BY <1>4 DEF Only
    <3> QED
      BY <1>10, <1>11, <2>1, <3>1
<1>14. \A i \in 1 .. Len(p) : r[n + e.size + i].part = "padding"
  BY <1>5, <1>11 DEF Only
<1>15. Len(r) = n + e.size + Len(p) /\ r \in Seq(Token)
  BY <1>11
<1>16. Len(p) \in Nat
  BY <1>1, <1>5
<1> HIDE DEF r
<1>17. ASSUME NEW i \in 1 .. Len(r), i # Len(l) + 1 PROVE r[i].part \in RestParts
  <2>1. CASE i \in 1 .. n
    BY <1>8, <1>12, <1>17, <2>1
  <2>2. CASE i \in n + 1 .. n + e.size
    <3>1. i - n \in 1 .. e.size /\ i = n + (i - n)
      BY <1>1, <1>9, <2>2
    <3> QED
      BY <1>13, <3>1 DEF RestParts
  <2>3. CASE i \in n + e.size + 1 .. n + e.size + Len(p)
    <3>1. i - (n + e.size) \in 1 .. Len(p) /\ i = n + e.size + (i - (n + e.size))
      BY <1>1, <1>9, <1>16, <2>3
    <3> QED
      BY <1>14, <3>1 DEF RestParts, LongParts
  <2> QED
    BY <1>1, <1>9, <1>15, <1>16, <2>1, <2>2, <2>3
<1>18. r[Len(l) + 1] = [entry |-> e.name, part |-> "header"]
       /\ (e.long # 0 => r[1] = [entry |-> e.name, part |-> "long header"])
  BY <1>2, <1>3, <1>8, <1>9, <1>12
<1>19. Len(r) = Len(l) + Block + Tapes!Padded(e.size)
  BY <1>1, <1>5, <1>7, <1>15
<1>20. Record(e) = r /\ LongName(e) = l
  BY <1>6 DEF r, l
<1> QED
  BY <1>7, <1>15, <1>17, <1>18, <1>19, <1>20

-----------------------------------------------------------------------------
(* A stream before the end of its frame: what says that a header is there  *)
(* names an entry.                                                         *)
Sound(s) ==
  /\ s \in Seq(Token)
  /\ \A i \in 1 .. Len(s) :
       /\ s[i].part # "frame end"
       /\ s[i].part \in {"header", "long header"} => \E e \in Entries : s[i].entry = e.name

Prefix(s, a) == Len(s) <= Len(a) /\ \A i \in 1 .. Len(s) : s[i] = a[i]

HeadersOf(s) == {o \in 0 .. Len(s) - 1 : s[o + 1].part = "header"}

From(s, o) == Tapes!Walks(TapeOf(s))[o][-1]

LEMMA SoundPrefix ==
  ASSUME NEW s \in Seq(Token), NEW a, Sound(a), Prefix(s, a)
  PROVE  Sound(s)
<1>1. Len(s) \in Nat /\ Len(a) \in Nat
  BY LenProperties DEF Sound
<1> SUFFICES ASSUME NEW i \in 1 .. Len(s)
             PROVE  /\ s[i].part # "frame end"
                    /\ s[i].part \in {"header", "long header"} =>
                         \E e \in Entries : s[i].entry = e.name
  BY DEF Sound
<1>2. s[i] = a[i] /\ i \in 1 .. Len(a)
  BY <1>1 DEF Prefix
<1> QED
  BY <1>2 DEF Sound

(* The name on a header is the name of one entry.                          *)
LEMMA NamedIs ==
  ASSUME NEW e \in Entries
  PROVE  Named(e.name) = e
<1>1. \E f \in Entries : f.name = e.name
  OBVIOUS
<1>2. Named(e.name) \in Entries /\ Named(e.name).name = e.name
  BY <1>1 DEF Named
<1> QED
  BY <1>2, RoundTripAssumption

LEMMA EntryLimits ==
  ASSUME NEW e \in Entries
  PROVE  /\ e.size \in 0 .. MaxU64 /\ e.size + (Block - 1) <= MaxU64
         /\ e.long \in 0 .. MaxU64 /\ e.long + (Block - 1) <= MaxU64
         /\ e.long <= MaxMetadata
<1>1. e.size \in Nat /\ e.long \in Nat /\ Block \in Nat /\ Block > 0 /\ MaxU64 \in Nat
  BY EntryNumbers, PaddedIs, RoundTripAssumption
<1>2. /\ e.long <= MaxMetadata
      /\ e.long + (Block - 1) <= MaxU64
      /\ e.size + (Block - 1) <= MaxU64
  BY RoundTripAssumption
<1> DEFINE n == e.size
           m == e.long
<1> HIDE DEF n, m
<1>3. n \in 0 .. MaxU64 /\ m \in 0 .. MaxU64
  BY <1>1, <1>2 DEF n, m
<1> QED
  BY <1>2, <1>3 DEF n, m

LEMMA HeaderRead ==
  ASSUME NEW s, Sound(s), NEW o \in 0 .. Len(s) - 1, NEW e \in Entries,
         s[o + 1].entry = e.name
  PROVE  /\ s[o + 1].part = "header" =>
              HeaderAt(s, o) = [kind |-> "entry", size |-> e.size, pax |-> -1]
         /\ s[o + 1].part = "long header" =>
              HeaderAt(s, o) = [kind |-> "long", size |-> e.long, pax |-> -1]
<1>1. Len(s) \in Nat
  BY LenProperties DEF Sound
<1>2. o # Len(s)
  BY <1>1
<1>3. Named(s[o + 1].entry) = e
  BY NamedIs
<1>4. Tapes!NoSize = -1
  BY SameWalk
<1> DEFINE token == s[o + 1]
<1>5. Named(token.entry) = e
  BY <1>3
<1> HIDE DEF token
<1>6. /\ token.part = "header" =>
            HeaderAt(s, o) = [kind |-> "entry", size |-> e.size, pax |-> -1]
      /\ token.part = "long header" =>
            HeaderAt(s, o) = [kind |-> "long", size |-> e.long, pax |-> -1]
  BY <1>2, <1>4, <1>5 DEF HeaderAt, token
<1> QED
  BY <1>6 DEF token

LEMMA TapeIs ==
  ASSUME NEW s, Sound(s)
  PROVE  /\ Tapes!IsTape(TapeOf(s))
         /\ TapeOf(s).len = Len(s) /\ Len(s) \in Nat
         /\ \A o \in 0 .. Len(s) : TapeOf(s).at[o] = HeaderAt(s, o)
         /\ \A o \in 0 .. Len(s) - 1 :
              o \in TapeOf(s).dirty
                <=> s[o + 1].part \in {"header", "long header", "long name"}
<1>1. Len(s) \in Nat
  BY LenProperties DEF Sound
<1>2. ASSUME NEW o \in 0 .. Len(s) PROVE HeaderAt(s, o) \in Tapes!Header
  <2>1. CASE o # Len(s) /\ s[o + 1].part \in {"header", "long header"}
    <3>0. o # Len(s)
      BY <2>1
    <3>1. o \in 0 .. Len(s) - 1 /\ o + 1 \in 1 .. Len(s)
      BY ONLY <1>1, <3>0, o \in 0 .. Len(s)
    <3>2. PICK e \in Entries : s[o + 1].entry = e.name
      BY <2>1, <3>1 DEF Sound
    <3>3. \/ HeaderAt(s, o) = [kind |-> "entry", size |-> e.size, pax |-> -1]
          \/ HeaderAt(s, o) = [kind |-> "long", size |-> e.long, pax |-> -1]
      BY <2>1, <3>1, <3>2, HeaderRead
    <3>4. e.size \in Tapes!U64 /\ e.long \in Tapes!U64
      BY EntryLimits DEF Tapes!U64
    <3>5. -1 \in Tapes!U64 \cup {Tapes!NoSize, Tapes!Bad}
      BY SameWalk
    <3> QED
      BY <3>3, <3>4, <3>5 DEF Tapes!Header
  <2>2. CASE ~(o # Len(s) /\ s[o + 1].part \in {"header", "long header"})
    <3>1. HeaderAt(s, o) = [kind |-> "other", size |-> 0, pax |-> Tapes!NoSize]
      BY <2>2 DEF HeaderAt
    <3>2. 0 \in Tapes!U64
      BY RoundTripAssumption DEF Tapes!U64
    <3> QED
      BY <3>1, <3>2 DEF Tapes!Header
  <2> QED
    BY <2>1, <2>2
<1> DEFINE t == TapeOf(s)
<1>3. t.len = Len(s)
  BY DEF TapeOf
<1>4. t.at = [o \in 0 .. Len(s) |-> HeaderAt(s, o)]
  BY DEF TapeOf
<1>5. t.dirty = {o \in 0 .. Len(s) - 1 :
                   s[o + 1].part \in {"header", "long header", "long name"}}
  BY DEF TapeOf
<1> HIDE DEF t
<1>6. t.at \in [0 .. Len(s) -> Tapes!Header]
  BY <1>2, <1>4
<1>7. Tapes!IsTape(t)
  BY <1>1, <1>3, <1>5, <1>6 DEF Tapes!IsTape
<1> QED
  BY <1>1, <1>3, <1>4, <1>5, <1>7 DEF t

-----------------------------------------------------------------------------
(* The walk from one place to the next.                                    *)
LEMMA EndMet ==
  ASSUME NEW s, Sound(s)
  PROVE  From(s, Len(s)).end = -1
<1> DEFINE t == TapeOf(s)
<1>1. Tapes!IsTape(t) /\ t.len = Len(s) /\ Len(s) \in Nat
  BY TapeIs
<1>2. From(s, Len(s)) = Tapes!Meets(t, Len(s), -1, Tapes!Walks(t))
  BY <1>1, WalkUnfolds DEF From
<1>3. Len(s) + Block > t.len
  BY <1>1, SinkAssumption
<1> HIDE DEF t
<1>4. Tapes!Meets(t, Len(s), -1, Tapes!Walks(t)) = Tapes!Lost
  BY <1>3 DEF Tapes!Meets
<1>5. Tapes!Lost.end = -1
  BY SameWalk DEF Tapes!Lost
<1> QED
  BY <1>2, <1>4, <1>5

(* Zeros where a header might be are the end of the archive.               *)
EndsAt(s, o) == \A i \in o + 1 .. o + Block : s[i].part = "end"

LEMMA ZerosMet ==
  ASSUME NEW s, Sound(s), NEW o \in 0 .. Len(s), o + Block <= Len(s), EndsAt(s, o)
  PROVE  From(s, o) = [end |-> o, members |-> {}]
<1> DEFINE t == TapeOf(s)
<1>1. /\ Tapes!IsTape(t) /\ t.len = Len(s) /\ Len(s) \in Nat
      /\ \A b \in 0 .. Len(s) - 1 :
           b \in t.dirty <=> s[b + 1].part \in {"header", "long header", "long name"}
  BY TapeIs
<1>2. From(s, o) = Tapes!Meets(t, o, -1, Tapes!Walks(t))
  BY <1>1, WalkUnfolds DEF From
<1>a. Len(s) \in Nat /\ Block \in Nat
  BY <1>1, SinkAssumption
<1> HIDE DEF t
<1>3. ASSUME NEW b \in o .. o + Block - 1 PROVE b \notin t.dirty
  <2>1. b \in 0 .. Len(s) - 1 /\ b + 1 \in o + 1 .. o + Block
    BY <1>a
  <2>2. s[b + 1].part = "end"
    BY <2>1 DEF EndsAt
  <2> QED
    BY <1>1, <2>1, <2>2
<1>4. Tapes!ZeroBlock(t, o)
  BY <1>3 DEF Tapes!ZeroBlock
<1>b. t.len = Len(s)
  BY <1>1
<1>5. ~(o + Block > t.len)
  <2>1. ~(o + Block > Len(s))
    BY <1>a
  <2> QED
    BY <1>b, <2>1
<1>6. Tapes!Meets(t, o, -1, Tapes!Walks(t)) = [end |-> o, members |-> {}]
  BY <1>4, <1>5 DEF Tapes!Meets
<1> QED
  BY <1>2, <1>6

(* What is read at a place: a header of one kind and size.                 *)
Reads(s, o, kind, n) ==
  /\ HeaderAt(s, o) = [kind |-> kind, size |-> n, pax |-> -1]
  /\ s[o + 1].part \in {"header", "long header"}
  /\ kind \in {"entry", "long"}

Within(kind, n) ==
  /\ n \in Nat
  /\ n + (Block - 1) <= MaxU64
  /\ kind = "long" => n <= MaxMetadata

LEMMA ReadIs ==
  ASSUME NEW h, NEW kind, NEW n, h = [kind |-> kind, size |-> n, pax |-> -1],
         kind \in {"entry", "long"}, Within(kind, n)
  PROVE  /\ h.kind # "pax"
         /\ Tapes!PayloadSize(h, -1) = n
         /\ Tapes!IsExtension(h) <=> kind = "long"
         /\ Tapes!Refusal(h, -1) = "none"
<1>1. h.kind = kind /\ h.size = n /\ h.pax = -1
  OBVIOUS
<1> HIDE DEF Within
<1>2. Tapes!NoSize = -1 /\ Tapes!Bad = -2
  BY SameWalk
<1>3. Tapes!PayloadSize(h, -1) = n
  BY <1>1, <1>2 DEF Tapes!PayloadSize
<1>4. Tapes!IsExtension(h) <=> kind = "long"
  BY <1>1 DEF Tapes!IsExtension
<1>5. ~Tapes!Oversize(h)
  <2>1. kind = "long" => n <= MaxMetadata /\ n \in Nat
    BY DEF Within
  <2> DEFINE isLong == kind = "long"
  <2> HIDE DEF isLong
  <2>2. isLong => ~(n > MaxMetadata)
    <3>1. isLong => n <= MaxMetadata /\ n \in Nat
      BY <2>1 DEF isLong
    <3> QED
      BY ONLY <3>1, RoundTripAssumption
  <2> QED
    BY <1>1, <1>4, <2>2 DEF Tapes!Oversize, isLong
<1>6. ~Tapes!Unsized(h, -1)
  <2>1. n \in Nat /\ n + (Block - 1) <= MaxU64
    BY DEF Within
  <2>2. Block \in Nat /\ MaxU64 \in Nat
    BY SinkAssumption, RoundTripAssumption
  <2>3. n # -2 /\ ~(n + (Block - 1) > MaxU64)
    BY ONLY <2>1, <2>2
  <2> QED
    BY <1>1, <1>2, <1>3, <2>3 DEF Tapes!Unsized
<1> QED
  BY <1>1, <1>3, <1>4, <1>5, <1>6 DEF Tapes!Refusal

(* A header within the limits leads to what follows its payload.           *)
LEMMA HeaderMet ==
  ASSUME NEW s, Sound(s), NEW o \in 0 .. Len(s) - 1, NEW kind, NEW n, NEW after,
         Within(kind, n), Reads(s, o, kind, n), after = o + Block + Tapes!Padded(n)
  PROVE  /\ after > Len(s) => From(s, o).end = -1
         /\ after <= Len(s) =>
              /\ From(s, o).end = From(s, after).end
              /\ From(s, o).members
                   = From(s, after).members \cup (IF kind = "long" THEN {} ELSE {o})
<1> DEFINE t == TapeOf(s)
           w == Tapes!Walks(t)
           h == HeaderAt(s, o)
<1>a. n \in Nat
  BY DEF Within
<1>b. Block \in Nat /\ Block > 0
  BY SinkAssumption
<1>c. Tapes!Padded(n) \in Nat
  <2>1. n \in Nat => Tapes!Padded(n) = n + PaddingLength(n) /\ PaddingLength(n) \in Nat
    BY PaddedIs
  <2> QED
    BY ONLY <1>a, <2>1
<1>d. Len(s) \in Nat
  BY TapeIs
<1>e. o \in 0 .. Len(s)
  BY <1>d
<1>1. Tapes!IsTape(t) /\ t.len = Len(s) /\ t.at[o] = h
  BY <1>e, TapeIs
<1>2. From(s, o) = Tapes!Meets(t, o, -1, w)
  BY <1>1, <1>e, WalkUnfolds DEF From
<1>3. ~Tapes!ZeroBlock(t, o)
  <2>1. o \in t.dirty
    BY TapeIs DEF Reads
  <2>2. o \in o .. o + Block - 1
    BY <1>b, <1>d
  <2> HIDE DEF t
  <2> QED
    BY <2>1, <2>2 DEF Tapes!ZeroBlock
<1>4. Tapes!NoSize = -1
  BY SameWalk
<1>5. h = [kind |-> kind, size |-> n, pax |-> -1] /\ kind \in {"entry", "long"}
  BY DEF Reads
<1>f. \A p : From(s, p) = w[p][-1]
  BY DEF From
<1> HIDE DEF t, w, h
<1>6. /\ h.kind # "pax"
      /\ Tapes!PayloadSize(h, -1) = n
      /\ Tapes!IsExtension(h) <=> kind = "long"
      /\ Tapes!Refusal(h, -1) = "none"
  BY <1>5, ReadIs
<1>7. o + Block + Tapes!Padded(Tapes!PayloadSize(h, -1)) = after
  BY <1>6
<1>g. after \in Nat /\ after >= o + Block /\ (after > Len(s) <=> ~(after <= Len(s)))
  BY <1>b, <1>c, <1>d
<1>8. CASE after > Len(s)
  <2>1. Tapes!Meets(t, o, -1, w) = Tapes!Lost
    BY <1>1, <1>3, <1>7, <1>8 DEF Tapes!Meets
  <2>2. Tapes!Lost.end = -1
    BY <1>4 DEF Tapes!Lost
  <2> QED
    BY <1>2, <1>8, <1>g, <2>1, <2>2
<1>9. CASE after <= Len(s)
  <2>1. ~(o + Block > Len(s)) /\ ~(after > Len(s))
    BY <1>9, <1>b, <1>d, <1>g
  <2>2. (IF h.kind = "pax" THEN h.pax ELSE IF h.kind = "long" THEN -1 ELSE Tapes!NoSize) = -1
    BY <1>4, <1>6
  <2>3. Tapes!Meets(t, o, -1, w)
          = [end |-> w[after][-1].end,
             members |-> w[after][-1].members \cup (IF Tapes!IsExtension(h) THEN {} ELSE {o})]
    BY <1>1, <1>3, <1>6, <1>7, <2>1, <2>2 DEF Tapes!Meets
  <2>4. w[after][-1] = From(s, after)
    BY <1>f
  <2> QED
    BY <1>2, <1>6, <1>9, <1>g, <2>3, <2>4
<1> QED
  BY <1>8, <1>9, <1>g

(* A record is walked from its first byte to the byte behind it, and its   *)
(* header is the one member met; a record cut short leads nowhere.         *)
RecordAt(s, p, e) ==
  \A i \in 1 .. Len(Record(e)) : p + i <= Len(s) => s[p + i] = Record(e)[i]

LEMMA RecordReads ==
  ASSUME NEW s, Sound(s), NEW p \in Nat, NEW e \in Entries, RecordAt(s, p, e)
  PROVE  /\ e.long # 0 /\ p < Len(s) => Reads(s, p, "long", e.long)
         /\ p + Len(LongName(e)) < Len(s) => Reads(s, p + Len(LongName(e)), "entry", e.size)
<1> DEFINE long == Len(LongName(e))
           r == Record(e)
<1>1. /\ long \in Nat
      /\ Len(r) = long + Block + Tapes!Padded(e.size)
      /\ r[long + 1] = [entry |-> e.name, part |-> "header"]
      /\ e.long # 0 => r[1] = [entry |-> e.name, part |-> "long header"]
  BY RecordShape
<1>2. /\ Block \in Nat /\ Block > 0 /\ e.size \in Nat
      /\ Tapes!Padded(e.size) = e.size + PaddingLength(e.size) /\ PaddingLength(e.size) \in Nat
  BY EntryNumbers, PaddedIs
<1>3. Len(s) \in Nat
  BY TapeIs
<1>4. \A i \in 1 .. Len(r) : p + i <= Len(s) => s[p + i] = r[i]
  BY DEF RecordAt
<1> HIDE DEF long, r
<1>a. long \in Nat /\ Len(r) = long + Block + Tapes!Padded(e.size)
  BY <1>1
<1>5. 1 \in 1 .. Len(r) /\ long + 1 \in 1 .. Len(r)
  BY ONLY <1>a, <1>2
<1>6. ASSUME e.long # 0, p < Len(s) PROVE Reads(s, p, "long", e.long)
  <2>1. p + 1 <= Len(s) /\ p \in 0 .. Len(s) - 1
    BY <1>3, <1>6
  <2>2. s[p + 1] = [entry |-> e.name, part |-> "long header"]
    BY <1>1, <1>4, <1>5, <1>6, <2>1
  <2> DEFINE token == s[p + 1]
  <2>3. token = [entry |-> e.name, part |-> "long header"]
    BY <2>2
  <2> HIDE DEF token
  <2>4. token.entry = e.name /\ token.part = "long header"
    BY <2>3
  <2>5. HeaderAt(s, p) = [kind |-> "long", size |-> e.long, pax |-> -1]
    BY <2>1, <2>4, HeaderRead DEF token
  <2> QED
    BY <2>4, <2>5 DEF Reads, token
<1>7. ASSUME p + long < Len(s) PROVE Reads(s, p + long, "entry", e.size)
  <2> DEFINE q == p + long
  <2>1. q + 1 <= Len(s) /\ q \in 0 .. Len(s) - 1 /\ q + 1 = p + (long + 1)
    BY <1>3, <1>a, <1>7
  <2> HIDE DEF q
  <2>2. s[q + 1] = [entry |-> e.name, part |-> "header"]
    BY <1>1, <1>4, <1>5, <2>1
  <2> DEFINE token == s[q + 1]
  <2>3. token = [entry |-> e.name, part |-> "header"]
    BY <2>2
  <2> HIDE DEF token
  <2>4. token.entry = e.name /\ token.part = "header"
    BY <2>3
  <2>5. HeaderAt(s, q) = [kind |-> "entry", size |-> e.size, pax |-> -1]
    BY <2>1, <2>4, HeaderRead DEF token
  <2>6. Reads(s, q, "entry", e.size)
    BY <2>4, <2>5 DEF Reads, token
  <2> QED
    BY <2>6 DEF q
<1> QED
  BY <1>6, <1>7 DEF long

(* The walk passes from p to after, and meets the member at o on the way,  *)
(* unless the stream is over before.                                       *)
Passes(s, p, after, o) ==
  /\ after > Len(s) => From(s, p).end = -1
  /\ after <= Len(s) =>
       /\ From(s, p).end = From(s, after).end
       /\ From(s, p).members = From(s, after).members \cup {o}

LEMMA RecordMet ==
  ASSUME NEW s, Sound(s), NEW p \in 0 .. Len(s), NEW e \in Entries, RecordAt(s, p, e),
         NEW r, r = Len(Record(e)), NEW long, long = Len(LongName(e))
  PROVE  Passes(s, p, p + r, p + long)
<1> DEFINE q == p + long
           sized == Tapes!Padded(e.size)
<1>1. Len(s) \in Nat
  BY TapeIs
<1>2. long \in Nat /\ r = long + Block + sized
  BY RecordShape
<1>3. Block \in Nat /\ Block > 0
  BY SinkAssumption
<1>4. Within("long", e.long) /\ Within("entry", e.size)
  <2>1. e.long \in Nat /\ e.size \in Nat
    BY EntryNumbers
  <2> QED
    BY <2>1, EntryLimits DEF Within
<1>5. sized \in Nat
  <2>1. e.size \in Nat /\ sized = e.size + PaddingLength(e.size) /\ PaddingLength(e.size) \in Nat
    BY EntryNumbers, PaddedIs
  <2> QED
    BY ONLY <2>1
<1>6. /\ e.long = 0 => q = p
      /\ e.long # 0 => q = p + Block + Tapes!Padded(e.long)
  <2>1. long = IF e.long = 0 THEN 0 ELSE Block + Tapes!Padded(e.long)
    BY LongShape
  <2>2. p \in Nat
    OBVIOUS
  <2>3. CASE e.long = 0
    BY <2>1, <2>2, <2>3
  <2>4. CASE e.long # 0
    <3>1. long = Block + Tapes!Padded(e.long)
      BY <2>1, <2>4
    <3>2. e.long \in Nat
      BY EntryNumbers
    <3>3. Tapes!Padded(e.long) = e.long + PaddingLength(e.long) /\ PaddingLength(e.long) \in Nat
      BY <3>2, PaddedIs
    <3>4. p + long = p + Block + Tapes!Padded(e.long)
      BY ONLY <1>3, <2>2, <3>1, <3>2, <3>3
    <3> QED
      BY <2>4, <3>4
  <2> QED
    BY <2>3, <2>4
<1>7. q \in Nat /\ q >= p /\ p + r = q + Block + sized
  BY <1>2, <1>3, <1>5
<1>8. /\ e.long # 0 /\ p < Len(s) => Reads(s, p, "long", e.long)
      /\ q < Len(s) => Reads(s, q, "entry", e.size)
  <2>1. p \in Nat
    OBVIOUS
  <2> QED
    BY <2>1, RecordReads
<1> HIDE DEF q, sized
<1>9. /\ q > Len(s) => From(s, p).end = -1
      /\ q <= Len(s) => From(s, p).end = From(s, q).end /\ From(s, p).members = From(s, q).members
  <2>1. CASE e.long = 0
    <3>1. q = p /\ ~(q > Len(s))
      BY <1>1, <1>6, <2>1
    <3> QED
      BY <3>1
  <2>2. CASE e.long # 0 /\ p < Len(s)
    <3>1. Reads(s, p, "long", e.long) /\ q = p + Block + Tapes!Padded(e.long)
      BY <1>6, <1>8, <2>2
    <3>2. p \in 0 .. Len(s) - 1
      BY <1>1, <2>2
    <3> DEFINE n == e.long
               kind == "long"
    <3>4. Within(kind, n) /\ Reads(s, p, kind, n) /\ q = p + Block + Tapes!Padded(n)
      BY <1>4, <3>1
    <3>5. kind = "long"
      OBVIOUS
    <3> HIDE DEF n, kind
    <3>6. /\ q > Len(s) => From(s, p).end = -1
          /\ q <= Len(s) =>
               /\ From(s, p).end = From(s, q).end
               /\ From(s, p).members
                    = From(s, q).members \cup (IF kind = "long" THEN {} ELSE {p})
      BY <3>2, <3>4, HeaderMet
    <3>3. /\ q > Len(s) => From(s, p).end = -1
          /\ q <= Len(s) =>
               /\ From(s, p).end = From(s, q).end
               /\ From(s, p).members = From(s, q).members
      BY <3>5, <3>6
    <3> QED
      BY <3>3
  <2>3. CASE e.long # 0 /\ ~(p < Len(s))
    <3>1. p = Len(s)
      BY <1>1, <2>3
    <3>2. q > Len(s)
      <4>1. q = p + Block + Tapes!Padded(e.long)
        BY <1>6, <2>3
      <4>2. e.long \in Nat
        BY EntryNumbers
      <4>3. Tapes!Padded(e.long) = e.long + PaddingLength(e.long) /\ PaddingLength(e.long) \in Nat
        BY <4>2, PaddedIs
      <4> QED
        BY ONLY <1>1, <1>3, <3>1, <4>1, <4>2, <4>3
    <3>3. From(s, p).end = -1
      BY <3>1, EndMet
    <3>4. ~(q <= Len(s))
      BY <1>1, <1>7, <3>2
    <3> QED
      BY <3>3, <3>4
  <2> QED
    BY <2>1, <2>2, <2>3
<1>10. CASE q < Len(s)
  <2>1. Reads(s, q, "entry", e.size) /\ q \in 0 .. Len(s) - 1 /\ q <= Len(s)
    BY <1>1, <1>7, <1>8, <1>10
  <2>2. p + r = q + Block + Tapes!Padded(e.size)
    BY <1>7 DEF sized
  <2> DEFINE after == p + r
  <2> HIDE DEF after
  <2>3. /\ after > Len(s) => From(s, q).end = -1
        /\ after <= Len(s) =>
             /\ From(s, q).end = From(s, after).end
             /\ From(s, q).members
                  = From(s, after).members \cup (IF "entry" = "long" THEN {} ELSE {q})
    BY <1>4, <2>1, <2>2, HeaderMet DEF after
  <2>4. /\ after > Len(s) => From(s, p).end = -1
        /\ after <= Len(s) =>
             /\ From(s, p).end = From(s, after).end
             /\ From(s, p).members = From(s, after).members \cup {q}
    BY <1>9, <2>1, <2>3
  <2> QED
    BY <2>4 DEF after, q, Passes
<1>11. CASE ~(q < Len(s))
  <2>1. From(s, p).end = -1
    <3>1. CASE q = Len(s)
      <4>1. q <= Len(s)
        BY <1>1, <3>1
      <4> QED
        BY <1>9, <3>1, <4>1, EndMet
    <3>2. CASE q # Len(s)
      <4>1. q > Len(s)
        BY <1>1, <1>7, <1>11, <3>2
      <4> QED
        BY <1>9, <4>1
    <3> QED
      BY <3>1, <3>2
  <2>2. ~(p + r <= Len(s))
    BY <1>1, <1>3, <1>5, <1>7, <1>11
  <2> QED
    BY <2>1, <2>2 DEF Passes
<1> QED
  BY <1>10, <1>11

-----------------------------------------------------------------------------
(* Every byte of a record is its entry's.                                  *)
Of(s, e) == \A i \in 1 .. Len(s) : s[i].entry = e.name

LEMMA OfJoined ==
  ASSUME NEW s \in Seq(Token), NEW t \in Seq(Token), NEW e, Of(s, e), Of(t, e)
  PROVE  s \o t \in Seq(Token) /\ Of(s \o t, e)
<1>1. s \o t \in Seq(Token)
  BY Joined
<1> SUFFICES ASSUME NEW i \in 1 .. Len(s \o t) PROVE (s \o t)[i].entry = e.name
  BY <1>1 DEF Of
<1>2. CASE i <= Len(s)
  BY <1>2, Joined DEF Of
<1>3. CASE ~(i <= Len(s))
  <2>1. i - Len(s) \in 1 .. Len(t) /\ i = Len(s) + (i - Len(s))
    BY <1>3, Joined
  <2> QED
    BY <2>1, Joined DEF Of
<1> QED
  BY <1>2, <1>3

LEMMA BytesOf ==
  ASSUME NEW n \in Nat, NEW e \in Entries, NEW which \in Parts
  PROVE  Bytes(n, e.name, which) \in Seq(Token) /\ Of(Bytes(n, e.name, which), e)
<1> DEFINE b == Bytes(n, e.name, which)
<1>0. e.name \in Names
  BY EntryNumbers
<1>1. b \in Seq(Token) /\ Len(b) = n
  BY <1>0, BytesShape
<1>2. \A i \in 1 .. n : b[i] = [entry |-> e.name, part |-> which]
  BY <1>0, BytesShape
<1> HIDE DEF b
<1>3. \A i \in 1 .. n : b[i].entry = e.name
  BY <1>2
<1> QED
  BY <1>1, <1>3 DEF Of, b

LEMMA RecordOf ==
  ASSUME NEW e \in Entries
  PROVE  Of(Record(e), e)
<1> DEFINE Good(s) == s \in Seq(Token) /\ Of(s, e)
<1>1. \A s, t : Good(s) /\ Good(t) => Good(s \o t)
  BY OfJoined
<1>2. \A n \in Nat : \A which \in Parts : Good(Bytes(n, e.name, which))
  BY BytesOf
<1>3. e.size \in Nat /\ e.long \in Nat /\ PaddingLength(e.size) \in Nat /\ PaddingLength(e.long) \in Nat
  BY EntryNumbers, PaddedIs
<1>4. 1 \in Nat /\ Block - 1 \in Nat
  BY SinkAssumption
<1>5. {"header", "long header", "fields", "long name", "body", "padding"} \subseteq Parts
  BY DEF Parts
<1>6. Good(<<>>)
  BY EmptySeq DEF Of
<1> HIDE DEF Good
<1>7. \A which \in {"header", "long header"} : Good(OneHeader(e, which))
  BY <1>1, <1>2, <1>4, <1>5 DEF OneHeader
<1>8. Good(LongName(e))
  <2>1. CASE e.long = 0
    BY <1>6, <2>1 DEF LongName
  <2>2. CASE e.long # 0
    <3>1. /\ Good(OneHeader(e, "long header"))
          /\ Good(Bytes(e.long, e.name, "long name"))
          /\ Good(Bytes(PaddingLength(e.long), e.name, "padding"))
      BY <1>2, <1>3, <1>5, <1>7
    <3> QED
      BY <1>1, <2>2, <3>1 DEF LongName
  <2> QED
    BY <2>1, <2>2
<1>9. Good(OneHeader(e, "header")) /\ Good(BodyBytes(e, e.size)) /\ Good(Padding(e))
  BY <1>2, <1>3, <1>5, <1>7 DEF BodyBytes, Padding
<1>10. Good(Record(e))
  BY <1>1, <1>8, <1>9 DEF Record, HeaderBytes
<1> QED
  BY <1>10 DEF Good

LEMMA RecordSound ==
  ASSUME NEW e \in Entries
  PROVE  Sound(Record(e))
<1> DEFINE r == Record(e)
           long == Len(LongName(e))
<1>1. /\ r \in Seq(Token)
      /\ r[long + 1] = [entry |-> e.name, part |-> "header"]
      /\ \A i \in 1 .. Len(r) : i # long + 1 => r[i].part \in RestParts
  BY RecordShape
<1>2. Of(r, e)
  BY RecordOf
<1> HIDE DEF r, long
<1>3. r[long + 1].part = "header"
  <2> DEFINE token == r[long + 1]
  <2>1. token = [entry |-> e.name, part |-> "header"]
    BY <1>1
  <2> HIDE DEF token
  <2>2. token.part = "header"
    BY <2>1
  <2> QED
    BY <2>2 DEF token
<1>4. \A i \in 1 .. Len(r) : r[i].part # "frame end"
  BY <1>1, <1>3 DEF RestParts, LongParts
<1>5. \A i \in 1 .. Len(r) : r[i].entry = e.name
  BY <1>2 DEF Of
<1>6. Sound(r)
  BY <1>1, <1>4, <1>5 DEF Sound
<1> QED
  BY <1>6 DEF r

LEMMA SoundJoined ==
  ASSUME NEW s, NEW t, Sound(s), Sound(t)
  PROVE  Sound(s \o t)
<1> DEFINE Fine(token) ==
             /\ token.part # "frame end"
             /\ token.part \in {"header", "long header"} =>
                  \E e \in Entries : token.entry = e.name
<1>1. s \in Seq(Token) /\ t \in Seq(Token)
  BY DEF Sound
<1>2. (\A i \in 1 .. Len(s) : Fine(s[i])) /\ (\A i \in 1 .. Len(t) : Fine(t[i]))
  BY DEF Sound
<1>3. s \o t \in Seq(Token)
  BY <1>1, Joined
<1> HIDE DEF Fine
<1>4. ASSUME NEW i \in 1 .. Len(s \o t) PROVE Fine((s \o t)[i])
  <2>1. CASE i <= Len(s)
    BY <1>1, <1>2, <2>1, Joined
  <2>2. CASE ~(i <= Len(s))
    <3>1. i - Len(s) \in 1 .. Len(t) /\ i = Len(s) + (i - Len(s))
      BY <1>1, <2>2, Joined
    <3> QED
      BY <1>1, <1>2, <3>1, Joined
  <2> QED
    BY <2>1, <2>2
<1> QED
  BY <1>3, <1>4 DEF Sound, Fine

LEMMA EndsSound ==
  /\ Sound(Bytes(2 * Block, "archive", "end"))
  /\ Len(Bytes(2 * Block, "archive", "end")) = 2 * Block
  /\ \A i \in 1 .. 2 * Block : Bytes(2 * Block, "archive", "end")[i].part = "end"
<1> DEFINE n == 2 * Block
           b == Bytes(n, "archive", "end")
<1>1. n \in Nat /\ "archive" \in Names /\ "end" \in Parts
  BY SinkAssumption DEF Names, Parts
<1> HIDE DEF n
<1>2. b \in Seq(Token) /\ Len(b) = n
      /\ \A i \in 1 .. n : b[i] = [entry |-> "archive", part |-> "end"]
  BY <1>1, BytesShape
<1> HIDE DEF b
<1>3. \A i \in 1 .. n : b[i].part = "end"
  BY <1>2
<1>4. Sound(b)
  BY <1>2, <1>3 DEF Sound
<1> QED
  BY <1>2, <1>3, <1>4 DEF b, n

-----------------------------------------------------------------------------
(* Whole records lead to what follows them, and the members met are their  *)
(* headers; no stream that ends with them or before has an end block.      *)
Leads(a) ==
  \A s : Sound(s) /\ Prefix(a, s) =>
    /\ From(s, 0).end = From(s, Len(a)).end
    /\ From(s, 0).members = From(s, Len(a)).members \cup HeadersOf(a)

NoEnd(a) == \A s : Sound(s) /\ Prefix(s, a) => From(s, 0).end = -1

LEMMA PrefixJoined ==
  ASSUME NEW s \in Seq(Token), NEW t \in Seq(Token)
  PROVE  Prefix(s, s \o t)
<1>1. Len(s) \in Nat /\ Len(t) \in Nat /\ Len(s \o t) = Len(s) + Len(t)
  BY Joined
<1>2. Len(s) <= Len(s \o t)
  BY ONLY <1>1
<1>3. \A i \in 1 .. Len(s) : s[i] = (s \o t)[i]
  BY Joined
<1> QED
  BY <1>2, <1>3 DEF Prefix

LEMMA PrefixOfPrefix ==
  ASSUME NEW s \in Seq(Token), NEW t \in Seq(Token), NEW u \in Seq(Token),
         Prefix(s, t), Prefix(t, u)
  PROVE  Prefix(s, u)
<1>1. Len(s) \in Nat /\ Len(t) \in Nat /\ Len(u) \in Nat
  BY LenProperties
<1>2. Len(s) <= Len(t) /\ Len(t) <= Len(u)
  BY DEF Prefix
<1>3. Len(s) <= Len(u) /\ \A i \in 1 .. Len(s) : i \in 1 .. Len(t)
  BY ONLY <1>1, <1>2
<1> QED
  BY <1>3 DEF Prefix

LEMMA HeadersJoined ==
  ASSUME NEW a \in Seq(Token), NEW e \in Entries
  PROVE  HeadersOf(a \o Record(e)) = HeadersOf(a) \cup {Len(a) + Len(LongName(e))}
<1> DEFINE r == Record(e)
           long == Len(LongName(e))
           sized == Tapes!Padded(e.size)
           s == a \o r
           n == Len(a)
<1>1. /\ r \in Seq(Token) /\ long \in Nat
      /\ Len(r) = long + Block + sized
      /\ r[long + 1] = [entry |-> e.name, part |-> "header"]
      /\ \A i \in 1 .. Len(r) : i # long + 1 => r[i].part \in RestParts
  BY RecordShape
<1>2. sized \in Nat
  <2>1. e.size \in Nat /\ sized = e.size + PaddingLength(e.size) /\ PaddingLength(e.size) \in Nat
    BY EntryNumbers, PaddedIs
  <2> QED
    BY ONLY <2>1
<1>3. /\ n \in Nat /\ Len(s) = n + Len(r)
      /\ \A i \in 1 .. n : s[i] = a[i]
      /\ \A i \in 1 .. Len(r) : s[n + i] = r[i]
  BY <1>1, Joined
<1>4. long \in Nat /\ Len(r) = long + Block + sized /\ Block \in Nat /\ Block > 0
  BY <1>1, SinkAssumption
<1> HIDE DEF r, long, sized, s, n
<1>5. r[long + 1].part = "header"
  <2> DEFINE token == r[long + 1]
  <2>1. token = [entry |-> e.name, part |-> "header"]
    BY <1>1
  <2> HIDE DEF token
  <2>2. token.part = "header"
    BY <2>1
  <2> QED
    BY <2>2 DEF token
<1>6. \A i \in 1 .. Len(r) : r[i].part = "header" <=> i = long + 1
  BY <1>1, <1>5 DEF RestParts, LongParts
<1>a. n \in Nat /\ Len(s) = n + Len(r) /\ Len(r) \in Nat
  <2>1. n \in Nat /\ Len(s) = n + Len(r)
    BY <1>3
  <2> QED
    BY <1>2, <1>4, <2>1
<1>7. ASSUME NEW o \in 0 .. Len(s) - 1
      PROVE  s[o + 1].part = "header" <=> (o < n /\ a[o + 1].part = "header") \/ o = n + long
  <2>1. CASE o < n
    <3>1. o + 1 \in 1 .. n /\ o # n + long
      BY <1>4, <1>a, <2>1
    <3> QED
      BY <1>3, <2>1, <3>1
  <2>2. CASE ~(o < n)
    <3> DEFINE i == o + 1 - n
    <3>1. i \in 1 .. Len(r) /\ o + 1 = n + i /\ (o = n + long <=> i = long + 1)
      BY <1>4, <1>a, <2>2
    <3> HIDE DEF i
    <3>2. s[o + 1] = r[i]
      BY <1>3, <3>1
    <3>3. s[o + 1].part = "header" <=> i = long + 1
      BY <1>6, <3>1, <3>2
    <3> QED
      BY <2>2, <3>1, <3>3
  <2> QED
    BY <2>1, <2>2
<1>8. /\ n + long \in 0 .. Len(s) - 1
      /\ \A o : o \in 0 .. n - 1 <=> o \in 0 .. Len(s) - 1 /\ o < n
  BY ONLY <1>2, <1>4, <1>a
<1>9. \A o : o \in HeadersOf(s) <=> o \in HeadersOf(a) \cup {n + long}
  <2> TAKE o
  <2>1. o \in HeadersOf(s) <=> o \in 0 .. Len(s) - 1 /\ s[o + 1].part = "header"
    BY DEF HeadersOf
  <2>2. o \in HeadersOf(a) <=> o \in 0 .. n - 1 /\ a[o + 1].part = "header"
    BY DEF HeadersOf, n
  <2> QED
    BY <1>7, <1>8, <2>1, <2>2
<1> QED
  BY <1>9 DEF s, r, n, long

LEMMA LeadsOn ==
  ASSUME NEW a \in Seq(Token), NEW e \in Entries, Leads(a)
  PROVE  Leads(a \o Record(e))
<1> DEFINE r == Len(Record(e))
           long == Len(LongName(e))
           n == Len(a)
           b == a \o Record(e)
<1>1. Record(e) \in Seq(Token)
  BY RecordShape
<1>2. /\ n \in Nat /\ r \in Nat /\ Len(b) = n + r /\ b \in Seq(Token)
      /\ \A i \in 1 .. r : b[n + i] = Record(e)[i]
  BY <1>1, Joined
<1>3. Prefix(a, b)
  BY <1>1, PrefixJoined
<1>4. HeadersOf(b) = HeadersOf(a) \cup {n + long}
  BY HeadersJoined
<1> HIDE DEF b, n, r, long
<1> SUFFICES ASSUME NEW s, Sound(s), Prefix(b, s)
             PROVE  /\ From(s, 0).end = From(s, Len(b)).end
                    /\ From(s, 0).members = From(s, Len(b)).members \cup HeadersOf(b)
  BY DEF Leads, b
<1>5. s \in Seq(Token) /\ Len(s) \in Nat
  BY LenProperties DEF Sound
<1>6. Prefix(a, s)
  BY <1>2, <1>3, <1>5, PrefixOfPrefix
<1>7. From(s, 0).end = From(s, n).end /\ From(s, 0).members = From(s, n).members \cup HeadersOf(a)
  BY <1>6 DEF Leads, n
<1>8. Len(b) <= Len(s) /\ \A i \in 1 .. Len(b) : b[i] = s[i]
  BY DEF Prefix
<1>9. n \in 0 .. Len(s) /\ n + r <= Len(s)
  <2>1. n \in Nat /\ r \in Nat /\ Len(b) = n + r /\ Len(b) <= Len(s)
    BY <1>2, <1>8
  <2> QED
    BY ONLY <1>5, <2>1
<1>10. RecordAt(s, n, e)
  <2> SUFFICES ASSUME NEW i \in 1 .. r PROVE s[n + i] = Record(e)[i]
    BY DEF RecordAt, r
  <2>1. n + i \in 1 .. Len(b)
    <3>1. n \in Nat /\ r \in Nat /\ Len(b) = n + r
      BY <1>2
    <3> QED
      BY <3>1
  <2> QED
    BY <1>2, <1>8, <2>1
<1>11. From(s, n).end = From(s, n + r).end
       /\ From(s, n).members = From(s, n + r).members \cup {n + long}
  <2>1. r = Len(Record(e)) /\ long = Len(LongName(e))
    BY DEF r, long
  <2>2. n \in 0 .. Len(s) /\ e \in Entries /\ Sound(s) /\ RecordAt(s, n, e)
    BY <1>9, <1>10
  <2>3. Passes(s, n, n + r, n + long)
    BY ONLY <2>1, <2>2, RecordMet
  <2> QED
    BY <1>9, <2>3 DEF Passes
<1> QED
  BY <1>2, <1>4, <1>7, <1>11

LEMMA NoEndOn ==
  ASSUME NEW a \in Seq(Token), NEW e \in Entries, Leads(a), NoEnd(a)
  PROVE  NoEnd(a \o Record(e))
<1> DEFINE r == Len(Record(e))
           n == Len(a)
           b == a \o Record(e)
<1>1. Record(e) \in Seq(Token)
  BY RecordShape
<1>2. /\ n \in Nat /\ r \in Nat /\ Len(b) = n + r
      /\ \A i \in 1 .. n : b[i] = a[i]
      /\ \A i \in 1 .. r : b[n + i] = Record(e)[i]
  BY <1>1, Joined
<1> HIDE DEF b, n, r
<1>3. n \in Nat /\ r \in Nat /\ Len(b) = n + r
  BY <1>2
<1> SUFFICES ASSUME NEW s, Sound(s), Prefix(s, b) PROVE From(s, 0).end = -1
  BY DEF NoEnd, b
<1>4. Len(s) \in Nat
  BY LenProperties DEF Sound
<1>5. Len(s) <= Len(b) /\ \A i \in 1 .. Len(s) : s[i] = b[i]
  BY DEF Prefix
<1>6. CASE Len(s) <= n
  <2>1. \A i \in 1 .. Len(s) : i \in 1 .. n
    BY ONLY <1>3, <1>4, <1>6
  <2>2. Prefix(s, a)
    BY <1>2, <1>5, <1>6, <2>1 DEF Prefix, n
  <2> QED
    BY <2>2 DEF NoEnd
<1>7. CASE ~(Len(s) <= n)
  <2>1. \A i \in 1 .. n : i \in 1 .. Len(s)
    BY ONLY <1>3, <1>4, <1>7
  <2>2. n <= Len(s) /\ n \in 0 .. Len(s)
    BY ONLY <1>3, <1>4, <1>7
  <2>3. Prefix(a, s)
    BY <1>2, <1>5, <2>1, <2>2 DEF Prefix, n
  <2>4. From(s, 0).end = From(s, n).end
    BY <2>3 DEF Leads, n
  <2>5. RecordAt(s, n, e)
    <3> SUFFICES ASSUME NEW i \in 1 .. r, n + i <= Len(s) PROVE s[n + i] = Record(e)[i]
      BY DEF RecordAt, r
    <3>1. n + i \in 1 .. Len(s)
      BY <1>3, <1>4
    <3> QED
      BY <1>2, <1>5, <3>1
  <2>6. /\ n + r > Len(s) => From(s, n).end = -1
        /\ n + r <= Len(s) => From(s, n).end = From(s, n + r).end
    <3> DEFINE long == Len(LongName(e))
    <3>1. r = Len(Record(e)) /\ long = Len(LongName(e))
      BY DEF r
    <3> HIDE DEF long
    <3>2. n \in 0 .. Len(s) /\ e \in Entries /\ Sound(s) /\ RecordAt(s, n, e)
      BY <2>2, <2>5
    <3>3. Passes(s, n, n + r, n + long)
      BY ONLY <3>1, <3>2, RecordMet
    <3> QED
      BY <3>3 DEF Passes
  <2>7. CASE n + r = Len(s)
    <3>1. n + r <= Len(s)
      BY <1>4, <2>7
    <3> QED
      BY <2>4, <2>6, <2>7, <3>1, EndMet
  <2>8. CASE n + r # Len(s)
    <3>1. n + r > Len(s)
      <4>1. Len(s) <= n + r
        BY <1>3, <1>5
      <4> QED
        BY ONLY <1>3, <1>4, <2>8, <4>1
    <3> QED
      BY <2>4, <2>6, <3>1
  <2> QED
    BY <2>7, <2>8
<1> QED
  BY <1>6, <1>7

LEMMA NoneLead == Sound(<<>>) /\ Leads(<<>>) /\ NoEnd(<<>>)
<1>1. <<>> \in Seq(Token) /\ Len(<<>>) = 0
  BY EmptySeq
<1>2. Sound(<<>>)
  BY <1>1 DEF Sound
<1>3. HeadersOf(<<>>) = {}
  BY <1>1 DEF HeadersOf
<1>4. Leads(<<>>)
  BY <1>1, <1>3 DEF Leads
<1>5. ASSUME NEW s, Sound(s), Prefix(s, <<>>) PROVE From(s, 0).end = -1
  <2>1. Len(s) \in Nat /\ Len(s) <= 0
    BY <1>1, <1>5, LenProperties DEF Sound, Prefix
  <2>2. Len(s) = 0
    BY <2>1
  <2> QED
    BY <1>5, <2>2, EndMet
<1> QED
  BY <1>2, <1>4, <1>5 DEF NoEnd

-----------------------------------------------------------------------------
(* What was appended is whole records; an append that is under way, or was *)
(* given up, has put out no more than its own; and nothing is held back    *)
(* from a stream that is published.                                        *)
Whole == Sound(accepted) /\ Leads(accepted) /\ NoEnd(accepted)

Torn ==
  step \in {"idle"} \cup Appending => Prefix(sink \o buffer, accepted \o Record(entry))

Delivered == step = "published" => buffer = <<>>

(* The invariant that is inductive.                                        *)
WalkInv == IInv /\ Whole /\ Torn /\ Delivered

LEMMA AcceptedGrows ==
  ASSUME IInv, [Next]_vars
  PROVE  \/ accepted' = accepted
         \/ entry \in Entries /\ accepted' = accepted \o Record(entry)
<1>1. entry \in Entries
  BY DEF IInv, TypeOK
<1>2. CASE Run
  BY <1>1, <1>2 DEF Run, BeginRecord, ReadBody, SinkTakes, BodyIsShort, EndRecord, Probe, Shutdown,
     Publish, AppendFails
<1>3. CASE Finish \/ BodyFails \/ SinkFails \/ Cancel
  BY <1>3 DEF Finish, BodyFails, SinkFails, Cancel, AppendFails, Lose
<1>4. CASE \E e \in Entries : AppendEntry(e)
  BY <1>4 DEF AppendEntry
<1>5. CASE UNCHANGED vars
  BY <1>5 DEF vars
<1> QED
  BY <1>2, <1>3, <1>4, <1>5 DEF Next

LEMMA WholeGrows ==
  ASSUME IInv, Whole, [Next]_vars
  PROVE  Whole'
<1>1. CASE accepted' = accepted
  BY <1>1 DEF Whole, Sound, Leads, NoEnd
<1>2. CASE entry \in Entries /\ accepted' = accepted \o Record(entry)
  <2> DEFINE a == accepted
             b == accepted \o Record(entry)
  <2>1. a \in Seq(Token) /\ Sound(a) /\ Leads(a) /\ NoEnd(a)
    BY DEF Whole, Sound
  <2>2. Sound(b) /\ Leads(b) /\ NoEnd(b)
    BY <1>2, <2>1, RecordSound, SoundJoined, LeadsOn, NoEndOn
  <2> DEFINE c == accepted'
  <2>3. c = b
    BY <1>2
  <2> HIDE DEF b, c
  <2>4. Sound(c) /\ Leads(c) /\ NoEnd(c)
    BY <2>2, <2>3
  <2>5. Sound(accepted') /\ Leads(accepted') /\ NoEnd(accepted')
    BY <2>4 DEF c
  <2> QED
    BY <2>5 DEF Whole, Sound, Leads, NoEnd
<1> QED
  BY <1>1, <1>2, AcceptedGrows

(* What a record begins with.                                              *)
LEMMA RecordBegins ==
  ASSUME NEW e \in Entries, NEW n \in 0 .. e.size, NEW a \in Seq(Token)
  PROVE  /\ Prefix(a, a \o Record(e))
         /\ Prefix(a \o (HeaderBytes(e) \o BodyBytes(e, n)), a \o Record(e))
         /\ Prefix(a \o Record(e), a \o Record(e))
<1> DEFINE h == HeaderBytes(e)
           b == BodyBytes(e, n)
           m == e.size - n
           c == BodyBytes(e, m)
           p == Padding(e)
           r == Record(e)
<1>1. n \in Nat /\ m \in Nat /\ n + m = e.size
  <2>1. e.size \in Nat
    BY EntryNumbers
  <2> QED
    BY <2>1
<1> HIDE DEF m
<1>2. h \in Seq(Token) /\ b \in Seq(Token) /\ c \in Seq(Token) /\ p \in Seq(Token) /\ r \in Seq(Token)
  BY <1>1, PartTypes
<1>3. b \o c = BodyBytes(e, e.size)
  <2>1. e.name \in Names /\ "body" \in Parts
    BY EntryNumbers DEF Parts
  <2>2. Bytes(n, e.name, "body") \o Bytes(m, e.name, "body") = Bytes(n + m, e.name, "body")
    BY <1>1, <2>1, BytesJoin
  <2> QED
    BY <1>1, <2>2 DEF BodyBytes
<1>4. r = (h \o (b \o c)) \o p
  BY <1>3 DEF Record
<1> HIDE DEF h, b, c, p, r
<1>5. h \o b \in Seq(Token) /\ c \o p \in Seq(Token) /\ a \o r \in Seq(Token)
      /\ a \o (h \o b) \in Seq(Token)
  BY <1>2, ConcatProperties
<1>6. r = (h \o b) \o (c \o p)
  <2>0. h \in Seq(Token) /\ b \in Seq(Token) /\ c \in Seq(Token)
    BY <1>2
  <2>1. (h \o b) \o c = h \o (b \o c)
    BY ONLY <2>0, JoinInAnyOrder, Zenon
  <2> DEFINE hb == h \o b
  <2>3. hb \in Seq(Token)
    BY <1>5
  <2> HIDE DEF hb
  <2>4. (hb \o c) \o p = hb \o (c \o p)
    <3>1. hb \in Seq(Token) /\ c \in Seq(Token) /\ p \in Seq(Token)
      BY <1>2, <2>3
    <3> QED
      BY ONLY <3>1, JoinInAnyOrder, Zenon
  <2>2. ((h \o b) \o c) \o p = (h \o b) \o (c \o p)
    BY <2>4 DEF hb
  <2> QED
    BY <1>4, <2>1, <2>2
<1>7. a \o r = (a \o (h \o b)) \o (c \o p)
  <2>1. (a \o (h \o b)) \o (c \o p) = a \o ((h \o b) \o (c \o p))
    BY <1>5, JoinInAnyOrder, Zenon
  <2> QED
    BY <1>6, <2>1
<1>8. Prefix(a, a \o r)
  BY <1>2, PrefixJoined
<1>9. Prefix(a \o (h \o b), a \o r)
  BY <1>5, <1>7, PrefixJoined
<1>10. Prefix(a \o r, a \o r)
  <2>1. Len(a \o r) \in Nat
    BY <1>5, LenProperties
  <2> QED
    BY <2>1 DEF Prefix
<1> QED
  BY <1>8, <1>9, <1>10 DEF h, b, r

(* A call that fails, and one refused after a failure, moves no byte.      *)
LEMMA FailureMovesNothing ==
  ASSUME IInv, [Next]_vars, failed', step' \in {"idle"} \cup Appending
  PROVE  /\ UNCHANGED <<entry, buffer, sink, accepted>>
         /\ step \in {"idle"} \cup Appending
<1>1. failed => step \in {"idle", "lost"}
  BY DEF IInv, FailedRests
<1>2. CASE BeginRecord \/ BodyIsShort \/ BodyFails \/ EndRecord \/ Probe
  BY <1>1, <1>2 DEF BeginRecord, BodyIsShort, BodyFails, EndRecord, Probe, AppendFails, Appending,
     bodyVars, pipeVars
<1>3. ASSUME NEW n \in 1 .. Chunk, ReadBody(n) \/ SinkTakes(n)
      PROVE  UNCHANGED <<entry, buffer, sink, accepted>> /\ step \in {"idle"} \cup Appending
  BY <1>1, <1>3 DEF ReadBody, SinkTakes, AppendFails, Appending, Finishing, bodyVars, pipeVars
<1>4. CASE Shutdown \/ Publish \/ Finish
  BY <1>4 DEF Shutdown, Publish, Finish, Lose, Appending
<1>5. CASE SinkFails \/ Cancel
  BY <1>5 DEF SinkFails, Cancel, Lose, AppendFails, Appending, bodyVars, pipeVars
<1>6. ASSUME NEW e \in Entries, AppendEntry(e)
      PROVE  UNCHANGED <<entry, buffer, sink, accepted>> /\ step \in {"idle"} \cup Appending
  BY <1>6 DEF AppendEntry, bodyVars, pipeVars
<1>7. CASE UNCHANGED vars
  BY <1>7 DEF vars, bodyVars, pipeVars
<1> QED
  BY <1>2, <1>3, <1>4, <1>5, <1>6, <1>7 DEF Next, Run

LEMMA TornKept ==
  ASSUME IInv, Torn, [Next]_vars
  PROVE  Torn'
<1> SUFFICES ASSUME step' \in {"idle"} \cup Appending
             PROVE  Prefix(sink' \o buffer', accepted' \o Record(entry'))
  BY DEF Torn, Appending
<1>1. IInv'
  BY NextIInv
<1>2. CASE failed'
  <2>1. /\ UNCHANGED <<entry, buffer, sink, accepted>>
        /\ step \in {"idle"} \cup Appending
    BY <1>2, FailureMovesNothing
  <2>2. Prefix(sink \o buffer, accepted \o Record(entry))
    BY <2>1 DEF Torn
  <2> QED
    BY <2>1, <2>2
<1>3. CASE ~failed'
  <2> DEFINE e == entry'
             a == accepted'
             n == supplied'
  <2>1. e \in Entries /\ n \in Nat /\ a \in Seq(Token)
    BY <1>1 DEF IInv, TypeOK, Streams
  <2>2. sink' \o buffer' = a \o InProgress'
    <3>1. step' # "lost"
      BY DEF Appending
    <3> QED
      BY <1>1, <1>3, <3>1 DEF IInv, StreamIsExact
  <2>3. step' = "body" => n \in 0 .. e.size
    <3> SUFFICES ASSUME step' = "body" PROVE n \in 0 .. e.size
      OBVIOUS
    <3>1. remaining' + n = e.size /\ remaining' \in Nat
      BY <1>1 DEF IInv, Balance, TypeOK, Appending
    <3> QED
      BY <2>1, <3>1
  <2>4. CASE step' \in {"idle", "begin"}
    <3>1. InProgress' = <<>>
      BY <2>4 DEF InProgress
    <3>2. a \o <<>> = a
      BY <2>1, ConcatEmptySeq
    <3>3. e.size \in Nat
      BY <2>1, EntryNumbers
    <3> DEFINE zero == 0
    <3>4. zero \in 0 .. e.size
      BY <3>3
    <3> HIDE DEF e, a, n, zero
    <3>5. Prefix(a, a \o Record(e))
      BY <2>1, <3>4, RecordBegins
    <3> QED
      BY <2>2, <3>1, <3>2, <3>5 DEF e, a
  <2>5. CASE step' = "body"
    <3>1. InProgress' = HeaderBytes(e) \o BodyBytes(e, n)
      BY <2>5 DEF InProgress
    <3>2. n \in 0 .. e.size
      BY <2>3, <2>5
    <3> HIDE DEF e, a, n
    <3>3. Prefix(a \o (HeaderBytes(e) \o BodyBytes(e, n)), a \o Record(e))
      BY <2>1, <3>2, RecordBegins
    <3> QED
      BY <2>2, <3>1, <3>3 DEF e, a
  <2>6. CASE step' = "probe"
    <3>1. InProgress' = Record(e)
      BY <2>6 DEF InProgress
    <3>3. e.size \in Nat
      BY <2>1, EntryNumbers
    <3> DEFINE zero == 0
    <3>4. zero \in 0 .. e.size
      BY <3>3
    <3> HIDE DEF e, a, n, zero
    <3>5. Prefix(a \o Record(e), a \o Record(e))
      BY <2>1, <3>4, RecordBegins
    <3> QED
      BY <2>2, <3>1, <3>5 DEF e, a
  <2> QED
    BY <2>4, <2>5, <2>6 DEF Appending
<1> QED
  BY <1>2, <1>3

LEMMA DeliveredKept ==
  ASSUME IInv, Delivered, [Next]_vars
  PROVE  Delivered'
<1> SUFFICES ASSUME step' = "published" PROVE buffer' = <<>>
  BY DEF Delivered
<1>1. CASE Publish
  BY <1>1 DEF Publish, pipeVars
<1>2. CASE BeginRecord \/ BodyIsShort \/ BodyFails \/ EndRecord \/ Probe \/ Shutdown
  BY <1>2 DEF BeginRecord, BodyIsShort, BodyFails, EndRecord, Probe, Shutdown, AppendFails
<1>3. ASSUME NEW n \in 1 .. Chunk, ReadBody(n) \/ SinkTakes(n) PROVE FALSE
  BY <1>3 DEF ReadBody, SinkTakes, AppendFails, Appending, Finishing
<1>4. CASE Finish \/ SinkFails \/ Cancel
  BY <1>4 DEF Finish, SinkFails, Cancel, Lose, AppendFails
<1>5. ASSUME NEW e \in Entries, AppendEntry(e) PROVE FALSE
  BY <1>5 DEF AppendEntry
<1>6. CASE UNCHANGED vars
  BY <1>6 DEF vars, pipeVars, Delivered
<1> QED
  BY <1>1, <1>2, <1>3, <1>4, <1>5, <1>6 DEF Next, Run

LEMMA InitWalkInv == Init => WalkInv
<1> SUFFICES ASSUME Init PROVE WalkInv
  OBVIOUS
<1>1. IInv
  BY InitIInv
<1>2. accepted = <<>> /\ sink = <<>> /\ buffer = <<>> /\ step = "idle"
  BY DEF Init
<1>3. Whole
  BY <1>2, NoneLead DEF Whole
<1>4. Torn
  <2>1. Record(entry) \in Seq(Token) /\ <<>> \in Seq(Token)
    BY <1>1, RecordShape, EmptySeq DEF IInv, TypeOK
  <2>2. sink \o buffer = <<>>
    BY <1>2, <2>1, ConcatEmptySeq
  <2>3. Prefix(<<>>, <<>> \o Record(entry))
    BY <2>1, PrefixJoined
  <2> QED
    BY <1>2, <2>2, <2>3 DEF Torn
<1>5. Delivered
  BY <1>2 DEF Delivered
<1> QED
  BY <1>1, <1>3, <1>4, <1>5 DEF WalkInv

LEMMA WalkInvariant == Spec => []WalkInv
<1>1. WalkInv /\ [Next]_vars => WalkInv'
  BY NextIInv, WholeGrows, TornKept, DeliveredKept DEF WalkInv
<1> QED
  BY <1>1, InitWalkInv, PTL DEF Spec

-----------------------------------------------------------------------------
(* As long as a writer lives, what it has put into its sink is no complete *)
(* archive unless finish has begun and nothing has failed, wherever an     *)
(* append stopped (writer.rs:178, reader.rs:234).                          *)
THEOREM UnfinishedNeverReads == Spec => []UnfinishedIsIncomplete
<1>1. WalkInv => UnfinishedIsIncomplete
  <2> SUFFICES ASSUME WalkInv, step # "lost", failed \/ step \in {"idle"} \cup Appending
               PROVE  ~Readable(sink)
    BY DEF UnfinishedIsIncomplete
  <2>1. /\ step \in {"idle"} \cup Appending
        /\ entry \in Entries
        /\ sink \in Seq(Token) /\ buffer \in Seq(Token) /\ accepted \in Seq(Token)
    BY DEF WalkInv, IInv, FailedRests, TypeOK, Streams
  <2> DEFINE a == accepted \o Record(entry)
  <2>2. Sound(a) /\ NoEnd(a)
    BY <2>1, RecordSound, SoundJoined, NoEndOn DEF WalkInv, Whole
  <2>3. Prefix(sink \o buffer, a)
    BY <2>1 DEF WalkInv, Torn
  <2> HIDE DEF a
  <2>4. sink \o buffer \in Seq(Token) /\ Prefix(sink, sink \o buffer) /\ a \in Seq(Token)
    BY <2>1, <2>2, Joined, PrefixJoined DEF Sound
  <2>5. Prefix(sink, a)
    BY <2>1, <2>3, <2>4, PrefixOfPrefix
  <2>6. Sound(sink)
    BY <2>1, <2>2, <2>5, SoundPrefix
  <2>7. From(sink, 0).end = -1
    BY <2>2, <2>5, <2>6 DEF NoEnd
  <2>8. ~Ended(sink)
    <3> SUFFICES ASSUME sink # <<>>, sink[Len(sink)] = FrameEnd PROVE FALSE
      BY DEF Ended
    <3>1. Len(sink) \in Nat /\ Len(sink) # 0
      BY <2>1, LenProperties, EmptySeq
    <3>2. Len(sink) \in 1 .. Len(sink)
      BY <3>1
    <3>3. FrameEnd.part = "frame end"
      BY DEF FrameEnd
    <3> QED
      BY <2>6, <3>2, <3>3 DEF Sound
  <2>9. AsTape(sink) = TapeOf(sink)
    BY <2>8 DEF AsTape, Plain
  <2>10. Tapes!EndBlock(AsTape(sink)) = Tapes!NoSize
    BY <2>7, <2>9, SameWalk DEF Tapes!EndBlock, Tapes!Walk, From
  <2> QED
    BY <2>10 DEF Readable, Tapes!Complete
<1> QED
  BY <1>1, WalkInvariant, PTL

(* What a trailer is read as.                                              *)
LEMMA TrailerRead ==
  ASSUME NEW a, Sound(a), NEW end, end = Bytes(2 * Block, "archive", "end"),
         NEW out, out = a \o Trailer(format)
  PROVE  /\ Plain(out) = a \o end
         /\ format = "TarZstd" => Ended(out)
<1> DEFINE tok == Bytes(1, "archive", "frame end")
<1>1. a \in Seq(Token) /\ end \in Seq(Token) /\ tok \in Seq(Token) /\ Len(end) = 2 * Block
  BY TrailerType, EndsSound DEF Sound
<1>2. Len(tok) = 1 /\ tok[1] = FrameEnd
  <2> DEFINE one == 1
             b == Bytes(one, "archive", "frame end")
  <2>1. one \in Nat /\ 1 \in 1 .. one /\ "archive" \in Names /\ "frame end" \in Parts
    BY DEF Names, Parts
  <2>2. tok = b
    OBVIOUS
  <2> HIDE DEF one
  <2>3. Len(b) = one /\ \A i \in 1 .. one : b[i] = [entry |-> "archive", part |-> "frame end"]
    BY <2>1, BytesShape
  <2>4. Len(b) = one /\ b[1] = [entry |-> "archive", part |-> "frame end"]
    BY <2>1, <2>3
  <2> QED
    BY <2>2, <2>4 DEF one, FrameEnd
<1> DEFINE s == a \o end
<1> HIDE DEF tok
<1>3. s \in Seq(Token) /\ Len(s) \in Nat /\ Sound(s)
  BY <1>1, Joined, EndsSound, SoundJoined
<1>4. Len(s) = Len(a) + 2 * Block /\ Len(a) \in Nat /\ Block \in Nat /\ Block > 0
  <2>1. Len(s) = Len(a) + Len(end) /\ Len(a) \in Nat
    BY <1>1, Joined
  <2>2. Block \in Nat /\ Block > 0
    BY SinkAssumption
  <2> QED
    BY <1>1, <2>1, <2>2
<1>5. ~Ended(s)
  <2> SUFFICES ASSUME s[Len(s)] = FrameEnd PROVE FALSE
    BY DEF Ended
  <2> HIDE DEF s
  <2>1. Len(s) \in 1 .. Len(s)
    BY <1>4
  <2>2. FrameEnd.part = "frame end"
    BY DEF FrameEnd
  <2> QED
    BY <1>3, <2>1, <2>2 DEF Sound
<1>6. CASE format = "TarZstd"
  <2>1. out = a \o (end \o tok)
    BY <1>6 DEF Trailer, tok
  <2>2. (a \o end) \o tok = a \o (end \o tok)
    BY ONLY <1>1, JoinInAnyOrder, Zenon
  <2>3. out = s \o tok
    BY <2>1, <2>2
  <2> HIDE DEF s
  <2>4. /\ s \o tok \in Seq(Token) /\ Len(s \o tok) = Len(s) + Len(tok)
        /\ \A i \in 1 .. Len(s) : (s \o tok)[i] = s[i]
        /\ \A i \in 1 .. Len(tok) : (s \o tok)[Len(s) + i] = tok[i]
    BY <1>1, <1>3, Joined
  <2>5. Len(out) = Len(s) + 1 /\ out[Len(s) + 1] = FrameEnd
    BY <1>2, <2>3, <2>4
  <2>6. Ended(out)
    <3>1. Len(out) # 0
      BY <1>3, <2>5
    <3>2. out # <<>>
      BY <3>1, EmptySeq
    <3> QED
      BY <2>5, <3>2 DEF Ended
  <2>7. SubSeq(out, 1, Len(out) - 1) = s
    <3>1. Len(out) - 1 = Len(s)
      BY <1>3, <2>5
    <3>2. SubSeq(s \o tok, 1, Len(s)) = s
      <4>1. Len(s) <= Len(s)
        BY <1>3
      <4>2. SubSeq(s, 1, Len(s)) = s
        BY <1>3, SubSeqFull
      <4> QED
        BY <1>1, <1>3, <4>1, <4>2, PrefixKept
    <3> QED
      BY <2>3, <3>1, <3>2
  <2> QED
    BY <2>6, <2>7 DEF Plain, s
<1>7. CASE format # "TarZstd"
  <2>1. out = a \o (end \o <<>>)
    BY <1>7 DEF Trailer
  <2>2. end \o <<>> = end
    BY <1>1, ConcatEmptySeq
  <2>3. out = s
    BY <2>1, <2>2
  <2> QED
    BY <1>5, <1>7, <2>3 DEF Plain
<1> QED
  BY <1>6, <1>7

(* Whole records and a trailer read as a complete archive of those         *)
(* records.                                                                *)
LEMMA RecordsRead ==
  ASSUME NEW a, Sound(a), Leads(a), NEW end, end = Bytes(2 * Block, "archive", "end")
  PROVE  LET t == TapeOf(a \o end)
         IN  /\ Tapes!Complete(t)
             /\ Tapes!Walk(t).members = HeadersOf(a)
<1> DEFINE s == a \o end
           n == Len(a)
           t == TapeOf(s)
<1>1. a \in Seq(Token) /\ end \in Seq(Token) /\ Len(end) = 2 * Block
      /\ \A i \in 1 .. 2 * Block : end[i].part = "end"
  BY TrailerType, EndsSound DEF Sound
<1>2. Sound(s) /\ Prefix(a, s)
  BY <1>1, EndsSound, SoundJoined, PrefixJoined
<1>3. /\ n \in Nat /\ Len(s) = n + 2 * Block
      /\ \A i \in 1 .. 2 * Block : s[n + i] = end[i]
  BY <1>1, Joined
<1>4. /\ t.len = Len(s)
      /\ \A o \in 0 .. Len(s) - 1 :
           o \in t.dirty <=> s[o + 1].part \in {"header", "long header", "long name"}
      /\ t.dirty \subseteq 0 .. Len(s) - 1
  BY <1>2, TapeIs DEF Tapes!IsTape
<1>f. \A p : From(s, p) = Tapes!Walks(t)[p][-1]
  BY DEF From
<1>a. n \in Nat /\ Len(s) = n + 2 * Block /\ Block \in Nat /\ Block > 0
  BY <1>3, SinkAssumption
<1> HIDE DEF s, t
<1>5. \A i \in n + 1 .. n + 2 * Block : s[i].part = "end"
  <2> TAKE i \in n + 1 .. n + 2 * Block
  <2> DEFINE k == i - n
  <2>1. k \in 1 .. 2 * Block /\ i = n + k
    BY <1>a
  <2> HIDE DEF k
  <2>2. s[i] = end[k]
    BY <1>3, <2>1
  <2> QED
    BY <1>1, <2>1, <2>2
<1>6. EndsAt(s, n)
  <2> SUFFICES ASSUME NEW i \in n + 1 .. n + Block PROVE s[i].part = "end"
    BY DEF EndsAt
  <2>1. i \in n + 1 .. n + 2 * Block
    BY <1>a
  <2> QED
    BY <1>5, <2>1
<1>7. From(s, n) = [end |-> n, members |-> {}]
  <2>1. n \in 0 .. Len(s) /\ n + Block <= Len(s)
    BY <1>a
  <2> QED
    BY <1>2, <1>6, <2>1, ZerosMet
<1>8. From(s, 0).end = n /\ From(s, 0).members = HeadersOf(a)
  <2>1. From(s, 0).end = From(s, n).end /\ From(s, 0).members = From(s, n).members \cup HeadersOf(a)
    BY <1>2 DEF Leads
  <2>2. From(s, n).end = n /\ From(s, n).members = {}
    <3> DEFINE w == From(s, n)
    <3>1. w = [end |-> n, members |-> {}]
      BY <1>7
    <3> HIDE DEF w
    <3>2. w.end = n /\ w.members = {}
      BY <3>1
    <3> QED
      BY <3>2 DEF w
  <2> QED
    BY <2>1, <2>2
<1>9. Tapes!Walk(t) = From(s, 0)
  BY <1>f, SameWalk DEF Tapes!Walk
<1>10. Tapes!EndBlock(t) = n /\ Tapes!Walk(t).members = HeadersOf(a)
  BY <1>8, <1>9 DEF Tapes!EndBlock
<1>11. n # Tapes!NoSize /\ n + 2 * Block <= t.len
  <2>1. n # -1 /\ n + 2 * Block <= Len(s)
    BY <1>a
  <2> QED
    BY <1>4, <2>1, SameWalk
<1>12. ASSUME NEW b \in t.dirty PROVE b < n
  <2>1. b \in 0 .. Len(s) - 1
    BY <1>4
  <2> SUFFICES ASSUME ~(b < n) PROVE FALSE
    BY <1>a, <2>1
  <2>2. b + 1 \in n + 1 .. n + 2 * Block
    BY <1>a, <2>1
  <2>3. s[b + 1].part = "end"
    BY <1>5, <2>2
  <2> QED
    BY <1>4, <2>1, <2>3
<1>13. Tapes!Complete(t)
  BY <1>10, <1>11, <1>12 DEF Tapes!Complete
<1> QED
  BY <1>10, <1>13 DEF s, t

(* What finish returns is walked to a clean end, and the members met are   *)
(* the entries that append answered Ok to (writer.rs:155-198 against       *)
(* guard.rs:45-83).                                                        *)
THEOREM PublishedReads == Spec => []PublishedIsReadable
<1>1. WalkInv => PublishedIsReadable
  <2> SUFFICES ASSUME WalkInv, step = "published"
               PROVE  /\ Readable(sink)
                      /\ Tapes!Walk(AsTape(sink)).members = HeadersOf(accepted)
    BY DEF PublishedIsReadable, HeadersOf
  <2>1. Sound(accepted) /\ Leads(accepted) /\ buffer = <<>>
    BY DEF WalkInv, Whole, Delivered
  <2>2. sink \in Seq(Token) /\ ~failed
    BY DEF WalkInv, IInv, FailedRests, Streams
  <2>3. sink = accepted \o Trailer(format)
    <3>1. sink \o buffer = accepted \o Trailer(format)
      BY <2>2 DEF WalkInv, IInv, StreamIsExact, InProgress
    <3>2. sink \o <<>> = sink
      BY <2>2, ConcatEmptySeq
    <3> QED
      BY <2>1, <3>1, <3>2
  <2> DEFINE end == Bytes(2 * Block, "archive", "end")
             s == accepted \o end
  <2> HIDE DEF end
  <2>4. Plain(sink) = s /\ (format = "TarZstd" => Ended(sink))
    BY <2>1, <2>3, TrailerRead DEF end
  <2>5. Tapes!Complete(TapeOf(s)) /\ Tapes!Walk(TapeOf(s)).members = HeadersOf(accepted)
    BY <2>1, RecordsRead DEF end
  <2> HIDE DEF s
  <2>6. AsTape(sink) = TapeOf(s)
    BY <2>4 DEF AsTape
  <2> QED
    BY <2>4, <2>5, <2>6 DEF Readable, Decodes
<1> QED
  BY <1>1, WalkInvariant, PTL
=============================================================================
