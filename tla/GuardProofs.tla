------------------------------ MODULE GuardProofs ------------------------------
(***************************************************************************)
(* Proofs about HeaderGuard and GuardedParser, for every set of tapes,     *)
(* every block length, every limit and every cutting into polls.           *)
(*                                                                         *)
(* First the guard: its invariants, and that it implements TarFraming.     *)
(* Then the guard and the tar parser on top of it, which stay in step and  *)
(* accept exactly the complete archives.  The second part sees the guard   *)
(* through what it implements: the first says where its walk is, and the   *)
(* invariants of the second relate the parser to that walk.                *)
(***************************************************************************)
EXTENDS GuardedParser, TapeWalkProofs


(* The first offset of an interval.                                        *)
LEMMA FirstOfInterval ==
  ASSUME NEW from \in Nat, NEW to \in Nat, from <= to
  PROVE  First(from .. to) = from
  BY DEF First

-----------------------------------------------------------------------------
(* The invariant that is inductive.                                        *)
IInv == TypeOK /\ Accounting /\ SpentOnce /\ PaxIsPrefix

LEMMA RefusalIsVerdict ==
  ASSUME NEW h, NEW pax
  PROVE  Refusal(h, pax) \in Verdicts
  BY DEF Refusal, Verdicts

(* Where the header in the buffer lies.                                    *)
LEMMA HeaderPlace ==
  ASSUME IInv, InHeader, HeaderStart + Block <= tape.len
  PROVE  /\ HeaderStart \in 0 .. tape.len
         /\ HeaderStart + Block \in 0 .. tape.len
         /\ tape.at[HeaderStart] \in Header
         /\ emitted > 0 => HeaderStart + Block = pos
  BY TapeAssumption
     DEF IInv, TypeOK, IsTape, Accounting, HeaderStart, InHeader

(* Before a header is inspected nothing of an earlier one is left.         *)
LEMMA Uninspected ==
  ASSUME IInv, InHeader, emitted = 0, verdict = "none"
  PROVE  pax_body = NoBody /\ next_data = 0 /\ ~next_trailer
  BY DEF IInv, TypeOK, SpentOnce, PaxIsPrefix, PayloadFrom, InHeader

(* The fields that inspect leaves.                                         *)
LEMMA InspectedType ==
  ASSUME IInv, HeaderReady, verdict = "none"
  PROVE  /\ NextData \in Nat
         /\ NextTrailer \in BOOLEAN
         /\ OpenedBody \subseteq Nat \/ OpenedBody = NoBody
         /\ OpenedRemaining \in Nat
         /\ TakenSize \in U64 \cup {NoSize}
<1>1. TheHeader \in Header
  BY HeaderPlace DEF HeaderReady, TheHeader
<1>2. /\ pax_size \in U64 \cup {NoSize} /\ pax_remaining \in Nat /\ next_data \in Nat
      /\ next_trailer \in BOOLEAN
      /\ pax_body \subseteq Nat \/ pax_body = NoBody
  BY DEF IInv, TypeOK
<1>3. Opens => /\ TheHeader.size \in Nat
               /\ Padded(PayloadSize(TheHeader, pax_size)) \in Nat
  BY <1>1, <1>2, AcceptedHeader, PaddedBounds DEF HeaderReady
<1>4. NextData \in Nat /\ OpenedRemaining \in Nat
  BY <1>2, <1>3 DEF NextData, OpenedRemaining
<1>5. NextTrailer \in BOOLEAN
  BY <1>2 DEF NextTrailer
<1>6. OpenedBody \subseteq Nat \/ OpenedBody = NoBody
  BY <1>2 DEF OpenedBody
<1>7. TakenSize \in U64 \cup {NoSize}
  BY <1>2 DEF TakenSize
<1> QED
  BY <1>4, <1>5, <1>6, <1>7

(* What they are for the header that inspect sees, by kind.                *)
LEMMA InspectedNow ==
  ASSUME IInv, HeaderReady, emitted = 0, verdict = "none"
  PROVE  /\ pax_body = NoBody /\ next_data = 0 /\ ~next_trailer
         /\ IsZero => /\ NextData = 0 /\ NextTrailer
                      /\ OpenedBody = NoBody /\ TakenSize = pax_size
         /\ ~IsZero =>
              /\ ~NextTrailer
              /\ NextData = Padded(PayloadSize(TheHeader, pax_size))
              /\ TheHeader.size \in Nat
              /\ TheHeader.kind = "entry" => OpenedBody = NoBody /\ TakenSize = NoSize
              /\ TheHeader.kind = "long" => OpenedBody = NoBody /\ TakenSize = pax_size
              /\ TheHeader.kind = "pax" =>
                   /\ OpenedBody = {} /\ OpenedRemaining = TheHeader.size
                   /\ TakenSize = pax_size /\ NextData = Padded(TheHeader.size)
              /\ TheHeader.kind \in {"entry", "long", "pax"}
<1>1. pax_body = NoBody /\ next_data = 0 /\ ~next_trailer
  BY Uninspected DEF HeaderReady
<1>2. TheHeader \in Header /\ pax_size \in U64 \cup {NoSize}
  BY HeaderPlace DEF HeaderReady, TheHeader, IInv, TypeOK
<1>3. ~IsZero => Refusal(TheHeader, pax_size) = "none"
  BY DEF HeaderReady, Opens
<1>4. ~IsZero => /\ TheHeader.size \in Nat
                 /\ TheHeader.kind \in {"entry", "long", "pax"}
                 /\ IsExtension(TheHeader) <=> TheHeader.kind \in {"pax", "long"}
                 /\ IsExtension(TheHeader) => PayloadSize(TheHeader, pax_size) = TheHeader.size
  BY <1>2, <1>3, AcceptedHeader
<1> QED
  BY <1>1, <1>4 DEF Opens, NextData, NextTrailer, OpenedBody, OpenedRemaining, TakenSize

-----------------------------------------------------------------------------
LEMMA InitIInv == GuardInit => IInv
<1> SUFFICES ASSUME GuardInit PROVE IInv
  OBVIOUS
<1>1. IsTape(tape) /\ Block \in Nat \ {0} /\ tape.len \in Nat
  BY GuardAssumption, TapeAssumption DEF GuardInit, IsTape
<1>2. TypeOK
  <2>1. pos \in 0 .. tape.len /\ handed \in 0 .. tape.len
    BY <1>1 DEF GuardInit
  <2>2. filled \in 0 .. Block /\ emitted \in 0 .. Block - 1
    BY <1>1 DEF GuardInit
  <2> QED
    BY <1>1, <2>1, <2>2 DEF GuardInit, TypeOK, Verdicts
<1>3. Accounting
  BY DEF GuardInit, Accounting
<1>4. SpentOnce
  BY DEF GuardInit, SpentOnce
<1>5. PaxIsPrefix
  BY DEF GuardInit, PaxIsPrefix
<1> QED
  BY <1>2, <1>3, <1>4, <1>5 DEF IInv

LEMMA StallIInv ==
  ASSUME IInv, verdict = "none", NEW k \in 1 .. Block, StallInHeader(k)
  PROVE  IInv'
<1>1. emitted = 0
  BY TapeAssumption DEF StallInHeader, IInv, TypeOK, Accounting
<1>2. TypeOK'
  BY TapeAssumption DEF StallInHeader, IInv, TypeOK, IsTape, paxVars
<1>3. Accounting'
  BY <1>1 DEF StallInHeader, IInv, TypeOK, IsTape, Accounting, InHeader
<1>4. SpentOnce'
  BY DEF StallInHeader, IInv, TypeOK, SpentOnce, InHeader, paxVars
<1>5. pax_body = NoBody
  BY <1>1, Uninspected DEF StallInHeader
<1>6. PaxIsPrefix'
  BY <1>5 DEF StallInHeader, PaxIsPrefix, paxVars
<1> QED
  BY <1>2, <1>3, <1>4, <1>6 DEF IInv

LEMMA RefuseIInv ==
  ASSUME IInv, verdict = "none", RefuseHeader
  PROVE  IInv'
<1>1. emitted = 0 /\ InHeader /\ data_remaining = 0 /\ ~trailer
  BY DEF RefuseHeader, Opens, InHeader
<1>2. pax_body = NoBody /\ next_data = 0 /\ ~next_trailer
  BY <1>1, Uninspected
<1>3. /\ HeaderStart \in 0 .. tape.len
      /\ HeaderStart + Block \in 0 .. tape.len
      /\ TheHeader \in Header
  BY <1>1, HeaderPlace DEF RefuseHeader, TheHeader
<1>4. verdict' \in Verdicts /\ verdict' # "none"
  BY RefusalIsVerdict DEF RefuseHeader
<1>5. TypeOK'
  <2>1. pax_body' \subseteq Nat \/ pax_body' = NoBody
    BY <1>2 DEF RefuseHeader, OpenedBody, paxVars
  <2>2. TheHeader.size \in Nat \/ TheHeader.size = Bad
    BY <1>3 DEF Header, U64
  <2>3. pax_remaining' \in Nat
    BY <2>2 DEF RefuseHeader, OpenedRemaining, IInv, TypeOK, paxVars
  <2>4. pax_size' \in U64 \cup {NoSize}
    BY DEF RefuseHeader, TakenSize, IInv, TypeOK, paxVars
  <2> QED
    BY <1>3, <1>4, <2>1, <2>3, <2>4, TapeAssumption DEF RefuseHeader, IInv, TypeOK
<1>6. Accounting'
  BY <1>1, <1>3, TapeAssumption
     DEF RefuseHeader, IInv, TypeOK, IsTape, Accounting, HeaderStart
<1>7. SpentOnce'
  BY <1>1, <1>2 DEF RefuseHeader, SpentOnce
<1>8. PaxIsPrefix'
  BY <1>4 DEF PaxIsPrefix
<1> QED
  BY <1>5, <1>6, <1>7, <1>8 DEF IInv

LEMMA HandOnPartIInv ==
  ASSUME IInv, verdict = "none", NEW room \in 1 .. Chunk, HandOnPart(room)
  PROVE  IInv'
<1>0. Block \in Nat \ {0} /\ Chunk \in Nat /\ room \in Nat /\ room > 0
  BY TapeAssumption, GuardAssumption
<1>1. HeaderReady /\ InHeader /\ data_remaining = 0 /\ ~trailer
  BY DEF IsPart, HandOnPart, HeaderReady, InHeader
<1>2. /\ HeaderStart \in 0 .. tape.len
      /\ HeaderStart + Block \in 0 .. tape.len
      /\ emitted > 0 => HeaderStart + Block = pos
  BY <1>1, HeaderPlace DEF HeaderReady
<1>3. emitted > 0 => /\ NextData = next_data /\ OpenedBody = pax_body
                     /\ OpenedRemaining = pax_remaining
                     /\ NextTrailer <=> next_trailer
  BY DEF NextData, NextTrailer, OpenedBody, OpenedRemaining, Opens, IInv, TypeOK
<1>4. TypeOK'
  <2>1. pos' \in 0 .. tape.len /\ filled' \in 0 .. Block /\ emitted' \in 0 .. Block - 1
    BY <1>0, <1>2 DEF IsPart, HandOnPart, IInv, TypeOK
  <2>2. handed' \in 0 .. tape.len
    <3>1. /\ handed = HeaderStart + emitted
          /\ emitted \in Nat /\ tape.len \in Nat
      BY DEF IInv, TypeOK, IsTape, Accounting, HeaderStart
    <3>2. handed' = handed + room /\ tape' = tape /\ emitted + room < Block
      BY DEF IsPart, HandOnPart
    <3> QED
      BY <1>0, <1>2, <3>1, <3>2
  <2> QED
    BY <1>1, <2>1, <2>2, InspectedType DEF IsPart, HandOnPart, IInv, TypeOK
<1>5. Accounting'
  <2>1. handed = HeaderStart + emitted /\ emitted \in Nat /\ HeaderStart \in Nat
    BY <1>2 DEF IInv, TypeOK, IsTape, Accounting, HeaderStart
  <2>2. pos' = HeaderStart + Block /\ filled' = Block /\ emitted' = emitted + room
        /\ handed' = handed + room /\ data_remaining' = 0 /\ ~trailer'
    BY <1>1 DEF IsPart, HandOnPart
  <2> QED
    BY <1>0, <2>1, <2>2 DEF Accounting
<1>6. SpentOnce'
  <2>1. emitted' > 0
    BY <1>0 DEF IsPart, HandOnPart, IInv, TypeOK
  <2>2. NextTrailer => NextData = 0 /\ OpenedBody = NoBody
    <3>1. CASE emitted = 0
      BY <1>1, <3>1, InspectedNow
    <3>2. CASE emitted > 0
      BY <1>3, <3>2 DEF IInv, SpentOnce
    <3> QED
      BY <3>1, <3>2 DEF IInv, TypeOK
  <2> QED
    BY <1>1, <2>1, <2>2 DEF IsPart, HandOnPart, SpentOnce
<1>7. PaxIsPrefix'
  <2> SUFFICES ASSUME OpenedBody # NoBody
               PROVE  \E first \in Block .. tape.len : PayloadFrom(first)'
    BY DEF PaxIsPrefix, HandOnPart
  <2>1. CASE emitted = 0
    <3>1. ~IsZero /\ TheHeader.kind = "pax"
      BY <1>1, <2>1, InspectedNow
    <3>2. /\ TheHeader.size \in Nat /\ OpenedBody = {} /\ OpenedRemaining = TheHeader.size
          /\ NextData = Padded(TheHeader.size)
      BY <1>1, <2>1, <3>1, InspectedNow
    <3>3. Padded(TheHeader.size) \in Nat
      BY <3>2, PaddedBounds
    <3>4. PICK first \in Block .. tape.len : first = HeaderStart + Block
      BY <1>0, <1>2 DEF IInv, TypeOK, IsTape
    <3>a. first \in Nat /\ first - Block = HeaderStart /\ pos' = first
      BY <1>0, <1>2, <3>4 DEF IsPart, HandOnPart, IInv, TypeOK, IsTape
    <3>5. PayloadFrom(first)'
      BY <1>0, <1>1, <2>1, <3>1, <3>2, <3>3, <3>a DEF IsPart, HandOnPart, PayloadFrom, TheHeader
    <3> QED
      BY <3>5
  <2>2. CASE emitted > 0
    <3>1. PICK first \in Block .. tape.len : PayloadFrom(first)
      BY <1>3, <2>2 DEF IInv, PaxIsPrefix
    <3>2. pos' = pos /\ next_data' = next_data /\ data_remaining' = data_remaining
          /\ pax_remaining' = pax_remaining /\ pax_body' = pax_body /\ tape' = tape
          /\ emitted' > 0
      BY <1>0, <1>2, <1>3, <2>2 DEF IsPart, HandOnPart, IInv, TypeOK
    <3>3. PayloadFrom(first)'
      BY <1>1, <2>2, <3>1, <3>2 DEF PayloadFrom
    <3> QED
      BY <3>2, <3>3
  <2> QED
    BY <2>1, <2>2 DEF IInv, TypeOK
<1> QED
  BY <1>4, <1>5, <1>6, <1>7 DEF IInv

(* What parse_pax_size makes of an empty payload.                          *)
LEMMA EmptyPax == FinishPax({}) => /\ pax_body' = NoBody
                                  /\ pax_size' = NoSize
                                  /\ UNCHANGED verdict
  BY DEF FinishPax, ParsePaxSize, NoSize, Bad

(* At the end of a header without payload only an empty record is open.    *)
LEMMA OpenedIsEmpty ==
  ASSUME IInv, HeaderReady, verdict = "none", NextData = 0, OpenedBody # NoBody
  PROVE  OpenedBody = {}
<1>1. InHeader /\ data_remaining = 0
  BY DEF HeaderReady, InHeader
<1>2. CASE emitted = 0
  BY <1>2, InspectedNow
<1>3. CASE emitted > 0
  <2>1. OpenedBody = pax_body
    BY <1>3 DEF OpenedBody, Opens
  <2>2. PICK first \in Block .. tape.len : PayloadFrom(first)
    BY <2>1 DEF IInv, PaxIsPrefix
  <2> QED
    BY <1>1, <2>1, <2>2, TapeAssumption DEF PayloadFrom, IInv, TypeOK, IsTape
<1> QED
  BY <1>2, <1>3 DEF IInv, TypeOK

LEMMA HandOnRestIInv ==
  ASSUME IInv, verdict = "none", NEW room \in 1 .. Chunk, HandOnRest(room)
  PROVE  IInv'
<1>0. Block \in Nat \ {0} /\ Chunk \in Nat /\ room \in Nat /\ room > 0
  BY TapeAssumption, GuardAssumption
<1>1. HeaderReady /\ InHeader /\ data_remaining = 0 /\ ~trailer
  BY DEF IsPart, HandOnRest, HeaderReady, InHeader
<1>2. /\ HeaderStart \in 0 .. tape.len
      /\ HeaderStart + Block \in 0 .. tape.len
      /\ emitted > 0 => HeaderStart + Block = pos
  BY <1>1, HeaderPlace DEF HeaderReady
<1>3. emitted > 0 => /\ NextData = next_data /\ OpenedBody = pax_body
                     /\ OpenedRemaining = pax_remaining
                     /\ NextTrailer <=> next_trailer
  BY DEF NextData, NextTrailer, OpenedBody, OpenedRemaining, Opens, IInv, TypeOK
<1>4. \/ /\ NextData = 0 /\ OpenedBody # NoBody
         /\ pax_body' = NoBody /\ pax_size' = NoSize /\ verdict' = verdict
      \/ /\ NextData # 0 \/ OpenedBody = NoBody
         /\ pax_body' = OpenedBody /\ pax_size' = TakenSize /\ verdict' = verdict
  BY <1>1, OpenedIsEmpty, EmptyPax DEF IsPart, HandOnRest
<1>5. TypeOK'
  <2>1. pos' \in 0 .. tape.len /\ filled' \in 0 .. Block /\ emitted' \in 0 .. Block - 1
    BY <1>0, <1>2 DEF IsPart, HandOnRest
  <2>2. handed' \in 0 .. tape.len
    <3>1. handed = HeaderStart + emitted
      BY DEF IInv, TypeOK, IsTape, Accounting, HeaderStart
    <3> QED
      BY <1>0, <1>2, <3>1 DEF IsPart, HandOnRest, IInv, TypeOK, IsTape
  <2>3. pax_size' \in U64 \cup {NoSize} /\ (pax_body' \subseteq Nat \/ pax_body' = NoBody)
    BY <1>1, <1>4, InspectedType
  <2> QED
    BY <1>1, <1>4, <2>1, <2>2, <2>3, InspectedType DEF IsPart, HandOnRest, IInv, TypeOK
<1>6. Accounting'
  BY <1>0, <1>1, <1>2 DEF IsPart, HandOnRest, IInv, TypeOK, IsTape, Accounting, HeaderStart
<1>7. SpentOnce'
  <2>2. NextTrailer => NextData = 0 /\ OpenedBody = NoBody
    <3>1. CASE emitted = 0
      BY <1>1, <3>1, InspectedNow
    <3>2. CASE emitted > 0
      BY <1>3, <3>2 DEF IInv, SpentOnce
    <3> QED
      BY <3>1, <3>2 DEF IInv, TypeOK
  <2> QED
    BY <1>1, <1>4, <2>2 DEF IsPart, HandOnRest, SpentOnce
<1>8. PaxIsPrefix'
  <2> SUFFICES ASSUME NextData # 0, OpenedBody # NoBody, pax_body' = OpenedBody
               PROVE  \E first \in Block .. tape.len : PayloadFrom(first)'
    BY <1>4 DEF PaxIsPrefix, HandOnRest
  <2>0. NextData > 0 /\ data_remaining' = NextData
    BY <1>1, InspectedType DEF IsPart, HandOnRest
  <2>1. CASE emitted = 0
    <3>1. ~IsZero /\ TheHeader.kind = "pax"
      BY <1>1, <2>1, InspectedNow
    <3>2. /\ TheHeader.size \in Nat /\ OpenedBody = {} /\ OpenedRemaining = TheHeader.size
          /\ NextData = Padded(TheHeader.size)
      BY <1>1, <2>1, <3>1, InspectedNow
    <3>3. Padded(TheHeader.size) \in Nat
      BY <3>2, PaddedBounds
    <3>4. PICK first \in Block .. tape.len : first = HeaderStart + Block
      BY <1>0, <1>2 DEF IInv, TypeOK, IsTape
    <3>a. first \in Nat /\ first - Block = HeaderStart /\ pos' = first
      BY <1>0, <1>2, <3>4 DEF IsPart, HandOnRest, IInv, TypeOK, IsTape
    <3>5. PayloadFrom(first)'
      BY <1>0, <1>1, <2>0, <2>1, <3>1, <3>2, <3>3, <3>a DEF IsPart, HandOnRest, PayloadFrom, TheHeader
    <3> QED
      BY <3>5
  <2>2. CASE emitted > 0
    <3>1. PICK first \in Block .. tape.len : PayloadFrom(first)
      BY <1>3, <2>2 DEF IInv, PaxIsPrefix
    <3>2. pos' = pos /\ next_data' = 0 /\ data_remaining' = next_data
          /\ pax_remaining' = pax_remaining /\ pax_body' = pax_body /\ tape' = tape
      BY <1>2, <1>3, <2>2 DEF IsPart, HandOnRest
    <3>3. PayloadFrom(first)'
      BY <1>0, <1>1, <2>0, <3>1, <3>2 DEF PayloadFrom, IInv, TypeOK
    <3> QED
      BY <3>2, <3>3
  <2> QED
    BY <2>1, <2>2 DEF IInv, TypeOK
<1> QED
  BY <1>5, <1>6, <1>7, <1>8 DEF IInv

(* The number of bytes kept of the next n, and what is kept then.          *)
LEMMA KeepsPrefix ==
  ASSUME IInv, verdict = "none", pax_body # NoBody,
         NEW n \in Nat \ {0}, n <= data_remaining,
         NEW first \in Block .. tape.len, PayloadFrom(first),
         NEW keep, keep = Least(n, pax_remaining)
  PROVE  LET size == tape.at[first - Block].size
             left == pax_remaining - keep
         IN  /\ size \in Nat /\ keep \in Nat /\ left \in Nat /\ left <= size
             /\ pax_body \cup (pos .. pos + keep - 1) = first .. first + (size - left) - 1
             /\ first + (size - left) <= pos + n
             /\ left > 0 => pos + n = first + (size - left)
             /\ n = data_remaining => left = 0
             /\ n = data_remaining => size > 0
<1> DEFINE size == tape.at[first - Block].size
           left == pax_remaining - keep
<1>1. /\ size \in Nat /\ pax_remaining \in Nat /\ pax_remaining <= size
      /\ pos \in Nat /\ first \in Nat /\ data_remaining \in Nat /\ next_data = 0
  <2>1. tape.len \in Nat /\ Block \in Nat
    BY TapeAssumption DEF IInv, TypeOK, IsTape
  <2>2. pos \in Nat /\ data_remaining \in Nat /\ pax_remaining \in Nat
    BY <2>1 DEF IInv, TypeOK
  <2>3. next_data = 0
    <3>1. data_remaining > 0
      BY <2>2
    <3> QED
      BY <3>1 DEF IInv, SpentOnce
  <2>4. first \in Nat
    BY <2>1
  <2>5. size \in Nat /\ pax_remaining <= size
    BY DEF PayloadFrom
  <2> QED
    BY <2>2, <2>3, <2>4, <2>5
<1>2. /\ pax_body = first .. first + (size - pax_remaining) - 1
      /\ first + (size - pax_remaining) <= pos
      /\ pax_remaining > 0 => pos = first + (size - pax_remaining)
      /\ first + Padded(size) = pos + data_remaining
  BY <1>1 DEF PayloadFrom
<1>3. Padded(size) \in Nat /\ Padded(size) >= size /\ (size = 0 => Padded(size) = 0)
  BY <1>1, PaddedBounds
<1>4. /\ keep \in Nat /\ left \in Nat /\ left <= size
      /\ left > 0 => keep = n
      /\ keep <= n
      /\ keep > 0 => pax_remaining > 0
  BY <1>1 DEF Least
<1> HIDE DEF size, left
<1>5. size - left = (size - pax_remaining) + keep
  BY <1>1, <1>4 DEF left
<1>6. pax_body \cup (pos .. pos + keep - 1) = first .. first + (size - left) - 1
  <2>1. CASE keep = 0
    BY <1>1, <1>2, <1>4, <1>5, <2>1
  <2>2. CASE keep > 0
    <3>1. pos = first + (size - pax_remaining) /\ pos >= first
      BY <1>1, <1>2, <1>4, <2>2
    <3>2. first + (size - left) - 1 = pos + keep - 1
      BY <1>1, <1>4, <1>5, <3>1
    <3>3. pax_body = first .. pos - 1
      <4>1. first + (size - pax_remaining) - 1 = pos - 1
        BY <1>1, <3>1
      <4> QED
        BY <1>2, <4>1
    <3> QED
      BY <1>1, <1>4, <2>2, <3>1, <3>2, <3>3
  <2> QED
    BY <1>4, <2>1, <2>2
<1>7. first + (size - left) <= pos + n
  BY <1>1, <1>2, <1>4, <1>5
<1>8. left > 0 => pos + n = first + (size - left)
  <2> SUFFICES ASSUME left > 0 PROVE pos + n = first + (size - left)
    OBVIOUS
  <2>1. keep = n /\ pax_remaining > 0
    BY <1>1, <1>4
  <2> QED
    BY <1>1, <1>2, <1>4, <1>5, <2>1
<1>9. n = data_remaining => left = 0
  BY <1>1, <1>2, <1>3, <1>4, <1>8
<1>10. n = data_remaining => size > 0
  BY <1>1, <1>2, <1>3
<1> QED
  BY <1>1, <1>4, <1>6, <1>7, <1>8, <1>9, <1>10 DEF size, left

(* The kept bytes of a complete 'x' record parse as that record says.      *)
LEMMA WholePaxParses ==
  ASSUME IInv, NEW first \in Block .. tape.len,
         tape.at[first - Block].kind = "pax",
         NEW size \in Nat \ {0}, size = tape.at[first - Block].size
  PROVE  /\ ParsePaxSize(tape, first .. first + size - 1) = tape.at[first - Block].pax
         /\ tape.at[first - Block].pax \in U64 \cup {NoSize, Bad}
<1> DEFINE body == first .. first + size - 1
<1>1. tape.len \in Nat /\ first \in Nat /\ first - Block \in 0 .. tape.len
      /\ DOMAIN tape.at = 0 .. tape.len
      /\ tape.at[first - Block] \in Header
  BY TapeAssumption DEF IInv, TypeOK, IsTape
<1>2. First(body) = first /\ body # {}
  BY <1>1, FirstOfInterval
<1>3. tape.at[first - Block].pax \in U64 \cup {NoSize, Bad}
  BY <1>1 DEF Header
<1> QED
  BY <1>1, <1>2, <1>3 DEF ParsePaxSize

LEMMA PassDataIInv ==
  ASSUME IInv, verdict = "none", NEW n \in 1 .. Chunk, PassData(n)
  PROVE  IInv'
<1>0. n \in Nat /\ n > 0
  BY GuardAssumption
<1>1. /\ data_remaining \in Nat /\ data_remaining > 0 /\ n <= data_remaining
      /\ filled = 0 /\ emitted = 0 /\ next_data = 0 /\ ~next_trailer /\ ~trailer
      /\ pos \in Nat /\ handed = pos /\ pos' = pos + n /\ handed' = pos'
      /\ pos' \in 0 .. tape.len /\ tape' = tape
      /\ data_remaining' = data_remaining - n /\ data_remaining' \in Nat
  BY <1>0 DEF Takes, PassData, IInv, TypeOK, IsTape, Accounting, SpentOnce
<1>2. UNCHANGED <<headerVars, trailer>>
  BY DEF Takes, PassData
<1>3. Accounting'
  BY <1>1, <1>2 DEF Accounting, headerVars
<1>4. SpentOnce'
  BY <1>1, <1>2 DEF SpentOnce, headerVars
<1>5. CASE pax_body = NoBody
  <2>1. UNCHANGED <<paxVars, verdict>>
    BY <1>5 DEF Takes, PassData
  <2>2. TypeOK'
    BY <1>1, <1>2, <2>1 DEF IInv, TypeOK, headerVars, paxVars
  <2>3. PaxIsPrefix'
    BY <1>5, <2>1 DEF PaxIsPrefix, paxVars
  <2> QED
    BY <1>3, <1>4, <2>2, <2>3 DEF IInv
<1>6. CASE pax_body # NoBody
  <2> DEFINE keep == Least(n, pax_remaining)
             body == pax_body \cup (pos .. pos + keep - 1)
  <2>1. PICK first \in Block .. tape.len : PayloadFrom(first)
    BY <1>6 DEF IInv, PaxIsPrefix
  <2> DEFINE size == tape.at[first - Block].size
             left == pax_remaining - keep
  <2>2. /\ size \in Nat /\ keep \in Nat /\ left \in Nat /\ left <= size
        /\ body = first .. first + (size - left) - 1
        /\ first + (size - left) <= pos + n
        /\ left > 0 => pos + n = first + (size - left)
        /\ n = data_remaining => left = 0
        /\ n = data_remaining => size > 0
    BY <1>0, <1>1, <1>6, <2>1, KeepsPrefix
  <2>3. pax_remaining' = left
    BY <1>6 DEF Takes, PassData
  <2>4. first \in Nat /\ tape.at[first - Block].kind = "pax"
        /\ first + Padded(size) = pos + data_remaining /\ Padded(size) \in Nat
    <3>1. first \in Nat
      BY TapeAssumption DEF IInv, TypeOK, IsTape
    <3>2. tape.at[first - Block].kind = "pax"
          /\ first + Padded(size) = pos + next_data + data_remaining
      BY <2>1 DEF PayloadFrom
    <3>3. Padded(size) \in Nat
      BY <2>2, PaddedBounds
    <3> QED
      BY <1>1, <3>1, <3>2, <3>3
  <2> HIDE DEF size, left, keep, body
  <2>5. CASE n < data_remaining
    <3>1. pax_body' = body /\ UNCHANGED <<pax_size, verdict>>
      BY <1>6, <2>5 DEF Takes, PassData, body, keep
    <3>2. body \subseteq Nat
      BY <2>2, <2>4
    <3>3. TypeOK'
      BY <1>1, <1>2, <2>2, <2>3, <3>1, <3>2 DEF IInv, TypeOK, headerVars
    <3>4. PayloadFrom(first)'
      BY <1>0, <1>1, <1>2, <2>2, <2>3, <2>4, <2>5, <3>1 DEF PayloadFrom, headerVars, size
    <3>5. PaxIsPrefix'
      BY <1>1, <3>4 DEF PaxIsPrefix
    <3> QED
      BY <1>3, <1>4, <3>3, <3>5 DEF IInv
  <2>6. CASE n = data_remaining
    <3>1. FinishPax(body)
      BY <1>6, <2>6 DEF Takes, PassData, body, keep
    <3>2. body = first .. first + size - 1 /\ size > 0
      BY <2>2, <2>4, <2>6
    <3>3. ParsePaxSize(tape, body) \in U64 \cup {NoSize, Bad}
      <4>1. size \in Nat \ {0} /\ size = tape.at[first - Block].size
        BY <2>2, <3>2 DEF size
      <4>2. /\ ParsePaxSize(tape, first .. first + size - 1) = tape.at[first - Block].pax
            /\ tape.at[first - Block].pax \in U64 \cup {NoSize, Bad}
        BY <2>4, <4>1, WholePaxParses
      <4> QED
        BY <3>2, <4>2
    <3>4. /\ pax_body' = NoBody
          /\ pax_size' \in U64 \cup {NoSize}
          /\ verdict' \in Verdicts
      BY <3>1, <3>3 DEF FinishPax, IInv, TypeOK, Verdicts
    <3>5. TypeOK'
      BY <1>1, <1>2, <2>2, <2>3, <3>4 DEF IInv, TypeOK, headerVars
    <3>6. PaxIsPrefix'
      BY <3>4 DEF PaxIsPrefix
    <3> QED
      BY <1>3, <1>4, <3>5, <3>6 DEF IInv
  <2> QED
    BY <1>0, <1>1, <2>5, <2>6
<1> QED
  BY <1>5, <1>6

(* With nothing held and nothing handed on of it, all of the tape read is  *)
(* handed on.                                                              *)
LEMMA NothingHeld ==
  ASSUME NEW p \in Nat, NEW f \in Nat, NEW e \in Nat, f = 0, e = 0
  PROVE  p = p - f + e
  OBVIOUS

LEMMA PassTrailerIInv ==
  ASSUME IInv, verdict = "none", NEW n \in 1 .. Chunk, PassTrailer(n)
  PROVE  IInv'
<1>0. n \in Nat /\ n > 0
  BY GuardAssumption
<1>1. /\ filled = 0 /\ emitted = 0 /\ next_trailer /\ trailer /\ pax_body = NoBody
      /\ pos' \in 0 .. tape.len /\ handed' = pos' /\ tape' = tape
  BY <1>0 DEF PassTrailer, IInv, TypeOK, IsTape, Accounting, SpentOnce
<1>2. UNCHANGED <<headerVars, data_remaining, trailer, paxVars, verdict>>
  BY DEF PassTrailer
<1>3. TypeOK'
  BY <1>1, <1>2 DEF IInv, TypeOK, headerVars, paxVars
<1>4. Accounting'
  <2>1. pos' \in Nat
    BY <1>1 DEF IInv, TypeOK, IsTape
  <2>2. filled' = 0 /\ emitted' = 0 /\ handed' = pos'
    BY <1>1, <1>2 DEF headerVars
  <2>3. filled' <= pos'
    BY <2>1, <2>2
  <2>4. handed' = pos' - filled' + emitted'
    <3>1. filled' \in Nat /\ filled' = 0 /\ emitted' \in Nat /\ emitted' = 0
      BY <2>2
    <3>2. pos' = pos' - filled' + emitted'
      BY <2>1, <3>1, NothingHeld, Zenon
    <3> QED
      BY <2>2, <3>2, Zenon
  <2>5. ~(emitted' > 0)
    BY <2>1, <2>2
  <2> QED
    BY <2>2, <2>3, <2>4, <2>5 DEF Accounting
<1>5. SpentOnce'
  BY <1>2 DEF IInv, SpentOnce, headerVars, paxVars
<1>6. PaxIsPrefix'
  BY <1>1, <1>2 DEF PaxIsPrefix, paxVars
<1> QED
  BY <1>3, <1>4, <1>5, <1>6 DEF IInv

LEMMA StutterIInv == IInv /\ UNCHANGED guardVars => IInv'
<1> SUFFICES ASSUME IInv, UNCHANGED guardVars PROVE IInv'
  OBVIOUS
<1> USE DEF IInv, guardVars, headerVars, paxVars
<1>1. TypeOK'
  BY DEF TypeOK
<1>2. Accounting'
  <2>1. Accounting /\ filled' = filled /\ emitted' = emitted /\ pos' = pos
        /\ handed' = handed /\ data_remaining' = data_remaining /\ trailer' = trailer
    OBVIOUS
  <2> QED
    BY <2>1 DEF Accounting
<1>3. SpentOnce'
  BY DEF SpentOnce
<1>4. PaxIsPrefix'
  BY DEF PaxIsPrefix, PayloadFrom
<1> QED
  BY <1>1, <1>2, <1>3, <1>4

LEMMA NextIInv == IInv /\ [GuardNext]_guardVars => IInv'
<1> SUFFICES ASSUME IInv, [GuardNext]_guardVars PROVE IInv'
  OBVIOUS
<1>1. CASE UNCHANGED guardVars
  BY <1>1, StutterIInv
<1>2. ASSUME verdict = "none", NEW k \in 1 .. Block, StallInHeader(k) PROVE IInv'
  BY <1>2, StallIInv
<1>3. CASE verdict = "none" /\ RefuseHeader
  BY <1>3, RefuseIInv
<1>4. ASSUME verdict = "none", NEW room \in 1 .. Chunk, Deliver(room) PROVE IInv'
  <2>1. CASE HandOnPart(room)
    BY <1>4, <2>1, HandOnPartIInv
  <2>2. CASE HandOnRest(room)
    BY <1>4, <2>2, HandOnRestIInv
  <2>3. ASSUME NEW n \in 1 .. room, PassData(n) \/ PassTrailer(n) PROVE IInv'
    <3>1. n \in 1 .. Chunk
      BY GuardAssumption
    <3> QED
      BY <1>4, <2>3, <3>1, PassDataIInv, PassTrailerIInv
  <2> QED
    BY <1>4, <2>1, <2>2, <2>3 DEF Deliver
<1> QED
  BY <1>1, <1>2, <1>3, <1>4 DEF GuardNext

(* The inductive invariant, from which the theorems below follow.          *)
LEMMA GuardInvariant == GuardSpec => []IInv
<1>1. GuardInit => IInv
  BY InitIInv
<1>2. IInv /\ [GuardNext]_guardVars => IInv'
  BY NextIInv
<1> QED
  BY <1>1, <1>2, PTL DEF GuardSpec

(* The fields of the guard keep their types.                               *)
THEOREM GuardTypeCorrect == GuardSpec => []TypeOK
<1>1. IInv => TypeOK
  BY DEF IInv
<1> QED
  BY <1>1, GuardInvariant, PTL

(* Every byte pulled from the source is in the header buffer or was handed *)
(* on, in order, for any cutting of the stream into polls.                 *)
THEOREM GuardAccounts == GuardSpec => []Accounting
<1>1. IInv => Accounting
  BY DEF IInv
<1> QED
  BY <1>1, GuardInvariant, PTL

(* A header is inspected once and its findings are spent with its last     *)
(* byte; nothing of it is left when its payload, or the trailer, begins.   *)
THEOREM GuardSpendsOnce == GuardSpec => []SpentOnce
<1>1. IInv => SpentOnce
  BY DEF IInv
<1> QED
  BY <1>1, GuardInvariant, PTL

(* What is kept of an 'x' record is a prefix of its payload, and all of it *)
(* when the record is over.                                                *)
THEOREM GuardKeepsPaxPrefix == GuardSpec => []PaxIsPrefix
<1>1. IInv => PaxIsPrefix
  BY DEF IInv
<1> QED
  BY <1>1, GuardInvariant, PTL


-----------------------------------------------------------------------------
(***************************************************************************)
(* HeaderGuard implements TarFraming: however the stream is cut into polls *)
(* the guard visits the headers a walk without cuts visits.                *)
(***************************************************************************)
FramingStep == [Framing!FramingNext]_(Framing!framingVars)

(* The operators of Tape mean the same to both.                            *)
LEMMA SameTape ==
  ASSUME NEW t, NEW o, NEW h, NEW pax
  PROVE  /\ Framing!ZeroBlock(t, o) <=> ZeroBlock(t, o)
         /\ Framing!Refusal(h, pax) = Refusal(h, pax)
         /\ Framing!PayloadSize(h, pax) = PayloadSize(h, pax)
         /\ Framing!NoSize = -1 /\ Framing!Bad = -2
         /\ Framing!Over = -1 /\ Framing!NoExt = -1
  BY DEF Framing!ZeroBlock, ZeroBlock, Framing!Refusal, Refusal,
         Framing!PayloadSize, PayloadSize, Framing!Oversize, Oversize,
         Framing!Unsized, Unsized, Framing!IsExtension, IsExtension,
         Framing!NoSize, NoSize, Framing!Bad, Bad, Framing!Over, Framing!NoExt

LEMMA SamePadded == ASSUME NEW n PROVE Framing!Padded(n) = Padded(n)
  BY DEF Framing!Padded, Padded

(* A step that the walk does not see.                                      *)
LEMMA Unseen ==
  ASSUME UNCHANGED <<tape, FramingAt, FramingPending, FramingExt, verdict>>
  PROVE  FramingStep
  BY DEF FramingStep, Framing!framingVars

LEMMA InitFraming == GuardInit => Framing!FramingInit
  BY DEF GuardInit, Framing!FramingInit, FramingAt, FramingPending, FramingExt,
         Ahead, NoBody, NoSize, Framing!NoSize, Framing!NoExt

-----------------------------------------------------------------------------
(* Where the walk is when a header is due and none of it is inspected.     *)
LEMMA WalkAtHeader ==
  ASSUME IInv, InHeader, emitted = 0, verdict = "none"
  PROVE  /\ FramingAt = HeaderStart
         /\ FramingPending = pax_size
         /\ FramingExt = -1
         /\ HeaderStart \in Nat
<1>1. pax_body = NoBody /\ next_data = 0 /\ ~next_trailer /\ data_remaining = 0
  BY Uninspected DEF InHeader
<1>2. filled \in Nat /\ pos \in Nat /\ filled <= pos
  BY DEF IInv, TypeOK, IsTape, Accounting
<1> QED
  BY <1>1, <1>2 DEF FramingAt, FramingPending, FramingExt, Ahead, HeaderStart

LEMMA StallFraming ==
  ASSUME IInv, verdict = "none", NEW k \in 1 .. Block, StallInHeader(k)
  PROVE  FramingStep
<1>1. emitted = 0 /\ InHeader
  BY TapeAssumption DEF StallInHeader, IInv, TypeOK, Accounting
<1>2. pax_body = NoBody /\ next_data = 0 /\ ~next_trailer /\ data_remaining = 0
  BY <1>1, Uninspected DEF InHeader
<1>3. /\ tape' = tape /\ verdict' = verdict /\ pax_body' = NoBody /\ pax_size' = pax_size
      /\ next_data' = 0 /\ data_remaining' = 0 /\ ~next_trailer' /\ emitted' = 0
  BY <1>1, <1>2 DEF StallInHeader, paxVars
<1>4. pos' - filled' = pos - filled /\ pos' \in Nat /\ filled' \in Nat
  BY TapeAssumption DEF StallInHeader, IInv, TypeOK, IsTape
<1>5. FramingAt' = FramingAt
  BY <1>1, <1>2, <1>3, <1>4 DEF FramingAt, Ahead
<1>6. UNCHANGED <<FramingPending, FramingExt>>
  BY <1>2, <1>3 DEF FramingPending, FramingExt
<1> QED
  BY <1>3, <1>5, <1>6, Unseen

LEMMA RefuseFraming ==
  ASSUME IInv, verdict = "none", RefuseHeader
  PROVE  FramingStep
<1>1. emitted = 0 /\ InHeader /\ ~IsZero /\ HeaderStart + Block <= tape.len
  BY DEF RefuseHeader, Opens
<1>2. /\ FramingAt = HeaderStart /\ FramingPending = pax_size /\ FramingExt = -1
      /\ HeaderStart \in Nat
  BY <1>1, WalkAtHeader
<1>3. next_data = 0 /\ ~next_trailer /\ data_remaining = 0
  BY <1>1, Uninspected DEF InHeader
<1>4. /\ tape' = tape /\ next_data' = 0 /\ ~next_trailer' /\ data_remaining' = 0
      /\ pos' = HeaderStart + Block /\ filled' = Block /\ emitted' = 0
      /\ verdict' = Refusal(TheHeader, pax_size) /\ verdict' # "none"
  BY <1>1, <1>3 DEF RefuseHeader
<1>5. FramingAt' = HeaderStart
  BY <1>2, <1>4, TapeAssumption DEF FramingAt, Ahead
<1>6. FramingPending' = -1 /\ FramingExt' = -1
  BY <1>4 DEF FramingPending, FramingExt, NoSize
<1>7. Framing!Refuse
  BY <1>1, <1>2, <1>4, <1>5, <1>6, SameTape
     DEF Framing!Refuse, Framing!Visitable, Framing!Fail, IsZero, TheHeader
<1> QED
  BY <1>7 DEF FramingStep, Framing!FramingNext

LEMMA PassTrailerFraming ==
  ASSUME IInv, verdict = "none", NEW n \in 1 .. Chunk, PassTrailer(n)
  PROVE  FramingStep
<1>1. next_trailer /\ pax_body = NoBody
  BY DEF PassTrailer, IInv, SpentOnce
<1>2. UNCHANGED <<tape, headerVars, data_remaining, paxVars, verdict>>
  BY DEF PassTrailer
<1>3. UNCHANGED <<FramingAt, FramingPending, FramingExt>>
  BY <1>1, <1>2 DEF FramingAt, FramingPending, FramingExt, Ahead, headerVars, paxVars
<1> QED
  BY <1>2, <1>3, Unseen

(* A header is seen by the walk in the poll that inspects it, when the     *)
(* fields that stand for the walk become what inspect found.               *)
LEMMA HeaderSeen ==
  ASSUME IInv, HeaderReady, emitted = 0, verdict = "none",
         UNCHANGED <<tape, verdict>>,
         FramingAt' = IF IsZero THEN -1 ELSE HeaderStart + Block + NextData,
         FramingPending' = IF OpenedBody # NoBody /\ NextData = 0 THEN NoSize ELSE TakenSize,
         FramingExt' = IF OpenedBody = NoBody \/ NextData = 0 THEN -1 ELSE HeaderStart
  PROVE  FramingStep
<1>1. /\ FramingAt = HeaderStart /\ FramingPending = pax_size /\ FramingExt = -1
      /\ HeaderStart \in Nat /\ HeaderStart + Block <= tape.len
  BY WalkAtHeader DEF HeaderReady
<1>2. Framing!Visitable
  BY <1>1, SameTape DEF Framing!Visitable
<1>3. CASE IsZero
  <2>1. OpenedBody = NoBody /\ TakenSize = pax_size
    BY <1>3, InspectedNow
  <2>2. FramingAt' = -1 /\ FramingPending' = pax_size /\ FramingExt' = -1
    BY <1>3, <2>1
  <2>3. Framing!End
    BY <1>1, <1>2, <1>3, <2>2, SameTape DEF Framing!End, IsZero
  <2> QED
    BY <2>3 DEF FramingStep, Framing!FramingNext
<1>4. CASE ~IsZero
  <2>1. /\ NextData = Padded(PayloadSize(TheHeader, pax_size))
        /\ TheHeader.size \in Nat
        /\ TheHeader.kind = "entry" => OpenedBody = NoBody /\ TakenSize = NoSize
        /\ TheHeader.kind = "long" => OpenedBody = NoBody /\ TakenSize = pax_size
        /\ TheHeader.kind = "pax" =>
             /\ OpenedBody = {} /\ TakenSize = pax_size /\ NextData = Padded(TheHeader.size)
        /\ TheHeader.kind \in {"entry", "long", "pax"}
    BY <1>4, InspectedNow
  <2>2. Refusal(TheHeader, pax_size) = "none"
    BY <1>4 DEF HeaderReady, Opens
  <2>3. TheHeader = tape.at[FramingAt]
    BY <1>1 DEF TheHeader
  <2>4. FramingAt' = FramingAt + Block
                     + Framing!Padded(Framing!PayloadSize(TheHeader, FramingPending))
    BY <1>1, <1>4, <2>1, SameTape, SamePadded
  <2>5. \/ /\ TheHeader.kind = "entry"
           /\ FramingPending' = -1 /\ FramingExt' = -1
        \/ /\ TheHeader.kind = "long"
           /\ FramingPending' = FramingPending /\ FramingExt' = FramingExt
        \/ /\ TheHeader.kind = "pax" /\ TheHeader.size = 0
           /\ FramingPending' = -1 /\ FramingExt' = -1
        \/ /\ TheHeader.kind = "pax" /\ TheHeader.size > 0
           /\ FramingPending' = FramingPending /\ FramingExt' = FramingAt
    <3>1. CASE TheHeader.kind = "entry"
      BY <2>1, <3>1 DEF NoSize
    <3>2. CASE TheHeader.kind = "long"
      BY <1>1, <2>1, <3>2
    <3>3. CASE TheHeader.kind = "pax" /\ TheHeader.size = 0
      <4>1. NextData = 0 /\ OpenedBody # NoBody
        BY <2>1, <3>3, PaddedBounds DEF NoBody
      <4> QED
        BY <3>3, <4>1 DEF NoSize
    <3>4. CASE TheHeader.kind = "pax" /\ TheHeader.size > 0
      <4>1. NextData # 0 /\ OpenedBody # NoBody
        BY <2>1, <3>4, PaddedBounds DEF NoBody
      <4> QED
        BY <1>1, <2>1, <3>4, <4>1
    <3> QED
      BY <2>1, <3>1, <3>2, <3>3, <3>4
  <2>6. Framing!Visit
    BY <1>1, <1>2, <1>4, <2>2, <2>3, <2>4, <2>5, SameTape DEF Framing!Visit, IsZero
  <2> QED
    BY <2>6 DEF FramingStep, Framing!FramingNext
<1> QED
  BY <1>3, <1>4
-----------------------------------------------------------------------------
(* The fields that later polls of the same header leave as they are.       *)
LEMMA InspectedBefore ==
  ASSUME IInv, HeaderReady, emitted > 0
  PROVE  /\ NextData = next_data /\ (NextTrailer <=> next_trailer)
         /\ OpenedBody = pax_body /\ TakenSize = pax_size
         /\ HeaderStart + Block = pos /\ data_remaining = 0
<1>1. ~Opens /\ emitted # 0
  BY DEF Opens, IInv, TypeOK
<1>2. InHeader /\ HeaderStart + Block <= tape.len
  BY DEF HeaderReady
<1>3. HeaderStart + Block = pos
  BY <1>2, HeaderPlace
<1> QED
  BY <1>1, <1>2, <1>3 DEF NextData, NextTrailer, OpenedBody, TakenSize, InHeader

LEMMA HandOnPartFraming ==
  ASSUME IInv, verdict = "none", NEW room \in 1 .. Chunk, HandOnPart(room)
  PROVE  FramingStep
<1>1. HeaderReady /\ data_remaining = 0 /\ HeaderStart + Block <= tape.len
  BY DEF HandOnPart, HeaderReady, InHeader
<1>2. HeaderStart \in Nat /\ NextData \in Nat /\ Block \in Nat \ {0} /\ emitted \in Nat
  BY <1>1, HeaderPlace, InspectedType, TapeAssumption DEF HeaderReady, IInv, TypeOK
<1>3. emitted' > 0
  BY <1>2, GuardAssumption DEF HandOnPart
<1>4. /\ tape' = tape /\ verdict' = verdict /\ data_remaining' = 0
      /\ pos' = HeaderStart + Block /\ next_data' = NextData
      /\ next_trailer' = NextTrailer /\ pax_body' = OpenedBody /\ pax_size' = TakenSize
  BY <1>1 DEF HandOnPart
<1>5. CASE emitted = 0
  <2>1. /\ NextTrailer <=> IsZero
        /\ OpenedBody # NoBody => OpenedBody = {}
    BY <1>1, <1>5, InspectedNow
  <2>2. FramingAt' = IF IsZero THEN -1 ELSE HeaderStart + Block + NextData
    BY <1>2, <1>3, <1>4, <2>1 DEF FramingAt, Ahead
  <2>3. FramingPending' = IF OpenedBody # NoBody /\ NextData = 0 THEN NoSize ELSE TakenSize
    BY <1>2, <1>4 DEF FramingPending, Ahead
  <2>4. FramingExt' = IF OpenedBody = NoBody \/ NextData = 0 THEN -1 ELSE HeaderStart
    BY <1>2, <1>4, <2>1 DEF FramingExt, Ahead
  <2> QED
    BY <1>1, <1>4, <1>5, <2>2, <2>3, <2>4, HeaderSeen
<1>6. CASE emitted > 0
  <2>1. /\ NextData = next_data /\ (NextTrailer <=> next_trailer)
        /\ OpenedBody = pax_body /\ TakenSize = pax_size /\ HeaderStart + Block = pos
    BY <1>1, <1>6, InspectedBefore
  <2>2. /\ pos' = pos /\ next_data' = next_data /\ data_remaining' = data_remaining
        /\ (next_trailer' <=> next_trailer) /\ pax_body' = pax_body /\ pax_size' = pax_size
    BY <1>1, <1>4, <2>1
  <2>3. UNCHANGED <<FramingAt, FramingPending, FramingExt>>
    BY <1>3, <1>4, <1>6, <2>2 DEF FramingAt, FramingPending, FramingExt, Ahead
  <2> QED
    BY <1>4, <2>3, Unseen
<1> QED
  BY <1>2, <1>5, <1>6

LEMMA HandOnRestFraming ==
  ASSUME IInv, verdict = "none", NEW room \in 1 .. Chunk, HandOnRest(room)
  PROVE  FramingStep
<1>1. HeaderReady /\ data_remaining = 0 /\ HeaderStart + Block <= tape.len
  BY DEF HandOnRest, HeaderReady, InHeader
<1>2. HeaderStart \in Nat /\ NextData \in Nat /\ Block \in Nat \ {0} /\ emitted \in Nat
  BY <1>1, HeaderPlace, InspectedType, TapeAssumption DEF HeaderReady, IInv, TypeOK
<1>3. /\ tape' = tape /\ data_remaining' = NextData /\ emitted' = 0 /\ filled' = 0
      /\ pos' = HeaderStart + Block /\ next_data' = 0 /\ next_trailer' = NextTrailer
  BY <1>1 DEF HandOnRest
<1>4. /\ verdict' = verdict
      /\ \/ /\ NextData = 0 /\ OpenedBody # NoBody
            /\ pax_body' = NoBody /\ pax_size' = NoSize
         \/ /\ ~(NextData = 0 /\ OpenedBody # NoBody)
            /\ pax_body' = OpenedBody /\ pax_size' = TakenSize
  <2>1. CASE NextData = 0 /\ OpenedBody # NoBody
    <3>1. FinishPax({})
      BY <1>1, <2>1, OpenedIsEmpty DEF HandOnRest
    <3> QED
      BY <2>1, <3>1, EmptyPax
  <2>2. CASE ~(NextData = 0 /\ OpenedBody # NoBody)
    BY <2>2 DEF HandOnRest
  <2> QED
    BY <2>1, <2>2
<1>5. FramingAt' = IF NextTrailer THEN -1 ELSE HeaderStart + Block + NextData
  BY <1>2, <1>3 DEF FramingAt, Ahead
<1>6. FramingPending' = IF OpenedBody # NoBody /\ NextData = 0 THEN NoSize ELSE TakenSize
  BY <1>2, <1>3, <1>4 DEF FramingPending, Ahead
<1>7. OpenedBody = {} =>
        FramingExt' = IF NextData = 0 THEN -1 ELSE HeaderStart
  BY <1>2, <1>3, <1>4 DEF FramingExt, Ahead, NoBody
<1>8. OpenedBody = NoBody \/ NextData = 0 => FramingExt' = -1
  BY <1>2, <1>3, <1>4 DEF FramingExt, Ahead
<1>9. CASE emitted = 0
  <2>1. /\ NextTrailer <=> IsZero
        /\ OpenedBody # NoBody => OpenedBody = {}
    BY <1>1, <1>9, InspectedNow
  <2>2. FramingExt' = IF OpenedBody = NoBody \/ NextData = 0 THEN -1 ELSE HeaderStart
    BY <1>7, <1>8, <2>1
  <2> QED
    BY <1>1, <1>3, <1>4, <1>5, <1>6, <1>9, <2>1, <2>2, HeaderSeen
<1>10. CASE emitted > 0
  <2>1. /\ NextData = next_data /\ (NextTrailer <=> next_trailer)
        /\ OpenedBody = pax_body /\ TakenSize = pax_size /\ HeaderStart + Block = pos
    BY <1>1, <1>10, InspectedBefore
  <2>2. pax_body = NoBody \/ pax_body = {}
    <3>1. CASE pax_body # NoBody
      <4>1. PICK first \in Block .. tape.len : PayloadFrom(first)
        BY <3>1 DEF IInv, PaxIsPrefix
      <4> QED
        BY <1>1, <4>1, TapeAssumption DEF PayloadFrom, IInv, TypeOK, IsTape
    <3> QED
      BY <3>1
  <2>3. Ahead = NextData
    BY <1>1, <1>2, <2>1 DEF Ahead
  <2>4. FramingAt' = FramingAt
    BY <1>2, <1>5, <1>10, <2>1, <2>3 DEF FramingAt
  <2>5. FramingPending' = FramingPending
    BY <1>6, <2>1, <2>3 DEF FramingPending
  <2>6. FramingExt' = FramingExt
    BY <1>2, <1>7, <1>8, <2>1, <2>2, <2>3 DEF FramingExt
  <2> QED
    BY <1>3, <1>4, <2>4, <2>5, <2>6, Unseen
<1> QED
  BY <1>2, <1>9, <1>10
-----------------------------------------------------------------------------
(* Where the walk is while payload passes.                                 *)
LEMMA WalkAtPayload ==
  ASSUME IInv, verdict = "none", data_remaining > 0, ~trailer
  PROVE  /\ filled = 0 /\ emitted = 0 /\ next_data = 0 /\ ~next_trailer
         /\ pos \in Nat /\ data_remaining \in Nat
         /\ Ahead = data_remaining
         /\ FramingAt = pos + data_remaining
         /\ FramingPending = pax_size
<1>1. /\ filled = 0 /\ emitted = 0 /\ next_data = 0 /\ ~next_trailer
      /\ pos \in Nat /\ data_remaining \in Nat
  BY DEF IInv, TypeOK, IsTape, Accounting, SpentOnce
<1> QED
  BY <1>1 DEF FramingAt, FramingPending, Ahead

LEMMA ExtIsFirst ==
  ASSUME IInv, verdict = "none", data_remaining > 0, ~trailer, pax_body # NoBody,
         NEW first \in Block .. tape.len, PayloadFrom(first)
  PROVE  /\ FramingExt = first - Block
         /\ first \in Nat /\ first - Block \in Nat
         /\ first <= pos
<1> DEFINE size == tape.at[first - Block].size
           kept == size - pax_remaining
<1>1. pos \in Nat /\ data_remaining \in Nat /\ next_data = 0 /\ Ahead = data_remaining
  BY WalkAtPayload
<1>2. /\ size \in Nat /\ pax_remaining \in Nat /\ pax_remaining <= size
      /\ pax_body = first .. first + kept - 1 /\ first + kept <= pos
      /\ pax_remaining > 0 => pos = first + kept
      /\ first + Padded(size) = pos + next_data + data_remaining
  BY DEF PayloadFrom, IInv, TypeOK
<1>3. first \in Nat /\ first - Block \in Nat
  BY TapeAssumption DEF IInv, TypeOK, IsTape
<1>4. kept \in Nat
  BY <1>2
<1>5. size > 0
  <2>1. CASE size = 0
    <3>1. Padded(size) = 0 /\ kept = 0
      BY <1>2, <2>1, PaddedBounds
    <3> QED
      BY <1>1, <1>2, <1>3, <3>1
  <2> QED
    BY <1>2, <2>1
<1> HIDE DEF size
<1>6. CASE kept = 0
  <2>1. pax_remaining > 0
    BY <1>2, <1>5, <1>6
  <2>2. pax_body = {} /\ pos = first
    BY <1>2, <1>3, <1>6, <2>1
  <2> QED
    BY <1>1, <1>3, <2>2 DEF FramingExt, NoBody
<1>7. CASE kept > 0
  <2>1. first + kept - 1 \in Nat /\ first <= first + kept - 1
    BY <1>3, <1>4, <1>7
  <2>2. First(pax_body) = first
    BY <1>2, <1>3, <2>1, FirstOfInterval
  <2>3. first \in pax_body
    BY <1>2, <1>3, <2>1
  <2>4. FramingExt = first - Block
    BY <1>1, <2>2, <2>3 DEF FramingExt
  <2> QED
    BY <1>1, <1>2, <1>3, <1>4, <2>4
<1> QED
  BY <1>4, <1>6, <1>7

LEMMA PassDataFraming ==
  ASSUME IInv, verdict = "none", NEW n \in 1 .. Chunk, PassData(n)
  PROVE  FramingStep
<1>0. n \in Nat \ {0}
  BY GuardAssumption
<1>1. /\ data_remaining > 0 /\ ~trailer /\ n <= data_remaining /\ pos + n <= tape.len
      /\ data_remaining' = data_remaining - n /\ pos' = pos + n /\ tape' = tape
      /\ UNCHANGED headerVars
  BY <1>0 DEF PassData, Takes, IInv, TypeOK
<1>2. /\ filled = 0 /\ emitted = 0 /\ next_data = 0 /\ ~next_trailer
      /\ pos \in Nat /\ data_remaining \in Nat
      /\ Ahead = data_remaining
      /\ FramingAt = pos + data_remaining
      /\ FramingPending = pax_size
  BY <1>1, WalkAtPayload
<1>3. Ahead' = data_remaining - n
  BY <1>0, <1>1, <1>2 DEF Ahead, headerVars
<1>4. FramingAt' = FramingAt
  BY <1>0, <1>1, <1>2, <1>3 DEF FramingAt, headerVars
<1>5. CASE pax_body = NoBody
  <2>1. UNCHANGED <<paxVars, verdict>>
    BY <1>5 DEF PassData
  <2>2. FramingPending' = FramingPending /\ FramingExt' = FramingExt
    BY <1>5, <2>1 DEF FramingPending, FramingExt, paxVars
  <2> QED
    BY <1>1, <1>4, <2>1, <2>2, Unseen
<1>6. CASE pax_body # NoBody
  <2> DEFINE keep == Least(n, pax_remaining)
             body == pax_body \cup (pos .. pos + keep - 1)
  <2>1. PICK first \in Block .. tape.len : PayloadFrom(first)
    BY <1>6 DEF IInv, PaxIsPrefix
  <2> DEFINE size == tape.at[first - Block].size
             left == pax_remaining - keep
  <2>2. /\ size \in Nat /\ left \in Nat /\ left <= size
        /\ body = first .. first + (size - left) - 1
        /\ left > 0 => pos + n = first + (size - left)
        /\ n = data_remaining => left = 0
        /\ n = data_remaining => size > 0
    BY <1>0, <1>1, <1>6, <2>1, KeepsPrefix
  <2>3. FramingExt = first - Block /\ first \in Nat /\ first - Block \in Nat /\ first <= pos
    BY <1>1, <1>6, <2>1, ExtIsFirst
  <2>4. tape.at[first - Block].kind = "pax"
        /\ first + Padded(size) = pos + data_remaining
    BY <1>2, <2>1 DEF PayloadFrom
  <2>5. size > 0
    <3>1. size = 0 => Padded(size) = 0
      BY PaddedBounds
    <3> QED
      BY <1>1, <1>2, <2>2, <2>3, <2>4, <3>1
  <2> HIDE DEF size, left, keep, body
  <2>6. CASE n < data_remaining
    <3>1. pax_body' = body /\ UNCHANGED <<pax_size, verdict>>
      BY <1>6, <2>6 DEF Takes, PassData, body, keep
    <3>2. Ahead' # 0
      BY <1>0, <1>2, <1>3, <2>6
    <3>3. size - left > 0
      BY <1>0, <1>2, <2>2, <2>3, <2>5
    <3>4. First(body) = first /\ first \in body
      <4>1. first + (size - left) - 1 \in Nat /\ first <= first + (size - left) - 1
        BY <2>2, <2>3, <3>3
      <4> QED
        BY <2>2, <2>3, <4>1, FirstOfInterval
    <3>5. body # NoBody
      BY <2>3, <3>4 DEF NoBody
    <3>6. FramingExt' = first - Block
      BY <3>1, <3>2, <3>4, <3>5 DEF FramingExt
    <3>7. FramingPending' = pax_size
      BY <3>1, <3>2 DEF FramingPending
    <3> QED
      BY <1>1, <1>2, <1>4, <2>3, <3>1, <3>6, <3>7, Unseen
  <2>7. CASE n = data_remaining
    <3>1. FinishPax(body)
      BY <1>6, <2>7 DEF Takes, PassData, body, keep
    <3>2. body = first .. first + size - 1 /\ first - Block # -1
      BY <2>2, <2>3, <2>7
    <3>3. ParsePaxSize(tape, body) = tape.at[first - Block].pax
      BY <2>2, <2>4, <2>5, <3>2, WholePaxParses DEF size
    <3>4. pax_body' = NoBody
      BY <3>1 DEF FinishPax
    <3>5. FramingExt' = -1
      BY <3>4 DEF FramingExt
    <3>6. FramingAt <= tape.len
      BY <1>1, <1>2, <2>7
    <3>7. Framing!Absorb
      <4>1. CASE tape.at[first - Block].pax = Bad
        <5>1. verdict' = "malformed"
          BY <3>1, <3>3, <4>1 DEF FinishPax
        <5>2. FramingPending' = -1
          BY <5>1 DEF FramingPending, NoSize
        <5> QED
          BY <1>1, <1>4, <2>3, <3>2, <3>5, <3>6, <4>1, <5>1, <5>2, SameTape
             DEF Framing!Absorb, Framing!Fail, Bad
      <4>2. CASE tape.at[first - Block].pax # Bad
        <5>1. verdict' = verdict /\ pax_size' = tape.at[first - Block].pax
          BY <3>1, <3>3, <4>2 DEF FinishPax
        <5>2. FramingPending' = pax_size'
          BY <3>4, <5>1 DEF FramingPending
        <5> QED
          BY <1>1, <1>4, <2>3, <3>2, <3>5, <3>6, <4>2, <5>1, <5>2, SameTape
             DEF Framing!Absorb, Bad
      <4> QED
        BY <4>1, <4>2
    <3> QED
      BY <3>7 DEF FramingStep, Framing!FramingNext
  <2> QED
    BY <1>0, <1>1, <1>2, <2>6, <2>7
<1> QED
  BY <1>5, <1>6

-----------------------------------------------------------------------------
LEMMA StutterFraming == UNCHANGED guardVars => FramingStep
<1> SUFFICES ASSUME UNCHANGED guardVars PROVE FramingStep
  OBVIOUS
<1>1. UNCHANGED <<FramingAt, FramingPending, FramingExt>>
  BY DEF FramingAt, FramingPending, FramingExt, Ahead, guardVars, headerVars, paxVars
<1> QED
  BY <1>1, Unseen DEF guardVars

LEMMA NextFraming == IInv /\ [GuardNext]_guardVars => FramingStep
<1> SUFFICES ASSUME IInv, [GuardNext]_guardVars PROVE FramingStep
  OBVIOUS
<1>1. CASE UNCHANGED guardVars
  BY <1>1, StutterFraming
<1>2. ASSUME verdict = "none", NEW k \in 1 .. Block, StallInHeader(k) PROVE FramingStep
  BY <1>2, StallFraming
<1>3. CASE verdict = "none" /\ RefuseHeader
  BY <1>3, RefuseFraming
<1>4. ASSUME verdict = "none", NEW room \in 1 .. Chunk, HandOnPart(room) PROVE FramingStep
  BY <1>4, HandOnPartFraming
<1>5. ASSUME verdict = "none", NEW room \in 1 .. Chunk, HandOnRest(room) PROVE FramingStep
  BY <1>5, HandOnRestFraming
<1>6. ASSUME verdict = "none", NEW room \in 1 .. Chunk, NEW n \in 1 .. room, PassData(n)
      PROVE  FramingStep
  <2>1. n \in 1 .. Chunk
    BY GuardAssumption
  <2> QED
    BY <1>6, <2>1, PassDataFraming
<1>7. ASSUME verdict = "none", NEW room \in 1 .. Chunk, NEW n \in 1 .. room, PassTrailer(n)
      PROVE  FramingStep
  <2>1. n \in 1 .. Chunk
    BY GuardAssumption
  <2> QED
    BY <1>7, <2>1, PassTrailerFraming
<1> QED
  BY <1>1, <1>2, <1>3, <1>4, <1>5, <1>6, <1>7 DEF GuardNext, Deliver

(* Whatever the lengths of the polls, the guard takes the steps of a walk  *)
(* that visits each header where the payload before it ends: the same      *)
(* sizes for the same members, and a refusal for the same reason           *)
(* (HeaderGuard::poll_read, guard.rs:96-157).                              *)
THEOREM GuardImplementsFraming == GuardSpec => FollowsFraming
<1>1. GuardInit => Framing!FramingInit
  BY InitFraming
<1>2. IInv /\ [GuardNext]_guardVars => FramingStep
  BY NextFraming
<1> QED
  BY <1>1, <1>2, GuardInvariant, PTL
     DEF GuardSpec, FollowsFraming, Framing!FramingSpec, FramingStep

-----------------------------------------------------------------------------
(* The parser on top of the guard.                                         *)
TheFirst == tape.at[start]
Padding  == Padded(PayloadSize(TheFirst, override))

(* What the walk has pending and open behind the header at start, once it  *)
(* is visited: that of an 'x' record may be absorbed already.              *)
Settled ==
  \/ TheFirst.kind = "entry" /\ FramingPending = NoSize /\ FramingExt = -1
  \/ TheFirst.kind = "long" /\ FramingPending = override /\ FramingExt = -1
  \/ TheFirst.kind = "pax" /\ TheFirst.size = 0 /\ FramingPending = NoSize /\ FramingExt = -1
  \/ TheFirst.kind = "pax" /\ FramingExt = start
  \/ TheFirst.kind = "pax" /\ FramingPending = TheFirst.pax /\ FramingExt = -1

(* The walk is where the parser is, with its header not yet visited.       *)
Due ==
  /\ emitted = 0 /\ data_remaining = 0 /\ ~trailer
  /\ FramingAt = start /\ FramingPending = override /\ FramingExt = -1

Visited ==
  IF ZeroBlock(tape, start) THEN next_trailer
  ELSE /\ ~next_trailer
       /\ Refusal(TheFirst, override) = "none"
       /\ FramingAt = start + Block + Padding
       /\ Settled

AtHeader ==
  /\ limit = start + Block /\ next = limit
  /\ start <= handed /\ handed <= limit
  /\ IF handed = start THEN Due ELSE Visited
  /\ IF handed < limit
     THEN emitted = handed - start /\ data_remaining = 0 /\ ~trailer
     ELSE emitted = 0 /\ filled = 0

(* Between two headers the walk waits at the next one.                     *)
Between ==
  /\ start + Block <= handed /\ handed <= limit /\ limit <= next
  /\ emitted = 0 /\ ~next_trailer
  /\ FramingAt = next

AtExtension ==
  /\ Between
  /\ IsExtension(TheFirst) /\ TheFirst.size \in Nat
  /\ limit = start + Block + TheFirst.size
  /\ limit - start - Block <= MaxMetadata
  /\ Settled

AtMember == Between /\ override = NoSize /\ FramingPending = NoSize /\ FramingExt = -1

(* The stream may have ended inside the record: then nobody gets to next.  *)
AtSeek ==
  /\ Between
  /\ \/ pos = tape.len /\ handed < next
     \/ FramingPending = override /\ FramingExt = -1
     \/ TheFirst.kind = "pax" /\ override = TheFirst.pax /\ FramingExt = start

(* The invariant that is inductive.                                        *)
PInv ==
  /\ IInv
  /\ tape \in Tapes
  /\ phase \in Phases \ {"unguarded"}
  /\ phase \in Reading => verdict = "none"
  /\ {start, limit, next} \subseteq Nat
  /\ override \in U64 \cup {NoSize}
  /\ phase = "header" => AtHeader
  /\ phase = "extension" => AtExtension
  /\ phase = "member" => AtMember
  /\ phase = "seek" => AtSeek

-----------------------------------------------------------------------------
LEMMA Numbers ==
  ASSUME PInv
  PROVE  /\ Block \in Nat \ {0} /\ Chunk \in Nat \ {0} /\ MaxMetadata \in Nat
         /\ start \in Nat /\ limit \in Nat /\ next \in Nat
         /\ override \in U64 \cup {NoSize}
         /\ tape.len \in Nat /\ pos \in Nat /\ pos <= tape.len
         /\ handed \in Nat /\ handed <= tape.len
         /\ filled \in Nat /\ emitted \in Nat /\ emitted < Block /\ filled <= Block
         /\ data_remaining \in Nat /\ next_data \in Nat
         /\ filled <= pos /\ handed = pos - filled + emitted
BY TapeAssumption, GuardAssumption DEF PInv, IInv, TypeOK, IsTape, Accounting, U64

(* Where the bytes of the walk lie: what remains of a payload is what is   *)
(* missing to the next header.                                             *)
LEMMA WalkDistance ==
  ASSUME IInv, ~next_trailer
  PROVE  /\ emitted = 0 => FramingAt = handed + data_remaining
         /\ data_remaining > 0 => filled = 0 /\ emitted = 0
<1>1. /\ pos \in Nat /\ filled \in Nat /\ emitted \in Nat /\ next_data \in Nat
      /\ data_remaining \in Nat
  BY DEF IInv, TypeOK, IsTape
<1>2. handed = pos - filled + emitted /\ (data_remaining > 0 => filled = 0)
  BY DEF IInv, Accounting
<1>3. emitted = 0 => next_data = 0
  BY DEF IInv, SpentOnce
<1>4. data_remaining > 0 => emitted = 0
  BY DEF IInv, SpentOnce
<1>5. emitted = 0 => FramingAt = handed + data_remaining
  BY <1>1, <1>2, <1>3 DEF FramingAt, Ahead
<1> QED
  BY <1>2, <1>4, <1>5

(* Nothing is open where the payload is over.                              *)
LEMMA NothingOpen ==
  ASSUME IInv, emitted = 0, data_remaining = 0
  PROVE  FramingExt = -1
<1>1. next_data = 0
  BY DEF IInv, SpentOnce
<1> QED
  BY <1>1 DEF FramingExt, Ahead

LEMMA HeaderAtStart ==
  ASSUME PInv, phase = "header", handed < limit
  PROVE  HeaderStart = start /\ TheHeader = TheFirst /\ (IsZero <=> ZeroBlock(tape, start))
         /\ InHeader /\ verdict = "none"
<1>1. emitted = handed - start /\ data_remaining = 0 /\ ~trailer /\ verdict = "none"
  BY DEF PInv, AtHeader, Reading
<1>2. HeaderStart = start
  BY <1>1, Numbers DEF HeaderStart
<1> QED
  BY <1>1, <1>2 DEF TheHeader, TheFirst, IsZero, InHeader

-----------------------------------------------------------------------------
(* A poll.                                                                 *)
LEMMA PollIsGuardStep ==
  ASSUME PInv, phase \in Reading, NEW room \in 1 .. Room, Deliver(room)
  PROVE  GuardNext /\ room \in 1 .. Chunk /\ IInv' /\ FramingStep /\ verdict = "none"
         /\ (phase # "verify" => room <= limit - handed)
<1>1. room \in 1 .. Chunk /\ (phase # "verify" => room <= limit - handed)
  BY Numbers DEF Room, Least
<1>2. verdict = "none"
  BY DEF PInv
<1>3. GuardNext
  BY <1>1, <1>2 DEF GuardNext
<1> QED
  BY <1>1, <1>2, <1>3, NextIInv, NextFraming DEF PInv

(* A visit moves the walk.                                                 *)
LEMMA VisitMoves ==
  ASSUME IInv, Framing!Visit, FramingAt \in Nat
  PROVE  FramingAt' > FramingAt
<1> DEFINE h == tape.at[FramingAt]
<1>1. Block \in Nat \ {0} /\ tape.len \in Nat
  BY TapeAssumption DEF IInv, TypeOK, IsTape
<1>2. /\ FramingAt + Block <= tape.len /\ Refusal(h, FramingPending) = "none"
      /\ FramingAt' = FramingAt + Block + Padded(PayloadSize(h, FramingPending))
  BY SameTape, SamePadded DEF Framing!Visit, Framing!Visitable
<1>3. h \in Header
  BY <1>1, <1>2 DEF IInv, TypeOK, IsTape
<1>4. FramingPending \in U64 \cup {NoSize}
  BY DEF FramingPending, IInv, TypeOK
<1>5. PayloadSize(h, FramingPending) \in Nat
  BY <1>2, <1>3, <1>4, AcceptedHeader
<1>6. Padded(PayloadSize(h, FramingPending)) \in Nat
  BY <1>5, PaddedBounds
<1> QED
  BY <1>1, <1>2, <1>6

(* A walk that stays in place and is not refused absorbs an open record,   *)
(* or does nothing.                                                        *)
LEMMA WalkStays ==
  ASSUME IInv, FramingStep, verdict' = "none", FramingAt' = FramingAt, FramingAt \in Nat
  PROVE  \/ FramingPending' = FramingPending /\ FramingExt' = FramingExt
         \/ /\ FramingExt # -1 /\ FramingExt' = -1
            /\ FramingPending' = tape.at[FramingExt].pax
<1>1. ~Framing!End
  BY SameTape DEF Framing!End
<1>2. ~Framing!Refuse
  BY SameTape DEF Framing!Refuse, Framing!Fail
<1>3. ~Framing!Visit
  BY VisitMoves
<1>4. CASE Framing!Absorb
  BY <1>4, SameTape DEF Framing!Absorb, Framing!Fail
<1> QED
  BY <1>1, <1>2, <1>3, <1>4 DEF FramingStep, Framing!FramingNext, Framing!framingVars

(* One that moves ahead has visited a header.                              *)
LEMMA WalkMoves ==
  ASSUME FramingStep, FramingAt' > FramingAt, FramingAt \in Nat, FramingExt = -1
  PROVE  Framing!Visit
<1>1. ~Framing!End /\ ~Framing!Refuse
  BY SameTape DEF Framing!End, Framing!Refuse, Framing!Fail
<1>2. ~Framing!Absorb
  BY SameTape DEF Framing!Absorb
<1> QED
  BY <1>1, <1>2 DEF FramingStep, Framing!FramingNext, Framing!framingVars

(* The poll that inspects the header.                                      *)
LEMMA FirstPollVisits ==
  ASSUME PInv, phase = "header", handed = start, HeaderReady, FramingStep, UNCHANGED <<tape, parserVars>>,
         NextTrailer => next_trailer',
         ~NextTrailer => ~next_trailer' /\ FramingAt' = HeaderStart + Block + NextData
  PROVE  Visited'
<1>1. Due /\ handed < limit
  BY Numbers DEF PInv, AtHeader
<1>2. HeaderStart = start /\ TheHeader = TheFirst /\ (IsZero <=> ZeroBlock(tape, start))
      /\ verdict = "none"
  BY <1>1, HeaderAtStart
<1>3. IInv /\ emitted = 0
  BY <1>1 DEF PInv, Due
<1>4. CASE IsZero
  <2>1. NextTrailer
    BY <1>2, <1>3, <1>4, InspectedNow
  <2> QED
    BY <1>2, <1>4, <2>1 DEF Visited, ZeroBlock, parserVars
<1>5. CASE ~IsZero
  <2>1. ~NextTrailer /\ NextData = Padded(PayloadSize(TheHeader, pax_size)) /\ NextData \in Nat
    BY <1>2, <1>3, <1>5, InspectedNow, InspectedType
  <2>2. FramingAt' = start + Block + NextData /\ ~next_trailer'
    BY <1>2, <2>1
  <2>3. FramingAt = start /\ FramingPending = override /\ FramingExt = -1
    BY <1>1 DEF Due
  <2>4. Framing!Visit
    BY <2>1, <2>2, <2>3, Numbers, WalkMoves
  <2>5. /\ Refusal(TheFirst, override) = "none"
        /\ FramingAt' = start + Block + Padding
        /\ \/ TheFirst.kind = "entry" /\ FramingPending' = -1 /\ FramingExt' = -1
           \/ TheFirst.kind = "long" /\ FramingPending' = override /\ FramingExt' = -1
           \/ TheFirst.kind = "pax" /\ TheFirst.size = 0 /\ FramingPending' = -1 /\ FramingExt' = -1
           \/ TheFirst.kind = "pax" /\ FramingExt' = start
    BY <2>3, <2>4, SameTape, SamePadded DEF Framing!Visit, TheFirst, Padding
  <2>6. /\ start' = start /\ override' = override /\ tape' = tape
        /\ TheFirst' = TheFirst /\ Padding' = Padding
    BY DEF parserVars, TheFirst, Padding
  <2>7. Settled'
    BY <2>5, <2>6 DEF Settled, NoSize
  <2> QED
    BY <1>2, <1>5, <2>2, <2>5, <2>6, <2>7 DEF Visited
<1> QED
  BY <1>4, <1>5

(* What the walk has settled, it keeps while it stays.                     *)
LEMMA SettledKeeps ==
  ASSUME Settled, IInv, FramingStep, verdict' = "none", FramingAt' = FramingAt,
         FramingAt \in Nat, UNCHANGED <<tape, start, override>>, start \in Nat
  PROVE  Settled'
<1>1. TheFirst' = TheFirst
  BY DEF TheFirst
<1>2. CASE FramingPending' = FramingPending /\ FramingExt' = FramingExt
  BY <1>1, <1>2 DEF Settled
<1>3. CASE FramingExt # -1 /\ FramingExt' = -1 /\ FramingPending' = tape.at[FramingExt].pax
  <2>1. TheFirst.kind = "pax" /\ FramingExt = start
    BY <1>3 DEF Settled
  <2> QED
    BY <1>1, <1>3, <2>1 DEF Settled, TheFirst
<1> QED
  BY <1>2, <1>3, WalkStays

-----------------------------------------------------------------------------
(* A poll of the parser for its header hands on some of it, or the rest.   *)
LEMMA HeaderPoll ==
  ASSUME PInv, phase = "header", NEW room \in 1 .. Room, Deliver(room),
         verdict' = "none", UNCHANGED parserVars
  PROVE  AtHeader'
<1>1. room \in 1 .. Chunk /\ room <= limit - handed /\ IInv' /\ FramingStep /\ verdict = "none"
  BY PollIsGuardStep DEF Reading
<1>2. /\ limit = start + Block /\ next = limit /\ handed < limit /\ start <= handed
      /\ emitted = handed - start /\ data_remaining = 0 /\ ~trailer
      /\ room \in Nat /\ room > 0
  BY <1>1, Numbers DEF PInv, AtHeader
<1>3. /\ HeaderStart = start /\ TheHeader = TheFirst /\ (IsZero <=> ZeroBlock(tape, start))
  BY <1>2, HeaderAtStart
<1>4. HandOnPart(room) \/ HandOnRest(room)
  <2>1. ASSUME NEW n \in 1 .. room, PassData(n) \/ PassTrailer(n) PROVE FALSE
    <3>1. n \in Nat /\ n > 0
      BY <1>2
    <3> QED
      BY <1>2, <2>1, <3>1 DEF PassData, Takes, PassTrailer
  <2> QED
    BY <2>1 DEF Deliver
<1>5. HeaderReady /\ tape' = tape /\ NextData \in Nat
  BY <1>1, <1>4, InspectedType DEF HandOnPart, HandOnRest, PInv
<1>6. UNCHANGED <<start, limit, next, override>> /\ start \in Nat /\ limit \in Nat
  BY Numbers DEF parserVars
<1>7. /\ next_trailer' = NextTrailer
      /\ handed' > start /\ handed' <= limit
      /\ IF handed' < limit'
         THEN emitted' = handed' - start' /\ data_remaining' = 0 /\ ~trailer'
         ELSE emitted' = 0 /\ filled' = 0
      /\ ~NextTrailer => FramingAt' = HeaderStart + Block + NextData
  <2>1. CASE HandOnPart(room)
    <3>1. /\ emitted' = emitted + room /\ handed' = handed + room /\ pos' = HeaderStart + Block
          /\ next_data' = NextData /\ next_trailer' = NextTrailer
          /\ data_remaining' = 0 /\ ~trailer' /\ emitted + room < Block
      BY <1>2, <2>1 DEF HandOnPart, IsPart
    <3>2. handed' < limit /\ handed' > start /\ emitted' = handed' - start /\ emitted' > 0
      BY <1>2, <3>1, Numbers
    <3>3. ~NextTrailer => FramingAt' = HeaderStart + Block + NextData
      BY <1>3, <1>5, <3>1, <3>2, Numbers DEF FramingAt, Ahead
    <3> QED
      BY <1>6, <3>1, <3>2, <3>3
  <2>2. CASE HandOnRest(room)
    <3>1. /\ emitted' = 0 /\ filled' = 0 /\ handed' = handed + (Block - emitted)
          /\ pos' = HeaderStart + Block /\ next_data' = 0 /\ data_remaining' = NextData
          /\ next_trailer' = NextTrailer
      BY <2>2 DEF HandOnRest
    <3>2. handed' = limit /\ limit > start
      BY <1>2, <3>1, Numbers
    <3>3. ~NextTrailer => FramingAt' = HeaderStart + Block + NextData
      BY <1>3, <1>5, <3>1, Numbers DEF FramingAt, Ahead
    <3> QED
      BY <1>6, <3>1, <3>2, <3>3
  <2> QED
    BY <1>4, <2>1, <2>2
<1>8. Visited'
  <2>1. CASE handed = start
    BY <1>1, <1>5, <1>7, <2>1, FirstPollVisits DEF PInv
  <2>2. CASE handed # start
    <3>0. Visited
      BY <2>2 DEF PInv, AtHeader
    <3>1. emitted > 0
      <4>1. handed \in Nat /\ start \in Nat
        BY Numbers
      <4>2. start <= handed /\ emitted = handed - start
        BY <1>2
      <4>3. handed - start > 0
        BY <2>2, <4>1, <4>2
      <4> QED
        BY <4>2, <4>3
    <3>2. NextData = next_data /\ (NextTrailer <=> next_trailer) /\ HeaderStart + Block = pos
      BY <1>5, <3>1, InspectedBefore DEF PInv
    <3>3. CASE ZeroBlock(tape, start)
      <4>1. next_trailer'
        BY <1>7, <3>0, <3>2, <3>3 DEF Visited
      <4> QED
        BY <1>5, <1>6, <3>3, <4>1 DEF Visited, ZeroBlock
    <3>4. CASE ~ZeroBlock(tape, start)
      <4>1. /\ ~next_trailer /\ Refusal(TheFirst, override) = "none"
            /\ FramingAt = start + Block + Padding /\ Settled
        BY <3>0, <3>4 DEF Visited
      <4>2. FramingAt = pos + next_data
        BY <1>2, <3>1, <4>1, Numbers DEF FramingAt, Ahead
      <4>3. FramingAt' = FramingAt /\ FramingAt \in Nat /\ ~next_trailer'
        BY <1>5, <1>7, <3>2, <4>1, <4>2, Numbers
      <4>4. Settled'
        BY <1>1, <1>5, <1>6, <4>1, <4>3, SettledKeeps DEF PInv
      <4>5. TheFirst' = TheFirst /\ Padding' = Padding
            /\ (ZeroBlock(tape, start)' <=> ZeroBlock(tape, start))
        BY <1>5, <1>6 DEF TheFirst, Padding, ZeroBlock
      <4> QED
        BY <1>6, <3>4, <4>1, <4>3, <4>4, <4>5 DEF Visited
    <3> QED
      BY <3>3, <3>4
  <2> QED
    BY <2>1, <2>2
<1>9. handed' \in Nat /\ start' \in Nat /\ Block' = Block
  BY <1>1, <1>6 DEF IInv, TypeOK, IsTape
<1>10. handed' # start' /\ start' <= handed' /\ handed' <= limit'
  BY <1>6, <1>7, <1>9
<1>11. limit' = start' + Block /\ next' = limit'
  BY <1>2, <1>6
<1> QED
  BY <1>6, <1>7, <1>8, <1>10, <1>11 DEF AtHeader

(* A poll of the parser or the caller for a payload passes some of it.     *)
LEMMA PayloadPoll ==
  ASSUME PInv, phase \in {"extension", "member", "seek"}, Between,
         NEW room \in 1 .. Room, Deliver(room), UNCHANGED <<start, limit, next, override>>
  PROVE  /\ Between' /\ IInv /\ FramingStep /\ FramingAt' = FramingAt /\ FramingAt \in Nat
         /\ tape' = tape /\ pos # tape.len
<1>1. room \in 1 .. Chunk /\ room <= limit - handed /\ IInv' /\ FramingStep /\ verdict = "none"
  BY PollIsGuardStep DEF Reading
<1>2. /\ start + Block <= handed /\ handed < limit /\ limit <= next
      /\ emitted = 0 /\ ~next_trailer /\ FramingAt = next /\ room \in Nat
  BY <1>1, Numbers DEF Between
<1>3. data_remaining > 0 /\ ~trailer /\ data_remaining = next - handed
  <2>1. FramingAt = handed + data_remaining
    BY <1>2, WalkDistance DEF PInv
  <2>2. ~trailer
    BY <1>2 DEF PInv, IInv, SpentOnce
  <2> QED
    BY <1>2, <2>1, <2>2, Numbers
<1>4. PICK n \in 1 .. room : PassData(n)
  BY <1>3 DEF Deliver, HandOnPart, HandOnRest, HeaderReady, InHeader, PassTrailer
<1>5. /\ n \in Nat /\ n > 0 /\ n <= limit - handed
      /\ pos + n <= tape.len /\ handed' = handed + n /\ data_remaining' = data_remaining - n
      /\ emitted' = 0 /\ ~next_trailer' /\ tape' = tape
  BY <1>1, <1>2, <1>4, Numbers DEF PassData, Takes, headerVars
<1>6. UNCHANGED <<start, limit, next>>
  OBVIOUS
<1>7. FramingAt' = handed' + data_remaining'
  <2>1. next_data' = next_data /\ filled' = filled /\ next_data = 0 /\ filled = 0
    BY <1>2, <1>3, <1>4 DEF PassData, headerVars, PInv, IInv, SpentOnce, Accounting
  <2>2. handed = pos /\ pos' = pos + n
    BY <1>2, <1>4, <2>1, Numbers DEF PassData
  <2> QED
    BY <1>5, <2>1, <2>2, Numbers DEF FramingAt, Ahead
<1>8. FramingAt' = next /\ start + Block <= handed' /\ handed' <= limit
  BY <1>2, <1>3, <1>5, <1>7, Numbers
<1>9. Between'
  BY <1>2, <1>5, <1>6, <1>8 DEF Between
<1> QED
  BY <1>1, <1>2, <1>5, <1>8, <1>9, Numbers DEF PInv

-----------------------------------------------------------------------------
LEMMA InitPInv == Init => PInv
<1> SUFFICES ASSUME Init PROVE PInv
  OBVIOUS
<1>1. IInv /\ Block \in Nat
  BY InitIInv, TapeAssumption DEF Init
<1>2. AtHeader
  BY <1>1 DEF Init, GuardInit, AtHeader, Due, FramingAt, FramingPending, FramingExt, Ahead,
              NoBody, NoSize
<1> QED
  BY <1>1, <1>2 DEF Init, GuardInit, PInv, Phases, Reading, Finished

(* A step that only gives up keeps the guard's invariant, and that is all  *)
(* there is to keep.                                                       *)
LEMMA GiveUp ==
  ASSUME PInv, IInv', tape' = tape, NEW p \in Finished \ {"unguarded"}, Goto(p)
  PROVE  PInv'
<1>1. phase' = p /\ UNCHANGED <<start, limit, next, override>>
  BY DEF Goto
<1>2. p \in Phases \ {"unguarded"} /\ p \notin Reading
  BY DEF Phases, Reading, Finished
<1>3. p \notin {"header", "extension", "member", "seek"}
  BY <1>2 DEF Reading
<1> QED
  BY <1>1, <1>2, <1>3 DEF PInv

LEMMA PollPInv == PInv /\ Poll => PInv'
<1> SUFFICES ASSUME PInv, Poll PROVE PInv'
  OBVIOUS
<1>1. PICK room \in 1 .. Room : Deliver(room)
  BY DEF Poll
<1>2. phase \in Reading /\ IInv'
  BY <1>1, PollIsGuardStep DEF Poll
<1>0. tape' = tape
  BY <1>1 DEF Deliver, HandOnPart, HandOnRest, PassData, PassTrailer
<1>3. CASE Goto("rejected")
  BY <1>0, <1>2, <1>3, GiveUp DEF Finished
<1>4. CASE verdict' = "none" /\ UNCHANGED parserVars
  <2>1. /\ UNCHANGED <<phase, start, limit, next, override>>
        /\ {start, limit, next} \subseteq Nat /\ override \in U64 \cup {NoSize}
        /\ phase \in Phases \ {"unguarded"}
    BY <1>4 DEF parserVars, PInv
  <2>2. phase = "header" => AtHeader'
    BY <1>1, <1>4, HeaderPoll
  <2>3. ASSUME phase \in {"extension", "member", "seek"}, Between
        PROVE  /\ Between' /\ tape' = tape /\ pos # tape.len
               /\ Settled => Settled'
               /\ \/ FramingPending' = FramingPending /\ FramingExt' = FramingExt
                  \/ /\ FramingExt # -1 /\ FramingExt' = -1
                     /\ FramingPending' = tape.at[FramingExt].pax
    <3>1. /\ Between' /\ IInv /\ FramingStep /\ FramingAt' = FramingAt /\ FramingAt \in Nat
          /\ tape' = tape /\ pos # tape.len
      BY <1>1, <2>1, <2>3, PayloadPoll
    <3>2. Settled => Settled'
      BY <1>4, <2>1, <3>1, SettledKeeps
    <3> QED
      BY <1>4, <3>1, <3>2, WalkStays
  <2>4. phase = "extension" => AtExtension'
    BY <2>1, <2>3 DEF PInv, AtExtension, TheFirst
  <2>5. phase = "member" => AtMember'
    BY <2>1, <2>3 DEF PInv, AtMember
  <2>6. phase = "seek" => AtSeek'
    BY <2>1, <2>3 DEF PInv, AtSeek, TheFirst
  <2> QED
    BY <1>0, <1>2, <1>4, <2>1, <2>2, <2>4, <2>5, <2>6 DEF PInv
<1> QED
  BY <1>3, <1>4 DEF Poll

LEMMA PollRefusedPInv == PInv /\ PollRefused => PInv'
<1> SUFFICES ASSUME PInv, PollRefused PROVE PInv'
  OBVIOUS
<1>1. verdict = "none" /\ RefuseHeader /\ Goto("rejected") /\ tape' = tape
  BY DEF PollRefused, RefuseHeader, PInv
<1>2. IInv'
  BY <1>1, NextIInv DEF GuardNext, PInv
<1> QED
  BY <1>1, <1>2, GiveUp DEF Finished

(* A source that answers with part of a header.                            *)
LEMMA PollStallsPInv == PInv /\ PollStalls => PInv'
<1> SUFFICES ASSUME PInv, PollStalls PROVE PInv'
  OBVIOUS
<1>1. PICK k \in 1 .. Block : StallInHeader(k)
  BY DEF PollStalls
<1>2. /\ phase \in Reading /\ Room > 0 /\ verdict = "none"
      /\ UNCHANGED <<phase, start, limit, next, override>>
  BY DEF PollStalls, PInv, parserVars
<1>3. IInv'
  BY <1>1, <1>2, NextIInv DEF GuardNext, PInv
<1>4. CASE phase \in {"extension", "member", "seek"}
  <2>1. Between /\ handed < limit
    BY <1>2, <1>4, Numbers DEF PInv, AtExtension, AtMember, AtSeek, Room, Least
  <2>2. FramingAt = handed + data_remaining /\ FramingAt = next /\ limit <= next
    BY <2>1, WalkDistance DEF Between, PInv
  <2>3. data_remaining > 0
    BY <2>1, <2>2, Numbers
  <2> QED
    BY <1>1, <2>3 DEF StallInHeader, InHeader
<1>5. CASE phase = "header"
  <2>1. /\ UNCHANGED <<tape, handed, emitted, next_data, next_trailer, data_remaining,
                       trailer, paxVars, verdict>>
        /\ emitted = 0
    BY <1>1, TapeAssumption DEF StallInHeader, PInv, IInv, TypeOK, Accounting
  <2>2. handed = start /\ handed < limit
    BY <1>2, <1>5, <2>1, Numbers DEF PInv, AtHeader, Room, Least
  <2>3. Due
    BY <1>5, <2>2 DEF PInv, AtHeader
  <2>4. Due'
    <3>1. verdict' = "none" /\ InHeader'
      BY <1>2, <2>1, <2>3 DEF Due, InHeader
    <3>2. FramingAt' = HeaderStart' /\ FramingPending' = pax_size' /\ FramingExt' = -1
      <4>1. pax_body' = NoBody /\ next_data' = 0 /\ ~next_trailer' /\ data_remaining' = 0
        BY <1>2, <2>1, <2>3, Uninspected DEF Due, InHeader, PInv, paxVars
      <4>2. filled' \in Nat /\ pos' \in Nat /\ filled' <= pos'
        BY <1>3 DEF IInv, TypeOK, IsTape, Accounting
      <4>3. FramingAt' = HeaderStart'
        BY <2>1, <4>1, <4>2 DEF FramingAt, Ahead, HeaderStart
      <4>4. FramingPending' = pax_size' /\ FramingExt' = -1
        BY <1>2, <2>1, <4>1 DEF FramingPending, FramingExt
      <4> QED
        BY <4>3, <4>4
    <3>3. HeaderStart' = start
      <4>1. handed' = pos' - filled' + emitted' /\ pos' \in Nat /\ filled' \in Nat
        BY <1>3 DEF IInv, TypeOK, IsTape, Accounting
      <4> QED
        BY <2>1, <2>2, <4>1, Numbers DEF HeaderStart
    <3>4. pax_size' = override
      <4>1. FramingPending = pax_size
        BY <1>2, <2>3, WalkAtHeader DEF Due, InHeader, PInv
      <4> QED
        BY <2>1, <2>3, <4>1 DEF Due, paxVars
    <3> QED
      BY <1>2, <2>1, <2>3, <3>2, <3>3, <3>4 DEF Due
  <2>5. AtHeader'
    BY <1>2, <1>5, <2>1, <2>2, <2>4, Numbers DEF PInv, AtHeader
  <2> QED
    BY <1>2, <1>3, <1>5, <2>1, <2>5 DEF PInv
<1>6. CASE phase = "verify"
  BY <1>1, <1>2, <1>3, <1>6 DEF PInv, StallInHeader
<1> QED
  BY <1>2, <1>4, <1>5, <1>6 DEF Reading

-----------------------------------------------------------------------------
(* The steps of the parser leave the guard, and so the walk, alone.        *)
LEMMA GuardRests ==
  ASSUME IInv, UNCHANGED guardVars
  PROVE  /\ IInv'
         /\ UNCHANGED <<tape, pos, handed, filled, emitted, data_remaining, trailer,
                        next_trailer, pax_size, verdict>>
         /\ UNCHANGED <<FramingAt, FramingPending, FramingExt>>
<1>1. IInv'
  BY StutterIInv
<1> QED
  BY <1>1 DEF guardVars, headerVars, paxVars, FramingAt, FramingPending, FramingExt, Ahead

(* The header at start lies on the tape.                                   *)
LEMMA FirstIsHeader ==
  ASSUME PInv, start <= handed
  PROVE  TheFirst \in Header /\ start \in DOMAIN tape.at
<1>1. start \in 0 .. tape.len
  BY Numbers
<1> QED
  BY <1>1 DEF TheFirst, PInv, IInv, TypeOK, IsTape

LEMMA EndOfFilePInv == PInv /\ EndOfFile => PInv'
<1> SUFFICES ASSUME PInv, EndOfFile PROVE PInv'
  OBVIOUS
<1>1. /\ UNCHANGED guardVars /\ Room > 0 /\ pos = tape.len
      /\ phase \in {"header", "extension", "seek", "verify"}
  BY DEF EndOfFile, NothingLeft
<1>2. /\ IInv'
      /\ UNCHANGED <<tape, pos, handed, emitted, next_trailer, verdict>>
      /\ UNCHANGED <<FramingAt, FramingPending, FramingExt>>
  BY <1>1, GuardRests DEF PInv
<1>3. CASE phase' = "verify" /\ start' = handed /\ UNCHANGED <<limit, next, override>>
  BY <1>1, <1>2, <1>3, Numbers DEF PInv, Phases, Reading
<1>4. CASE phase = "extension" /\ Goto("seek")
  <2>1. Between /\ handed < limit
    BY <1>1, <1>4, Numbers DEF PInv, AtExtension, Room, Least
  <2>2. UNCHANGED <<start, limit, next, override>> /\ phase' = "seek"
    BY <1>4 DEF Goto
  <2>3. Between' /\ handed' < next'
    BY <1>2, <2>1, <2>2, Numbers DEF Between
  <2>4. AtSeek'
    BY <1>1, <1>2, <2>3 DEF AtSeek
  <2> QED
    BY <1>2, <1>4, <2>2, <2>4 DEF PInv, Phases, Reading
<1>5. ASSUME NEW p \in {"accepted", "rejected"}, Goto(p) PROVE PInv'
  BY <1>2, <1>5, GiveUp DEF Finished
<1> QED
  BY <1>3, <1>4, <1>5 DEF EndOfFile

(* What the guard let through is a header the parser sizes the same way.   *)
LEMMA ReadHeaderPInv == PInv /\ ReadHeader => PInv'
<1> SUFFICES ASSUME PInv, ReadHeader PROVE PInv'
  OBVIOUS
<1> DEFINE size == PayloadSize(TheFirst, override)
<1>1. UNCHANGED guardVars /\ phase = "header" /\ handed = limit
  BY DEF ReadHeader
<1>2. /\ IInv'
      /\ UNCHANGED <<tape, pos, handed, emitted, next_trailer, verdict>>
      /\ UNCHANGED <<FramingAt, FramingPending, FramingExt>>
  BY <1>1, GuardRests DEF PInv
<1>3. AtHeader /\ verdict = "none"
  BY <1>1 DEF PInv, Reading
<1>4. limit = start + Block /\ emitted = 0 /\ Visited
  BY <1>1, <1>3, Numbers DEF AtHeader
<1>5. CASE ZeroBlock(tape, start)
  <2>1. \/ phase' = "verify" /\ start' = handed /\ UNCHANGED <<limit, next, override>>
        \/ Goto("refused")
    BY <1>5 DEF ReadHeader
  <2>2. CASE Goto("refused")
    BY <1>2, <2>2, GiveUp DEF Finished
  <2>3. CASE phase' = "verify" /\ start' = handed /\ UNCHANGED <<limit, next, override>>
    BY <1>2, <1>3, <2>3, Numbers DEF PInv, Phases, Reading
  <2> QED
    BY <2>1, <2>2, <2>3
<1>6. CASE ~ZeroBlock(tape, start)
  <2>1. ~next_trailer /\ Refusal(TheFirst, override) = "none"
        /\ FramingAt = start + Block + Padded(size) /\ Settled
    BY <1>4, <1>6 DEF Visited, Padding
  <2>2. TheFirst \in Header
    BY <1>1, <1>4, Numbers, FirstIsHeader
  <2>3. /\ TheFirst.kind \in {"entry", "pax", "long"} /\ TheFirst.size \in Nat /\ size \in Nat
        /\ IsExtension(TheFirst) <=> TheFirst.kind \in {"pax", "long"}
        /\ IsExtension(TheFirst) => size = TheFirst.size
    BY <2>1, <2>2, Numbers, AcceptedHeader
  <2>4. Padded(size) \in Nat /\ Padded(size) >= size
    BY <2>3, PaddedBounds
  <2> HIDE DEF size
  <2>5. CASE Goto("refused")
    BY <1>2, <2>5, GiveUp DEF Finished
  <2>6. CASE /\ phase' = IF IsExtension(TheFirst) THEN "extension" ELSE "member"
             /\ start' = start
             /\ limit' = start + Block + size
             /\ next' = start + Block + Padded(size)
             /\ override' = IF IsExtension(TheFirst) THEN override ELSE NoSize
    <3>1. Between'
      BY <1>1, <1>2, <1>4, <2>1, <2>3, <2>4, <2>6, Numbers DEF Between
    <3>2. {start', limit', next'} \subseteq Nat /\ override' \in U64 \cup {NoSize}
          /\ phase' \in {"extension", "member"}
      BY <2>3, <2>4, <2>6, Numbers
    <3>3. CASE IsExtension(TheFirst)
      <4>1. TheFirst' = TheFirst /\ override' = override /\ size = TheFirst.size
        BY <1>2, <2>3, <2>6, <3>3 DEF TheFirst
      <4>2. size <= MaxMetadata
        <5>1. ~Oversize(TheFirst)
          BY <2>1 DEF Refusal
        <5> QED
          BY <3>3, <4>1, <2>3, Numbers, <5>1 DEF Oversize
      <4>3. Settled'
        BY <1>2, <2>1, <2>6, <4>1 DEF Settled
      <4>4. limit' - start' - Block <= MaxMetadata
        BY <2>3, <2>6, <4>2, Numbers
      <4>5. AtExtension'
        BY <2>3, <2>6, <3>1, <3>3, <4>1, <4>3, <4>4 DEF AtExtension, IsExtension
      <4> QED
        BY <1>2, <1>3, <2>6, <3>2, <3>3, <4>5 DEF PInv, Phases, Reading
    <3>4. CASE ~IsExtension(TheFirst)
      <4>1. TheFirst.kind = "entry" /\ override' = NoSize /\ phase' = "member"
        BY <2>3, <2>6, <3>4
      <4>2. AtMember'
        BY <1>2, <2>1, <3>1, <4>1 DEF AtMember, Settled
      <4> QED
        BY <1>2, <1>3, <3>2, <4>1, <4>2 DEF PInv, Phases, Reading
    <3> QED
      BY <3>3, <3>4
  <2> QED
    BY <1>6, <2>3, <2>5, <2>6 DEF ReadHeader, TheFirst, size
<1> QED
  BY <1>5, <1>6

(* The parser reads the record the guard kept, whichever of them is first. *)
LEMMA ReadExtensionPInv == PInv /\ ReadExtension => PInv'
<1> SUFFICES ASSUME PInv, ReadExtension PROVE PInv'
  OBVIOUS
<1>1. UNCHANGED guardVars /\ phase = "extension" /\ handed = limit
  BY DEF ReadExtension
<1>2. /\ IInv'
      /\ UNCHANGED <<tape, pos, handed, emitted, next_trailer, verdict>>
      /\ UNCHANGED <<FramingAt, FramingPending, FramingExt>>
  BY <1>1, GuardRests DEF PInv
<1>3. Between /\ IsExtension(TheFirst) /\ Settled /\ verdict = "none"
  BY <1>1 DEF PInv, AtExtension, Reading
<1>4. CASE Goto("rejected")
  BY <1>2, <1>4, GiveUp DEF Finished
<1>5. CASE /\ TheFirst.kind = "pax" => TheFirst.pax # Bad
           /\ phase' = "seek"
           /\ override' = IF TheFirst.kind = "pax" THEN TheFirst.pax ELSE override
           /\ limit' = next
           /\ UNCHANGED <<start, next>>
  <2>1. TheFirst \in Header /\ start \in DOMAIN tape.at
    BY <1>3, Numbers, FirstIsHeader DEF Between
  <2>2. override' \in U64 \cup {NoSize}
    BY <1>5, <2>1, Numbers DEF Header
  <2>3. Between'
    BY <1>1, <1>2, <1>3, <1>5, Numbers DEF Between
  <2>4. TheFirst' = TheFirst
    BY <1>2, <1>5 DEF TheFirst
  <2>5. \/ FramingPending = override' /\ FramingExt = -1
        \/ TheFirst.kind = "pax" /\ override' = TheFirst.pax /\ FramingExt = start
    <3>1. TheFirst.kind \in {"pax", "long"}
      BY <1>3 DEF IsExtension
    <3>2. CASE TheFirst.kind = "long"
      BY <1>3, <1>5, <3>2 DEF Settled
    <3>3. CASE TheFirst.kind = "pax"
      <4>1. TheFirst.size = 0 => TheFirst.pax = NoSize
        BY <2>1, <3>3, EmptyPayloads DEF PInv, TheFirst
      <4> QED
        BY <1>3, <1>5, <3>3, <4>1 DEF Settled
    <3> QED
      BY <3>1, <3>2, <3>3
  <2>6. AtSeek'
    BY <1>2, <1>5, <2>3, <2>4, <2>5 DEF AtSeek
  <2> QED
    BY <1>2, <1>3, <1>5, <2>2, <2>6, Numbers DEF PInv, Phases, Reading
<1> QED
  BY <1>4, <1>5 DEF ReadExtension, TheFirst

LEMMA LeaveMemberPInv == PInv /\ LeaveMember => PInv'
<1> SUFFICES ASSUME PInv, LeaveMember PROVE PInv'
  OBVIOUS
<1>1. UNCHANGED guardVars /\ phase = "member" /\ phase' = "seek" /\ limit' = next
      /\ UNCHANGED <<start, next, override>>
  BY DEF LeaveMember
<1>2. /\ IInv'
      /\ UNCHANGED <<tape, pos, handed, emitted, next_trailer, verdict>>
      /\ UNCHANGED <<FramingAt, FramingPending, FramingExt>>
  BY <1>1, GuardRests DEF PInv
<1>3. AtMember /\ verdict = "none"
  BY <1>1 DEF PInv, Reading
<1>4. Between'
  BY <1>1, <1>2, <1>3, Numbers DEF AtMember, Between
<1>5. AtSeek'
  BY <1>1, <1>2, <1>3, <1>4 DEF AtMember, AtSeek
<1> QED
  BY <1>1, <1>2, <1>3, <1>5, Numbers DEF PInv, Phases, Reading

LEMMA ArrivePInv == PInv /\ ArriveAtHeader => PInv'
<1> SUFFICES ASSUME PInv, ArriveAtHeader PROVE PInv'
  OBVIOUS
<1>1. /\ UNCHANGED guardVars /\ phase = "seek" /\ handed = next /\ phase' = "header"
      /\ start' = next /\ limit' = next + Block /\ next' = next + Block
      /\ UNCHANGED override
  BY DEF ArriveAtHeader
<1>2. /\ IInv'
      /\ UNCHANGED <<tape, handed, emitted, data_remaining, trailer, verdict>>
      /\ UNCHANGED <<FramingAt, FramingPending, FramingExt>>
  BY <1>1, GuardRests DEF PInv
<1>3. AtSeek /\ Between /\ verdict = "none"
  BY <1>1 DEF PInv, Reading, AtSeek
<1>4. emitted = 0 /\ ~next_trailer /\ FramingAt = next /\ ~trailer
  BY <1>3 DEF Between, PInv, IInv, SpentOnce
<1>5. data_remaining = 0
  BY <1>1, <1>4, WalkDistance, Numbers DEF PInv
<1>6. FramingExt = -1
  BY <1>4, <1>5, NothingOpen DEF PInv
<1>7. FramingPending = override
  BY <1>1, <1>3, <1>6, Numbers DEF AtSeek
<1>8. Due'
  BY <1>1, <1>2, <1>4, <1>5, <1>6, <1>7 DEF Due
<1>9. AtHeader'
  BY <1>1, <1>2, <1>4, <1>5, <1>8, Numbers DEF AtHeader
<1> QED
  BY <1>1, <1>2, <1>3, <1>9, Numbers DEF PInv, Phases, Reading

LEMMA RestPInv == PInv /\ UNCHANGED vars => PInv'
<1> SUFFICES ASSUME PInv, UNCHANGED vars PROVE PInv'
  OBVIOUS
<1>1. UNCHANGED guardVars /\ UNCHANGED <<phase, start, limit, next, override>>
  BY DEF vars, parserVars
<1>2. /\ IInv'
      /\ UNCHANGED <<tape, pos, handed, filled, emitted, data_remaining, trailer,
                     next_trailer, verdict>>
      /\ UNCHANGED <<FramingAt, FramingPending, FramingExt>>
  BY <1>1, GuardRests DEF PInv
<1>3. TheFirst' = TheFirst /\ Padding' = Padding
      /\ (ZeroBlock(tape, start)' <=> ZeroBlock(tape, start))
  BY <1>1, <1>2 DEF TheFirst, Padding, ZeroBlock
<1>4. (Settled => Settled') /\ (Between => Between')
  BY <1>1, <1>2, <1>3 DEF Settled, Between
<1>5. AtHeader => AtHeader'
  <2>1. (Due => Due') /\ (Visited => Visited')
    BY <1>1, <1>2, <1>3, <1>4 DEF Due, Visited
  <2> QED
    BY <1>1, <1>2, <2>1 DEF AtHeader
<1>6. (AtExtension => AtExtension') /\ (AtMember => AtMember') /\ (AtSeek => AtSeek')
  BY <1>1, <1>2, <1>3, <1>4 DEF AtExtension, AtMember, AtSeek
<1> QED
  BY <1>1, <1>2, <1>5, <1>6 DEF PInv

LEMMA NextPInv == PInv /\ [Next]_vars => PInv'
  BY PollPInv, PollRefusedPInv, PollStallsPInv, EndOfFilePInv, ReadHeaderPInv,
     ReadExtensionPInv, LeaveMemberPInv, ArrivePInv, RestPInv
     DEF Next

LEMMA ParserInvariant == Spec => []PInv
  BY InitPInv, NextPInv, PTL DEF Spec

-----------------------------------------------------------------------------
(* The guard and the parser never part: however reads are cut, both mean   *)
(* the same bytes by the current header and its payload, and give the next *)
(* member the same size (guard.rs:73-82, 151).                             *)
THEOREM ParserLockstep == Spec => []Lockstep
<1>1. PInv => Lockstep
  <2> SUFFICES ASSUME PInv PROVE Lockstep
    OBVIOUS
  <2>1. ASSUME phase = "header", handed = limit
        PROVE  filled = 0 /\ data_remaining
                               = IF ZeroBlock(tape, start) THEN 0
                                 ELSE Padded(PayloadSize(tape.at[start], override))
    <3>1. filled = 0 /\ emitted = 0 /\ Visited /\ limit = start + Block
      BY <2>1, Numbers DEF PInv, AtHeader
    <3>2. CASE ZeroBlock(tape, start)
      BY <3>1, <3>2 DEF Visited, PInv, IInv, SpentOnce
    <3>3. CASE ~ZeroBlock(tape, start)
      <4>1. FramingAt = handed + data_remaining /\ FramingAt = start + Block + Padding
            /\ TheFirst \in Header /\ Refusal(TheFirst, override) = "none"
        BY <2>1, <3>1, <3>3, WalkDistance, FirstIsHeader, Numbers DEF Visited, PInv
      <4>2. Padding \in Nat
        BY <4>1, AcceptedHeader, PaddedBounds, Numbers DEF Padding
      <4>3. data_remaining = Padding
        BY <2>1, <3>1, <4>1, <4>2, Numbers
      <4> QED
        BY <3>1, <3>3, <4>3 DEF Padding, TheFirst
    <3> QED
      BY <3>2, <3>3
  <2>2. ASSUME phase = "header", handed < limit
        PROVE  emitted = handed - start /\ data_remaining = 0 /\ ~trailer
    BY <2>2 DEF PInv, AtHeader
  <2>3. phase = "header" => handed <= limit
    BY DEF PInv, AtHeader
  <2>4. ASSUME phase \in {"extension", "member", "seek"}
        PROVE  emitted = 0 /\ data_remaining = next - handed
    <3>1. Between
      BY <2>4 DEF PInv, AtExtension, AtMember, AtSeek
    <3>2. FramingAt = handed + data_remaining /\ FramingAt = next /\ emitted = 0
      BY <3>1, WalkDistance DEF PInv, Between
    <3> QED
      BY <3>2, Numbers
  <2>5. ASSUME phase = "header", handed = start PROVE override = pax_size
    <3>1. Due /\ verdict = "none"
      BY <2>5 DEF PInv, AtHeader, Reading
    <3> QED
      BY <3>1, WalkAtHeader DEF Due, InHeader, PInv
  <2>6. phase = "header" => handed < limit \/ handed = limit
    BY <2>3, Numbers
  <2> QED
    BY <2>1, <2>2, <2>4, <2>5, <2>6 DEF Lockstep, Reading
<1> QED
  BY <1>1, ParserInvariant, PTL

(* The parser interprets no type the guard bars and buffers no record      *)
(* above max_metadata_bytes (guard.rs:51-65).                              *)
THEOREM ParserStaysGuarded == Spec => []ParserIsGuarded
<1>1. PInv => ParserIsGuarded
  BY DEF PInv, AtExtension, ParserIsGuarded
<1> QED
  BY <1>1, ParserInvariant, PTL

-----------------------------------------------------------------------------
(* Where the first end block lies is settled by what is still ahead: it is *)
(* what the walk meets from the header the parser is at, or from the next  *)
(* one once that header's payload is under way.                            *)
EndFrom(o, size) == IF o <= tape.len THEN Walks(tape)[o][size].end ELSE NoSize
TheEnd == EndBlock(tape)

(* verify_end reads behind an end block, or nothing, because the tape ends *)
(* inside the header the parser asked for.                                 *)
AtVerify ==
  \/ /\ trailer /\ Block <= start /\ start <= handed
     /\ TheEnd = start - Block
     /\ ~Dirty(TheEnd, handed)
  \/ /\ ~trailer /\ data_remaining = 0
     /\ pos = tape.len /\ filled < Block /\ handed = start
     /\ TheEnd = NoSize

EInv ==
  /\ phase \in {"header", "extension"} => TheEnd = EndFrom(start, override)
  /\ phase = "extension" =>
       /\ ~ZeroBlock(tape, start)
       /\ Refusal(TheFirst, override) = "none"
       /\ next = start + Block + Padded(TheFirst.size)
  /\ phase \in {"member", "seek"} => TheEnd = EndFrom(next, override)
  /\ phase = "verify" => AtVerify
  /\ AcceptedIffComplete

-----------------------------------------------------------------------------
LEMMA TapeIs == PInv => IsTape(tape) /\ tape.dirty \subseteq 0 .. tape.len - 1
  BY DEF PInv, IInv, TypeOK, IsTape

(* What the walk meets at the parser's header.                             *)
LEMMA HeaderLeads ==
  ASSUME PInv, start <= tape.len
  PROVE  /\ start + Block > tape.len => EndFrom(start, override) = NoSize
         /\ start + Block <= tape.len /\ ZeroBlock(tape, start) =>
              EndFrom(start, override) = start
         /\ start + Block <= tape.len /\ ~ZeroBlock(tape, start) =>
              EndFrom(start, override)
                = IF \/ Refusal(TheFirst, override) # "none"
                     \/ TheFirst.kind = "pax" /\ TheFirst.pax = Bad
                  THEN NoSize
                  ELSE EndFrom(start + Block + Padding,
                               IF TheFirst.kind = "pax" THEN TheFirst.pax
                               ELSE IF TheFirst.kind = "long" THEN override ELSE NoSize)
<1> DEFINE after == start + Block + Padding
           pending == IF TheFirst.kind = "pax" THEN TheFirst.pax
                      ELSE IF TheFirst.kind = "long" THEN override ELSE NoSize
           W == Walks(tape)
<1>1. start \in 0 .. tape.len /\ override \in Overrides /\ IsTape(tape)
      /\ start \in Nat /\ tape.len \in Nat /\ Block \in Nat
  BY Numbers, TapeIs DEF Overrides
<1>2. EndFrom(start, override) = Meets(tape, start, override, W).end
  BY <1>1, WalksUnfold DEF EndFrom
<1>3. start + Block > tape.len \/ ZeroBlock(tape, start) =>
        Meets(tape, start, override, W)
          = IF start + Block > tape.len THEN Lost ELSE [end |-> start, members |-> {}]
  BY DEF Meets
<1>4. CASE start + Block > tape.len
  BY <1>1, <1>2, <1>3, <1>4 DEF Lost
<1>5. CASE start + Block <= tape.len /\ ZeroBlock(tape, start)
  BY <1>1, <1>2, <1>3, <1>5
<1>6. CASE start + Block <= tape.len /\ ~ZeroBlock(tape, start)
  <2>0. ~(start + Block > tape.len)
    BY <1>1, <1>6
  <2>1. CASE \/ Refusal(TheFirst, override) # "none"
             \/ TheFirst.kind = "pax" /\ TheFirst.pax = Bad
    <3>1. Meets(tape, start, override, W) = Lost
      BY <1>6, <2>0, <2>1 DEF Meets, TheFirst
    <3> QED
      BY <1>2, <1>6, <2>0, <2>1, <3>1 DEF Lost
  <2>2. CASE /\ Refusal(TheFirst, override) = "none"
             /\ ~(TheFirst.kind = "pax" /\ TheFirst.pax = Bad)
    <3>1. TheFirst \in Header
      BY <1>1 DEF IsTape, TheFirst
    <3>2. PayloadSize(TheFirst, override) \in Nat
      BY <1>1, <2>2, <3>1, AcceptedHeader DEF Overrides
    <3>3. after \in Nat
      BY <1>1, <3>2, PaddedBounds DEF Padding
    <3>4. EndFrom(start, override) = EndFrom(after, pending)
      <4>1. CASE after > tape.len
        <5>1. Meets(tape, start, override, W) = Lost
          BY <1>6, <2>0, <2>2, <4>1 DEF Meets, TheFirst, Padding
        <5>2. EndFrom(after, pending) = NoSize
          BY <1>1, <3>3, <4>1 DEF EndFrom
        <5> QED
          BY <1>2, <5>1, <5>2 DEF Lost
      <4>2. CASE after <= tape.len
        <5>1. Meets(tape, start, override, W).end = W[after][pending].end
          <6>1. ~(after > tape.len)
            BY <1>1, <3>3, <4>2
          <6> QED
            BY <1>6, <2>0, <2>2, <6>1 DEF Meets, TheFirst, Padding
        <5> QED
          BY <1>2, <4>2, <5>1 DEF EndFrom
      <4> QED
        BY <1>1, <3>3, <4>1, <4>2
    <3> QED
      BY <1>6, <2>0, <2>2, <3>4
  <2> QED
    BY <2>1, <2>2
<1>7. start + Block > tape.len \/ start + Block <= tape.len
  BY <1>1
<1> QED
  BY <1>1, <1>4, <1>5, <1>6, <1>7

(* A tape without an end block is no archive; nor is one whose end block   *)
(* is followed by a byte that is not zero, or by too little.               *)
LEMMA NoEnd == TheEnd = NoSize => ~Complete(tape)
  BY DEF TheEnd, Complete

LEMMA DirtyTail ==
  ASSUME NEW b \in tape.dirty, TheEnd \in Nat, b \in Nat, b >= TheEnd
  PROVE  ~Complete(tape)
  BY DEF TheEnd, Complete

LEMMA SameEnd ==
  ASSUME tape' = tape
  PROVE  TheEnd' = TheEnd /\ (Complete(tape)' <=> Complete(tape))
         /\ \A o, size : EndFrom(o, size)' = EndFrom(o, size)
  BY DEF TheEnd, EndFrom

LEMMA SplitRange ==
  ASSUME NEW from \in Nat, NEW mid \in Nat, NEW to \in Nat
  PROVE  \A b \in from .. to - 1 : b \in from .. mid - 1 \/ b \in mid .. to - 1
  OBVIOUS

(* A reader that rejects an archive it has to reject keeps the invariant.  *)
LEMMA RejectEInv ==
  ASSUME Goto("rejected"), tape' = tape, ~Complete(tape)
  PROVE  EInv'
<1>1. phase' = "rejected" /\ ~Complete(tape)'
  BY SameEnd DEF Goto
<1> QED
  BY <1>1 DEF EInv, AcceptedIffComplete

LEMMA StartOnTape ==
  ASSUME PInv, phase \in {"header", "extension", "member", "seek"}
  PROVE  start <= handed /\ handed <= limit /\ start <= tape.len
<1>1. start <= handed /\ handed <= limit
  BY Numbers DEF PInv, AtHeader, AtExtension, AtMember, AtSeek, Between
<1> QED
  BY <1>1, Numbers

-----------------------------------------------------------------------------
(* While a record is under way the guard fails only on that record.        *)
LEMMA GuardRejects ==
  ASSUME PInv, phase \in {"extension", "member", "seek"}, Between,
         NEW room \in 1 .. Room, Deliver(room), verdict' # "none"
  PROVE  FramingExt # -1 /\ tape.at[FramingExt].pax = Bad /\ pos # tape.len
<1>1. room \in 1 .. Chunk /\ room <= limit - handed /\ verdict = "none"
  BY PollIsGuardStep DEF Reading
<1>2. data_remaining > 0 /\ ~trailer /\ emitted = 0
  <2>1. FramingAt = handed + data_remaining /\ FramingAt = next
    BY WalkDistance DEF PInv, Between
  <2>2. ~trailer /\ emitted = 0
    BY DEF Between, PInv, IInv, SpentOnce
  <2> QED
    BY <1>1, <2>1, <2>2, Numbers DEF Between
<1>3. PICK n \in 1 .. room : PassData(n)
  BY <1>2 DEF Deliver, HandOnPart, HandOnRest, HeaderReady, InHeader, PassTrailer
<1>4. n \in 1 .. Chunk /\ pos # tape.len
  BY <1>1, <1>3, Numbers DEF PassData, Takes
<1>5. pax_body # NoBody
  BY <1>1, <1>3 DEF PassData, paxVars
<1>6. PICK first \in Block .. tape.len : PayloadFrom(first)
  BY <1>1, <1>5 DEF PInv, IInv, PaxIsPrefix
<1>7. FramingExt \in Nat
  BY <1>1, <1>2, <1>5, <1>6, ExtIsFirst DEF PInv
<1>8. FramingStep
  BY <1>1, <1>3, <1>4, PassDataFraming DEF PInv
<1>9. Framing!Absorb
  <2>1. ~Framing!End /\ ~Framing!Visit
    BY <1>1 DEF Framing!End, Framing!Visit
  <2>2. ~Framing!Refuse
    BY <1>7, SameTape DEF Framing!Refuse, Framing!Visitable
  <2> QED
    BY <1>1, <1>8, <2>1, <2>2 DEF FramingStep, Framing!FramingNext, Framing!framingVars
<1>10. tape.at[FramingExt].pax = Bad
  BY <1>1, <1>9, SameTape DEF Framing!Absorb, Bad
<1> QED
  BY <1>4, <1>7, <1>10

(* In front of a header the guard hands on what it let through, in one     *)
(* piece or several, and fails on none of it.                              *)
LEMMA HeaderPollIsQuiet ==
  ASSUME PInv, phase = "header", NEW room \in 1 .. Room, Deliver(room)
  PROVE  verdict' = "none" /\ tape' = tape
<1>1. room \in 1 .. Chunk /\ room <= limit - handed /\ verdict = "none"
  BY PollIsGuardStep DEF Reading
<1>2. handed < limit /\ room \in Nat /\ room > 0
  BY <1>1, Numbers
<1>3. data_remaining = 0 /\ ~trailer
  BY <1>2 DEF PInv, AtHeader
<1>4. ASSUME NEW n \in 1 .. room, PassData(n) \/ PassTrailer(n) PROVE FALSE
  <2>1. n \in Nat /\ n > 0
    BY <1>2
  <2> QED
    BY <1>3, <1>4, <2>1 DEF PassData, Takes, PassTrailer
<1>5. CASE HandOnPart(room)
  BY <1>1, <1>5 DEF HandOnPart
<1>6. CASE HandOnRest(room)
  <2>1. tape' = tape /\ HeaderReady
    BY <1>6 DEF HandOnRest
  <2>2. verdict' = verdict
    BY <1>1, <1>6, <2>1, OpenedIsEmpty, EmptyPax DEF HandOnRest, PInv
  <2> QED
    BY <1>1, <2>1, <2>2
<1> QED
  BY <1>4, <1>5, <1>6 DEF Deliver

(* Behind an end block everything passes; at the end of the source nothing *)
(* does.                                                                   *)
LEMMA VerifyPoll ==
  ASSUME PInv, EInv, phase = "verify", NEW room \in 1 .. Room, Deliver(room)
  PROVE  /\ trailer /\ trailer' /\ verdict' = "none" /\ tape' = tape
         /\ handed' \in Nat /\ handed <= handed'
<1>1. verdict = "none" /\ AtVerify
  BY DEF PInv, EInv, Reading
<1>2. room \in 1 .. Chunk
  BY PollIsGuardStep DEF Reading
<1>3. CASE trailer
  <2>1. ~InHeader
    BY <1>3 DEF InHeader
  <2>2. PICK n \in 1 .. room : PassTrailer(n)
    BY <1>3, <2>1 DEF Deliver, HandOnPart, HandOnRest, HeaderReady, PassData
  <2> QED
    BY <1>1, <1>2, <1>3, <2>2, Numbers DEF PassTrailer
<1>4. CASE ~trailer
  <2>1. data_remaining = 0 /\ pos = tape.len /\ filled < Block
    BY <1>1, <1>4 DEF AtVerify
  <2>2. HeaderStart + Block > tape.len
    BY <2>1, Numbers DEF HeaderStart
  <2>3. ~HeaderReady
    BY <2>2, Numbers DEF HeaderReady, HeaderStart
  <2>4. ASSUME NEW n \in 1 .. room, PassData(n) \/ PassTrailer(n) PROVE FALSE
    <3>1. n \in Nat /\ n > 0
      BY <1>2, Numbers
    <3> QED
      BY <1>4, <2>1, <2>4, <3>1, Numbers DEF PassData, Takes, PassTrailer
  <2> QED
    BY <2>3, <2>4 DEF Deliver, HandOnPart, HandOnRest
<1> QED
  BY <1>3, <1>4

-----------------------------------------------------------------------------
LEMMA InitEInv == Init => EInv
<1> SUFFICES ASSUME Init PROVE EInv
  OBVIOUS
<1>1. phase = "header" /\ start = 0 /\ override = NoSize /\ PInv
  BY InitPInv DEF Init
<1>2. 0 <= tape.len
  BY <1>1, Numbers
<1>3. TheEnd = EndFrom(start, override)
  BY <1>1, <1>2 DEF TheEnd, EndBlock, Walk, EndFrom
<1> QED
  BY <1>1, <1>3 DEF EInv, AcceptedIffComplete

(* The bad record is the one the parser is at.                             *)
LEMMA BadRecord ==
  ASSUME PInv, EInv, phase \in {"extension", "member", "seek"}, Between,
         NEW room \in 1 .. Room, Deliver(room), verdict' # "none"
  PROVE  ~Complete(tape)
<1>1. FramingExt # -1 /\ tape.at[FramingExt].pax = Bad /\ pos # tape.len
  BY GuardRejects
<1>2. CASE phase = "extension"
  <2>1. Settled
    BY <1>2 DEF PInv, AtExtension
  <2>2. TheFirst.kind = "pax" /\ TheFirst.pax = Bad
    BY <1>1, <2>1 DEF Settled, TheFirst
  <2>3. start <= tape.len /\ start + Block <= tape.len
    BY Numbers DEF Between
  <2>4. TheEnd = NoSize
    BY <1>2, <2>2, <2>3, HeaderLeads DEF EInv
  <2> QED
    BY <2>4, NoEnd
<1>3. CASE phase = "member"
  BY <1>1, <1>3 DEF PInv, AtMember
<1>4. CASE phase = "seek"
  <2>1. AtSeek /\ override \in U64 \cup {NoSize}
    BY <1>4 DEF PInv
  <2>2. override = TheFirst.pax /\ FramingExt = start
    BY <1>1, <2>1 DEF AtSeek
  <2>3. override = Bad
    BY <1>1, <2>2 DEF TheFirst
  <2> QED
    BY <2>1, <2>3 DEF U64, NoSize, Bad
<1> QED
  BY <1>2, <1>3, <1>4

LEMMA PollEInv == PInv /\ EInv /\ Poll => EInv'
<1> SUFFICES ASSUME PInv, EInv, Poll PROVE EInv'
  OBVIOUS
<1>1. PICK room \in 1 .. Room : Deliver(room)
  BY DEF Poll
<1>2. phase \in Reading /\ tape' = tape
  BY <1>1 DEF Poll, Deliver, HandOnPart, HandOnRest, PassData, PassTrailer
<1>3. (phase \in {"extension", "member", "seek"} => Between)
  BY DEF PInv, AtExtension, AtMember, AtSeek
<1>4. CASE verdict' # "none" \/ (phase = "verify" /\ Dirty(handed, handed'))
  <2>1. Goto("rejected")
    BY <1>4 DEF Poll
  <2>2. ~Complete(tape)
    <3>1. CASE phase = "header"
      BY <1>1, <1>4, <3>1, HeaderPollIsQuiet
    <3>2. CASE phase \in {"extension", "member", "seek"}
      BY <1>1, <1>3, <1>4, <3>2, BadRecord
    <3>3. CASE phase = "verify"
      <4>1. /\ trailer /\ verdict' = "none" /\ handed' \in Nat
        BY <1>1, <3>3, VerifyPoll
      <4>2. start <= handed /\ Block <= start /\ TheEnd = start - Block
        BY <3>3, <4>1 DEF EInv, AtVerify
      <4>3. PICK b \in handed .. handed' - 1 : b \in tape.dirty
        BY <1>4, <4>1 DEF Dirty
      <4>4. b \in Nat /\ TheEnd \in Nat /\ b >= TheEnd
        BY <4>1, <4>2, <4>3, Numbers
      <4> QED
        BY <4>3, <4>4, DirtyTail
    <3> QED
      BY <1>2, <3>1, <3>2, <3>3 DEF Reading
  <2> QED
    BY <1>2, <2>1, <2>2, RejectEInv
<1>5. CASE ~(verdict' # "none" \/ (phase = "verify" /\ Dirty(handed, handed')))
  <2>1. UNCHANGED <<phase, start, limit, next, override>>
    BY <1>5 DEF Poll, parserVars
  <2>2. TheEnd' = TheEnd /\ TheFirst' = TheFirst
        /\ \A o, size : EndFrom(o, size)' = EndFrom(o, size)
    BY <1>2, <2>1, SameEnd DEF TheFirst
  <2>3. phase = "verify" => AtVerify'
    <3> SUFFICES ASSUME phase = "verify" PROVE AtVerify'
      OBVIOUS
    <3>1. trailer /\ trailer' /\ handed' \in Nat /\ handed <= handed'
      BY <1>1, VerifyPoll
    <3>2. start <= handed /\ Block <= start /\ TheEnd = start - Block /\ ~Dirty(TheEnd, handed)
      BY <3>1 DEF EInv, AtVerify
    <3>3. ~Dirty(TheEnd, handed')
      <4>1. \A b \in handed .. handed' - 1 : b \notin tape.dirty
        BY <1>5 DEF Dirty
      <4>2. \A b \in TheEnd .. handed - 1 : b \notin tape.dirty
        BY <3>2 DEF Dirty
      <4>3. TheEnd \in Nat /\ handed \in Nat
        BY <3>2, Numbers
      <4>4. \A b \in TheEnd .. handed' - 1 :
              b \in TheEnd .. handed - 1 \/ b \in handed .. handed' - 1
        BY <3>1, <4>3, SplitRange
      <4> QED
        BY <4>1, <4>2, <4>4 DEF Dirty
    <3>4. ~Dirty(TheEnd, handed)'
      BY <1>2, <2>2, <3>3 DEF Dirty
    <3> QED
      BY <2>1, <2>2, <3>1, <3>2, <3>4, Numbers DEF AtVerify
  <2>4. EndFrom(start, override)' = EndFrom(start, override)
        /\ EndFrom(next, override)' = EndFrom(next, override)
    BY <1>2, <2>1 DEF EndFrom
  <2>5. phase # "accepted" /\ phase # "rejected"
    BY <1>2 DEF Reading
  <2> QED
    BY <1>2, <2>1, <2>2, <2>3, <2>4, <2>5 DEF EInv, AcceptedIffComplete
<1> QED
  BY <1>4, <1>5

LEMMA PollRefusedEInv == PInv /\ EInv /\ PollRefused => EInv'
<1> SUFFICES ASSUME PInv, EInv, PollRefused PROVE EInv'
  OBVIOUS
<1>1. /\ phase \in Reading /\ Room > 0 /\ RefuseHeader /\ Goto("rejected") /\ tape' = tape
      /\ verdict = "none"
  BY DEF PollRefused, RefuseHeader, PInv
<1>2. InHeader /\ HeaderStart + Block <= tape.len /\ emitted = 0 /\ ~IsZero
      /\ Refusal(TheHeader, pax_size) # "none"
  BY <1>1 DEF RefuseHeader, Opens
<1>3. CASE phase = "header"
  <2>1. handed < limit
    BY <1>1, <1>3, Numbers, StartOnTape DEF Room, Least
  <2>2. HeaderStart = start /\ TheHeader = TheFirst /\ ~ZeroBlock(tape, start)
    BY <1>2, <1>3, <2>1, HeaderAtStart
  <2>3. handed = start
    <3>1. handed \in Nat /\ start \in Nat
      BY Numbers
    <3>2. emitted = handed - start
      BY <1>3, <2>1 DEF PInv, AtHeader
    <3> QED
      BY <1>2, <3>1, <3>2
  <2>4. FramingPending = override
    BY <1>3, <2>3 DEF PInv, AtHeader, Due
  <2>5. pax_size = override
    BY <1>1, <1>2, <2>4, WalkAtHeader DEF PInv
  <2>6. start <= tape.len
    BY <2>3, Numbers
  <2>7. TheEnd = NoSize
    <3>1. start + Block <= tape.len /\ Refusal(TheFirst, override) # "none"
      BY <1>2, <2>2, <2>5
    <3>2. TheEnd = EndFrom(start, override)
      BY <1>3 DEF EInv
    <3> QED
      BY <2>2, <2>6, <3>1, <3>2, HeaderLeads
  <2> QED
    BY <1>1, <2>7, NoEnd, RejectEInv
<1>4. CASE phase \in {"extension", "member", "seek"}
  <2>1. Between /\ handed < limit
    BY <1>1, <1>4, Numbers, StartOnTape
       DEF PInv, AtExtension, AtMember, AtSeek, Room, Least
  <2>2. FramingAt = handed + data_remaining /\ FramingAt = next /\ limit <= next
    BY <2>1, WalkDistance DEF Between, PInv
  <2>3. data_remaining > 0
    BY <2>1, <2>2, Numbers
  <2> QED
    BY <1>2, <2>3 DEF InHeader
<1>5. CASE phase = "verify"
  <2>1. pos = tape.len /\ filled < Block
    BY <1>2, <1>5 DEF EInv, AtVerify, InHeader
  <2> QED
    BY <1>2, <2>1, Numbers DEF HeaderStart
<1> QED
  BY <1>1, <1>3, <1>4, <1>5 DEF Reading

LEMMA PollStallsEInv == PInv /\ EInv /\ PollStalls => EInv'
<1> SUFFICES ASSUME PInv, EInv, PollStalls PROVE EInv'
  OBVIOUS
<1>1. PICK k \in 1 .. Block : StallInHeader(k)
  BY DEF PollStalls
<1>2. /\ phase \in Reading /\ UNCHANGED <<phase, start, limit, next, override>>
      /\ tape' = tape
  BY <1>1 DEF PollStalls, parserVars, StallInHeader
<1>3. phase # "verify"
  <2> SUFFICES ASSUME AtVerify PROVE FALSE
    BY DEF EInv
  <2>1. ~trailer /\ pos = tape.len
    BY <1>1 DEF StallInHeader, InHeader, AtVerify
  <2>2. k \in Nat /\ k > 0 /\ pos + k <= tape.len
    BY <1>1, Numbers DEF StallInHeader
  <2> QED
    BY <2>1, <2>2, Numbers
<1>4. TheEnd' = TheEnd /\ TheFirst' = TheFirst
      /\ EndFrom(start, override)' = EndFrom(start, override)
      /\ EndFrom(next, override)' = EndFrom(next, override)
  BY <1>2, SameEnd DEF TheFirst, EndFrom
<1>5. phase # "accepted" /\ phase # "rejected"
  BY <1>2 DEF Reading
<1> QED
  BY <1>2, <1>3, <1>4, <1>5 DEF EInv, AcceptedIffComplete

(* The source is at its end inside a payload: the next header lies behind  *)
(* it.                                                                     *)
LEMMA EndsInPayload ==
  ASSUME PInv, Between, handed < next, pos = tape.len
  PROVE  next > tape.len
<1>1. FramingAt = handed + data_remaining /\ FramingAt = next /\ emitted = 0
  BY WalkDistance DEF Between, PInv
<1>2. data_remaining > 0
  BY <1>1, Numbers
<1>3. filled = 0
  BY <1>2 DEF PInv, IInv, Accounting
<1> QED
  BY <1>1, <1>3, Numbers

LEMMA EndOfFileEInv == PInv /\ EInv /\ EndOfFile => EInv'
<1> SUFFICES ASSUME PInv, EInv, EndOfFile PROVE EInv'
  OBVIOUS
<1>1. /\ UNCHANGED guardVars /\ Room > 0 /\ pos = tape.len
      /\ (InHeader => filled < Block)
      /\ phase \in {"header", "extension", "seek", "verify"}
  BY DEF EndOfFile, NothingLeft
<1>2. UNCHANGED <<tape, pos, handed, filled, emitted, data_remaining, trailer>>
  BY <1>1, GuardRests DEF PInv
<1>3. TheEnd' = TheEnd /\ (Complete(tape)' <=> Complete(tape))
  BY <1>2, SameEnd
<1>4. CASE phase = "header"
  <2>1. handed < limit
    BY <1>1, <1>4, Numbers, StartOnTape DEF Room, Least
  <2>2. AtHeader /\ emitted = handed - start /\ data_remaining = 0 /\ ~trailer
    BY <1>4, <2>1 DEF PInv, AtHeader
  <2>3. filled < Block
    BY <1>1, <2>2 DEF InHeader
  <2>4. emitted = 0
    BY <2>3, Numbers DEF PInv, IInv, Accounting
  <2>5. handed = start
    <3>1. handed \in Nat /\ start \in Nat
      BY Numbers
    <3> QED
      BY <2>2, <2>4, <3>1
  <2>6. start + Block > tape.len /\ start <= tape.len
    BY <1>1, <2>3, <2>4, <2>5, Numbers
  <2>7. TheEnd = NoSize
    BY <1>4, <2>6, HeaderLeads DEF EInv
  <2>8. phase' = "verify" /\ start' = handed
    BY <1>4, <2>5 DEF EndOfFile
  <2>9. AtVerify'
    BY <1>1, <1>2, <1>3, <2>2, <2>3, <2>7, <2>8 DEF AtVerify
  <2> QED
    BY <2>8, <2>9 DEF EInv, AcceptedIffComplete
<1>5. CASE phase = "extension"
  <2>1. Between /\ handed < limit /\ IsExtension(TheFirst)
    BY <1>1, <1>5, Numbers, StartOnTape DEF PInv, AtExtension, Room, Least
  <2>2. next > tape.len
    BY <1>1, <2>1, EndsInPayload, Numbers DEF Between
  <2>3. /\ ~ZeroBlock(tape, start) /\ Refusal(TheFirst, override) = "none"
        /\ next = start + Block + Padding
        /\ TheEnd = EndFrom(start, override)
    BY <1>5, <2>1 DEF EInv, Padding, PayloadSize
  <2>4. start <= tape.len /\ start + Block <= tape.len
    BY <2>1, Numbers DEF Between
  <2>5. \A size : EndFrom(next, size) = NoSize
    BY <2>2, Numbers DEF EndFrom
  <2>6. TheEnd = NoSize
    BY <2>3, <2>4, <2>5, HeaderLeads
  <2>7. phase' = "seek" /\ next' = next /\ override' = override
    BY <1>5 DEF EndOfFile, Goto
  <2>8. TheEnd' = EndFrom(next, override)'
    BY <1>2, <1>3, <2>5, <2>6, <2>7, SameEnd DEF EndFrom
  <2> QED
    BY <2>7, <2>8 DEF EInv, AcceptedIffComplete
<1>6. CASE phase = "seek"
  <2>1. Between /\ handed < limit
    BY <1>1, <1>6, Numbers, StartOnTape DEF PInv, AtSeek, Room, Least
  <2>2. next > tape.len
    BY <1>1, <2>1, EndsInPayload, Numbers DEF Between
  <2>3. TheEnd = NoSize
    BY <1>6, <2>2, Numbers DEF EInv, EndFrom
  <2>4. Goto("rejected")
    BY <1>6 DEF EndOfFile
  <2> QED
    BY <1>2, <2>3, <2>4, NoEnd, RejectEInv
<1>7. CASE phase = "verify"
  <2>1. Goto(IF WholeTrailer THEN "accepted" ELSE "rejected")
    BY <1>7 DEF EndOfFile
  <2>2. AtVerify
    BY <1>7 DEF EInv
  <2>3. CASE trailer
    <3>1. Block <= start /\ start <= handed /\ TheEnd = start - Block /\ ~Dirty(TheEnd, handed)
      BY <2>2, <2>3 DEF AtVerify
    <3>2. handed = tape.len
      <4>1. filled = 0 /\ emitted = 0
        BY <2>3 DEF PInv, IInv, Accounting, SpentOnce
      <4> QED
        BY <1>1, <4>1, Numbers
    <3>3. TheEnd \in Nat /\ TheEnd # NoSize
      BY <3>1, Numbers DEF NoSize
    <3>4. CASE WholeTrailer
      <4>1. TheEnd + 2 * Block <= tape.len
        BY <3>1, <3>2, <3>4, Numbers DEF WholeTrailer
      <4>2. \A b \in tape.dirty : b < TheEnd
        <5> TAKE b \in tape.dirty
        <5>1. b \in Nat /\ b <= tape.len - 1
          BY TapeIs, Numbers
        <5>2. ~(b \in TheEnd .. handed - 1)
          BY <3>1 DEF Dirty
        <5> QED
          BY <3>2, <3>3, <5>1, <5>2, Numbers
      <4>3. Complete(tape)
        BY <3>3, <4>1, <4>2 DEF Complete, TheEnd
      <4>4. phase' = "accepted"
        BY <2>1, <3>4 DEF Goto
      <4> QED
        BY <1>2, <1>3, <3>2, <4>3, <4>4 DEF EInv, AcceptedIffComplete
    <3>5. CASE ~WholeTrailer
      <4>1. ~(TheEnd + 2 * Block <= tape.len)
        BY <3>1, <3>2, <3>5, Numbers DEF WholeTrailer
      <4>2. ~Complete(tape)
        BY <4>1 DEF Complete, TheEnd
      <4> QED
        BY <1>2, <2>1, <3>5, <4>2, RejectEInv
    <3> QED
      BY <3>4, <3>5
  <2>4. CASE ~trailer
    <3>1. handed = start /\ TheEnd = NoSize
      BY <2>2, <2>4 DEF AtVerify
    <3>2. ~WholeTrailer
      BY <3>1, Numbers DEF WholeTrailer
    <3> QED
      BY <1>2, <2>1, <3>1, <3>2, NoEnd, RejectEInv
  <2> QED
    BY <2>3, <2>4
<1> QED
  BY <1>1, <1>4, <1>5, <1>6, <1>7

LEMMA ReadHeaderEInv == PInv /\ EInv /\ ReadHeader => EInv'
<1> SUFFICES ASSUME PInv, EInv, ReadHeader PROVE EInv'
  OBVIOUS
<1>1. UNCHANGED guardVars /\ phase = "header" /\ handed = limit
  BY DEF ReadHeader
<1>2. UNCHANGED <<tape, handed, trailer>>
  BY <1>1, GuardRests DEF PInv
<1>3. AtHeader /\ limit = start + Block /\ emitted = 0 /\ Visited
  BY <1>1, Numbers DEF PInv, AtHeader
<1>4. start <= tape.len /\ start + Block <= tape.len /\ TheEnd = EndFrom(start, override)
  BY <1>1, <1>3, Numbers DEF EInv
<1>5. CASE phase' \in {"refused", "unguarded"}
  BY <1>5 DEF EInv, AcceptedIffComplete
<1>6. CASE ZeroBlock(tape, start) /\ phase' = "verify" /\ start' = handed
  <2>1. trailer
    BY <1>3, <1>6 DEF Visited, PInv, IInv, SpentOnce
  <2>2. TheEnd = start
    BY <1>4, <1>6, HeaderLeads
  <2>3. ~Dirty(TheEnd, handed)
    <3>1. handed - 1 = start + Block - 1
      BY <1>1, <1>3, Numbers
    <3> QED
      BY <1>6, <2>2, <3>1 DEF Dirty, ZeroBlock
  <2>4. TheEnd' = TheEnd /\ (Dirty(TheEnd, handed)' <=> Dirty(TheEnd, handed))
    BY <1>2, SameEnd DEF Dirty
  <2>5. AtVerify'
    BY <1>1, <1>2, <1>3, <1>6, <2>1, <2>2, <2>3, <2>4, Numbers DEF AtVerify
  <2> QED
    BY <1>6, <2>5 DEF EInv, AcceptedIffComplete
<1>7. CASE /\ ~ZeroBlock(tape, start)
           /\ phase' = IF IsExtension(TheFirst) THEN "extension" ELSE "member"
           /\ start' = start
           /\ next' = start + Block + Padding
           /\ override' = IF IsExtension(TheFirst) THEN override ELSE NoSize
  <2>1. Refusal(TheFirst, override) = "none"
    BY <1>3, <1>7 DEF Visited
  <2>2. TheFirst \in Header
    BY <1>1, <1>3, Numbers, FirstIsHeader
  <2>3. TheEnd' = TheEnd /\ TheFirst' = TheFirst
        /\ \A o, size : EndFrom(o, size)' = EndFrom(o, size)
    BY <1>2, <1>7, SameEnd DEF TheFirst
  <2>4. CASE IsExtension(TheFirst)
    <3>1. next' = start + Block + Padded(TheFirst.size)
      BY <1>7, <2>4 DEF Padding, PayloadSize
    <3>2. EndFrom(start, override)' = EndFrom(start, override)
      BY <1>2, <1>7, <2>4 DEF EndFrom
    <3> QED
      BY <1>2, <1>4, <1>7, <2>1, <2>3, <2>4, <3>1, <3>2 DEF EInv, AcceptedIffComplete, ZeroBlock
  <2>5. CASE ~IsExtension(TheFirst)
    <3>1. TheFirst.kind # "pax" /\ TheFirst.kind # "long"
      BY <2>5 DEF IsExtension
    <3>2. TheEnd = EndFrom(start + Block + Padding, NoSize)
      BY <1>4, <1>7, <2>1, <3>1, HeaderLeads
    <3>3. phase' = "member" /\ override' = NoSize /\ next' = start + Block + Padding
      BY <1>7, <2>5
    <3>4. TheEnd' = EndFrom(next, override)'
      BY <1>2, <2>3, <3>2, <3>3 DEF EndFrom
    <3> QED
      BY <3>3, <3>4 DEF EInv, AcceptedIffComplete
  <2> QED
    BY <2>4, <2>5
<1> QED
  BY <1>5, <1>6, <1>7 DEF ReadHeader, TheFirst, Padding, Goto

LEMMA ReadExtensionEInv == PInv /\ EInv /\ ReadExtension => EInv'
<1> SUFFICES ASSUME PInv, EInv, ReadExtension PROVE EInv'
  OBVIOUS
<1>1. UNCHANGED guardVars /\ phase = "extension" /\ handed = limit
  BY DEF ReadExtension
<1>2. tape' = tape
  BY <1>1, GuardRests DEF PInv
<1>3. Between /\ IsExtension(TheFirst)
  BY <1>1 DEF PInv, AtExtension
<1>4. /\ ~ZeroBlock(tape, start) /\ Refusal(TheFirst, override) = "none"
      /\ next = start + Block + Padding
      /\ TheEnd = EndFrom(start, override)
  BY <1>1, <1>3 DEF EInv, Padding, PayloadSize
<1>5. start <= tape.len /\ start + Block <= tape.len
  BY <1>3, Numbers DEF Between
<1>6. CASE TheFirst.kind = "pax" /\ TheFirst.pax = Bad /\ Goto("rejected")
  <2>1. TheEnd = NoSize
    BY <1>4, <1>5, <1>6, HeaderLeads
  <2> QED
    BY <1>2, <1>6, <2>1, NoEnd, RejectEInv
<1>7. CASE /\ TheFirst.kind = "pax" => TheFirst.pax # Bad
           /\ phase' = "seek"
           /\ override' = IF TheFirst.kind = "pax" THEN TheFirst.pax ELSE override
           /\ UNCHANGED <<start, next>>
  <2>1. TheFirst.kind = "pax" \/ TheFirst.kind = "long"
    BY <1>3 DEF IsExtension
  <2>2. TheEnd = EndFrom(next, override')
    <3>1. override' = IF TheFirst.kind = "pax" THEN TheFirst.pax
                      ELSE IF TheFirst.kind = "long" THEN override ELSE NoSize
      BY <1>7, <2>1
    <3> QED
      BY <1>4, <1>5, <1>7, <3>1, HeaderLeads
  <2>3. TheEnd' = EndFrom(next, override)'
    BY <1>2, <1>7, <2>2, SameEnd DEF EndFrom
  <2> QED
    BY <1>7, <2>3 DEF EInv, AcceptedIffComplete
<1> QED
  BY <1>6, <1>7 DEF ReadExtension, TheFirst

LEMMA LeaveMemberEInv == PInv /\ EInv /\ LeaveMember => EInv'
<1> SUFFICES ASSUME PInv, EInv, LeaveMember PROVE EInv'
  OBVIOUS
<1>1. /\ UNCHANGED guardVars /\ phase = "member" /\ phase' = "seek"
      /\ UNCHANGED <<next, override>>
  BY DEF LeaveMember
<1>2. tape' = tape
  BY <1>1, GuardRests DEF PInv
<1>3. TheEnd = EndFrom(next, override)
  BY <1>1 DEF EInv
<1>4. TheEnd' = EndFrom(next, override)'
  BY <1>1, <1>2, <1>3, SameEnd DEF EndFrom
<1> QED
  BY <1>1, <1>4 DEF EInv, AcceptedIffComplete

LEMMA ArriveEInv == PInv /\ EInv /\ ArriveAtHeader => EInv'
<1> SUFFICES ASSUME PInv, EInv, ArriveAtHeader PROVE EInv'
  OBVIOUS
<1>1. /\ UNCHANGED guardVars /\ phase = "seek" /\ phase' = "header"
      /\ start' = next /\ UNCHANGED override
  BY DEF ArriveAtHeader
<1>2. tape' = tape
  BY <1>1, GuardRests DEF PInv
<1>3. TheEnd = EndFrom(next, override)
  BY <1>1 DEF EInv
<1>4. TheEnd' = EndFrom(start, override)'
  BY <1>1, <1>2, <1>3, SameEnd DEF EndFrom
<1> QED
  BY <1>1, <1>4 DEF EInv, AcceptedIffComplete

LEMMA RestEInv == PInv /\ EInv /\ UNCHANGED vars => EInv'
<1> SUFFICES ASSUME PInv, EInv, UNCHANGED vars PROVE EInv'
  OBVIOUS
<1>1. UNCHANGED guardVars /\ UNCHANGED <<phase, start, limit, next, override>>
  BY DEF vars, parserVars
<1>2. UNCHANGED <<tape, pos, handed, filled, data_remaining, trailer>>
  BY <1>1, GuardRests DEF PInv
<1>3. /\ TheEnd' = TheEnd /\ (Complete(tape)' <=> Complete(tape)) /\ TheFirst' = TheFirst
      /\ EndFrom(start, override)' = EndFrom(start, override)
      /\ EndFrom(next, override)' = EndFrom(next, override)
  BY <1>1, <1>2, SameEnd DEF TheFirst, EndFrom
<1>4. AtVerify => AtVerify'
  <2>1. Dirty(TheEnd, handed)' <=> Dirty(TheEnd, handed)
    BY <1>2, <1>3 DEF Dirty
  <2> QED
    BY <1>1, <1>2, <1>3, <2>1 DEF AtVerify
<1>5. AcceptedIffComplete => AcceptedIffComplete'
  BY <1>1, <1>2, <1>3 DEF AcceptedIffComplete
<1> QED
  BY <1>1, <1>2, <1>3, <1>4, <1>5 DEF EInv, ZeroBlock

LEMMA NextEInv == PInv /\ EInv /\ [Next]_vars => EInv'
  BY PollEInv, PollRefusedEInv, PollStallsEInv, EndOfFileEInv, ReadHeaderEInv,
     ReadExtensionEInv, LeaveMemberEInv, ArriveEInv, RestEInv
     DEF Next

(* next_entry answers "end" for a complete archive alone, read to its last *)
(* byte, and an error of the guard, of the parser's records or of          *)
(* verify_end never hits a complete one: for every tape and every cutting  *)
(* of it into reads (guard.rs:99-156, reader.rs:228-253).                  *)
THEOREM AcceptsExactlyComplete == Spec => []AcceptedIffComplete
<1>1. EInv => AcceptedIffComplete
  BY DEF EInv
<1> QED
  BY <1>1, InitEInv, NextEInv, ParserInvariant, PTL DEF Spec
=============================================================================
