--------------------------- MODULE ByteCapsProofs ---------------------------
(***************************************************************************)
(* Proofs about ByteCaps, for every set of sources, every choice of the    *)
(* limits, every width of the counters and every length of reads.          *)
(***************************************************************************)
EXTENDS ByteCaps, TLAPS

(* Meter has counted exactly what the source gave, the peek included.      *)
Metered == encoded = pos /\ seen <= pos

(* Nothing happens in Cap before the decoder is chosen, and then either    *)
(* the whole magic was seen or the source was shorter.                     *)
PeekFirst ==
  /\ ~open => /\ decoded = 0 /\ handed = 0 /\ ~cap_failed
              /\ seen = pos
              /\ answer \in {"pending", "Io"}
  /\ open => seen = PeekLen \/ seen = source.len

(* Cap has failed exactly when it charged bytes that it did not hand on.   *)
FailedIsGap == cap_failed <=> handed < decoded

(* What is not compressed is not more than what was pulled.                *)
PlainIsPulled == ~source.zstd => decoded <= pos

(* A limit is named, or a poll refused, only by a Cap that has failed.     *)
NamedWhenFailed == answer \in Breaches => cap_failed

(* The invariant that is inductive.                                        *)
IInv ==
  /\ TypeOK
  /\ Metered
  /\ PeekFirst
  /\ FailedIsGap
  /\ PlainIsPulled
  /\ NamedWhenFailed
  /\ CapsHold
  /\ ErrorIsTrue
  /\ NothingLost

-----------------------------------------------------------------------------
(* More input allows no less output.                                       *)
LEMMA TimesMonotone ==
  ASSUME NEW a \in Nat, NEW b \in Nat, NEW r \in Nat, a <= b
  PROVE  a * r \in Nat /\ b * r \in Nat /\ a * r <= b * r
<1>1. PICK d \in Nat : b = a + d
  <2>1. b - a \in Nat /\ b = a + (b - a)
    OBVIOUS
  <2> QED
    BY <2>1
<1>2. b * r = a * r + d * r
  BY <1>1
<1>3. a * r \in Nat /\ d * r \in Nat
  BY <1>1
<1> QED
  BY <1>2, <1>3

(* The constants and the fields of a source, as numbers.                   *)
LEMMA Numbers ==
  ASSUME source \in Sources, limits \in LimitSets
  PROVE  /\ source.len \in Nat /\ source.out \in Nat
         /\ source.len <= MaxU64 /\ source.out <= MaxU64
         /\ source.zstd \in BOOLEAN /\ source.flaw \in Flaws
         /\ source.zstd => source.len >= PeekLen
         /\ ~source.zstd => source.out = source.len
         /\ limits.total \in Nat /\ limits.ratio \in Nat
         /\ MaxU64 \in Nat /\ Floor \in Nat /\ PeekLen \in Nat /\ PeekLen > 0
         /\ Chunk \in Nat
  BY ByteCapsAssumption DEF IsSource

(* The variables of a reachable state, as numbers.                         *)
LEMMA Counters ==
  ASSUME IInv
  PROVE  /\ source \in Sources /\ limits \in LimitSets
         /\ pos \in Nat /\ pos <= source.len
         /\ encoded = pos
         /\ seen \in Nat /\ seen <= PeekLen /\ seen <= pos
         /\ decoded \in Nat /\ decoded <= source.out
         /\ handed \in Nat /\ handed <= decoded
         /\ open \in BOOLEAN /\ cap_failed \in BOOLEAN /\ broken \in BOOLEAN
         /\ answer \in Answers
<1>1. source \in Sources /\ limits \in LimitSets
  BY DEF IInv, TypeOK
<1> QED
  BY <1>1, Numbers DEF IInv, TypeOK, Metered

(* A source that begins with the magic is decoded as zstd, every other one *)
(* as it stands: whatever lengths the reads of the peek had.               *)
LEMMA MagicDecides ==
  ASSUME IInv, open
  PROVE  Zstd <=> source.zstd
<1>1. source.zstd => seen = PeekLen
  BY Counters, Numbers DEF IInv, PeekFirst
<1> QED
  BY <1>1, Counters, Numbers DEF Zstd

(* What a breach means in numbers that do not saturate.                    *)
LEMMA BreachMeans ==
  ASSUME IInv, open, NEW now \in Nat, 0 < now, now <= source.out,
         ~source.zstd => now <= pos
  PROVE  /\ Breach(now) \in {"none", "max_total_bytes", "max_compression_ratio"}
         /\ Breach(now) = "none" =>
              now <= limits.total /\ (now > Floor => now <= encoded * limits.ratio)
         /\ Breach(now) = "max_total_bytes" => now > limits.total
         /\ Breach(now) = "max_compression_ratio" =>
              /\ now <= limits.total /\ now > Floor
              /\ now > encoded * limits.ratio
<1>1. encoded \in Nat /\ encoded > 0
  BY Counters, Numbers DEF IInv, PeekFirst
<1>2. now <= MaxU64
  BY Counters, Numbers
<1> DEFINE product == encoded * limits.ratio
<1>3. product \in Nat
  BY <1>1, Counters, Numbers
<1>4. Saturating(encoded, limits.ratio) = IF product > MaxU64 THEN MaxU64 ELSE product
  BY DEF Saturating
<1> HIDE DEF product
<1>5. now > Saturating(encoded, limits.ratio) <=> now > product
  BY <1>2, <1>3, <1>4, Counters, Numbers
<1>6. Breach(now) = IF now > limits.total THEN "max_total_bytes"
                    ELSE IF now > Floor /\ now > product THEN "max_compression_ratio"
                    ELSE "none"
  BY <1>1, <1>5 DEF Breach
<1>7. /\ Breach(now) \in {"none", "max_total_bytes", "max_compression_ratio"}
      /\ Breach(now) = "none" => now <= limits.total /\ (now > Floor => now <= product)
      /\ Breach(now) = "max_total_bytes" => now > limits.total
      /\ Breach(now) = "max_compression_ratio" =>
           now <= limits.total /\ now > Floor /\ now > product
  BY <1>3, <1>6, Counters, Numbers
<1> QED
  BY <1>7 DEF product

-----------------------------------------------------------------------------
LEMMA InitIInv == Init => IInv
<1> SUFFICES ASSUME Init PROVE IInv
  OBVIOUS
<1>1. source \in Sources /\ limits \in LimitSets
  BY DEF Init
<1>2. TypeOK
  <2>1. answer \in Answers
    BY DEF Init, Answers, Breaches
  <2>2. /\ pos \in 0 .. source.len /\ encoded \in 0 .. MaxU64 /\ seen \in 0 .. PeekLen
        /\ decoded \in 0 .. source.out /\ handed \in 0 .. decoded
    BY <1>1, Numbers DEF Init
  <2> QED
    BY <1>1, <2>1, <2>2 DEF Init, TypeOK
<1>3. Metered /\ PeekFirst
  BY <1>1, Numbers DEF Init, Metered, PeekFirst
<1>4. FailedIsGap /\ PlainIsPulled /\ NamedWhenFailed
  BY <1>1, Numbers DEF Init, FailedIsGap, PlainIsPulled, NamedWhenFailed, Breaches
<1>5. CapsHold /\ ErrorIsTrue /\ NothingLost
  BY <1>1, Numbers DEF Init, CapsHold, ErrorIsTrue, NothingLost, Flaws, Breaches
<1> QED
  BY <1>2, <1>3, <1>4, <1>5 DEF IInv

(* compress::decoded: Cap is not reached.                                  *)
LEMMA PeekIInv == IInv /\ Peek => IInv'
<1> SUFFICES ASSUME IInv, Peek PROVE IInv'
  OBVIOUS
<1>1. /\ source' = source /\ limits' = limits /\ decoded' = 0 /\ handed' = 0
      /\ cap_failed' = FALSE /\ decoded = 0 /\ handed = 0
      /\ answer' \in {"pending", "Io"}
      /\ broken' \in BOOLEAN /\ (answer' = "Io" => broken')
      /\ ~open /\ seen = pos
  <2>1. source' = source /\ limits' = limits /\ ~open /\ answer # "Io"
        /\ UNCHANGED <<decoded, cap_failed, handed>>
    BY DEF Peek, fixed
  <2>2. \/ UNCHANGED <<broken, answer>>
        \/ answer' = "Io" /\ broken' = TRUE
    BY DEF Peek, PeekSome, PeekEnd, PeekFails
  <2> QED
    BY <2>1, <2>2, Counters DEF IInv, PeekFirst
<1>2. /\ pos' \in Nat /\ pos' <= source.len /\ encoded' = pos' /\ seen' = pos'
      /\ seen' <= PeekLen /\ open' \in BOOLEAN
      /\ open' => seen' = PeekLen \/ seen' = source.len
  <2>1. CASE \E k \in 1 .. PeekLen - seen : pos + k <= source.len /\ PeekSome(k)
    BY <2>1, <1>1, Counters, Numbers DEF PeekSome, PeekedEnough
  <2>2. CASE PeekEnd
    BY <2>2, <1>1, Counters, Numbers DEF PeekEnd
  <2>3. CASE PeekFails
    BY <2>3, <1>1, Counters, Numbers DEF PeekFails
  <2> QED
    BY <2>1, <2>2, <2>3 DEF Peek
<1>3. TypeOK'
  <2>1. answer' \in Answers
    BY <1>1 DEF Answers, Breaches
  <2>2. source \in Sources /\ limits \in LimitSets
    BY Counters
  <2>3. /\ pos' \in 0 .. source.len /\ encoded' \in 0 .. MaxU64 /\ seen' \in 0 .. PeekLen
        /\ decoded' \in 0 .. source.out /\ handed' \in 0 .. decoded'
    BY <1>1, <1>2, <2>2, Numbers
  <2> QED
    BY <2>1, <2>2, <2>3, <1>1, <1>2 DEF TypeOK
<1>4. Metered' /\ PeekFirst'
  BY <1>1, <1>2 DEF Metered, PeekFirst
<1>5. FailedIsGap' /\ PlainIsPulled' /\ NamedWhenFailed'
  BY <1>1, <1>2 DEF FailedIsGap, PlainIsPulled, NamedWhenFailed, Breaches
<1>6. CapsHold' /\ ErrorIsTrue' /\ NothingLost'
  BY <1>1, <1>2, Counters, Numbers DEF CapsHold, ErrorIsTrue, NothingLost, Flaws, Breaches
<1> QED
  BY <1>3, <1>4, <1>5, <1>6 DEF IInv

(* More input only makes room below the ratio.                             *)
LEMMA PullIInv == IInv /\ Pull => IInv'
<1> SUFFICES ASSUME IInv, Pull PROVE IInv'
  OBVIOUS
<1>1. PICK k \in 1 .. Chunk : pos + k <= source.len /\ pos' = pos + k /\ encoded' = encoded + k
  BY DEF Pull
<1>2. /\ open /\ ~cap_failed
      /\ UNCHANGED <<source, limits, seen, open, decoded, cap_failed, handed, broken, answer>>
  BY DEF Pull, Polls, fixed
<1>3. TypeOK' /\ Metered'
  BY <1>1, <1>2, Counters, Numbers DEF IInv, TypeOK, Metered
<1>4. PeekFirst' /\ FailedIsGap' /\ NamedWhenFailed'
  BY <1>2 DEF IInv, PeekFirst, FailedIsGap, NamedWhenFailed
<1>5. PlainIsPulled'
  BY <1>1, <1>2, Counters, Numbers DEF IInv, PlainIsPulled
<1>6. CapsHold'
  <2>1. encoded * limits.ratio <= encoded' * limits.ratio
        /\ encoded * limits.ratio \in Nat /\ encoded' * limits.ratio \in Nat
    BY <1>1, Counters, Numbers, TimesMonotone
  <2> QED
    BY <2>1, <1>2, Counters, Numbers DEF IInv, CapsHold
<1>7. ErrorIsTrue'
  BY <1>2 DEF IInv, ErrorIsTrue, NamedWhenFailed, Breaches, Flaws
<1>8. NothingLost'
  BY <1>1, <1>2, Counters, Numbers DEF IInv, NothingLost
<1> QED
  BY <1>3, <1>4, <1>5, <1>6, <1>7, <1>8 DEF IInv

(* What Cap charges never exceeds what the source decodes to.              *)
LEMMA EmitBounds ==
  ASSUME IInv, NEW n \in 1 .. Chunk, Emit(n)
  PROVE  /\ open /\ ~cap_failed /\ handed = decoded
         /\ decoded' = decoded + n
         /\ decoded' \in Nat /\ 0 < decoded' /\ decoded < decoded'
         /\ decoded' <= source.out
         /\ ~source.zstd => decoded' <= pos
         /\ UNCHANGED <<source, limits, pos, encoded, seen, open, broken>>
<1>1. open /\ ~cap_failed /\ decoded' = decoded + n
      /\ UNCHANGED <<source, limits, pos, encoded, seen, open, broken>>
      /\ IF Zstd THEN decoded + n <= source.out ELSE n <= Buffered
  BY DEF Emit, Polls, fixed
<1>2. handed = decoded
  BY <1>1, Counters, Numbers DEF IInv, FailedIsGap
<1>3. Zstd <=> source.zstd
  BY <1>1, MagicDecides
<1>4. decoded' <= source.out /\ (~source.zstd => decoded' <= pos)
  BY <1>1, <1>3, Counters, Numbers DEF Buffered, Replayed
<1> QED
  BY <1>1, <1>2, <1>4, Counters, Numbers

(* Either the bytes stay within both limits, or they are taken back.       *)
LEMMA EmitIInv == ASSUME NEW n \in 1 .. Chunk PROVE IInv /\ Emit(n) => IInv'
<1> SUFFICES ASSUME IInv, Emit(n) PROVE IInv'
  OBVIOUS
<1>1. /\ open /\ ~cap_failed /\ handed = decoded
      /\ decoded' = decoded + n
      /\ decoded' \in Nat /\ 0 < decoded' /\ decoded < decoded'
      /\ decoded' <= source.out
      /\ ~source.zstd => decoded' <= pos
      /\ UNCHANGED <<source, limits, pos, encoded, seen, open, broken>>
  BY EmitBounds
<1> DEFINE why == Breach(decoded')
<1>2. /\ why \in {"none", "max_total_bytes", "max_compression_ratio"}
      /\ why = "none" =>
           /\ decoded' <= limits.total
           /\ decoded' > Floor => decoded' <= encoded * limits.ratio
      /\ why = "max_total_bytes" => decoded' > limits.total
      /\ why = "max_compression_ratio" =>
           /\ decoded' <= limits.total /\ decoded' > Floor
           /\ decoded' > encoded * limits.ratio
  BY <1>1, BreachMeans
<1>3. \/ /\ why = "none" /\ handed' = decoded' /\ answer' = "bytes" /\ cap_failed' = FALSE
      \/ /\ why # "none" /\ handed' = decoded /\ answer' = why /\ cap_failed' = TRUE
  <2>1. ReadError(why, decoded') = why
    <3> HIDE DEF why
    <3> QED
      BY <1>1, <1>2, Counters, Numbers DEF ReadError
  <2> HIDE DEF why
  <2>2. \/ why = "none" /\ handed' = handed + n /\ answer' = "bytes" /\ UNCHANGED cap_failed
        \/ why # "none" /\ TakeBack(n)
    BY DEF Emit, why
  <2> QED
    BY <1>1, <2>1, <2>2 DEF TakeBack, why
<1>4. Metered' /\ PeekFirst'
  BY <1>1 DEF IInv, Metered, PeekFirst
<1>5. PlainIsPulled'
  BY <1>1 DEF PlainIsPulled
<1> HIDE DEF why
<1>6. TypeOK'
  <2>1. answer' \in Answers
    BY <1>2, <1>3 DEF Answers, Breaches
  <2>2. handed' \in 0 .. decoded'
    BY <1>1, <1>3, Counters
  <2>3. decoded' \in 0 .. source'.out
    BY <1>1, Counters, Numbers
  <2>4. cap_failed' \in BOOLEAN
    BY <1>3
  <2> QED
    BY <2>1, <2>2, <2>3, <2>4, <1>1 DEF IInv, TypeOK
<1>7. FailedIsGap' /\ NamedWhenFailed'
  BY <1>1, <1>3, Counters DEF FailedIsGap, NamedWhenFailed, Breaches
<1>8. CapsHold'
  BY <1>1, <1>2, <1>3 DEF IInv, CapsHold
<1>9. ErrorIsTrue'
  <2>1. CASE answer' = "bytes"
    <3>1. handed' = decoded' /\ decoded' <= limits'.total
      BY <2>1, <1>1, <1>2, <1>3
    <3> QED
      BY <2>1, <3>1 DEF ErrorIsTrue, Flaws
  <2>2. CASE answer' = "max_total_bytes"
    BY <2>2, <1>1, <1>2, <1>3 DEF ErrorIsTrue, Flaws, Breaches
  <2>3. CASE answer' = "max_compression_ratio"
    <3>1. decoded' \in Floor + 1 .. limits'.total /\ decoded' > encoded' * limits'.ratio
      BY <2>3, <1>1, <1>2, <1>3, Counters, Numbers
    <3> QED
      BY <2>3, <3>1 DEF ErrorIsTrue, Flaws, Breaches
  <2> QED
    BY <2>1, <2>2, <2>3, <1>2, <1>3
<1>10. NothingLost'
  BY <1>2, <1>3 DEF NothingLost
<1> QED
  BY <1>4, <1>5, <1>6, <1>7, <1>8, <1>9, <1>10 DEF IInv

(* A poll that moves no byte changes nothing but the answer.               *)
LEMMA OnlyAnswer ==
  ASSUME IInv, answer' \in Answers, broken' \in BOOLEAN,
         UNCHANGED <<fixed, pos, encoded, seen, open, decoded, cap_failed, handed>>
  PROVE  TypeOK' /\ Metered' /\ FailedIsGap' /\ PlainIsPulled' /\ CapsHold'
         /\ (open => PeekFirst')
<1>1. UNCHANGED <<source, limits, pos, encoded, seen, open, decoded, cap_failed, handed>>
  BY DEF fixed
<1>2. TypeOK'
  BY <1>1 DEF IInv, TypeOK
<1> QED
  BY <1>1, <1>2 DEF IInv, Metered, FailedIsGap, PlainIsPulled, CapsHold, PeekFirst

(* A Cap that has not failed has handed on all it charged.                 *)
LEMMA NothingHidden ==
  ASSUME IInv, ~cap_failed
  PROVE  handed = decoded /\ decoded <= limits.total
<1>1. handed = decoded
  BY Counters DEF IInv, FailedIsGap
<1> QED
  BY <1>1 DEF IInv, CapsHold

LEMMA EndIInv == IInv /\ End => IInv'
<1> SUFFICES ASSUME IInv, End PROVE IInv'
  OBVIOUS
<1>1. /\ open /\ ~cap_failed /\ answer' = "end" /\ pos = source.len
      /\ UNCHANGED <<source, limits, pos, encoded, seen, open, decoded, cap_failed, handed, broken>>
      /\ IF Zstd THEN decoded = source.out ELSE Buffered = 0
  BY DEF End, Polls, fixed
<1>2. TypeOK' /\ Metered' /\ FailedIsGap' /\ PlainIsPulled' /\ CapsHold' /\ PeekFirst'
  BY <1>1, Counters, OnlyAnswer DEF Answers, fixed
<1>3. NamedWhenFailed' /\ ErrorIsTrue'
  <2>1. handed = decoded /\ decoded <= limits.total
    BY <1>1, NothingHidden
  <2> QED
    BY <1>1, <2>1 DEF NamedWhenFailed, Breaches, ErrorIsTrue, Flaws
<1>4. decoded = source.out
  <2>1. Zstd <=> source.zstd
    BY <1>1, MagicDecides
  <2> QED
    BY <2>1, <1>1, Counters, Numbers DEF Buffered, Replayed
<1>5. handed = decoded /\ encoded = pos
  BY <1>1, Counters, Numbers DEF IInv, FailedIsGap
<1>6. NothingLost'
  BY <1>1, <1>4, <1>5 DEF NothingLost
<1> QED
  BY <1>2, <1>3, <1>6 DEF IInv

(* Below the cap an error keeps its own name.                              *)
LEMMA PollFailsIInv == IInv /\ PollFails => IInv'
<1> SUFFICES ASSUME IInv, PollFails PROVE IInv'
  OBVIOUS
<1>1. /\ open /\ ~cap_failed
      /\ UNCHANGED <<fixed, pos, encoded, seen, open, decoded, cap_failed, handed>>
      /\ UNCHANGED <<source, limits>>
  BY DEF PollFails, Polls, fixed
<1>2. handed = decoded /\ decoded <= limits.total
  BY <1>1, NothingHidden
<1>3. \/ answer' = "Io" /\ broken' = TRUE
      \/ answer' = source.flaw /\ source.flaw # "none" /\ broken' = broken
  <2>1. ~(decoded > limits.total)
    BY <1>2, Counters, Numbers
  <2> QED
    BY <2>1, Counters, Numbers DEF PollFails, ReadError, Flaws
<1>4. answer' \in Answers /\ answer' \notin Breaches \cup {"end"}
  BY <1>3, Counters, Numbers DEF Answers, Flaws, Breaches
<1>5. TypeOK' /\ Metered' /\ FailedIsGap' /\ PlainIsPulled' /\ CapsHold' /\ PeekFirst'
  BY <1>1, <1>3, <1>4, Counters, OnlyAnswer
<1>6. NamedWhenFailed' /\ NothingLost'
  BY <1>4 DEF NamedWhenFailed, NothingLost
<1>7. ErrorIsTrue'
  <2>1. handed' = decoded' /\ decoded' <= limits'.total
    BY <1>1, <1>2
  <2>2. answer' \notin Breaches /\ source' = source
    BY <1>1, <1>4
  <2>3. answer' = "Io" => broken'
    BY <1>3, Numbers, Counters DEF Flaws
  <2>4. answer' \in Flaws => answer' = source'.flaw
    BY <1>3, <2>2 DEF Flaws
  <2> QED
    BY ONLY <2>1, <2>2, <2>3, <2>4 DEF ErrorIsTrue, Breaches
<1> QED
  BY <1>5, <1>6, <1>7 DEF IInv

LEMMA PollAbortedIInv == IInv /\ PollAborted => IInv'
<1> SUFFICES ASSUME IInv, PollAborted PROVE IInv'
  OBVIOUS
<1>1. /\ cap_failed /\ answer' = "aborted"
      /\ UNCHANGED <<fixed, pos, encoded, seen, open, decoded, cap_failed, handed, broken>>
  BY DEF PollAborted
<1>2. open
  BY <1>1, Counters DEF IInv, PeekFirst
<1>3. TypeOK' /\ Metered' /\ FailedIsGap' /\ PlainIsPulled' /\ CapsHold' /\ PeekFirst'
  BY <1>1, <1>2, Counters, OnlyAnswer DEF Answers, Breaches
<1>4. handed' < decoded' /\ cap_failed'
  BY <1>1 DEF IInv, FailedIsGap
<1>5. NamedWhenFailed' /\ NothingLost' /\ ErrorIsTrue'
  BY <1>1, <1>4 DEF NamedWhenFailed, NothingLost, ErrorIsTrue, Flaws, Breaches
<1> QED
  BY <1>3, <1>5 DEF IInv

LEMMA StutterIInv == IInv /\ UNCHANGED vars => IInv'
  BY DEF IInv, vars, TypeOK, Metered, PeekFirst, FailedIsGap, PlainIsPulled,
         NamedWhenFailed, CapsHold, ErrorIsTrue, NothingLost

LEMMA NextIInv == IInv /\ [Next]_vars => IInv'
  BY PeekIInv, PullIInv, EmitIInv, EndIInv, PollFailsIInv, PollAbortedIInv, StutterIInv
     DEF Next

LEMMA CapsInvariant == Spec => []IInv
  BY InitIInv, NextIInv, PTL DEF Spec

-----------------------------------------------------------------------------
(* Every reachable state of the layers is well typed: no counter exceeds   *)
(* what the source has, and nothing wraps (open.rs:243-280).               *)
THEOREM CapsTypeCorrect == Spec => []TypeOK
<1>1. IInv => TypeOK
  BY DEF IInv
<1> QED
  BY <1>1, CapsInvariant, PTL

(* No byte beyond a limit leaves Cap (open.rs:253, 276).                   *)
THEOREM CapsAreKept == Spec => []CapsHold
<1>1. IInv => CapsHold
  BY DEF IInv
<1> QED
  BY <1>1, CapsInvariant, PTL

(* An error has the name of its cause, and no other answer hides that a    *)
(* limit was exceeded (open.rs:149-155, 283-296).                          *)
THEOREM ErrorsAreTrue == Spec => []ErrorIsTrue
<1>1. IInv => ErrorIsTrue
  BY DEF IInv
<1> QED
  BY <1>1, CapsInvariant, PTL

(* A clean end vouches for every byte of the source (compress.rs:14-20).   *)
THEOREM EndVouches == Spec => []NothingLost
<1>1. IInv => NothingLost
  BY DEF IInv
<1> QED
  BY <1>1, CapsInvariant, PTL

(* An archive that is not compressed is not taken for a bomb               *)
(* (reader.rs:131): it decodes to at most what was pulled.                 *)
THEOREM PlainPasses == Spec => []PlainIsNeverSuspect
<1>1. IInv => PlainIsNeverSuspect
  <2> SUFFICES ASSUME IInv, ~source.zstd, limits.ratio > 0,
                      answer = "max_compression_ratio"
               PROVE  FALSE
    BY DEF PlainIsNeverSuspect
  <2>1. decoded > encoded * limits.ratio
    BY DEF IInv, ErrorIsTrue, Flaws
  <2>2. decoded <= encoded
    BY Counters DEF IInv, PlainIsPulled
  <2>3. encoded * 1 <= encoded * limits.ratio
    <3>1. 1 * encoded <= limits.ratio * encoded
      BY Counters, Numbers, TimesMonotone
    <3> QED
      BY <3>1, Counters, Numbers
  <2>4. encoded * limits.ratio \in Nat
    BY Counters, Numbers
  <2> QED
    BY <2>1, <2>2, <2>3, <2>4, Counters, Numbers
<1> QED
  BY <1>1, CapsInvariant, PTL

(* No byte from behind a gap is ever handed on (open.rs:240, 255).         *)
THEOREM GapStaysShut == Spec => NoByteBehindGap
<1>1. IInv /\ [Next]_vars => [handed < decoded => handed' = handed]_vars
  <2> SUFFICES ASSUME IInv, Next, handed < decoded PROVE handed' = handed
    OBVIOUS
  <2>1. cap_failed
    BY DEF IInv, FailedIsGap
  <2> QED
    BY <2>1 DEF Next, Peek, Pull, Emit, End, PollFails, PollAborted, Polls
<1> QED
  BY <1>1, CapsInvariant, PTL DEF Spec, NoByteBehindGap
=============================================================================
