----------------------------- MODULE PaxSizeProofs -----------------------------
(***************************************************************************)
(* Proofs about PaxSize, for every set of payloads and every width.        *)
(***************************************************************************)
EXTENDS PaxSize, SequenceTheorems, FiniteSetTheorems, WellFoundedInduction, TLAPS

-----------------------------------------------------------------------------
(* Numbers.                                                                *)
LEMMA LeastNat ==
  ASSUME NEW T, T \subseteq Nat, T # {}
  PROVE  \E x \in T : \A y \in T : x <= y
<1> DEFINE Less == OpToRel(<, Nat)
<1>1. IsWellFoundedOn(Less, Nat)
  BY NatLessThanWellFounded
<1>2. \A x, y \in Nat : y < x => <<y, x>> \in Less
  BY DEF OpToRel
<1> HIDE DEF Less
<1>3. PICK x \in T : \A y \in T : ~(<<y, x>> \in Less)
  BY <1>1, WFMin
<1>4. \A y \in T : ~(y < x)
  BY <1>2, <1>3
<1>5. \A y \in T : x <= y
  BY <1>4
<1> QED
  BY <1>5

(* Induction on the natural numbers, as a statement about a set of them.   *)
LEMMA Induct ==
  ASSUME NEW T, T \subseteq Nat, 0 \in T, \A n \in T : n + 1 \in T
  PROVE  T = Nat
<1> SUFFICES ASSUME Nat \ T # {} PROVE FALSE
  OBVIOUS
<1>1. PICK x \in Nat \ T : \A y \in Nat \ T : x <= y
  BY LeastNat
<1>2. x # 0 /\ x - 1 \in Nat
  OBVIOUS
<1>3. x - 1 \in T
  BY <1>1, <1>2
<1>4. (x - 1) + 1 = x
  BY <1>2
<1> QED
  BY <1>3, <1>4

(* A chain of steps, each of which takes an integer to an integer.         *)
LEMMA Chain ==
  ASSUME NEW n \in Nat, NEW step \in [1 .. n -> [Int -> Int]]
  PROVE  \E f \in [0 .. n -> Int] : f[0] = 0 /\ \A i \in 1 .. n : f[i] = step[i][f[i - 1]]
<1> DEFINE IsChain(f, k) == f[0] = 0 /\ \A i \in 1 .. k : f[i] = step[i][f[i - 1]]
           Reaches(k) == \E f \in [0 .. k -> Int] : IsChain(f, k)
           T == {k \in Nat : k <= n => Reaches(k)}
<1>1. Reaches(0)
  <2>1. [i \in 0 .. 0 |-> 0] \in [0 .. 0 -> Int] /\ IsChain([i \in 0 .. 0 |-> 0], 0)
    OBVIOUS
  <2> QED
    BY <2>1
<1>2. ASSUME NEW k \in Nat, k + 1 <= n, Reaches(k) PROVE Reaches(k + 1)
  <2>1. k \in Nat /\ k + 1 \in 1 .. n /\ 0 \in 0 .. k /\ k \in 0 .. k
    BY <1>2
  <2>2. PICK f \in [0 .. k -> Int] : IsChain(f, k)
    BY <1>2
  <2> DEFINE last == step[k + 1][f[k]]
             g == [i \in 0 .. k + 1 |-> IF i = k + 1 THEN last ELSE f[i]]
  <2>3. last \in Int
    BY <2>1, <2>2
  <2> HIDE DEF last
  <2>4. g \in [0 .. k + 1 -> Int]
    BY <2>1, <2>2, <2>3
  <2>5. g[k + 1] = last /\ \A i \in 0 .. k : g[i] = f[i]
    BY <2>1
  <2> HIDE DEF g
  <2>6. g[0] = 0
    <3>1. f[0] = 0
      BY <2>2
    <3> QED
      BY <2>1, <2>5, <3>1
  <2>7. \A i \in 1 .. k + 1 : g[i] = step[i][g[i - 1]]
    <3> TAKE i \in 1 .. k + 1
    <3>1. CASE i = k + 1
      <4>1. i - 1 = k /\ k \in 0 .. k
        BY <2>1, <3>1
      <4> QED
        BY <2>5, <3>1, <4>1 DEF last
    <3>2. CASE i # k + 1
      <4>1. i \in 1 .. k /\ i \in 0 .. k /\ i - 1 \in 0 .. k
        BY <2>1, <3>2
      <4> QED
        BY <2>2, <2>5, <4>1
    <3> QED
      BY <3>1, <3>2
  <2> QED
    BY <2>4, <2>6, <2>7
<1> HIDE DEF Reaches
<1>3. 0 \in T
  BY <1>1
<1>4. ASSUME NEW k \in T PROVE k + 1 \in T
  <2>1. k + 1 <= n => k <= n
    OBVIOUS
  <2> QED
    BY <1>2, <2>1
<1>5. T = Nat
  <2> HIDE DEF T
  <2>1. T \subseteq Nat
    BY DEF T
  <2> QED
    BY <1>3, <1>4, <2>1, Induct
<1>6. Reaches(n)
  <2>1. n \in T
    <3> HIDE DEF T
    <3> QED
      BY <1>5
  <2> QED
    BY <2>1
<1> QED
  BY <1>6 DEF Reaches

(* What the two recursive functions over digits compute.                   *)
LEMMA ByteIsInt ==
  ASSUME NEW bytes \in Seq(Byte)
  PROVE  /\ Len(bytes) \in Nat
         /\ \A i \in 1 .. Len(bytes) : bytes[i] \in Byte /\ bytes[i] \in Int
  BY DEF Byte

LEMMA ShiftIsInt ==
  ASSUME NEW value \in Int, NEW byte \in Int
  PROVE  Shift(value, byte) \in Int
  BY DEF Shift, Bad

LEMMA FoldedIs ==
  ASSUME NEW bytes \in Seq(Byte)
  PROVE  /\ Folded(bytes)[0] = 0
         /\ \A i \in 1 .. Len(bytes) : Folded(bytes)[i] = Shift(Folded(bytes)[i - 1], bytes[i])
<1> DEFINE n == Len(bytes)
           Row(v) == [i \in 0 .. n |-> IF i = 0 THEN 0 ELSE Shift(v[i - 1], bytes[i])]
           step == [i \in 1 .. n |-> [v \in Int |-> Shift(v, bytes[i])]]
<1>1. n \in Nat /\ \A i \in 1 .. n : bytes[i] \in Int
  BY ByteIsInt
<1>2. step \in [1 .. n -> [Int -> Int]]
  BY <1>1, ShiftIsInt
<1>3. \A i \in 1 .. n : \A v \in Int : step[i][v] = Shift(v, bytes[i])
  OBVIOUS
<1> HIDE DEF step, n
<1>4. PICK f \in [0 .. n -> Int] : f[0] = 0 /\ \A i \in 1 .. n : f[i] = step[i][f[i - 1]]
  BY <1>1, <1>2, Chain
<1>5. \A i \in 1 .. n : f[i] = Shift(f[i - 1], bytes[i])
  <2> TAKE i \in 1 .. n
  <2>1. i - 1 \in 0 .. n
    BY <1>1
  <2> QED
    BY <1>3, <1>4, <2>1
<1>6. f = Row(f)
  <2>1. \A i \in 0 .. n : f[i] = IF i = 0 THEN 0 ELSE Shift(f[i - 1], bytes[i])
    <3> TAKE i \in 0 .. n
    <3>1. i = 0 \/ i \in 1 .. n
      BY <1>1
    <3> QED
      BY <1>4, <1>5, <3>1
  <2> QED
    BY <2>1
<1> DEFINE v == Folded(bytes)
<1>7. v = CHOOSE value : value = Row(value)
  BY DEF Folded, n
<1>8. v = Row(v)
  <2> HIDE DEF Row, v
  <2> QED
    BY <1>6, <1>7
<1> HIDE DEF v
<1>9. v[0] = 0 /\ \A i \in 1 .. n : v[i] = Shift(v[i - 1], bytes[i])
  <2>1. \A i \in 0 .. n : v[i] = Row(v)[i]
    BY <1>8
  <2>2. 0 \in 0 .. n /\ \A i \in 1 .. n : i \in 0 .. n /\ i # 0
    BY <1>1
  <2> QED
    BY <2>1, <2>2
<1> QED
  BY <1>9 DEF v, n

LEMMA ReadIs ==
  ASSUME NEW bytes \in Seq(Byte)
  PROVE  /\ Read(bytes)[0] = 0
         /\ \A i \in 1 .. Len(bytes) : Read(bytes)[i] = 10 * Read(bytes)[i - 1] + bytes[i]
<1> DEFINE n == Len(bytes)
           Row(v) == [i \in 0 .. n |-> IF i = 0 THEN 0 ELSE 10 * v[i - 1] + bytes[i]]
           step == [i \in 1 .. n |-> [v \in Int |-> 10 * v + bytes[i]]]
<1>1. n \in Nat /\ \A i \in 1 .. n : bytes[i] \in Int
  BY ByteIsInt
<1>2. step \in [1 .. n -> [Int -> Int]]
  BY <1>1
<1>3. \A i \in 1 .. n : \A v \in Int : step[i][v] = 10 * v + bytes[i]
  OBVIOUS
<1> HIDE DEF step, n
<1>4. PICK f \in [0 .. n -> Int] : f[0] = 0 /\ \A i \in 1 .. n : f[i] = step[i][f[i - 1]]
  BY <1>1, <1>2, Chain
<1>5. \A i \in 1 .. n : f[i] = 10 * f[i - 1] + bytes[i]
  <2> TAKE i \in 1 .. n
  <2>1. i - 1 \in 0 .. n
    BY <1>1
  <2> QED
    BY <1>3, <1>4, <2>1
<1>6. f = Row(f)
  <2>1. \A i \in 0 .. n : f[i] = IF i = 0 THEN 0 ELSE 10 * f[i - 1] + bytes[i]
    <3> TAKE i \in 0 .. n
    <3>1. i = 0 \/ i \in 1 .. n
      BY <1>1
    <3> QED
      BY <1>4, <1>5, <3>1
  <2> QED
    BY <2>1
<1> DEFINE v == Read(bytes)
<1>7. v = CHOOSE number : number = Row(number)
  BY DEF Read, n
<1>8. v = Row(v)
  <2> HIDE DEF Row, v
  <2> QED
    BY <1>6, <1>7
<1> HIDE DEF v
<1>9. v[0] = 0 /\ \A i \in 1 .. n : v[i] = 10 * v[i - 1] + bytes[i]
  <2>1. \A i \in 0 .. n : v[i] = Row(v)[i]
    BY <1>8
  <2>2. 0 \in 0 .. n /\ \A i \in 1 .. n : i \in 0 .. n /\ i # 0
    BY <1>1
  <2> QED
    BY <2>1, <2>2
<1> QED
  BY <1>9 DEF v, n

(* decimal answers the number that digits spell, if it fits a u64: once    *)
(* the value has overflown, no further digit brings it back.               *)
LEMMA DecimalIs ==
  ASSUME NEW bytes \in Seq(Byte)
  PROVE  /\ IsNumeral(bytes) => Numeral(bytes) \in Nat
         /\ Decimal(bytes) = IF IsNumeral(bytes) /\ Numeral(bytes) <= MaxU64
                             THEN Numeral(bytes) ELSE Bad
<1> DEFINE n == Len(bytes)
           v == Folded(bytes)
           r == Read(bytes)
           Spelled(i) == \A j \in 1 .. i : bytes[j] \in Digits
           Good(i) == /\ Spelled(i) => r[i] \in Nat
                      /\ v[i] = IF Spelled(i) /\ r[i] <= MaxU64 THEN r[i] ELSE Bad
           T == {i \in Nat : i <= n => Good(i)}
<1>1. n \in Nat /\ MaxU64 \in Nat /\ \A i \in 1 .. n : bytes[i] \in Int
  BY ByteIsInt, PaxSizeAssumption
<1>2. v[0] = 0 /\ \A i \in 1 .. n : v[i] = Shift(v[i - 1], bytes[i])
  BY FoldedIs
<1>3. r[0] = 0 /\ \A i \in 1 .. n : r[i] = 10 * r[i - 1] + bytes[i]
  BY ReadIs
<1> HIDE DEF n, v, r
<1>4. 0 \in T
  BY <1>1, <1>2, <1>3
<1>5. ASSUME NEW i \in T PROVE i + 1 \in T
  <2> SUFFICES ASSUME i + 1 <= n PROVE Good(i + 1)
    BY DEF T
  <2>1. i \in Nat /\ Good(i) /\ i + 1 \in 1 .. n /\ (i + 1) - 1 = i
    BY <1>1
  <2> DEFINE b == bytes[i + 1]
  <2>2. v[i + 1] = Shift(v[i], b) /\ r[i + 1] = 10 * r[i] + b /\ b \in Int
    BY <1>1, <1>2, <1>3, <2>1
  <2>3. Spelled(i + 1) <=> Spelled(i) /\ b \in Digits
    BY <2>1
  <2> HIDE DEF b, Spelled
  <2>4. CASE Spelled(i) /\ b \in Digits
    <3>1. r[i] \in Nat /\ b \in 0 .. 9
      BY <2>1, <2>4 DEF Digits
    <3>2. r[i + 1] \in Nat /\ (r[i + 1] <= MaxU64 => r[i] <= MaxU64)
      BY <1>1, <2>2, <3>1
    <3>3. CASE r[i] <= MaxU64
      <4>1. v[i] = r[i] /\ v[i] # Bad
        BY <2>1, <2>4, <3>1, <3>3 DEF Bad
      <4>2. v[i + 1] = IF r[i + 1] <= MaxU64 THEN r[i + 1] ELSE Bad
        BY <1>1, <2>2, <2>4, <3>1, <4>1 DEF Shift
      <4> QED
        BY <2>3, <2>4, <3>2, <4>2
    <3>4. CASE ~(r[i] <= MaxU64)
      <4>1. v[i] = Bad
        BY <2>1, <3>4
      <4>2. v[i + 1] = Bad
        BY <2>2, <4>1 DEF Shift
      <4> QED
        BY <3>2, <3>4, <4>2
    <3> QED
      BY <3>3, <3>4
  <2>5. CASE ~(Spelled(i) /\ b \in Digits)
    <3>1. v[i] = Bad \/ b \notin Digits
      BY <2>1, <2>5
    <3>2. v[i + 1] = Bad
      BY <2>2, <3>1 DEF Shift
    <3> QED
      BY <2>3, <2>5, <3>2
  <2> QED
    BY <2>4, <2>5
<1>6. T = Nat
  <2> HIDE DEF T
  <2>1. T \subseteq Nat
    BY DEF T
  <2> QED
    BY <1>4, <1>5, <2>1, Induct
<1>7. Good(n)
  BY <1>1, <1>6
<1>8. bytes = <<>> <=> n = 0
  BY DEF n
<1>9. Spelled(n) <=> ToSet(bytes) \subseteq Digits
  BY DEF ToSet, n
<1> HIDE DEF Spelled
<1> QED
  BY <1>7, <1>8, <1>9 DEF Decimal, Numeral, IsNumeral, n, v, r

-----------------------------------------------------------------------------
(* Parts of a payload.                                                     *)
LEMMA PartIs ==
  ASSUME NEW s \in Seq(Byte), NEW m \in 1 .. Len(s) + 1, NEW n \in m - 1 .. Len(s)
  PROVE  /\ SubSeq(s, m, n) \in Seq(Byte)
         /\ Len(SubSeq(s, m, n)) = n - m + 1
         /\ \A i \in 1 .. n - m + 1 : SubSeq(s, m, n)[i] = s[m + i - 1]
  BY SubSeqProperties

LEMMA PartOfPart ==
  ASSUME NEW s \in Seq(Byte), NEW m \in 1 .. Len(s) + 1, NEW n \in m - 1 .. Len(s),
         NEW i \in 1 .. n - m + 2, NEW j \in i - 1 .. n - m + 1
  PROVE  SubSeq(SubSeq(s, m, n), i, j) = SubSeq(s, m + i - 1, m + j - 1)
<1> DEFINE t == SubSeq(s, m, n)
           l == m + i - 1
           r == m + j - 1
<1>1. Len(s) \in Nat
  OBVIOUS
<1>2. t \in Seq(Byte) /\ Len(t) = n - m + 1 /\ \A k \in 1 .. n - m + 1 : t[k] = s[m + k - 1]
  BY PartIs
<1>3. l \in 1 .. Len(s) + 1 /\ r \in l - 1 .. Len(s) /\ r - l + 1 = j - i + 1
  BY <1>1
<1>4. i \in 1 .. Len(t) + 1 /\ j \in i - 1 .. Len(t)
  BY <1>1, <1>2
<1> HIDE DEF t, l, r
<1> DEFINE u == SubSeq(t, i, j)
           v == SubSeq(s, l, r)
<1>5. u \in Seq(Byte) /\ Len(u) = j - i + 1 /\ \A k \in 1 .. j - i + 1 : u[k] = t[i + k - 1]
  BY <1>2, <1>4, PartIs
<1>6. v \in Seq(Byte) /\ Len(v) = j - i + 1 /\ \A k \in 1 .. j - i + 1 : v[k] = s[l + k - 1]
  BY <1>3, PartIs
<1> HIDE DEF u, v
<1>7. \A k \in 1 .. Len(u) : u[k] = v[k]
  <2> TAKE k \in 1 .. Len(u)
  <2>1. k \in 1 .. j - i + 1
    BY <1>5
  <2>2. i + k - 1 \in 1 .. n - m + 1 /\ m + (i + k - 1) - 1 = l + k - 1
    BY <1>1, <2>1 DEF l
  <2> QED
    BY <1>2, <1>5, <1>6, <2>1, <2>2
<1>8. u = v
  BY <1>5, <1>6, <1>7, SeqEqual
<1> QED
  BY <1>8 DEF u, v, t, l, r

(* position finds the first space, if there is one.                        *)
LEMMA SpaceIs ==
  ASSUME NEW b \in Seq(Byte)
  PROVE  \/ SpaceAt(b) = 0 /\ \A i \in 1 .. Len(b) : b[i] # Space
         \/ /\ SpaceAt(b) \in 1 .. Len(b) /\ b[SpaceAt(b)] = Space
            /\ \A i \in 1 .. Len(b) : b[i] = Space => SpaceAt(b) <= i
<1> DEFINE I == {i \in 1 .. Len(b) : b[i] = Space}
<1>1. SpaceAt(b) = IF I # {} THEN Min(I) ELSE 0
  BY DEF SpaceAt, SelectInSeq
<1>2. CASE I = {}
  BY <1>1, <1>2
<1>3. CASE I # {}
  <2>1. I \subseteq Nat
    OBVIOUS
  <2>2. PICK x \in I : \A y \in I : x <= y
    BY <1>3, <2>1, LeastNat
  <2>3. Min(I) \in I /\ \A y \in I : Min(I) <= y
    BY <2>2 DEF Min
  <2> QED
    BY <1>1, <1>3, <2>3
<1> QED
  BY <1>2, <1>3

(* The bytes before the space, and those of a value.                       *)
Before(b, space) == SubSeq(b, 1, space - 1)
Value(b, space, length) == SubSeq(b, space + 2, length - 1)

(* The parts of a record, taken from the record or from what is left.      *)
LEMMA RecordParts ==
  ASSUME NEW b \in Seq(Byte), NEW length \in 1 .. Len(b), NEW space \in 1 .. length,
         space + 2 <= length
  PROVE  LET r == SubSeq(b, 1, length)
             t == SubSeq(b, space + 1, length)
             text == Text(r, space)
         IN  /\ Before(b, space) \in Seq(Byte) /\ Value(b, space, length) \in Seq(Byte)
             /\ Len(r) = length /\ r[space] = b[space] /\ Last(r) = b[length]
             /\ SubSeq(r, 1, space - 1) = Before(b, space)
             /\ Last(t) = b[length] /\ t[1] = b[space + 1]
             /\ SubSeq(t, 2, Len(t) - 1) = Value(b, space, length)
             /\ text # <<>> /\ text[1] = b[space + 1]
             /\ SizeText(text) = Value(b, space, length)
<1> DEFINE r == SubSeq(b, 1, length)
           t == SubSeq(b, space + 1, length)
           text == SubSeq(b, space + 1, length - 1)
           n == Len(b)
<1>1. n \in Nat /\ length \in 1 .. n /\ space \in Nat /\ space >= 1
  OBVIOUS
<1>2. Before(b, space) \in Seq(Byte) /\ Value(b, space, length) \in Seq(Byte)
  BY PartIs DEF Before, Value
<1>3. r \in Seq(Byte) /\ Len(r) = length /\ \A i \in 1 .. length : r[i] = b[i]
  BY PartIs
<1>4. Len(t) = length - space /\ \A i \in 1 .. length - space : t[i] = b[space + i]
  BY PartIs
<1>5. Len(text) = length - 1 - space /\ \A i \in 1 .. length - 1 - space : text[i] = b[space + i]
  BY PartIs
<1>6. SubSeq(r, 1, space - 1) = Before(b, space)
  BY PartOfPart DEF Before
<1>7. SubSeq(t, 2, (length - space) - 1) = Value(b, space, length)
  BY PartOfPart DEF Value
<1>8. SubSeq(r, space + 1, length - 1) = text
  BY PartOfPart
<1>9. SubSeq(text, 2, length - 1 - space) = Value(b, space, length)
  BY PartOfPart DEF Value
<1> HIDE DEF r, t, text, n
<1>10. Last(r) = b[length] /\ Last(t) = b[length]
  BY <1>1, <1>3, <1>4 DEF Last
<1>11. t[1] = b[space + 1] /\ text[1] = b[space + 1] /\ text # <<>> /\ r[space] = b[space]
  BY <1>1, <1>3, <1>4, <1>5
<1>12. Text(r, space) = text
  BY <1>3, <1>8 DEF Text
<1>13. SizeText(text) = Value(b, space, length)
  BY <1>5, <1>9 DEF SizeText
<1> QED
  BY <1>2, <1>3, <1>4, <1>6, <1>7, <1>10, <1>11, <1>12, <1>13 DEF r, t

(* A part of a payload that is a record, without taking it out.            *)
IsRecordOf(b, space, length) ==
  /\ space + 2 <= length /\ b[space] = Space /\ b[length] = Newline
  /\ IsNumeral(Before(b, space)) /\ Numeral(Before(b, space)) = length
  /\ b[space + 1] = Key =>
       IsNumeral(Value(b, space, length)) /\ Numeral(Value(b, space, length)) <= MaxU64

LEMMA RecordIs ==
  ASSUME NEW b \in Seq(Byte), NEW length \in 1 .. Len(b), NEW space \in 1 .. length
  PROVE  IsRecord(SubSeq(b, 1, length), space) <=> IsRecordOf(b, space, length)
<1> DEFINE r == SubSeq(b, 1, length)
<1>1. CASE space + 2 <= length
  BY <1>1, RecordParts DEF IsRecord, IsRecordOf
<1>2. CASE ~(space + 2 <= length)
  <2>1. r \in Seq(Byte) /\ Len(r) = length
    BY PartIs
  <2>2. length - 1 < space + 1
    BY <1>2
  <2> HIDE DEF r
  <2>3. Text(r, space) = <<>>
    BY <2>1, <2>2 DEF Text
  <2>4. ~IsRecord(r, space)
    BY <2>3 DEF IsRecord
  <2> QED
    BY <1>2, <2>4 DEF IsRecordOf, r
<1> QED
  BY <1>1, <1>2

-----------------------------------------------------------------------------
(* What one turn of the loop finds.                                        *)
Usable(b) == b \in Seq(Byte) /\ Len(b) <= MaxU64

LEMMA LengthIs ==
  ASSUME NEW b, Usable(b), NEW length \in 1 .. Len(b), SpaceAt(b) \in 1 .. length
  PROVE  LengthOf(b) = length
           <=> IsNumeral(Before(b, SpaceAt(b))) /\ Numeral(Before(b, SpaceAt(b))) = length
<1> DEFINE d == Before(b, SpaceAt(b))
<1>1. b \in Seq(Byte) /\ length \in Nat /\ length <= MaxU64 /\ MaxU64 \in Nat
  BY PaxSizeAssumption DEF Usable
<1>2. d \in Seq(Byte)
  BY <1>1, PartIs DEF Before
<1>3. LengthOf(b) = Decimal(d)
  BY DEF LengthOf, Before
<1> HIDE DEF d
<1>4. Decimal(d) = IF IsNumeral(d) /\ Numeral(d) <= MaxU64 THEN Numeral(d) ELSE Bad
  BY <1>2, DecimalIs
<1>5. length # Bad
  BY <1>1 DEF Bad
<1> QED
  BY <1>1, <1>3, <1>4, <1>5 DEF d

LEMMA SizeIs ==
  ASSUME NEW b, Usable(b), NEW length \in 1 .. Len(b), LengthOf(b) = length,
         SpaceAt(b) \in 1 .. length, SpaceAt(b) + 2 <= length
  PROVE  LET value == Value(b, SpaceAt(b), length)
         IN  /\ Last(Record(b)) = b[length]
             /\ HasSize(Record(b)) <=> b[SpaceAt(b) + 1] = Key
             /\ SizeOf(Record(b)) = IF IsNumeral(value) /\ Numeral(value) <= MaxU64
                                    THEN Numeral(value) ELSE Bad
             /\ IsNumeral(value) => Numeral(value) \in Nat
<1> DEFINE space == SpaceAt(b)
           value == Value(b, space, length)
           t == SubSeq(b, space + 1, length)
<1>1. b \in Seq(Byte)
  BY DEF Usable
<1>2. /\ Last(t) = b[length] /\ t[1] = b[space + 1]
      /\ SubSeq(t, 2, Len(t) - 1) = value /\ value \in Seq(Byte)
  BY <1>1, RecordParts
<1>3. Record(b) = t
  BY DEF Record
<1> HIDE DEF t, value
<1>4. SizeOf(t) = Decimal(value)
  BY <1>2 DEF SizeOf
<1>5. HasSize(t) <=> b[space + 1] = Key
  BY <1>2 DEF HasSize
<1>6. /\ IsNumeral(value) => Numeral(value) \in Nat
      /\ Decimal(value) = IF IsNumeral(value) /\ Numeral(value) <= MaxU64 THEN Numeral(value) ELSE Bad
  BY <1>2, DecimalIs
<1> QED
  BY <1>2, <1>3, <1>4, <1>5, <1>6 DEF value

(* What is left begins with a record where the loop finds one ...          *)
LEMMA FoundIsRecord ==
  ASSUME NEW b, Usable(b), b # <<>>, ~Broken(b)
  PROVE  /\ LengthOf(b) \in 1 .. Len(b) /\ SpaceAt(b) \in 1 .. LengthOf(b)
         /\ SpaceAt(b) + 2 <= LengthOf(b)
         /\ IsRecordOf(b, SpaceAt(b), LengthOf(b))
<1> DEFINE space == SpaceAt(b)
           length == LengthOf(b)
           d == Before(b, space)
<1>1. b \in Seq(Byte) /\ Len(b) \in Nat /\ MaxU64 \in Nat
  BY PaxSizeAssumption DEF Usable
<1>2. space \in 1 .. Len(b) /\ b[space] = Space
  BY <1>1, SpaceIs DEF Broken
<1>3. d \in Seq(Byte) /\ length = Decimal(d)
  BY <1>1, <1>2, PartIs DEF Before, LengthOf
<1>4. length \in Nat
  <2>1. length # Bad
    BY DEF Broken
  <2> HIDE DEF d, length
  <2> QED
    BY <1>3, <2>1, DecimalIs
<1>5. ~TooShort(length, space) /\ ~TooLong(length, b)
  BY DEF Broken
<1> HIDE DEF space, length
<1>6. length \in 1 .. Len(b) /\ space \in 1 .. length /\ space + 2 <= length
  BY <1>1, <1>2, <1>4, <1>5 DEF TooShort, TooLong
<1>7. IsNumeral(Before(b, space)) /\ Numeral(Before(b, space)) = length
  BY <1>6, LengthIs DEF space, length
<1>8. b[length] = Newline
  BY <1>6, SizeIs DEF Broken, space, length
<1>9. b[space + 1] = Key =>
        IsNumeral(Value(b, space, length)) /\ Numeral(Value(b, space, length)) <= MaxU64
  BY <1>6, SizeIs DEF Broken, space, length
<1> QED
  BY <1>2, <1>6, <1>7, <1>8, <1>9 DEF IsRecordOf, space, length

(* ... and it finds the only one there is.                                 *)
LEMMA RecordIsFound ==
  ASSUME NEW b, Usable(b), NEW length \in 1 .. Len(b), NEW space \in 1 .. length,
         IsRecordOf(b, space, length)
  PROVE  ~Broken(b) /\ SpaceAt(b) = space /\ LengthOf(b) = length
<1>1. b \in Seq(Byte) /\ Len(b) \in Nat
  BY DEF Usable
<1>2. SpaceAt(b) = space
  <2>1. \A i \in 1 .. space - 1 : b[i] # Space
    <3> DEFINE d == Before(b, space)
    <3>1. d \in Seq(Byte) /\ Len(d) = space - 1 /\ \A i \in 1 .. space - 1 : d[i] = b[i]
      BY <1>1, PartIs DEF Before
    <3>2. ToSet(d) \subseteq Digits
      BY DEF IsRecordOf, IsNumeral
    <3> HIDE DEF d
    <3>3. \A i \in 1 .. space - 1 : d[i] \in Digits
      BY <3>1, <3>2 DEF ToSet
    <3> QED
      BY <3>1, <3>3 DEF Digits, Space
  <2>2. b[space] = Space /\ space \in 1 .. Len(b)
    BY <1>1 DEF IsRecordOf
  <2>3. SpaceAt(b) \in 1 .. Len(b) /\ b[SpaceAt(b)] = Space /\ SpaceAt(b) <= space
    BY <1>1, <2>2, SpaceIs
  <2>4. ~(SpaceAt(b) \in 1 .. space - 1)
    BY <2>1, <2>3
  <2> QED
    BY <1>1, <2>2, <2>3, <2>4
<1>3. LengthOf(b) = length
  BY <1>2, LengthIs DEF IsRecordOf
<1>4. space + 2 <= length
  BY DEF IsRecordOf
<1>5. /\ Last(Record(b)) = Newline
      /\ HasSize(Record(b)) => SizeOf(Record(b)) # Bad
  <2> DEFINE value == Value(b, space, length)
  <2>1. /\ Last(Record(b)) = b[length]
        /\ HasSize(Record(b)) <=> b[space + 1] = Key
        /\ SizeOf(Record(b)) = IF IsNumeral(value) /\ Numeral(value) <= MaxU64
                               THEN Numeral(value) ELSE Bad
        /\ IsNumeral(value) => Numeral(value) \in Nat
    BY <1>2, <1>3, <1>4, SizeIs
  <2>2. b[length] = Newline /\ (b[space + 1] = Key => IsNumeral(value) /\ Numeral(value) <= MaxU64)
    BY DEF IsRecordOf
  <2> HIDE DEF value
  <2>3. \A n \in Nat : n # Bad
    BY DEF Bad
  <2> QED
    BY <2>1, <2>2, <2>3
<1>6. SpaceAt(b) # 0 /\ LengthOf(b) # Bad
  BY <1>2, <1>3 DEF Bad
<1>7. ~TooShort(length, space) /\ ~TooLong(length, b)
  BY <1>1, <1>4 DEF TooShort, TooLong
<1> QED
  BY <1>2, <1>3, <1>5, <1>6, <1>7 DEF Broken

-----------------------------------------------------------------------------
(* What is left of payload p when everything up to k has been parsed.      *)
Left(p, k) == SubSeq(p, k + 1, Len(p))

LEMMA LeftIs ==
  ASSUME NEW p \in Payloads, NEW k \in 0 .. Len(p)
  PROVE  /\ p \in Seq(Byte) /\ Len(p) \in Nat
         /\ Usable(Left(p, k)) /\ Len(Left(p, k)) = Len(p) - k
         /\ \A n \in 0 .. Len(p) - k : SubSeq(Left(p, k), n + 1, Len(p) - k) = Left(p, k + n)
<1>1. p \in Seq(Byte) /\ Len(p) <= MaxU64 /\ MaxU64 \in Nat /\ Len(p) \in Nat
  BY PaxSizeAssumption
<1>2. Left(p, k) \in Seq(Byte) /\ Len(Left(p, k)) = Len(p) - k
  BY <1>1, PartIs DEF Left
<1>3. Usable(Left(p, k))
  BY <1>1, <1>2 DEF Usable
<1>4. ASSUME NEW n \in 0 .. Len(p) - k
      PROVE  SubSeq(Left(p, k), n + 1, Len(p) - k) = Left(p, k + n)
  <2> DEFINE m == k + 1
             l == Len(p)
             i == n + 1
             j == Len(p) - k
  <2>1. m \in 1 .. l + 1 /\ l \in m - 1 .. l /\ i \in 1 .. l - m + 2 /\ j \in i - 1 .. l - m + 1
    BY <1>1
  <2>2. m + i - 1 = (k + n) + 1 /\ m + j - 1 = Len(p)
    BY <1>1
  <2>3. Left(p, k) = SubSeq(p, m, l)
    BY DEF Left
  <2> HIDE DEF m, i, j
  <2>4. SubSeq(SubSeq(p, m, l), i, j) = SubSeq(p, m + i - 1, m + j - 1)
    BY <1>1, <2>1, PartOfPart
  <2>5. SubSeq(Left(p, k), i, j) = SubSeq(p, (k + n) + 1, Len(p))
    BY <2>2, <2>3, <2>4
  <2> QED
    BY <2>5 DEF Left, i, j
<1> QED
  BY <1>1, <1>2, <1>3, <1>4

LEMMA LeftBegins ==
  ASSUME NEW p \in Payloads, NEW k \in 0 .. Len(p), NEW n \in 0 .. Len(p) - k
  PROVE  SubSeq(Left(p, k), 1, n) = SubSeq(p, k + 1, k + n)
<1>1. p \in Seq(Byte) /\ Len(p) \in Nat
  BY LeftIs
<1> DEFINE m == k + 1
           l == Len(p)
<1>2. m \in 1 .. l + 1 /\ l \in m - 1 .. l /\ 1 \in 1 .. l - m + 2 /\ n \in 1 - 1 .. l - m + 1
  BY <1>1
<1>3. m + 1 - 1 = k + 1 /\ m + n - 1 = k + n
  BY <1>1
<1> HIDE DEF m
<1>4. SubSeq(SubSeq(p, m, l), 1, n) = SubSeq(p, m + 1 - 1, m + n - 1)
  BY <1>1, <1>2, PartOfPart
<1>5. Left(p, k) = SubSeq(p, m, l)
  BY DEF Left, m
<1> QED
  BY <1>3, <1>4, <1>5

LEMMA RecordAtIs ==
  ASSUME NEW p \in Payloads, NEW k \in 0 .. Len(p), NEW c \in k + 1 .. Len(p), NEW space
  PROVE  RecordAt(p, k, c, space)
           <=> space \in 1 .. c - k /\ IsRecordOf(Left(p, k), space, c - k)
<1>1. p \in Seq(Byte) /\ Len(p) \in Nat /\ Usable(Left(p, k)) /\ Len(Left(p, k)) = Len(p) - k
  BY LeftIs
<1>2. SubSeq(Left(p, k), 1, c - k) = SubSeq(p, k + 1, c)
  <2>1. c - k \in 0 .. Len(p) - k /\ k + (c - k) = c
    BY <1>1
  <2> QED
    BY <2>1, LeftBegins
<1>3. Left(p, k) \in Seq(Byte) /\ c - k \in 1 .. Len(Left(p, k))
  BY <1>1 DEF Usable
<1>4. space \in 1 .. c - k =>
        (IsRecord(SubSeq(Left(p, k), 1, c - k), space) <=> IsRecordOf(Left(p, k), space, c - k))
  BY <1>3, RecordIs
<1> QED
  BY <1>2, <1>4 DEF RecordAt

(* The loop finds the one place where the record that begins at k can end. *)
LEMMA NextRecord ==
  ASSUME NEW p \in Payloads, NEW k \in 0 .. Len(p), k < Len(p)
  PROVE  LET b == Left(p, k)
         IN  /\ ~Broken(b) =>
                  k + LengthOf(b) \in k + 1 .. Len(p) /\ RecordAt(p, k, k + LengthOf(b), SpaceAt(b))
             /\ \A c \in k + 1 .. Len(p) : \A space :
                  RecordAt(p, k, c, space) =>
                    ~Broken(b) /\ c = k + LengthOf(b) /\ space = SpaceAt(b)
<1> DEFINE b == Left(p, k)
<1>1. Usable(b) /\ Len(b) = Len(p) - k /\ Len(p) \in Nat
  BY LeftIs
<1>2. b \in Seq(Byte) /\ b # <<>>
  BY <1>1 DEF Usable
<1> HIDE DEF b
<1>3. ASSUME ~Broken(b)
      PROVE  k + LengthOf(b) \in k + 1 .. Len(p) /\ RecordAt(p, k, k + LengthOf(b), SpaceAt(b))
  <2>1. /\ LengthOf(b) \in 1 .. Len(b) /\ SpaceAt(b) \in 1 .. LengthOf(b)
        /\ IsRecordOf(b, SpaceAt(b), LengthOf(b))
    BY <1>1, <1>2, <1>3, FoundIsRecord
  <2> DEFINE c == k + LengthOf(b)
  <2>2. c \in k + 1 .. Len(p) /\ c - k = LengthOf(b)
    BY <1>1, <2>1
  <2> HIDE DEF c
  <2>3. RecordAt(p, k, c, SpaceAt(b))
    BY <2>1, <2>2, RecordAtIs DEF b
  <2> QED
    BY <2>2, <2>3 DEF c
<1>4. ASSUME NEW c \in k + 1 .. Len(p), NEW space, RecordAt(p, k, c, space)
      PROVE  ~Broken(b) /\ c = k + LengthOf(b) /\ space = SpaceAt(b)
  <2>1. space \in 1 .. c - k /\ IsRecordOf(b, space, c - k)
    BY <1>4, RecordAtIs DEF b
  <2>2. c - k \in 1 .. Len(b)
    BY <1>1
  <2>3. ~Broken(b) /\ SpaceAt(b) = space /\ LengthOf(b) = c - k
    BY <1>1, <2>1, <2>2, RecordIsFound
  <2> QED
    BY <1>1, <2>3
<1> QED
  BY <1>3, <1>4 DEF b

(* All cuts of a payload agree with cuts up to k.                          *)
AllCut(p, k, cuts) == \A whole \in Cuts(p) : whole \cap (0 .. k) = cuts

LEMMA CutsAreOffsets ==
  ASSUME NEW p, NEW whole \in Cuts(p)
  PROVE  whole \cap (0 .. Len(p)) = whole
  BY DEF Cuts, CutsTo

(* Behind k, which is in all cuts, there is a next one in each.            *)
LEMMA CutGoesOn ==
  ASSUME NEW p \in Payloads, NEW k \in 0 .. Len(p), k < Len(p),
         NEW cuts \in CutsTo(p, k), AllCut(p, k, cuts), NEW whole \in Cuts(p)
  PROVE  /\ ~Broken(Left(p, k))
         /\ whole \cap (0 .. k + LengthOf(Left(p, k))) = cuts \cup {k + LengthOf(Left(p, k))}
<1>1. Len(p) \in Nat
  BY LeftIs
<1>2. whole \subseteq 0 .. Len(p) /\ Len(p) \in whole
  BY DEF Cuts, CutsTo
<1>a. \A b, c \in whole : NextTo(whole, b, c) => \E space \in 1 .. c - b : RecordAt(p, b, c, space)
  BY DEF Cuts, CutsTo
<1>3. k \in whole /\ whole \cap (0 .. k) = cuts
  BY DEF AllCut, CutsTo
<1> DEFINE later == {d \in whole : k < d}
<1>4. later \subseteq Nat /\ Len(p) \in later
  BY <1>1, <1>2
<1>5. PICK c \in later : \A d \in later : c <= d
  BY <1>4, LeastNat
<1>6. c \in whole /\ c \in k + 1 .. Len(p)
  BY <1>1, <1>2, <1>5
<1>7. NextTo(whole, k, c)
  BY <1>1, <1>2, <1>5, <1>6 DEF NextTo
<1>8. PICK space : RecordAt(p, k, c, space)
  BY <1>3, <1>6, <1>7, <1>a
<1>9. ~Broken(Left(p, k)) /\ c = k + LengthOf(Left(p, k))
  BY <1>6, <1>8, NextRecord
<1>10. whole \cap (0 .. c) = cuts \cup {c}
  <2>1. \A d \in whole : d <= c => d <= k \/ d = c
    BY <1>1, <1>2, <1>5, <1>6
  <2> QED
    BY <1>1, <1>2, <1>3, <1>6, <2>1
<1> QED
  BY <1>9, <1>10

(* A record that follows makes a cut longer, and may state one size more.  *)
LEMMA CutGrows ==
  ASSUME NEW p \in Payloads, NEW k \in 0 .. Len(p), NEW c \in k + 1 .. Len(p),
         NEW cuts \in CutsTo(p, k), NEW space \in 1 .. c - k, RecordAt(p, k, c, space)
  PROVE  /\ cuts \cup {c} \in CutsTo(p, c)
         /\ Sizes(p, cuts \cup {c})
              = Sizes(p, cuts) \cup {<<c, n>> : n \in {m \in 0 .. MaxU64 : States(p, k, c, m)}}
         /\ \A s \in Sizes(p, cuts) : s[1] \in 0 .. k
<1> DEFINE more == cuts \cup {c}
<1>1. Len(p) \in Nat
  BY LeftIs
<1>2. /\ cuts \subseteq 0 .. k /\ 0 \in cuts /\ k \in cuts
      /\ \A b, d \in cuts : NextTo(cuts, b, d) => \E s \in 1 .. d - b : RecordAt(p, b, d, s)
  BY DEF CutsTo
<1>3. \A b, d \in more : NextTo(more, b, d) <=> \/ d \in cuts /\ b \in cuts /\ NextTo(cuts, b, d)
                                                \/ b = k /\ d = c
  <2> TAKE b, d \in more
  <2>1. CASE d \in cuts /\ b \in cuts
    BY <1>1, <1>2, <2>1 DEF NextTo
  <2>2. CASE b = c
    BY <1>1, <1>2, <2>2 DEF NextTo
  <2>3. CASE d = c /\ b \in cuts
    <3>1. b \in 0 .. k
      BY <1>2, <2>3
    <3>2. NextTo(more, b, c) <=> b = k
      BY <1>1, <1>2, <3>1 DEF NextTo
    <3>3. c \notin cuts
      BY <1>1, <1>2
    <3> QED
      BY <2>3, <3>2, <3>3
  <2> QED
    BY <2>1, <2>2, <2>3
<1>4. more \in SUBSET (0 .. c) /\ {0, c} \subseteq more
  BY <1>1, <1>2
<1> HIDE DEF more
<1>5. more \in CutsTo(p, c)
  <2>1. \A b, d \in more : NextTo(more, b, d) => \E s \in 1 .. d - b : RecordAt(p, b, d, s)
    BY <1>2, <1>3
  <2> QED
    BY <1>4, <2>1 DEF CutsTo
<1>6. \A s \in Sizes(p, cuts) : s[1] \in 0 .. k /\ s[1] # c
  <2> TAKE s \in Sizes(p, cuts)
  <2>1. s \in cuts \X (0 .. MaxU64)
    BY DEF Sizes
  <2>2. s[1] \in 0 .. k
    BY <1>2, <2>1
  <2>3. \A i \in 0 .. k : i # c
    BY <1>1
  <2> QED
    BY <2>2, <2>3
<1>7. Sizes(p, more) = Sizes(p, cuts) \cup {<<c, n>> : n \in {m \in 0 .. MaxU64 : States(p, k, c, m)}}
  <2> DEFINE new == {<<c, n>> : n \in {m \in 0 .. MaxU64 : States(p, k, c, m)}}
             Stated(some, d, n) == \E b \in some : NextTo(some, b, d) /\ States(p, b, d, n)
  <2>1. \A some : Sizes(p, some) = {s \in some \X (0 .. MaxU64) : Stated(some, s[1], s[2])}
    BY DEF Sizes
  <2>2. cuts \subseteq more /\ k \in more /\ c \in more /\ c \notin cuts /\ more \subseteq cuts \cup {c}
    BY <1>1, <1>2 DEF more
  <2>3. \A d \in cuts : \A n : Stated(more, d, n) <=> Stated(cuts, d, n)
    BY <1>3, <2>2
  <2>4. \A n : Stated(more, c, n) <=> States(p, k, c, n)
    BY <1>3, <2>2
  <2> HIDE DEF Stated
  <2>5. ASSUME NEW s \in Sizes(p, more) PROVE s \in Sizes(p, cuts) \cup new
    <3>1. s \in more \X (0 .. MaxU64) /\ Stated(more, s[1], s[2])
      BY <2>1
    <3>2. CASE s[1] \in cuts
      BY <2>1, <2>3, <3>1, <3>2
    <3>3. CASE s[1] = c
      <4>1. s = <<c, s[2]>> /\ s[2] \in 0 .. MaxU64 /\ States(p, k, c, s[2])
        BY <2>4, <3>1, <3>3
      <4> QED
        BY <4>1
    <3> QED
      BY <2>2, <3>1, <3>2, <3>3
  <2>6. ASSUME NEW s \in Sizes(p, cuts) PROVE s \in Sizes(p, more)
    <3>1. s \in cuts \X (0 .. MaxU64) /\ Stated(cuts, s[1], s[2])
      BY <2>1
    <3>2. s[1] \in cuts /\ s \in more \X (0 .. MaxU64)
      BY <2>2, <3>1
    <3>3. Stated(more, s[1], s[2])
      BY <2>3, <3>1, <3>2
    <3> QED
      BY <2>1, <3>2, <3>3
  <2>7. ASSUME NEW s \in new PROVE s \in Sizes(p, more)
    <3>1. PICK n \in 0 .. MaxU64 : s = <<c, n>> /\ States(p, k, c, n)
      OBVIOUS
    <3> QED
      BY <2>1, <2>2, <2>4, <3>1
  <2> QED
    BY <2>5, <2>6, <2>7
<1> QED
  BY <1>5, <1>6, <1>7 DEF more

(* The size that the record states which the loop has found.               *)
LEMMA StatedSize ==
  ASSUME NEW p \in Payloads, NEW k \in 0 .. Len(p), k < Len(p), ~Broken(Left(p, k))
  PROVE  LET b == Left(p, k)
             c == k + LengthOf(b)
         IN  {n \in 0 .. MaxU64 : States(p, k, c, n)}
               = IF HasSize(Record(b)) THEN {SizeOf(Record(b))} ELSE {}
<1> DEFINE b == Left(p, k)
           length == LengthOf(b)
           space == SpaceAt(b)
           c == k + length
           value == Value(b, space, length)
<1>1. Usable(b) /\ Len(b) = Len(p) - k /\ Len(p) \in Nat /\ p \in Seq(Byte)
  BY LeftIs
<1>2. b \in Seq(Byte) /\ b # <<>>
  BY <1>1 DEF Usable
<1> HIDE DEF b
<1>3. /\ length \in 1 .. Len(b) /\ space \in 1 .. length /\ space + 2 <= length
      /\ IsRecordOf(b, space, length)
  BY <1>1, <1>2, FoundIsRecord DEF b
<1>4. c \in k + 1 .. Len(p) /\ c - k = length
  BY <1>1, <1>3
<1>5. \A s : RecordAt(p, k, c, s) <=> s = space
  <2>1. RecordAt(p, k, c, space)
    BY NextRecord DEF b
  <2>2. \A s : RecordAt(p, k, c, s) => s = space
    BY <1>4, NextRecord DEF b
  <2> QED
    BY <2>1, <2>2
<1>6. SubSeq(p, k + 1, c) = SubSeq(b, 1, length)
  <2>1. length \in 0 .. Len(p) - k
    BY <1>1, <1>3
  <2> HIDE DEF length
  <2>2. SubSeq(Left(p, k), 1, length) = SubSeq(p, k + 1, k + length)
    BY <2>1, LeftBegins
  <2> QED
    BY <2>2 DEF b
<1>7. LET text == Text(SubSeq(p, k + 1, c), space)
      IN  text[1] = b[space + 1] /\ SizeText(text) = value
  <2>1. LET text == Text(SubSeq(b, 1, length), space)
        IN  text[1] = b[space + 1] /\ SizeText(text) = Value(b, space, length)
    <3> HIDE DEF length, space
    <3> QED
      BY <1>2, <1>3, RecordParts
  <2> QED
    BY <1>6, <2>1
<1>8. /\ HasSize(Record(b)) <=> b[space + 1] = Key
      /\ SizeOf(Record(b)) = IF IsNumeral(value) /\ Numeral(value) <= MaxU64 THEN Numeral(value) ELSE Bad
      /\ IsNumeral(value) => Numeral(value) \in Nat
  BY <1>1, <1>3, SizeIs
<1>9. b[space + 1] = Key => IsNumeral(value) /\ Numeral(value) <= MaxU64
  BY <1>3 DEF IsRecordOf
<1>10. space \in 1 .. c - k
  BY <1>3, <1>4
<1> HIDE DEF length, space, c, value
<1>11. \A n : States(p, k, c, n) <=> b[space + 1] = Key /\ Numeral(value) = n
  BY <1>5, <1>7, <1>10 DEF States
<1>12. MaxU64 \in Nat
  BY PaxSizeAssumption
<1>13. CASE b[space + 1] = Key
  <2>1. Numeral(value) \in 0 .. MaxU64 /\ SizeOf(Record(b)) = Numeral(value)
    BY <1>8, <1>9, <1>12, <1>13
  <2>2. {n \in 0 .. MaxU64 : States(p, k, c, n)} = {Numeral(value)}
    BY <1>11, <1>13, <2>1
  <2> QED
    BY <1>8, <1>13, <2>1, <2>2 DEF b, length, c
<1>14. CASE b[space + 1] # Key
  <2>1. {n \in 0 .. MaxU64 : States(p, k, c, n)} = {}
    BY <1>11, <1>14
  <2> QED
    BY <1>8, <1>14, <2>1 DEF b, length, c
<1> QED
  BY <1>13, <1>14

-----------------------------------------------------------------------------
(* What has been parsed can be cut in one way, with which every cut of the *)
(* whole payload begins, and the size is the last that this cut states.    *)
Behind == Len(payload) - Len(body)
OneCut ==
  \E cuts \in CutsTo(payload, Behind) :
    LastSize(payload, cuts, size) /\ AllCut(payload, Behind, cuts)

IInv ==
  /\ payload \in Payloads
  /\ Behind \in 0 .. Len(payload) /\ body = Left(payload, Behind)
  /\ verdict \in {"parsing", "parsed", "malformed"}
  /\ verdict # "malformed" => OneCut
  /\ verdict = "parsed" => body = <<>>
  /\ verdict = "malformed" => Cuts(payload) = {}

LEMMA InitIInv == Init => IInv
<1> SUFFICES ASSUME Init PROVE IInv
  OBVIOUS
<1>1. payload \in Payloads /\ body = payload /\ size = NoSize /\ verdict = "parsing"
  BY DEF Init
<1>2. payload \in Seq(Byte) /\ Len(payload) \in Nat
  BY <1>1, PaxSizeAssumption
<1>3. Behind = 0
  BY <1>1, <1>2 DEF Behind
<1>4. Left(payload, 0) = payload
  <2>1. SubSeq(payload, 1, Len(payload)) = payload
    BY <1>2
  <2> QED
    BY <2>1 DEF Left
<1>5. {0} \in CutsTo(payload, 0)
  BY DEF CutsTo, NextTo
<1>6. LastSize(payload, {0}, NoSize)
  BY DEF LastSize, Sizes, NextTo
<1>7. AllCut(payload, 0, {0})
  BY DEF AllCut, Cuts, CutsTo
<1> QED
  BY <1>1, <1>2, <1>3, <1>4, <1>5, <1>6, <1>7 DEF IInv, OneCut

LEMMA ParseRecordIInv == IInv /\ ParseRecord => IInv'
<1> SUFFICES ASSUME IInv, ParseRecord PROVE IInv'
  OBVIOUS
<1> DEFINE p == payload
           k == Behind
           b == Left(p, k)
           c == k + LengthOf(b)
<1>1. p \in Payloads /\ k \in 0 .. Len(p) /\ body = b /\ verdict = "parsing" /\ OneCut
  BY DEF IInv, ParseRecord
<1>2. /\ Len(p) \in Nat /\ Len(b) = Len(p) - k
      /\ \A n \in 0 .. Len(p) - k : SubSeq(b, n + 1, Len(p) - k) = Left(p, k + n)
  BY <1>1, LeftIs
<1>3. k < Len(p)
  <2>1. Usable(b) /\ b # <<>>
    BY <1>1, LeftIs DEF ParseRecord
  <2>2. Len(b) # 0
    BY <2>1 DEF Usable
  <2> QED
    BY <1>1, <1>2, <2>2
<1>4. PICK cuts \in CutsTo(p, k) : LastSize(p, cuts, size) /\ AllCut(p, k, cuts)
  BY <1>1 DEF OneCut
<1>5. payload' = p
  BY DEF ParseRecord
<1>6. CASE Broken(b)
  <2>1. verdict' = "malformed" /\ body' = body /\ size' = size
    BY <1>1, <1>6 DEF ParseRecord, Malformed
  <2>2. Cuts(p) = {}
    BY <1>1, <1>3, <1>4, <1>6, CutGoesOn
  <2> QED
    BY <1>1, <1>5, <2>1, <2>2 DEF IInv, Behind
<1>7. CASE ~Broken(b)
  <2>1. /\ size' = IF HasSize(Record(b)) THEN SizeOf(Record(b)) ELSE size
        /\ body' = SubSeq(b, LengthOf(b) + 1, Len(b)) /\ verdict' = "parsing"
    BY <1>1, <1>7 DEF ParseRecord, NewSize
  <2>2. c \in k + 1 .. Len(p) /\ RecordAt(p, k, c, SpaceAt(b))
    BY <1>1, <1>3, <1>7, NextRecord
  <2>3. SpaceAt(b) \in 1 .. c - k
    BY <2>2 DEF RecordAt
  <2>4. LengthOf(b) \in 0 .. Len(p) - k
    <3> DEFINE length == LengthOf(b)
    <3>1. length \in Int
      <4>1. b \in Seq(Byte) /\ b # <<>> /\ Usable(b)
        BY <1>1, LeftIs DEF Usable, ParseRecord
      <4>2. length \in 1 .. Len(b)
        BY <1>7, <4>1, FoundIsRecord
      <4> QED
        BY <4>2
    <3>2. k + length \in k + 1 .. Len(p)
      BY <2>2
    <3> HIDE DEF length
    <3>3. length \in 0 .. Len(p) - k
      BY <1>1, <1>2, <3>1, <3>2
    <3> QED
      BY <3>3 DEF length
  <2>5. body' = Left(p, c)
    BY <1>2, <2>1, <2>4
  <2>6. Behind' = c /\ c \in 0 .. Len(p)
    <3>1. c \in 0 .. Len(p)
      BY <1>1, <1>2, <2>2
    <3> HIDE DEF c
    <3>2. Len(Left(p, c)) = Len(p) - c
      BY <1>1, <3>1, LeftIs
    <3> QED
      BY <1>2, <1>5, <2>5, <3>1, <3>2 DEF Behind
  <2> DEFINE more == cuts \cup {c}
             new == {n \in 0 .. MaxU64 : States(p, k, c, n)}
             s1 == Sizes(p, cuts)
             s2 == Sizes(p, more)
  <2>7. more \in CutsTo(p, c) /\ s2 = s1 \cup {<<c, n>> : n \in new} /\ \A s \in s1 : s[1] \in 0 .. k
    <3>1. p \in Payloads /\ k \in 0 .. Len(p) /\ cuts \in CutsTo(p, k)
      BY <1>1, <1>4
    <3> HIDE DEF c, b, k, p
    <3>2. /\ cuts \cup {c} \in CutsTo(p, c)
          /\ Sizes(p, cuts \cup {c})
               = Sizes(p, cuts) \cup {<<c, n>> : n \in {m \in 0 .. MaxU64 : States(p, k, c, m)}}
          /\ \A s \in Sizes(p, cuts) : s[1] \in 0 .. k
      BY <2>2, <2>3, <3>1, CutGrows
    <3> QED
      BY <3>2
  <2>8. new = IF HasSize(Record(b)) THEN {SizeOf(Record(b))} ELSE {}
    BY <1>1, <1>3, <1>7, StatedSize
  <2>9. AllCut(p, c, more)
    <3>1. \A whole \in Cuts(p) : whole \cap (0 .. c) = more
      BY <1>1, <1>3, <1>4, CutGoesOn
    <3> QED
      BY <3>1 DEF AllCut
  <2>10. LastSize(p, more, size')
    <3> HIDE DEF s1, s2, new, more
    <3>1. IF s1 = {} THEN size = NoSize ELSE \E s \in s1 : size = s[2] /\ \A t \in s1 : t[1] <= s[1]
      BY <1>4 DEF LastSize, s1
    <3>2. CASE HasSize(Record(b))
      <4> DEFINE last == <<c, SizeOf(Record(b))>>
      <4>1. s2 = s1 \cup {last} /\ size' = last[2] /\ last[1] = c
        BY <2>1, <2>7, <2>8, <3>2
      <4>2. k \in Nat /\ c \in Nat /\ k <= c
        BY <1>1, <1>2, <2>2
      <4> HIDE DEF last, c, k
      <4>3. \A s \in s2 : s[1] <= last[1]
        BY <2>7, <4>1, <4>2
      <4>4. last \in s2 /\ s2 # {}
        BY <4>1
      <4> QED
        BY <4>1, <4>3, <4>4 DEF LastSize, s2
    <3>3. CASE ~HasSize(Record(b))
      <4>1. s2 = s1 /\ size' = size
        BY <2>1, <2>7, <2>8, <3>3
      <4> QED
        BY <3>1, <4>1 DEF LastSize, s2
    <3> QED
      BY <3>2, <3>3
  <2>11. OneCut'
    BY <1>5, <2>6, <2>7, <2>9, <2>10 DEF OneCut
  <2> QED
    BY <1>1, <1>5, <2>1, <2>5, <2>6, <2>11 DEF IInv
<1> QED
  BY <1>6, <1>7

LEMMA FinishIInv == IInv /\ Finish => IInv'
  BY DEF IInv, Finish, OneCut, Behind

LEMMA StutterIInv == IInv /\ UNCHANGED vars => IInv'
  BY DEF IInv, vars, OneCut, Behind

LEMMA PaxSizeInvariant == Spec => []IInv
<1>1. IInv /\ [Next]_vars => IInv'
  BY ParseRecordIInv, FinishIInv, StutterIInv DEF Next
<1> QED
  BY InitIInv, <1>1, PTL DEF Spec

(* For all payloads and all widths of a size: what is accepted can be cut  *)
(* into records in exactly one way, and what is refused in none, with the  *)
(* overflows of decimal and the misleading lengths included                *)
(* (guard.rs:161-192).                                                     *)
THEOREM PaxAcceptsRecords == Spec => []AcceptsRecords
<1>1. IInv => AcceptsRecords
  <2> SUFFICES ASSUME IInv PROVE AcceptsRecords
    OBVIOUS
  <2>1. ASSUME verdict = "parsed" PROVE Cardinality(Cuts(payload)) = 1
    <3>1. Behind = Len(payload)
      <4>1. payload \in Seq(Byte) /\ body = <<>>
        BY <2>1, PaxSizeAssumption DEF IInv
      <4> QED
        BY <4>1 DEF Behind
    <3>2. PICK cuts \in Cuts(payload) : AllCut(payload, Len(payload), cuts)
      BY <2>1, <3>1 DEF IInv, OneCut, Cuts
    <3>3. \A whole \in Cuts(payload) : whole = cuts
      BY <3>2, CutsAreOffsets DEF AllCut
    <3>4. Cuts(payload) = {cuts}
      BY <3>3
    <3> QED
      BY <3>4, FS_Singleton
  <2> QED
    BY <2>1 DEF IInv, AcceptsRecords
<1> QED
  BY PaxSizeInvariant, <1>1, PTL

(* And the size it gives is that of the last record that states one, also  *)
(* when earlier ones state another (guard.rs:177-179).                     *)
THEOREM PaxLastSizeWins == Spec => []LastSizeWins
<1>1. IInv => LastSizeWins
  <2> SUFFICES ASSUME IInv, verdict = "parsed", NEW whole \in Cuts(payload)
               PROVE  LastSize(payload, whole, size)
    BY DEF LastSizeWins
  <2>1. Behind = Len(payload)
    <3>1. payload \in Seq(Byte) /\ body = <<>>
      BY PaxSizeAssumption DEF IInv
    <3> QED
      BY <3>1 DEF Behind
  <2>2. PICK cuts \in Cuts(payload) :
          LastSize(payload, cuts, size) /\ AllCut(payload, Len(payload), cuts)
    BY <2>1 DEF IInv, OneCut, Cuts
  <2>3. whole = cuts
    BY <2>2, CutsAreOffsets DEF AllCut
  <2> QED
    BY <2>2, <2>3
<1> QED
  BY PaxSizeInvariant, <1>1, PTL
=============================================================================
