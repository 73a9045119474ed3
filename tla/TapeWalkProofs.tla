---------------------------- MODULE TapeWalkProofs ----------------------------
(***************************************************************************)
(* Proofs about tapes and the walk over them, for every block length and   *)
(* every tape.                                                             *)
(***************************************************************************)
EXTENDS TapeWalk, WellFoundedInduction, TLAPS

(* A natural number lies between two consecutive multiples of a divisor.   *)
LEMMA DivBounds ==
  ASSUME NEW a \in Nat, NEW b \in Nat \ {0}
  PROVE  /\ a \div b \in Nat
         /\ (a \div b) * b <= a
         /\ a < (a \div b) * b + b
  BY Z3

(* A size rounded up to whole blocks is at least that size, and nothing    *)
(* rounds to nothing (guard.rs:78-80).                                     *)
LEMMA PaddedBounds ==
  ASSUME NEW size \in Nat
  PROVE  Padded(size) \in Nat /\ Padded(size) >= size /\ (size = 0 => Padded(size) = 0)
<1> DEFINE a == size + (Block - 1)
           q == a \div Block
<1>1. a \in Nat /\ Block \in Nat \ {0}
  BY TapeAssumption
<1>2. q \in Nat /\ q * Block <= a /\ a < q * Block + Block
  BY <1>1, DivBounds
<1>3. q * Block \in Nat
  BY <1>1, <1>2
<1>4. Padded(size) = q * Block
  BY DEF Padded
<1>5. size = 0 => q * Block = 0
  <2> SUFFICES ASSUME size = 0 PROVE q = 0
    BY <1>1
  <2>1. q * Block < Block
    BY <1>1, <1>2
  <2>2. q >= 1 => q * Block >= Block
    BY <1>1, <1>2
  <2> QED
    BY <2>1, <2>2, <1>1, <1>2
<1> HIDE DEF q
<1> QED
  BY <1>1, <1>2, <1>3, <1>4, <1>5

(* What a header that inspect lets through looks like.                     *)
LEMMA AcceptedHeader ==
  ASSUME NEW h \in Header, NEW pax \in U64 \cup {NoSize}, Refusal(h, pax) = "none"
  PROVE  /\ h.kind \in {"entry", "pax", "long"}
         /\ h.size \in Nat
         /\ PayloadSize(h, pax) \in Nat
         /\ IsExtension(h) <=> h.kind \in {"pax", "long"}
         /\ IsExtension(h) => PayloadSize(h, pax) = h.size
  BY TapeAssumption
     DEF Header, U64, NoSize, Bad, Refusal, Unsized, PayloadSize, IsExtension

-----------------------------------------------------------------------------
(* The least member of a set of natural numbers.                           *)
LEMMA LeastNat ==
  ASSUME NEW T, T \subseteq Nat, T # {}
  PROVE  \E x \in T : \A y \in T : x <= y
<1> DEFINE Less == OpToRel(<, Nat)
<1>1. IsWellFoundedOn(Less, Nat)
  BY NatLessThanWellFounded
<1>2. \A x, y \in Nat : y < x => <<y, x>> \in Less
  BY DEF OpToRel
<1> HIDE DEF Less
<1>3. PICK x \in T : \A y \in T : ~(<<y, x>> \in Less)
  BY <1>1, WFMin
<1>4. \A y \in T : ~(y < x)
  BY <1>2, <1>3
<1>5. \A y \in T : x <= y
  BY <1>4
<1> QED
  BY <1>5

(* Induction on the natural numbers, as a statement about a set of them.   *)
LEMMA Induct ==
  ASSUME NEW T, T \subseteq Nat, 0 \in T, \A n \in T : n + 1 \in T
  PROVE  T = Nat
<1> SUFFICES ASSUME Nat \ T # {} PROVE FALSE
  OBVIOUS
<1>1. PICK x \in Nat \ T : \A y \in Nat \ T : x <= y
  BY LeastNat
<1>2. x # 0 /\ x - 1 \in Nat
  OBVIOUS
<1>3. x - 1 \in T
  BY <1>1, <1>2
<1>4. (x - 1) + 1 = x
  BY <1>2
<1> QED
  BY <1>3, <1>4

-----------------------------------------------------------------------------
(* What a header leads to depends only on what later headers lead to.      *)
LEMMA MeetsLater ==
  ASSUME NEW t, IsTape(t), NEW o \in 0 .. t.len, NEW size \in Overrides,
         NEW f, NEW g, \A p \in o + 1 .. t.len : f[p] = g[p]
  PROVE  Meets(t, o, size, f) = Meets(t, o, size, g)
<1> DEFINE h == t.at[o]
           after == o + Block + Padded(PayloadSize(h, size))
<1>1. t.len \in Nat /\ h \in Header /\ Block \in Nat \ {0}
  BY TapeAssumption DEF IsTape
<1>2. CASE Refusal(h, size) = "none" /\ after <= t.len
  <2>1. PayloadSize(h, size) \in Nat
    BY <1>1, <1>2, AcceptedHeader DEF Overrides
  <2>2. Padded(PayloadSize(h, size)) \in Nat
    BY <2>1, PaddedBounds
  <2>3. after \in o + 1 .. t.len
    BY <1>1, <1>2, <2>2
  <2>4. f[after] = g[after]
    BY <2>3
  <2> QED
    BY <2>4 DEF Meets
<1>3. CASE ~(Refusal(h, size) = "none" /\ after <= t.len)
  <2>1. Refusal(h, size) # "none" \/ after > t.len
    <3>1. Refusal(h, size) = "none" => after \in Nat
      <4> SUFFICES ASSUME Refusal(h, size) = "none" PROVE after \in Nat
        OBVIOUS
      <4>1. PayloadSize(h, size) \in Nat
        BY <1>1, AcceptedHeader DEF Overrides
      <4>2. Padded(PayloadSize(h, size)) \in Nat
        BY <4>1, PaddedBounds
      <4> QED
        BY <1>1, <4>2
    <3> QED
      BY <1>1, <1>3, <3>1
  <2> QED
    BY <2>1 DEF Meets
<1> QED
  BY <1>2, <1>3

(* The walk is what its definition says: from a header on it meets that    *)
(* header, and what is met from the next one on.                           *)
LEMMA WalksUnfold ==
  ASSUME NEW t, IsTape(t)
  PROVE  \A o \in 0 .. t.len : \A size \in Overrides :
           Walks(t)[o][size] = Meets(t, o, size, Walks(t))
<1> DEFINE Row(f, o) == [size \in Overrides |-> Meets(t, o, size, f)]
           Solves(f, k) == \A o \in k .. t.len : f[o] = Row(f, o)
           n == t.len + 1
           T == {d \in Nat : d <= n => \E f : Solves(f, n - d)}
<1>1. t.len \in Nat
  BY DEF IsTape
<1>2. 0 \in T
  <2>1. n - 0 .. t.len = {}
    BY <1>1
  <2>2. \A f : Solves(f, n - 0)
    BY <2>1
  <2> QED
    BY <2>2
<1>3. ASSUME NEW f, NEW k \in 0 .. t.len, Solves(f, k + 1)
      PROVE  \E g : Solves(g, k)
  <2> DEFINE g == [o \in 0 .. t.len |-> IF o = k THEN Row(f, k) ELSE f[o]]
  <2>1. \A o \in k + 1 .. t.len : g[o] = f[o]
    BY <1>1
  <2>2. g[k] = Row(f, k)
    OBVIOUS
  <2> HIDE DEF g
  <2>3. \A o \in k .. t.len : Row(f, o) = Row(g, o)
    <3> TAKE o \in k .. t.len
    <3>1. o \in 0 .. t.len /\ \A p \in o + 1 .. t.len : f[p] = g[p]
      BY <1>1, <2>1
    <3>2. \A size \in Overrides : Meets(t, o, size, f) = Meets(t, o, size, g)
      BY <3>1, MeetsLater
    <3> QED
      BY <3>2
  <2> HIDE DEF Row
  <2>4. \A o \in k .. t.len : g[o] = Row(g, o)
    <3> TAKE o \in k .. t.len
    <3>1. CASE o = k
      BY <2>2, <2>3, <3>1
    <3>2. CASE o # k
      <4>1. o \in k + 1 .. t.len
        BY <1>1, <3>2
      <4>2. f[o] = Row(f, o)
        BY <1>3, <4>1
      <4> QED
        BY <2>1, <2>3, <4>1, <4>2
    <3> QED
      BY <3>1, <3>2
  <2> QED
    BY <2>4
<1> HIDE DEF Row
<1>4. ASSUME NEW d \in T PROVE d + 1 \in T
  <2> SUFFICES ASSUME d + 1 <= n PROVE \E g : Solves(g, n - (d + 1))
    OBVIOUS
  <2>1. d \in Nat /\ d <= n /\ n - (d + 1) \in 0 .. t.len /\ n - d = (n - (d + 1)) + 1
    BY <1>1
  <2>2. PICK f : Solves(f, n - d)
    BY <2>1
  <2>3. Solves(f, (n - (d + 1)) + 1)
    BY <2>1, <2>2
  <2> HIDE DEF Solves, n
  <2> QED
    BY <1>3, <2>1, <2>3
<1>5. \E f : Solves(f, 0)
  <2>1. T = Nat
    <3> HIDE DEF T
    <3>1. T \subseteq Nat
      BY DEF T
    <3> QED
      BY <1>2, <1>4, <3>1, Induct
  <2>2. n \in T /\ n - n = 0 /\ n <= n
    BY <1>1, <2>1
  <2> QED
    BY <2>2
<1>6. PICK f : Solves(f, 0)
  BY <1>5
<1> DEFINE IsWalk(walk) == walk = [o \in 0 .. t.len |-> Row(walk, o)]
           w == [o \in 0 .. t.len |-> f[o]]
<1>7. IsWalk(w)
  <2>1. \A o \in 0 .. t.len : f[o] = Row(f, o) /\ w[o] = f[o]
    BY <1>6
  <2> HIDE DEF w
  <2>2. \A o \in 0 .. t.len : Row(f, o) = Row(w, o)
    <3> TAKE o \in 0 .. t.len
    <3>1. \A p \in o + 1 .. t.len : f[p] = w[p]
      BY <1>1, <2>1
    <3>2. \A size \in Overrides : Meets(t, o, size, f) = Meets(t, o, size, w)
      BY <3>1, MeetsLater
    <3> QED
      BY <3>2 DEF Row
  <2>3. \A o \in 0 .. t.len : f[o] = Row(w, o)
    BY <2>1, <2>2
  <2> QED
    BY <2>3 DEF w
<1>8. IsWalk(CHOOSE walk : IsWalk(walk))
  <2> HIDE DEF IsWalk
  <2> QED
    BY <1>7
<1>9. Walks(t) = CHOOSE walk : IsWalk(walk)
  BY DEF Walks, Row
<1>10. IsWalk(Walks(t))
  BY <1>8, <1>9
<1>11. \A o \in 0 .. t.len : Walks(t)[o] = Row(Walks(t), o)
  <2> DEFINE v == Walks(t)
  <2>1. v = [o \in 0 .. t.len |-> Row(v, o)]
    BY <1>10
  <2> HIDE DEF v
  <2>2. \A o \in 0 .. t.len : v[o] = Row(v, o)
    BY <2>1
  <2> QED
    BY <2>2 DEF v
<1> QED
  BY <1>11 DEF Row
=============================================================================
