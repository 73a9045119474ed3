---------------------------- MODULE EntryPathProofs ----------------------------
(***************************************************************************)
(* Proofs about EntryPath, for every set of paths and every limit.         *)
(***************************************************************************)
EXTENDS EntryPath, FiniteSetTheorems, NaturalsInduction, TLAPS

(* What a path that passed has been shown to be.                           *)
PassedWhole ==
  verdict \in {"components", "accepted", "AbsolutePath", "ParentEscape"} =>
    path # <<>> /\ ~Contains(path, "nul") /\ Len(path) <= MaxPathLen

(* The components behind the one looked at next are neither a root nor a   *)
(* way up.                                                                 *)
PassedComponents ==
  /\ rest \subseteq Components(path)
  /\ \A e \in Components(path) \ rest : RejectUnsafe(Component(path, e)) = "Ok"

AcceptedAtEnd == verdict = "accepted" => rest = {}

(* The invariant that is inductive.                                        *)
IInv ==
  /\ path \in Paths
  /\ PassedWhole
  /\ PassedComponents
  /\ AcceptedAtEnd
  /\ RefusalIsTrue

-----------------------------------------------------------------------------
(* The smallest of a set of numbers is one of them.                        *)
LEMMA MinIsMember ==
  ASSUME NEW S, S \subseteq Nat, S # {}
  PROVE  Min(S) \in S
<1> DEFINE Less == OpToRel(<, Nat)
<1>1. IsWellFoundedOn(Less, Nat)
  BY NatLessThanWellFounded
<1>2. \A x, y \in Nat : y < x => <<y, x>> \in Less
  BY DEF OpToRel
<1> HIDE DEF Less
<1>3. PICK x \in S : \A y \in S : ~(<<y, x>> \in Less)
  BY <1>1, WFMin
<1>4. \A y \in S : ~(y < x)
  BY <1>2, <1>3
<1>5. x \in S /\ \A y \in S : x <= y
  BY <1>4
<1> QED
  BY <1>5 DEF Min

LEMMA EndsAreNumbers ==
  ASSUME NEW p \in Paths
  PROVE  /\ p \in Seq(Char) /\ Len(p) \in Nat
         /\ Ends(p) \subseteq 1 .. Len(p) + 1
         /\ IsFiniteSet(Ends(p))
<1>1. p \in Seq(Char) /\ Len(p) \in Nat
  BY EntryPathAssumption
<1>2. IsFiniteSet(1 .. Len(p) + 1)
  BY <1>1, FS_Interval
<1>3. Ends(p) \subseteq 1 .. Len(p) + 1
  BY DEF Ends
<1> QED
  BY <1>1, <1>2, <1>3, FS_Subset

(* What a component is comes from the piece it is.                         *)
LEMMA ComponentIs ==
  ASSUME NEW p, NEW e
  PROVE  /\ RejectUnsafe(Component(p, e)) = "AbsolutePath" => Piece(p, e) = <<>>
         /\ RejectUnsafe(Component(p, e)) = "ParentEscape" => Piece(p, e) = DotDot
         /\ RejectUnsafe(Component(p, e)) = "Ok" => Piece(p, e) # <<>> /\ Piece(p, e) # DotDot
         /\ RejectUnsafe(Component(p, e)) \in {"AbsolutePath", "ParentEscape", "Ok"}
<1>1. Dot # DotDot /\ Dot # <<>> /\ DotDot # <<>>
  BY DEF Dot, DotDot
<1> HIDE DEF Piece
<1>2. Piece(p, e) = <<>> => Component(p, e) = "RootDir"
  BY <1>1 DEF Component
<1>3. Piece(p, e) = Dot => Component(p, e) = "CurDir"
  BY <1>1 DEF Component
<1>4. Piece(p, e) = DotDot => Component(p, e) = "ParentDir"
  BY <1>1 DEF Component
<1>5. Piece(p, e) \notin {<<>>, Dot, DotDot} => Component(p, e) = "Normal"
  BY DEF Component
<1> QED
  BY <1>2, <1>3, <1>4, <1>5 DEF RejectUnsafe

(* A leading slash is a component, and so is every way up.                 *)
LEMMA RootIsSeen ==
  ASSUME NEW p \in Paths, Absolute(p)
  PROVE  1 \in Components(p) /\ Piece(p, 1) = <<>>
<1>1. Len(p) \in Nat /\ p \in Seq(Char) /\ Ends(p) \subseteq Nat
  BY EndsAreNumbers
<1>2. 1 \in Ends(p)
  BY <1>1 DEF Ends, Absolute
<1>3. {d \in Ends(p) : d < 1} = {}
  BY <1>1 DEF Ends
<1>4. Max({0}) = 0
  BY DEF Max
<1>5. Start(p, 1) = 1
  BY <1>3, <1>4 DEF Start
<1>6. Piece(p, 1) = <<>>
  BY <1>1, <1>5 DEF Piece
<1>7. Dot # <<>>
  BY DEF Dot
<1> HIDE DEF Piece, Start, Dot
<1> QED
  BY <1>2, <1>6, <1>7 DEF Components

LEMMA WayUpIsSeen ==
  ASSUME NEW p, NEW e \in Ends(p), Piece(p, e) = DotDot
  PROVE  e \in Components(p)
<1>1. DotDot # Dot /\ DotDot # <<>>
  BY DEF Dot, DotDot
<1> QED
  BY <1>1 DEF Components

-----------------------------------------------------------------------------
LEMMA InitIInv == Init => IInv
<1> SUFFICES ASSUME Init PROVE IInv
  OBVIOUS
<1>1. path \in Paths /\ rest = Components(path) /\ verdict = "checking"
  BY DEF Init
<1> QED
  BY <1>1 DEF IInv, PassedWhole, PassedComponents, AcceptedAtEnd, RefusalIsTrue

LEMMA CheckWholeIInv == IInv /\ CheckWhole => IInv'
<1> SUFFICES ASSUME IInv, CheckWhole PROVE IInv'
  OBVIOUS
<1>1. path' = path /\ rest' = rest /\ path \in Paths /\ verdict = "checking"
      /\ verdict' = IF WholePathError # "Ok" THEN WholePathError ELSE "components"
  BY DEF IInv, CheckWhole, Reject
<1>2. /\ WholePathError = "max_path_len" => Len(path) > MaxPathLen
      /\ WholePathError = "EmptyPath" => path = <<>>
      /\ WholePathError = "NulPath" => Contains(path, "nul")
      /\ WholePathError \in {"max_path_len", "EmptyPath", "NulPath", "Ok"}
      /\ WholePathError = "Ok" =>
           path # <<>> /\ ~Contains(path, "nul") /\ ~(Len(path) > MaxPathLen)
  BY DEF WholePathError
<1>3. Len(path) > MaxPathLen <=> ~(Len(path) <= MaxPathLen)
  BY <1>1, EndsAreNumbers, EntryPathAssumption
<1>4. PassedWhole'
  BY <1>1, <1>2, <1>3 DEF PassedWhole
<1>5. PassedComponents' /\ AcceptedAtEnd'
  BY <1>1, <1>2 DEF IInv, PassedComponents, AcceptedAtEnd
<1>6. RefusalIsTrue'
  BY <1>1, <1>2 DEF RefusalIsTrue
<1> QED
  BY <1>1, <1>4, <1>5, <1>6 DEF IInv

LEMMA CheckComponentIInv == IInv /\ CheckComponent => IInv'
<1> SUFFICES ASSUME IInv, CheckComponent PROVE IInv'
  OBVIOUS
<1> DEFINE e == Min(rest)
           why == RejectUnsafe(Component(path, e))
<1>1. /\ verdict = "components" /\ rest # {} /\ path' = path /\ path \in Paths
      /\ IF why # "Ok" THEN verdict' = why /\ rest' = rest
         ELSE verdict' = verdict /\ rest' = rest \ {e}
  BY DEF IInv, CheckComponent, Reject
<1>2. rest \subseteq Components(path)
  BY DEF IInv, PassedComponents
<1>3. e \in rest
  <2>1. rest \subseteq Nat
    BY <1>1, <1>2, EndsAreNumbers DEF Components
  <2> QED
    BY <1>1, <2>1, MinIsMember
<1>4. e \in Components(path) /\ e \in Ends(path)
  BY <1>2, <1>3 DEF Components
<1>5. /\ why = "AbsolutePath" => Piece(path, e) = <<>>
      /\ why = "ParentEscape" => Piece(path, e) = DotDot
      /\ why \in {"AbsolutePath", "ParentEscape", "Ok"}
  BY ComponentIs
<1> HIDE DEF e, why
<1>6. PassedWhole'
  BY <1>1, <1>5 DEF IInv, PassedWhole
<1>7. PassedComponents'
  BY <1>1 DEF IInv, PassedComponents, e, why, RejectUnsafe
<1>8. AcceptedAtEnd'
  BY <1>1, <1>5 DEF AcceptedAtEnd
<1>9. RefusalIsTrue'
  <2>1. Piece(path, e) = <<>> => Absolute(path)
    <3>1. Dot # <<>>
      BY DEF Dot
    <3> QED
      BY <1>4, <3>1 DEF Components
  <2>2. CASE why = "Ok"
    BY <1>1, <2>2 DEF RefusalIsTrue
  <2>3. CASE why = "AbsolutePath"
    BY <1>1, <1>5, <2>1, <2>3 DEF RefusalIsTrue
  <2>4. CASE why = "ParentEscape"
    BY <1>1, <1>4, <1>5, <2>4 DEF RefusalIsTrue
  <2> QED
    BY <1>5, <2>2, <2>3, <2>4
<1> QED
  BY <1>1, <1>6, <1>7, <1>8, <1>9 DEF IInv

LEMMA AcceptIInv == IInv /\ Accept => IInv'
  BY DEF IInv, Accept, PassedWhole, PassedComponents, AcceptedAtEnd, RefusalIsTrue, RejectUnsafe

LEMMA StutterIInv == IInv /\ UNCHANGED vars => IInv'
  BY DEF IInv, vars, PassedWhole, PassedComponents, AcceptedAtEnd, RefusalIsTrue, RejectUnsafe

LEMMA EntryPathInvariant == Spec => []IInv
<1>1. IInv /\ [Next]_vars => IInv'
  BY CheckWholeIInv, CheckComponentIInv, AcceptIInv, StutterIInv DEF Next
<1> QED
  BY <1>1, InitIInv, PTL DEF Spec

-----------------------------------------------------------------------------
(* A path is refused for a reason that it has (entry.rs:88-110,            *)
(* open.rs:68-71).                                                         *)
THEOREM PathRefusalIsTrue == Spec => []RefusalIsTrue
<1>1. IInv => RefusalIsTrue
  BY DEF IInv
<1> QED
  BY <1>1, EntryPathInvariant, PTL

(* A walk that goes down or nowhere at every piece does not ascend.        *)
LEMMA NoWayUp ==
  ASSUME NEW p \in Paths, \A e \in Ends(p) : Piece(p, e) # DotDot, NEW k \in Ends(p)
  PROVE  Depth(p, k) >= 0
<1> DEFINE walked == {e \in Ends(p) : e <= k}
           down == {e \in walked : Piece(p, e) \notin {<<>>, Dot, DotDot}}
           up == {e \in walked : Piece(p, e) = DotDot}
<1>1. IsFiniteSet(down)
  <2>1. down \subseteq Ends(p)
    OBVIOUS
  <2> QED
    BY <2>1, EndsAreNumbers, FS_Subset
<1>2. Cardinality(down) \in Nat
  BY <1>1, FS_CardinalityType
<1>3. up = {}
  OBVIOUS
<1>4. Cardinality(up) = 0
  BY <1>3, FS_EmptySet
<1>5. Depth(p, k) = Cardinality(down) - Cardinality(up)
  BY DEF Depth
<1> QED
  BY <1>2, <1>4, <1>5

(* An accepted path never leaves the directory it is joined to, not even   *)
(* on the way (entry.rs:89-110).                                           *)
THEOREM AcceptedPathStaysInside == Spec => []AcceptedStaysInside
<1>1. IInv => AcceptedStaysInside
  <2> SUFFICES ASSUME IInv, verdict = "accepted"
               PROVE  /\ path # <<>> /\ ~Absolute(path) /\ ~Contains(path, "nul")
                      /\ Len(path) <= MaxPathLen
                      /\ \A k \in Ends(path) : Depth(path, k) >= 0
    BY DEF AcceptedStaysInside
  <2>1. /\ path \in Paths /\ path # <<>> /\ ~Contains(path, "nul") /\ Len(path) <= MaxPathLen
    BY DEF IInv, PassedWhole
  <2>2. \A e \in Components(path) : Piece(path, e) # <<>> /\ Piece(path, e) # DotDot
    BY ComponentIs DEF IInv, PassedComponents, AcceptedAtEnd
  <2>3. ~Absolute(path)
    BY <2>1, <2>2, RootIsSeen
  <2>4. \A e \in Ends(path) : Piece(path, e) # DotDot
    BY <2>2, WayUpIsSeen
  <2> QED
    BY <2>1, <2>3, <2>4, NoWayUp
<1> QED
  BY <1>1, EntryPathInvariant, PTL
=============================================================================
