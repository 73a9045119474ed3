--------------------------- MODULE MCHeaderGuard ---------------------------
(* HeaderGuard over every tape of three blocks from a wide alphabet (the *)
(* last one cut short) and of five blocks from a narrow one.              *)
EXTENDS HeaderGuard, MCTapes

MCBlock       == 3
MCMaxU64      == 8
MCMaxMetadata == 4
MCChunk       == 4

Wide == {Zero, Other, Member(2), Member(Bad), Pax(0, NoSize), Pax(2, 8),
         Pax(1, Bad), Pax(1, NoSize), Pax(5, 0), Long(1)}

Narrow == {Zero, Member(1), Pax(4, 4)}

(* An override that a long name stands between, for the member after it.   *)
Overridden ==
  {Layout(<<Pax(2, 4), Zero, Long(1), Member(1), a, b, Zero>>, 0) :
     a \in {Zero, Member(1)}, b \in {Zero, Other}}

MCTapeSet == TapesOver(Wide, 3, {1}) \cup TapesOver(Narrow, 5, {0}) \cup Overridden
=============================================================================
