-------------------------- MODULE MCGuardedParser --------------------------
(* Archives of up to nine blocks: members with and without an override,    *)
(* truncated tapes, and end blocks in every position.                      *)
EXTENDS GuardedParser, MCTapes

MCBlock       == 2
MCMaxU64      == 6
MCMaxMetadata == 3
MCChunk       == 3

Wide == {Zero, Other, Member(0), Member(3), Pax(2, 3), Pax(1, Bad), Pax(0, NoSize), Pax(4, 0), Long(1)}

Narrow == {Zero, Member(0), Pax(1, 1)}

MCTapeSet ==
  TapesOver(Wide, 3, {0}) \cup TapesOver(Narrow, 7, {0, 1})
  \cup {Layout(<<Pax(2, 3), Zero, Long(1), a, b, c, d, Zero, Zero>>, cut) :
          a \in {Zero, Member(1)}, b \in {Member(1), Pax(2, NoSize)},
          c \in {Zero, Member(0)}, d \in {Zero, Other}, cut \in {0, 1}}
=============================================================================
