------------------------------ MODULE MCTapes ------------------------------
(***************************************************************************)
(* Small tapes for the model checker.  A tape is laid out from a sequence  *)
(* of blocks, each a header or Zero; a block means the same whether the    *)
(* walk reaches it as a header or passes it as payload, so every sequence  *)
(* over an alphabet covers payload that imitates a header.                 *)
(***************************************************************************)
EXTENDS Tape, Sequences

Zero == [kind |-> "zero"]
Member(size)      == [kind |-> "entry", size |-> size, pax |-> NoSize]
Pax(size, number) == [kind |-> "pax", size |-> size, pax |-> number]
Long(size)        == [kind |-> "long", size |-> size, pax |-> NoSize]
Other             == [kind |-> "other", size |-> 0, pax |-> NoSize]

(* The blocks, without the last cut bytes.  The first byte of a header is  *)
(* not zero; a header read from the middle of two blocks is one no walk    *)
(* accepts.                                                                *)
Layout(blocks, cut) ==
  LET len == Len(blocks) * Block - cut
      header(o) == blocks[o \div Block + 1]
      aligned(o) == o % Block = 0 /\ o \div Block < Len(blocks)
  IN  [len   |-> len,
       dirty |-> {o \in 0 .. len - 1 : aligned(o) /\ header(o) # Zero},
       at    |-> [o \in 0 .. len |->
                    IF aligned(o) /\ header(o) # Zero THEN header(o) ELSE Other]]

TapesOver(alphabet, n, cuts) ==
  {Layout(blocks, cut) : blocks \in [1 .. n -> alphabet], cut \in cuts}
=============================================================================
