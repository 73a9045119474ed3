----------------------------- MODULE MCByteCaps -----------------------------
(* ByteCaps with u64 of four bits: limits off, at zero, at and around the  *)
(* floor; sources shorter than the magic, plain, and of any ratio.         *)
EXTENDS ByteCaps

Zst(len, out, flaw) == [len |-> len, zstd |-> TRUE, out |-> out, flaw |-> flaw]
Plain(len, flaw) == [len |-> len, zstd |-> FALSE, out |-> len, flaw |-> flaw]

MCSources ==
  {Plain(len, flaw) : len \in {0, 1, 2, 5}, flaw \in {"none", "Malformed", "max_metadata_bytes"}}
  \cup {Zst(len, out, flaw) : len \in {2, 3, 6}, out \in {0, 4, 12},
                              flaw \in {"none", "Malformed", "DisallowedEntryType"}}
MCLimitSets == [total : {0, 3, 4, 15}, ratio : {0, 1, 2, 15}]
=============================================================================
