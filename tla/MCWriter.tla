------------------------------ MODULE MCWriter ------------------------------
(* Three appends of files with exact, short and surplus bodies, whose      *)
(* records need padding or not, and of a directory whose name is long.     *)
EXTENDS Writer

MCBlock      == 2
MCChunk      == 2
MCMaxAppends == 3

File(n, size, yields) ==
  [name |-> n, kind |-> "file", size |-> size, yields |-> yields, long |-> 0]
MCEntries == {File("exact", 3, 3), File("empty", 0, 0), File("short", 2, 1),
              File("long", 1, 2), File("surplus", 2, 3),
              [name |-> "dir", kind |-> "meta", size |-> 0, yields |-> 0, long |-> 1]}
=============================================================================
