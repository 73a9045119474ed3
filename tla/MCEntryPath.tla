---------------------------- MODULE MCEntryPath ----------------------------
(* Every path of up to seven characters, one above the limit.              *)
EXTENDS EntryPath

MCMaxPathLen == 6
MCPaths == UNION {[1 .. n -> Char] : n \in 0 .. 7}
=============================================================================
