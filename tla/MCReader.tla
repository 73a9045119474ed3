------------------------------ MODULE MCReader ------------------------------
(* Reader over archives of up to three members, sound, damaged or cut.     *)
EXTENDS Reader, MCStreams

(* A directory with a pax size.                                            *)
MCStreamsPaxDirectory ==
  MCAllStreams \cup {Whole(<<[File(0, 1) EXCEPT !.kind = "dir"]>>, TRUE)}
=============================================================================
