---------------------------- MODULE MCRoundTrip ----------------------------
(* Three appends; bodies of one and two blocks, with and without padding,  *)
(* and a long name.                                                        *)
EXTENDS RoundTrip, MCWriter

MCMaxU64      == 6
MCMaxMetadata == 3
=============================================================================
