----------------------------- MODULE MCValidate -----------------------------
(* validate over the archives of MCReader.                                 *)
EXTENDS Validate, MCStreams
=============================================================================
