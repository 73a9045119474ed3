----------------------------- MODULE MCRelease -----------------------------
(* Release before 1.0 and across it, with versions set by hand that are    *)
(* too small, enough, and more than enough.                                *)
EXTENDS Release

MCFirstVersion == <<0, 9, 0>>
MCSetVersions == {<<0, 9, 1>>, <<1, 0, 0>>}
=============================================================================
