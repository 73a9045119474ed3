---------------------------- MODULE ArchiveSink ----------------------------
(***************************************************************************)
(* What Writer promises its caller: an archive that grows by one whole     *)
(* entry at a time, and comes out exactly once, complete, or never.        *)
(***************************************************************************)
EXTENDS TarBytes

VARIABLES
  format,     \* chosen when the writer is made
  accepted,   \* the records of the entries append answered Ok to, in order
  state,      \* "open", "aborted" or "published"
  archive     \* what the caller gets back, <<>> until it is published

sinkVars == <<format, accepted, state, archive>>

SinkInit ==
  /\ format \in Formats
  /\ accepted = <<>>
  /\ state = "open"
  /\ archive = <<>>

(* An entry whose body has exactly the declared length is added whole.     *)
Accept(e) ==
  /\ state = "open"
  /\ e.size = e.yields
  /\ accepted' = accepted \o Record(e)
  /\ UNCHANGED <<format, state, archive>>

Publish ==
  /\ state = "open"
  /\ state' = "published"
  /\ archive' = accepted \o Trailer(format)
  /\ UNCHANGED <<format, accepted>>

(* A failure anywhere: this archive is never published.                    *)
Abort ==
  /\ state = "open"
  /\ state' = "aborted"
  /\ UNCHANGED <<format, accepted, archive>>

SinkNext == (\E e \in Entries : Accept(e)) \/ Publish \/ Abort

SinkSpec == SinkInit /\ [][SinkNext]_sinkVars
=============================================================================
