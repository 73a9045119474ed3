------------------------------ MODULE Validate ------------------------------
(***************************************************************************)
(* validate of reader.rs: the one client of Reader that etar has itself.   *)
(* It asks for every entry, copies its body to a sink, and counts.         *)
(***************************************************************************)
EXTENDS Reader

VARIABLES
  status,     \* "running", "ok" or "err"
  count       \* the local variable entries of validate

validateVars == <<vars, status, count>>

ValidateInit == Init /\ status = "running" /\ count = 0

Ask ==
  /\ answer \in {"none", "entry"}
  /\ ~mishap
  /\ NextEntry
  /\ UNCHANGED <<status, count>>

AwaitEntry ==
  /\ ParseMember \/ ParseFails \/ ParseEnd \/ VerifyEnd
  /\ UNCHANGED <<status, count>>

(* tokio::io::copy reads until the body fails or answers Ok(0).            *)
Copy ==
  /\ ~eof /\ ~mishap
  /\ (\E n \in 1 .. Chunk : ReadBody(n)) \/ BodyEnds
  /\ UNCHANGED <<status, count>>

CopyFails ==
  /\ ~eof /\ ~mishap
  /\ BodyFails
  /\ UNCHANGED <<status, count>>

EntryDone ==
  /\ eof
  /\ DropEntry
  /\ count' = count + 1
  /\ UNCHANGED status

(* The error of the body or of next_entry is returned; the reader and a    *)
(* lent entry are dropped.                                                 *)
ReturnErr ==
  /\ mishap
  /\ status' = "err"
  /\ UNCHANGED <<vars, count>>

ReturnOk ==
  /\ call = "idle"
  /\ answer = "end"
  /\ status' = "ok"
  /\ UNCHANGED <<vars, count>>

ValidateRun ==
  /\ status = "running"
  /\ Ask \/ AwaitEntry \/ Copy \/ EntryDone \/ ReturnErr \/ ReturnOk

ValidateNext == ValidateRun \/ (status = "running" /\ CopyFails)

ValidateSpec == ValidateInit /\ [][ValidateNext]_validateVars

(* A validation that is awaited, over a source that keeps answering: no    *)
(* fault of a body is ever owed to it.                                     *)
ValidateFairSpec == ValidateSpec /\ WF_validateVars(ValidateRun)

-----------------------------------------------------------------------------
(* A report is given only for an archive in which every member passes      *)
(* open_entry, every body is within max_entry_bytes and there to its last  *)
(* byte, and the report counts all of them.                                *)
ReportIsTrue ==
  status = "ok" =>
    /\ count = Len(stream.members)
    /\ count <= MaxEntries
    /\ stream.sound /\ stream.missing = 0
    /\ \A i \in 1 .. count :
         /\ OpenEntry(stream.members[i]) = "entry"
         /\ stream.members[i].body <= MaxEntryBytes

(* Nothing but a fault of the source fails an archive that deserves a      *)
(* report: a Malformed answer names a defect.                              *)
MalformedIsDeserved ==
  answer = "Malformed" =>
    \/ ~stream.sound
    \/ stream.missing > 0
    \/ \E i \in 1 .. Len(stream.members) :
         stream.members[i].kind = "broken" \/ OpenEntry(stream.members[i]) = "Malformed"

ValidateReturns == <>(status # "running")
=============================================================================
