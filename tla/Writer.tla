------------------------------- MODULE Writer -------------------------------
(***************************************************************************)
(* Writer of writer.rs with the record packing of pack.rs under it.  The   *)
(* tar Builder and the zstd encoder are external: the builder writes a     *)
(* header, copies the body it reads through Exact and pads the record; the *)
(* encoder holds back any part of what it is given until shutdown.         *)
(*                                                                         *)
(* append and finish are async: between any two steps of a call the caller *)
(* may drop its future (Cancel), the body or the sink may fail, and the    *)
(* sink may take any number of the bytes it is offered.                    *)
(***************************************************************************)
EXTENDS TarBytes

CONSTANTS
  Chunk,        \* most bytes one read of a body or one write to the sink moves
  MaxAppends    \* bound on the calls of append

ASSUME WriterAssumption ==
  Chunk \in Nat \ {0} /\ MaxAppends \in Nat /\ Entries # {}

VARIABLES
  format,       \* Format::Tar or Format::TarZstd
  failed,       \* Writer::failed
  step,         \* where the call in progress is, see Steps
  entry,        \* the entry being appended, or the last one
  remaining,    \* Exact::remaining
  supplied,     \* bytes the body source has given up
  buffer,       \* bytes written by the builder that are not in the sink
  sink,         \* bytes the caller's sink has taken
  bytes,        \* Counted::bytes
  accepted,     \* records of the entries answered with Ok (history)
  answer,       \* what the last call returned
  appends       \* calls of append so far (bound)

bodyVars == <<entry, remaining, supplied>>
pipeVars == <<buffer, sink, bytes>>
vars == <<format, failed, step, bodyVars, pipeVars, accepted, answer, appends>>

Appending == {"begin", "body", "probe"}
Finishing == {"terminate", "shutdown"}
Steps == {"idle", "published", "lost"} \cup Appending \cup Finishing

Answers == {"none", "Ok", "BodyLengthMismatch", "Failed", "Aborted", "cancelled"}

(* Before the first append.                                                *)
NoEntry == CHOOSE e \in Entries : TRUE

TypeOK ==
  /\ format \in Formats
  /\ failed \in BOOLEAN
  /\ step \in Steps
  /\ entry \in Entries
  /\ remaining \in Nat
  /\ supplied \in Nat
  /\ bytes \in Nat
  /\ answer \in Answers
  /\ appends \in 0 .. MaxAppends

Init ==
  /\ format \in Formats
  /\ failed = FALSE
  /\ step = "idle"
  /\ entry = NoEntry
  /\ remaining = 0
  /\ supplied = 0
  /\ buffer = <<>>
  /\ sink = <<>>
  /\ bytes = 0
  /\ accepted = <<>>
  /\ answer = "none"
  /\ appends = 0

(* The builder's writes go straight to the sink, or into the encoder.      *)
Flushed == format = "Tar" => buffer = <<>>

Write(new) == buffer' = buffer \o new /\ UNCHANGED <<sink, bytes>>

(* Mutant: no guard remembers that the call went wrong.                    *)
AppendForgets(why) ==
  /\ step' = "idle"
  /\ answer' = why
  /\ UNCHANGED <<format, failed, bodyVars, pipeVars, accepted, appends>>

(* append returns an error, or is dropped: AbortOnDrop is still armed.     *)
AppendFails(why) ==
  /\ failed' = TRUE
  /\ step' = "idle"
  /\ answer' = why
  /\ UNCHANGED <<format, bodyVars, pipeVars, accepted, appends>>

-----------------------------------------------------------------------------
(* append is called on a writer that has not failed.                       *)
AppendEntry(e) ==
  /\ step = "idle"
  /\ appends < MaxAppends
  /\ appends' = appends + 1
  /\ \/ /\ failed
        /\ answer' = "Aborted"
        /\ UNCHANGED <<step, bodyVars>>
     \/ /\ ~failed
        /\ step' = "begin"
        /\ entry' = e
        /\ remaining' = e.size
        /\ supplied' = 0
        /\ UNCHANGED answer
  /\ UNCHANGED <<format, failed, pipeVars, accepted>>

(* The header goes out, or is refused for its path, link or fields.        *)
BeginRecord ==
  /\ step = "begin"
  /\ \/ AppendFails("Failed")
     \/ /\ Write(HeaderBytes(entry))
        /\ step' = "body"
        /\ UNCHANGED <<format, failed, bodyVars, accepted, answer, appends>>

(* Mutant: a read that yields more than is expected is not noticed.        *)
ReadSurplus(n) ==
  /\ step = "body"
  /\ remaining > 0
  /\ n <= entry.yields - supplied
  /\ remaining' = remaining - n
  /\ supplied' = supplied + n
  /\ Write(BodyBytes(entry, n))
  /\ UNCHANGED <<format, failed, step, entry, accepted, answer, appends>>

(* One poll of Exact, while it still expects bytes: some come, too many    *)
(* come, none come, or the body fails.                                     *)
ReadBody(n) ==
  /\ step = "body"
  /\ remaining > 0
  /\ n <= entry.yields - supplied
  /\ \/ /\ n > remaining
        /\ AppendFails("BodyLengthMismatch")
     \/ /\ n <= remaining
        /\ remaining' = remaining - n
        /\ supplied' = supplied + n
        /\ Write(BodyBytes(entry, n))
        /\ UNCHANGED <<format, failed, step, entry, accepted, answer, appends>>

(* Mutant: only a body without a first byte is found short.                *)
BodyIsMissing ==
  /\ step = "body"
  /\ remaining > 0
  /\ supplied = 0
  /\ entry.yields = 0
  /\ AppendFails("BodyLengthMismatch")

BodyIsShort ==
  /\ step = "body"
  /\ remaining > 0
  /\ supplied = entry.yields
  /\ AppendFails("BodyLengthMismatch")

BodyFails ==
  /\ entry.kind = "file"
  /\ \/ step = "body" /\ remaining > 0
     \/ step = "probe"
  /\ AppendFails("Failed")

(* Exact says the body is over; the builder pads the record.               *)
EndRecord ==
  /\ step = "body"
  /\ remaining = 0
  /\ Flushed
  /\ Write(Padding(entry))
  /\ step' = "probe"
  /\ UNCHANGED <<format, failed, bodyVars, accepted, answer, appends>>

(* Mutant: nobody asks the source for one byte more.                       *)
ProbeNothing ==
  /\ step = "probe"
  /\ Flushed
  /\ step' = "idle"
  /\ accepted' = accepted \o Record(entry)
  /\ answer' = "Ok"
  /\ UNCHANGED <<format, failed, bodyVars, pipeVars, appends>>

(* A file's source must be at its end; the record is already written.      *)
Probe ==
  /\ step = "probe"
  /\ Flushed
  /\ \/ /\ entry.kind = "file" /\ supplied < entry.yields
        /\ AppendFails("BodyLengthMismatch")
     \/ /\ entry.kind = "meta" \/ supplied = entry.yields
        /\ step' = "idle"
        /\ accepted' = accepted \o Record(entry)
        /\ answer' = "Ok"
        /\ UNCHANGED <<format, failed, bodyVars, pipeVars, appends>>

-----------------------------------------------------------------------------
(* finish consumes the writer.                                             *)
Lose(why) ==
  /\ step' = "lost"
  /\ answer' = why
  /\ UNCHANGED <<format, failed, bodyVars, pipeVars, accepted, appends>>

(* Mutant: a writer that failed is finished all the same.                  *)
FinishAnyway ==
  /\ step = "idle"
  /\ step' = "terminate"
  /\ Write(Bytes(2 * Block, "archive", "end"))
  /\ UNCHANGED <<format, failed, bodyVars, accepted, answer, appends>>

Finish ==
  /\ step = "idle"
  /\ \/ failed /\ Lose("Aborted")
     \/ /\ ~failed
        /\ step' = "terminate"
        /\ Write(Bytes(2 * Block, "archive", "end"))
        /\ UNCHANGED <<format, failed, bodyVars, accepted, answer, appends>>

(* The terminators are written; shutdown of the encoder ends its frame.    *)
Shutdown ==
  /\ step = "terminate"
  /\ Flushed
  /\ step' = "shutdown"
  /\ Write(IF format = "TarZstd" THEN Bytes(1, "archive", "frame end") ELSE <<>>)
  /\ UNCHANGED <<format, failed, bodyVars, accepted, answer, appends>>

Publish ==
  /\ step = "shutdown"
  /\ buffer = <<>>
  /\ step' = "published"
  /\ answer' = "Ok"
  /\ UNCHANGED <<format, failed, bodyVars, pipeVars, accepted, appends>>

-----------------------------------------------------------------------------
(* Mutant: a short write is taken for a whole one.                         *)
SinkDrops(n) ==
  /\ step \in Appending \cup Finishing
  /\ n <= Len(buffer)
  /\ sink' = sink \o SubSeq(buffer, 1, n)
  /\ buffer' = <<>>
  /\ bytes' = bytes + n
  /\ UNCHANGED <<format, failed, step, bodyVars, accepted, answer, appends>>

(* Counted: the sink takes the first n bytes it is offered.                *)
SinkTakes(n) ==
  /\ step \in Appending \cup Finishing
  /\ n <= Len(buffer)
  /\ sink' = sink \o SubSeq(buffer, 1, n)
  /\ buffer' = SubSeq(buffer, n + 1, Len(buffer))
  /\ bytes' = bytes + n
  /\ UNCHANGED <<format, failed, step, bodyVars, accepted, answer, appends>>

SinkFails ==
  \/ step \in Appending /\ buffer # <<>> /\ AppendFails("Failed")
  \/ step \in Finishing /\ Lose("Failed")

(* The caller drops the future of the call in progress, or the writer.     *)
Cancel ==
  \/ step \in Appending /\ AppendFails("cancelled")
  \/ step \in Finishing /\ Lose("cancelled")
  \/ step = "idle" /\ Lose("cancelled")

-----------------------------------------------------------------------------
Run ==
  \/ BeginRecord
  \/ \E n \in 1 .. Chunk : ReadBody(n) \/ SinkTakes(n)
  \/ BodyIsShort
  \/ EndRecord
  \/ Probe
  \/ Shutdown
  \/ Publish

Next ==
  \/ Run
  \/ \E e \in Entries : AppendEntry(e)
  \/ Finish
  \/ BodyFails
  \/ SinkFails
  \/ Cancel

Spec == Init /\ [][Next]_vars

(* A call that is awaited runs as long as its body and its sink answer.    *)
FairSpec == Spec /\ WF_vars(Run)

-----------------------------------------------------------------------------
(* What leaves the writer is exactly what was put in, in order, up to the  *)
(* record in progress, whatever failed or was dropped on the way.          *)
InProgress ==
  CASE step = "body"  -> HeaderBytes(entry) \o BodyBytes(entry, supplied)
    [] step = "probe" -> Record(entry)
    [] step = "terminate" -> Bytes(2 * Block, "archive", "end")
    [] step \in {"shutdown", "published"} -> Trailer(format)
    [] OTHER -> <<>>

StreamIsExact ==
  ~failed /\ step # "lost" => sink \o buffer = accepted \o InProgress

(* Every entry answered with Ok stays in the stream, even after a failure, *)
(* and whole records precede the one that failed.                          *)
AcceptedIsKept ==
  /\ Len(accepted) <= Len(sink \o buffer)
  /\ SubSeq(sink \o buffer, 1, Len(accepted)) = accepted

(* encoded_bytes is the number of bytes the sink took, short writes and    *)
(* all.                                                                    *)
CountsSink == bytes = Len(sink)

(* append answers Ok only when the body had exactly the declared length,   *)
(* and blames the length only when it had not (pack.rs:104).               *)
HonestAnswer ==
  step = "idle" =>
    /\ answer = "Ok" => entry.size = entry.yields
    /\ answer = "BodyLengthMismatch" => entry.size # entry.yields

(* What a caller can tell of the writer.                                   *)
SinkState ==
  IF step = "published" THEN "published"
  ELSE IF failed \/ step = "lost" THEN "aborted" ELSE "open"
SinkArchive == IF step = "published" THEN sink ELSE <<>>

(* The writer is an ArchiveSink: what finish returns is the complete       *)
(* archive of exactly the entries answered with Ok, and a failed, short,   *)
(* long or cancelled append means that nothing is ever returned.           *)
Abstract == INSTANCE ArchiveSink WITH state <- SinkState, archive <- SinkArchive

ImplementsArchiveSink == Abstract!SinkSpec

(* A call that is awaited returns.                                         *)
CallsReturn ==
  step \in Appending \cup Finishing ~> step \in {"idle", "published", "lost"}
=============================================================================
