------------------------------ MODULE TapeWalk ------------------------------
(***************************************************************************)
(* What a tape holds, said with no reader in sight: the headers met on the *)
(* way from its first byte to its first end block.                         *)
(***************************************************************************)
EXTENDS Tape

(* end: the offset of the first end block, or NoSize if the walk is        *)
(* refused or runs off the tape; members: the offsets of the headers of    *)
(* members before it.                                                      *)
Lost == [end |-> NoSize, members |-> {}]

Overrides == U64 \cup {NoSize}

(* What is met from a header at o on, size being pending there and rest    *)
(* what is met from any later header on.                                   *)
Meets(t, o, size, rest) ==
  LET h == t.at[o]
      after == o + Block + Padded(PayloadSize(h, size))
      pending == IF h.kind = "pax" THEN h.pax
                 ELSE IF h.kind = "long" THEN size ELSE NoSize
  IN  IF o + Block > t.len THEN Lost
      ELSE IF ZeroBlock(t, o) THEN [end |-> o, members |-> {}]
      ELSE IF \/ Refusal(h, size) # "none"
              \/ h.kind = "pax" /\ h.pax = Bad
              \/ after > t.len
           THEN Lost
      ELSE [end     |-> rest[after][pending].end,
            members |-> rest[after][pending].members
                          \cup (IF IsExtension(h) THEN {} ELSE {o})]

Walks(t) ==
  LET walk[o \in 0 .. t.len] == [size \in Overrides |-> Meets(t, o, size, walk)]
  IN  walk

Walk(t) == Walks(t)[0][NoSize]

EndBlock(t) == Walk(t).end

(* A complete archive: whole records, two end blocks, zeros to the end.    *)
Complete(t) ==
  LET end == EndBlock(t)
  IN  /\ end # NoSize
      /\ end + 2 * Block <= t.len
      /\ \A b \in t.dirty : b < end
=============================================================================
