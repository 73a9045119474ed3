------------------------------ MODULE MCStreams ------------------------------
(* Small archives for Reader and its clients, and the limits they meet.    *)
EXTENDS Sequences, Integers

MCMaxEntries    == 2
MCMaxEntryBytes == 2
MCLinks         == {"symlink"}
MCChunk         == 2

File(size, body) == [path |-> "safe", kind |-> "file", target |-> FALSE,
                     size |-> size, body |-> body, meta |-> TRUE]

(* A file, one whose pax size exceeds the limit, one whose header does.    *)
Files == {File(1, 1), File(0, 4), File(3, 3)}

Others ==
  {[File(0, 0) EXCEPT !.kind = "dir"],
   [File(1, 1) EXCEPT !.kind = "dir"],
   [File(0, 0) EXCEPT !.kind = "symlink"],
   [File(0, 0) EXCEPT !.kind = "symlink", !.target = TRUE],
   [File(0, 0) EXCEPT !.kind = "hardlink", !.target = TRUE],
   [File(0, 0) EXCEPT !.kind = "other"],
   [File(0, 0) EXCEPT !.kind = "broken"],
   [File(1, 1) EXCEPT !.meta = FALSE]}
  \cup {[File(1, 1) EXCEPT !.path = p] : p \in {"unsafe", "unreadable", "too long"}}

Sequences(S, n) == UNION {[1 .. k -> S] : k \in 0 .. n}

Whole(members, sound) == [members |-> members, sound |-> sound, missing |-> 0]
Cut(members, n) == [members |-> members, sound |-> FALSE, missing |-> n]

MCAllStreams ==
  {Whole(ms, sound) : ms \in Sequences(Files \cup Others, 2), sound \in BOOLEAN}
  \cup {Whole(ms, TRUE) : ms \in [1 .. 3 -> {File(1, 1), File(0, 4)}]}
  \cup {Cut(ms, n) : ms \in Sequences({File(1, 1), File(0, 4)}, 2) \ {<<>>}, n \in {1}}
=============================================================================
