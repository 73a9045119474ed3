----------------------------- MODULE MCPaxSize -----------------------------
(* All payloads up to five bytes of a small alphabet, and all payloads     *)
(* that string together up to three pieces, which are records or nearly.   *)
EXTENDS PaxSize

Alphabet == {0, 3, 4, 5, Space, Newline, Key}
Short == UNION {[1 .. n -> Alphabet] : n \in 0 .. 5}

Pieces ==
  {<<5, Space, Key, 1, Newline>>,                 \* size=1
   <<6, Space, Key, 1, 5, Newline>>,              \* the largest size
   <<6, Space, Key, 1, 6, Newline>>,              \* overflows in the sum
   <<6, Space, Key, 2, 0, Newline>>,              \* overflows in the product
   <<4, Space, Letter, Newline>>,                 \* another key
   <<0, 5, Space, Letter, Newline>>,              \* a leading zero
   <<6, Space, Letter, 1, Space, Newline>>,       \* a space in the text
   <<4, Space, Key, Newline>>,                    \* no number
   <<3, Space, Newline>>,                         \* no text
   <<5, Space, Letter, Newline>>,                 \* reaches into the next
   <<9, Space, 5, Space, Newline>>}
Joined == {a \o b : a, b \in Pieces} \cup {a \o b \o c : a, b, c \in Pieces}

MCPayloads == Short \cup {p \in Joined : Len(p) <= 12}
=============================================================================
