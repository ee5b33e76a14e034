--------------------------- MODULE FormattedText ---------------------------
(***************************************************************************)
(* What the formatter promises its client, without its buffer: a text is   *)
(* shown in order, in chunks that are full except for the last, and nothing*)
(* is shown once the client has ended the call.                            *)
(***************************************************************************)
EXTENDS Integers, Sequences

CONSTANT Runes      \* what a text is made of

VARIABLES
    text,       \* the text the call stands for
    room,       \* the runes a chunk has room for, without its NUL
    shown,      \* what the client has been shown
    phase       \* "open", or why the call is over

Init ==
    /\ text \in Seq(Runes)
    /\ room \in Int
    /\ shown = <<>>
    /\ phase = "open"

Refuse ==
    /\ phase = "open"
    /\ room < 1
    /\ phase' = "refused"
    /\ UNCHANGED <<text, room, shown>>

ShowFullChunk ==
    /\ phase = "open"
    /\ room >= 1
    /\ Len(shown) + room <= Len(text)
    /\ shown' = SubSeq(text, 1, Len(shown) + room)
    /\ phase' \in {"open", "stopped"}
    /\ UNCHANGED <<text, room>>

ShowLastChunk ==
    /\ phase = "open"
    /\ room >= 1
    /\ Len(text) < Len(shown) + room
    /\ shown' = text
    /\ phase' = "closed"
    /\ UNCHANGED <<text, room>>

Next == Refuse \/ ShowFullChunk \/ ShowLastChunk

vars == <<text, room, shown, phase>>

Spec == Init /\ [][Next]_vars
=============================================================================
