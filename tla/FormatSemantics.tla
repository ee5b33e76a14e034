-------------------------- MODULE FormatSemantics --------------------------
(***************************************************************************)
(* What a format means: the text it stands for, read off the table of      *)
(* directives in String.h (lines 55 to 58) and not off the code's switch.  *)
(***************************************************************************)
EXTENDS Sequences, SequencesExt

CONSTANTS HexOf(_, _), DecimalOf(_), ArgumentOf(_, _)

Letters == {"b", "s", "i", "q"}

Directives ==
    {<<"%", "%">>, <<"%", "r">>}
        \cup {<<"%", l, c>> : l \in Letters, c \in {"x", "d"}}
        \cup {<<"%", "0", l, "x">> : l \in Letters}

(* What String.h has beside: the floating-point directives of line 57, of  *)
(* which nothing says what text they stand for, and the types of a single  *)
(* letter of lines 26 and 27, which the table does not have.  Of a format  *)
(* with one of them only the text before it has a meaning.                 *)
OtherDirectives ==
    {<<"%", "i", "f">>, <<"%", "q", "f">>, <<"%", "x">>, <<"%", "d">>}

(* Line 20 lets formatters follow a type, the table has none.              *)
Formatters == "{"

FieldLength == [b |-> 2, s |-> 4, i |-> 8, q |-> 16]

(* The text a directive stands for, given the slot it reads.               *)
Substitution(d, slot) ==
    LET letter == d[Len(d) - 1]
        value  == ArgumentOf(letter, slot.integer)
    IN  IF d[2] = "r" THEN slot.string
        ELSE IF d[Len(d)] = "d" THEN DecimalOf(value)
        ELSE HexOf(value, IF d[2] = "0" THEN FieldLength[letter] ELSE 0)

(***************************************************************************)
(* A format is read from its start, a rune or a directive at a time: what  *)
(* is left of it and of the slots, the text so far, and whether it has not *)
(* come to a place, unknown or of another directive, where it stops.       *)
(***************************************************************************)
Unread(format, slots) ==
    [rest |-> format, slots |-> slots, text |-> <<>>, valid |-> TRUE]

(* The directives that may be read next.  One that reads a slot needs it:  *)
(* a call that passes too few arguments is undefined.                      *)
Known(p) ==
    {d \in Directives : IsPrefix(d, p.rest) /\ (p.slots = <<>> => d = <<"%", "%">>)}

ReadRune(p) ==
    [p EXCEPT !.rest = Tail(p.rest), !.text = Append(p.text, Head(p.rest))]

ReadDirective(p, d) ==
    LET after == SubSeq(p.rest, Len(d) + 1, Len(p.rest))
    IN  IF d = <<"%", "%">>
        THEN [p EXCEPT !.rest = after, !.text = Append(p.text, "%")]
        ELSE [p EXCEPT !.rest = after, !.slots = Tail(p.slots),
                       !.text = p.text \o Substitution(d, Head(p.slots))]

Advance(p) ==
    IF p.rest = <<>> THEN p
    ELSE IF Head(p.rest) # "%" THEN ReadRune(p)
    ELSE IF Known(p) = {} THEN [p EXCEPT !.valid = FALSE]
    ELSE ReadDirective(p, CHOOSE d \in Known(p) : TRUE)

(* The readings of a format, by the runes and directives read; those of a  *)
(* format of n runes end with the n-th.                                    *)
Readings(format, slots) ==
    LET reading[n \in 0 .. Len(format)] ==
            IF n = 0 THEN Unread(format, slots) ELSE Advance(reading[n - 1])
    IN  reading

Expansion(format, slots) == Readings(format, slots)[Len(format)]
=============================================================================
