------------------------- MODULE MCStringFormatter -------------------------
(***************************************************************************)
(* Calls of the formatter for TLC: every format made of at most Pieces     *)
(* pieces, each with the slot it reads, every buffer of Sizes, every client*)
(***************************************************************************)
EXTENDS StringFormatterMeaning, NumberStrings

CONSTANTS Sizes, Pieces

MCRunes == {DigitRunes[i] : i \in 1 .. 16}
              \cup {"g", "%", "r", "s", "i", "q", "x", "d", "z", "f"}

(* 0, 10, 171, and an int whose sign bit is set.                               *)
MinusTwo == [i \in 1 .. Nybbles |-> IF i <= Nybbles \div 2 THEN 0
                                    ELSE IF i = Nybbles THEN 14 ELSE 15]

Integers_ == {Zero, WordOf(10), WordOf(171), MinusTwo}

MCWords == Integers_ \cup {IntegerOf(l, w) : l \in {"b", "s", "i", "q"}, w \in Integers_}

(* The number strings, tabulated: TLC evaluates a table once.              *)
HexTable     == [w \in MCWords, min \in {0, 2, 4, 8, 16} |-> HexText(w, min)]
DecimalTable == [w \in MCWords |-> DecimalText(w)]
IntegerTable == [l \in {"b", "s", "i", "q"}, w \in MCWords |-> IntegerOf(l, w)]

MCHexString(w, min)     == HexTable[w, min]
MCDecimalString(w)      == DecimalTable[w]
MCIntegerArgument(l, w) == IntegerTable[l, w]

Text(f)          == [format |-> f, slots |-> <<>>]
StringPiece(s)   == [format |-> <<"%", "r">>, slots |-> <<[string |-> s, integer |-> Zero]>>]
Number(f, w)     == [format |-> f, slots |-> <<[string |-> <<>>, integer |-> w]>>]

(* Pieces of formats, and pieces that end the call; %if is one of these,   *)
(* though String.h lists it, and the properties leave its formats out.     *)
Known == {
    Text(<<"g">>), Text(<<"%", "%">>),
    StringPiece(<<>>), StringPiece(<<"a", "b", "c">>), StringPiece(<<"%", "r">>),
    Number(<<"%", "b", "d">>, Zero), Number(<<"%", "s", "d">>, WordOf(171)),
    Number(<<"%", "i", "x">>, MinusTwo), Number(<<"%", "0", "b", "x">>, WordOf(10)),
    Number(<<"%", "0", "s", "x">>, WordOf(171)), Number(<<"%", "b", "x">>, MinusTwo) }

Unknown == {
    Text(<<"%">>), Text(<<"%", "z">>), Text(<<"%", "0">>), Text(<<"%", "0", "r">>),
    Number(<<"%", "i", "f">>, Zero), Number(<<"%", "q">>, Zero),
    Number(<<"%", "0", "b", "d">>, Zero) }

Join(ps) == [format |-> FlattenSeq([i \in 1 .. Len(ps) |-> ps[i].format]),
             slots  |-> FlattenSeq([i \in 1 .. Len(ps) |-> ps[i].slots])]

Formats == {Join(ps) : ps \in UNION {[1 .. n -> Known \cup Unknown] : n \in 0 .. Pieces}}
              \cup {[format |-> NullFormat, slots |-> <<>>]}

MCCalls == {[format |-> f.format, slots |-> f.slots, size |-> n, client |-> c] :
               f \in Formats, n \in Sizes, c \in Clients}
=============================================================================
