--------------------------- MODULE NumberStrings ---------------------------
(***************************************************************************)
(* The machine integers of String.c and the strings its conversions write, *)
(* as values: what Uint64ToDecimalString, Int64ToDecimalString and         *)
(* Uint64ToZeroPaddedHexString have put before the NUL when they return.   *)
(* NumberConversions.tla holds their loops, and its runs show that the     *)
(* loops compute these strings.                                            *)
(*                                                                         *)
(* A word is its nybbles, the most significant first, at the width of the  *)
(* machine: TLC's integers are too narrow for a uint64_t.                  *)
(***************************************************************************)
EXTENDS Integers, Sequences

CONSTANT Nybbles            \* nybbles of a word: 16

ASSUME NybblesAssumption == Nybbles \in Nat \ {0} /\ Nybbles % 2 = 0

Word == [1 .. Nybbles -> 0 .. 15]

Zero == [i \in 1 .. Nybbles |-> 0]

DigitRunes == <<"0", "1", "2", "3", "4", "5", "6", "7", "8", "9",
                "a", "b", "c", "d", "e", "f">>

DigitRune(d) == DigitRunes[d + 1]

(* The word of a natural number TLC can hold.                              *)
WordOf(n) == [i \in 1 .. Nybbles |->
                 IF Nybbles - i > 6 THEN 0 ELSE (n \div 16^(Nybbles - i)) % 16]

(* w / 10 and w % 10, by long division from the most significant nybble.   *)
Rests(w) ==
    LET rest[i \in 0 .. Nybbles] ==
            IF i = 0 THEN 0 ELSE (16 * rest[i - 1] + w[i]) % 10
    IN  rest

DivideBy10(w) ==
    LET rest == Rests(w)
    IN  [quotient  |-> [i \in 1 .. Nybbles |-> (16 * rest[i - 1] + w[i]) \div 10],
         remainder |-> rest[Nybbles]]

(* A word below 16^7, and the number a string of digits denotes.           *)
IsSmall(w) == \A i \in 1 .. Nybbles - 7 : w[i] = 0

Numbers(w) ==
    LET number[i \in 0 .. Nybbles] == IF i = 0 THEN 0 ELSE number[i - 1] * 16 + w[i]
    IN  number

NumberOf(w) == Numbers(w)[Nybbles]

DigitOf(r) == (CHOOSE d \in 1 .. 16 : DigitRunes[d] = r) - 1

DenotedUpTo(text, radix) ==
    LET number[i \in 0 .. Len(text)] ==
            IF i = 0 THEN 0 ELSE number[i - 1] * radix + DigitOf(text[i])
    IN  number

Denoted(text, radix) == DenotedUpTo(text, radix)[Len(text)]

(* Two's complement.                                                       *)
Negated(w) ==
    LET carry[i \in 0 .. Nybbles] ==     \* the carry out of the last i nybbles
            IF i = 0 THEN 1 ELSE (15 - w[Nybbles - i + 1] + carry[i - 1]) \div 16
    IN  [i \in 1 .. Nybbles |-> (15 - w[i] + carry[Nybbles - i]) % 16]

IsNegative(w) == w[1] >= 8

(* The nybbles a word needs, at least one.                                 *)
SignificantNybbles(w) ==
    CHOOSE n \in 1 .. Nybbles :
        /\ n = 1 \/ w[Nybbles - n + 1] # 0
        /\ \A i \in n + 1 .. Nybbles : w[Nybbles - i + 1] = 0

(* The last n nybbles of w, as digits.                                     *)
HexDigits(w, n) == [i \in 1 .. n |-> DigitRune(w[Nybbles - n + i])]

HexText(w, minimumOutputFieldLength) ==
    LET n == SignificantNybbles(w)
    IN  HexDigits(w, IF n < minimumOutputFieldLength THEN minimumOutputFieldLength ELSE n)

(* The digits of a word, one for each time it can be divided: there are    *)
(* fewer than twice as many as nybbles.                                    *)
Divided(state) ==
    LET d == DivideBy10(state.rest)
    IN  [rest |-> d.quotient, text |-> <<DigitRune(d.remainder)>> \o state.text]

Divisions(w) ==
    LET state[i \in 0 .. 2 * Nybbles] ==
            IF i = 0 THEN [rest |-> w, text |-> <<>>]
            ELSE LET previous == state[i - 1]
                 IN  IF previous.rest = Zero /\ i > 1 THEN previous ELSE Divided(previous)
    IN  state

DecimalText(w) == Divisions(w)[2 * Nybbles].text

(***************************************************************************)
(* What the formatter makes of a va_arg slot: %b and %s read an int, which *)
(* is sign-extended to the uint64_t; %i reads a uint32_t; %q all of it.    *)
(***************************************************************************)
IntegerOf(letter, slot) ==
    LET half == Nybbles \div 2
        extension == IF letter \in {"b", "s"} /\ slot[half + 1] >= 8 THEN 15 ELSE 0
    IN  IF letter = "q" THEN slot
        ELSE [i \in 1 .. Nybbles |-> IF i <= half THEN extension ELSE slot[i]]
=============================================================================
