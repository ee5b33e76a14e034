---------------------------- MODULE NumberParser ----------------------------
(***************************************************************************)
(* DecimalIntegerAsStringToInt64 of String.c: the inverse of the decimal   *)
(* conversions.  One step is one rune.  `memory' holds the caller's buffer *)
(* and the cells that follow it.  A value that leaves int64_t is undefined *)
(* in C: it may then be any of Overflowed.                                 *)
(***************************************************************************)
EXTENDS Integers, Sequences

CONSTANTS
    Memories,       \* what the memory from the buffer on may hold: sequences
    Lengths,        \* maximumBufferLength
    Largest,        \* the largest int64_t; the smallest is -Largest - 1
    Overflowed,     \* what an overflow may leave
    NUL

ASSUME LengthsAssumption ==
    /\ Lengths \subseteq Nat
    /\ Largest \in Nat
    /\ Overflowed \subseteq -Largest - 1 .. Largest
    /\ Overflowed # {}

Digits == <<"0", "1", "2", "3", "4", "5", "6", "7", "8", "9">>

DigitOf(r) == (CHOOSE d \in 1 .. 10 : Digits[d] = r) - 1

IsDigit(r) == \E d \in 1 .. 10 : Digits[d] = r

ASSUME NULAssumption == NUL # "-" /\ ~IsDigit(NUL)

VARIABLES
    memory,         \* the caller's buffer and what follows it
    maximumBufferLength,
    pc,
    b,              \* cell of memory that b points to
    i,
    numberIsNegative,
    value,
    furthest,       \* history: the last cell read
    error

vars == <<memory, maximumBufferLength, pc, b, i, numberIsNegative, value, furthest, error>>

Init ==
    /\ memory \in Memories
    /\ maximumBufferLength \in Lengths
    /\ Len(memory) > maximumBufferLength + 1
    /\ pc = "start"
    /\ b = 0
    /\ i = 0
    /\ numberIsNegative = FALSE
    /\ value = 0
    /\ furthest = 0
    /\ error = "none"

(* The rune in cell k.                                                     *)
Cell(k) == memory[k + 1]

(* What int64_t arithmetic may make of the number n.                       *)
Int64(n) == IF n \in -Largest - 1 .. Largest THEN {n} ELSE Overflowed

Return(e) == pc' = "returned" /\ error' = e

Empty ==
    /\ pc = "start"
    /\ Cell(0) = NUL
    /\ Return("ErrorNullValue")
    /\ UNCHANGED <<memory, maximumBufferLength, b, i, numberIsNegative, value, furthest>>

ReadSign ==
    /\ pc = "start"
    /\ Cell(0) # NUL
    /\ b' = IF Cell(0) = "-" THEN 1 ELSE 0
    /\ numberIsNegative' = (Cell(0) = "-")
    /\ furthest' = b'
    /\ IF Cell(b') = NUL
       THEN Return("ErrorNotANumber")
       ELSE pc' = "digits" /\ UNCHANGED error
    /\ UNCHANGED <<memory, maximumBufferLength, i, value>>

MayReadOneMore == i <= maximumBufferLength      \* mutant: one rune beyond
MayRead        == i < maximumBufferLength

ReadDigit ==
    /\ pc = "digits"
    /\ MayRead
    /\ furthest' = b + i
    /\ Cell(b + i) # NUL
    /\ IF IsDigit(Cell(b + i))
       THEN /\ value' \in Int64(value * 10 + DigitOf(Cell(b + i)))
            /\ i' = i + 1
            /\ UNCHANGED <<pc, error>>
       ELSE /\ Return("ErrorNotANumber")
            /\ UNCHANGED <<value, i>>
    /\ UNCHANGED <<memory, maximumBufferLength, b, numberIsNegative>>

Unsigned == value                               \* mutant: the sign is forgotten
Signed   == IF numberIsNegative THEN -value ELSE value

EndOfDigits ==
    /\ pc = "digits"
    /\ MayRead => Cell(b + i) = NUL
    /\ furthest' = IF MayRead THEN b + i ELSE furthest
    /\ value' \in Int64(Signed)
    /\ Return("NoError")
    /\ UNCHANGED <<memory, maximumBufferLength, b, i, numberIsNegative>>

Next == Empty \/ ReadSign \/ ReadDigit \/ EndOfDigits

Spec == Init /\ [][Next]_vars

-----------------------------------------------------------------------------
Returned == pc = "returned"

(* The cells before the NUL, when there is one within the length.          *)
Terminated == \E k \in 0 .. maximumBufferLength - 1 : Cell(k) = NUL

TextLength == CHOOSE k \in 0 .. maximumBufferLength - 1 :
                  Cell(k) = NUL /\ \A j \in 0 .. k - 1 : Cell(j) # NUL

(* The number that the digits from cell `first' on denote, up to each cell.*)
Weights(first, n) ==
    LET weight[k \in first .. n] ==
            IF k = first THEN 0 ELSE 10 * weight[k - 1] + DigitOf(Cell(k - 1))
    IN  weight

(***************************************************************************)
(* A terminated string parses when, and only when, it is an optional sign  *)
(* and at least one digit, and then to the number it denotes as long as    *)
(* its digits fit an int64_t; the smallest int64_t's do not.               *)
(***************************************************************************)
ParsesNumbers ==
    Returned /\ Terminated =>
        LET n      == TextLength
            first  == IF n > 0 /\ Cell(0) = "-" THEN 1 ELSE 0
            number == first < n /\ \A k \in first .. n - 1 : IsDigit(Cell(k))
            weight == Weights(first, n)[n]
        IN  /\ (error = "NoError") <=> number
            /\ (error = "ErrorNullValue") <=> (n = 0)
            /\ number /\ weight <= Largest =>
                   value = IF first = 1 THEN -weight ELSE weight

(***************************************************************************)
(* maximumBufferLength bounds what is read of a string without a NUL.  It  *)
(* counts the digits and not the sign (String.c:338, 345), and the sign and *)
(* the rune behind it are read before it is looked at (:334-343): one rune *)
(* beyond the buffer may be read, two when the buffer is empty, and never  *)
(* more.                                                                   *)
(***************************************************************************)
ReadsAtMostOneBeyond ==
    furthest <= IF maximumBufferLength = 0 THEN 1 ELSE maximumBufferLength
=============================================================================
