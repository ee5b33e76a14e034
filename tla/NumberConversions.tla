------------------------- MODULE NumberConversions -------------------------
(***************************************************************************)
(* The loops of String.c that turn a number into runes:                    *)
(* Uint64ToDecimalString, Int64ToDecimalString, Uint64ToHexString and      *)
(* Uint64ToZeroPaddedHexString.  One step is one turn of a loop; a write   *)
(* outside the caller's buffer makes the domain of `string' grow.          *)
(***************************************************************************)
EXTENDS NumberStrings

CONSTANTS
    Requests,       \* [function, value, length, size]: the conversions asked for
    NUL,            \* the zero rune
    Blank,          \* what the caller's buffer held before
    Modulus         \* one more than the largest unsigned int

ASSUME MachineAssumption == Nybbles = 16 /\ Modulus \in Nat /\ Modulus > Nybbles

ASSUME RequestsAssumption ==
    Requests \subseteq [function : {"hex", "decimal", "signed"}, value : Word,
                        length : 0 .. Modulus - 1, size : 0 .. Modulus - 1]

VARIABLES
    request,        \* the arguments of the call
    pc,
    v,              \* what is left of the number
    base,           \* cell of the caller's buffer that String points to
    size,           \* inBuffer->Size, of the buffer the inner function was given
    string,         \* the runes of the caller's buffer
    bi,             \* the cell written next, from base
    swaps,          \* pairs that have been swapped by reverseRunesInBuffer
    unshifted,      \* unshiftedNybbles
    turns,          \* i of the loop that strips zeros
    error           \* what the function returned

vars == <<request, pc, v, base, size, string, bi, swaps, unshifted, turns, error>>

Write(s, i, r) == [j \in DOMAIN s \cup {i} |-> IF j = i THEN r ELSE s[j]]

Init ==
    /\ request \in Requests
    /\ pc = request.function
    /\ v = request.value
    /\ base = 0
    /\ size = request.size
    /\ string = [i \in 0 .. request.size - 1 |-> Blank]
    /\ bi = 0
    /\ swaps = 0
    /\ unshifted = Nybbles
    /\ turns = 0
    /\ error = "none"

Return(e) == pc' = "returned" /\ error' = e

-----------------------------------------------------------------------------
(* Int64ToDecimalString.                                                   *)

NotNegative ==
    /\ pc = "signed"
    /\ ~IsNegative(v)
    /\ pc' = "decimal"
    /\ UNCHANGED <<request, v, base, size, string, bi, swaps, unshifted, turns, error>>

(* A negative number goes one cell further on, with its bits as they are.  *)
Negative ==
    /\ pc = "signed"
    /\ IsNegative(v)
    /\ base' = 1
    /\ size' = (size - 1) % Modulus
    /\ pc' = "decimal"
    /\ UNCHANGED <<request, v, string, bi, swaps, unshifted, turns, error>>

-----------------------------------------------------------------------------
(* Uint64ToDecimalString: 20 digits and a NUL, or nothing.                 *)

ShortDecimal   == 20                \* mutant: no room for the NUL
LongestDecimal == 21

RefuseDecimal ==
    /\ pc = "decimal"
    /\ size < LongestDecimal
    /\ Return("ErrorBufferTooSmall")
    /\ UNCHANGED <<request, v, base, size, string, bi, swaps, unshifted, turns>>

(* The '-' is put last.                                                    *)
Signed(s) == IF base = 1 THEN Write(s, 0, "-") ELSE s

ZeroDecimal ==
    /\ pc = "decimal"
    /\ size >= LongestDecimal
    /\ v = Zero
    /\ string' = Signed(Write(Write(string, base, "0"), base + 1, NUL))
    /\ Return("NoError")
    /\ UNCHANGED <<request, v, base, size, bi, swaps, unshifted, turns>>

StartDecimal ==
    /\ pc = "decimal"
    /\ size >= LongestDecimal
    /\ v # Zero
    /\ pc' = "digits"
    /\ UNCHANGED <<request, v, base, size, string, bi, swaps, unshifted, turns, error>>

PutDigit ==
    /\ pc = "digits"
    /\ v # Zero
    /\ LET d == DivideBy10(v)
       IN  /\ string' = Write(string, base + bi, DigitRune(d.remainder))
           /\ v' = d.quotient
    /\ bi' = bi + 1
    /\ UNCHANGED <<request, pc, base, size, swaps, unshifted, turns, error>>

(* Mutant: the swaps are not counted.                                      *)
SwapForever ==
    /\ pc = "digits"
    /\ v = Zero
    /\ swaps < bi \div 2
    /\ LET i == base + swaps
           j == base + bi - 1 - swaps
       IN  string' = Write(Write(string, i, string[j]), j, string[i])
    /\ UNCHANGED <<request, pc, v, base, size, bi, swaps, unshifted, turns, error>>

(* reverseRunesInBuffer, one swap.                                         *)
Swap ==
    /\ pc = "digits"
    /\ v = Zero
    /\ swaps < bi \div 2
    /\ LET i == base + swaps
           j == base + bi - 1 - swaps
       IN  string' = Write(Write(string, i, string[j]), j, string[i])
    /\ swaps' = swaps + 1
    /\ UNCHANGED <<request, pc, v, base, size, bi, unshifted, turns, error>>

EndDecimal ==
    /\ pc = "digits"
    /\ v = Zero
    /\ swaps >= bi \div 2
    /\ string' = Signed(Write(string, base + bi, NUL))
    /\ Return("NoError")
    /\ UNCHANGED <<request, v, base, size, bi, swaps, unshifted, turns>>

-----------------------------------------------------------------------------
(* Uint64ToZeroPaddedHexString; Uint64ToHexString asks for length 0.       *)

LongestHex == 17

RefuseHex ==
    /\ pc = "hex"
    /\ size < LongestHex
    /\ Return("ErrorBufferTooSmall")
    /\ UNCHANGED <<request, v, base, size, string, bi, swaps, unshifted, turns>>

ZeroHex ==
    /\ pc = "hex"
    /\ size >= LongestHex
    /\ v = Zero
    /\ request.length = 0
    /\ string' = Write(Write(string, 0, "0"), 1, NUL)
    /\ Return("NoError")
    /\ UNCHANGED <<request, v, base, size, bi, swaps, unshifted, turns>>

StartHex ==
    /\ pc = "hex"
    /\ size >= LongestHex
    /\ v # Zero \/ request.length # 0
    /\ pc' = "strip"
    /\ UNCHANGED <<request, v, base, size, string, bi, swaps, unshifted, turns, error>>

ShiftedLeft(w) == [i \in 1 .. Nybbles |-> IF i = Nybbles THEN 0 ELSE w[i + 1]]

(* Another leading zero may go.                                            *)
MayStripOneMore == turns <= (Nybbles - request.length) % Modulus /\ v[1] = 0   \* mutant
MayStrip == turns < (Nybbles - request.length) % Modulus /\ v[1] = 0

StripZero ==
    /\ pc = "strip"
    /\ MayStrip
    /\ v' = ShiftedLeft(v)
    /\ unshifted' = (unshifted - 1) % Modulus
    /\ turns' = turns + 1
    /\ UNCHANGED <<request, pc, base, size, string, bi, swaps, error>>

EndStrip ==
    /\ pc = "strip"
    /\ ~MayStrip
    /\ pc' = "nybbles"
    /\ UNCHANGED <<request, v, base, size, string, bi, swaps, unshifted, turns, error>>

PutNybble ==
    /\ pc = "nybbles"
    /\ unshifted > 0
    /\ string' = Write(string, bi, DigitRune(v[1]))
    /\ bi' = bi + 1
    /\ v' = ShiftedLeft(v)
    /\ unshifted' = unshifted - 1
    /\ UNCHANGED <<request, pc, base, size, swaps, turns, error>>

EndHex ==
    /\ pc = "nybbles"
    /\ unshifted = 0
    /\ string' = Write(string, bi, NUL)
    /\ Return("NoError")
    /\ UNCHANGED <<request, v, base, size, bi, swaps, unshifted, turns>>

Next ==
    \/ NotNegative \/ Negative
    \/ RefuseDecimal \/ ZeroDecimal \/ StartDecimal \/ PutDigit \/ Swap \/ EndDecimal
    \/ RefuseHex \/ ZeroHex \/ StartHex \/ StripZero \/ EndStrip \/ PutNybble \/ EndHex

Spec == Init /\ [][Next]_vars

FairSpec == Spec /\ WF_vars(Next)

-----------------------------------------------------------------------------
(* What the callers in the program may ask for: a padding of at most a     *)
(* whole word, and a buffer that exists.                                   *)
RequestOK == request.length <= Nybbles /\ (request.function = "signed" => request.size > 0)

Returned == pc = "returned"

(***************************************************************************)
(* The two size guards (String.c:17 and 63) are exactly tight enough: no   *)
(* digit, sign or NUL falls outside the caller's buffer, and a refused call*)
(* leaves the buffer alone.                                                *)
(***************************************************************************)
ConversionInBounds ==
    RequestOK => /\ DOMAIN string = 0 .. request.size - 1
                 /\ error = "ErrorBufferTooSmall" =>
                        \A i \in DOMAIN string : string[i] = Blank

(* The text the call must leave, for the numbers the unsigned functions take*)
ExpectedText ==
    IF request.function = "hex" THEN HexText(request.value, request.length)
    ELSE DecimalText(request.value)

(***************************************************************************)
(* When a conversion returns without an error, the buffer starts with the  *)
(* number's text and a NUL: the digits are all there, in the right order,  *)
(* without leading zeros but for the padding asked for; where TLC can      *)
(* compute the number, they denote it.                                     *)
(***************************************************************************)
ConversionFaithful ==
    /\ Returned /\ error = "NoError" /\ request.length <= Nybbles
    /\ request.function = "signed" => ~IsNegative(request.value)
    => /\ \A i \in 1 .. Len(ExpectedText) : string[i - 1] = ExpectedText[i]
       /\ string[Len(ExpectedText)] = NUL
       /\ IsSmall(request.value) =>
              Denoted(ExpectedText, IF request.function = "hex" THEN 16 ELSE 10)
                  = NumberOf(request.value)

(* Every conversion returns: the loops count down.                         *)
ConversionReturns == <>Returned

(* String.h:83: Int64ToDecimalString writes an int64_t in decimal.  The    *)
(* code hands the bits of a negative number to the unsigned conversion.    *)
SignedFaithful ==
    Returned /\ request.function = "signed" /\ error = "NoError" /\ IsNegative(request.value) =>
        LET text == DecimalText(Negated(request.value))
        IN  /\ string[0] = "-"
            /\ \A i \in 1 .. Len(text) : string[i] = text[i]
            /\ string[Len(text) + 1] = NUL
=============================================================================
