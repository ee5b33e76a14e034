------------------------ MODULE MCNumberConversions ------------------------
(***************************************************************************)
(* Words at the edges of the loops: every power of two, its predecessor,   *)
(* and words whose digits differ, at the width of the machine.             *)
(***************************************************************************)
EXTENDS NumberConversions

CONSTANTS Sizes, Lengths

Power(n, d)  == [i \in 1 .. Nybbles |-> IF i = n THEN d ELSE 0]     \* d * 16^(Nybbles - n)
Mask(n, d)   == [i \in 1 .. Nybbles |-> IF i < n THEN 0 ELSE IF i = n THEN d ELSE 15]
Rising       == [i \in 1 .. Nybbles |-> (i + 1) % 16]
Gaps         == [i \in 1 .. Nybbles |-> IF i % 3 = 0 THEN i % 16 ELSE 0]

Values == {Zero, Rising, Gaps}
            \cup {Power(n, d) : n \in {1, 2, Nybbles - 1, Nybbles}, d \in {1, 8, 10}}
            \cup {Mask(n, d) : n \in {1, 2, 8, Nybbles}, d \in {7, 15}}
            \cup {WordOf(n) : n \in {9, 99, 100, 1000000}}

(* Decimal strings of words that TLC's integers cannot hold.               *)
ASSUME LargeNumbers ==
    /\ DecimalText(Mask(1, 15)) = <<"1", "8", "4", "4", "6", "7", "4", "4", "0", "7",
                                    "3", "7", "0", "9", "5", "5", "1", "6", "1", "5">>
    /\ DecimalText(Power(1, 8)) = <<"9", "2", "2", "3", "3", "7", "2", "0", "3", "6",
                                    "8", "5", "4", "7", "7", "5", "8", "0", "8">>
    /\ Negated(Mask(1, 15)) = WordOf(1)

MCRequests ==
    {[function |-> "hex", value |-> w, length |-> n, size |-> s] :
        w \in Values, n \in Lengths, s \in Sizes}
      \cup {[function |-> f, value |-> w, length |-> 0, size |-> s] :
        f \in {"decimal", "signed"}, w \in Values, s \in Sizes}
=============================================================================
