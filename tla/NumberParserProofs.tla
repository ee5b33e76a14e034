------------------------- MODULE NumberParserProofs -------------------------
(***************************************************************************)
(* How far the parser reads, and what it makes of a string, for every      *)
(* memory, every bound and every width of the integers.                    *)
(***************************************************************************)
EXTENDS NumberParser, WellFoundedInduction, TLAPS

(* The bound, corrected for the two runes read before it is looked at.     *)
Beyond == IF maximumBufferLength = 0 THEN 1 ELSE maximumBufferLength

(***************************************************************************)
(* The sign moves b by one and i stays below the bound while it reads: the *)
(* last cell read is the sign's, or the one before the next digit.         *)
(***************************************************************************)
IndInv ==
    /\ maximumBufferLength \in Nat
    /\ b \in {0, 1}
    /\ i \in Nat
    /\ i <= maximumBufferLength
    /\ furthest \in Nat
    /\ furthest <= Beyond

(* The invariant holds when a call begins,                                 *)
LEMMA InitIndInv == Init => IndInv
BY LengthsAssumption DEF Init, IndInv, Beyond

(* and every step of the parser keeps it.                                  *)
LEMMA NextIndInv == IndInv /\ [Next]_vars => IndInv'
<1> SUFFICES ASSUME IndInv, [Next]_vars PROVE IndInv'
  OBVIOUS
<1> USE DEF IndInv, Beyond
<1>1. CASE Empty
  BY <1>1 DEF Empty
<1>2. CASE ReadSign
  <2>1. b' \in {0, 1} /\ furthest' = b'
    BY <1>2 DEF ReadSign
  <2>2. maximumBufferLength' = maximumBufferLength /\ i' = i
    BY <1>2 DEF ReadSign
  <2> QED
    BY <2>1, <2>2
<1>3. CASE ReadDigit
  <2>1. i < maximumBufferLength /\ furthest' = b + i
    BY <1>3 DEF ReadDigit, MayRead
  <2>2. UNCHANGED <<maximumBufferLength, b>> /\ i' \in {i, i + 1}
    BY <1>3 DEF ReadDigit
  <2> QED
    BY <2>1, <2>2
<1>4. CASE EndOfDigits
  <2>1. UNCHANGED <<maximumBufferLength, b, i>>
    BY <1>4 DEF EndOfDigits
  <2>2. furthest' = IF i < maximumBufferLength THEN b + i ELSE furthest
    BY <1>4 DEF EndOfDigits, MayRead
  <2> QED
    BY <2>1, <2>2
<1>5. CASE UNCHANGED vars
  BY <1>5 DEF vars
<1> QED
  BY <1>1, <1>2, <1>3, <1>4, <1>5 DEF Next

(***************************************************************************)
(* Of a string without a NUL the parser reads one rune beyond the bound it *)
(* is given, or two beyond the bound 0 (String.c:334-345), and no more.    *)
(***************************************************************************)
THEOREM ReadingEnds == Spec => []ReadsAtMostOneBeyond
<1>1. Spec => []IndInv
  BY InitIndInv, NextIndInv, PTL DEF Spec
<1>2. IndInv => ReadsAtMostOneBeyond
  BY DEF IndInv, Beyond, ReadsAtMostOneBeyond
<1> QED
  BY <1>1, <1>2, PTL
-----------------------------------------------------------------------------
(***************************************************************************)
(* What a string denotes.                                                  *)
(***************************************************************************)

(* A set of numbers that holds 0 and the successor of each of its numbers  *)
(* holds them all.                                                         *)
LEMMA SetInduction ==
    ASSUME NEW S, 0 \in S, \A n \in Nat : n \in S => n + 1 \in S
    PROVE  Nat \subseteq S
<1> SUFFICES ASSUME NEW m \in Nat, m \notin S PROVE FALSE
  OBVIOUS
<1> DEFINE R == {p \in Nat \X Nat : p[1] < p[2]}
           T == Nat \ S
<1>1. IsWellFoundedOn(R, Nat)
  BY NatLessThanWellFounded DEF OpToRel
<1>2. T \subseteq Nat /\ T # {}
  OBVIOUS
<1> HIDE DEF R, T
<1>3. PICK x \in T : \A y \in T : ~ (<<y, x>> \in R)
  BY <1>1, <1>2, WFMin
<1> USE DEF R, T
<1>4. x \in Nat /\ x \notin S /\ x # 0
  BY <1>3
<1>5. x - 1 \in Nat /\ <<x - 1, x>> \in R
  BY <1>4
<1>6. x - 1 \in S
  <2> HIDE DEF R
  <2> QED BY <1>3, <1>5
<1> QED
  BY <1>4, <1>5, <1>6

(* The weights of a string are what their definition says.                 *)
LEMMA WeightsDefined ==
    ASSUME NEW first \in Nat, NEW n \in Nat, first <= n
    PROVE  Weights(first, n) =
             [k \in first .. n |->
                 IF k = first THEN 0
                 ELSE 10 * Weights(first, n)[k - 1] + DigitOf(Cell(k - 1))]
<1> DEFINE Weighs(w, m) == w = [k \in first .. m |->
                                   IF k = first THEN 0 ELSE 10 * w[k - 1] + DigitOf(Cell(k - 1))]
           S == {m \in Nat : \E w : Weighs(w, first + m)}
<1>1. 0 \in S
  <2> DEFINE w == [k \in first .. first |-> 0]
  <2>1. first + 0 = first /\ \A k \in first .. first : k = first
    OBVIOUS
  <2>2. w = [k \in first .. first |->
                IF k = first THEN 0 ELSE 10 * w[k - 1] + DigitOf(Cell(k - 1))]
    BY <2>1
  <2>3. Weighs(w, first + 0)
    BY <2>1, <2>2
  <2> QED
    BY <2>3
<1>2. ASSUME NEW m \in Nat, m \in S PROVE m + 1 \in S
  <2>1. PICK w : Weighs(w, first + m)
    BY <1>2
  <2> DEFINE l == first + m + 1
             u == [k \in first .. l |->
                      IF k = l THEN 10 * w[l - 1] + DigitOf(Cell(l - 1)) ELSE w[k]]
  <2>2. ASSUME NEW k \in first .. l
        PROVE  u[k] = IF k = first THEN 0 ELSE 10 * u[k - 1] + DigitOf(Cell(k - 1))
    <3>1. CASE k = l
      <4>1. k # first /\ k - 1 \in first .. l /\ k - 1 # l
        BY <3>1
      <4> QED
        BY <3>1, <4>1
    <3>2. CASE k # l
      <4>1. k \in first .. first + m
        BY <3>2
      <4>2. u[k] = w[k] /\ (k # first => k - 1 \in first .. l /\ u[k - 1] = w[k - 1])
        BY <3>2, <4>1
      <4>3. w[k] = IF k = first THEN 0 ELSE 10 * w[k - 1] + DigitOf(Cell(k - 1))
        BY <2>1, <4>1
      <4> HIDE DEF u, l
      <4> QED
        BY <4>2, <4>3
    <3> QED
      BY <3>1, <3>2
  <2>3. Weighs(u, l)
    BY <2>2
  <2>4. l = first + (m + 1)
    OBVIOUS
  <2> HIDE DEF Weighs, u, l
  <2> QED
    BY <2>3, <2>4
<1>3. n - first \in S
  <2> HIDE DEF S
  <2>1. n - first \in Nat
    OBVIOUS
  <2> QED BY <1>1, <1>2, <2>1, SetInduction
<1>4. \E w : Weighs(w, n)
  <2>1. first + (n - first) = n
    OBVIOUS
  <2> QED
    BY <1>3, <2>1
<1>5. Weighs(CHOOSE w : Weighs(w, n), n)
  <2> HIDE DEF Weighs
  <2> QED BY <1>4, Zenon
<1>6. Weights(first, n) = CHOOSE w : Weighs(w, n)
  BY Zenon DEF Weights
<1> QED
  BY <1>5, <1>6, Zenon

(* The first NUL of a terminated string.                                   *)
LEMMA TextEnds ==
    ASSUME Terminated, maximumBufferLength \in Nat
    PROVE  /\ TextLength \in 0 .. maximumBufferLength - 1
           /\ Cell(TextLength) = NUL
           /\ \A j \in 0 .. TextLength - 1 : Cell(j) # NUL
<1> DEFINE R == {p \in Nat \X Nat : p[1] < p[2]}
           T == {k \in 0 .. maximumBufferLength - 1 : Cell(k) = NUL}
           Ended(k) == Cell(k) = NUL /\ \A j \in 0 .. k - 1 : Cell(j) # NUL
<1>1. IsWellFoundedOn(R, Nat)
  BY NatLessThanWellFounded DEF OpToRel
<1>2. T \subseteq Nat /\ T # {}
  BY DEF Terminated
<1>3. PICK x \in T : \A y \in T : ~ (<<y, x>> \in R)
  <2> HIDE DEF R, T
  <2> QED BY <1>1, <1>2, WFMin
<1>4. ASSUME NEW j \in 0 .. x - 1 PROVE Cell(j) # NUL
  <2>1. x \in 0 .. maximumBufferLength - 1 /\ x \in Nat
    BY <1>3
  <2>2. j \in 0 .. maximumBufferLength - 1 /\ <<j, x>> \in R
    BY <2>1
  <2> HIDE DEF R
  <2> QED
    BY <1>3, <2>2
<1>5. \E k \in 0 .. maximumBufferLength - 1 : Ended(k)
  BY <1>3, <1>4
<1>6. TextLength = CHOOSE k \in 0 .. maximumBufferLength - 1 : Ended(k)
  BY DEF TextLength
<1>7. TextLength \in 0 .. maximumBufferLength - 1 /\ Ended(TextLength)
  <2> HIDE DEF Ended
  <2> QED BY <1>5, <1>6, Zenon
<1> QED
  BY <1>7

(* A digit is a number below ten.                                          *)
LEMMA DigitType ==
    ASSUME NEW r, IsDigit(r)
    PROVE  DigitOf(r) \in 0 .. 9
<1>1. (CHOOSE d \in 1 .. 10 : Digits[d] = r) \in 1 .. 10
  BY Zenon DEF IsDigit
<1> QED
  BY <1>1 DEF DigitOf

(***************************************************************************)
(* The digits read so far are those of the string, and their value is what *)
(* they denote, as long as it fits.                                        *)
(***************************************************************************)
DigitsRead ==
    /\ Cell(0) # NUL
    /\ b = IF Cell(0) = "-" THEN 1 ELSE 0
    /\ Cell(b) # NUL
    /\ numberIsNegative = (Cell(0) = "-")
    /\ \A k \in b .. b + i - 1 : IsDigit(Cell(k))
    /\ value \in Int

(* What the digits read so far denote.                                     *)
SoFar == Weights(b, TextLength)[b + i]

(* What is known at each place, and what is returned.                      *)
ParseInv ==
    /\ pc \in {"start", "digits", "returned"}
    /\ pc = "start" => b = 0 /\ i = 0 /\ value = 0
    /\ pc = "digits" =>
        /\ DigitsRead
        /\ Terminated => /\ b + i <= TextLength
                         /\ SoFar \in Nat
                         /\ SoFar <= Largest => value = SoFar
    /\ ParsesNumbers

(* Nothing has been read before the call.                                  *)
LEMMA InitParse == Init => ParseInv
BY DEF Init, ParseInv, ParsesNumbers, Returned

(* A step that leaves the string leaves what is said of it.                *)
LEMMA SameString ==
    ASSUME UNCHANGED <<memory, maximumBufferLength>>
    PROVE  /\ Terminated' <=> Terminated
           /\ TextLength' = TextLength
           /\ \A k : Cell(k)' = Cell(k)
           /\ \A f, n : Weights(f, n)' = Weights(f, n)
BY DEF Terminated, TextLength, Cell, Weights

(* Where the text ends, and how its weights go on from cell c.             *)
LEMMA DigitsBeforeEnd ==
    ASSUME maximumBufferLength \in Nat, Terminated, Cell(0) # NUL,
           NEW c, c = IF Cell(0) = "-" THEN 1 ELSE 0, Cell(c) # NUL
    PROVE  /\ TextLength \in Nat /\ TextLength < maximumBufferLength
           /\ c < TextLength
           /\ \A k \in 0 .. TextLength : Cell(k) = NUL <=> k = TextLength
           /\ Weights(c, TextLength)[c] = 0
           /\ \A k \in c .. TextLength - 1 :
                  Weights(c, TextLength)[k + 1]
                      = 10 * Weights(c, TextLength)[k] + DigitOf(Cell(k))
<1>1. /\ TextLength \in 0 .. maximumBufferLength - 1 /\ Cell(TextLength) = NUL
      /\ \A j \in 0 .. TextLength - 1 : Cell(j) # NUL
  BY TextEnds
<1>2. c \in {0, 1}
  OBVIOUS
<1>3. c < TextLength
  <2>1. TextLength # 0 /\ TextLength # c
    BY <1>1
  <2> QED
    BY <1>1, <1>2, <2>1
<1>4. \A k \in 0 .. TextLength : Cell(k) = NUL <=> k = TextLength
  BY <1>1, <1>2
<1> DEFINE w == Weights(c, TextLength)
<1>5. w = [k \in c .. TextLength |-> IF k = c THEN 0 ELSE 10 * w[k - 1] + DigitOf(Cell(k - 1))]
  <2>1. c \in Nat /\ TextLength \in Nat /\ c <= TextLength
    BY <1>1, <1>2, <1>3
  <2> QED
    BY <2>1, WeightsDefined
<1> HIDE DEF w
<1>6. w[c] = 0
  BY <1>1, <1>2, <1>3, <1>5
<1>7. ASSUME NEW k \in c .. TextLength - 1 PROVE w[k + 1] = 10 * w[k] + DigitOf(Cell(k))
  <2>1. k + 1 \in c .. TextLength /\ k + 1 # c /\ (k + 1) - 1 = k
    BY <1>1, <1>2
  <2> QED
    BY <1>5, <2>1
<1> QED
  BY <1>1, <1>3, <1>4, <1>6, <1>7 DEF w

(* An empty string is no value (String.c:334-335).                         *)
LEMMA EmptyParse == ASSUME IndInv, ParseInv, Empty PROVE ParseInv'
<1>1. /\ Cell(0) = NUL /\ pc' = "returned" /\ error' = "ErrorNullValue"
      /\ UNCHANGED <<memory, maximumBufferLength>>
  BY DEF Empty, Return
<1>2. ASSUME Terminated' PROVE TextLength' = 0
  <2>1. TextLength \in Nat /\ TextLength > 0 => Cell(0) # NUL
    BY <1>1, <1>2, SameString, TextEnds DEF IndInv
  <2>2. TextLength \in Nat
    BY <1>1, <1>2, SameString, TextEnds DEF IndInv
  <2> QED
    BY <1>1, <2>1, <2>2, SameString
<1>3. ParsesNumbers'
  BY <1>1, <1>2 DEF ParsesNumbers
<1> QED
  BY <1>1, <1>3 DEF ParseInv

(* A sign without a digit is no number (String.c:337-343).                 *)
LEMMA SignParse == ASSUME IndInv, IndInv', ParseInv, ReadSign PROVE ParseInv'
<1>1. /\ Cell(0) # NUL /\ b' = (IF Cell(0) = "-" THEN 1 ELSE 0)
      /\ numberIsNegative' = (Cell(0) = "-")
      /\ UNCHANGED <<memory, maximumBufferLength, i, value>>
      /\ i = 0 /\ value = 0
  BY DEF ReadSign, ParseInv
<1>2. \A k : Cell(k)' = Cell(k)
  BY <1>1, SameString
<1>3. CASE Cell(b') = NUL
  <2>1. pc' = "returned" /\ error' = "ErrorNotANumber"
    BY <1>3 DEF ReadSign, Return
  <2>2. b' = 1 /\ Cell(0) = "-" /\ Cell(1) = NUL
    BY <1>1, <1>3
  <2>3. ASSUME Terminated' PROVE TextLength' = 1
    <3>1. /\ TextLength \in Nat /\ Cell(TextLength) = NUL
          /\ \A j \in 0 .. TextLength - 1 : Cell(j) # NUL
      BY <1>1, <2>3, SameString, TextEnds DEF IndInv
    <3> QED
      BY <1>1, <2>2, <3>1, SameString
  <2>4. ParsesNumbers'
    BY <1>2, <2>1, <2>2, <2>3 DEF ParsesNumbers
  <2> QED
    BY <2>1, <2>4 DEF ParseInv
<1>4. CASE Cell(b') # NUL
  <2>1. pc' = "digits"
    BY <1>4 DEF ReadSign
  <2>2. DigitsRead'
    <3>1. b' \in {0, 1} /\ i' = 0 /\ value' = 0
      BY <1>1
    <3>2. ASSUME NEW k \in b' .. b' + i' - 1 PROVE FALSE
      <4>1. b' + i' - 1 = b' - 1 /\ b' \in Int
        BY <3>1
      <4> QED
        BY <4>1
    <3>3. Cell(b)' # NUL /\ Cell(0)' # NUL
      BY <1>1, <1>4 DEF Cell
    <3> QED
      BY <1>1, <1>2, <3>1, <3>2, <3>3 DEF DigitsRead
  <2>3. Terminated' => /\ (b + i <= TextLength)'
                       /\ SoFar' = 0
    <3>1. Terminated => b' < TextLength /\ Weights(b', TextLength)[b'] = 0 /\ TextLength \in Nat
      BY <1>1, <1>4, DigitsBeforeEnd DEF IndInv
    <3>2. b' \in {0, 1} /\ i' = 0 /\ b' + i' = b'
      BY <1>1
    <3> QED
      BY <1>1, <3>1, <3>2, SameString DEF SoFar
  <2>4. ParsesNumbers'
    BY <2>1 DEF ParsesNumbers, Returned
  <2>5. value' = 0
    BY <1>1
  <2> QED
    BY <2>1, <2>2, <2>3, <2>4, <2>5 DEF ParseInv
<1> QED
  BY <1>3, <1>4

(* A digit adds to the value, and any other rune is no number.             *)
LEMMA DigitParse == ASSUME IndInv, ParseInv, ReadDigit PROVE ParseInv'
<1>1. /\ pc = "digits" /\ DigitsRead /\ i < maximumBufferLength /\ Cell(b + i) # NUL
      /\ UNCHANGED <<memory, maximumBufferLength, b, numberIsNegative>>
      /\ b \in {0, 1} /\ i \in Nat /\ maximumBufferLength \in Nat
  BY DEF ReadDigit, ParseInv, MayRead, IndInv
<1>2. \A k : Cell(k)' = Cell(k) /\ Cell(k)' = memory'[k + 1]
  BY <1>1, SameString DEF Cell
<1>3. ASSUME Terminated
      PROVE  /\ TextLength \in Nat /\ b < TextLength /\ b + i < TextLength
             /\ Weights(b, TextLength)[b + i + 1] = 10 * SoFar + DigitOf(Cell(b + i))
             /\ SoFar \in Nat
             /\ SoFar <= Largest => value = SoFar
  <2>1. b + i <= TextLength /\ SoFar \in Nat /\ (SoFar <= Largest => value = SoFar)
    BY <1>1, <1>3 DEF ParseInv
  <2>2. /\ TextLength \in Nat /\ b < TextLength
        /\ \A k \in 0 .. TextLength : Cell(k) = NUL <=> k = TextLength
        /\ \A k \in b .. TextLength - 1 :
              Weights(b, TextLength)[k + 1]
                  = 10 * Weights(b, TextLength)[k] + DigitOf(Cell(k))
    BY <1>1, <1>3, DigitsBeforeEnd DEF DigitsRead
  <2>3. b + i < TextLength
    BY <1>1, <2>1, <2>2
  <2>4. b + i \in b .. TextLength - 1
    BY <1>1, <2>2, <2>3
  <2> QED
    BY <2>1, <2>2, <2>3, <2>4 DEF SoFar
<1>4. CASE IsDigit(Cell(b + i))
  <2>1. value' \in Int64(value * 10 + DigitOf(Cell(b + i))) /\ i' = i + 1 /\ pc' = "digits"
    BY <1>1, <1>4 DEF ReadDigit
  <2>2. DigitOf(Cell(b + i)) \in 0 .. 9
    BY <1>4, DigitType
  <2>3. value \in Int /\ value' \in Int
    BY <1>1, <2>1, <2>2, LengthsAssumption DEF DigitsRead, Int64
  <2>4. DigitsRead'
    <3>1. ASSUME NEW k \in b .. b + i PROVE IsDigit(Cell(k))
      <4>1. CASE k = b + i
        BY <1>4, <4>1
      <4>2. CASE k # b + i
        <5>1. k \in b .. b + i - 1
          BY <1>1, <4>2
        <5> QED
          BY <1>1, <5>1 DEF DigitsRead
      <4> QED
        BY <4>1, <4>2
    <3>2. b' + i' - 1 = b + i
      BY <1>1, <2>1
    <3>3. \A k \in b' .. b' + i' - 1 : IsDigit(Cell(k)')
      BY <1>1, <1>2, <3>1, <3>2
    <3>4. Cell(0)' # NUL /\ Cell(b)' # NUL
      BY <1>1 DEF Cell, DigitsRead
    <3> QED
      BY <1>1, <1>2, <2>3, <3>3, <3>4 DEF DigitsRead
  <2>5. ASSUME Terminated
        PROVE  /\ b' + i' <= TextLength /\ SoFar' \in Nat
               /\ SoFar' <= Largest => value' = SoFar'
    <3>1. SoFar' = 10 * SoFar + DigitOf(Cell(b + i))
      <4>1. b' + i' = b + i + 1
        BY <1>1, <2>1
      <4> QED
        BY <1>1, <1>3, <2>5, <4>1, SameString DEF SoFar
    <3>2. b' + i' <= TextLength
      BY <1>1, <1>3, <2>1, <2>5
    <3>3. ASSUME SoFar' <= Largest PROVE value' = SoFar'
      <4>1. SoFar <= Largest /\ 10 * SoFar + DigitOf(Cell(b + i)) \in -Largest - 1 .. Largest
        BY <1>3, <2>2, <2>5, <3>1, <3>3, LengthsAssumption
      <4>2. value * 10 + DigitOf(Cell(b + i)) = 10 * SoFar + DigitOf(Cell(b + i))
        BY <1>3, <2>2, <2>5, <4>1
      <4> QED
        BY <2>1, <3>1, <4>1, <4>2 DEF Int64
    <3> QED
      BY <1>3, <2>2, <2>5, <3>1, <3>2, <3>3
  <2>6. ParsesNumbers'
    BY <2>1 DEF ParsesNumbers, Returned
  <2> QED
    BY <1>1, <2>1, <2>4, <2>5, <2>6, SameString DEF ParseInv
<1>5. CASE ~IsDigit(Cell(b + i))
  <2>1. pc' = "returned" /\ error' = "ErrorNotANumber"
    BY <1>1, <1>5 DEF ReadDigit, Return
  <2>2. ASSUME Terminated PROVE b + i \in b .. TextLength - 1 /\ TextLength # 0
    BY <1>1, <1>3, <2>2
  <2>3. ParsesNumbers'
    BY <1>1, <1>2, <1>5, <2>1, <2>2, SameString DEF ParsesNumbers, DigitsRead
  <2> QED
    BY <2>1, <2>3 DEF ParseInv
<1> QED
  BY <1>4, <1>5

(* The end of the digits gives the value its sign.                         *)
LEMMA EndParse == ASSUME IndInv, ParseInv, EndOfDigits PROVE ParseInv'
<1>1. /\ pc = "digits" /\ DigitsRead
      /\ pc' = "returned" /\ error' = "NoError" /\ value' \in Int64(Signed)
      /\ i < maximumBufferLength => Cell(b + i) = NUL
      /\ UNCHANGED <<memory, maximumBufferLength, b, i, numberIsNegative>>
      /\ b \in {0, 1} /\ i \in Nat /\ maximumBufferLength \in Nat /\ i <= maximumBufferLength
  BY DEF EndOfDigits, ParseInv, Return, MayRead, IndInv
<1>2. \A k : Cell(k)' = Cell(k)
  BY <1>1, SameString
<1>3. ASSUME Terminated
      PROVE  /\ TextLength \in Nat /\ b < TextLength /\ b + i = TextLength
             /\ SoFar \in Nat
             /\ SoFar <= Largest => value = SoFar
  <2>1. b + i <= TextLength /\ SoFar \in Nat /\ (SoFar <= Largest => value = SoFar)
    BY <1>1, <1>3 DEF ParseInv
  <2>2. /\ TextLength \in Nat /\ b < TextLength /\ TextLength < maximumBufferLength
        /\ \A k \in 0 .. TextLength : Cell(k) = NUL <=> k = TextLength
    BY <1>1, <1>3, DigitsBeforeEnd DEF DigitsRead
  <2>3. i < maximumBufferLength
    BY <1>1, <2>1, <2>2
  <2>4. b + i \in 0 .. TextLength
    BY <1>1, <2>1, <2>2
  <2> QED
    BY <1>1, <2>1, <2>2, <2>3, <2>4
<1>4. ASSUME Terminated, SoFar <= Largest
      PROVE  value' = IF b = 1 THEN -SoFar ELSE SoFar
  <2>1. numberIsNegative <=> b = 1
    <3>1. b = IF Cell(0) = "-" THEN 1 ELSE 0
      BY <1>1 DEF DigitsRead
    <3>2. b = 1 <=> Cell(0) = "-"
      BY <3>1
    <3> QED
      BY <1>1, <3>2, Zenon DEF DigitsRead
  <2>2. Signed = IF b = 1 THEN -SoFar ELSE SoFar
    BY <1>3, <1>4, <2>1 DEF Signed
  <2>3. Signed \in -Largest - 1 .. Largest
    BY <1>3, <1>4, <2>2, LengthsAssumption
  <2> QED
    BY <1>1, <2>2, <2>3 DEF Int64
<1>5. ASSUME Terminated
      PROVE  /\ b = IF TextLength > 0 /\ Cell(0) = "-" THEN 1 ELSE 0
             /\ \A k \in b .. TextLength - 1 : IsDigit(Cell(k))
             /\ SoFar = Weights(b, TextLength)[TextLength]
    BY <1>1, <1>3, <1>5 DEF DigitsRead, SoFar
<1>6. ParsesNumbers'
  <2> SUFFICES ASSUME Returned', Terminated' PROVE ParsesNumbers'
    BY DEF ParsesNumbers
  <2>1. Terminated /\ TextLength' = TextLength
    BY <1>1, SameString
  <2>2. \A f, n : Weights(f, n)' = Weights(f, n)
    BY <1>1, SameString
  <2> QED
    BY <1>1, <1>2, <1>3, <1>4, <1>5, <2>1, <2>2 DEF ParsesNumbers
<1> QED
  BY <1>1, <1>6 DEF ParseInv

(* What the parser makes of a string holds always.                         *)
THEOREM ParseInvariance == Spec => []ParseInv
<1>1. IndInv /\ IndInv' /\ ParseInv /\ [Next]_vars => ParseInv'
  <2> SUFFICES ASSUME IndInv, IndInv', ParseInv, [Next]_vars PROVE ParseInv'
    OBVIOUS
  <2>1. CASE UNCHANGED vars
    <3>1. UNCHANGED <<memory, maximumBufferLength, pc, b, i, numberIsNegative, value, error>>
      BY <2>1 DEF vars
    <3>2. \A k : Cell(k)' = Cell(k)
      BY <3>1, SameString
    <3>3. Cell(b)' = Cell(b)
      BY <3>1 DEF Cell
    <3>4. ParsesNumbers' /\ (DigitsRead' <=> DigitsRead) /\ SoFar' = SoFar
      BY <3>1, <3>2, <3>3, SameString DEF ParseInv, ParsesNumbers, DigitsRead, SoFar, Returned
    <3> QED
      BY <3>1, <3>4, SameString DEF ParseInv
  <2> QED
    BY <2>1, EmptyParse, SignParse, DigitParse, EndParse DEF Next
<1>2. Spec => []IndInv
  BY InitIndInv, NextIndInv, PTL DEF Spec
<1> QED
  BY <1>1, <1>2, InitParse, PTL DEF Spec

(***************************************************************************)
(* A terminated string parses exactly when it is a sign and digits, to the *)
(* number they denote as long as it fits (String.c:329-356).               *)
(***************************************************************************)
THEOREM NumbersAreParsed == Spec => []ParsesNumbers
<1>1. ParseInv => ParsesNumbers
  BY DEF ParseInv
<1> QED
  BY <1>1, ParseInvariance, PTL
=============================================================================
