----------------------- MODULE NumberConversionsProofs -----------------------
(***************************************************************************)
(* What holds of the conversions of String.c for every uint64_t, every     *)
(* padding up to a word and every size of buffer: the loops stay inside the*)
(* buffer, and the text they leave denotes the number.                     *)
(*                                                                         *)
(* The recursive functions of NumberStrings are first shown to be what     *)
(* their definitions say, by induction over the nybbles or the digits;     *)
(* then the invariant of the loops relates the cells written so far to the *)
(* texts these functions define.                                           *)
(***************************************************************************)
EXTENDS NumberConversions, SequenceTheorems, WellFoundedInduction, TLAPS

(* A set of numbers that holds 0 and the successor of each of its numbers  *)
(* holds them all.                                                         *)
LEMMA SetInduction ==
    ASSUME NEW S, 0 \in S, \A n \in Nat : n \in S => n + 1 \in S
    PROVE  Nat \subseteq S
<1> SUFFICES ASSUME NEW m \in Nat, m \notin S PROVE FALSE
  OBVIOUS
<1> DEFINE R == {p \in Nat \X Nat : p[1] < p[2]}
           T == Nat \ S
<1>1. IsWellFoundedOn(R, Nat)
  BY NatLessThanWellFounded DEF OpToRel
<1>2. T \subseteq Nat /\ T # {}
  OBVIOUS
<1> HIDE DEF R, T
<1>3. PICK x \in T : \A y \in T : ~ (<<y, x>> \in R)
  BY <1>1, <1>2, WFMin
<1> USE DEF R, T
<1>4. x \in Nat /\ x \notin S /\ x # 0
  BY <1>3
<1>5. x - 1 \in Nat /\ <<x - 1, x>> \in R
  BY <1>4
<1>6. x - 1 \in S
  <2> HIDE DEF R
  <2> QED BY <1>3, <1>5
<1> QED
  BY <1>4, <1>5, <1>6

(* What holds of 0 and goes from each number below m to the next one holds *)
(* up to m.                                                                *)
LEMMA BoundedInduction ==
    ASSUME NEW m \in Nat, NEW S, 0 \in S, \A n \in 0 .. m - 1 : n \in S => n + 1 \in S
    PROVE  0 .. m \subseteq S
<1> DEFINE T == {n \in Nat : n <= m => n \in S}
<1>1. 0 \in T
  OBVIOUS
<1>2. ASSUME NEW n \in Nat, n \in T PROVE n + 1 \in T
  <2> SUFFICES ASSUME n + 1 <= m PROVE n + 1 \in S
    OBVIOUS
  <2>1. n \in 0 .. m - 1 /\ n \in S
    BY <1>2
  <2> QED
    BY <2>1
<1>3. Nat \subseteq T
  <2> HIDE DEF T
  <2> QED BY <1>1, <1>2, SetInduction
<1> QED
  BY <1>3

(* A function on 0 .. m that starts with a and goes on by F.               *)
Recursive(f, m, a, F) == f = [i \in 0 .. m |-> IF i = 0 THEN a ELSE F[i][f[i - 1]]]

(* A function on 0 .. m may be given by its first value and by what its    *)
(* next value is, when these are values of V.                              *)
LEMMA Recursion ==
    ASSUME NEW m \in Nat, NEW V, NEW a \in V, NEW F, \A i \in 1 .. m : \A x \in V : F[i][x] \in V
    PROVE  \E f \in [0 .. m -> V] : Recursive(f, m, a, F)
<1> DEFINE Given(f, n) == Recursive(f, n, a, F)
           S == {n \in 0 .. m : \E f \in [0 .. n -> V] : Given(f, n)}
<1>1. 0 \in S
  <2> DEFINE f == [i \in 0 .. 0 |-> a]
  <2>1. f \in [0 .. 0 -> V] /\ Given(f, 0) /\ 0 \in 0 .. m
    BY DEF Recursive
  <2> HIDE DEF Given, f
  <2> QED
    BY <2>1
<1>2. ASSUME NEW n \in 0 .. m - 1, n \in S PROVE n + 1 \in S
  <2>1. PICK f \in [0 .. n -> V] : Given(f, n)
    BY <1>2
  <2> DEFINE g == [i \in 0 .. n + 1 |-> IF i = n + 1 THEN F[n + 1][f[n]] ELSE f[i]]
  <2>2. F[n + 1][f[n]] \in V
    <3>1. f[n] \in V /\ n + 1 \in 1 .. m
      OBVIOUS
    <3> QED
      BY <3>1
  <2>3. g \in [0 .. n + 1 -> V]
    <3>1. ASSUME NEW i \in 0 .. n + 1 PROVE g[i] \in V
      BY <2>2
    <3> QED
      BY <3>1
  <2>4. ASSUME NEW i \in 0 .. n + 1 PROVE g[i] = IF i = 0 THEN a ELSE F[i][g[i - 1]]
    <3>1. CASE i = n + 1
      <4>1. i # 0 /\ i - 1 = n /\ g[n] = f[n] /\ g[i] = F[n + 1][f[n]]
        BY <3>1
      <4> HIDE DEF g
      <4> QED
        BY <3>1, <4>1
    <3>2. CASE i # n + 1
      <4>1. i \in 0 .. n
        BY <3>2
      <4>2. g[i] = f[i] /\ (i # 0 => g[i - 1] = f[i - 1])
        BY <4>1
      <4>3. f[i] = IF i = 0 THEN a ELSE F[i][f[i - 1]]
        BY <2>1, <4>1 DEF Recursive
      <4> HIDE DEF g
      <4> QED
        BY <4>2, <4>3
    <3> QED
      BY <3>1, <3>2
  <2>5. Given(g, n + 1)
    BY <2>4 DEF Recursive
  <2>6. n + 1 \in 0 .. m
    OBVIOUS
  <2> HIDE DEF Given, g
  <2> QED
    BY <2>3, <2>5, <2>6
<1>3. m \in S
  <2>1. 0 .. m \subseteq S
    <3> HIDE DEF S
    <3> QED
      BY <1>1, <1>2, BoundedInduction
  <2> QED
    BY <2>1
<1> QED
  BY <1>3

-----------------------------------------------------------------------------
(* The rests of a long division are what their definition says.            *)
LEMMA RestsDefined ==
    ASSUME NEW w \in Word
    PROVE  /\ Rests(w) = [i \in 0 .. Nybbles |->
                             IF i = 0 THEN 0 ELSE (16 * Rests(w)[i - 1] + w[i]) % 10]
           /\ \A i \in 0 .. Nybbles : Rests(w)[i] \in 0 .. 9
<1> DEFINE Rested(f) == f = [i \in 0 .. Nybbles |->
                                IF i = 0 THEN 0 ELSE (16 * f[i - 1] + w[i]) % 10]
           F == [i \in 1 .. Nybbles |-> [x \in 0 .. 9 |-> (16 * x + w[i]) % 10]]
<1>0. Nybbles \in Nat /\ 0 \in 0 .. 9
  BY NybblesAssumption
<1>1. ASSUME NEW i \in 1 .. Nybbles, NEW x \in 0 .. 9 PROVE F[i][x] \in 0 .. 9
  <2>1. w[i] \in 0 .. 15
    BY DEF Word
  <2>2. (16 * x + w[i]) % 10 \in 0 .. 9
    BY <2>1
  <2> QED
    BY <2>2
<1>3. \E f : Rested(f)
  <2>1. \A i \in 1 .. Nybbles : \A x \in 0 .. 9 : F[i][x] \in 0 .. 9
    BY <1>1
  <2>2. PICK f \in [0 .. Nybbles -> 0 .. 9] : Recursive(f, Nybbles, 0, F)
    <3> HIDE DEF F
    <3>1. 0 \in 0 .. 9
      OBVIOUS
    <3> QED
      BY <1>0, <2>1, <3>1, Recursion, Zenon
  <2>3. Rested(f)
    <3>1. ASSUME NEW i \in 0 .. Nybbles
          PROVE  f[i] = IF i = 0 THEN 0 ELSE (16 * f[i - 1] + w[i]) % 10
      <4>1. CASE i = 0
        BY <2>2, <4>1 DEF Recursive
      <4>2. CASE i # 0
        <5>1. f[i] = F[i][f[i - 1]]
          BY <2>2, <4>2 DEF Recursive
        <5>2. i \in 1 .. Nybbles /\ f[i - 1] \in 0 .. 9
          BY <1>0, <4>2
        <5> QED
          BY <4>2, <5>1, <5>2
      <4> QED
        BY <4>1, <4>2
    <3> QED
      BY <3>1
  <2> HIDE DEF Rested
  <2> QED
    BY <2>3
<1>4. Rested(CHOOSE g : Rested(g))
  <2> HIDE DEF Rested
  <2> QED
    BY <1>3, Zenon
<1>5. Rests(w) = CHOOSE g : Rested(g)
  BY Zenon DEF Rests
<1>6. Rested(Rests(w))
  <2> HIDE DEF Rested
  <2> QED
    BY <1>4, <1>5
<1>6a. \A i \in 0 .. Nybbles - 1 : Rests(w)[i + 1] = (16 * Rests(w)[i] + w[i + 1]) % 10
  <2> SUFFICES ASSUME NEW i \in 0 .. Nybbles - 1
               PROVE  Rests(w)[i + 1] = (16 * Rests(w)[i] + w[i + 1]) % 10
    OBVIOUS
  <2>1. i + 1 \in 0 .. Nybbles /\ i + 1 # 0 /\ (i + 1) - 1 = i
    BY <1>0
  <2> QED
    BY <1>6, <2>1
<1> HIDE DEF F, Rested
<1>7. ASSUME NEW i \in 0 .. Nybbles PROVE Rests(w)[i] \in 0 .. 9
  <2> DEFINE S == {j \in 0 .. Nybbles : Rests(w)[j] \in 0 .. 9}
  <2>1. 0 \in S
    BY <1>0, <1>6 DEF Rested
  <2>2. ASSUME NEW j \in 0 .. Nybbles - 1, j \in S PROVE j + 1 \in S
    <3>1. j + 1 \in 0 .. Nybbles /\ j + 1 \in 1 .. Nybbles
      BY <1>0
    <3>2. Rests(w)[j + 1] = (16 * Rests(w)[j] + w[j + 1]) % 10
      BY <1>6a
    <3>3. w[j + 1] \in 0 .. 15
      BY <3>1 DEF Word
    <3>4. Rests(w)[j] \in 0 .. 9
      BY <2>2
    <3>5. Rests(w)[j + 1] \in 0 .. 9
      BY <3>2, <3>3, <3>4
    <3> QED
      BY <3>1, <3>5
  <2>3. 0 .. Nybbles \subseteq S
    <3> HIDE DEF S
    <3> QED
      BY <1>0, <2>1, <2>2, BoundedInduction
  <2> QED
    BY <2>3
<1> QED
  BY <1>6, <1>7 DEF Rested

(* A word divided by ten is a word, and what remains a digit.              *)
LEMMA DivideType ==
    ASSUME NEW w \in Word
    PROVE  DivideBy10(w).quotient \in Word /\ DivideBy10(w).remainder \in 0 .. 9
<1>0. Nybbles \in Nat
  BY NybblesAssumption
<1>1. \A i \in 0 .. Nybbles : Rests(w)[i] \in 0 .. 9
  BY RestsDefined
<1>2. ASSUME NEW i \in 1 .. Nybbles PROVE (16 * Rests(w)[i - 1] + w[i]) \div 10 \in 0 .. 15
  <2>1. Rests(w)[i - 1] \in 0 .. 9 /\ w[i] \in 0 .. 15
    BY <1>0, <1>1 DEF Word
  <2> QED
    BY <2>1
<1> QED
  BY <1>0, <1>1, <1>2 DEF DivideBy10, Word

(* The numbers of a word are what their definition says.                   *)
LEMMA NumbersDefined ==
    ASSUME NEW w \in Word
    PROVE  /\ Numbers(w)[0] = 0
           /\ \A i \in 0 .. Nybbles - 1 : Numbers(w)[i + 1] = Numbers(w)[i] * 16 + w[i + 1]
           /\ \A i \in 0 .. Nybbles : Numbers(w)[i] \in Nat
<1> DEFINE Numbered(f) == f = [i \in 0 .. Nybbles |-> IF i = 0 THEN 0 ELSE f[i - 1] * 16 + w[i]]
           F == [i \in 1 .. Nybbles |-> [x \in Nat |-> x * 16 + w[i]]]
<1>0. Nybbles \in Nat
  BY NybblesAssumption
<1>1. ASSUME NEW i \in 1 .. Nybbles, NEW x \in Nat PROVE F[i][x] \in Nat
  <2>1. w[i] \in 0 .. 15
    BY DEF Word
  <2> QED
    BY <2>1
<1>3. \E f : Numbered(f)
  <2>1. \A i \in 1 .. Nybbles : \A x \in Nat : F[i][x] \in Nat
    BY <1>1
  <2>2. PICK f \in [0 .. Nybbles -> Nat] : Recursive(f, Nybbles, 0, F)
    <3> HIDE DEF F
    <3>1. 0 \in Nat
      OBVIOUS
    <3> QED
      BY <1>0, <2>1, <3>1, Recursion, Zenon
  <2>3. Numbered(f)
    <3>1. ASSUME NEW i \in 0 .. Nybbles PROVE f[i] = IF i = 0 THEN 0 ELSE f[i - 1] * 16 + w[i]
      <4>1. CASE i = 0
        BY <2>2, <4>1 DEF Recursive
      <4>2. CASE i # 0
        <5>1. f[i] = F[i][f[i - 1]]
          BY <2>2, <4>2 DEF Recursive
        <5>2. i \in 1 .. Nybbles /\ f[i - 1] \in Nat
          BY <1>0, <4>2
        <5> QED
          BY <4>2, <5>1, <5>2
      <4> QED
        BY <4>1, <4>2
    <3> QED
      BY <3>1
  <2> HIDE DEF Numbered
  <2> QED
    BY <2>3
<1>4. Numbered(CHOOSE g : Numbered(g))
  <2> HIDE DEF Numbered
  <2> QED
    BY <1>3, Zenon
<1>5. Numbers(w) = CHOOSE g : Numbered(g)
  BY Zenon DEF Numbers
<1>6. Numbered(Numbers(w))
  <2> HIDE DEF Numbered
  <2> QED
    BY <1>4, <1>5
<1>7. Numbers(w)[0] = 0
  BY <1>0, <1>6
<1>8. ASSUME NEW i \in 0 .. Nybbles - 1 PROVE Numbers(w)[i + 1] = Numbers(w)[i] * 16 + w[i + 1]
  <2>1. i + 1 \in 0 .. Nybbles /\ i + 1 # 0 /\ (i + 1) - 1 = i
    BY <1>0
  <2> QED
    BY <1>6, <2>1
<1> HIDE DEF F, Numbered
<1>9. ASSUME NEW i \in 0 .. Nybbles PROVE Numbers(w)[i] \in Nat
  <2> DEFINE S == {j \in 0 .. Nybbles : Numbers(w)[j] \in Nat}
  <2>1. 0 \in S
    BY <1>0, <1>7
  <2>2. ASSUME NEW j \in 0 .. Nybbles - 1, j \in S PROVE j + 1 \in S
    <3>1. j + 1 \in 1 .. Nybbles /\ j + 1 \in 0 .. Nybbles
      BY <1>0
    <3>2. w[j + 1] \in 0 .. 15 /\ Numbers(w)[j] \in Nat
      BY <2>2, <3>1 DEF Word
    <3>3. Numbers(w)[j + 1] = Numbers(w)[j] * 16 + w[j + 1]
      BY <1>8
    <3>4. Numbers(w)[j + 1] \in Nat
      BY <3>2, <3>3
    <3> QED
      BY <3>1, <3>4
  <2>3. 0 .. Nybbles \subseteq S
    <3> HIDE DEF S
    <3> QED
      BY <1>0, <2>1, <2>2, BoundedInduction
  <2> QED
    BY <2>3
<1> QED
  BY <1>7, <1>8, <1>9

(* One nybble of a long division, in numbers.                              *)
LEMMA DivisionStep ==
    \A n, m, r, d, e, t \in Nat :
        n = 10 * m + r /\ 16 * r + d = 10 * e + t => n * 16 + d = 10 * (m * 16 + e) + t
OBVIOUS

(* Dividing a word divides its number.                                     *)
LEMMA DivideNumber ==
    ASSUME NEW w \in Word
    PROVE  NumberOf(w) = 10 * NumberOf(DivideBy10(w).quotient) + DivideBy10(w).remainder
<1> DEFINE q == DivideBy10(w).quotient
           S == {i \in 0 .. Nybbles : Numbers(w)[i] = 10 * Numbers(q)[i] + Rests(w)[i]}
<1>0. Nybbles \in Nat /\ q \in Word
  BY NybblesAssumption, DivideType
<1>1. /\ Rests(w)[0] = 0
      /\ \A i \in 0 .. Nybbles - 1 : Rests(w)[i + 1] = (16 * Rests(w)[i] + w[i + 1]) % 10
      /\ \A i \in 0 .. Nybbles : Rests(w)[i] \in 0 .. 9
  <2>1. /\ Rests(w) = [i \in 0 .. Nybbles |->
                          IF i = 0 THEN 0 ELSE (16 * Rests(w)[i - 1] + w[i]) % 10]
        /\ \A i \in 0 .. Nybbles : Rests(w)[i] \in 0 .. 9
    BY RestsDefined
  <2>2. ASSUME NEW i \in 0 .. Nybbles - 1
        PROVE  Rests(w)[i + 1] = (16 * Rests(w)[i] + w[i + 1]) % 10
    <3>1. i + 1 \in 0 .. Nybbles /\ i + 1 # 0 /\ (i + 1) - 1 = i
      BY <1>0
    <3> QED
      BY <2>1, <3>1
  <2>3. Rests(w)[0] = 0
    BY <1>0, <2>1
  <2> QED
    BY <2>1, <2>2, <2>3
<1>2. \A i \in 0 .. Nybbles - 1 : q[i + 1] = (16 * Rests(w)[i] + w[i + 1]) \div 10
  <2> SUFFICES ASSUME NEW i \in 0 .. Nybbles - 1
               PROVE  q[i + 1] = (16 * Rests(w)[i] + w[i + 1]) \div 10
    OBVIOUS
  <2>1. i + 1 \in 1 .. Nybbles /\ (i + 1) - 1 = i
    BY <1>0
  <2> QED
    BY <2>1 DEF DivideBy10
<1>3. DivideBy10(w).remainder = Rests(w)[Nybbles]
  BY DEF DivideBy10
<1> HIDE DEF q
<1>4. 0 \in S
  <2>1. Numbers(w)[0] = 0 /\ Numbers(q)[0] = 0 /\ Rests(w)[0] = 0 /\ 0 \in 0 .. Nybbles
    BY <1>0, <1>1, NumbersDefined
  <2> QED
    BY <2>1
<1>5. ASSUME NEW i \in 0 .. Nybbles - 1, i \in S PROVE i + 1 \in S
  <2>1. i + 1 \in 0 .. Nybbles /\ i + 1 \in 1 .. Nybbles /\ i \in 0 .. Nybbles
    BY <1>0
  <2>2. Numbers(w)[i + 1] = Numbers(w)[i] * 16 + w[i + 1]
        /\ Numbers(q)[i + 1] = Numbers(q)[i] * 16 + q[i + 1]
    BY <1>0, NumbersDefined
  <2>3. Numbers(q)[i] \in Nat /\ Rests(w)[i] \in 0 .. 9 /\ w[i + 1] \in 0 .. 15
    BY <1>0, <1>1, <2>1, NumbersDefined DEF Word
  <2>4. /\ q[i + 1] = (16 * Rests(w)[i] + w[i + 1]) \div 10
        /\ Rests(w)[i + 1] = (16 * Rests(w)[i] + w[i + 1]) % 10
    BY <1>1, <1>2
  <2>5. 16 * Rests(w)[i] + w[i + 1] = 10 * q[i + 1] + Rests(w)[i + 1]
    BY <2>3, <2>4
  <2>6. q[i + 1] \in Nat
    BY <1>0, <2>1 DEF Word
  <2>7. Rests(w)[i + 1] \in Nat
    BY <1>1, <2>1
  <2>8. Numbers(w)[i] = 10 * Numbers(q)[i] + Rests(w)[i]
    BY <1>5
  <2>8a. Numbers(w)[i] \in Nat /\ Numbers(q)[i] \in Nat
    BY <1>0, <2>1, NumbersDefined
  <2>9. Numbers(w)[i + 1] = 10 * Numbers(q)[i + 1] + Rests(w)[i + 1]
    <3>1. w[i + 1] \in Nat /\ Rests(w)[i] \in Nat
      BY <2>3
    <3> DEFINE n == Numbers(w)[i]
               m == Numbers(q)[i]
               r == Rests(w)[i]
               d == w[i + 1]
               e == q[i + 1]
               t == Rests(w)[i + 1]
    <3>2. n \in Nat /\ m \in Nat /\ r \in Nat /\ d \in Nat /\ e \in Nat /\ t \in Nat
      BY <2>6, <2>7, <2>8a, <3>1
    <3>3. n = 10 * m + r /\ 16 * r + d = 10 * e + t
      BY <2>5, <2>8
    <3>4. n * 16 + d = 10 * (m * 16 + e) + t
      <4> HIDE DEF n, m, r, d, e, t
      <4> QED
        BY <3>2, <3>3, DivisionStep
    <3> QED
      BY <2>2, <3>4
  <2> QED
    BY <2>1, <2>9
<1>6. 0 .. Nybbles \subseteq S
  <2> HIDE DEF S
  <2> QED
    BY <1>0, <1>4, <1>5, BoundedInduction
<1>7. Nybbles \in S
  BY <1>0, <1>6
<1> QED
  BY <1>3, <1>7 DEF q, NumberOf

(* A word is zero up to a nybble when its number is.                       *)
LEMMA NumberZero ==
    ASSUME NEW w \in Word
    PROVE  /\ \A i \in 0 .. Nybbles : Numbers(w)[i] = 0 <=> \A j \in 1 .. i : w[j] = 0
           /\ NumberOf(w) = 0 <=> w = Zero
<1> DEFINE S == {i \in 0 .. Nybbles : Numbers(w)[i] = 0 <=> \A j \in 1 .. i : w[j] = 0}
<1>0. Nybbles \in Nat
  BY NybblesAssumption
<1>1. 0 \in S
  BY <1>0, NumbersDefined
<1>2. ASSUME NEW i \in 0 .. Nybbles - 1, i \in S PROVE i + 1 \in S
  <2>1. /\ i + 1 \in 0 .. Nybbles /\ i + 1 \in 1 .. Nybbles /\ i \in 0 .. Nybbles
        /\ Numbers(w)[i + 1] = Numbers(w)[i] * 16 + w[i + 1]
    BY <1>0, NumbersDefined
  <2>2. Numbers(w)[i] \in Nat /\ w[i + 1] \in 0 .. 15
    BY <2>1, NumbersDefined DEF Word
  <2>3. Numbers(w)[i + 1] = 0 <=> Numbers(w)[i] = 0 /\ w[i + 1] = 0
    BY <2>1, <2>2
  <2>4. (\A j \in 1 .. i + 1 : w[j] = 0) <=> (\A j \in 1 .. i : w[j] = 0) /\ w[i + 1] = 0
    <3>1. \A j \in 1 .. i + 1 : j \in 1 .. i \/ j = i + 1
      BY <1>0
    <3>2. i + 1 \in 1 .. i + 1 /\ \A j \in 1 .. i : j \in 1 .. i + 1
      BY <1>0
    <3> QED
      BY <3>1, <3>2
  <2> QED
    BY <1>2, <2>1, <2>3, <2>4
<1>3. 0 .. Nybbles \subseteq S
  <2> HIDE DEF S
  <2> QED
    BY <1>0, <1>1, <1>2, BoundedInduction
<1>4. Nybbles \in S
  BY <1>0, <1>3
<1>5. (\A j \in 1 .. Nybbles : w[j] = 0) <=> w = Zero
  BY DEF Word, Zero
<1> QED
  BY <1>3, <1>4, <1>5 DEF NumberOf

(* The powers of 16 that a word's first nybbles stay below.                *)
LEMMA NumberBound ==
    ASSUME NEW w \in Word, Nybbles = 16
    PROVE  NumberOf(w) < 18446744073709551616
<1> DEFINE N == Numbers(w)
<1>1. /\ N[0] = 0
      /\ \A i \in 0 .. 15 : N[i + 1] = N[i] * 16 + w[i + 1]
      /\ \A i \in 0 .. 16 : N[i] \in Nat
  BY NumbersDefined
<1>2. \A i \in 1 .. 16 : w[i] \in 0 .. 15
  BY DEF Word
<1> HIDE DEF N
<1>3. \A i \in 0 .. 15 : \A b \in Nat : N[i] < b => N[i + 1] < 16 * b
  <2> SUFFICES ASSUME NEW i \in 0 .. 15, NEW b \in Nat, N[i] < b PROVE N[i + 1] < 16 * b
    OBVIOUS
  <2>1. N[i + 1] = N[i] * 16 + w[i + 1] /\ i + 1 \in 1 .. 16 /\ i \in 0 .. 16
    BY <1>1
  <2>2. w[i + 1] \in 0 .. 15 /\ N[i] \in Nat
    BY <1>1, <1>2, <2>1
  <2> QED
    BY <2>1, <2>2
<1>4. N[4] < 65536
  <2>1. N[1] < 16 
    BY <1>1, <1>3
  <2>2. N[2] < 256
    BY <2>1, <1>3
  <2>3. N[3] < 4096
    BY <2>2, <1>3
  <2> QED
    BY <2>3, <1>3
<1>5. N[8] < 4294967296
  <2>1. N[5] < 1048576
    BY <1>4, <1>3
  <2>2. N[6] < 16777216
    BY <2>1, <1>3
  <2>3. N[7] < 268435456
    BY <2>2, <1>3
  <2> QED
    BY <2>3, <1>3
<1>6. N[12] < 281474976710656
  <2>1. N[9] < 68719476736
    BY <1>5, <1>3
  <2>2. N[10] < 1099511627776
    BY <2>1, <1>3
  <2>3. N[11] < 17592186044416
    BY <2>2, <1>3
  <2> QED
    BY <2>3, <1>3
<1>7. N[16] < 18446744073709551616
  <2>1. N[13] < 4503599627370496
    BY <1>6, <1>3
  <2>2. N[14] < 72057594037927936
    BY <2>1, <1>3
  <2>3. N[15] < 1152921504606846976
    BY <2>2, <1>3
  <2> QED
    BY <2>3, <1>3
<1> QED
  BY <1>7 DEF N, NumberOf

DigitRuneSet == {DigitRunes[k] : k \in 1 .. 16}

(* A digit is read back from its rune.                                     *)
LEMMA DigitRead ==
    ASSUME NEW d \in 0 .. 15
    PROVE  DigitRune(d) \in DigitRuneSet /\ DigitOf(DigitRune(d)) = d
<1>1. \A a, b \in 1 .. 16 : DigitRunes[a] = DigitRunes[b] => a = b
  BY DEF DigitRunes
<1>2. d + 1 \in 1 .. 16 /\ (d + 1) - 1 = d
  OBVIOUS
<1>3. (CHOOSE c \in 1 .. 16 : DigitRunes[c] = DigitRune(d)) = d + 1
  <2>1. \E c \in 1 .. 16 : DigitRunes[c] = DigitRune(d)
    BY <1>2 DEF DigitRune
  <2>2. ASSUME NEW c \in 1 .. 16, DigitRunes[c] = DigitRune(d) PROVE c = d + 1
    BY <1>1, <1>2, <2>2 DEF DigitRune
  <2> QED
    BY <2>1, <2>2
<1> QED
  BY <1>2, <1>3 DEF DigitRune, DigitOf, DigitRuneSet

(* A state of the division, and the one that follows it.                   *)
States == [rest : Word, text : Seq(DigitRuneSet)]

(* A division of a state is a state, with one more digit in front.         *)
LEMMA DividedType ==
    ASSUME NEW s \in States
    PROVE  /\ Divided(s) \in States
           /\ Len(Divided(s).text) = Len(s.text) + 1
           /\ Divided(s).text[1] = DigitRune(DivideBy10(s.rest).remainder)
           /\ \A k \in 1 .. Len(s.text) : Divided(s).text[k + 1] = s.text[k]
<1> DEFINE r == DigitRune(DivideBy10(s.rest).remainder)
<1>1. s.rest \in Word /\ s.text \in Seq(DigitRuneSet)
  BY DEF States
<1>2. DivideBy10(s.rest).quotient \in Word /\ DivideBy10(s.rest).remainder \in 0 .. 9
  BY <1>1, DivideType
<1>3. r \in DigitRuneSet
  <2>1. DivideBy10(s.rest).remainder \in 0 .. 15
    BY <1>2
  <2> QED
    BY <2>1, DigitRead
<1>4. Divided(s) = [rest |-> DivideBy10(s.rest).quotient, text |-> <<r>> \o s.text]
  BY DEF Divided
<1> HIDE DEF r
<1>5. <<r>> \in Seq(DigitRuneSet) /\ Len(<<r>>) = 1 /\ <<r>>[1] = r
  BY <1>3
<1>6. /\ <<r>> \o s.text \in Seq(DigitRuneSet)
      /\ Len(<<r>> \o s.text) = 1 + Len(s.text)
      /\ (<<r>> \o s.text)[1] = r
      /\ \A k \in 1 .. Len(s.text) : (<<r>> \o s.text)[k + 1] = s.text[k]
  BY <1>1, <1>5
<1>7. Len(s.text) \in Nat
  BY <1>1
<1> QED
  BY <1>2, <1>4, <1>6, <1>7 DEF r, States

(* The divisions of a word are what their definition says.                 *)
LEMMA DivisionsDefined ==
    ASSUME NEW w \in Word
    PROVE  /\ Divisions(w)[0] = [rest |-> w, text |-> <<>>]
           /\ \A i \in 0 .. 2 * Nybbles - 1 :
                  Divisions(w)[i + 1] = IF Divisions(w)[i].rest = Zero /\ i > 0
                                        THEN Divisions(w)[i] ELSE Divided(Divisions(w)[i])
           /\ \A i \in 0 .. 2 * Nybbles : Divisions(w)[i] \in States
<1> DEFINE K == 2 * Nybbles
           a == [rest |-> w, text |-> <<>>]
           G(i, x) == IF x.rest = Zero /\ i > 1 THEN x ELSE Divided(x)
           Stated(f) == f = [i \in 0 .. K |-> IF i = 0 THEN a ELSE G(i, f[i - 1])]
           F == [i \in 1 .. K |-> [x \in States |-> G(i, x)]]
<1>0. K \in Nat /\ a \in States
  BY NybblesAssumption DEF States
<1>d. Divisions(w) = CHOOSE f : Stated(f)
  BY Zenon DEF Divisions
<1>1. ASSUME NEW i \in 1 .. K, NEW x \in States PROVE F[i][x] \in States
  BY DividedType
<1>3. \E f : Stated(f)
  <2>1. \A i \in 1 .. K : \A x \in States : F[i][x] \in States
    BY <1>1
  <2>2. PICK f \in [0 .. K -> States] : Recursive(f, K, a, F)
    <3> HIDE DEF F, K, a
    <3> QED
      BY <1>0, <2>1, Recursion, Zenon
  <2>3. Stated(f)
    <3>1. ASSUME NEW i \in 0 .. K PROVE f[i] = IF i = 0 THEN a ELSE G(i, f[i - 1])
      <4> HIDE DEF K, a, G
      <4>1. CASE i = 0
        BY <2>2, <4>1 DEF Recursive
      <4>2. CASE i # 0
        <5>1. f[i] = F[i][f[i - 1]]
          <6> HIDE DEF F
          <6> QED
            BY <2>2, <4>2 DEF Recursive
        <5>2. i \in 1 .. K /\ f[i - 1] \in States
          BY <1>0, <4>2
        <5> QED
          BY <4>2, <5>1, <5>2
      <4> QED
        BY <4>1, <4>2
    <3>2. DOMAIN f = 0 .. K /\ f = [i \in 0 .. K |-> f[i]]
      OBVIOUS
    <3> HIDE DEF K, a, G
    <3> QED
      BY <3>1, <3>2
  <2> HIDE DEF Stated
  <2> QED
    BY <2>3
<1>4. Stated(CHOOSE g : Stated(g))
  <2> HIDE DEF Stated
  <2> QED
    BY <1>3, Zenon
<1>6. Stated(Divisions(w))
  <2> HIDE DEF Stated
  <2> QED
    BY <1>4, <1>d
<1> HIDE DEF G, a, K, F
<1>7. Divisions(w)[0] = a
  BY <1>0, <1>6
<1>8. ASSUME NEW i \in 0 .. K - 1 PROVE Divisions(w)[i + 1] = G(i + 1, Divisions(w)[i])
  <2>1. i + 1 \in 0 .. K /\ i + 1 # 0 /\ (i + 1) - 1 = i
    BY <1>0
  <2> QED
    BY <1>6, <2>1
<1>9. ASSUME NEW i \in 0 .. K - 1
      PROVE  Divisions(w)[i + 1] = IF Divisions(w)[i].rest = Zero /\ i > 0
                                   THEN Divisions(w)[i] ELSE Divided(Divisions(w)[i])
  <2>1. i + 1 > 1 <=> i > 0
    BY <1>0
  <2> QED
    BY <1>8, <2>1 DEF G
<1> HIDE DEF Stated
<1>10. 0 .. K \subseteq {i \in 0 .. K : Divisions(w)[i] \in States}
  <2> DEFINE S == {i \in 0 .. K : Divisions(w)[i] \in States}
  <2>1. 0 \in S
    BY <1>0, <1>7
  <2>2. ASSUME NEW i \in 0 .. K - 1, i \in S PROVE i + 1 \in S
    <3>1. i + 1 \in 0 .. K
      BY <1>0
    <3>2. Divisions(w)[i + 1] \in States
      BY <1>9, <2>2, DividedType
    <3> QED
      BY <3>1, <3>2
  <2> HIDE DEF S
  <2>3. 0 .. K \subseteq S
    BY <1>0, <2>1, <2>2, BoundedInduction
  <2> QED
    BY <2>3 DEF S
<1> QED
  BY <1>7, <1>9, <1>10 DEF a, K

(* The divisions of a word, one from the other.                            *)
LEMMA ThirtyTwoDivisions ==
    ASSUME NEW w \in Word
    PROVE  /\ Divisions(w)[0] = [rest |-> w, text |-> <<>>]
           /\ \A i \in 0 .. 31 : Divisions(w)[i + 1] = IF Divisions(w)[i].rest = Zero /\ i > 0
                                                       THEN Divisions(w)[i]
                                                       ELSE Divided(Divisions(w)[i])
           /\ \A i \in 0 .. 32 : Divisions(w)[i] \in States
<1>1. 2 * Nybbles = 32 /\ 0 .. 2 * Nybbles - 1 = 0 .. 31 /\ 0 .. 2 * Nybbles = 0 .. 32
  BY MachineAssumption
<1>2. /\ Divisions(w)[0] = [rest |-> w, text |-> <<>>]
      /\ \A i \in 0 .. 2 * Nybbles - 1 :
             Divisions(w)[i + 1] = IF Divisions(w)[i].rest = Zero /\ i > 0
                                   THEN Divisions(w)[i] ELSE Divided(Divisions(w)[i])
      /\ \A i \in 0 .. 2 * Nybbles : Divisions(w)[i] \in States
  BY DivisionsDefined, Zenon
<1> QED
  BY <1>1, <1>2, Zenon

(* Twenty divisions leave nothing of a word of 16 nybbles: 16^16 < 10^20.  *)
LEMMA TwentyDivisions ==
    ASSUME NEW w \in Word
    PROVE  Divisions(w)[20].rest = Zero
<1> DEFINE D == Divisions(w)
           N(i) == NumberOf(D[i].rest)
<1>0. Nybbles = 16
  BY MachineAssumption
<1>1. /\ D[0] = [rest |-> w, text |-> <<>>]
      /\ \A i \in 0 .. 31 : D[i + 1] = IF D[i].rest = Zero /\ i > 0 THEN D[i] ELSE Divided(D[i])
      /\ \A i \in 0 .. 32 : D[i] \in States
  BY ThirtyTwoDivisions, Zenon
<1> HIDE DEF D
<1>2. \A i \in 0 .. 32 : D[i].rest \in Word /\ N(i) \in Nat
  <2> SUFFICES ASSUME NEW i \in 0 .. 32 PROVE D[i].rest \in Word /\ N(i) \in Nat
    OBVIOUS
  <2>1. D[i].rest \in Word
    BY <1>1 DEF States
  <2>2. Nybbles \in 0 .. Nybbles
    BY <1>0
  <2> QED
    BY <2>1, <2>2, NumbersDefined DEF NumberOf
<1>3. ASSUME NEW i \in 0 .. 31 PROVE 10 * N(i + 1) <= N(i)
  <2>0. i \in 0 .. 32 /\ i + 1 \in 0 .. 32
    OBVIOUS
  <2>1. N(i) \in Nat /\ N(i + 1) \in Nat /\ D[i].rest \in Word
    BY <1>2, <2>0
  <2>2. CASE D[i].rest = Zero /\ i > 0
    <3>1. D[i + 1] = D[i] /\ N(i) = 0
      BY <1>1, <2>1, <2>2, NumberZero
    <3> QED
      BY <2>1, <3>1
  <2>3. CASE ~ (D[i].rest = Zero /\ i > 0)
    <3>0. D[i + 1] = Divided(D[i])
      BY <1>1, <2>3
    <3>1. D[i + 1].rest = DivideBy10(D[i].rest).quotient
      BY <3>0 DEF Divided
    <3>2. N(i) = 10 * N(i + 1) + DivideBy10(D[i].rest).remainder
      BY <2>1, <3>1, DivideNumber
    <3>3. DivideBy10(D[i].rest).remainder \in 0 .. 9
      BY <2>1, DivideType
    <3> HIDE DEF N
    <3> QED
      BY <2>1, <3>2, <3>3
  <2> QED
    BY <2>2, <2>3
<1>4. N(0) < 18446744073709551616
  BY <1>0, <1>1, NumberBound
<1> HIDE DEF N
<1>5. \A i \in 0 .. 31 : \A b \in Nat : N(i) < 10 * b => N(i + 1) < b
  <2> SUFFICES ASSUME NEW i \in 0 .. 31, NEW b \in Nat, N(i) < 10 * b PROVE N(i + 1) < b
    OBVIOUS
  <2>1. N(i) \in Nat /\ N(i + 1) \in Nat
    BY <1>2
  <2> QED
    BY <1>3, <2>1
<1>6. N(5) < 1000000000000000
  <2>0. N(0) < 10 * 10000000000000000000 /\ N(0) \in Nat
    BY <1>2, <1>4
  <2>1. N(1) < 10000000000000000000
    BY <1>5, <2>0
  <2>2. N(2) < 1000000000000000000
    BY <1>5, <2>1
  <2>3. N(3) < 100000000000000000
    BY <1>5, <2>2
  <2>4. N(4) < 10000000000000000
    BY <1>5, <2>3
  <2> QED
    BY <1>5, <2>4
<1>7. N(10) < 10000000000
  <2>1. N(6) < 100000000000000
    BY <1>5, <1>6
  <2>2. N(7) < 10000000000000
    BY <1>5, <2>1
  <2>3. N(8) < 1000000000000
    BY <1>5, <2>2
  <2>4. N(9) < 100000000000
    BY <1>5, <2>3
  <2> QED
    BY <1>5, <2>4
<1>8. N(15) < 100000
  <2>1. N(11) < 1000000000
    BY <1>5, <1>7
  <2>2. N(12) < 100000000
    BY <1>5, <2>1
  <2>3. N(13) < 10000000
    BY <1>5, <2>2
  <2>4. N(14) < 1000000
    BY <1>5, <2>3
  <2> QED
    BY <1>5, <2>4
<1>9. N(20) < 1
  <2>1. N(16) < 10000
    BY <1>5, <1>8
  <2>2. N(17) < 1000
    BY <1>5, <2>1
  <2>3. N(18) < 100
    BY <1>5, <2>2
  <2>4. N(19) < 10
    BY <1>5, <2>3
  <2> QED
    BY <1>5, <2>4
<1>10. D[20].rest \in Word /\ N(20) = 0
  BY <1>2, <1>9
<1> QED
  BY <1>10, NumberZero DEF N, D

(* The digits of a word: their number, and the states that give them.      *)
Digits(w) == Len(DecimalText(w))

(* A decimal text is the divisions up to the first that leaves nothing.    *)
LEMMA DecimalDigits ==
    ASSUME NEW w \in Word
    PROVE  /\ Digits(w) \in 1 .. 20
           /\ Divisions(w)[Digits(w)].text = DecimalText(w)
           /\ Divisions(w)[Digits(w)].rest = Zero
           /\ Divisions(w)[0] = [rest |-> w, text |-> <<>>]
           /\ \A i \in 0 .. Digits(w) - 1 : Divisions(w)[i + 1] = Divided(Divisions(w)[i])
           /\ \A i \in 1 .. Digits(w) - 1 : Divisions(w)[i].rest # Zero
           /\ \A i \in 0 .. Digits(w) :
                  Divisions(w)[i] \in States /\ Len(Divisions(w)[i].text) = i
<1> DEFINE D == Divisions(w)
<1>0. Nybbles = 16 /\ 2 * Nybbles = 32
  BY MachineAssumption
<1>1. /\ D[0] = [rest |-> w, text |-> <<>>]
      /\ \A i \in 0 .. 31 : D[i + 1] = IF D[i].rest = Zero /\ i > 0 THEN D[i] ELSE Divided(D[i])
      /\ \A i \in 0 .. 32 : D[i] \in States
  BY ThirtyTwoDivisions, Zenon
<1>2. D[20].rest = Zero
  BY TwentyDivisions
<1>3. DecimalText(w) = D[32].text
  BY <1>0 DEF DecimalText
<1> HIDE DEF D
<1>4. \E n \in 1 .. 20 : D[n].rest = Zero /\ \A i \in 1 .. n - 1 : D[i].rest # Zero
  <2> DEFINE S == {k \in 0 .. 20 : \A i \in 1 .. k : D[i].rest # Zero}
  <2> SUFFICES ASSUME ~ \E n \in 1 .. 20 : D[n].rest = Zero /\ \A i \in 1 .. n - 1 : D[i].rest # Zero
               PROVE  FALSE
    OBVIOUS
  <2>1. 0 \in S
    OBVIOUS
  <2>2. ASSUME NEW k \in 0 .. 20 - 1, k \in S PROVE k + 1 \in S
    <3>1. k + 1 \in 1 .. 20 /\ k + 1 \in 0 .. 20 /\ (k + 1) - 1 = k
      OBVIOUS
    <3>2. D[k + 1].rest # Zero
      BY <2>2, <3>1
    <3>3. \A i \in 1 .. k + 1 : i \in 1 .. k \/ i = k + 1
      OBVIOUS
    <3> QED
      BY <2>2, <3>1, <3>2, <3>3
  <2>3. 0 .. 20 \subseteq S
    <3> HIDE DEF S
    <3> QED
      BY <2>1, <2>2, BoundedInduction
  <2>4. 20 \in S /\ 20 \in 1 .. 20
    BY <2>3
  <2> QED
    BY <1>2, <2>4
<1>5. PICK n \in 1 .. 20 : D[n].rest = Zero /\ \A i \in 1 .. n - 1 : D[i].rest # Zero
  BY <1>4
<1>6. ASSUME NEW i \in 0 .. n - 1 PROVE D[i + 1] = Divided(D[i])
  <2>1. i \in 0 .. 31 /\ (i > 0 => i \in 1 .. n - 1)
    OBVIOUS
  <2> QED
    BY <1>1, <1>5, <2>1
<1>7. 0 .. n \subseteq {i \in 0 .. n : Len(D[i].text) = i}
  <2> DEFINE S == {i \in 0 .. n : Len(D[i].text) = i}
  <2>1. 0 \in S
    <3>1. D[0].text = <<>>
      BY <1>1
    <3> QED
      BY <3>1
  <2>2. ASSUME NEW i \in 0 .. n - 1, i \in S PROVE i + 1 \in S
    <3>1. i + 1 \in 0 .. n /\ i \in 0 .. 32
      OBVIOUS
    <3>2. Len(D[i].text) = i /\ D[i] \in States
      BY <1>1, <2>2, <3>1
    <3>3. Len(D[i + 1].text) = i + 1
      BY <1>6, <3>2, DividedType
    <3> QED
      BY <3>1, <3>3
  <2> HIDE DEF S
  <2>3. n \in Nat
    OBVIOUS
  <2>4. 0 .. n \subseteq S
    BY <2>1, <2>2, <2>3, BoundedInduction
  <2> QED
    BY <2>4 DEF S
<1>8. D[32] = D[n]
  <2> DEFINE m == 32 - n
             S == {i \in 0 .. m : D[n + i] = D[n]}
  <2>0. m \in Nat /\ n + m = 32
    OBVIOUS
  <2>1. 0 \in S
    BY <2>0
  <2>2. ASSUME NEW i \in 0 .. m - 1, i \in S PROVE i + 1 \in S
    <3>1. i + 1 \in 0 .. m /\ n + i \in 0 .. 31 /\ n + i > 0 /\ (n + i) + 1 = n + (i + 1)
      OBVIOUS
    <3>2. D[n + i] = D[n]
      BY <2>2
    <3>3. D[(n + i) + 1] = D[n]
      BY <1>1, <1>5, <3>1, <3>2
    <3> QED
      BY <3>1, <3>3
  <2>3. 0 .. m \subseteq S
    <3> HIDE DEF S, m
    <3> QED
      BY <2>0, <2>1, <2>2, BoundedInduction
  <2>4. m \in S
    BY <2>0, <2>3
  <2> QED
    BY <2>0, <2>4
<1>9. DecimalText(w) = D[n].text /\ n \in 0 .. n /\ n \in 0 .. 32
  BY <1>3, <1>8
<1>10. Digits(w) = n
  BY <1>7, <1>9 DEF Digits
<1>11. ASSUME NEW i \in 0 .. n PROVE D[i] \in States /\ Len(D[i].text) = i
  <2>1. i \in 0 .. 32
    OBVIOUS
  <2> QED
    BY <1>1, <1>7, <2>1
<1> QED
  BY <1>1, <1>5, <1>6, <1>9, <1>10, <1>11 DEF D

(* The numbers a text denotes are what their definition says.              *)
LEMMA DenotedDefined ==
    ASSUME NEW text \in Seq(DigitRuneSet), NEW radix \in Nat
    PROVE  /\ DenotedUpTo(text, radix)[0] = 0
           /\ \A i \in 0 .. Len(text) - 1 :
                  DenotedUpTo(text, radix)[i + 1] =
                      DenotedUpTo(text, radix)[i] * radix + DigitOf(text[i + 1])
<1> DEFINE K == Len(text)
           Numbered(f) == f = [i \in 0 .. K |->
                                  IF i = 0 THEN 0 ELSE f[i - 1] * radix + DigitOf(text[i])]
           F == [i \in 1 .. K |-> [x \in Nat |-> x * radix + DigitOf(text[i])]]
<1>0. K \in Nat /\ 0 \in Nat
  OBVIOUS
<1>1. ASSUME NEW i \in 1 .. K, NEW x \in Nat PROVE F[i][x] \in Nat
  <2>1. text[i] \in DigitRuneSet
    OBVIOUS
  <2>2. PICK k \in 1 .. 16 : text[i] = DigitRunes[k]
    BY <2>1 DEF DigitRuneSet
  <2>3. k - 1 \in 0 .. 15 /\ (k - 1) + 1 = k
    OBVIOUS
  <2>4. DigitOf(text[i]) \in 0 .. 15
    BY <2>2, <2>3, DigitRead DEF DigitRune
  <2> DEFINE d == DigitOf(text[i])
  <2>5. F[i][x] = x * radix + d
    OBVIOUS
  <2>6. x * radix \in Nat
    BY SMTT(30)
  <2>7. x * radix + d \in Nat
    <3> DEFINE p == x * radix
    <3> HIDE DEF d, p
    <3>1. p \in Nat /\ d \in Nat
      BY <2>4, <2>6 DEF d, p
    <3>2. p + d \in Nat
      BY <3>1
    <3> QED
      BY <3>2 DEF p
  <2> HIDE DEF F, d
  <2> QED
    BY <2>5, <2>7
<1>3. \E f : Numbered(f)
  <2>1. \A i \in 1 .. K : \A x \in Nat : F[i][x] \in Nat
    BY <1>1
  <2>2. PICK f \in [0 .. K -> Nat] : Recursive(f, K, 0, F)
    <3> HIDE DEF F, K
    <3> QED
      BY <1>0, <2>1, Recursion, Zenon
  <2>3. Numbered(f)
    <3>1. ASSUME NEW i \in 0 .. K
          PROVE  f[i] = IF i = 0 THEN 0 ELSE f[i - 1] * radix + DigitOf(text[i])
      <4> HIDE DEF K
      <4>1. CASE i = 0
        BY <2>2, <4>1 DEF Recursive
      <4>2. CASE i # 0
        <5>1. f[i] = F[i][f[i - 1]]
          <6> HIDE DEF F
          <6> QED
            BY <2>2, <4>2 DEF Recursive
        <5>2. i \in 1 .. K /\ f[i - 1] \in Nat
          BY <1>0, <4>2
        <5> QED
          BY <4>2, <5>1, <5>2
      <4> QED
        BY <4>1, <4>2
    <3> HIDE DEF K
    <3> QED
      BY <3>1
  <2> HIDE DEF Numbered
  <2> QED
    BY <2>3
<1>4. Numbered(CHOOSE g : Numbered(g))
  <2> HIDE DEF Numbered
  <2> QED
    BY <1>3, Zenon
<1>5. DenotedUpTo(text, radix) = CHOOSE g : Numbered(g)
  BY Zenon DEF DenotedUpTo
<1>6. Numbered(DenotedUpTo(text, radix))
  <2> HIDE DEF Numbered
  <2> QED
    BY <1>4, <1>5
<1>7. DenotedUpTo(text, radix)[0] = 0
  BY <1>0, <1>6
<1>8. ASSUME NEW i \in 0 .. Len(text) - 1
      PROVE  DenotedUpTo(text, radix)[i + 1] =
                 DenotedUpTo(text, radix)[i] * radix + DigitOf(text[i + 1])
  <2>1. i + 1 \in 0 .. Len(text) /\ i + 1 # 0 /\ (i + 1) - 1 = i
    OBVIOUS
  <2> QED
    BY <1>6, <2>1
<1> QED
  BY <1>7, <1>8

(* The decimal text of a word denotes its number.                          *)
LEMMA DecimalDenotes ==
    ASSUME NEW w \in Word
    PROVE  Denoted(DecimalText(w), 10) = NumberOf(w)
<1> DEFINE D == Divisions(w)
           text == DecimalText(w)
           n == Digits(w)
           N == DenotedUpTo(text, 10)
<1>1. /\ n \in 1 .. 20
      /\ D[n].text = text
      /\ D[n].rest = Zero
      /\ D[0] = [rest |-> w, text |-> <<>>]
      /\ \A i \in 0 .. n - 1 : D[i + 1] = Divided(D[i])
      /\ \A i \in 0 .. n : D[i] \in States /\ Len(D[i].text) = i
  BY DecimalDigits
<1>2. n = Len(text) /\ text \in Seq(DigitRuneSet)
  <2>1. n \in 0 .. n
    BY <1>1
  <2>2. n = Len(text)
    BY DEF Digits
  <2> HIDE DEF n, text, D
  <2> QED
    BY <1>1, <2>1, <2>2 DEF States
<1>3. /\ N[0] = 0
      /\ \A i \in 0 .. n - 1 : N[i + 1] = N[i] * 10 + DigitOf(text[i + 1])
  BY <1>2, DenotedDefined
<1> HIDE DEF D, text, n, N
<1>4. \A i \in 0 .. n : \A j \in 1 .. i :
          D[i].text[j] = DigitRune(DivideBy10(D[i - j].rest).remainder)
  <2> DEFINE S == {i \in 0 .. n : \A j \in 1 .. i :
                      D[i].text[j] = DigitRune(DivideBy10(D[i - j].rest).remainder)}
  <2>1. 0 \in S
    BY <1>1
  <2>2. ASSUME NEW i \in 0 .. n - 1, i \in S PROVE i + 1 \in S
    <3>1. i + 1 \in 0 .. n /\ i \in 0 .. n
      BY <1>1
    <3>2. D[i + 1] = Divided(D[i]) /\ D[i] \in States /\ Len(D[i].text) = i
      BY <1>1, <3>1
    <3>3. ASSUME NEW j \in 1 .. i + 1
          PROVE  D[i + 1].text[j] = DigitRune(DivideBy10(D[(i + 1) - j].rest).remainder)
      <4>1. CASE j = 1
        <5>1. (i + 1) - j = i
          BY <4>1
        <5> QED
          BY <3>2, <4>1, <5>1, DividedType
      <4>2. CASE j # 1
        <5>1. j - 1 \in 1 .. i /\ (j - 1) + 1 = j /\ i - (j - 1) = (i + 1) - j
          BY <4>2
        <5>2. D[i + 1].text[j] = D[i].text[j - 1]
          <6>1. \A k \in 1 .. Len(D[i].text) : Divided(D[i]).text[k + 1] = D[i].text[k]
            BY <3>2, DividedType
          <6>2. Divided(D[i]).text[(j - 1) + 1] = D[i].text[j - 1]
            BY <3>2, <5>1, <6>1
          <6> QED
            BY <3>2, <5>1, <6>2
        <5>3. D[i].text[j - 1] = DigitRune(DivideBy10(D[i - (j - 1)].rest).remainder)
          BY <2>2, <5>1
        <5> QED
          BY <5>1, <5>2, <5>3
      <4> QED
        BY <4>1, <4>2
    <3> QED
      BY <3>1, <3>3
  <2>3. 0 .. n \subseteq S
    <3>1. n \in Nat
      BY <1>1
    <3> HIDE DEF S
    <3> QED
      BY <2>1, <2>2, <3>1, BoundedInduction
  <2> QED
    BY <2>3
<1>5. 0 .. n \subseteq {j \in 0 .. n : N[j] = NumberOf(D[n - j].rest)}
  <2> DEFINE S == {j \in 0 .. n : N[j] = NumberOf(D[n - j].rest)}
  <2>0. n \in Nat
    BY <1>1
  <2>1. 0 \in S
    <3>1. n - 0 = n /\ NumberOf(Zero) = 0
      <4>1. Zero \in Word
        BY DEF Zero, Word
      <4> QED
        BY <2>0, <4>1, NumberZero
    <3> QED
      BY <1>1, <1>3, <2>0, <3>1
  <2>2. ASSUME NEW j \in 0 .. n - 1, j \in S PROVE j + 1 \in S
    <3> DEFINE k == n - (j + 1)
               e == DivideBy10(D[k].rest).remainder
    <3>1. /\ j + 1 \in 0 .. n /\ j + 1 \in 1 .. n /\ k \in 0 .. n - 1 /\ k \in 0 .. n
          /\ k + 1 = n - j /\ n \in 0 .. n
      BY <2>0
    <3>2. text[j + 1] = DigitRune(e)
      BY <1>1, <1>4, <3>1
    <3>3. D[k].rest \in Word
      <4>1. D[k] \in States
        BY <1>1, <3>1
      <4> QED
        BY <4>1 DEF States
    <3>4. e \in 0 .. 9
      BY <3>3, DivideType
    <3>5. DigitOf(text[j + 1]) = e
      <4>1. e \in 0 .. 15
        BY <3>4
      <4> HIDE DEF e
      <4> QED
        BY <3>2, <4>1, DigitRead
    <3>6. D[n - j].rest = DivideBy10(D[k].rest).quotient
      <4>1. D[n - j] = Divided(D[k])
        <5>1. D[k + 1] = Divided(D[k])
          <6> HIDE DEF k
          <6> QED
            BY <1>1, <3>1
        <5> QED
          BY <3>1, <5>1
      <4> QED
        BY <4>1 DEF Divided
    <3>7. NumberOf(D[k].rest) = 10 * NumberOf(D[n - j].rest) + e
      BY <3>3, <3>6, DivideNumber
    <3>8. N[j + 1] = N[j] * 10 + e /\ N[j] = NumberOf(D[n - j].rest)
      BY <1>3, <2>2, <3>5
    <3>9. NumberOf(D[n - j].rest) \in Nat
      <4>1. D[n - j].rest \in Word
        BY <3>3, <3>6, DivideType
      <4>2. Nybbles \in 0 .. Nybbles
        BY NybblesAssumption
      <4> QED
        BY <4>1, <4>2, NumbersDefined DEF NumberOf
    <3>10. N[j + 1] = NumberOf(D[k].rest)
      <4> DEFINE a == NumberOf(D[n - j].rest)
                 b == NumberOf(D[k].rest)
      <4>1. a \in Nat /\ b = 10 * a + e /\ N[j + 1] = a * 10 + e
        BY <3>7, <3>8, <3>9
      <4> HIDE DEF a, b, e
      <4>2. e \in Int
        BY <3>4
      <4>3. N[j + 1] = b
        BY <4>1, <4>2
      <4> QED
        BY <4>3 DEF b
    <3> HIDE DEF e
    <3> QED
      BY <3>1, <3>10
  <2> HIDE DEF S
  <2>3. 0 .. n \subseteq S
    BY <2>0, <2>1, <2>2, BoundedInduction
  <2> QED
    BY <2>3 DEF S
<1>6. N[n] = NumberOf(w)
  <2>1. n \in 0 .. n /\ n - n = 0
    BY <1>1
  <2>2. N[n] = NumberOf(D[n - n].rest)
    BY <1>5, <2>1
  <2> QED
    BY <1>1, <2>1, <2>2
<1> QED
  BY <1>2, <1>6 DEF Denoted, N, text, n

(* The nybbles a word needs: no zero leads them but that of 0 itself.      *)
LEMMA SignificantDefined ==
    ASSUME NEW w \in Word
    PROVE  /\ SignificantNybbles(w) \in 1 .. 16
           /\ SignificantNybbles(w) = 1 \/ w[17 - SignificantNybbles(w)] # 0
           /\ \A j \in 1 .. 16 - SignificantNybbles(w) : w[j] = 0
<1> DEFINE Needs(n) == /\ n = 1 \/ w[Nybbles - n + 1] # 0
                       /\ \A i \in n + 1 .. Nybbles : w[Nybbles - i + 1] = 0
           S == {k \in 0 .. 15 : \A j \in 1 .. k : w[j] = 0}
<1>0. Nybbles = 16
  BY MachineAssumption
<1>1. \E n \in 1 .. 16 : Needs(n)
  <2> SUFFICES ASSUME ~ \E n \in 1 .. 16 : Needs(n) PROVE FALSE
    OBVIOUS
  <2>1. ASSUME NEW k \in 0 .. 15, k \in S PROVE k # 15 /\ w[k + 1] = 0
    <3>1. 16 - k \in 1 .. 16 /\ 16 - (16 - k) + 1 = k + 1
      OBVIOUS
    <3>2. \A i \in (16 - k) + 1 .. 16 : w[16 - i + 1] = 0
      <4> SUFFICES ASSUME NEW i \in (16 - k) + 1 .. 16 PROVE w[16 - i + 1] = 0
        OBVIOUS
      <4>1. 16 - i + 1 \in 1 .. k
        OBVIOUS
      <4> QED
        BY <2>1, <4>1
    <3>3. ~ Needs(16 - k)
      BY <3>1
    <3>4. ~ (16 - k = 1 \/ w[16 - (16 - k) + 1] # 0)
      BY <1>0, <3>2, <3>3
    <3> QED
      BY <3>1, <3>4
  <2> HIDE DEF Needs
  <2>2. 0 \in S
    OBVIOUS
  <2>3. ASSUME NEW k \in 0 .. 15 - 1, k \in S PROVE k + 1 \in S
    <3>1. w[k + 1] = 0 /\ k + 1 \in 0 .. 15
      BY <2>1, <2>3
    <3>2. \A j \in 1 .. k + 1 : j \in 1 .. k \/ j = k + 1
      OBVIOUS
    <3> QED
      BY <2>3, <3>1, <3>2
  <2>4. 0 .. 15 \subseteq S
    <3> HIDE DEF S
    <3> QED
      BY <2>2, <2>3, BoundedInduction
  <2> QED
    BY <2>1, <2>4
<1>2. SignificantNybbles(w) \in 1 .. 16 /\ Needs(SignificantNybbles(w))
  <2>1. SignificantNybbles(w) = CHOOSE n \in 1 .. 16 : Needs(n)
    BY <1>0 DEF SignificantNybbles
  <2> HIDE DEF Needs
  <2> QED
    BY <1>1, <2>1
<1> DEFINE n == SignificantNybbles(w)
<1>3. n = 1 \/ w[17 - n] # 0
  <2>1. 16 - n + 1 = 17 - n
    BY <1>2
  <2> QED
    BY <1>0, <1>2, <2>1
<1>4. ASSUME NEW j \in 1 .. 16 - n PROVE w[j] = 0
  <2>1. 17 - j \in n + 1 .. 16 /\ 16 - (17 - j) + 1 = j
    BY <1>2
  <2> QED
    BY <1>0, <1>2, <2>1
<1> QED
  BY <1>2, <1>3, <1>4

(* The digits of a hexadecimal text, and the nybbles that it leaves out.   *)
LEMMA HexDefined ==
    ASSUME NEW w \in Word, NEW length \in 0 .. 16
    PROVE  LET n == Len(HexText(w, length))
           IN  /\ n \in 1 .. 16
               /\ n >= length
               /\ n = length \/ n = 1 \/ w[17 - n] # 0
               /\ \A j \in 1 .. 16 - n : w[j] = 0
               /\ HexText(w, length) \in Seq(DigitRuneSet)
               /\ \A i \in 1 .. n : HexText(w, length)[i] = DigitRune(w[16 - n + i])
<1> DEFINE s == SignificantNybbles(w)
           n == IF s < length THEN length ELSE s
           t == [i \in 1 .. n |-> DigitRune(w[16 - n + i])]
<1>0. Nybbles = 16
  BY MachineAssumption
<1>1. /\ s \in 1 .. 16
      /\ s = 1 \/ w[17 - s] # 0
      /\ \A j \in 1 .. 16 - s : w[j] = 0
  BY SignificantDefined
<1>2. HexText(w, length) = t
  BY <1>0 DEF HexText, HexDigits
<1> HIDE DEF s
<1>3. n \in 1 .. 16 /\ n >= length /\ s <= n
  BY <1>1
<1>4. n = length \/ n = 1 \/ w[17 - n] # 0
  BY <1>1
<1>5. \A j \in 1 .. 16 - n : w[j] = 0
  <2> SUFFICES ASSUME NEW j \in 1 .. 16 - n PROVE w[j] = 0
    OBVIOUS
  <2>1. j \in 1 .. 16 - s
    BY <1>1, <1>3
  <2> QED
    BY <1>1, <2>1
<1> HIDE DEF n
<1>6. t \in Seq(DigitRuneSet) /\ Len(t) = n
  <2>1. ASSUME NEW i \in 1 .. n PROVE DigitRune(w[16 - n + i]) \in DigitRuneSet
    <3>1. 16 - n + i \in 1 .. 16
      BY <1>3
    <3>2. w[16 - n + i] \in 0 .. 15
      BY <1>0, <3>1 DEF Word
    <3> QED
      BY <3>2, DigitRead
  <2>2. t \in [1 .. n -> DigitRuneSet]
    BY <2>1
  <2>3. n \in Nat
    BY <1>3
  <2> HIDE DEF t
  <2> QED
    BY <2>2, <2>3
<1>7. \A i \in 1 .. n : t[i] = DigitRune(w[16 - n + i])
  OBVIOUS
<1> HIDE DEF t
<1> QED
  BY <1>2, <1>3, <1>4, <1>5, <1>6, <1>7

(* The hexadecimal text of a word denotes its number.                      *)
LEMMA HexDenotes ==
    ASSUME NEW w \in Word, NEW length \in 0 .. 16
    PROVE  Denoted(HexText(w, length), 16) = NumberOf(w)
<1> DEFINE text == HexText(w, length)
           n == Len(text)
           N == DenotedUpTo(text, 16)
           S == {i \in 0 .. n : N[i] = Numbers(w)[16 - n + i]}
<1>0. Nybbles = 16
  BY MachineAssumption
<1>1. /\ n \in 1 .. 16
      /\ \A j \in 1 .. 16 - n : w[j] = 0
      /\ text \in Seq(DigitRuneSet)
      /\ \A i \in 1 .. n : text[i] = DigitRune(w[16 - n + i])
  BY HexDefined
<1>2. N[0] = 0 /\ \A i \in 0 .. n - 1 : N[i + 1] = N[i] * 16 + DigitOf(text[i + 1])
  BY <1>1, DenotedDefined
<1>3. /\ \A i \in 0 .. 15 : Numbers(w)[i + 1] = Numbers(w)[i] * 16 + w[i + 1]
      /\ \A i \in 0 .. 16 : Numbers(w)[i] = 0 <=> \A j \in 1 .. i : w[j] = 0
  BY <1>0, NumbersDefined, NumberZero
<1> HIDE DEF text, n, N
<1>4. 0 \in S
  <2>1. 16 - n \in 0 .. 16 /\ 16 - n + 0 = 16 - n /\ 0 \in 0 .. n
    BY <1>1
  <2> QED
    BY <1>1, <1>2, <1>3, <2>1
<1>5. ASSUME NEW i \in 0 .. n - 1, i \in S PROVE i + 1 \in S
  <2> DEFINE k == 16 - n + i
  <2>1. /\ i + 1 \in 0 .. n /\ i + 1 \in 1 .. n /\ k \in 0 .. 15 /\ k + 1 \in 1 .. 16
        /\ 16 - n + (i + 1) = k + 1
    BY <1>1
  <2> HIDE DEF k
  <2>2. w[k + 1] \in 0 .. 15
    BY <1>0, <2>1 DEF Word
  <2>3. text[i + 1] = DigitRune(w[k + 1])
    BY <1>1, <2>1
  <2>4. N[i + 1] = N[i] * 16 + w[k + 1]
    BY <1>2, <2>2, <2>3, DigitRead
  <2>5. N[i] = Numbers(w)[k]
    BY <1>5 DEF k
  <2> QED
    BY <1>3, <2>1, <2>4, <2>5
<1>6. n \in S
  <2>1. n \in Nat
    BY <1>1
  <2>2. 0 .. n \subseteq S
    <3> HIDE DEF S
    <3> QED
      BY <1>4, <1>5, <2>1, BoundedInduction
  <2> QED
    BY <2>1, <2>2
<1>7. 16 - n + n = 16
  BY <1>1
<1> QED
  BY <1>0, <1>6, <1>7 DEF Denoted, NumberOf, N, text, n

(* No zero leads a text but that of 0, or those asked for.                 *)
LEMMA DecimalLeads ==
    ASSUME NEW w \in Word, w # Zero
    PROVE  DecimalText(w)[1] # "0"
<1> DEFINE D == Divisions(w)
           n == Digits(w)
           x == D[n - 1].rest
           d == DivideBy10(x).remainder
<1>1. /\ n \in 1 .. 20
      /\ D[n].text = DecimalText(w)
      /\ D[n].rest = Zero
      /\ D[0] = [rest |-> w, text |-> <<>>]
      /\ \A i \in 0 .. n - 1 : D[i + 1] = Divided(D[i])
      /\ \A i \in 1 .. n - 1 : D[i].rest # Zero
      /\ \A i \in 0 .. n : D[i] \in States /\ Len(D[i].text) = i
  BY DecimalDigits
<1> HIDE DEF D, n
<1>2. n - 1 \in 0 .. n - 1 /\ n - 1 \in 0 .. n /\ (n - 1) + 1 = n /\ (n # 1 => n - 1 \in 1 .. n - 1)
  BY <1>1
<1>3. x \in Word /\ x # Zero
  <2>1. D[n - 1] \in States
    BY <1>1, <1>2
  <2>2. n = 1 => x = w
    BY <1>1
  <2>3. n # 1 => x # Zero
    BY <1>1, <1>2
  <2> QED
    BY <2>1, <2>2, <2>3 DEF States
<1>4. D[n] = Divided(D[n - 1])
  <2>1. D[(n - 1) + 1] = Divided(D[n - 1])
    BY <1>1, <1>2
  <2> QED
    BY <1>2, <2>1
<1>5. DivideBy10(x).quotient = Zero
  BY <1>1, <1>4 DEF Divided
<1>6. DecimalText(w)[1] = DigitRune(d)
  <2>1. D[n - 1] \in States
    BY <1>1, <1>2
  <2>2. Divided(D[n - 1]).text[1] = DigitRune(d)
    BY <2>1, DividedType
  <2> QED
    BY <1>1, <1>4, <2>2
<1>7. d # 0
  <2>1. NumberOf(x) = 10 * NumberOf(Zero) + d
    BY <1>3, <1>5, DivideNumber
  <2>2. NumberOf(Zero) = 0 /\ NumberOf(x) # 0
    <3>1. Zero \in Word
      BY DEF Zero, Word
    <3> QED
      BY <1>3, <3>1, NumberZero
  <2> HIDE DEF d, x
  <2> QED
    BY <2>1, <2>2
<1>8. d \in 0 .. 9
  BY <1>3, DivideType
<1> HIDE DEF d
<1>9. DigitRune(d) # "0"
  BY <1>7, <1>8 DEF DigitRune, DigitRunes
<1> QED
  BY <1>6, <1>9

(* A hexadecimal text longer than was asked for has no zero in front.      *)
LEMMA HexLeads ==
    ASSUME NEW w \in Word, NEW length \in 0 .. 16, Len(HexText(w, length)) > length, w # Zero
    PROVE  HexText(w, length)[1] # "0"
<1> DEFINE t == HexText(w, length)
           n == Len(t)
<1>0. Nybbles = 16
  BY MachineAssumption
<1>1. /\ n \in 1 .. 16
      /\ n = length \/ n = 1 \/ w[17 - n] # 0
      /\ \A j \in 1 .. 16 - n : w[j] = 0
      /\ \A i \in 1 .. n : t[i] = DigitRune(w[16 - n + i])
  BY HexDefined
<1>2. n > length
  OBVIOUS
<1> HIDE DEF t, n
<1>3. w[17 - n] # 0
  <2>1. CASE n = 1
    <3> SUFFICES ASSUME w[17 - n] = 0 PROVE FALSE
      OBVIOUS
    <3>1. \A j \in 1 .. 16 : w[j] = 0
      <4>1. \A j \in 1 .. 16 : j \in 1 .. 16 - n \/ j = 17 - n
        BY <2>1
      <4> QED
        BY <1>1, <4>1
    <3>2. w = Zero
      BY <1>0, <3>1 DEF Word, Zero
    <3> QED
      BY <3>2
  <2>2. CASE n # 1
    BY <1>1, <1>2, <2>2
  <2> QED
    BY <2>1, <2>2
<1>4. t[1] = DigitRune(w[17 - n])
  <2>1. 1 \in 1 .. n /\ 16 - n + 1 = 17 - n
    BY <1>1
  <2> QED
    BY <1>1, <2>1
<1>5. w[17 - n] \in 0 .. 15
  <2>1. 17 - n \in 1 .. 16
    BY <1>1
  <2> QED
    BY <1>0, <2>1 DEF Word
<1>6. DigitRune(w[17 - n]) # "0"
  <2> DEFINE d == w[17 - n]
  <2> HIDE DEF d
  <2>1. d \in 0 .. 15 /\ d # 0
    BY <1>3, <1>5 DEF d
  <2>2. DigitRune(d) # "0"
    BY <2>1 DEF DigitRune, DigitRunes
  <2> QED
    BY <2>2 DEF d
<1> QED
  BY <1>4, <1>6 DEF t

-----------------------------------------------------------------------------
(* The calls the runs are about: a padding of at most a word, and a cell   *)
(* for the sign of a negative number.                                      *)
CallOK ==
    /\ request.length <= Nybbles
    /\ request.function = "signed" /\ IsNegative(request.value) => request.size > 0

Untouched == \A i \in DOMAIN string : string[i] = Blank

(* The call and the buffer it was given.                                   *)
CallInv ==
    /\ request \in Requests
    /\ pc \in {"signed", "decimal", "hex", "digits", "strip", "nybbles", "returned"}
    /\ pc \in {"hex", "strip", "nybbles"} => request.function = "hex"
    /\ pc = "signed" => request.function = "signed"
    /\ pc \in {"decimal", "digits"} => request.function # "hex"
    /\ v \in Word /\ bi \in Nat /\ swaps \in Nat /\ turns \in Nat /\ unshifted \in Nat
    /\ base \in {0, 1}
    /\ request.function = "hex" \/ pc = "signed" => base = 0
    /\ base = 1 => request.function = "signed" /\ IsNegative(request.value)
    /\ size = request.size - base
    /\ DOMAIN string = 0 .. request.size - 1

(* Nothing has been done yet.                                              *)
StartInv ==
    pc \in {"signed", "decimal", "hex"} =>
        /\ v = request.value
        /\ bi = 0 /\ swaps = 0 /\ turns = 0 /\ unshifted = Nybbles
        /\ error = "none"
        /\ Untouched

(* The cells of the digits: those that have been swapped at both ends, and *)
(* the others in the order they were found in.                             *)
DigitsInv ==
    pc = "digits" =>
        /\ request.value # Zero /\ size >= LongestDecimal /\ error = "none"
        /\ bi <= Digits(request.value)
        /\ v = Divisions(request.value)[bi].rest
        /\ swaps <= bi \div 2
        /\ swaps = 0 \/ v = Zero
        /\ \A j \in 0 .. bi - 1 :
               string[base + j] = Divisions(request.value)[bi].text[
                   IF j < swaps \/ j >= bi - swaps THEN j + 1 ELSE bi - j]

(* The word, shifted left by the zeros stripped and the nybbles put.       *)
Shifted(w, n) == [i \in 1 .. Nybbles |-> IF i + n <= Nybbles THEN w[i + n] ELSE 0]

HexInv ==
    pc \in {"strip", "nybbles"} =>
        /\ request.value # Zero \/ request.length # 0
        /\ size >= LongestHex /\ error = "none"
        /\ turns <= Nybbles - request.length
        /\ \A j \in 1 .. turns : request.value[j] = 0
        /\ v = Shifted(request.value, turns + bi)
        /\ unshifted = Nybbles - turns - bi
        /\ pc = "strip" => bi = 0
        /\ pc = "nybbles" =>
               /\ Nybbles - turns = Len(HexText(request.value, request.length))
               /\ \A j \in 0 .. bi - 1 :
                      string[j] = HexText(request.value, request.length)[j + 1]

(* What the caller finds when the call is over.                            *)
ReturnInv ==
    Returned =>
        /\ error \in {"NoError", "ErrorBufferTooSmall"}
        /\ error = "ErrorBufferTooSmall" => Untouched
        /\ error = "NoError" =>
               /\ \A i \in 1 .. Len(ExpectedText) : string[base + i - 1] = ExpectedText[i]
               /\ string[base + Len(ExpectedText)] = NUL

ConversionInv ==
    CallOK => CallInv /\ StartInv /\ DigitsInv /\ HexInv /\ ReturnInv

-----------------------------------------------------------------------------
(* What every step needs of the call and of its constants.                 *)
LEMMA CallFacts ==
    ASSUME CallOK, CallInv
    PROVE  /\ Nybbles = 16
           /\ request.value \in Word
           /\ request.length \in 0 .. 16
           /\ request.size \in 0 .. Modulus - 1
           /\ Modulus \in Nat /\ Modulus > 16
           /\ request.function \in {"hex", "decimal", "signed"}
           /\ size \in Int
<1>1. Nybbles = 16 /\ Modulus \in Nat /\ Modulus > 16
  BY MachineAssumption
<1>2. request \in [function : {"hex", "decimal", "signed"}, value : Word,
                   length : 0 .. Modulus - 1, size : 0 .. Modulus - 1]
  BY RequestsAssumption DEF CallInv
<1>3. request.length \in 0 .. Modulus - 1 /\ request.length <= 16
  BY <1>1, <1>2 DEF CallOK
<1>4. request.length \in 0 .. 16
  BY <1>1, <1>3
<1>5. size = request.size - base /\ base \in {0, 1}
  BY DEF CallInv
<1>6. request.size \in Int
  BY <1>1, <1>2
<1> QED
  BY <1>1, <1>2, <1>4, <1>5, <1>6

(* A shifted word, and the next one.                                       *)
LEMMA ShiftedDefined ==
    ASSUME NEW w \in Word, NEW n \in Nat
    PROVE  /\ Shifted(w, 0) = w
           /\ Shifted(w, n) \in Word
           /\ Shifted(w, n)[1] = IF n < 16 THEN w[n + 1] ELSE 0
           /\ ShiftedLeft(Shifted(w, n)) = Shifted(w, n + 1)
<1>0. Nybbles = 16
  BY MachineAssumption
<1>1. \A i \in 1 .. 16 : w[i] \in 0 .. 15
  BY <1>0 DEF Word
<1>2. Shifted(w, 0) = w
  <2>1. Shifted(w, 0) = [i \in 1 .. 16 |-> w[i]]
    <3>1. \A i \in 1 .. 16 : i + 0 = i /\ i <= 16
      OBVIOUS
    <3> QED
      BY <1>0, <3>1 DEF Shifted
  <2> QED
    BY <1>0, <2>1 DEF Word
<1>3. Shifted(w, n) \in Word
  <2>1. ASSUME NEW i \in 1 .. 16 PROVE (IF i + n <= 16 THEN w[i + n] ELSE 0) \in 0 .. 15
    <3>1. i + n <= 16 => i + n \in 1 .. 16
      OBVIOUS
    <3> QED
      BY <1>1, <3>1
  <2> QED
    BY <1>0, <2>1 DEF Shifted, Word
<1>4. Shifted(w, n)[1] = IF n < 16 THEN w[n + 1] ELSE 0
  <2>1. 1 \in 1 .. 16 /\ (1 + n <= 16 <=> n < 16) /\ 1 + n = n + 1
    OBVIOUS
  <2> QED
    BY <1>0, <2>1 DEF Shifted
<1>5. ShiftedLeft(Shifted(w, n)) = Shifted(w, n + 1)
  <2>1. ASSUME NEW i \in 1 .. 16
        PROVE  (IF i = 16 THEN 0 ELSE Shifted(w, n)[i + 1]) = Shifted(w, n + 1)[i]
    <3>1. CASE i = 16
      <4>1. ~ (i + (n + 1) <= 16)
        BY <3>1
      <4> QED
        BY <1>0, <3>1, <4>1 DEF Shifted
    <3>2. CASE i # 16
      <4>1. i + 1 \in 1 .. 16 /\ (i + 1) + n = i + (n + 1)
        BY <3>2
      <4> QED
        BY <1>0, <3>2, <4>1 DEF Shifted
    <3> QED
      BY <3>1, <3>2
  <2>2. Shifted(w, n + 1) = [i \in 1 .. 16 |-> Shifted(w, n + 1)[i]]
    BY <1>0 DEF Shifted
  <2>3. ShiftedLeft(Shifted(w, n)) = [i \in 1 .. 16 |-> IF i = 16 THEN 0 ELSE Shifted(w, n)[i + 1]]
    BY <1>0 DEF ShiftedLeft
  <2> HIDE DEF Shifted
  <2> QED
    BY <2>1, <2>2, <2>3
<1> QED
  BY <1>2, <1>3, <1>4, <1>5

(* The text of a zero.                                                     *)
LEMMA ZeroTexts ==
    DecimalText(Zero) = <<"0">> /\ HexText(Zero, 0) = <<"0">>
<1>0. Nybbles = 16 /\ Zero \in Word /\ DigitRune(0) = "0"
  BY MachineAssumption DEF Zero, Word, DigitRune, DigitRunes
<1>1. DecimalText(Zero) = <<"0">>
  <2> DEFINE q == DivideBy10(Zero).quotient
             r == DivideBy10(Zero).remainder
             D == Divisions(Zero)
             n == Digits(Zero)
  <2>1. q = Zero /\ r = 0
    <3>1. q \in Word /\ r \in 0 .. 9
      BY <1>0, DivideType
    <3>2. NumberOf(Zero) = 10 * NumberOf(q) + r /\ NumberOf(Zero) = 0
      BY <1>0, DivideNumber, NumberZero
    <3>3. 16 \in 0 .. 16
      OBVIOUS
    <3>4. NumberOf(q) \in Nat
      BY <1>0, <3>1, <3>3, NumbersDefined DEF NumberOf
    <3> HIDE DEF q, r
    <3>5. NumberOf(q) = 0 /\ r = 0
      BY <3>1, <3>2, <3>4
    <3> QED
      BY <3>1, <3>5, NumberZero
  <2>2. /\ n \in 1 .. 20
        /\ D[n].text = DecimalText(Zero)
        /\ D[0] = [rest |-> Zero, text |-> <<>>]
        /\ \A i \in 0 .. n - 1 : D[i + 1] = Divided(D[i])
        /\ \A i \in 1 .. n - 1 : D[i].rest # Zero
    BY <1>0, DecimalDigits
  <2> HIDE DEF D, n, q, r
  <2>3. D[1] = Divided(D[0])
    <3>1. 0 \in 0 .. n - 1 /\ 0 + 1 = 1
      BY <2>2
    <3> QED
      BY <2>2, <3>1
  <2>4. D[0].rest = Zero /\ D[0].text = <<>>
    BY <2>2
  <2>5. D[1].rest = Zero /\ D[1].text = <<"0">> \o <<>>
    <3>1. DivideBy10(Zero).quotient = Zero /\ DivideBy10(Zero).remainder = 0
      BY <2>1 DEF q, r
    <3> QED
      BY <1>0, <2>3, <2>4, <3>1 DEF Divided
  <2>6. n = 1
    BY <2>2, <2>5
  <2>7. <<"0">> \o <<>> = <<"0">>
    OBVIOUS
  <2> QED
    BY <2>2, <2>5, <2>6, <2>7
<1>2. HexText(Zero, 0) = <<"0">>
  <2> DEFINE t == HexText(Zero, 0)
             n == Len(t)
  <2>1. /\ n \in 1 .. 16
        /\ n = 0 \/ n = 1 \/ Zero[17 - n] # 0
        /\ t \in Seq(DigitRuneSet)
        /\ \A i \in 1 .. n : t[i] = DigitRune(Zero[16 - n + i])
    <3>1. 0 \in 0 .. 16
      OBVIOUS
    <3> QED
      BY <1>0, <3>1, HexDefined
  <2>2. \A i \in 1 .. 16 : Zero[i] = 0
    BY <1>0 DEF Zero
  <2> HIDE DEF t
  <2>3. n = 1
    <3> HIDE DEF n
    <3>0. n \in 1 .. 16 /\ (n = 0 \/ n = 1 \/ Zero[17 - n] # 0)
      BY <2>1
    <3>1. 17 - n \in 1 .. 16
      BY <3>0
    <3> QED
      BY <2>2, <3>0, <3>1
  <2>4. t[1] = "0"
    <3>1. 16 - 1 + 1 = 16 /\ 1 \in 1 .. 1 /\ 16 \in 1 .. 16
      OBVIOUS
    <3>2. t[1] = DigitRune(Zero[16 - 1 + 1])
      BY <2>1, <2>3, <3>1
    <3> QED
      BY <1>0, <2>2, <3>1, <3>2
  <2>5. t = <<"0">>
    BY <2>1, <2>3, <2>4
  <2> QED
    BY <2>5 DEF t
<1> QED
  BY <1>1, <1>2

Inv == CallInv /\ StartInv /\ DigitsInv /\ HexInv /\ ReturnInv

(* A conversion starts in Inv, and each of its actions keeps it.           *)
LEMMA InitStep ==
    ASSUME CallOK, Init
    PROVE  Inv
<1>1. Nybbles = 16 /\ Modulus \in Nat /\ Modulus > 16
  BY MachineAssumption
<1>2. request \in [function : {"hex", "decimal", "signed"}, value : Word,
                   length : 0 .. Modulus - 1, size : 0 .. Modulus - 1]
  BY RequestsAssumption DEF Init
<1>3. CallInv
  <2>1. request.value \in Word /\ request.function \in {"hex", "decimal", "signed"}
        /\ request.size \in Int
    BY <1>1, <1>2
  <2>2. size = request.size - base
    BY <2>1 DEF Init
  <2>3. DOMAIN string = 0 .. request.size - 1
    BY DEF Init
  <2> QED
    BY <1>1, <2>1, <2>2, <2>3 DEF Init, CallInv
<1>4. pc \in {"hex", "decimal", "signed"}
  BY <1>2 DEF Init
<1>5. StartInv
  BY DEF Init, StartInv, Untouched
<1> QED
  BY <1>3, <1>4, <1>5 DEF Inv, DigitsInv, HexInv, ReturnInv, Returned

(* A signed number without its sign is converted like any other.           *)
LEMMA NotNegativeStep ==
    ASSUME CallOK, Inv, NotNegative
    PROVE  Inv'
<1>1. CallInv'
  BY DEF Inv, CallInv, NotNegative
<1>2. StartInv'
  BY DEF Inv, StartInv, Untouched, NotNegative
<1>3. pc' = "decimal"
  BY DEF NotNegative
<1> QED
  BY <1>1, <1>2, <1>3 DEF Inv, DigitsInv, HexInv, ReturnInv, Returned

(* The minus moves the buffer by a rune, which its size makes up for.      *)
LEMMA NegativeStep ==
    ASSUME CallOK, Inv, Negative
    PROVE  Inv'
<1>0. /\ request.size \in 0 .. Modulus - 1 /\ Modulus \in Nat /\ Modulus > 16
      /\ request.function \in {"hex", "decimal", "signed"}
  BY CallFacts DEF Inv
<1>1. request.function = "signed" /\ IsNegative(request.value)
  <2>1. v = request.value
    BY DEF Inv, StartInv, Negative
  <2>2. request.function = "signed"
    BY DEF Inv, CallInv, Negative
  <2> QED
    BY <2>1, <2>2 DEF Negative
<1>2. size' = request.size - 1
  <2>1. size = request.size
    <3>1. base = 0 /\ size = request.size - base
      BY DEF Inv, CallInv, Negative
    <3> QED
      BY <1>0, <3>1
  <2>2. request.size > 0
    BY <1>1 DEF CallOK
  <2>3. (request.size - 1) % Modulus = request.size - 1
    <3>1. request.size - 1 \in 0 .. Modulus - 1
      BY <1>0, <2>2
    <3> QED
      BY <1>0, <3>1
  <2> QED
    BY <2>1, <2>3 DEF Negative
<1>3. CallInv'
  BY <1>1, <1>2 DEF Inv, CallInv, Negative
<1>4. StartInv'
  BY DEF Inv, StartInv, Untouched, Negative
<1>5. pc' = "decimal"
  BY DEF Negative
<1> QED
  BY <1>3, <1>4, <1>5 DEF Inv, DigitsInv, HexInv, ReturnInv, Returned

(* A refused call has written nothing.                                     *)
LEMMA RefuseStep ==
    ASSUME CallOK, Inv, RefuseDecimal \/ RefuseHex
    PROVE  Inv'
<1>1. CallInv'
  BY DEF Inv, CallInv, RefuseDecimal, RefuseHex, Return
<1>2. pc' = "returned" /\ error' = "ErrorBufferTooSmall"
  BY DEF RefuseDecimal, RefuseHex, Return
<1>3. Untouched'
  BY DEF Inv, StartInv, Untouched, RefuseDecimal, RefuseHex
<1> QED
  BY <1>1, <1>2, <1>3 DEF Inv, StartInv, DigitsInv, HexInv, ReturnInv, Returned

(* A buffer that holds the text of the call, at the cell it was given, is  *)
(* what a call returns.                                                    *)
LEMMA ReturnStep ==
    ASSUME CallOK, CallInv', Return("NoError"), base' = base, request' = request,
           \A i \in 1 .. Len(ExpectedText) : string'[base + i - 1] = ExpectedText[i],
           string'[base + Len(ExpectedText)] = NUL
    PROVE  Inv'
<1>1. ExpectedText' = ExpectedText
  BY DEF ExpectedText
<1>2. pc' = "returned" /\ error' = "NoError"
  BY DEF Return
<1>3. ReturnInv'
  BY <1>1, <1>2 DEF ReturnInv, Returned
<1> QED
  BY <1>2, <1>3 DEF Inv, StartInv, DigitsInv, HexInv

(* Signed writes nothing from base on.                                     *)
LEMMA SignedDefined ==
    ASSUME CallOK, CallInv, request.size > 0, NEW s, DOMAIN s = DOMAIN string
    PROVE  /\ DOMAIN Signed(s) = DOMAIN string
           /\ \A j \in DOMAIN string : j >= base => Signed(s)[j] = s[j]
<1>1. DOMAIN string = 0 .. request.size - 1 /\ base \in {0, 1} /\ request.size \in Int
  BY CallFacts DEF CallInv
<1>2. CASE base = 1
  <2>1. Signed(s) = Write(s, 0, "-")
    BY <1>2 DEF Signed
  <2>2. 0 \in DOMAIN string
    BY <1>1
  <2>3. \A j \in DOMAIN string : j >= base => j # 0
    BY <1>1, <1>2
  <2>4. /\ DOMAIN Write(s, 0, "-") = DOMAIN s \cup {0}
        /\ \A j \in DOMAIN s : j # 0 => Write(s, 0, "-")[j] = s[j]
    BY DEF Write
  <2>5. \A j \in DOMAIN string : j >= base => Write(s, 0, "-")[j] = s[j]
    BY <2>3, <2>4
  <2> QED
    BY <2>1, <2>2, <2>4, <2>5
<1>3. CASE base # 1
  BY <1>3 DEF Signed
<1> QED
  BY <1>2, <1>3

(* Zero is its own digit.                                                  *)
LEMMA ZeroDecimalStep ==
    ASSUME CallOK, Inv, ZeroDecimal
    PROVE  Inv'
<1> DEFINE s == Write(Write(string, base, "0"), base + 1, NUL)
<1>0. /\ request.size \in Int /\ base \in {0, 1} /\ size = request.size - base
      /\ DOMAIN string = 0 .. request.size - 1 /\ size >= 21
  BY CallFacts DEF Inv, CallInv, ZeroDecimal, LongestDecimal
<1>1. base \in DOMAIN string /\ base + 1 \in DOMAIN string /\ base # base + 1 /\ request.size > 0
  BY <1>0
<1>2. DOMAIN s = DOMAIN string /\ s[base] = "0" /\ s[base + 1] = NUL
  <2> DEFINE r == Write(string, base, "0")
  <2>1. DOMAIN r = DOMAIN string \cup {base} /\ r[base] = "0"
    BY DEF Write
  <2>2. s = Write(r, base + 1, NUL)
    OBVIOUS
  <2> HIDE DEF r, s
  <2>3. /\ DOMAIN s = DOMAIN r \cup {base + 1} /\ s[base + 1] = NUL
        /\ \A j \in DOMAIN r : j # base + 1 => s[j] = r[j]
    BY <2>2 DEF Write
  <2>4. DOMAIN s = DOMAIN string
    BY <1>1, <2>1, <2>3
  <2> QED
    BY <1>1, <2>1, <2>3, <2>4
<1>3. string' = Signed(s)
  BY DEF ZeroDecimal
<1> HIDE DEF s
<1>4. DOMAIN string' = DOMAIN string /\ string'[base] = "0" /\ string'[base + 1] = NUL
  <2>1. base >= base /\ base + 1 >= base
    BY <1>0
  <2>2. DOMAIN Signed(s) = DOMAIN string /\ \A j \in DOMAIN string : j >= base => Signed(s)[j] = s[j]
    BY <1>1, <1>2, SignedDefined DEF Inv
  <2> QED
    BY <1>1, <1>2, <1>3, <2>1, <2>2
<1>5. ExpectedText = <<"0">>
  <2>1. request.value = Zero /\ request.function # "hex"
    BY DEF Inv, CallInv, StartInv, ZeroDecimal
  <2> QED
    BY <2>1, ZeroTexts DEF ExpectedText
<1>6. CallInv'
  BY <1>4 DEF Inv, CallInv, ZeroDecimal, Return
<1>7. \A i \in 1 .. Len(ExpectedText) : string'[base + i - 1] = ExpectedText[i]
  <2>1. Len(ExpectedText) = 1 /\ ExpectedText[1] = "0" /\ base + 1 - 1 = base
    BY <1>0, <1>5
  <2> QED
    BY <1>4, <2>1
<1>8. string'[base + Len(ExpectedText)] = NUL
  BY <1>4, <1>5
<1>9. Return("NoError") /\ base' = base /\ request' = request
  BY DEF ZeroDecimal
<1> QED
  BY <1>6, <1>7, <1>8, <1>9, ReturnStep

(* The size accepted has room for the twenty digits and the NUL.           *)
LEMMA StartDecimalStep ==
    ASSUME CallOK, Inv, StartDecimal
    PROVE  Inv'
<1>1. CallInv'
  BY DEF Inv, CallInv, StartDecimal
<1>2. pc' = "digits"
  BY DEF StartDecimal
<1>3. DigitsInv'
  <2>1. /\ v = request.value /\ bi = 0 /\ swaps = 0 /\ error = "none"
        /\ v # Zero /\ size >= LongestDecimal /\ UNCHANGED <<request, v, base, size, string, bi, swaps, error>>
    BY DEF Inv, StartInv, StartDecimal
  <2>2. request.value \in Word
    BY CallFacts DEF Inv
  <2>3. Divisions(request.value)[0].rest = request.value /\ 0 <= Digits(request.value)
    <3>1. /\ Divisions(request.value)[0] = [rest |-> request.value, text |-> <<>>]
          /\ Digits(request.value) \in 1 .. 20
      BY <2>2, DecimalDigits, Zenon
    <3> QED
      BY <3>1
  <2>4. 0 <= 0 \div 2 /\ 0 .. 0 - 1 = {}
    OBVIOUS
  <2> QED
    BY <2>1, <2>3, <2>4 DEF DigitsInv
<1> QED
  BY <1>1, <1>2, <1>3 DEF Inv, StartInv, HexInv, ReturnInv, Returned

(* What DigitsInv and DecimalDigits say of a turn of the loop.             *)
LEMMA DigitsFacts ==
    ASSUME CallOK, Inv, pc = "digits"
    PROVE  /\ request.value \in Word /\ request.function # "hex"
           /\ request.size \in Int /\ base \in {0, 1} /\ request.size - base >= 21
           /\ DOMAIN string = 0 .. request.size - 1
           /\ Digits(request.value) \in 1 .. 20
           /\ bi \in 0 .. Digits(request.value)
           /\ v = Zero <=> bi = Digits(request.value)
           /\ \A j \in 0 .. bi - 1 :
                  string[base + j] = Divisions(request.value)[bi].text[
                      IF j < swaps \/ j >= bi - swaps THEN j + 1 ELSE bi - j]
<1> DEFINE D == Divisions(request.value)
           n == Digits(request.value)
<1>1. /\ request.value \in Word /\ request.function # "hex"
      /\ request.size \in Int /\ base \in {0, 1} /\ request.size - base >= 21
      /\ DOMAIN string = 0 .. request.size - 1
  BY CallFacts DEF Inv, CallInv, DigitsInv, LongestDecimal
<1>2. /\ n \in 1 .. 20
      /\ D[n].rest = Zero
      /\ D[0] = [rest |-> request.value, text |-> <<>>]
      /\ \A i \in 1 .. n - 1 : D[i].rest # Zero
  BY <1>1, DecimalDigits
<1>3. /\ bi \in Nat /\ bi <= n
      /\ v = D[bi].rest /\ request.value # Zero
      /\ \A j \in 0 .. bi - 1 :
             string[base + j] = D[bi].text[
                 IF j < swaps \/ j >= bi - swaps THEN j + 1 ELSE bi - j]
  BY DEF Inv, CallInv, DigitsInv
<1> HIDE DEF D, n
<1>4. bi \in 0 .. n
  BY <1>2, <1>3
<1>5. v = Zero <=> bi = n
  <2>1. CASE bi = 0
    BY <1>2, <1>3, <2>1
  <2>2. CASE bi # 0 /\ bi # n
    <3>1. bi \in 1 .. n - 1
      BY <1>2, <1>4, <2>2
    <3> QED
      BY <1>2, <1>3, <2>2, <3>1
  <2>3. CASE bi = n
    BY <1>2, <1>3, <2>3
  <2> QED
    BY <2>1, <2>2, <2>3
<1> QED
  BY <1>1, <1>2, <1>3, <1>4, <1>5 DEF D, n

(* A turn of the loop is a division, its digit behind the others.          *)
LEMMA PutDigitStep ==
    ASSUME CallOK, Inv, PutDigit
    PROVE  Inv'
<1> DEFINE D == Divisions(request.value)
           n == Digits(request.value)
           d == DivideBy10(v)
<1>1. /\ request.value \in Word
      /\ request.size \in Int /\ base \in {0, 1} /\ request.size - base >= 21
      /\ DOMAIN string = 0 .. request.size - 1
      /\ n \in 1 .. 20 /\ bi \in 0 .. n /\ bi # n
      /\ \A j \in 0 .. bi - 1 :
             string[base + j] = D[bi].text[
                 IF j < swaps \/ j >= bi - swaps THEN j + 1 ELSE bi - j]
  BY DigitsFacts DEF PutDigit
<1>2. /\ pc = "digits" /\ pc' = pc /\ v # Zero
      /\ string' = Write(string, base + bi, DigitRune(d.remainder))
      /\ v' = d.quotient /\ bi' = bi + 1
      /\ UNCHANGED <<request, base, size, swaps, unshifted, turns, error>>
  BY DEF PutDigit
<1>3. swaps = 0 /\ v = D[bi].rest /\ size >= LongestDecimal /\ request.value # Zero /\ error = "none"
  BY <1>2 DEF Inv, DigitsInv
<1>4. bi \in 0 .. n - 1 /\ bi \in Nat
  BY <1>1
<1>5. /\ D[bi + 1] = Divided(D[bi])
      /\ D[bi] \in States /\ Len(D[bi].text) = bi
  BY <1>1, <1>4, DecimalDigits
<1>6. D[bi].rest \in Word
  BY <1>5 DEF States
<1>7. d.quotient \in Word /\ d.remainder \in 0 .. 9
  BY <1>3, <1>6, DivideType
<1>8. D[bi + 1].rest = d.quotient
  BY <1>3, <1>5 DEF Divided
<1>9. /\ D[bi + 1].text[1] = DigitRune(d.remainder)
      /\ \A k \in 1 .. bi : D[bi + 1].text[k + 1] = D[bi].text[k]
  BY <1>3, <1>5, DividedType
<1> HIDE DEF D, n, d
<1>10. base + bi \in DOMAIN string
  BY <1>1
<1>11. DOMAIN string' = DOMAIN string
  <2>1. DOMAIN string' = DOMAIN string \cup {base + bi}
    BY <1>2 DEF Write
  <2> QED
    BY <1>10, <2>1
<1>12. CallInv'
  BY <1>2, <1>4, <1>7, <1>11 DEF Inv, CallInv
<1>13. ASSUME NEW j \in 0 .. bi
       PROVE  string'[base + j] = D[bi + 1].text[bi + 1 - j]
  <2>1. base + j \in DOMAIN string
    BY <1>1
  <2>2. CASE j = bi
    <3>1. string'[base + bi] = DigitRune(d.remainder)
      BY <1>2 DEF Write
    <3>2. bi + 1 - j = 1
      BY <1>4, <2>2
    <3> QED
      BY <1>9, <2>2, <3>1, <3>2
  <2>3. CASE j # bi
    <3>1. j \in 0 .. bi - 1 /\ bi - j \in 1 .. bi /\ (bi - j) + 1 = bi + 1 - j
          /\ base + j # base + bi
      BY <1>1, <1>4, <2>3
    <3>2. string'[base + j] = string[base + j]
      BY <1>2, <2>1, <3>1 DEF Write
    <3>3. ~ (j < swaps \/ j >= bi - swaps)
      BY <1>3, <1>4, <3>1
    <3>4. string[base + j] = D[bi].text[bi - j]
      BY <1>1, <3>1, <3>3
    <3>5. D[bi + 1].text[(bi - j) + 1] = D[bi].text[bi - j]
      BY <1>9, <3>1
    <3> QED
      BY <3>1, <3>2, <3>4, <3>5
  <2> QED
    BY <2>2, <2>3
<1>14. DigitsInv'
  <2>1. D' = D /\ n' = n
    BY <1>2 DEF D, n
  <2>2. bi' <= n
    BY <1>1, <1>2
  <2>3. v' = D[bi'].rest
    BY <1>2, <1>8
  <2>4. swaps' = 0 /\ swaps' <= bi' \div 2
    BY <1>2, <1>3, <1>4
  <2>5. ASSUME NEW j \in 0 .. bi' - 1
        PROVE  string'[base' + j] = D[bi'].text[
                   IF j < swaps' \/ j >= bi' - swaps' THEN j + 1 ELSE bi' - j]
    <3>1. j \in 0 .. bi /\ bi' = bi + 1 /\ base' = base
      BY <1>2, <1>4
    <3>2. ~ (j < swaps' \/ j >= bi' - swaps')
      BY <1>4, <2>4, <3>1
    <3>3. string'[base + j] = D[bi + 1].text[bi + 1 - j]
      BY <1>13, <3>1
    <3>4. (IF j < swaps' \/ j >= bi' - swaps' THEN j + 1 ELSE bi' - j) = bi + 1 - j
      <4>1. (IF j < swaps' \/ j >= bi' - swaps' THEN j + 1 ELSE bi' - j) = bi' - j
        BY <3>2, Zenon
      <4>2. bi' - j = bi + 1 - j
        BY <1>4, <3>1
      <4> QED
        BY <4>1, <4>2
    <3>5. base' + j = base + j /\ D[bi'].text = D[bi + 1].text
      BY <3>1
    <3> QED
      BY <3>3, <3>4, <3>5
  <2>6. size' >= LongestDecimal /\ request'.value # Zero /\ error' = "none"
    BY <1>2, <1>3 DEF LongestDecimal
  <2>7. D = Divisions(request'.value) /\ n = Digits(request'.value)
    BY <1>2 DEF D, n
  <2> QED
    BY <2>2, <2>3, <2>4, <2>5, <2>6, <2>7 DEF DigitsInv
<1> QED
  BY <1>2, <1>12, <1>14 DEF Inv, StartInv, HexInv, ReturnInv, Returned

(* A swap brings the two outermost digits left to their places.            *)
LEMMA SwapStep ==
    ASSUME CallOK, Inv, Swap
    PROVE  Inv'
<1> DEFINE text == Divisions(request.value)[bi].text
           n == Digits(request.value)
           a == base + swaps
           b == base + bi - 1 - swaps
           t == Write(string, a, string[b])
<1>1. /\ request.size \in Int /\ base \in {0, 1} /\ request.size - base >= 21
      /\ DOMAIN string = 0 .. request.size - 1
      /\ n \in 1 .. 20 /\ bi \in 0 .. n
      /\ \A j \in 0 .. bi - 1 :
             string[base + j] = text[IF j < swaps \/ j >= bi - swaps THEN j + 1 ELSE bi - j]
  BY DigitsFacts DEF Swap
<1>2. /\ pc = "digits" /\ pc' = pc /\ v = Zero /\ swaps < bi \div 2
      /\ string' = Write(t, b, string[a])
      /\ swaps' = swaps + 1
      /\ UNCHANGED <<request, v, base, size, bi, unshifted, turns, error>>
  BY DEF Swap
<1>3. swaps \in Nat
  BY DEF Inv, CallInv
<1> HIDE DEF text, n
<1>4. bi \in Nat /\ 2 * swaps + 1 < bi /\ bi <= 20
  BY <1>1, <1>2, <1>3
<1>5. /\ a \in DOMAIN string /\ b \in DOMAIN string /\ a # b
  BY <1>1, <1>3, <1>4
<1>6. DOMAIN string' = DOMAIN string
  <2>1. DOMAIN t = DOMAIN string \cup {a}
    BY DEF Write
  <2>2. DOMAIN string' = DOMAIN t \cup {b}
    <3> HIDE DEF t, a, b
    <3> QED
      BY <1>2 DEF Write
  <2> QED
    BY <1>5, <2>1, <2>2
<1>7. /\ string'[a] = string[b] /\ string'[b] = string[a]
      /\ \A j \in DOMAIN string : j # a /\ j # b => string'[j] = string[j]
  <2> HIDE DEF a, b
  <2>1. /\ DOMAIN t = DOMAIN string \cup {a} /\ t[a] = string[b]
        /\ \A j \in DOMAIN string : j # a => t[j] = string[j]
    BY DEF Write
  <2> HIDE DEF t
  <2>2. /\ string'[b] = string[a]
        /\ \A j \in DOMAIN t : j # b => string'[j] = t[j]
    BY <1>2 DEF Write
  <2> QED
    BY <1>5, <2>1, <2>2
<1>8. CallInv'
  BY <1>2, <1>3, <1>6 DEF Inv, CallInv
<1>9. ASSUME NEW j \in 0 .. bi - 1
      PROVE  string'[base + j] = text[IF j < swaps + 1 \/ j >= bi - (swaps + 1) THEN j + 1 ELSE bi - j]
  <2>1. base + j \in DOMAIN string
    BY <1>1, <1>4
  <2>2. CASE j = swaps
    <3> DEFINE k == bi - 1 - swaps
    <3>1. /\ base + j = a /\ b = base + k /\ k \in 0 .. bi - 1
          /\ ~ (k < swaps \/ k >= bi - swaps) /\ bi - k = j + 1
      BY <1>1, <1>3, <1>4, <2>2
    <3>2. string[b] = text[j + 1]
      <4> HIDE DEF k, b
      <4> QED
        BY <1>1, <3>1
    <3> QED
      BY <1>7, <2>2, <3>1, <3>2
  <2>3. CASE j = bi - 1 - swaps
    <3>1. /\ base + j = b /\ swaps \in 0 .. bi - 1 /\ swaps >= 0
          /\ ~ (swaps < swaps \/ swaps >= bi - swaps) /\ bi - swaps = j + 1
          /\ j >= bi - (swaps + 1)
      BY <1>1, <1>3, <1>4, <2>3
    <3>2. string[a] = text[j + 1]
      BY <1>1, <3>1
    <3> QED
      BY <1>7, <3>1, <3>2
  <2>4. CASE j # swaps /\ j # bi - 1 - swaps
    <3>1. base + j # a /\ base + j # b
      BY <1>1, <1>3, <1>4, <2>4
    <3>2. string'[base + j] = string[base + j]
      BY <1>7, <2>1, <3>1
    <3>3. (j < swaps + 1 \/ j >= bi - (swaps + 1)) <=> (j < swaps \/ j >= bi - swaps)
      BY <1>3, <1>4, <2>4
    <3> QED
      BY <1>1, <3>2, <3>3
  <2> QED
    BY <2>2, <2>3, <2>4
<1>10. DigitsInv'
  <2>1. /\ request.value # Zero /\ size >= LongestDecimal /\ error = "none"
        /\ bi <= Digits(request.value) /\ v = Divisions(request.value)[bi].rest
    BY <1>2 DEF Inv, DigitsInv
  <2>2. swaps' <= bi' \div 2
    BY <1>2, <1>3, <1>4
  <2>3. ASSUME NEW j \in 0 .. bi' - 1
        PROVE  string'[base' + j] = Divisions(request'.value)[bi'].text[
                   IF j < swaps' \/ j >= bi' - swaps' THEN j + 1 ELSE bi' - j]
    <3>1. j \in 0 .. bi - 1 /\ bi' = bi /\ base' = base /\ swaps' = swaps + 1
          /\ Divisions(request'.value)[bi'].text = text
      BY <1>2 DEF text
    <3>2. string'[base + j] = text[IF j < swaps + 1 \/ j >= bi - (swaps + 1) THEN j + 1 ELSE bi - j]
      BY <1>9, <3>1
    <3> QED
      BY <3>1, <3>2
  <2>4. v' = Zero /\ request' = request /\ size' = size /\ error' = error /\ bi' = bi /\ v' = v
    BY <1>2
  <2> QED
    BY <2>1, <2>2, <2>3, <2>4 DEF DigitsInv, LongestDecimal
<1> QED
  BY <1>2, <1>8, <1>10 DEF Inv, StartInv, HexInv, ReturnInv, Returned

(* When the swaps meet, every digit is in its place.                       *)
LEMMA EndDecimalStep ==
    ASSUME CallOK, Inv, EndDecimal
    PROVE  Inv'
<1> DEFINE text == Divisions(request.value)[bi].text
           n == Digits(request.value)
           s == Write(string, base + bi, NUL)
<1>1. /\ request.value \in Word /\ request.function # "hex"
      /\ request.size \in Int /\ base \in {0, 1} /\ request.size - base >= 21
      /\ DOMAIN string = 0 .. request.size - 1
      /\ n \in 1 .. 20 /\ bi = n
      /\ \A j \in 0 .. bi - 1 :
             string[base + j] = text[IF j < swaps \/ j >= bi - swaps THEN j + 1 ELSE bi - j]
  BY DigitsFacts DEF EndDecimal
<1>2. swaps \in Nat /\ swaps <= bi \div 2 /\ swaps >= bi \div 2
  BY DEF Inv, CallInv, DigitsInv, EndDecimal
<1>3. ExpectedText = text /\ Len(ExpectedText) = bi
  <2>1. ExpectedText = DecimalText(request.value)
    BY <1>1 DEF ExpectedText
  <2>2. Divisions(request.value)[n].text = DecimalText(request.value)
    BY <1>1, DecimalDigits
  <2>3. n = Len(DecimalText(request.value))
    BY DEF Digits
  <2> QED
    BY <1>1, <2>1, <2>2, <2>3
<1>4. string' = Signed(s) /\ Return("NoError") /\ base' = base /\ request' = request
  BY DEF EndDecimal
<1> HIDE DEF text, n
<1>5. base + bi \in DOMAIN string /\ request.size > 0 /\ bi \in 1 .. 20
  BY <1>1
<1>6. DOMAIN s = DOMAIN string
  <2>1. DOMAIN s = DOMAIN string \cup {base + bi}
    BY DEF Write
  <2> QED
    BY <1>5, <2>1
<1>7. s[base + bi] = NUL /\ \A j \in DOMAIN string : j # base + bi => s[j] = string[j]
  BY DEF Write
<1> HIDE DEF s
<1>8. DOMAIN string' = DOMAIN string /\ \A j \in DOMAIN string : j >= base => string'[j] = s[j]
  BY <1>4, <1>5, <1>6, SignedDefined DEF Inv
<1>9. CallInv'
  BY <1>8 DEF Inv, CallInv, EndDecimal, Return
<1>10. ASSUME NEW i \in 1 .. Len(ExpectedText)
       PROVE  string'[base + i - 1] = ExpectedText[i]
  <2> DEFINE j == i - 1
  <2>1. /\ j \in 0 .. bi - 1 /\ base + j = base + i - 1 /\ base + j \in DOMAIN string
        /\ base + j # base + bi /\ base + j >= base /\ j + 1 = i
    BY <1>1, <1>3, <1>5
  <2>2. j < swaps \/ j >= bi - swaps \/ bi - j = j + 1
    BY <1>2, <1>5, <2>1
  <2> HIDE DEF j
  <2>3. string[base + j] = text[j + 1]
    BY <1>1, <2>1, <2>2
  <2>4. string'[base + j] = string[base + j]
    BY <1>7, <1>8, <2>1
  <2> QED
    BY <1>3, <2>1, <2>3, <2>4
<1>11. string'[base + Len(ExpectedText)] = NUL
  <2>1. base + bi >= base
    BY <1>1, <1>5
  <2> QED
    BY <1>3, <1>5, <1>7, <1>8, <2>1
<1> QED
  BY <1>4, <1>9, <1>10, <1>11, ReturnStep

(* Zero is as many zeros as were asked for, or one.                        *)
LEMMA ZeroHexStep ==
    ASSUME CallOK, Inv, ZeroHex
    PROVE  Inv'
<1> DEFINE r == Write(string, 0, "0")
<1>0. /\ request.size \in Int /\ base = 0 /\ request.size >= 17
      /\ DOMAIN string = 0 .. request.size - 1 /\ request.function = "hex"
  <2>1. /\ request.size \in Int /\ size = request.size - base /\ size >= 17
        /\ request.function = "hex" /\ base = 0
        /\ DOMAIN string = 0 .. request.size - 1
    BY CallFacts DEF Inv, CallInv, ZeroHex, LongestHex
  <2> QED
    BY <2>1
<1>1. 0 \in DOMAIN string /\ 1 \in DOMAIN string
  BY <1>0
<1>2. /\ string' = Write(r, 1, NUL) /\ Return("NoError") /\ base' = base /\ request' = request
      /\ v = Zero /\ request.length = 0
  BY DEF ZeroHex
<1>3. DOMAIN string' = DOMAIN string /\ string'[0] = "0" /\ string'[1] = NUL
  <2>1. DOMAIN r = DOMAIN string \cup {0} /\ r[0] = "0"
    BY DEF Write
  <2> HIDE DEF r
  <2>2. /\ DOMAIN string' = DOMAIN r \cup {1} /\ string'[1] = NUL
        /\ \A j \in DOMAIN r : j # 1 => string'[j] = r[j]
    BY <1>2 DEF Write
  <2>3. DOMAIN string' = DOMAIN string
    BY <1>1, <2>1, <2>2
  <2> QED
    BY <1>1, <2>1, <2>2, <2>3
<1>4. ExpectedText = <<"0">>
  <2>1. request.value = Zero
    BY <1>2 DEF Inv, StartInv, ZeroHex
  <2> QED
    BY <1>0, <1>2, <2>1, ZeroTexts DEF ExpectedText
<1>5. CallInv'
  BY <1>3 DEF Inv, CallInv, ZeroHex, Return
<1>6. \A i \in 1 .. Len(ExpectedText) : string'[base + i - 1] = ExpectedText[i]
  <2>1. Len(ExpectedText) = 1 /\ ExpectedText[1] = "0" /\ base + 1 - 1 = 0
    BY <1>0, <1>4
  <2> QED
    BY <1>3, <2>1
<1>7. string'[base + Len(ExpectedText)] = NUL
  <2>1. base + Len(ExpectedText) = 1
    BY <1>0, <1>4
  <2> QED
    BY <1>3, <2>1
<1> QED
  BY <1>2, <1>5, <1>6, <1>7, ReturnStep

(* The size accepted has room for the sixteen digits and the NUL.          *)
LEMMA StartHexStep ==
    ASSUME CallOK, Inv, StartHex
    PROVE  Inv'
<1>1. CallInv'
  BY DEF Inv, CallInv, StartHex
<1>2. pc' = "strip"
  BY DEF StartHex
<1>3. HexInv'
  <2>1. /\ v = request.value /\ bi = 0 /\ turns = 0 /\ unshifted = Nybbles /\ error = "none"
        /\ size >= LongestHex /\ (v # Zero \/ request.length # 0)
        /\ UNCHANGED <<request, v, base, size, string, bi, unshifted, turns, error>>
    BY DEF Inv, StartInv, StartHex
  <2>2. request.value \in Word /\ Nybbles = 16 /\ request.length \in 0 .. 16
    BY CallFacts DEF Inv
  <2>3. v = Shifted(request.value, turns + bi)
    <3>1. turns + bi = 0
      BY <2>1
    <3> QED
      BY <2>1, <2>2, <3>1, ShiftedDefined
  <2>4. v' = Shifted(request'.value, turns' + bi')
    BY <2>1, <2>3
  <2>5. turns' <= Nybbles - request'.length /\ unshifted' = Nybbles - turns' - bi' /\ 1 .. turns' = {}
    BY <2>1, <2>2
  <2>6. size' >= LongestHex /\ error' = "none" /\ (request'.value # Zero \/ request'.length # 0)
    BY <2>1
  <2> QED
    BY <1>2, <2>1, <2>4, <2>5, <2>6 DEF HexInv, LongestHex
<1> QED
  BY <1>1, <1>2, <1>3 DEF Inv, StartInv, DigitsInv, ReturnInv, Returned

(* What HexInv says of a turn of a loop.                                   *)
LEMMA HexFacts ==
    ASSUME CallOK, Inv, pc \in {"strip", "nybbles"}
    PROVE  /\ request.value \in Word /\ request.length \in 0 .. 16 /\ request.function = "hex"
           /\ Nybbles = 16 /\ Modulus \in Nat /\ Modulus > 16
           /\ request.size \in Int /\ base = 0 /\ request.size >= 17
           /\ DOMAIN string = 0 .. request.size - 1
           /\ turns \in 0 .. 16 - request.length /\ bi \in Nat /\ unshifted \in Nat
           /\ unshifted = 16 - turns - bi
           /\ \A j \in 1 .. turns : request.value[j] = 0
           /\ v = Shifted(request.value, turns + bi)
           /\ v \in Word
           /\ v[1] = IF turns + bi < 16 THEN request.value[turns + bi + 1] ELSE 0
           /\ ShiftedLeft(v) = Shifted(request.value, turns + bi + 1)
<1>1. /\ request.value \in Word /\ request.length \in 0 .. 16
      /\ Nybbles = 16 /\ Modulus \in Nat /\ Modulus > 16 /\ request.size \in 0 .. Modulus - 1
  BY CallFacts DEF Inv
<1>2. /\ request.function = "hex" /\ base = 0 /\ size = request.size - base /\ size >= 17
      /\ DOMAIN string = 0 .. request.size - 1
      /\ turns \in Nat /\ bi \in Nat /\ unshifted \in Nat /\ v \in Word
      /\ turns <= Nybbles - request.length /\ unshifted = Nybbles - turns - bi
      /\ \A j \in 1 .. turns : request.value[j] = 0
      /\ v = Shifted(request.value, turns + bi)
  BY DEF Inv, CallInv, HexInv, LongestHex
<1>3. turns + bi \in Nat
  BY <1>2
<1>4. /\ v[1] = IF turns + bi < 16 THEN request.value[turns + bi + 1] ELSE 0
      /\ ShiftedLeft(v) = Shifted(request.value, turns + bi + 1)
  BY <1>1, <1>2, <1>3, ShiftedDefined
<1>5. /\ request.size \in Int /\ request.size >= 17 /\ turns \in 0 .. 16 - request.length
      /\ unshifted = 16 - turns - bi
  BY <1>1, <1>2
<1> QED
  BY <1>1, <1>2, <1>4, <1>5

(* A zero may be stripped while more nybbles are left than are asked for.  *)
LEMMA StripFacts ==
    ASSUME CallOK, Inv, pc = "strip"
    PROVE  /\ bi = 0
           /\ MayStrip <=> turns < 16 - request.length /\ request.value[turns + 1] = 0
<1>1. bi = 0
  BY DEF Inv, HexInv
<1>2. /\ Nybbles = 16 /\ request.length \in 0 .. 16 /\ Modulus \in Nat /\ Modulus > 16
      /\ turns \in 0 .. 16 - request.length
      /\ v[1] = IF turns + bi < 16 THEN request.value[turns + bi + 1] ELSE 0
  BY HexFacts
<1>3. (Nybbles - request.length) % Modulus = 16 - request.length
  <2> DEFINE k == 16 - request.length
  <2>1. k \in 0 .. Modulus - 1
    BY <1>2
  <2>2. k % Modulus = k
    <3> HIDE DEF k
    <3> QED
      BY <1>2, <2>1
  <2> QED
    BY <1>2, <2>2
<1>4. turns < 16 - request.length => turns + bi < 16 /\ turns + bi + 1 = turns + 1
  BY <1>1, <1>2
<1> QED
  BY <1>1, <1>2, <1>3, <1>4 DEF MayStrip

(* A zero stripped is one that HexText leaves out.                         *)
LEMMA StripZeroStep ==
    ASSUME CallOK, Inv, StripZero
    PROVE  Inv'
<1>1. /\ request.value \in Word /\ request.length \in 0 .. 16
      /\ Nybbles = 16 /\ Modulus \in Nat /\ Modulus > 16
      /\ turns \in 0 .. 16 - request.length /\ unshifted = 16 - turns - bi
      /\ \A j \in 1 .. turns : request.value[j] = 0
      /\ ShiftedLeft(v) = Shifted(request.value, turns + bi + 1)
  BY HexFacts DEF StripZero
<1>2. bi = 0 /\ turns < 16 - request.length /\ request.value[turns + 1] = 0
  BY StripFacts DEF StripZero
<1>3. /\ pc = "strip" /\ pc' = pc /\ v' = ShiftedLeft(v)
      /\ unshifted' = (unshifted - 1) % Modulus /\ turns' = turns + 1
      /\ UNCHANGED <<request, base, size, string, bi, swaps, error>>
  BY DEF StripZero
<1>4. unshifted' = 16 - (turns + 1) /\ unshifted' \in Nat /\ turns' \in 0 .. 16 - request.length
  <2> DEFINE k == unshifted - 1
  <2>1. k \in 0 .. Modulus - 1 /\ k = 16 - (turns + 1)
    BY <1>1, <1>2
  <2>2. k % Modulus = k
    <3> HIDE DEF k
    <3> QED
      BY <1>1, <2>1
  <2>3. unshifted' = 16 - (turns + 1)
    BY <1>3, <2>1, <2>2
  <2> QED
    BY <1>1, <1>2, <1>3, <2>3
<1>5. v' = Shifted(request.value, turns' + bi') /\ v' \in Word
  <2>1. turns' + bi' = turns + bi + 1 /\ turns + bi + 1 \in Nat
    BY <1>1, <1>2, <1>3
  <2> QED
    BY <1>1, <1>3, <2>1, ShiftedDefined
<1>6. \A j \in 1 .. turns' : request.value[j] = 0
  <2>1. \A j \in 1 .. turns + 1 : j \in 1 .. turns \/ j = turns + 1
    BY <1>1
  <2> QED
    BY <1>1, <1>2, <1>3, <2>1
<1>7. CallInv'
  <2>1. turns' \in Nat
    BY <1>1, <1>4
  <2> QED
    BY <1>3, <1>4, <1>5, <2>1 DEF Inv, CallInv
<1>8. HexInv'
  <2>1. /\ request.value # Zero \/ request.length # 0
        /\ size >= LongestHex /\ error = "none"
    BY <1>3 DEF Inv, HexInv
  <2>2. /\ turns' <= Nybbles - request'.length /\ unshifted' = Nybbles - turns' - bi'
        /\ bi' = 0 /\ request' = request /\ pc' = "strip"
    BY <1>1, <1>2, <1>3, <1>4
  <2>3. v' = Shifted(request'.value, turns' + bi') /\ \A j \in 1 .. turns' : request'.value[j] = 0
    BY <1>5, <1>6, <2>2
  <2>4. size' >= LongestHex /\ error' = "none" /\ (request'.value # Zero \/ request'.length # 0)
    BY <1>3, <2>1
  <2> QED
    BY <2>2, <2>3, <2>4 DEF HexInv, LongestHex
<1> QED
  BY <1>3, <1>7, <1>8 DEF Inv, StartInv, DigitsInv, ReturnInv, Returned

(* Where stripping ends the text begins.                                   *)
LEMMA EndStripStep ==
    ASSUME CallOK, Inv, EndStrip
    PROVE  Inv'
<1> DEFINE n == Len(HexText(request.value, request.length))
<1>1. /\ request.value \in Word /\ request.length \in 0 .. 16 /\ Nybbles = 16
      /\ turns \in 0 .. 16 - request.length
      /\ \A j \in 1 .. turns : request.value[j] = 0
  BY HexFacts DEF EndStrip
<1>2. bi = 0 /\ ~ (turns < 16 - request.length /\ request.value[turns + 1] = 0)
  BY StripFacts DEF EndStrip
<1>3. /\ pc = "strip" /\ pc' = "nybbles"
      /\ UNCHANGED <<request, v, base, size, string, bi, swaps, unshifted, turns, error>>
  BY DEF EndStrip
<1>4. /\ n \in 1 .. 16
      /\ n >= request.length
      /\ n = request.length \/ n = 1 \/ request.value[17 - n] # 0
      /\ \A j \in 1 .. 16 - n : request.value[j] = 0
  BY <1>1, HexDefined
<1>5. request.value # Zero \/ request.length # 0
  BY <1>3 DEF Inv, HexInv
<1>6. turns # 16
  <2> SUFFICES ASSUME turns = 16 PROVE FALSE
    OBVIOUS
  <2>1. request.value = Zero
    BY <1>1 DEF Word, Zero
  <2> QED
    BY <1>1, <1>5, <2>1
<1> HIDE DEF n
<1>7. 16 - turns = n
  <2>1. 16 - turns <= n
    <3> SUFFICES ASSUME n < 16 - turns PROVE FALSE
      BY <1>1, <1>4
    <3>1. turns + 1 \in 1 .. 16 - n /\ turns < 16 - request.length
      BY <1>1, <1>4
    <3> QED
      BY <1>2, <1>4, <3>1
  <2>2. 16 - turns >= n
    <3> SUFFICES ASSUME 16 - turns < n PROVE FALSE
      BY <1>1, <1>4
    <3>1. n # 1 /\ n # request.length /\ 17 - n \in 1 .. turns
      BY <1>1, <1>4, <1>6
    <3> QED
      BY <1>1, <1>4, <3>1
  <2> QED
    BY <1>1, <1>4, <2>1, <2>2
<1>8. CallInv'
  BY <1>3 DEF Inv, CallInv
<1>9. HexInv'
  <2>1. /\ request.value # Zero \/ request.length # 0
        /\ size >= LongestHex /\ error = "none"
        /\ turns <= Nybbles - request.length
        /\ \A j \in 1 .. turns : request.value[j] = 0
        /\ v = Shifted(request.value, turns + bi)
        /\ unshifted = Nybbles - turns - bi
    BY <1>3 DEF Inv, HexInv
  <2>2. Nybbles - turns = Len(HexText(request.value, request.length)) /\ 0 .. bi - 1 = {}
    BY <1>1, <1>2, <1>7 DEF n
  <2> QED
    BY <1>3, <2>1, <2>2 DEF HexInv, LongestHex
<1> QED
  BY <1>3, <1>8, <1>9 DEF Inv, StartInv, DigitsInv, ReturnInv, Returned

(* What HexInv says of the nybbles that have been put.                     *)
LEMMA NybblesFacts ==
    ASSUME CallOK, Inv, pc = "nybbles"
    PROVE  LET text == HexText(request.value, request.length)
           IN  /\ 16 - turns = Len(text) /\ Len(text) \in 1 .. 16
               /\ \A j \in 0 .. bi - 1 : string[j] = text[j + 1]
               /\ \A i \in 1 .. Len(text) : text[i] = DigitRune(request.value[turns + i])
<1> DEFINE text == HexText(request.value, request.length)
           n == Len(text)
<1>1. request.value \in Word /\ request.length \in 0 .. 16 /\ Nybbles = 16 /\ turns \in Int
  BY HexFacts
<1>2. /\ n \in 1 .. 16
      /\ \A i \in 1 .. n : text[i] = DigitRune(request.value[16 - n + i])
  BY <1>1, HexDefined
<1>3. Nybbles - turns = n /\ \A j \in 0 .. bi - 1 : string[j] = text[j + 1]
  BY DEF Inv, HexInv
<1> HIDE DEF n, text
<1>4. 16 - turns = n
  BY <1>1, <1>3
<1>5. \A i \in 1 .. n : 16 - n + i = turns + i
  BY <1>1, <1>2, <1>4
<1> QED
  BY <1>2, <1>3, <1>4, <1>5 DEF text, n

(* The nybble on top is the next digit of the text.                        *)
LEMMA PutNybbleStep ==
    ASSUME CallOK, Inv, PutNybble
    PROVE  Inv'
<1> DEFINE text == HexText(request.value, request.length)
           r == DigitRune(v[1])
<1>1. /\ request.value \in Word /\ request.length \in 0 .. 16 /\ Nybbles = 16
      /\ request.size \in Int /\ request.size >= 17 /\ DOMAIN string = 0 .. request.size - 1
      /\ turns \in 0 .. 16 - request.length /\ bi \in Nat /\ unshifted \in Nat
      /\ unshifted = 16 - turns - bi
      /\ v[1] = IF turns + bi < 16 THEN request.value[turns + bi + 1] ELSE 0
      /\ ShiftedLeft(v) = Shifted(request.value, turns + bi + 1)
  BY HexFacts DEF PutNybble
<1>2. /\ pc = "nybbles" /\ pc' = pc /\ unshifted > 0
      /\ string' = Write(string, bi, r) /\ bi' = bi + 1 /\ v' = ShiftedLeft(v)
      /\ unshifted' = unshifted - 1
      /\ UNCHANGED <<request, base, size, swaps, turns, error>>
  BY DEF PutNybble
<1>3. /\ 16 - turns = Len(text) /\ Len(text) \in 1 .. 16
      /\ \A j \in 0 .. bi - 1 : string[j] = text[j + 1]
      /\ \A i \in 1 .. Len(text) : text[i] = DigitRune(request.value[turns + i])
  BY <1>2, NybblesFacts
<1> DEFINE n == Len(text)
<1> HIDE DEF text, n
<1>4. bi + 1 \in 1 .. n /\ turns + bi < 16 /\ turns + (bi + 1) = turns + bi + 1
  <2>1. 16 - turns = n
    BY <1>3 DEF n
  <2> QED
    BY <1>1, <1>2, <2>1
<1>5. r = text[bi + 1]
  <2>1. v[1] = request.value[turns + bi + 1]
    BY <1>1, <1>4
  <2>2. text[bi + 1] = DigitRune(request.value[turns + (bi + 1)])
    BY <1>3, <1>4 DEF n
  <2> QED
    BY <1>4, <2>1, <2>2
<1> HIDE DEF r
<1>6. bi \in DOMAIN string
  BY <1>1, <1>4
<1>7. /\ DOMAIN string' = DOMAIN string /\ string'[bi] = r
      /\ \A j \in DOMAIN string : j # bi => string'[j] = string[j]
  <2>1. DOMAIN string' = DOMAIN string \cup {bi}
    BY <1>2 DEF Write
  <2>2. /\ string'[bi] = r
        /\ \A j \in DOMAIN string : j # bi => string'[j] = string[j]
    BY <1>2 DEF Write
  <2>3. DOMAIN string' = DOMAIN string
    BY <1>6, <2>1
  <2> QED
    BY <2>2, <2>3
<1>8. v' = Shifted(request.value, turns + bi + 1) /\ v' \in Word
  <2>1. turns + bi + 1 \in Nat
    BY <1>1
  <2> QED
    BY <1>1, <1>2, <2>1, ShiftedDefined
<1>9. unshifted' = 16 - turns - (bi + 1) /\ unshifted' \in Nat /\ bi' \in Nat
  BY <1>1, <1>2
<1>10. \A j \in 0 .. bi : string'[j] = text[j + 1]
  <2> SUFFICES ASSUME NEW j \in 0 .. bi PROVE string'[j] = text[j + 1]
    OBVIOUS
  <2>1. CASE j = bi
    BY <1>5, <1>7, <2>1
  <2>2. CASE j # bi
    <3>1. j \in 0 .. bi - 1 /\ j \in DOMAIN string
      BY <1>1, <1>4, <2>2
    <3> QED
      BY <1>3, <1>7, <2>2, <3>1
  <2> QED
    BY <2>1, <2>2
<1>11. CallInv'
  BY <1>2, <1>7, <1>8, <1>9 DEF Inv, CallInv
<1>12. HexInv'
  <2>1. /\ request.value # Zero \/ request.length # 0
        /\ size >= LongestHex /\ error = "none"
        /\ turns <= Nybbles - request.length
        /\ \A j \in 1 .. turns : request.value[j] = 0
    BY <1>2 DEF Inv, HexInv
  <2>2. v' = Shifted(request'.value, turns' + bi')
    <3>1. turns' + bi' = turns + bi + 1
      BY <1>1, <1>2
    <3> QED
      BY <1>2, <1>8, <3>1
  <2>3. unshifted' = Nybbles - turns' - bi'
    BY <1>1, <1>2, <1>9
  <2>4. Nybbles - turns' = Len(HexText(request'.value, request'.length))
    BY <1>1, <1>2, <1>3 DEF text
  <2>5. \A j \in 0 .. bi' - 1 : string'[j] = HexText(request'.value, request'.length)[j + 1]
    <3>1. bi' - 1 = bi /\ HexText(request'.value, request'.length) = text
      BY <1>1, <1>2 DEF text
    <3> QED
      BY <1>10, <3>1
  <2> QED
    BY <1>2, <2>1, <2>2, <2>3, <2>4, <2>5 DEF HexInv, LongestHex
<1> QED
  BY <1>2, <1>11, <1>12 DEF Inv, StartInv, DigitsInv, ReturnInv, Returned

(* When no nybble is left, the text is whole.                              *)
LEMMA EndHexStep ==
    ASSUME CallOK, Inv, EndHex
    PROVE  Inv'
<1> DEFINE text == HexText(request.value, request.length)
<1>1. /\ request.function = "hex" /\ base = 0
      /\ request.size \in Int /\ request.size >= 17 /\ DOMAIN string = 0 .. request.size - 1
      /\ turns \in 0 .. 16 - request.length /\ bi \in Nat
      /\ unshifted = 16 - turns - bi /\ request.length \in 0 .. 16
  BY HexFacts DEF EndHex
<1>2. /\ pc = "nybbles" /\ unshifted = 0 /\ string' = Write(string, bi, NUL)
      /\ Return("NoError") /\ base' = base /\ request' = request
  BY DEF EndHex
<1>3. /\ 16 - turns = Len(text) /\ Len(text) \in 1 .. 16
      /\ \A j \in 0 .. bi - 1 : string[j] = text[j + 1]
  BY <1>2, NybblesFacts
<1>4. ExpectedText = text
  BY <1>1 DEF ExpectedText
<1> DEFINE n == Len(text)
<1>5. n = bi /\ n \in 1 .. 16
  <2>1. 16 - turns = n /\ n \in 1 .. 16
    BY <1>3
  <2> HIDE DEF n
  <2> QED
    BY <1>1, <1>2, <2>1
<1> HIDE DEF text, n
<1>6. bi \in DOMAIN string
  BY <1>1, <1>5
<1>7. /\ DOMAIN string' = DOMAIN string /\ string'[bi] = NUL
      /\ \A j \in DOMAIN string : j # bi => string'[j] = string[j]
  <2>1. DOMAIN string' = DOMAIN string \cup {bi}
    BY <1>2 DEF Write
  <2>2. /\ string'[bi] = NUL
        /\ \A j \in DOMAIN string : j # bi => string'[j] = string[j]
    BY <1>2 DEF Write
  <2>3. DOMAIN string' = DOMAIN string
    BY <1>6, <2>1
  <2> QED
    BY <2>2, <2>3
<1>8. CallInv'
  BY <1>7 DEF Inv, CallInv, EndHex, Return
<1>9. ASSUME NEW i \in 1 .. Len(ExpectedText)
      PROVE  string'[base + i - 1] = ExpectedText[i]
  <2> DEFINE j == i - 1
  <2>0. i \in 1 .. n
    BY <1>4 DEF n
  <2>1. /\ j \in 0 .. bi - 1 /\ base + i - 1 = j /\ j \in DOMAIN string /\ j # bi /\ j + 1 = i
    BY <1>1, <1>5, <2>0
  <2> HIDE DEF j
  <2> QED
    BY <1>3, <1>4, <1>7, <2>1
<1>10. string'[base + Len(ExpectedText)] = NUL
  <2>1. base + Len(ExpectedText) = bi
    BY <1>1, <1>4, <1>5 DEF n
  <2> QED
    BY <1>7, <2>1
<1> QED
  BY <1>2, <1>8, <1>9, <1>10, ReturnStep

-----------------------------------------------------------------------------
(* ConversionInv holds of every conversion, whatever the numbers and the   *)
(* buffers asked for.                                                      *)
THEOREM ConversionInvariance == Spec => []ConversionInv
<1>1. Init => ConversionInv
  BY InitStep DEF ConversionInv, Inv
<1>2. ASSUME ConversionInv, [Next]_vars PROVE ConversionInv'
  <2> SUFFICES ASSUME CallOK' PROVE Inv'
    BY DEF ConversionInv, Inv
  <2>1. CASE UNCHANGED vars
    <3>1. CallOK
      BY <2>1 DEF CallOK, vars
    <3>2. Inv
      BY <1>2, <3>1 DEF ConversionInv, Inv
    <3>3. UNCHANGED <<request, pc, v, base, size, string, bi, swaps, unshifted, turns, error>>
      BY <2>1 DEF vars
    <3>4. CallInv'
      BY <3>2, <3>3 DEF Inv, CallInv
    <3>5. StartInv' /\ DigitsInv'
      BY <3>2, <3>3 DEF Inv, StartInv, Untouched, DigitsInv, LongestDecimal
    <3>6. HexInv'
      BY <3>2, <3>3 DEF Inv, HexInv, LongestHex
    <3>7. ReturnInv'
      BY <3>2, <3>3 DEF Inv, ReturnInv, Untouched, Returned, ExpectedText
    <3> QED
      BY <3>4, <3>5, <3>6, <3>7 DEF Inv
  <2>2. CASE Next
    <3>1. request' = request
      BY <2>2 DEF Next, NotNegative, Negative, RefuseDecimal, ZeroDecimal, StartDecimal, PutDigit,
                  Swap, EndDecimal, RefuseHex, ZeroHex, StartHex, StripZero, EndStrip, PutNybble,
                  EndHex
    <3>2. CallOK
      BY <3>1 DEF CallOK
    <3>3. Inv
      BY <1>2, <3>2 DEF ConversionInv, Inv
    <3> QED
      BY <2>2, <3>2, <3>3, NotNegativeStep, NegativeStep, RefuseStep, ZeroDecimalStep,
         StartDecimalStep, PutDigitStep, SwapStep, EndDecimalStep, ZeroHexStep, StartHexStep,
         StripZeroStep, EndStripStep, PutNybbleStep, EndHexStep DEF Next
  <2> QED
    BY <1>2, <2>1, <2>2
<1> QED
  BY <1>1, <1>2, PTL DEF Spec

(* ConversionInBounds, for every number and every size of buffer: no digit,*)
(* sign or NUL of the loops of String.c:15-90 falls outside the caller's   *)
(* buffer, and a refused call leaves it alone.                             *)
THEOREM ConversionsStayInBounds == Spec => []ConversionInBounds
<1>1. ConversionInv => ConversionInBounds
  <2> SUFFICES ASSUME ConversionInv, RequestOK
               PROVE  /\ DOMAIN string = 0 .. request.size - 1
                      /\ error = "ErrorBufferTooSmall" =>
                             \A i \in DOMAIN string : string[i] = Blank
    BY DEF ConversionInBounds
  <2>1. CallOK
    BY DEF RequestOK, CallOK
  <2>2. CallInv /\ StartInv /\ DigitsInv /\ HexInv /\ ReturnInv
    BY <2>1 DEF ConversionInv
  <2>3. error = "ErrorBufferTooSmall" => Returned
    BY <2>2 DEF CallInv, StartInv, DigitsInv, HexInv, Returned
  <2> QED
    BY <2>2, <2>3 DEF CallInv, ReturnInv, Untouched
<1> QED
  BY <1>1, ConversionInvariance, PTL

(* The texts of the conversions denote the numbers converted, and no zero  *)
(* leads them but that of 0 and those of the padding asked for             *)
(* (String.c:24-38 and 70-93).                                             *)
THEOREM TextsDenoteNumbers ==
    \A w \in Word :
        /\ Denoted(DecimalText(w), 10) = NumberOf(w)
        /\ w # Zero => DecimalText(w)[1] # "0"
        /\ \A length \in 0 .. Nybbles :
               /\ Denoted(HexText(w, length), 16) = NumberOf(w)
               /\ w # Zero /\ Len(HexText(w, length)) > length => HexText(w, length)[1] # "0"
<1>1. Nybbles = 16
  BY MachineAssumption
<1> SUFFICES ASSUME NEW w \in Word, NEW length \in 0 .. 16
             PROVE  /\ Denoted(DecimalText(w), 10) = NumberOf(w)
                    /\ w # Zero => DecimalText(w)[1] # "0"
                    /\ Denoted(HexText(w, length), 16) = NumberOf(w)
                    /\ w # Zero /\ Len(HexText(w, length)) > length
                           => HexText(w, length)[1] # "0"
  <2>1. 0 \in 0 .. Nybbles
    BY <1>1
  <2> QED
    BY <1>1, <2>1
<1> QED
  BY DecimalDenotes, DecimalLeads, HexDenotes, HexLeads

(* ConversionFaithful, for every number and every size of buffer: a        *)
(* conversion that returns without an error has left the number's text and *)
(* a NUL, and the text denotes the number (String.c:15-90).                *)
THEOREM ConversionsAreFaithful == Spec => []ConversionFaithful
<1>1. ConversionInv => ConversionFaithful
  <2> SUFFICES ASSUME ConversionInv, Returned, error = "NoError", request.length <= Nybbles,
                      request.function = "signed" => ~IsNegative(request.value)
               PROVE  /\ \A i \in 1 .. Len(ExpectedText) : string[i - 1] = ExpectedText[i]
                      /\ string[Len(ExpectedText)] = NUL
                      /\ Denoted(ExpectedText, IF request.function = "hex" THEN 16 ELSE 10)
                             = NumberOf(request.value)
    BY DEF ConversionFaithful
  <2>1. CallOK
    BY DEF CallOK
  <2>2. CallInv /\ ReturnInv
    BY <2>1 DEF ConversionInv
  <2>3. base = 0
    BY <2>2 DEF CallInv
  <2>4. request.value \in Word /\ request.length \in 0 .. 16
    BY <2>1, <2>2, CallFacts
  <2>5. Len(ExpectedText) \in Nat
    <3>1. Len(DecimalText(request.value)) \in 1 .. 20
      BY <2>4, DecimalDigits DEF Digits
    <3>2. Len(HexText(request.value, request.length)) \in 1 .. 16
      BY <2>4, HexDefined
    <3> QED
      BY <3>1, <3>2 DEF ExpectedText
  <2>6. /\ \A i \in 1 .. Len(ExpectedText) : string[base + i - 1] = ExpectedText[i]
        /\ string[base + Len(ExpectedText)] = NUL
    BY <2>2 DEF ReturnInv
  <2> DEFINE n == Len(ExpectedText)
  <2>7. base + n = n /\ \A i \in 1 .. n : base + i - 1 = i - 1
    <3> HIDE DEF n
    <3>1. n \in Nat
      BY <2>5 DEF n
    <3> QED
      BY <2>3, <3>1
  <2>8. Denoted(ExpectedText, IF request.function = "hex" THEN 16 ELSE 10) = NumberOf(request.value)
    BY <2>4, DecimalDenotes, HexDenotes DEF ExpectedText
  <2> QED
    BY <2>6, <2>7, <2>8
<1> QED
  BY <1>1, ConversionInvariance, PTL
=============================================================================
