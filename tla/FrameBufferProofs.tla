------------------------- MODULE FrameBufferProofs -------------------------
(***************************************************************************)
(* Where the operations of a frame buffer write, for every resolution.     *)
(***************************************************************************)
EXTENDS FrameBuffer, TLAPS

(* Arithmetic that stays in the range of an unsigned int does not wrap.    *)
LEMMA InRange ==
    ASSUME NEW n \in Nat, n < RangeUnsigned
    PROVE  Unsigned(n) = n
BY WidthAssumption, SMTT(30) DEF Unsigned

(* A row and a column of the frame are a cell of it.                       *)
LEMMA PlaceInside ==
    ASSUME NEW h \in Nat, NEW v \in Nat, NEW i \in Nat, NEW j \in Nat, i < v, j < h
    PROVE  h * i + j \in 0 .. h * v - 1
<1>1. h * i + j \in Nat /\ h * i + j < h * (i + 1)
  BY SMTT(30)
<1>2. h * (i + 1) <= h * v /\ h * v \in Nat /\ h * (i + 1) \in Nat
  BY SMTT(30)
<1> QED
  BY <1>1, <1>2

(* A number below P * N has a quotient below N and a rest below P.         *)
LEMMA QuotientAndRest ==
    ASSUME NEW P \in Nat \ {0}, NEW N \in Nat, NEW n \in 0 .. P * N - 1
    PROVE  /\ n \div P \in Nat /\ n \div P < N
           /\ n % P \in Nat /\ n % P < P
           /\ n = (n \div P) * P + (n % P)
<1>1. n \in Nat
  BY SMTT(30)
<1>2. n \div P \in Nat /\ n % P \in Nat /\ n % P < P /\ n = (n \div P) * P + (n % P)
  BY <1>1, SMTT(30)
<1>3. ASSUME n \div P >= N PROVE FALSE
  <2> DEFINE q == n \div P
  <2>1. q * P >= N * P
    BY <1>2, <1>3, SMTT(30)
  <2>2. q * P <= n
    BY <1>2, SMTT(30)
  <2> QED
    BY <1>1, <2>1, <2>2, SMTT(30)
<1> QED
  BY <1>2, <1>3

(* A number is one quotient and one rest.                                  *)
LEMMA OneQuotient ==
    ASSUME NEW H \in Nat \ {0}, NEW a \in Nat, NEW c \in Nat,
           NEW b \in 0 .. H - 1, NEW d \in 0 .. H - 1, a * H + b = c * H + d
    PROVE  a = c /\ b = d
<1>1. ASSUME NEW i \in Nat, NEW j \in Nat, NEW k \in 0 .. H - 1, NEW l \in 0 .. H - 1,
             i < j
      PROVE  i * H + k < j * H + l
  <2>1. i + 1 <= j /\ (i + 1) * H <= j * H
    BY <1>1, SMTT(30)
  <2>2. (i + 1) * H = i * H + H /\ i * H \in Nat /\ j * H \in Nat
    BY SMTT(30)
  <2> QED
    BY <2>1, <2>2
<1>2. ~(a < c) /\ ~(c < a)
  <2>1. a * H \in Nat /\ c * H \in Nat
    BY SMTT(30)
  <2>2. a < c => a * H + b < c * H + d
    BY <1>1
  <2>3. c < a => c * H + d < a * H + b
    BY <1>1
  <2> QED
    BY <2>1, <2>2, <2>3
<1>3. a = c
  BY <1>2
<1> QED
  BY <1>3, SMTT(30)

(***************************************************************************)
(* The pointer that walks the bits of a bitmap and the cells of the frame  *)
(* at once stays in the frame (FrameBuffer.c:111-128).                     *)
(***************************************************************************)
LEMMA BitmapInside ==
    ASSUME NEW f, f.HorizontalPixels \in Nat, f.VerticalPixels \in Nat,
           NEW row \in Nat, NEW column \in Nat, NEW P \in Nat, NEW N \in Nat,
           row + N <= f.VerticalPixels, column + P <= f.HorizontalPixels,
           NEW n \in 0 .. P * N - 1
    PROVE  BitmapCell(f, row, column, P, n) \in FrameCells(f)
<1> DEFINE H == f.HorizontalPixels
           q == n \div P
           r == n % P
<1>1. P # 0
  BY SMTT(30)
<1>2. q \in Nat /\ q < N /\ r \in Nat /\ r < P /\ n = q * P + r
  <2>1. P \in Nat \ {0}
    BY <1>1
  <2> QED
    BY <2>1, QuotientAndRest
<1>3. BitmapCell(f, row, column, P, n) = H * row + column + n + q * (H - P)
  BY DEF BitmapCell
<1> HIDE DEF q, r
<1>4. H * row + column + n + q * (H - P) = H * (row + q) + (column + r)
  BY <1>2, SMTT(30)
<1>5. row + q \in Nat /\ row + q < f.VerticalPixels /\ column + r \in Nat /\ column + r < H
  BY <1>2
<1>6. H * (row + q) + (column + r) \in 0 .. H * f.VerticalPixels - 1
  BY <1>5, PlaceInside
<1> QED
  BY <1>3, <1>4, <1>6 DEF FrameCells

(* A write inside the memory leaves its cells as they are.                 *)
LEMMA StoreInside ==
    ASSUME NEW m, NEW cells, cells \subseteq DOMAIN m, NEW color
    PROVE  DOMAIN Store(m, cells, color) = DOMAIN m
BY DEF Store

(* A bitmap that is drawn or refused leaves the cells as they are, unless  *)
(* the sums of the guard wrap.                                             *)
LEMMA BitmapKeepsCells ==
    ASSUME NEW f, f.HorizontalPixels \in Nat, f.VerticalPixels \in Nat,
           NEW m, FrameCells(f) \subseteq DOMAIN m,
           NEW row \in Nat, NEW column \in Nat, NEW bitmap,
           bitmap.PixelsPerRow \in Nat, bitmap.NumberOfRows \in Nat,
           row + bitmap.NumberOfRows < RangeUnsigned,
           column + bitmap.PixelsPerRow < RangeUnsigned,
           NEW on, NEW off
    PROVE  DOMAIN DrawAligned2ColorBitmapAt(f, m, row, column, bitmap, on, off).memory = DOMAIN m
<1> DEFINE P == bitmap.PixelsPerRow
           N == bitmap.NumberOfRows
           drawn == 0 .. P * N - 1
           cells(bit) == {BitmapCell(f, row, column, P, n) :
                             n \in {k \in drawn : bitmap.BitmapDefinition[k + 1] = bit}}
<1>1. CASE BitmapRefused(f, row, column, bitmap)
  BY <1>1 DEF DrawAligned2ColorBitmapAt, Refused
<1>2. CASE ~BitmapRefused(f, row, column, bitmap)
  <2>1. Unsigned(row + N) = row + N /\ Unsigned(column + P) = column + P
    BY InRange
  <2>2. row + N <= f.VerticalPixels /\ column + P <= f.HorizontalPixels
    BY <1>2, <2>1 DEF BitmapRefused
  <2>3. \A n \in drawn : BitmapCell(f, row, column, P, n) \in FrameCells(f)
    BY <2>2, BitmapInside
  <2>4. cells(1) \subseteq DOMAIN m /\ cells(0) \subseteq DOMAIN m
    <3> HIDE DEF drawn, P, N
    <3> QED BY <2>3
  <2>5. DrawAligned2ColorBitmapAt(f, m, row, column, bitmap, on, off).memory
            = Store(Store(m, cells(1), on), cells(0), off)
    BY <1>2 DEF DrawAligned2ColorBitmapAt, Done
  <2> HIDE DEF cells
  <2>6. DOMAIN Store(m, cells(1), on) = DOMAIN m
    BY <2>4, StoreInside
  <2> QED
    BY <2>4, <2>5, <2>6, StoreInside
<1> QED
  BY <1>1, <1>2

(* A run of cells inside the frame leaves the cells as they are.           *)
LEMMA FillInside ==
    ASSUME NEW f, NEW m, FrameCells(f) \subseteq DOMAIN m,
           NEW start \in Nat, NEW count \in Nat,
           f.HorizontalPixels \in Nat, f.VerticalPixels \in Nat,
           start + count <= f.HorizontalPixels * f.VerticalPixels,
           NEW color
    PROVE  DOMAIN FillArray(m, start, count, color) = DOMAIN m
<1>1. f.HorizontalPixels * f.VerticalPixels \in Nat
  OBVIOUS
<1>2. start .. start + count - 1 \subseteq FrameCells(f)
  BY <1>1 DEF FrameCells
<1> QED
  BY <1>2, StoreInside DEF FillArray

(* FillAllWith writes every cell of the frame and no other.                *)
LEMMA FillAllKeepsCells ==
    ASSUME NEW f, f.HorizontalPixels \in Nat, f.VerticalPixels \in Nat,
           NEW m, FrameCells(f) \subseteq DOMAIN m, NEW color
    PROVE  DOMAIN FillAllWith(f, m, color).memory = DOMAIN m
<1>1. 0 + f.HorizontalPixels * f.VerticalPixels <= f.HorizontalPixels * f.VerticalPixels
      /\ f.HorizontalPixels * f.VerticalPixels \in Nat
  OBVIOUS
<1>2. DOMAIN FillArray(m, 0, f.HorizontalPixels * f.VerticalPixels, color) = DOMAIN m
  BY <1>1, FillInside
<1> QED
  BY <1>2 DEF FillAllWith, Done
=============================================================================
