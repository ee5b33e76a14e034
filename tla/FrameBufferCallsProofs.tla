----------------------- MODULE FrameBufferCallsProofs -----------------------
(***************************************************************************)
(* The operations whose guards suffice stay in the frame, for every        *)
(* resolution, depth, bitmap and sequence of calls whose sums do not wrap, *)
(* and what bitmaps, shifts and fills of rows draw there.                  *)
(***************************************************************************)
EXTENDS FrameBufferCalls, FrameBufferProofs

(* The frame is there, and every call is one that callers make.            *)
FrameThere ==
    /\ fb \in [HorizontalPixels : Nat, VerticalPixels : Nat, BitsPerPixel : Depths]
    /\ [HorizontalPixels |-> fb.HorizontalPixels, VerticalPixels |-> fb.VerticalPixels]
           \in Frames
    /\ FrameCells(fb) \subseteq DOMAIN memory

(* The memory begins with the cells of its frame.                          *)
LEMMA InitFrameThere == Init => FrameThere
<1> SUFFICES ASSUME Init PROVE FrameThere
  OBVIOUS
<1>1. PICK frame \in Frames, bpp \in Depths :
          fb = [HorizontalPixels |-> frame.HorizontalPixels,
                VerticalPixels   |-> frame.VerticalPixels,
                BitsPerPixel     |-> bpp]
  BY DEF Init, Populated
<1>2. frame \in [HorizontalPixels : Nat, VerticalPixels : Nat]
  BY CallsAssumption
<1>3. [HorizontalPixels |-> fb.HorizontalPixels, VerticalPixels |-> fb.VerticalPixels] = frame
  BY <1>1, <1>2
<1>4. DOMAIN memory = FrameCells(fb)
  BY DEF Init
<1> QED
  BY <1>1, <1>2, <1>3, <1>4 DEF FrameThere

(* What the sums of a call amount to, when none wraps.                     *)
LEMMA SumsOfCalls ==
    ASSUME FrameThere, NEW i \in Coordinates, NEW j \in Coordinates
    PROVE  /\ i \in Nat /\ j \in Nat
           /\ Unsigned(i + j) = i + j
           /\ Unsigned(i * fb.HorizontalPixels) = i * fb.HorizontalPixels
           /\ \A length \in LineLengths :
                  /\ length \in Nat
                  /\ Unsigned(i * fb.HorizontalPixels + j) = i * fb.HorizontalPixels + j
                  /\ Unsigned(i * fb.HorizontalPixels + j + length)
                         = i * fb.HorizontalPixels + j + length
<1>1. i \in Nat /\ j \in Nat /\ fb.HorizontalPixels \in Nat /\ RangeUnsigned \in Nat \ {0}
  BY CallsAssumption, WidthAssumption DEF FrameThere
<1>2. i * fb.HorizontalPixels \in Nat
  BY <1>1
<1> DEFINE offset == i * fb.HorizontalPixels
           frame  == [HorizontalPixels |-> fb.HorizontalPixels,
                      VerticalPixels   |-> fb.VerticalPixels]
<1>3. frame \in Frames /\ frame.HorizontalPixels = fb.HorizontalPixels
  BY DEF FrameThere
<1>4. /\ i + j < RangeUnsigned
      /\ offset < RangeUnsigned
      /\ \A length \in LineLengths : offset + j + length < RangeUnsigned
  <2> HIDE DEF frame
  <2> QED
    BY <1>3, NoWrapAssumption
<1>5. \A length \in LineLengths : length \in Nat
  BY CallsAssumption
<1> HIDE DEF offset
<1>6. offset \in Nat
  BY <1>2 DEF offset
<1>7. Unsigned(i + j) = i + j /\ Unsigned(offset) = offset
  BY <1>1, <1>4, <1>6, InRange
<1>8. ASSUME NEW length \in LineLengths
      PROVE  Unsigned(offset + j) = offset + j /\ Unsigned(offset + j + length) = offset + j + length
  <2>1. /\ offset + j \in Nat /\ offset + j + length \in Nat
        /\ offset + j + length < RangeUnsigned /\ offset + j < RangeUnsigned
    BY <1>1, <1>4, <1>5, <1>6
  <2> QED
    BY <2>1, InRange
<1> QED
  BY <1>1, <1>5, <1>7, <1>8 DEF offset

-----------------------------------------------------------------------------
(* A cell that is at most one row and one column beyond the frame.         *)
LEMMA PixelStrays ==
    ASSUME FrameThere, Pixel
    PROVE  fb.BitsPerPixel = 32 => DOMAIN memory' \subseteq DOMAIN memory \cup Strayed
<1> SUFFICES ASSUME fb.BitsPerPixel = 32
             PROVE  DOMAIN memory' \subseteq DOMAIN memory \cup Strayed
  OBVIOUS
<1> DEFINE H == fb.HorizontalPixels
           V == fb.VerticalPixels
<1>1. PICK row \in Coordinates, column \in Coordinates, color \in Colors :
          memory' = DrawPixelAt(fb, memory, row, column, color).memory
  BY DEF Pixel, Call
<1>2. row \in Nat /\ column \in Nat /\ H \in Nat /\ V \in Nat
  BY CallsAssumption DEF FrameThere
<1>3. CASE BeyondFrame(fb, row, column)
  BY <1>1, <1>3 DEF DrawPixelAt, Refused
<1>4. CASE ~BeyondFrame(fb, row, column)
  <2>1. memory' = Store(memory, {H * row + column}, color)
    BY <1>1, <1>4 DEF DrawPixelAt, Done, PixelStride
  <2>2. row <= V /\ column <= H
    BY <1>2, <1>4 DEF BeyondFrame
  <2>3. H * row + column \in Nat /\ H * (V + 1) \in Nat /\ H * row + column <= H * (V + 1)
    BY <1>2, <2>2, SMTT(30)
  <2> QED
    BY <2>1, <2>3 DEF Store, Strayed
<1> QED
  BY <1>3, <1>4

(* A 32-bit line stays in the frame.                                       *)
LEMMA LineInside ==
    ASSUME FrameThere, Line, fb.BitsPerPixel = 32
    PROVE  DOMAIN memory' = DOMAIN memory
<1> DEFINE H == fb.HorizontalPixels
           V == fb.VerticalPixels
<1>1. PICK row \in Coordinates, column \in Coordinates, length \in LineLengths,
           color \in Colors :
          memory' = DrawLineAt(fb, memory, row, column, length, color).memory
  BY DEF Line, Call
<1> DEFINE offset == LineOffset(fb, row, column)
<1>2. /\ offset = row * H + column
      /\ Unsigned(offset + length) = offset + length
      /\ offset \in Nat /\ length \in Nat /\ H \in Nat /\ V \in Nat
  BY SumsOfCalls DEF LineOffset, FrameThere
<1>3. \/ memory' = memory
      \/ /\ Unsigned(offset + length) < H * V
         /\ memory' = FillArray(memory, offset, length, color)
  <2>1. H * V \in Nat /\ Unsigned(offset + length) \in Nat
    BY <1>2
  <2> HIDE DEF offset
  <2>2. DrawLineAt(fb, memory, row, column, length, color)
            = IF BeyondFrame(fb, row, column) THEN Refused(memory, "ErrorInvalidParameter")
              ELSE IF Unsigned(offset + length) >= H * V
              THEN Refused(memory, "ErrorWouldCauseOverflow")
              ELSE Done(FillArray(memory, offset, length, color))
    BY DEF DrawLineAt, offset
  <2> QED
    BY <1>1, <2>1, <2>2 DEF Refused, Done
<1> HIDE DEF offset
<1>4. CASE Unsigned(offset + length) < H * V /\ memory' = FillArray(memory, offset, length, color)
  <2>1. offset + length <= H * V
    BY <1>2, <1>4
  <2> QED
    BY <1>2, <1>4, <2>1, FillInside DEF FrameThere
<1> QED
  BY <1>3, <1>4

(* A bitmap stays in the frame.                                            *)
LEMMA BitmapStays ==
    ASSUME FrameThere, Bitmap
    PROVE  DOMAIN memory' = DOMAIN memory
<1>1. PICK row \in Coordinates, column \in Coordinates, bitmap \in Bitmaps :
          memory' = DrawAligned2ColorBitmapAt(fb, memory, row, column, bitmap,
                                              "fore", "back").memory
  BY DEF Bitmap, Call
<1>2. /\ row \in Nat /\ column \in Nat
      /\ bitmap.PixelsPerRow \in Nat /\ bitmap.NumberOfRows \in Nat
      /\ row + bitmap.NumberOfRows < RangeUnsigned
      /\ column + bitmap.PixelsPerRow < RangeUnsigned
  BY CallsAssumption, NoWrapAssumption
<1> QED
  BY <1>1, <1>2, BitmapKeepsCells DEF FrameThere

(* A fill of rows of an 8-bit frame stays in the frame.                    *)
LEMMA RowsInside ==
    ASSUME FrameThere, FillRows, fb.BitsPerPixel = 8
    PROVE  DOMAIN memory' = DOMAIN memory
<1> DEFINE H == fb.HorizontalPixels
           V == fb.VerticalPixels
<1>1. PICK first \in Coordinates, number \in Coordinates, color \in Colors :
          memory' = FillRowsWith(fb, memory, first, number, color).memory
  BY DEF FillRows, Call
<1>2. /\ first \in Nat /\ number \in Nat /\ H \in Nat /\ V \in Nat
      /\ Unsigned(first + number) = first + number
      /\ Unsigned(first * H) = first * H
  BY SumsOfCalls DEF FrameThere
<1>3. \/ memory' = memory
      \/ /\ first + number < V
         /\ memory' = FillArray(memory, first * H, H * number * (8 \div 8), color)
  BY <1>1, <1>2 DEF FillRowsWith, Refused, Done
<1>4. CASE /\ first + number < V
           /\ memory' = FillArray(memory, first * H, H * number * (8 \div 8), color)
  <2>1. H * number * (8 \div 8) = H * number
    BY <1>2, SMTT(30)
  <2>2. first * H \in Nat /\ H * number \in Nat /\ first * H + H * number <= H * V
    BY <1>2, <1>4, SMTT(30)
  <2> QED
    BY <1>2, <1>4, <2>1, <2>2, FillInside DEF FrameThere
<1> QED
  BY <1>3, <1>4

(* A fill of rows strays by its excess at most: the rows end in the frame, *)
(* and what is filled beyond them is the other bytes of as many pixels.    *)
LEMMA RowsStray ==
    ASSUME FrameThere, FillRows
    PROVE  DOMAIN memory' \subseteq DOMAIN memory \cup StrayedBy(request'.number)
<1> DEFINE H == fb.HorizontalPixels
           V == fb.VerticalPixels
           bytes == fb.BitsPerPixel \div 8
<1>1. PICK first \in Coordinates, number \in Coordinates, color \in Colors :
          /\ request' = [operation |-> "fillRows", first |-> first, number |-> number,
                         color |-> color]
          /\ memory' = FillRowsWith(fb, memory, first, number, color).memory
  BY DEF FillRows, Call
<1>2. /\ first \in Nat /\ number \in Nat /\ H \in Nat /\ V \in Nat
      /\ Unsigned(first + number) = first + number
      /\ Unsigned(first * H) = first * H
  BY <1>1, SumsOfCalls DEF FrameThere
<1>3. bytes \in Nat \ {0}
  <2>1. fb.BitsPerPixel \in {8, 16, 32}
    BY DEF FrameThere, Depths
  <2> QED
    BY <2>1
<1> HIDE DEF bytes
<1>4. \/ memory' = memory
      \/ /\ first + number < V
         /\ memory' = FillArray(memory, first * H, H * number * bytes, color)
  BY <1>1, <1>2 DEF FillRowsWith, Refused, Done, bytes
<1>5. CASE /\ first + number < V
           /\ memory' = FillArray(memory, first * H, H * number * bytes, color)
  <2> DEFINE end  == first * H + H * number * bytes
             last == H * (V + number * (bytes - 1))
  <2>1. number * bytes \in Nat /\ number * (bytes - 1) = number * bytes - number
    BY <1>2, <1>3, SMTT(30)
  <2>2. first + number * bytes <= V + number * (bytes - 1)
    BY <1>2, <1>5, <2>1
  <2>3. end = H * (first + number * bytes) /\ first * H \in Nat /\ end \in Nat /\ last \in Nat
    <3> DEFINE filled == number * bytes
    <3>1. filled \in Nat /\ H * number * bytes = H * filled
      BY <1>2, <1>3, <2>1, SMTT(30)
    <3>2. V + number * (bytes - 1) \in Nat
      BY <1>2, <1>5, <2>1
    <3> HIDE DEF filled
    <3>3. first * H + H * filled = H * (first + filled) /\ H * (first + filled) \in Nat
      BY <1>2, <3>1, SMTT(30)
    <3> QED
      BY <1>2, <3>1, <3>2, <3>3 DEF filled
  <2>4. end <= last
    <3> DEFINE a == first + number * bytes
               b == V + number * (bytes - 1)
    <3>1. a \in Nat /\ b \in Nat /\ a <= b
      BY <1>2, <1>5, <2>1, <2>2
    <3> HIDE DEF a, b
    <3>2. H * a <= H * b
      BY <1>2, <3>1, SMTT(30)
    <3> QED
      BY <2>3, <3>2 DEF a, b
  <2>5. first * H .. first * H + (H * number * bytes) - 1 \subseteq 0 .. last - 1
    <3> DEFINE start == first * H
               count == H * number * bytes
    <3>1. start + count <= last /\ start \in Nat /\ count \in Int /\ last \in Nat
      BY <1>2, <1>3, <2>3, <2>4
    <3> HIDE DEF start, count, last
    <3>2. start .. start + count - 1 \subseteq 0 .. last - 1
      BY <3>1
    <3> QED
      BY <3>2 DEF start, count
  <2>6. DOMAIN memory' = DOMAIN memory \cup first * H .. first * H + (H * number * bytes) - 1
    <3> DEFINE start == first * H
               count == H * number * bytes
    <3>1. memory' = FillArray(memory, start, count, color)
      BY <1>5
    <3> HIDE DEF start, count
    <3>2. DOMAIN FillArray(memory, start, count, color)
              = DOMAIN memory \cup start .. start + count - 1
      BY Zenon DEF FillArray, Store
    <3>3. DOMAIN memory' = DOMAIN memory \cup start .. start + count - 1
      BY <3>1, <3>2
    <3> QED
      BY <3>3 DEF start, count
  <2>7. request'.number = number
    BY <1>1
  <2> QED
    BY <2>5, <2>6, <2>7 DEF StrayedBy, bytes
<1> QED
  BY <1>4, <1>5

(* A shift to the top row stays in the frame.                              *)
LEMMA ShiftInside ==
    ASSUME FrameThere, Shift, request'.first = request'.by
    PROVE  DOMAIN memory' = DOMAIN memory
<1> DEFINE H == fb.HorizontalPixels
           V == fb.VerticalPixels
<1>1. PICK first \in Coordinates, number \in Coordinates, by \in Coordinates :
          /\ memory' = ShiftPixelRowsUp(fb, memory, first, number, by).memory
          /\ request' = [operation |-> "shift", first |-> first, number |-> number, by |-> by]
  BY DEF Shift, Call
<1>2. first = by
  BY <1>1
<1>3. first \in Nat /\ number \in Nat /\ H \in Nat /\ V \in Nat /\ FrameCells(fb) \subseteq DOMAIN memory
  BY CallsAssumption DEF FrameThere
<1>4. \/ memory' = memory
      \/ memory' = MoveArray(memory, first * H, (first - by) * H, (V - by) * H)
  BY <1>1 DEF ShiftPixelRowsUp, Refused, Done
<1>5. CASE memory' = MoveArray(memory, first * H, (first - by) * H, (V - by) * H)
  <2>1. (first - by) * H = 0
    BY <1>2, <1>3, SMTT(30)
  <2>2. (V - by) * H \in Int /\ H * V \in Nat /\ (V - by) * H <= H * V
    BY <1>2, <1>3, SMTT(30)
  <2>3. 0 .. 0 + (V - by) * H - 1 \subseteq FrameCells(fb)
    BY <1>3, <2>2 DEF FrameCells
  <2> QED
    BY <1>3, <1>5, <2>1, <2>3 DEF MoveArray
<1> QED
  BY <1>4, <1>5

-----------------------------------------------------------------------------
(* No operation takes cells away.                                          *)
LEMMA NextFrameThere == FrameThere /\ [Next]_vars => FrameThere'
<1> SUFFICES ASSUME FrameThere, [Next]_vars PROVE FrameThere'
  OBVIOUS
<1>1. UNCHANGED fb
  BY DEF Next, Pixel, Line, Bitmap, FillAll, FillRows, Shift, Call, vars
<1>2. DOMAIN memory \subseteq DOMAIN memory'
  <2>1. CASE Pixel
    BY <2>1 DEF Pixel, Call, DrawPixelAt, Refused, Done, Store
  <2>2. CASE Line
    BY <2>2 DEF Line, Call, DrawLineAt, Refused, Done, FillArray, Store
  <2>3. CASE Bitmap
    BY <2>3, BitmapStays
  <2>4. CASE FillAll
    BY <2>4 DEF FillAll, Call, FillAllWith, Done, FillArray, Store
  <2>5. CASE FillRows
    BY <2>5 DEF FillRows, Call, FillRowsWith, Refused, Done, FillArray, Store
  <2>6. CASE Shift
    BY <2>6 DEF Shift, Call, ShiftPixelRowsUp, Refused, Done, MoveArray
  <2>7. CASE UNCHANGED vars
    BY <2>7 DEF vars
  <2> QED
    BY <2>1, <2>2, <2>3, <2>4, <2>5, <2>6, <2>7 DEF Next
<1> QED
  BY <1>1, <1>2 DEF FrameThere, FrameCells

(* So does each call the property is about.                                *)
LEMMA StepStaysInFrame == FrameThere /\ [Next]_vars => [StaysInFrame]_vars
<1> SUFFICES ASSUME FrameThere, Next PROVE StaysInFrame
  OBVIOUS
<1> USE DEF StaysInFrame, Guarded
<1>1. CASE Pixel
  <2>1. request'.operation = "pixel"
    BY <1>1 DEF Pixel, Call
  <2> QED
    BY <1>1, <2>1, PixelStrays
<1>2. CASE Line
  <2>1. request'.operation = "line"
    BY <1>2 DEF Line, Call
  <2> QED
    BY <1>2, <2>1, LineInside
<1>3. CASE Bitmap
  <2>1. request'.operation = "bitmap"
    BY <1>3 DEF Bitmap, Call
  <2> QED
    BY <1>3, <2>1, BitmapStays
<1>4. CASE FillAll
  <2>1. request'.operation = "fillAll"
    BY <1>4 DEF FillAll, Call
  <2>2. PICK color \in Colors : memory' = FillAllWith(fb, memory, color).memory
    BY <1>4 DEF FillAll, Call
  <2>3. DOMAIN memory' = DOMAIN memory
    BY <2>2, FillAllKeepsCells DEF FrameThere
  <2> QED
    BY <2>1, <2>3
<1>5. CASE FillRows
  <2>1. request'.operation = "fillRows"
    BY <1>5 DEF FillRows, Call
  <2> QED
    BY <1>5, <2>1, RowsInside, RowsStray
<1>6. CASE Shift
  <2>1. request'.operation = "shift"
    BY <1>6 DEF Shift, Call
  <2> QED
    BY <1>6, <2>1, ShiftInside
<1> QED
  BY <1>1, <1>2, <1>3, <1>4, <1>5, <1>6 DEF Next

(***************************************************************************)
(* The guards of 32-bit lines, of bitmaps, of fills and of shifts to the   *)
(* top keep every write in the frame, that of a 32-bit pixel lets it stray *)
(* by a row and a cell at most, and that of a fill of rows by the other    *)
(* bytes of the rows it fills (FrameBuffer.c:81-182).                      *)
(***************************************************************************)
THEOREM GuardsSuffice == Spec => GuardedStayInFrame
<1>1. Spec => []FrameThere
  BY InitFrameThere, NextFrameThere, PTL DEF Spec
<1> QED
  BY <1>1, StepStaysInFrame, PTL DEF Spec, GuardedStayInFrame

-----------------------------------------------------------------------------
(* What the operations draw, beside where.                                 *)
(* A place in the frame is a cell of the memory.                           *)
LEMMA CellTyped ==
    ASSUME FrameThere, NEW i \in 0 .. fb.VerticalPixels - 1,
           NEW j \in 0 .. fb.HorizontalPixels - 1
    PROVE  /\ CellOf(i, j) \in DOMAIN memory
           /\ CellOf(i, j) \in Nat
<1> DEFINE H == fb.HorizontalPixels
           V == fb.VerticalPixels
<1>1. H \in Nat /\ V \in Nat /\ FrameCells(fb) \subseteq DOMAIN memory
  BY DEF FrameThere
<1>2. i \in Nat /\ j \in Nat /\ i < V /\ j < H
  BY <1>1
<1>3. H * i + j \in 0 .. H * V - 1 /\ H * i = i * H
  <2> HIDE DEF H, V
  <2>1. H * i + j \in 0 .. H * V - 1
    BY <1>1, <1>2, PlaceInside
  <2>2. H * i = i * H
    BY <1>1, <1>2, SMTT(30)
  <2> QED
    BY <2>1, <2>2
<1>4. CellOf(i, j) \in FrameCells(fb)
  BY <1>3 DEF CellOf, FrameCells
<1>5. CellOf(i, j) \in Nat
  <2>1. H * V \in Int
    BY <1>1
  <2> QED
    BY <1>4, <2>1 DEF FrameCells
<1> QED
  BY <1>1, <1>4, <1>5

(* Bit (i, j) of a bitmap, in its order and in the frame.                  *)
LEMMA BitPlace ==
    ASSUME FrameThere,
           NEW row \in Nat, NEW column \in Nat, NEW P \in Nat, NEW N \in Nat
    PROVE  \A i \in 0 .. N - 1, j \in 0 .. P - 1 :
               /\ i * P + j \in 0 .. P * N - 1
               /\ BitmapCell(fb, row, column, P, i * P + j)
                      = (row + i) * fb.HorizontalPixels + (column + j)
<1> SUFFICES ASSUME NEW i \in 0 .. N - 1, NEW j \in 0 .. P - 1
             PROVE  /\ i * P + j \in 0 .. P * N - 1
                    /\ BitmapCell(fb, row, column, P, i * P + j)
                           = (row + i) * fb.HorizontalPixels + (column + j)
  OBVIOUS
<1> DEFINE n == i * P + j
           H == fb.HorizontalPixels
<1>0. H \in Nat
  BY DEF FrameThere
<1>1. i \in Nat /\ j \in Nat /\ i < N /\ j < P /\ P \in Nat \ {0} /\ N \in Nat \ {0}
  OBVIOUS
<1>2. n \in 0 .. P * N - 1
  <2>1. P * i + j \in 0 .. P * N - 1
    BY <1>1, PlaceInside
  <2>2. P * i = i * P
    BY <1>1, SMTT(30)
  <2> QED
    BY <2>1, <2>2
<1> DEFINE q == n \div P
           s == n % P
<1>3. q \in Nat /\ s \in 0 .. P - 1 /\ n = q * P + s
  <2>1. /\ n \div P \in Nat /\ n \div P < N
        /\ n % P \in Nat /\ n % P < P
        /\ n = (n \div P) * P + (n % P)
    <3> HIDE DEF n
    <3> QED BY <1>1, <1>2, QuotientAndRest
  <2> QED
    BY <1>1, <2>1
<1>4. BitmapCell(fb, row, column, P, n) = H * row + column + n + q * (H - P)
  BY DEF BitmapCell
<1>5. q = i
  <2>1. i * P + j = q * P + s
    BY <1>3
  <2> HIDE DEF q, s, n
  <2> QED
    BY <1>1, <1>3, <2>1, OneQuotient
<1> HIDE DEF q, s
<1>6. H * row + column + (i * P + j) + i * (H - P) = (row + i) * H + (column + j)
  BY <1>0, <1>1, SMTT(30)
<1> QED
  BY <1>2, <1>4, <1>5, <1>6

(* Every bit of a bitmap is one of a row and a column.                     *)
LEMMA BitOf ==
    ASSUME NEW P \in Nat, NEW N \in Nat, NEW n \in 0 .. P * N - 1
    PROVE  \E i \in 0 .. N - 1, j \in 0 .. P - 1 : n = i * P + j
<1>1. P \in Nat \ {0}
  BY SMTT(30)
<1>2. /\ n \div P \in Nat /\ n \div P < N
      /\ n % P \in Nat /\ n % P < P
      /\ n = (n \div P) * P + (n % P)
  BY <1>1, QuotientAndRest
<1>3. n \div P \in 0 .. N - 1 /\ n % P \in 0 .. P - 1
  BY <1>2
<1> QED
  BY <1>2, <1>3

(* What the operation draws (FrameBuffer.c:107-131).                       *)
LEMMA BitmapIsDrawn == ASSUME FrameThere, Bitmap PROVE DrawsBitmap
<1> SUFFICES ASSUME error' = "NoError" PROVE DrawsBitmap
  BY DEF DrawsBitmap, Accepted
<1>1. PICK row \in Coordinates, column \in Coordinates, bitmap \in Bitmaps :
          /\ request' = [operation |-> "bitmap", row |-> row, column |-> column,
                         bitmap |-> bitmap]
          /\ memory' = DrawAligned2ColorBitmapAt(fb, memory, row, column, bitmap,
                                                 "fore", "back").memory
          /\ error' = DrawAligned2ColorBitmapAt(fb, memory, row, column, bitmap,
                                                "fore", "back").error
  BY DEF Bitmap, Call
<1> DEFINE H == fb.HorizontalPixels
           V == fb.VerticalPixels
           P == bitmap.PixelsPerRow
           N == bitmap.NumberOfRows
           bits == bitmap.BitmapDefinition
           dots == 0 .. P * N - 1
           cell(n) == BitmapCell(fb, row, column, P, n)
           cells(bit) == {cell(n) : n \in {k \in dots : bits[k + 1] = bit}}
<1>2. /\ row \in Nat /\ column \in Nat /\ P \in Nat /\ N \in Nat /\ H \in Nat /\ V \in Nat
      /\ row + N < RangeUnsigned /\ column + P < RangeUnsigned
      /\ \A n \in 1 .. P * N : bits[n] \in {0, 1}
  BY CallsAssumption, NoWrapAssumption DEF FrameThere
<1>3. ~BitmapRefused(fb, row, column, bitmap)
  BY <1>1 DEF DrawAligned2ColorBitmapAt, Refused
<1>4. row + N <= V /\ column + P <= H
  <2>1. Unsigned(row + N) = row + N /\ Unsigned(column + P) = column + P
    BY <1>2, InRange
  <2> QED
    BY <1>2, <1>3, <2>1 DEF BitmapRefused
<1>5. memory' = Store(Store(memory, cells(1), "fore"), cells(0), "back")
  BY <1>1, <1>3 DEF DrawAligned2ColorBitmapAt, Done
<1>6. request'.row = row /\ request'.column = column /\ request'.bitmap = bitmap
  BY <1>1
<1> HIDE DEF H, V, P, N, bits, cells
<1>7. \A i \in 0 .. N - 1, j \in 0 .. P - 1 :
          i * P + j \in dots /\ cell(i * P + j) = CellOf(row + i, column + j)
  <2>1. /\ fb.HorizontalPixels \in Nat /\ row \in Nat /\ column \in Nat
        /\ P \in Nat /\ N \in Nat
    BY <1>2 DEF H
  <2> DEFINE Placed(p, rows) ==
                 \A i \in 0 .. rows - 1, j \in 0 .. p - 1 :
                     /\ i * p + j \in 0 .. p * rows - 1
                     /\ BitmapCell(fb, row, column, p, i * p + j)
                            = (row + i) * fb.HorizontalPixels + (column + j)
  <2>2. \A p \in Nat, rows \in Nat : Placed(p, rows)
    <3>1. \A a \in Nat, b \in Nat, p \in Nat, rows \in Nat :
              \A i \in 0 .. rows - 1, j \in 0 .. p - 1 :
                  /\ i * p + j \in 0 .. p * rows - 1
                  /\ BitmapCell(fb, a, b, p, i * p + j)
                         = (a + i) * fb.HorizontalPixels + (b + j)
      BY BitPlace
    <3> QED
      BY <2>1, <3>1, Zenon
  <2>3. Placed(P, N)
    <3> HIDE DEF Placed
    <3> QED BY <2>1, <2>2
  <2> QED
    BY <2>3 DEF CellOf
<1>8. \A n \in dots : \E i \in 0 .. N - 1, j \in 0 .. P - 1 : n = i * P + j
  BY <1>2, BitOf
<1>9. \A i \in 0 .. N - 1, j \in 0 .. P - 1 :
          row + i \in 0 .. V - 1 /\ column + j \in 0 .. H - 1
  BY <1>2, <1>4
<1>10. \A i, i2 \in 0 .. N - 1, j, j2 \in 0 .. P - 1 :
           CellOf(row + i, column + j) = CellOf(row + i2, column + j2) => i = i2 /\ j = j2
  <2> SUFFICES ASSUME NEW i \in 0 .. N - 1, NEW i2 \in 0 .. N - 1,
                      NEW j \in 0 .. P - 1, NEW j2 \in 0 .. P - 1,
                      CellOf(row + i, column + j) = CellOf(row + i2, column + j2)
               PROVE  i = i2 /\ j = j2
    OBVIOUS
  <2> DEFINE a == row + i
             b == column + j
             c == row + i2
             d == column + j2
  <2>1. a \in Nat /\ c \in Nat /\ b \in 0 .. H - 1 /\ d \in 0 .. H - 1 /\ H \in Nat \ {0}
    BY <1>2, <1>9
  <2>2. a * H + b = c * H + d
    BY DEF CellOf, H
  <2>3. a = c /\ b = d
    <3> HIDE DEF a, b, c, d
    <3> QED BY <2>1, <2>2, OneQuotient
  <2> QED
    BY <1>2, <2>3
<1> HIDE DEF dots, cell
<1>11. \A bit : \A c : c \in cells(bit) <=> \E n \in dots : bits[n + 1] = bit /\ c = cell(n)
  BY DEF cells
<1>12. \A i \in 0 .. N - 1, j \in 0 .. P - 1, bit \in {0, 1} :
           CellOf(row + i, column + j) \in cells(bit) <=> bits[i * P + j + 1] = bit
  <2> SUFFICES ASSUME NEW i \in 0 .. N - 1, NEW j \in 0 .. P - 1, NEW bit \in {0, 1}
               PROVE  CellOf(row + i, column + j) \in cells(bit) <=> bits[i * P + j + 1] = bit
    OBVIOUS
  <2> DEFINE n == i * P + j
             c == CellOf(row + i, column + j)
  <2>1. n \in dots /\ cell(n) = c
    BY <1>7
  <2>2. ASSUME NEW n2 \in dots, c = cell(n2) PROVE n2 = n
    <3>1. PICK i2 \in 0 .. N - 1, j2 \in 0 .. P - 1 : n2 = i2 * P + j2
      BY <1>8
    <3>2. cell(n2) = CellOf(row + i2, column + j2)
      BY <1>7, <3>1
    <3>3. i = i2 /\ j = j2
      BY <1>10, <2>2, <3>2
    <3> QED
      BY <3>1, <3>3
  <2> HIDE DEF n, c
  <2>3. c \in cells(bit) <=> bits[n + 1] = bit
    BY <1>11, <2>1, <2>2
  <2> QED
    BY <2>3 DEF n, c
<1>13. \A i \in 0 .. N - 1, j \in 0 .. P - 1 : bits[i * P + j + 1] \in {0, 1}
  <2> SUFFICES ASSUME NEW i \in 0 .. N - 1, NEW j \in 0 .. P - 1
               PROVE  bits[i * P + j + 1] \in {0, 1}
    OBVIOUS
  <2> DEFINE n == i * P + j
  <2>1. n \in 0 .. P * N - 1
    BY <1>7 DEF dots
  <2>2. P * N \in Nat
    BY <1>2
  <2> HIDE DEF n
  <2>3. n + 1 \in 1 .. P * N
    BY <2>1, <2>2
  <2> QED
    BY <1>2, <2>3 DEF n
<1>14. /\ DOMAIN memory \subseteq DOMAIN memory'
       /\ \A c \in DOMAIN memory' : memory'[c] = IF c \in cells(0) THEN "back"
                                                 ELSE IF c \in cells(1) THEN "fore"
                                                 ELSE memory[c]
  BY <1>5 DEF Store
<1>15. \A i \in 0 .. N - 1, j \in 0 .. P - 1 :
           memory'[CellOf(row + i, column + j)]
               = IF bits[i * P + j + 1] = 1 THEN "fore" ELSE "back"
  <2> SUFFICES ASSUME NEW i \in 0 .. N - 1, NEW j \in 0 .. P - 1
               PROVE  memory'[CellOf(row + i, column + j)]
                          = IF bits[i * P + j + 1] = 1 THEN "fore" ELSE "back"
    OBVIOUS
  <2> DEFINE c == CellOf(row + i, column + j)
             bit == bits[i * P + j + 1]
  <2>1. c \in DOMAIN memory'
    BY <1>9, <1>14, CellTyped DEF H, V
  <2>2. bit \in {0, 1} /\ (c \in cells(0) <=> bit = 0) /\ (c \in cells(1) <=> bit = 1)
    BY <1>12, <1>13
  <2> HIDE DEF c, bit
  <2>3. memory'[c] = IF bit = 1 THEN "fore" ELSE "back"
    BY <1>14, <2>1, <2>2
  <2> QED
    BY <2>3 DEF c, bit
<1> DEFINE drawn == {CellOf(row + i, column + j) : i \in 0 .. N - 1, j \in 0 .. P - 1}
<1>16. \A c \in DOMAIN memory \ drawn : memory'[c] = memory[c]
  <2> SUFFICES ASSUME NEW c \in DOMAIN memory, c \notin drawn PROVE memory'[c] = memory[c]
    OBVIOUS
  <2>1. ASSUME NEW bit, c \in cells(bit) PROVE FALSE
    <3>1. PICK n \in dots : c = cell(n)
      BY <1>11, <2>1
    <3>2. PICK i \in 0 .. N - 1, j \in 0 .. P - 1 : n = i * P + j
      BY <1>8
    <3>3. c = CellOf(row + i, column + j)
      BY <1>7, <3>1, <3>2
    <3> QED
      BY <3>3
  <2> HIDE DEF drawn
  <2> QED
    BY <1>14, <2>1
<1> DEFINE r == request'
<1>17. /\ N = r.bitmap.NumberOfRows /\ P = r.bitmap.PixelsPerRow
       /\ bits = r.bitmap.BitmapDefinition /\ row = r.row /\ column = r.column
  BY <1>6 DEF N, P, bits
<1> HIDE DEF r
<1>18. DrawsBitmap
  BY <1>15, <1>16, <1>17 DEF DrawsBitmap, r
<1> QED
  BY <1>18

(* A product below another, by a whole row.                                *)
LEMMA RowBefore ==
    ASSUME NEW H \in Nat, NEW a \in Nat, NEW c \in Nat, NEW b \in 0 .. H - 1, a < c
    PROVE  a * H + b < c * H /\ a * H \in Nat /\ c * H \in Nat
<1>1. a + 1 <= c
  OBVIOUS
<1>2. (a + 1) * H <= c * H /\ (a + 1) * H = a * H + H /\ a * H \in Nat /\ c * H \in Nat
  BY <1>1, SMTT(30)
<1> QED
  BY <1>2

(* What a shift moves (FrameBuffer.c:170-182).                             *)
LEMMA ShiftIsMade == ASSUME FrameThere, Shift PROVE MovesRows
<1> SUFFICES ASSUME error' = "NoError" PROVE MovesRows
  BY DEF MovesRows, Accepted
<1>1. PICK first \in Coordinates, number \in Coordinates, by \in Coordinates :
          /\ request' = [operation |-> "shift", first |-> first, number |-> number, by |-> by]
          /\ memory' = ShiftPixelRowsUp(fb, memory, first, number, by).memory
          /\ error' = ShiftPixelRowsUp(fb, memory, first, number, by).error
  BY DEF Shift, Call
<1> DEFINE H == fb.HorizontalPixels
           V == fb.VerticalPixels
<1>2. /\ first \in Nat /\ number \in Nat /\ by \in Nat /\ H \in Nat /\ V \in Nat
      /\ Unsigned(first + number) = first + number
  BY SumsOfCalls DEF FrameThere
<1>3. /\ ~(Unsigned(first + number) >= V \/ by > first)
      /\ memory' = MoveArray(memory, first * H, (first - by) * H, (V - by) * H)
  BY <1>1 DEF ShiftPixelRowsUp, Refused, Done
<1>4. first + number < V /\ by <= first
  BY <1>2, <1>3
<1>5. ASSUME NEW k \in 0 .. number - 1, NEW j \in 0 .. H - 1
      PROVE  memory'[CellOf(first - by + k, j)] = memory[CellOf(first + k, j)]
  <2> DEFINE to == first - by
             c == CellOf(to + k, j)
             destination == to * H
             count == (V - by) * H
             source == first * H
  <2>1. /\ to \in Nat /\ k \in Nat /\ k < V - by /\ V - by \in Nat
        /\ first + k \in 0 .. V - 1 /\ j \in Nat
    BY <1>2, <1>4
  <2>2. /\ c = to * H + (k * H + j) /\ CellOf(first + k, j) = source + (k * H + j)
        /\ k * H \in Nat /\ destination \in Nat /\ source \in Nat
    <3> HIDE DEF to
    <3>1. (to + k) * H = to * H + k * H /\ k * H \in Nat /\ to * H \in Nat
      BY <1>2, <2>1, SMTT(30)
    <3>2. (first + k) * H = first * H + k * H /\ first * H \in Nat
      BY <1>2, <2>1, SMTT(30)
    <3> QED
      BY <2>1, <3>1, <3>2 DEF CellOf
  <2>3. k * H + j < count /\ count \in Nat
    <3> DEFINE n == V - by
    <3>1. n \in Nat /\ k < n
      BY <2>1
    <3> HIDE DEF n
    <3>2. k * H + j < n * H /\ n * H \in Nat
      BY <1>2, <2>1, <3>1, RowBefore
    <3> QED
      BY <3>2 DEF n
  <2>4. CellOf(first + k, j) \in DOMAIN memory
    BY <1>2, <2>1, CellTyped
  <2> HIDE DEF c, destination, count, source
  <2>5. c = destination + (k * H + j)
    BY <2>2 DEF destination
  <2>6. /\ c \in destination .. destination + count - 1
        /\ MovedFrom(source, destination, c - destination) = CellOf(first + k, j)
    <3>1. destination <= source
      <4> HIDE DEF to
      <4>1. to \in Nat /\ to <= first
        BY <1>2, <1>4, <2>1 DEF to
      <4> QED
        BY <1>2, <4>1, SMTT(30) DEF destination, source
    <3> QED
      BY <2>1, <2>2, <2>3, <2>5, <3>1 DEF MovedFrom
  <2>7. memory' = MoveArray(memory, source, destination, count)
    BY <1>3 DEF source, destination, count
  <2>8. memory'[c] = CellAt(memory, CellOf(first + k, j))
    BY <2>6, <2>7 DEF MoveArray
  <2>9. memory'[c] = memory[CellOf(first + k, j)]
    BY <2>4, <2>8 DEF CellAt
  <2> QED
    BY <2>9 DEF c
<1> QED
  BY <1>1, <1>5 DEF MovesRows

(* What a fill of rows fills (FrameBuffer.c:149-153).                      *)
LEMMA RowsAreFilled == ASSUME FrameThere, FillRows PROVE FillsRows
<1> SUFFICES ASSUME error' = "NoError", fb.BitsPerPixel = 8 PROVE FillsRows
  BY DEF FillsRows, Accepted
<1>1. PICK first \in Coordinates, number \in Coordinates, color \in Colors :
          /\ request' = [operation |-> "fillRows", first |-> first, number |-> number,
                         color |-> color]
          /\ memory' = FillRowsWith(fb, memory, first, number, color).memory
          /\ error' = FillRowsWith(fb, memory, first, number, color).error
  BY DEF FillRows, Call
<1> DEFINE H == fb.HorizontalPixels
           V == fb.VerticalPixels
<1>2. /\ first \in Nat /\ number \in Nat /\ H \in Nat /\ V \in Nat
      /\ Unsigned(first + number) = first + number
      /\ Unsigned(first * H) = first * H
  BY SumsOfCalls DEF FrameThere
<1> DEFINE start == first * H
           count == H * number
<1>3. memory' = FillArray(memory, start, H * number * (8 \div 8), color)
  BY <1>1, <1>2 DEF FillRowsWith, Refused, Done
<1>4. /\ memory' = FillArray(memory, start, count, color)
      /\ start \in Nat /\ count \in Nat /\ start + count = (first + number) * H
  <2>1. H * number * (8 \div 8) = H * number
    BY <1>2, SMTT(30)
  <2>2. first * H \in Nat /\ H * number \in Nat /\ first * H + H * number = (first + number) * H
    BY <1>2, SMTT(30)
  <2> QED
    BY <1>3, <2>1, <2>2
<1>5. ASSUME NEW row \in 0 .. V - 1, NEW j \in 0 .. H - 1
      PROVE  memory'[CellOf(row, j)]
                 = IF row \in first .. first + number - 1 THEN color ELSE memory[CellOf(row, j)]
  <2> DEFINE c == CellOf(row, j)
  <2>1. c \in DOMAIN memory /\ c \in Nat /\ c = row * H + j
    BY CellTyped DEF CellOf
  <2>2. row \in Nat /\ j \in Nat /\ first + number \in Nat /\ row * H \in Nat
    <3>1. row \in Nat /\ j \in Nat /\ first + number \in Nat
      BY <1>2
    <3> QED
      BY <1>2, <3>1, SMTT(30)
  <2> HIDE DEF c, start, count
  <2>3. CASE row < first
    <3>1. c < start
      BY <1>2, <2>1, <2>2, <2>3, RowBefore DEF start
    <3>2. c \notin start .. start + count - 1
      BY <1>4, <2>1, <3>1
    <3>3. memory'[c] = memory[c]
      BY <1>4, <2>1, <3>2 DEF FillArray, Store
    <3> QED
      BY <1>2, <2>2, <2>3, <3>3 DEF c
  <2>4. CASE first <= row /\ row < first + number
    <3>1. c < start + count
      <4> DEFINE end == first + number
      <4>1. end \in Nat /\ row < end
        BY <2>2, <2>4
      <4> HIDE DEF end
      <4>2. c < end * H
        BY <1>2, <2>1, <2>2, <4>1, RowBefore
      <4> QED
        BY <1>4, <4>2 DEF end
    <3>2. c >= start
      <4>1. first * H <= row * H /\ first * H \in Nat
        BY <1>2, <2>2, <2>4, SMTT(30)
      <4> QED
        BY <2>1, <2>2, <4>1 DEF start
    <3>3. c \in start .. start + count - 1
      BY <1>4, <2>1, <3>1, <3>2
    <3>4. memory'[c] = color
      BY <1>4, <2>1, <3>3 DEF FillArray, Store
    <3> QED
      BY <1>2, <2>2, <2>4, <3>4 DEF c
  <2>5. CASE row >= first + number
    <3>1. c >= start + count
      <4> DEFINE end == first + number
      <4>1. end \in Nat /\ end <= row
        BY <2>2, <2>5
      <4> HIDE DEF end
      <4>2. end * H <= row * H /\ end * H \in Nat
        BY <1>2, <2>2, <4>1, SMTT(30)
      <4> QED
        BY <1>4, <2>1, <2>2, <4>2 DEF end
    <3>2. c \notin start .. start + count - 1
      BY <1>4, <2>1, <3>1
    <3>3. memory'[c] = memory[c]
      BY <1>4, <2>1, <3>2 DEF FillArray, Store
    <3> QED
      BY <1>2, <2>2, <2>5, <3>3 DEF c
  <2> QED
    BY <1>2, <2>2, <2>3, <2>4, <2>5
<1> QED
  BY <1>1, <1>5 DEF FillsRows

-----------------------------------------------------------------------------
(* Each step draws, moves or fills what it says.                           *)
LEMMA StepDraws ==
    FrameThere /\ [Next]_vars => [DrawsBitmap]_vars /\ [MovesRows]_vars /\ [FillsRows]_vars
<1> SUFFICES ASSUME FrameThere, Next PROVE DrawsBitmap /\ MovesRows /\ FillsRows
  OBVIOUS
<1>1. /\ request'.operation # "bitmap" => DrawsBitmap
      /\ request'.operation # "shift" => MovesRows
      /\ request'.operation # "fillRows" => FillsRows
  BY DEF DrawsBitmap, MovesRows, FillsRows, Accepted
<1>2. CASE Bitmap
  <2>1. request'.operation = "bitmap"
    BY <1>2 DEF Bitmap, Call
  <2> QED
    BY <1>1, <1>2, <2>1, BitmapIsDrawn
<1>3. CASE Shift
  <2>1. request'.operation = "shift"
    BY <1>3 DEF Shift, Call
  <2> QED
    BY <1>1, <1>3, <2>1, ShiftIsMade
<1>4. CASE FillRows
  <2>1. request'.operation = "fillRows"
    BY <1>4 DEF FillRows, Call
  <2> QED
    BY <1>1, <1>4, <2>1, RowsAreFilled
<1>5. CASE Pixel \/ Line \/ FillAll
  <2>1. request'.operation \in {"pixel", "line", "fillAll"}
    BY <1>5 DEF Pixel, Line, FillAll, Call
  <2> QED
    BY <1>1, <2>1
<1> QED
  BY <1>2, <1>3, <1>4, <1>5 DEF Next

(* Every reachable state has its frame.                                    *)
LEMMA FrameIsThere == Spec => []FrameThere
BY InitFrameThere, NextFrameThere, PTL DEF Spec

(* An accepted bitmap shows its bits, each at its place, and touches       *)
(* nothing else (FrameBuffer.c:107-131).                                   *)
THEOREM BitmapsAreDrawn == Spec => BitmapDrawn
<1>1. FrameThere /\ [Next]_vars => [DrawsBitmap]_vars
  BY StepDraws
<1> QED
  BY <1>1, FrameIsThere, PTL DEF Spec, BitmapDrawn

(* The rows of an accepted shift arrive, whatever overlaps                 *)
(* (FrameBuffer.c:170-182).                                                *)
THEOREM ShiftsMoveRows == Spec => ShiftMovesRows
<1>1. FrameThere /\ [Next]_vars => [MovesRows]_vars
  BY StepDraws
<1> QED
  BY <1>1, FrameIsThere, PTL DEF Spec, ShiftMovesRows

(* An accepted fill of an 8-bit frame fills its rows and no other          *)
(* (FrameBuffer.c:149-168).                                                *)
THEOREM FillsFillRows == Spec => RowsFilled
<1>1. FrameThere /\ [Next]_vars => [FillsRows]_vars
  BY StepDraws
<1> QED
  BY <1>1, FrameIsThere, PTL DEF Spec, RowsFilled
=============================================================================
