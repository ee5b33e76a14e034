---------------------------- MODULE FrameBuffer ----------------------------
(***************************************************************************)
(* FrameBuffer.c: what each operation of a frame buffer does to the video  *)
(* memory.  A cell of the memory is a pixel of the frame buffer's depth;   *)
(* cell 0 is at `origin'.  `memory' starts with the cells of the frame, and*)
(* a write that leaves the frame makes its domain grow.  A colour is a     *)
(* value: the mask the 32-bit operations put on it is left out.            *)
(*                                                                         *)
(* An operation is an operator from the memory to the memory and the error *)
(* it returns, so that the terminal can use it as the kernel does.         *)
(***************************************************************************)
EXTENDS Integers, Sequences

CONSTANTS
    ByteBits,       \* pixels a byte of a bitmap describes: 8
    Range8,         \* values of a uint8_t: 2^8
    Range16,        \* values of a uint16_t: 2^16
    RangeUnsigned,  \* values of an unsigned int: 2^32
    Unknown         \* what memory outside the frame holds

ASSUME WidthAssumption == /\ ByteBits \in Nat \ {0}
                          /\ Range8 \in Nat \ {0}
                          /\ Range16 \in Nat \ {0}
                          /\ RangeUnsigned \in Nat \ {0}

(* Sums and products of unsigned ints wrap; those below are the ones that  *)
(* can leave the range with the arguments callers pass.                    *)
Unsigned(n) == n % RangeUnsigned

Depths == {8, 16, 32}

(* A frame buffer: [HorizontalPixels, VerticalPixels, BitsPerPixel].       *)
FrameCells(fb) == 0 .. fb.HorizontalPixels * fb.VerticalPixels - 1

Done(m)        == [memory |-> m, error |-> "NoError"]
Refused(m, e)  == [memory |-> m, error |-> e]

(* The colour is stored in each of the cells.                              *)
Store(m, cells, color) ==
    [c \in DOMAIN m \cup cells |-> IF c \in cells THEN color ELSE m[c]]

CellAt(m, c) == IF c \in DOMAIN m THEN m[c] ELSE Unknown

(* FillArrayWithRepeatingValue, with elements of a pixel.                  *)
FillShort(m, start, count, color) == Store(m, start .. start + count - 2, color)  \* mutant
FillArray(m, start, count, color) == Store(m, start .. start + count - 1, color)

(* Mutant: the cells are copied from the last to the first.                *)
MoveBackwards(m, source, destination, count) ==
    LET top == destination + count - 1
        by  == source - destination
        moved[c \in DOMAIN m \cup destination .. top] ==
            IF c \notin destination .. top THEN m[c]
            ELSE IF by > 0 /\ c + by <= top THEN moved[c + by]
            ELSE CellAt(m, c + by)
    IN  moved

(* MoveArrayOfBytes, by pixels: it copies upwards, so where the destination*)
(* comes first every source cell is read before it is overwritten; where it*)
(* comes after, the cells between the two are repeated through it.         *)
MovedFrom(source, destination, k) ==
    source + (IF destination > source THEN k % (destination - source) ELSE k)

MoveArray(m, source, destination, count) ==
    [c \in DOMAIN m \cup destination .. destination + count - 1 |->
        IF c \in destination .. destination + count - 1
        THEN CellAt(m, MovedFrom(source, destination, c - destination))
        ELSE m[c]]

-----------------------------------------------------------------------------
(* The drawing guards, which let a row or a column through that is one     *)
(* beyond the frame.                                                       *)
BeyondFrame(fb, row, column) == row > fb.VerticalPixels \/ column > fb.HorizontalPixels

(* The rows of an 8 or 16-bit frame are taken to be VerticalPixels long.   *)
PixelStride(fb) == IF fb.BitsPerPixel = 32 THEN fb.HorizontalPixels ELSE fb.VerticalPixels

DrawPixelAt(fb, m, row, column, color) ==
    IF BeyondFrame(fb, row, column) THEN Refused(m, "ErrorInvalidParameter")
    ELSE Done(Store(m, {PixelStride(fb) * row + column}, color))

(* The offset of a line is kept in as many bits as a pixel has.            *)
LineOffset(fb, row, column) ==
    LET offset == row * fb.HorizontalPixels + column
    IN  CASE fb.BitsPerPixel = 8  -> offset % Range8
          [] fb.BitsPerPixel = 16 -> offset % Range16
          [] OTHER                -> Unsigned(offset)

DrawLineAt(fb, m, row, column, length, color) ==
    LET offset == LineOffset(fb, row, column)
    IN  IF fb.BitsPerPixel # 8 /\ BeyondFrame(fb, row, column)
        THEN Refused(m, "ErrorInvalidParameter")
        ELSE IF /\ fb.BitsPerPixel = 32
                /\ Unsigned(offset + length) >= fb.HorizontalPixels * fb.VerticalPixels
        THEN Refused(m, "ErrorWouldCauseOverflow")
        ELSE Done(FillArray(m, offset, length, color))

(* Where bit n of a bitmap of P bits a row goes: the rest of the frame's   *)
(* row is skipped after each row of the bitmap.                            *)
SkewedCell(fb, row, column, P, n) ==            \* mutant: a whole row is skipped
    fb.HorizontalPixels * row + column + n + (n \div P) * fb.HorizontalPixels
BitmapCell(fb, row, column, P, n) ==
    fb.HorizontalPixels * row + column + n + (n \div P) * (fb.HorizontalPixels - P)

(***************************************************************************)
(* A bitmap is [PixelsPerRow, NumberOfRows, BitmapDefinition], the bits of *)
(* its definition in order.                                                *)
(***************************************************************************)
BitmapRefusedByRow(fb, row, column, bitmap) ==  \* mutant: columns are not looked at
    \/ Unsigned(row + bitmap.NumberOfRows) > fb.VerticalPixels
    \/ bitmap.PixelsPerRow % ByteBits # 0
BitmapRefused(fb, row, column, bitmap) ==
    \/ Unsigned(row + bitmap.NumberOfRows) > fb.VerticalPixels
    \/ Unsigned(column + bitmap.PixelsPerRow) > fb.HorizontalPixels
    \/ bitmap.PixelsPerRow % ByteBits # 0

DrawAligned2ColorBitmapAt(fb, m, row, column, bitmap, foreground, background) ==
    LET P         == bitmap.PixelsPerRow
        drawn     == 0 .. P * bitmap.NumberOfRows - 1
        cells(on) == {BitmapCell(fb, row, column, P, n) :
                         n \in {k \in drawn : bitmap.BitmapDefinition[k + 1] = on}}
    IN  IF BitmapRefused(fb, row, column, bitmap)
        THEN Refused(m, "ErrorInvalidParameter")
        ELSE Done(Store(Store(m, cells(1), foreground), cells(0), background))

FillAllBytes(fb, m, color) ==                   \* mutant: counts bytes for pixels
    Done(FillArray(m, 0, fb.HorizontalPixels * fb.VerticalPixels * (fb.BitsPerPixel \div 8),
                   color))
FillAllWith(fb, m, color) ==
    Done(FillArray(m, 0, fb.HorizontalPixels * fb.VerticalPixels, color))

(* The number of pixels is multiplied by their size, though it counts      *)
(* elements already.                                                       *)
FillRowsWith(fb, m, firstRowToFill, numberOfRowsToFill, color) ==
    IF Unsigned(firstRowToFill + numberOfRowsToFill) >= fb.VerticalPixels
    THEN Refused(m, "ErrorWouldCauseOverflow")
    ELSE Done(FillArray(m, Unsigned(firstRowToFill * fb.HorizontalPixels),
                        fb.HorizontalPixels * numberOfRowsToFill * (fb.BitsPerPixel \div 8),
                        color))

(* The rows that are moved are all that could come from below, and not the *)
(* number asked for.                                                       *)
ShiftPixelRowsUp(fb, m, firstRowToShift, numberOfRowsToShift, numberOfRowsByWhichToShift) ==
    IF \/ Unsigned(firstRowToShift + numberOfRowsToShift) >= fb.VerticalPixels
       \/ numberOfRowsByWhichToShift > firstRowToShift
    THEN Refused(m, "ErrorWouldCauseOverflow")
    ELSE Done(MoveArray(m, firstRowToShift * fb.HorizontalPixels,
                        (firstRowToShift - numberOfRowsByWhichToShift) * fb.HorizontalPixels,
                        (fb.VerticalPixels - numberOfRowsByWhichToShift) * fb.HorizontalPixels))
=============================================================================
