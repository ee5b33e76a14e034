-------------------------- MODULE FrameBufferCalls --------------------------
(***************************************************************************)
(* A frame buffer that PopulateFrameBuffer has set up, and any calls of its*)
(* operations.                                                             *)
(***************************************************************************)
EXTENDS FrameBuffer

CONSTANTS
    Frames,         \* the resolutions asked for: [HorizontalPixels, VerticalPixels]
    Coordinates,    \* the rows, columns and numbers of rows callers pass
    LineLengths,
    Bitmaps,
    Colors,
    MaxCalls        \* bound of the model: calls of a behaviour

ASSUME CallsAssumption ==
    /\ Frames \subseteq [HorizontalPixels : Nat, VerticalPixels : Nat]
    /\ Coordinates \subseteq Nat
    /\ LineLengths \subseteq Nat
    /\ \A bitmap \in Bitmaps :
           /\ bitmap.PixelsPerRow \in Nat /\ bitmap.NumberOfRows \in Nat
           /\ \A n \in 1 .. bitmap.PixelsPerRow * bitmap.NumberOfRows :
                  bitmap.BitmapDefinition[n] \in {0, 1}

(* The sums that callers ask for are unsigned ints: a sum that wraps passes*)
(* any guard.                                                              *)
ASSUME NoWrapAssumption ==
    \A i, j \in Coordinates :
        /\ i + j < RangeUnsigned
        /\ \A frame \in Frames : /\ i * frame.HorizontalPixels < RangeUnsigned
                                 /\ \A length \in LineLengths :
                                        i * frame.HorizontalPixels + j + length < RangeUnsigned
        /\ \A bitmap \in Bitmaps : /\ i + bitmap.NumberOfRows < RangeUnsigned
                                   /\ i + bitmap.PixelsPerRow < RangeUnsigned

VARIABLES
    fb,
    memory,
    request,        \* the last call
    error,          \* and what it returned
    calls

vars == <<fb, memory, request, error, calls>>

(* PopulateFrameBuffer knows three depths, each with its own operations.   *)
Populated(frame, bpp) ==
    /\ bpp \in Depths
    /\ fb = [HorizontalPixels |-> frame.HorizontalPixels,
             VerticalPixels   |-> frame.VerticalPixels,
             BitsPerPixel     |-> bpp]

(* Every cell of the frame is told from the others at first.               *)
Init ==
    /\ \E frame \in Frames, bpp \in Depths : Populated(frame, bpp)
    /\ memory = [c \in FrameCells(fb) |-> <<"pixel", c>>]
    /\ request = [operation |-> "none"]
    /\ error = "NoError"
    /\ calls = 0

Call(r, outcome) ==
    /\ calls < MaxCalls
    /\ calls' = calls + 1
    /\ request' = r
    /\ memory' = outcome.memory
    /\ error' = outcome.error
    /\ UNCHANGED fb

Pixel ==
    \E row, column \in Coordinates, color \in Colors :
        Call([operation |-> "pixel", row |-> row, column |-> column, color |-> color],
             DrawPixelAt(fb, memory, row, column, color))

Line ==
    \E row, column \in Coordinates, length \in LineLengths, color \in Colors :
        Call([operation |-> "line", row |-> row, column |-> column, length |-> length,
              color |-> color],
             DrawLineAt(fb, memory, row, column, length, color))

(* Only a 32-bit frame buffer has the operation.                           *)
Bitmap ==
    /\ fb.BitsPerPixel = 32
    /\ \E row, column \in Coordinates, bitmap \in Bitmaps :
        Call([operation |-> "bitmap", row |-> row, column |-> column, bitmap |-> bitmap],
             DrawAligned2ColorBitmapAt(fb, memory, row, column, bitmap, "fore", "back"))

FillAll ==
    \E color \in Colors :
        Call([operation |-> "fillAll", color |-> color], FillAllWith(fb, memory, color))

FillRows ==
    \E first, number \in Coordinates, color \in Colors :
        Call([operation |-> "fillRows", first |-> first, number |-> number, color |-> color],
             FillRowsWith(fb, memory, first, number, color))

Shift ==
    \E first, number, by \in Coordinates :
        Call([operation |-> "shift", first |-> first, number |-> number, by |-> by],
             ShiftPixelRowsUp(fb, memory, first, number, by))

Next == Pixel \/ Line \/ Bitmap \/ FillAll \/ FillRows \/ Shift

Spec == Init /\ [][Next]_vars

-----------------------------------------------------------------------------
Accepted(operation) == calls' # calls /\ request'.operation = operation /\ error' = "NoError"

CellOf(row, column) == row * fb.HorizontalPixels + column

(***************************************************************************)
(* The guards of these operations let no write out of the frame: lines of  *)
(* a 32-bit frame (which may wrap to the next row), bitmaps, fills of the  *)
(* frame, of rows of an 8-bit frame, and shifts to the top row.  Two guards*)
(* let writes stray behind the frame, by so much at most: that of a 32-bit *)
(* pixel by a row and a cell (FrameBuffer.c:82), and that of a fill of rows*)
(* of a 16 or 32-bit frame, whose count is multiplied by the bytes of a    *)
(* pixel, by the other bytes of the rows that are filled (FrameBuffer.c:   *)
(* 156-164).                                                               *)
(***************************************************************************)
Guarded(r) ==
    \/ r.operation = "line" /\ fb.BitsPerPixel = 32
    \/ r.operation \in {"bitmap", "fillAll"}
    \/ r.operation = "fillRows" /\ fb.BitsPerPixel = 8
    \/ r.operation = "shift" /\ r.first = r.by

Strayed == 0 .. fb.HorizontalPixels * (fb.VerticalPixels + 1)

StrayedBy(rows) ==
    0 .. fb.HorizontalPixels * (fb.VerticalPixels + rows * (fb.BitsPerPixel \div 8 - 1)) - 1

StaysInFrame ==
    /\ Guarded(request') => DOMAIN memory' = DOMAIN memory
    /\ request'.operation = "pixel" /\ fb.BitsPerPixel = 32
           => DOMAIN memory' \subseteq DOMAIN memory \cup Strayed
    /\ request'.operation = "fillRows"
           => DOMAIN memory' \subseteq DOMAIN memory \cup StrayedBy(request'.number)

GuardedStayInFrame == [][StaysInFrame]_vars

(***************************************************************************)
(* A bitmap that is accepted shows bit (i, j) at row + i, column + j and   *)
(* touches nothing else, whatever the width of the frame.                  *)
(***************************************************************************)
DrawsBitmap ==
    Accepted("bitmap") =>
        LET r == request'
            P == r.bitmap.PixelsPerRow
            drawn == {CellOf(r.row + i, r.column + j) :
                         i \in 0 .. r.bitmap.NumberOfRows - 1, j \in 0 .. P - 1}
        IN  /\ \A i \in 0 .. r.bitmap.NumberOfRows - 1, j \in 0 .. P - 1 :
                   memory'[CellOf(r.row + i, r.column + j)]
                       = IF r.bitmap.BitmapDefinition[i * P + j + 1] = 1 THEN "fore" ELSE "back"
            /\ \A c \in DOMAIN memory \ drawn : memory'[c] = memory[c]

BitmapDrawn == [][DrawsBitmap]_vars

(***************************************************************************)
(* The rows a shift is asked for arrive where they should, although the    *)
(* source and the destination overlap.                                     *)
(***************************************************************************)
MovesRows ==
    Accepted("shift") =>
        LET r == request'
        IN  \A k \in 0 .. r.number - 1, j \in 0 .. fb.HorizontalPixels - 1 :
                memory'[CellOf(r.first - r.by + k, j)] = memory[CellOf(r.first + k, j)]

ShiftMovesRows == [][MovesRows]_vars

(***************************************************************************)
(* A fill of rows of an 8-bit frame fills those rows and no other.         *)
(***************************************************************************)
FillsRows ==
    Accepted("fillRows") /\ fb.BitsPerPixel = 8 =>
        LET r == request'
        IN  \A row \in 0 .. fb.VerticalPixels - 1, j \in 0 .. fb.HorizontalPixels - 1 :
                memory'[CellOf(row, j)]
                    = IF row \in r.first .. r.first + r.number - 1 THEN r.color
                      ELSE memory[CellOf(row, j)]

RowsFilled == [][FillsRows]_vars
=============================================================================
