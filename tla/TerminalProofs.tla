--------------------------- MODULE TerminalProofs ---------------------------
(***************************************************************************)
(* What holds of the terminal for every frame that has room for a glyph,   *)
(* every font and every string: the cursor never leaves the screen, the    *)
(* frame buffer never refuses a glyph, and what is written is the frame    *)
(* until the screen scrolls.  Then the same of formatted output, which is  *)
(* PutRuneString of the text, whatever the chunks, and what both show.     *)
(***************************************************************************)
EXTENDS TerminalOutput, TextTerminalScreen, FrameBufferProofs, SequenceTheorems

(* A whole number of glyphs that starts before the last one ends in time.  *)
LEMMA GlyphFits ==
    ASSUME NEW pixels \in Nat, NEW glyph \in Nat \ {0}, NEW k \in Nat,
           k < pixels \div glyph
    PROVE  k * glyph + glyph <= pixels
<1> DEFINE q == pixels \div glyph
<1>1. q \in Nat /\ q * glyph <= pixels
  BY SMTT(30)
<1>2. k + 1 <= q
  BY <1>1
<1> HIDE DEF q
<1>3. (k + 1) * glyph <= q * glyph
  BY <1>1, <1>2, SMTT(30)
<1> QED
  BY <1>1, <1>3, SMTT(30)

(* A frame that has room for a glyph has a column of them.                 *)
LEMMA SomeGlyphFits ==
    ASSUME NEW pixels \in Nat, NEW glyph \in Nat \ {0}, pixels >= glyph
    PROVE  pixels \div glyph \in Nat \ {0}
BY SMTT(30)

(* A multiple of the bits of a byte is a whole number of bytes.            *)
LEMMA WholeBytes ==
    ASSUME NEW bytes \in Nat \ {0}, NEW bits \in Nat \ {0}
    PROVE  bytes * bits \in Nat \ {0} /\ (bytes * bits) % bits = 0
BY SMTT(30)

(* Four runes put before a string make a string.                           *)
LEMMA FourBefore ==
    ASSUME NEW R, NEW r \in R, NEW s \in Seq(R)
    PROVE  <<r, r, r, r>> \o s \in Seq(R)
<1>1. <<r, r, r, r>> \in Seq(R)
  OBVIOUS
<1> QED
  BY <1>1

(* The constants the cursor is compared with.                              *)
LEMMA ScreenSize ==
    ASSUME fb \in FrameBuffers, RoomForGlyph
    PROVE  /\ glyphPixelWidth \in Nat \ {0}
           /\ glyphPixelHeight \in Nat \ {0}
           /\ glyphPixelWidth % ByteBits = 0
           /\ glyphColumnsInFrameBuffer \in Nat \ {0}
           /\ glyphRowsInFrameBuffer \in Nat \ {0}
<1>1. /\ glyphPixelWidth \in Nat \ {0}
      /\ glyphPixelHeight \in Nat \ {0}
      /\ glyphPixelWidth % ByteBits = 0
  BY FontAssumption, WidthAssumption, WholeBytes DEF glyphPixelWidth, glyphPixelHeight
<1>2. fb.HorizontalPixels \in Nat /\ fb.VerticalPixels \in Nat
  BY DEF FrameBuffers
<1>3. glyphColumnsInFrameBuffer \in Nat \ {0}
  BY <1>1, <1>2, SomeGlyphFits DEF RoomForGlyph, glyphColumnsInFrameBuffer
<1>4. glyphRowsInFrameBuffer \in Nat \ {0}
  BY <1>1, <1>2, SomeGlyphFits DEF RoomForGlyph, glyphRowsInFrameBuffer
<1> QED
  BY <1>1, <1>3, <1>4

(* The memory stays a function of cells, whatever is filled or moved.      *)
LEMMA ScrollKeepsCells ==
    ASSUME NEW m, DOMAIN m \subseteq Int
    PROVE  DOMAIN ScrolledMemory(m) \subseteq Int
<1> DEFINE shifted == ShiftPixelRowsUp(fb, m, glyphPixelHeight,
                                       fb.VerticalPixels - glyphPixelHeight, glyphPixelHeight)
<1>1. DOMAIN shifted.memory \subseteq Int
  BY DEF ShiftPixelRowsUp, Refused, Done, MoveArray
<1> HIDE DEF shifted
<1>2. ScrolledMemory(m) = FillRowsWith(fb, shifted.memory,
                              Unsigned(fb.VerticalPixels - glyphPixelHeight - 1),
                              glyphPixelHeight, backgroundColor).memory
  BY DEF ScrolledMemory, shifted
<1> QED
  BY <1>1, <1>2 DEF FillRowsWith, Refused, Done, FillArray, Store

(* A glyph at a cursor that is on the screen is accepted.                  *)
LEMMA GlyphAccepted ==
    ASSUME IndInv, NEW rune
    PROVE  LET drawn == DrawAligned2ColorBitmapAt(fb, memory,
                            cursorY * glyphPixelHeight, cursorX * glyphPixelWidth,
                            GlyphBitmap(rune), foregroundColor, backgroundColor)
           IN  /\ drawn.error = "NoError"
               /\ DOMAIN drawn.memory \subseteq Int
               /\ DOMAIN memory = FrameCells(fb) => DOMAIN drawn.memory = FrameCells(fb)
<1> DEFINE row == cursorY * glyphPixelHeight
           column == cursorX * glyphPixelWidth
           P == glyphPixelWidth
           bitmap == GlyphBitmap(rune)
           drawn == DrawAligned2ColorBitmapAt(fb, memory, row, column, bitmap,
                                              foregroundColor, backgroundColor)
<1>1. /\ P \in Nat \ {0} /\ glyphPixelHeight \in Nat \ {0} /\ P % ByteBits = 0
      /\ fb.HorizontalPixels \in Nat /\ fb.VerticalPixels \in Nat
      /\ cursorX \in Nat /\ cursorY \in Nat
      /\ DOMAIN memory \subseteq Int
  BY ScreenSize DEF IndInv, TypeOK, FrameBuffers
<1>2. row + glyphPixelHeight <= fb.VerticalPixels
  BY <1>1, GlyphFits DEF IndInv, CursorOnScreen, glyphRowsInFrameBuffer
<1>3. column + P <= fb.HorizontalPixels
  BY <1>1, GlyphFits DEF IndInv, CursorOnScreen, glyphColumnsInFrameBuffer
<1>4. row \in Nat /\ column \in Nat
  BY <1>1
<1>4a. /\ row + glyphPixelHeight < RangeUnsigned /\ column + P < RangeUnsigned
       /\ Unsigned(row + glyphPixelHeight) = row + glyphPixelHeight
       /\ Unsigned(column + P) = column + P
  <2>1. fb.HorizontalPixels < RangeUnsigned /\ fb.VerticalPixels < RangeUnsigned
    BY WidthAssumption DEF IndInv, TypeOK, FrameBuffers
  <2> HIDE DEF row, column, P
  <2>2. row + glyphPixelHeight \in Nat /\ row + glyphPixelHeight < RangeUnsigned
    BY <1>1, <1>2, <1>4, <2>1, WidthAssumption
  <2>3. column + P \in Nat /\ column + P < RangeUnsigned
    BY <1>1, <1>3, <1>4, <2>1, WidthAssumption
  <2> QED
    BY <2>2, <2>3, InRange
<1>5. bitmap.PixelsPerRow = P /\ bitmap.NumberOfRows = glyphPixelHeight
  BY DEF GlyphBitmap
<1> DEFINE cell(n) == BitmapCell(fb, row, column, P, n)
           dots == 0 .. P * glyphPixelHeight - 1
           cells(on) == {cell(n) : n \in {k \in dots : bitmap.BitmapDefinition[k + 1] = on}}
<1> HIDE DEF row, column, P, bitmap
<1>6. drawn = Done(Store(Store(memory, cells(1), foregroundColor), cells(0), backgroundColor))
  BY <1>1, <1>2, <1>3, <1>4, <1>5, <1>4a DEF DrawAligned2ColorBitmapAt, BitmapRefused
<1>7. \A n \in dots : cell(n) \in Int
  BY <1>1, <1>4 DEF BitmapCell
<1>8. cells(1) \subseteq Int /\ cells(0) \subseteq Int
  <2> HIDE DEF cell, dots
  <2> QED BY <1>7
<1> HIDE DEF cells
<1>9. drawn.error = "NoError" /\ DOMAIN drawn.memory \subseteq Int
  BY <1>1, <1>6, <1>8 DEF Done, Store
<1>10. DOMAIN memory = FrameCells(fb) => DOMAIN drawn.memory = FrameCells(fb)
  <2> HIDE DEF drawn
  <2>1. FrameCells(fb) \subseteq DOMAIN memory => DOMAIN drawn.memory = DOMAIN memory
    BY <1>1, <1>4, <1>4a, <1>5, BitmapKeepsCells DEF drawn
  <2> QED
    BY <2>1
<1> HIDE DEF drawn
<1>11. /\ drawn.error = "NoError" /\ DOMAIN drawn.memory \subseteq Int
       /\ DOMAIN memory = FrameCells(fb) => DOMAIN drawn.memory = FrameCells(fb)
  BY <1>9, <1>10
<1> QED
  BY <1>11 DEF drawn, row, column, P, bitmap

(* Going to the next line keeps the cursor on the screen.                  *)
LEMMA NextLineKeepsCursor ==
    ASSUME IndInv, NEW m, DOMAIN m \subseteq Int, NextLine(m), UNCHANGED fb,
           DOMAIN memory = FrameCells(fb) => DOMAIN m = FrameCells(fb)
    PROVE  /\ cursorX' \in Nat /\ cursorY' \in Nat /\ scrolled' \in BOOLEAN
           /\ DOMAIN memory' \subseteq Int
           /\ CursorOnScreen'
           /\ WritesFrameOnly'
<1>1. /\ glyphColumnsInFrameBuffer \in Nat \ {0} /\ glyphRowsInFrameBuffer \in Nat \ {0}
      /\ glyphColumnsInFrameBuffer' = glyphColumnsInFrameBuffer
      /\ glyphRowsInFrameBuffer' = glyphRowsInFrameBuffer
  BY ScreenSize DEF IndInv, TypeOK, glyphColumnsInFrameBuffer, glyphRowsInFrameBuffer
<1>2. cursorX \in Nat /\ cursorY \in Nat /\ scrolled \in BOOLEAN
  BY DEF IndInv, TypeOK
<1>3. DOMAIN memory' \subseteq Int
  BY ScrollKeepsCells DEF NextLine
<1>4. scrolled' \in BOOLEAN
  BY <1>2, Zenon DEF NextLine
<1>5. cursorX' = 0 /\ cursorY' \in Nat /\ cursorY' < glyphRowsInFrameBuffer
  <2>1. CASE OnLastLine
    BY <1>1, <1>2, <2>1 DEF NextLine
  <2>2. CASE ~OnLastLine
    BY <1>1, <1>2, <2>2 DEF NextLine, OnLastLine
  <2> QED
    BY <2>1, <2>2
<1>6. WritesFrameOnly'
  <2>1. CASE OnLastLine
    BY <2>1 DEF NextLine, WritesFrameOnly
  <2>2. CASE ~OnLastLine
    BY <2>2 DEF NextLine, WritesFrameOnly, IndInv, FrameCells
  <2> QED
    BY <2>1, <2>2
<1> QED
  BY <1>1, <1>3, <1>4, <1>5, <1>6 DEF CursorOnScreen

(* Initially the cursor is on the first place of the screen.               *)
LEMMA InitIndInv == Init => IndInv
<1> SUFFICES ASSUME Init PROVE IndInv
  OBVIOUS
<1>1. fb \in FrameBuffers /\ RoomForGlyph
  BY FramesAssumption DEF Init, FrameBuffers, RoomForGlyph, glyphPixelWidth, glyphPixelHeight
<1>2. glyphColumnsInFrameBuffer \in Nat \ {0} /\ glyphRowsInFrameBuffer \in Nat \ {0}
  BY <1>1, ScreenSize
<1>3. DOMAIN memory \subseteq Int
  BY DEF Init, FrameCells
<1>4. cursorX = 0 /\ cursorY = 0 /\ string = <<>> /\ error = "NoError"
  BY DEF Init
<1>5. scrolled \in BOOLEAN
  BY DEF Init
<1>6. TypeOK
  BY <1>1, <1>3, <1>4, <1>5 DEF TypeOK
<1>7. CursorOnScreen
  BY <1>2, <1>4 DEF CursorOnScreen
<1>8. WritesFrameOnly
  BY DEF Init, WritesFrameOnly
<1> QED
  BY <1>1, <1>4, <1>6, <1>7, <1>8 DEF IndInv, GlyphsAccepted

(* Every step keeps the invariant: a case per action.                      *)
LEMMA NextIndInv == IndInv /\ [Next]_vars => IndInv'
<1> SUFFICES ASSUME IndInv, [Next]_vars PROVE IndInv'
  OBVIOUS
<1>a. /\ fb \in FrameBuffers /\ RoomForGlyph
      /\ glyphColumnsInFrameBuffer \in Nat \ {0} /\ glyphRowsInFrameBuffer \in Nat \ {0}
  BY ScreenSize DEF IndInv, TypeOK
<1>b. UNCHANGED fb => /\ glyphColumnsInFrameBuffer' = glyphColumnsInFrameBuffer
                      /\ glyphRowsInFrameBuffer' = glyphRowsInFrameBuffer
                      /\ RoomForGlyph'
                      /\ UNCHANGED <<memory, scrolled>> => WritesFrameOnly'
  BY <1>a DEF IndInv, WritesFrameOnly, FrameCells, glyphColumnsInFrameBuffer, glyphRowsInFrameBuffer, RoomForGlyph
<1>c. string # <<>> => Tail(string) \in Seq(GlyphRunes \cup ControlRunes)
  BY DEF IndInv, TypeOK
<1>1. CASE PutGlyph
  <2> DEFINE rune == Head(string)
             drawn == DrawAligned2ColorBitmapAt(fb, memory,
                          cursorY * glyphPixelHeight, cursorX * glyphPixelWidth,
                          GlyphBitmap(rune), foregroundColor, backgroundColor)
  <2>1. /\ drawn.error = "NoError" /\ DOMAIN drawn.memory \subseteq Int
        /\ DOMAIN memory = FrameCells(fb) => DOMAIN drawn.memory = FrameCells(fb)
    BY GlyphAccepted
  <2>2. /\ error' = drawn.error
        /\ IF OnLastColumn
           THEN NextLine(drawn.memory)
           ELSE /\ cursorX' = cursorX + 1
                /\ memory' = drawn.memory
                /\ UNCHANGED <<cursorY, scrolled>>
        /\ string' = Tail(string) /\ string # <<>>
        /\ UNCHANGED fb
    BY <1>1 DEF PutGlyph, DrawGlyph
  <2> HIDE DEF drawn
  <2>3. /\ cursorX' \in Nat /\ cursorY' \in Nat /\ scrolled' \in BOOLEAN
        /\ DOMAIN memory' \subseteq Int
        /\ CursorOnScreen' /\ WritesFrameOnly'
    <3>1. CASE OnLastColumn
      BY <2>1, <2>2, <3>1, NextLineKeepsCursor
    <3>2. CASE ~OnLastColumn
      BY <1>a, <1>b, <2>1, <2>2, <3>2
         DEF OnLastColumn, IndInv, TypeOK, CursorOnScreen, WritesFrameOnly, FrameCells
    <3> QED
      BY <3>1, <3>2
  <2> QED
    BY <1>a, <1>b, <1>c, <2>1, <2>2, <2>3 DEF IndInv, TypeOK, GlyphsAccepted
<1>2. CASE PutTab
  <2> DEFINE R == GlyphRunes \cup ControlRunes
  <2>1. Tail(string) \in Seq(R) /\ string' = <<" ", " ", " ", " ">> \o Tail(string)
    BY <1>2, <1>c DEF PutTab
  <2>2. " " \in R
    BY FontAssumption
  <2> HIDE DEF R
  <2>3. <<" ", " ", " ", " ">> \o Tail(string) \in Seq(R)
    BY <2>1, <2>2, FourBefore, Zenon
  <2>4. string' \in Seq(R)
    BY <2>1, <2>3
  <2> QED
    BY <1>2, <1>a, <1>b, <2>4 DEF R, PutTab, IndInv, TypeOK, CursorOnScreen, GlyphsAccepted
<1>3. CASE PutLineFeed
  <2>1. /\ string # <<>> /\ NextLine(memory) /\ string' = Tail(string)
        /\ UNCHANGED <<fb, error>>
    BY <1>3 DEF PutLineFeed
  <2>2. /\ cursorX' \in Nat /\ cursorY' \in Nat /\ scrolled' \in BOOLEAN
        /\ DOMAIN memory' \subseteq Int
        /\ CursorOnScreen' /\ WritesFrameOnly'
    BY <2>1, NextLineKeepsCursor DEF IndInv, TypeOK
  <2> QED
    BY <1>a, <1>b, <1>c, <2>1, <2>2 DEF IndInv, TypeOK, GlyphsAccepted
<1>4. CASE PutBackspace
  BY <1>4, <1>a, <1>b, <1>c DEF PutBackspace, IndInv, TypeOK, CursorOnScreen, GlyphsAccepted
<1>5. CASE PutRuneString
  BY <1>5, <1>a, <1>b, StringsAssumption
     DEF PutRuneString, IndInv, TypeOK, CursorOnScreen, GlyphsAccepted
<1>6. CASE Clear
  <2>1. DOMAIN memory' \subseteq Int
    BY <1>6 DEF Clear, FillAllWith, Done, FillArray, Store, IndInv, TypeOK
  <2>2. WritesFrameOnly'
    <3>1. fb.HorizontalPixels \in Nat /\ fb.VerticalPixels \in Nat
      BY <1>a DEF FrameBuffers
    <3>2. FrameCells(fb) \subseteq DOMAIN memory => DOMAIN memory' = DOMAIN memory
      BY <1>6, <3>1, FillAllKeepsCells DEF Clear
    <3> QED
      BY <1>6, <3>2 DEF Clear, IndInv, WritesFrameOnly, FrameCells
  <2> QED
    BY <1>6, <1>a, <1>b, <2>1, <2>2 DEF Clear, IndInv, TypeOK, CursorOnScreen, GlyphsAccepted
<1>7. CASE UNCHANGED vars
  BY <1>7, <1>b DEF vars, IndInv, TypeOK, CursorOnScreen, GlyphsAccepted
<1> QED
  BY <1>1, <1>2, <1>3, <1>4, <1>5, <1>6, <1>7 DEF Next, PutRune

-----------------------------------------------------------------------------
(* The invariant holds in every reachable state.                           *)
THEOREM Invariance == Spec => []IndInv
<1>1. Init => IndInv
  BY InitIndInv
<1>2. IndInv /\ [Next]_vars => IndInv'
  BY NextIndInv
<1> QED
  BY <1>1, <1>2, PTL DEF Spec

(* The cursor is on the screen, for every frame that has room for a glyph  *)
(* and every string put (TextTerminal.c:9-35).                             *)
THEOREM CursorStaysOnScreen == Spec => []CursorOnScreen
<1>1. IndInv => CursorOnScreen
  BY DEF IndInv
<1> QED
  BY <1>1, Invariance, PTL

(* The error PutRune ignores is never there (TextTerminal.c:45).           *)
THEOREM NoGlyphRefused == Spec => []GlyphsAccepted
<1>1. IndInv => GlyphsAccepted
  BY DEF IndInv
<1> QED
  BY <1>1, Invariance, PTL

(* As long as no line is left at the bottom, no cell outside the frame is  *)
(* written (TextTerminal.c:9-57).                                          *)
THEOREM FrameOnlyWritten == Spec => []WritesFrameOnly
<1>1. IndInv => WritesFrameOnly
  BY DEF IndInv
<1> QED
  BY <1>1, Invariance, PTL

-----------------------------------------------------------------------------
(* Formatted output: chunks of the text instead of whole strings.          *)

Runes == GlyphRunes \cup ControlRunes

(* The operations of the frame buffer are the same under the mapping.      *)
LEMMA SameFrameBuffer ==
    /\ \A n : Whole!Unsigned(n) = Unsigned(n)
    /\ \A m, f, color : Whole!FillAllWith(f, m, color) = FillAllWith(f, m, color)
    /\ \A m, f, first, rows, color :
           Whole!FillRowsWith(f, m, first, rows, color) = FillRowsWith(f, m, first, rows, color)
    /\ \A m, f, first, rows, by :
           Whole!ShiftPixelRowsUp(f, m, first, rows, by) = ShiftPixelRowsUp(f, m, first, rows, by)
    /\ \A m, f, row, column, bitmap, on, off :
           Whole!DrawAligned2ColorBitmapAt(f, m, row, column, bitmap, on, off)
               = DrawAligned2ColorBitmapAt(f, m, row, column, bitmap, on, off)
<1>1. \A n : Whole!Unsigned(n) = Unsigned(n)
  BY Zenon DEF Whole!Unsigned, Unsigned
<1>2. \A m : Whole!Done(m) = Done(m)
  BY Zenon DEF Whole!Done, Done
<1>3. \A m, e : Whole!Refused(m, e) = Refused(m, e)
  BY Zenon DEF Whole!Refused, Refused
<1>4. \A m, cells, color : Whole!Store(m, cells, color) = Store(m, cells, color)
  BY Zenon DEF Whole!Store, Store
<1>5. \A m, start, count, color :
          Whole!FillArray(m, start, count, color) = FillArray(m, start, count, color)
  BY <1>4, Zenon DEF Whole!FillArray, FillArray
<1>6. \A m, c : Whole!CellAt(m, c) = CellAt(m, c)
  BY Zenon DEF Whole!CellAt, CellAt
<1>7. \A m, source, destination, count :
          Whole!MoveArray(m, source, destination, count) = MoveArray(m, source, destination, count)
  <2>1. \A source, destination, k :
            Whole!MovedFrom(source, destination, k) = MovedFrom(source, destination, k)
    BY Zenon DEF Whole!MovedFrom, MovedFrom
  <2> QED
    BY <1>6, <2>1, Zenon DEF Whole!MoveArray, MoveArray
<1>8. \A f, row, column, P, n :
          Whole!BitmapCell(f, row, column, P, n) = BitmapCell(f, row, column, P, n)
  BY Zenon DEF Whole!BitmapCell, BitmapCell
<1>9. \A f, row, column, bitmap :
          Whole!BitmapRefused(f, row, column, bitmap) = BitmapRefused(f, row, column, bitmap)
  BY <1>1, Zenon DEF Whole!BitmapRefused, BitmapRefused
<1>10. \A m, f, color : Whole!FillAllWith(f, m, color) = FillAllWith(f, m, color)
  BY <1>1, <1>2, <1>3, <1>5, Zenon DEF Whole!FillAllWith, FillAllWith
<1>11. \A m, f, first, rows, color :
          Whole!FillRowsWith(f, m, first, rows, color) = FillRowsWith(f, m, first, rows, color)
  BY <1>1, <1>2, <1>3, <1>5, Zenon DEF Whole!FillRowsWith, FillRowsWith
<1>12. \A m, f, first, rows, by :
           Whole!ShiftPixelRowsUp(f, m, first, rows, by) = ShiftPixelRowsUp(f, m, first, rows, by)
  <2> SUFFICES ASSUME NEW m, NEW f, NEW first, NEW rows, NEW by
               PROVE  Whole!ShiftPixelRowsUp(f, m, first, rows, by)
                          = ShiftPixelRowsUp(f, m, first, rows, by)
    OBVIOUS
  <2> DEFINE moved == MoveArray(m, first * f.HorizontalPixels,
                                (first - by) * f.HorizontalPixels,
                                (f.VerticalPixels - by) * f.HorizontalPixels)
  <2>1. Whole!Unsigned(first + rows) = Unsigned(first + rows)
    BY <1>1, Zenon
  <2>2. Whole!MoveArray(m, first * f.HorizontalPixels, (first - by) * f.HorizontalPixels,
                        (f.VerticalPixels - by) * f.HorizontalPixels) = moved
    BY <1>7, Zenon
  <2>3. Whole!Done(moved) = Done(moved)
    BY <1>2, Zenon
  <2>4. Whole!Refused(m, "ErrorWouldCauseOverflow") = Refused(m, "ErrorWouldCauseOverflow")
    BY <1>3, Zenon
  <2> QED
    BY <2>1, <2>2, <2>3, <2>4, Zenon DEF Whole!ShiftPixelRowsUp, ShiftPixelRowsUp
<1>13. \A m, f, row, column, bitmap, on, off :
           Whole!DrawAligned2ColorBitmapAt(f, m, row, column, bitmap, on, off)
               = DrawAligned2ColorBitmapAt(f, m, row, column, bitmap, on, off)
  <2> SUFFICES ASSUME NEW m, NEW f, NEW row, NEW column, NEW bitmap, NEW on, NEW off
               PROVE  Whole!DrawAligned2ColorBitmapAt(f, m, row, column, bitmap, on, off)
                          = DrawAligned2ColorBitmapAt(f, m, row, column, bitmap, on, off)
    OBVIOUS
  <2> DEFINE P == bitmap.PixelsPerRow
             dots(bit) == {k \in 0 .. P * bitmap.NumberOfRows - 1 :
                              bitmap.BitmapDefinition[k + 1] = bit}
             cells(bit) == {BitmapCell(f, row, column, P, n) : n \in dots(bit)}
             wholeCells(bit) == {Whole!BitmapCell(f, row, column, P, n) : n \in dots(bit)}
             drawn == Store(Store(m, cells(1), on), cells(0), off)
             wholeDrawn == Whole!Store(Whole!Store(m, wholeCells(1), on), wholeCells(0), off)
  <2>1. wholeCells(1) = cells(1) /\ wholeCells(0) = cells(0)
    <3> HIDE DEF dots
    <3> QED BY <1>8, Zenon
  <2>2. /\ Whole!DrawAligned2ColorBitmapAt(f, m, row, column, bitmap, on, off)
              = IF Whole!BitmapRefused(f, row, column, bitmap)
                THEN Whole!Refused(m, "ErrorInvalidParameter")
                ELSE Whole!Done(wholeDrawn)
        /\ DrawAligned2ColorBitmapAt(f, m, row, column, bitmap, on, off)
              = IF BitmapRefused(f, row, column, bitmap)
                THEN Refused(m, "ErrorInvalidParameter")
                ELSE Done(drawn)
    BY Zenon DEF Whole!DrawAligned2ColorBitmapAt, DrawAligned2ColorBitmapAt
  <2> HIDE DEF dots, cells, wholeCells
  <2>3. wholeDrawn = drawn
    BY <1>4, <2>1, Zenon
  <2> HIDE DEF drawn, wholeDrawn
  <2> QED
    BY <1>2, <1>3, <1>9, <2>2, <2>3, Zenon
<1> QED
  BY <1>1, <1>10, <1>11, <1>12, <1>13, Zenon

(* So are the cursor's.                                                    *)
LEMMA SameCursor ==
    /\ \A m : Whole!NextLine(m) <=> NextLine(m)
    /\ \A rune : Whole!DrawGlyph(rune) <=> DrawGlyph(rune)
<1>1. /\ Whole!glyphPixelWidth = glyphPixelWidth
      /\ Whole!glyphPixelHeight = glyphPixelHeight
      /\ Whole!backgroundColor = backgroundColor
      /\ Whole!foregroundColor = foregroundColor
  BY Zenon DEF Whole!glyphPixelWidth, Whole!glyphPixelHeight, Whole!backgroundColor,
               Whole!foregroundColor, glyphPixelWidth, glyphPixelHeight, backgroundColor,
               foregroundColor
<1>2. /\ Whole!glyphColumnsInFrameBuffer = glyphColumnsInFrameBuffer
      /\ Whole!glyphRowsInFrameBuffer = glyphRowsInFrameBuffer
  BY <1>1, Zenon DEF Whole!glyphColumnsInFrameBuffer, Whole!glyphRowsInFrameBuffer,
                     glyphColumnsInFrameBuffer, glyphRowsInFrameBuffer
<1>3. (Whole!OnLastLine <=> OnLastLine) /\ (Whole!OnLastColumn <=> OnLastColumn)
  BY <1>2, Zenon DEF Whole!OnLastLine, OnLastLine, Whole!OnLastColumn, OnLastColumn
<1>4. \A m : Whole!ScrolledMemory(m) = ScrolledMemory(m)
  BY <1>1, SameFrameBuffer, Zenon DEF Whole!ScrolledMemory, ScrolledMemory
<1>5. \A m : Whole!NextLine(m) <=> NextLine(m)
  BY <1>2, <1>3, <1>4, Zenon DEF Whole!NextLine, NextLine
<1>6. \A rune : Whole!GlyphBitmap(rune) = GlyphBitmap(rune)
  BY <1>1, Zenon DEF Whole!GlyphBitmap, GlyphBitmap
<1>7. \A rune : Whole!DrawGlyph(rune) <=> DrawGlyph(rune)
  BY <1>1, <1>3, <1>5, <1>6, SameFrameBuffer, Zenon DEF Whole!DrawGlyph, DrawGlyph
<1> QED
  BY <1>5, <1>7

-----------------------------------------------------------------------------
(* What follows a string does not change how it starts.                    *)
LEMMA HeadTailOfConcat ==
    ASSUME NEW S, NEW s \in Seq(S), NEW t \in Seq(S), s # <<>>
    PROVE  s \o t # <<>> /\ Head(s \o t) = Head(s) /\ Tail(s \o t) = Tail(s) \o t
<1>1. Len(s) > 0 /\ s \o t \in Seq(S) /\ Len(s \o t) = Len(s) + Len(t)
  BY EmptySeq, ConcatProperties
<1>2. s \o t # <<>> /\ Head(s \o t) = Head(s)
  BY <1>1
<1>3. Tail(s) \o t \in Seq(S) /\ Tail(s \o t) \in Seq(S)
  BY <1>1, <1>2
<1>4. Len(Tail(s \o t)) = Len(Tail(s) \o t)
  BY <1>1, <1>2, <1>3
<1>5. \A i \in 1 .. Len(Tail(s \o t)) : Tail(s \o t)[i] = (Tail(s) \o t)[i]
  BY <1>1, <1>2, <1>3, <1>4
<1> QED
  BY <1>2, <1>3, <1>4, <1>5, SeqEqual

-----------------------------------------------------------------------------
(* The inductive invariant: what a call has shown is the start of its text.*)
ShownInOrder ==
    /\ call \in [text : Seq(Runes), endsPlain : BOOLEAN]
    /\ shown \in Seq(Runes)
    /\ Len(shown) <= Len(call.text)
    /\ phase \in {"idle", "open", "stopped", "closed"}

OutputInv == IndInv /\ ShownInOrder

(* What is still to be shown is a string.                                  *)
LEMMA StillToShowTyped == ShownInOrder => StillToShow \in Seq(Runes)
<1> SUFFICES ASSUME ShownInOrder PROVE StillToShow \in Seq(Runes)
  OBVIOUS
<1>1. call.text \in Seq(Runes) /\ Len(shown) \in Nat /\ Len(call.text) \in Nat
  BY DEF ShownInOrder
<1>2. \A i \in Len(shown) + 1 .. Len(call.text) : call.text[i] \in Runes
  BY <1>1, ElementOfSeq
<1>3. SubSeq(call.text, Len(shown) + 1, Len(call.text)) \in Seq(Runes)
  BY <1>1, <1>2, SubSeqProperties
<1> QED
  BY <1>3 DEF StillToShow

(* A tab is four runes.                                                    *)
LEMMA FourRunes ==
    ASSUME NEW R, NEW r \in R
    PROVE  <<r, r, r, r>> \in Seq(R)
OBVIOUS

(* A sequence cut in two is the two.                                       *)
LEMMA CutInTwo ==
    ASSUME NEW S, NEW t \in Seq(S), NEW a \in Nat, NEW n \in Nat, a <= n, n <= Len(t)
    PROVE  SubSeq(t, a + 1, n) \o SubSeq(t, n + 1, Len(t)) = SubSeq(t, a + 1, Len(t))
<1> DEFINE m == a + 1
           last == Len(t)
<1>1. last \in Nat
  OBVIOUS
<1>2. m \in 1 .. Len(t) + 1 /\ n \in m - 1 .. Len(t) /\ last \in n .. Len(t)
  BY <1>1
<1> HIDE DEF m, last
<1>3. SubSeq(t, m, n) \o SubSeq(t, n + 1, last) = SubSeq(t, m, last)
  BY <1>2, ConcatAdjacentSubSeq
<1> QED
  BY <1>3 DEF m, last

(* A chunk: what is new in it and what follows it is what was left.        *)
LEMMA ChunkCut ==
    ASSUME ShownInOrder, PutChunk
    PROVE  /\ ShownInOrder'
           /\ string' \in Seq(Runes)
           /\ phase' \in {"open", "closed", "stopped"}
           /\ phase' = "open" => string' \o StillToShow' = StillToShow
           /\ shown' = call.text => string' = StillToShow
           /\ phase' = "closed" => shown' = call.text
<1> DEFINE text == call.text
<1>1. /\ text \in Seq(Runes) /\ shown \in Seq(Runes)
      /\ Len(shown) \in Nat /\ Len(text) \in Nat /\ Len(shown) <= Len(text)
      /\ Capacity \in Nat /\ Capacity >= 2
  BY CapacityAssumption DEF ShownInOrder
<1>2. phase = "open" /\ call' = call /\ string' = SubSeq(shown', Len(shown) + 1, Len(shown'))
  BY DEF PutChunk, NewRunes
<1>3. \E n \in Len(shown) .. Len(text) :
          /\ shown' = SubSeq(text, 1, n)
          /\ \/ phase' \in {"open", "stopped"}
             \/ phase' = "closed" /\ n = Len(text)
  <2>1. CASE Formatter!ShowFullChunk
    <3>1. /\ Len(shown) + (Capacity - 1) <= Len(text)
          /\ shown' = SubSeq(text, 1, Len(shown) + (Capacity - 1))
          /\ phase' \in {"open", "stopped"}
      BY <2>1 DEF Formatter!ShowFullChunk
    <3> QED
      BY <1>1, <3>1
  <2>2. CASE Formatter!ShowLastChunk
    <3>1. shown' = text /\ phase' = "closed"
      BY <2>2 DEF Formatter!ShowLastChunk
    <3> QED
      BY <1>1, <3>1, SubSeqFull
  <2> QED
    BY <2>1, <2>2 DEF PutChunk
<1>4. PICK n \in Len(shown) .. Len(text) :
          /\ shown' = SubSeq(text, 1, n)
          /\ \/ phase' \in {"open", "stopped"}
             \/ phase' = "closed" /\ n = Len(text)
  BY <1>3
<1>5. n \in Nat /\ Len(shown) <= n /\ n <= Len(text)
  BY <1>1
<1>6. \A i \in 1 .. n : text[i] \in Runes
  BY <1>1, <1>5, ElementOfSeq
<1>7. /\ shown' \in Seq(Runes) /\ Len(shown') = n
      /\ \A i \in 1 .. n : shown'[i] = text[i]
  BY <1>4, <1>5, <1>6, SubSeqProperties
<1> DEFINE piece == SubSeq(text, Len(shown) + 1, n)
<1>8. \A i \in Len(shown) + 1 .. n : text[i] \in Runes /\ shown'[i] \in Runes
  BY <1>1, <1>5, <1>6, <1>7
<1>9. /\ piece \in Seq(Runes)
      /\ Len(piece) = IF Len(shown) + 1 <= n THEN n - (Len(shown) + 1) + 1 ELSE 0
      /\ \A i \in 1 .. n - (Len(shown) + 1) + 1 : piece[i] = text[Len(shown) + 1 + i - 1]
  <2> HIDE DEF text
  <2> QED BY <1>1, <1>5, <1>8, SubSeqProperties
<1>10. /\ string' \in Seq(Runes)
       /\ Len(string') = IF Len(shown) + 1 <= n THEN n - (Len(shown) + 1) + 1 ELSE 0
       /\ \A i \in 1 .. n - (Len(shown) + 1) + 1 : string'[i] = shown'[Len(shown) + 1 + i - 1]
  BY <1>1, <1>2, <1>5, <1>7, <1>8, SubSeqProperties
<1>11. string' = piece
  <2> HIDE DEF piece, text
  <2>1. Len(string') = Len(piece)
    BY <1>9, <1>10
  <2>2. \A i \in 1 .. Len(string') : string'[i] = piece[i]
    <3> SUFFICES ASSUME NEW i \in 1 .. Len(string') PROVE string'[i] = piece[i]
      OBVIOUS
    <3>1. i \in 1 .. n - (Len(shown) + 1) + 1 /\ Len(shown) + 1 + i - 1 \in 1 .. n
      BY <1>1, <1>5, <1>10
    <3> QED
      BY <1>7, <1>9, <1>10, <3>1
  <2> QED
    BY <1>9, <1>10, <2>1, <2>2, SeqEqual
<1>12. phase' = "open" => string' \o StillToShow' = StillToShow
  <2>1. piece \o SubSeq(text, n + 1, Len(text)) = SubSeq(text, Len(shown) + 1, Len(text))
    <3> HIDE DEF text
    <3> QED BY <1>1, <1>5, CutInTwo
  <2> QED
    BY <1>2, <1>7, <1>11, <2>1 DEF StillToShow
<1>13. shown' = call.text => string' = StillToShow
  BY <1>2, <1>7, <1>11 DEF StillToShow
<1>14. phase' = "closed" => shown' = call.text
  BY <1>1, <1>4, SubSeqFull
<1>15. ShownInOrder'
  BY <1>2, <1>4, <1>5, <1>7 DEF ShownInOrder
<1> QED
  BY <1>4, <1>10, <1>12, <1>13, <1>14, <1>15

(* The terminal begins with nothing to show.                               *)
LEMMA InitOutputInv == OutputInit => OutputInv
<1> SUFFICES ASSUME OutputInit PROVE OutputInv
  OBVIOUS
<1>1. IndInv
  BY InitIndInv DEF OutputInit
<1>2. <<>> \in Seq(Runes) /\ Len(<<>>) = 0
  BY EmptySeq
<1>3. ShownInOrder
  BY <1>2 DEF OutputInit, NoCall, ShownInOrder
<1> QED
  BY <1>1, <1>3 DEF OutputInv

(* Every step keeps it: those of the terminal by its own invariant.        *)
LEMMA NextOutputInv == OutputInv /\ [OutputNext]_<<vars, output>> => OutputInv'
<1> SUFFICES ASSUME OutputInv, [OutputNext]_<<vars, output>> PROVE OutputInv'
  OBVIOUS
<1>1. IndInv /\ ShownInOrder
  BY DEF OutputInv
<1>2. UNCHANGED output => ShownInOrder'
  BY <1>1 DEF output, ShownInOrder
<1>3. UNCHANGED vars => IndInv'
  BY <1>1, NextIndInv
<1>4. CASE PutRune /\ UNCHANGED output
  BY <1>1, <1>2, <1>4, NextIndInv DEF Next, OutputInv
<1>5. CASE phase = "idle" /\ (PutRuneString \/ Clear) /\ UNCHANGED output
  BY <1>1, <1>2, <1>5, NextIndInv DEF Next, OutputInv
<1>6. CASE PutFormattedRuneString
  <2>1. call' \in [text : Seq(Runes), endsPlain : BOOLEAN] /\ shown' = <<>> /\ phase' = "open"
        /\ UNCHANGED vars
    BY <1>6, CallsAssumption DEF PutFormattedRuneString, Runes
  <2>2. ShownInOrder'
    BY <2>1, EmptySeq DEF ShownInOrder
  <2> QED
    BY <1>3, <2>1, <2>2 DEF OutputInv
<1>7. CASE PutChunk
  <2>1. ShownInOrder' /\ string' \in Seq(Runes)
    BY <1>1, <1>7, ChunkCut
  <2>2. UNCHANGED <<fb, memory, cursorX, cursorY, error, scrolled>>
    BY <1>7 DEF PutChunk
  <2>3. IndInv'
    BY <1>1, <2>1, <2>2 DEF IndInv, TypeOK, CursorOnScreen, GlyphsAccepted, RoomForGlyph,
                            WritesFrameOnly, FrameCells, glyphColumnsInFrameBuffer, glyphRowsInFrameBuffer, Runes
  <2> QED
    BY <2>1, <2>3 DEF OutputInv
<1>8. CASE EndOfCall
  <2>1. call' = NoCall /\ shown' = <<>> /\ phase' = "idle" /\ UNCHANGED vars
    BY <1>8 DEF EndOfCall
  <2>2. ShownInOrder'
    BY <2>1, EmptySeq DEF ShownInOrder, NoCall
  <2> QED
    BY <1>3, <2>1, <2>2 DEF OutputInv
<1>9. CASE UNCHANGED <<vars, output>>
  BY <1>2, <1>3, <1>9 DEF OutputInv
<1> QED
  BY <1>4, <1>5, <1>6, <1>7, <1>8, <1>9 DEF OutputNext

-----------------------------------------------------------------------------
(* A step that puts a rune puts the same rune of the whole text.           *)
LEMMA PutsTheSameRune ==
    ASSUME OutputInv, PutRune, UNCHANGED output
    PROVE  Whole!PutRune
<1>1. string \in Seq(Runes) /\ StillToShow \in Seq(Runes) /\ StillToShow' = StillToShow
  BY StillToShowTyped DEF OutputInv, IndInv, TypeOK, Runes, output, StillToShow
<1>2. string # <<>> =>
          /\ string \o StillToShow # <<>>
          /\ Head(string \o StillToShow) = Head(string)
          /\ Tail(string \o StillToShow) = Tail(string) \o StillToShow
  BY <1>1, HeadTailOfConcat
<1>3. CASE PutGlyph
  <2>1. string # <<>> /\ Head(string) \in GlyphRunes /\ DrawGlyph(Head(string))
        /\ string' = Tail(string) /\ UNCHANGED fb
    BY <1>3 DEF PutGlyph
  <2>2. Whole!DrawGlyph(Head(string))
    BY <2>1, SameCursor
  <2> QED
    BY <1>1, <1>2, <2>1, <2>2 DEF Whole!PutGlyph, Whole!PutRune
<1>4. CASE PutTab
  <2>1. string # <<>> /\ Head(string) = "\t"
        /\ string' = <<" ", " ", " ", " ">> \o Tail(string)
        /\ UNCHANGED <<fb, memory, cursorX, cursorY, error, scrolled>>
    BY <1>4 DEF PutTab
  <2>2. Tail(string) \in Seq(Runes) /\ <<" ", " ", " ", " ">> \in Seq(Runes)
    <3>1. " " \in Runes
      BY FontAssumption DEF Runes
    <3>2. Tail(string) \in Seq(Runes)
      BY <1>1, <2>1, HeadTailProperties
    <3>3. <<" ", " ", " ", " ">> \in Seq(Runes)
      BY <3>1, FourRunes, Zenon
    <3> QED
      BY <3>2, <3>3
  <2>3. string' \o StillToShow = <<" ", " ", " ", " ">> \o (Tail(string) \o StillToShow)
    <3> DEFINE spaces == <<" ", " ", " ", " ">>
               rest == Tail(string)
    <3>1. spaces \in Seq(Runes) /\ rest \in Seq(Runes) /\ string' = spaces \o rest
      BY <2>1, <2>2
    <3> HIDE DEF spaces, rest
    <3>2. \A s, t, u \in Seq(Runes) : (s \o t) \o u = s \o (t \o u)
      BY ConcatAssociative
    <3>3. (spaces \o rest) \o StillToShow = spaces \o (rest \o StillToShow)
      BY <1>1, <3>1, <3>2, Zenon
    <3> QED
      BY <3>1, <3>3 DEF spaces, rest
  <2> QED
    BY <1>1, <1>2, <2>1, <2>3, Zenon DEF Whole!PutTab, Whole!PutRune
<1>5. CASE PutLineFeed
  <2>1. string # <<>> /\ Head(string) = "\n" /\ NextLine(memory)
        /\ string' = Tail(string) /\ UNCHANGED <<fb, error>>
    BY <1>5 DEF PutLineFeed
  <2>2. Whole!NextLine(memory)
    BY <2>1, SameCursor
  <2> QED
    BY <1>1, <1>2, <2>1, <2>2 DEF Whole!PutLineFeed, Whole!PutRune
<1>6. CASE PutBackspace
  BY <1>1, <1>2, <1>6 DEF PutBackspace, Whole!PutBackspace, Whole!PutRune
<1> QED
  BY <1>3, <1>4, <1>5, <1>6 DEF PutRune

(* Initially nothing is put.                                               *)
LEMMA StartsEmpty == OutputInit => Whole!Init
<1> SUFFICES ASSUME OutputInit PROVE Whole!Init
  OBVIOUS
<1>1. StillToShow = <<>> /\ string = <<>> /\ Init
  BY DEF OutputInit, Init, StillToShow
<1>2. string \o StillToShow = <<>>
  BY <1>1
<1>3. \A f : Whole!FrameCells(f) = FrameCells(f)
  BY Zenon DEF Whole!FrameCells, FrameCells
<1> QED
  BY <1>1, <1>2, <1>3, Zenon DEF Init, Whole!Init

(* Every step is one of the terminal that puts whole texts, or changes     *)
(* nothing of it, or cuts a text off.                                      *)
LEMMA StepsAreWhole ==
    OutputInv /\ [OutputNext]_<<vars, output>> => [Whole!Next \/ CutOff]_(Whole!vars)
<1> SUFFICES ASSUME OutputInv, [OutputNext]_<<vars, output>>
             PROVE  Whole!Next \/ CutOff \/ UNCHANGED Whole!vars
  OBVIOUS
<1>1. /\ string \in Seq(Runes) /\ StillToShow \in Seq(Runes) /\ ShownInOrder
      /\ UNCHANGED output => StillToShow' = StillToShow
  BY StillToShowTyped DEF OutputInv, IndInv, TypeOK, Runes, output, StillToShow
<1>2. string = <<>> => string \o StillToShow = StillToShow
  BY <1>1, ConcatEmptySeq
<1>3. CASE PutRune /\ UNCHANGED output
  BY <1>3, PutsTheSameRune DEF Whole!Next
<1>4. CASE phase = "idle" /\ PutRuneString /\ UNCHANGED output
  <2>1. StillToShow = <<>> /\ StillToShow' = <<>> /\ string = <<>> /\ string' \in Strings
    BY <1>1, <1>4 DEF StillToShow, PutRuneString
  <2>2. string' \o StillToShow' = string'
    BY <2>1, StringsAssumption, ConcatEmptySeq
  <2>3. string \o StillToShow = <<>>
    BY <1>2, <2>1
  <2> QED
    BY <1>4, <2>1, <2>2, <2>3 DEF PutRuneString, Whole!PutRuneString, Whole!Next
<1>5. CASE phase = "idle" /\ Clear /\ UNCHANGED output
  <2>1. StillToShow = <<>> /\ StillToShow' = <<>> /\ string = <<>> /\ string' = string
    BY <1>1, <1>5 DEF StillToShow, Clear
  <2>2. string \o StillToShow = <<>> /\ string' \o StillToShow' = string \o StillToShow
    BY <1>2, <2>1
  <2>3. Whole!FillAllWith(fb, memory, Whole!backgroundColor)
            = FillAllWith(fb, memory, backgroundColor)
    BY SameFrameBuffer DEF backgroundColor, Whole!backgroundColor
  <2> QED
    BY <1>5, <2>2, <2>3 DEF Clear, Whole!Clear, Whole!Next
<1>6. CASE PutFormattedRuneString
  <2>1. /\ StillToShow = <<>> /\ string = <<>> /\ string' = <<>> /\ call' \in Calls
        /\ shown' = <<>> /\ phase' = "open" /\ UNCHANGED vars
    BY <1>6 DEF PutFormattedRuneString, StillToShow, vars
  <2>2. call'.text \in Seq(Runes)
    BY <2>1, CallsAssumption DEF Runes
  <2>3. StillToShow' = call'.text
    BY <2>1, <2>2, EmptySeq, SubSeqFull DEF StillToShow
  <2>4. string' \o StillToShow' = call'.text
    BY <2>1, <2>2, <2>3, ConcatEmptySeq
  <2>5. string \o StillToShow = <<>>
    BY <1>2, <2>1
  <2>6. call'.text \in Strings \cup {c.text : c \in Calls}
    BY <2>1
  <2> QED
    BY <2>1, <2>4, <2>5, <2>6 DEF vars, Whole!PutRuneString, Whole!Next
<1>7. CASE PutChunk
  <2>1. /\ phase' \in {"open", "closed", "stopped"}
        /\ string' \in Seq(Runes)
        /\ phase' = "open" => string' \o StillToShow' = StillToShow
        /\ shown' = call.text => string' = StillToShow
        /\ phase' = "closed" => shown' = call.text
    BY <1>1, <1>7, ChunkCut
  <2>2. string = <<>> /\ UNCHANGED <<fb, memory, cursorX, cursorY, error, scrolled>>
    BY <1>7 DEF PutChunk
  <2>3. shown' = call.text /\ phase' # "open" => string' \o StillToShow' = StillToShow
    BY <2>1, ConcatEmptySeq DEF StillToShow
  <2>4. CASE shown' = call.text \/ phase' = "open"
    BY <1>2, <2>1, <2>2, <2>3, <2>4 DEF Whole!vars
  <2>5. CASE shown' # call.text /\ phase' = "stopped"
    <3>1. ~Formatter!ShowLastChunk
      BY <2>5 DEF Formatter!ShowLastChunk
    <3>2. MarkedDone
      BY <1>7, <3>1 DEF PutChunk
    <3> QED
      BY <1>1, <1>7, <2>5, <3>2 DEF MarkedDone, CutOff, ShownInOrder
  <2> QED
    BY <2>1, <2>4, <2>5
<1>8. CASE EndOfCall
  <2>1. StillToShow = <<>> /\ StillToShow' = <<>> /\ UNCHANGED vars
    BY <1>8 DEF EndOfCall, StillToShow
  <2> QED
    BY <2>1 DEF vars, Whole!vars
<1>9. CASE UNCHANGED <<vars, output>>
  BY <1>1, <1>9 DEF vars, Whole!vars
<1> QED
  BY <1>3, <1>4, <1>5, <1>6, <1>7, <1>8, <1>9 DEF OutputNext

-----------------------------------------------------------------------------
(* The invariant holds in every reachable state.                           *)
THEOREM OutputInvariance == OutputSpec => []OutputInv
<1>1. OutputInit => OutputInv
  BY InitOutputInv
<1>2. OutputInv /\ [OutputNext]_<<vars, output>> => OutputInv'
  BY NextOutputInv
<1> QED
  BY <1>1, <1>2, PTL DEF OutputSpec

(* With formatted output, too, every variable of the terminal keeps its    *)
(* type.                                                                   *)
THEOREM OutputTypeCorrect == OutputSpec => []TypeOK
<1>1. OutputInv => TypeOK
  BY DEF OutputInv, IndInv
<1> QED
  BY <1>1, OutputInvariance, PTL

(* The cursor is on the screen, whatever is put, formatted or not, and in  *)
(* whatever chunks (TextTerminal.c:9-93).                                  *)
THEOREM OutputStaysOnScreen == OutputSpec => []CursorOnScreen
<1>1. OutputInv => CursorOnScreen
  BY DEF OutputInv, IndInv
<1> QED
  BY <1>1, OutputInvariance, PTL

(* The error PutRune ignores is never there (TextTerminal.c:45).           *)
THEOREM NoOutputRefused == OutputSpec => []GlyphsAccepted
<1>1. OutputInv => GlyphsAccepted
  BY DEF OutputInv, IndInv
<1> QED
  BY <1>1, OutputInvariance, PTL

(* Formatted output writes the frame and nothing else until the screen     *)
(* scrolls (TextTerminal.c:74-93).                                         *)
THEOREM OutputWritesFrame == OutputSpec => []WritesFrameOnly
<1>1. OutputInv => WritesFrameOnly
  BY DEF OutputInv, IndInv
<1> QED
  BY <1>1, OutputInvariance, PTL

(* The terminal with formatted output implements the one that puts whole   *)
(* texts, but for the texts that are cut off (TextTerminal.c:74-93).       *)
THEOREM ChunksImplementTheText == OutputSpec => ChunksMakeTheText
<1>1. OutputInit => Whole!Init
  BY StartsEmpty
<1>2. OutputInv /\ [OutputNext]_<<vars, output>> => [Whole!Next \/ CutOff]_(Whole!vars)
  BY StepsAreWhole
<1> QED
  BY <1>1, <1>2, OutputInvariance, PTL DEF OutputSpec, ChunksMakeTheText

-----------------------------------------------------------------------------
(* What the screen shows.                                                  *)

(* The cells of a place, in order.                                         *)
PlaceCell(line, column, n) ==
    (line * glyphPixelHeight + (n - 1) \div glyphPixelWidth) * fb.HorizontalPixels
        + column * glyphPixelWidth + ((n - 1) % glyphPixelWidth)

Bits == 1 .. glyphPixelWidth * glyphPixelHeight

(* What the proofs about the screen need of the frame.                     *)
Frame ==
    /\ fb \in FrameBuffers
    /\ RoomForGlyph

Line   == 0 .. glyphRowsInFrameBuffer - 1
Column == 0 .. glyphColumnsInFrameBuffer - 1

(* The sizes of frame and glyphs, as the arithmetic below needs them.      *)
LEMMA FrameTyped ==
    ASSUME Frame
    PROVE  /\ glyphPixelWidth \in Nat \ {0} /\ glyphPixelHeight \in Nat \ {0}
           /\ fb.HorizontalPixels \in Nat \ {0} /\ fb.VerticalPixels \in Nat \ {0}
           /\ fb.HorizontalPixels < RangeUnsigned /\ fb.VerticalPixels < RangeUnsigned
           /\ RangeUnsigned \in Nat \ {0}
           /\ glyphColumnsInFrameBuffer \in Nat \ {0}
           /\ glyphRowsInFrameBuffer \in Nat \ {0}
<1>1. /\ glyphPixelWidth \in Nat \ {0} /\ glyphPixelHeight \in Nat \ {0}
      /\ glyphColumnsInFrameBuffer \in Nat \ {0} /\ glyphRowsInFrameBuffer \in Nat \ {0}
  BY ScreenSize DEF Frame
<1>2. /\ fb.HorizontalPixels \in Nat /\ fb.VerticalPixels \in Nat
      /\ fb.HorizontalPixels < RangeUnsigned /\ fb.VerticalPixels < RangeUnsigned
      /\ RangeUnsigned \in Nat \ {0}
  BY WidthAssumption DEF Frame, FrameBuffers
<1>3. fb.HorizontalPixels >= glyphPixelWidth /\ fb.VerticalPixels >= glyphPixelHeight
  BY DEF Frame, RoomForGlyph
<1> QED
  BY <1>1, <1>2, <1>3

(* The row and the column of a cell of a place are in the frame.           *)
LEMMA PlaceInFrame ==
    ASSUME Frame, NEW line \in Line, NEW column \in Column, NEW n \in Bits
    PROVE  LET q == (n - 1) \div glyphPixelWidth
               r == (n - 1) % glyphPixelWidth
           IN  /\ q \in Nat /\ q < glyphPixelHeight /\ r \in Nat /\ r < glyphPixelWidth
               /\ n - 1 = q * glyphPixelWidth + r
               /\ line * glyphPixelHeight + q \in 0 .. fb.VerticalPixels - 1
               /\ column * glyphPixelWidth + r \in 0 .. fb.HorizontalPixels - 1
               /\ PlaceCell(line, column, n)
                      = (line * glyphPixelHeight + q) * fb.HorizontalPixels
                            + (column * glyphPixelWidth + r)
               /\ PlaceCell(line, column, n) \in FrameCells(fb)
<1> DEFINE q == (n - 1) \div glyphPixelWidth
           r == (n - 1) % glyphPixelWidth
           w == glyphPixelWidth
           h == glyphPixelHeight
           H == fb.HorizontalPixels
           V == fb.VerticalPixels
<1>1. w \in Nat \ {0} /\ h \in Nat \ {0} /\ H \in Nat \ {0} /\ V \in Nat \ {0}
      /\ glyphColumnsInFrameBuffer \in Nat \ {0} /\ glyphRowsInFrameBuffer \in Nat \ {0}
  BY FrameTyped
<1>2. line \in Nat /\ column \in Nat
      /\ line < V \div h /\ column < H \div w
  BY <1>1 DEF Line, Column, glyphRowsInFrameBuffer, glyphColumnsInFrameBuffer
<1>3. line * h + h <= V /\ column * w + w <= H
  <2> HIDE DEF w, h, H, V
  <2> QED BY <1>1, <1>2, GlyphFits
<1>4. n - 1 \in 0 .. w * h - 1
  <2>1. w * h \in Nat
    BY <1>1, SMTT(30)
  <2> QED
    BY <2>1 DEF Bits
<1>5. q \in Nat /\ q < h /\ r \in Nat /\ r < w /\ n - 1 = q * w + r
  <2>1. (n - 1) \div w \in Nat /\ (n - 1) \div w < h /\ (n - 1) % w \in Nat /\ (n - 1) % w < w
        /\ n - 1 = ((n - 1) \div w) * w + ((n - 1) % w)
    <3> HIDE DEF w, h
    <3> QED BY <1>1, <1>4, QuotientAndRest
  <2> QED
    BY <2>1
<1>6. PlaceCell(line, column, n) = (line * h + q) * H + column * w + r
  BY DEF PlaceCell
<1> HIDE DEF q, r, w, h, H, V
<1>7. line * h \in Nat /\ column * w \in Nat
  BY <1>1, <1>2, SMTT(30)
<1>8. line * h + q \in 0 .. V - 1 /\ column * w + r \in 0 .. H - 1
  BY <1>1, <1>3, <1>5, <1>7
<1>9. PlaceCell(line, column, n) = (line * h + q) * H + (column * w + r)
  <2>1. (line * h + q) * H \in Nat
    BY <1>1, <1>8, SMTT(30)
  <2> QED
    BY <1>5, <1>6, <1>7, <2>1
<1>10. PlaceCell(line, column, n) \in FrameCells(fb)
  <2>1. H * (line * h + q) + (column * w + r) \in 0 .. H * V - 1
    BY <1>1, <1>8, PlaceInside
  <2>2. H * (line * h + q) = (line * h + q) * H
    BY <1>1, <1>8, SMTT(30)
  <2> QED
    BY <1>9, <2>1, <2>2 DEF FrameCells, H, V
<1> QED
  BY <1>5, <1>8, <1>9, <1>10 DEF q, r, w, h, H, V

(* Different places, and different bits of a place, have different cells.  *)
LEMMA PlacesApart ==
    ASSUME Frame, NEW line \in Line, NEW column \in Column, NEW n \in Bits,
           NEW line2 \in Line, NEW column2 \in Column, NEW n2 \in Bits,
           PlaceCell(line, column, n) = PlaceCell(line2, column2, n2)
    PROVE  line = line2 /\ column = column2 /\ n = n2
<1> DEFINE w == glyphPixelWidth
           h == glyphPixelHeight
           H == fb.HorizontalPixels
           V == fb.VerticalPixels
           q == (n - 1) \div w
           r == (n - 1) % w
           q2 == (n2 - 1) \div w
           r2 == (n2 - 1) % w
<1>1. w \in Nat \ {0} /\ h \in Nat \ {0} /\ H \in Nat \ {0} /\ V \in Nat \ {0}
      /\ glyphColumnsInFrameBuffer \in Nat \ {0} /\ glyphRowsInFrameBuffer \in Nat \ {0}
  BY FrameTyped
<1>2. line \in Nat /\ column \in Nat /\ line2 \in Nat /\ column2 \in Nat
  BY <1>1 DEF Line, Column
<1>3. /\ q \in Nat /\ q < h /\ r \in Nat /\ r < w /\ n - 1 = q * w + r
      /\ line * h + q \in 0 .. V - 1 /\ column * w + r \in 0 .. H - 1
      /\ PlaceCell(line, column, n) = (line * h + q) * H + (column * w + r)
  BY PlaceInFrame
<1>4. /\ q2 \in Nat /\ q2 < h /\ r2 \in Nat /\ r2 < w /\ n2 - 1 = q2 * w + r2
      /\ line2 * h + q2 \in 0 .. V - 1 /\ column2 * w + r2 \in 0 .. H - 1
      /\ PlaceCell(line2, column2, n2) = (line2 * h + q2) * H + (column2 * w + r2)
  BY PlaceInFrame
<1> HIDE DEF q, r, q2, r2, w, h, H, V
<1>5. line * h + q \in Nat /\ line2 * h + q2 \in Nat
  BY <1>1, <1>3, <1>4
<1>6. line * h + q = line2 * h + q2 /\ column * w + r = column2 * w + r2
  <2> DEFINE a == line * h + q
             b == column * w + r
             c == line2 * h + q2
             d == column2 * w + r2
  <2>1. a \in Nat /\ c \in Nat /\ b \in 0 .. H - 1 /\ d \in 0 .. H - 1
    BY <1>3, <1>4, <1>5
  <2>2. a * H + b = c * H + d
    BY <1>3, <1>4
  <2> HIDE DEF a, b, c, d
  <2>3. a = c /\ b = d
    BY <1>1, <2>1, <2>2, OneQuotient
  <2> QED
    BY <2>3 DEF a, b, c, d
<1>7. q \in 0 .. h - 1 /\ q2 \in 0 .. h - 1 /\ r \in 0 .. w - 1 /\ r2 \in 0 .. w - 1
  BY <1>1, <1>3, <1>4
<1>8. line = line2 /\ q = q2
  BY <1>1, <1>2, <1>6, <1>7, OneQuotient
<1>9. column = column2 /\ r = r2
  BY <1>1, <1>2, <1>6, <1>7, OneQuotient
<1>10. n - 1 = n2 - 1
  BY <1>3, <1>4, <1>8, <1>9
<1>11. n \in Int /\ n2 \in Int
  BY <1>1 DEF Bits
<1> QED
  BY <1>8, <1>9, <1>10, <1>11

(* The bits of a bitmap the size of a place go to its cells.               *)
LEMMA BitmapFillsPlace ==
    ASSUME Frame, NEW line \in Line, NEW column \in Column,
           NEW k \in 0 .. glyphPixelWidth * glyphPixelHeight - 1
    PROVE  /\ k + 1 \in Bits
           /\ BitmapCell(fb, line * glyphPixelHeight, column * glyphPixelWidth,
                         glyphPixelWidth, k) = PlaceCell(line, column, k + 1)
<1> DEFINE w == glyphPixelWidth
           h == glyphPixelHeight
           H == fb.HorizontalPixels
           q == k \div w
           r == k % w
<1>1. w \in Nat \ {0} /\ h \in Nat \ {0} /\ H \in Nat \ {0} /\ w * h \in Nat
      /\ glyphColumnsInFrameBuffer \in Nat \ {0} /\ glyphRowsInFrameBuffer \in Nat \ {0}
  <2>1. w \in Nat \ {0} /\ h \in Nat \ {0} /\ H \in Nat \ {0}
        /\ glyphColumnsInFrameBuffer \in Nat \ {0} /\ glyphRowsInFrameBuffer \in Nat \ {0}
    BY FrameTyped
  <2> HIDE DEF w, h, H
  <2> QED BY <2>1, SMTT(30)
<1>2. line \in Nat /\ column \in Nat
  BY <1>1 DEF Line, Column
<1>3. k + 1 \in Bits /\ k \in Nat /\ (k + 1) - 1 = k
  BY <1>1 DEF Bits
<1>4. /\ q \in Nat /\ r \in Nat /\ k = q * w + r
      /\ PlaceCell(line, column, k + 1) = (line * h + q) * H + (column * w + r)
  <2> DEFINE m == k + 1
  <2>1. m \in Bits /\ m - 1 = k
    BY <1>3
  <2> HIDE DEF m
  <2>2. LET qq == (m - 1) \div w
            rr == (m - 1) % w
        IN  /\ qq \in Nat /\ rr \in Nat /\ m - 1 = qq * w + rr
            /\ PlaceCell(line, column, m) = (line * h + qq) * H + (column * w + rr)
    BY <2>1, PlaceInFrame
  <2> QED
    BY <2>1, <2>2 DEF m
<1>5. BitmapCell(fb, line * h, column * w, w, k)
          = H * (line * h) + column * w + k + q * (H - w)
  BY DEF BitmapCell
<1> HIDE DEF q, r, w, h, H
<1>6. H * (line * h) + column * w + k + q * (H - w) = (line * h + q) * H + (column * w + r)
  <2>1. line * h \in Nat /\ column * w \in Nat
    BY <1>1, <1>2, SMTT(30)
  <2> DEFINE a == line * h
             b == column * w
  <2> HIDE DEF a, b
  <2>2. H * a + b + (q * w + r) + q * (H - w) = (a + q) * H + (b + r)
    <3>1. a \in Nat /\ b \in Nat
      BY <2>1 DEF a, b
    <3> QED
      BY <1>1, <1>4, <3>1, SMTT(30)
  <2> QED
    BY <1>4, <2>2 DEF a, b
<1> QED
  BY <1>3, <1>4, <1>5, <1>6 DEF w, h, H

(* What a place shows is one of its runes when its pixels are a glyph's.   *)
LEMMA ShownRune ==
    ASSUME NEW m, NEW line, NEW column, NEW rune \in GlyphRunes,
           PixelsAt(m, line, column) = GlyphPixels(rune)
    PROVE  /\ Shown(m, line, column) \in GlyphRunes
           /\ GlyphPixels(Shown(m, line, column)) = GlyphPixels(rune)
<1> DEFINE P(r) == GlyphPixels(r) = PixelsAt(m, line, column)
<1>1. \E r \in GlyphRunes : P(r)
  OBVIOUS
<1>2. Shown(m, line, column) = CHOOSE r \in GlyphRunes : P(r)
  BY <1>1 DEF Shown
<1> HIDE DEF P
<1>3. Shown(m, line, column) \in GlyphRunes /\ P(Shown(m, line, column))
  BY <1>1, <1>2, Zenon
<1> QED
  BY <1>3 DEF P

(* Equal pixels show the same.                                             *)
LEMMA SamePixels ==
    ASSUME NEW m, NEW m2, NEW line, NEW column,
           PixelsAt(m2, line, column) = PixelsAt(m, line, column)
    PROVE  Shown(m2, line, column) = Shown(m, line, column)
BY Zenon DEF Shown

(* The pixels of a place are the cells of its bits.                        *)
LEMMA PixelsByCell ==
    ASSUME NEW m, NEW line, NEW column
    PROVE  PixelsAt(m, line, column) = [n \in Bits |-> m[PlaceCell(line, column, n)]]
BY DEF PixelsAt, PlaceCell, Bits

(* Only the space has a blank glyph.                                       *)
LEMMA BlankIsSpace ==
    ASSUME Frame, NEW rune \in GlyphRunes
    PROVE  /\ \A n \in Bits : Glyph(rune)[n] \in {0, 1}
           /\ GlyphPixels(rune) = [n \in Bits |-> backgroundColor] <=> rune = " "
<1>1. /\ \A n \in Bits : Glyph(rune)[n] \in {0, 1}
      /\ rune = " " <=> \A n \in Bits : Glyph(rune)[n] = 0
  BY GlyphsAssumption DEF Bits
<1>2. GlyphPixels(rune) = [n \in Bits |-> IF Glyph(rune)[n] = 1 THEN foregroundColor
                                                                 ELSE backgroundColor]
  BY DEF GlyphPixels, Bits
<1>3. \A n \in Bits : GlyphPixels(rune)[n] = IF Glyph(rune)[n] = 0 THEN "black" ELSE "white"
  <2> SUFFICES ASSUME NEW n \in Bits
               PROVE  GlyphPixels(rune)[n] = IF Glyph(rune)[n] = 0 THEN "black" ELSE "white"
    OBVIOUS
  <2>1. GlyphPixels(rune)[n] = IF Glyph(rune)[n] = 1 THEN "white" ELSE "black"
    BY <1>2, Zenon DEF foregroundColor, backgroundColor
  <2>2. Glyph(rune)[n] \in {0, 1}
    BY <1>1
  <2> QED
    BY <2>1, <2>2
<1>4. ASSUME GlyphPixels(rune) = [n \in Bits |-> backgroundColor]
      PROVE  \A n \in Bits : Glyph(rune)[n] = 0
  <2>1. \A n \in Bits : GlyphPixels(rune)[n] = "black"
    BY <1>4 DEF backgroundColor
  <2>2. "black" # "white"
    OBVIOUS
  <2> QED
    BY <1>3, <2>1, <2>2
<1>5. ASSUME \A n \in Bits : Glyph(rune)[n] = 0
      PROVE  GlyphPixels(rune) = [n \in Bits |-> backgroundColor]
  BY <1>2, <1>5
<1> QED
  BY <1>1, <1>4, <1>5

(* What a screen shows where and how large it is depends on the frame      *)
(* buffer, which no step changes.                                          *)
LEMMA ScreenAfter ==
    ASSUME UNCHANGED fb
    PROVE  /\ Screen(memory)' = Screen(memory')
           /\ glyphRowsInFrameBuffer' = glyphRowsInFrameBuffer
           /\ glyphColumnsInFrameBuffer' = glyphColumnsInFrameBuffer
<1>1. /\ glyphRowsInFrameBuffer' = glyphRowsInFrameBuffer
      /\ glyphColumnsInFrameBuffer' = glyphColumnsInFrameBuffer
  BY DEF glyphRowsInFrameBuffer, glyphColumnsInFrameBuffer
<1>2. Screen(memory)' = Screen(memory')
  BY <1>1 DEF Screen, Shown, PixelsAt, glyphRowsInFrameBuffer, glyphColumnsInFrameBuffer
<1> QED
  BY <1>1, <1>2

(* A glyph drawn at the cursor changes its place and no other.             *)
LEMMA GlyphDrawn ==
    ASSUME IndInv, FrameCells(fb) \subseteq DOMAIN memory, NEW rune \in GlyphRunes
    PROVE  LET m == DrawAligned2ColorBitmapAt(fb, memory,
                        cursorY * glyphPixelHeight, cursorX * glyphPixelWidth,
                        GlyphBitmap(rune), foregroundColor, backgroundColor).memory
           IN  /\ FrameCells(fb) \subseteq DOMAIN m
               /\ PixelsAt(m, cursorY, cursorX) = GlyphPixels(rune)
               /\ \A line \in Line, column \in Column :
                      <<line, column>> # <<cursorY, cursorX>> =>
                          PixelsAt(m, line, column) = PixelsAt(memory, line, column)
<1> DEFINE row == cursorY * glyphPixelHeight
           col == cursorX * glyphPixelWidth
           w == glyphPixelWidth
           h == glyphPixelHeight
           bitmap == GlyphBitmap(rune)
           drawn == DrawAligned2ColorBitmapAt(fb, memory, row, col, bitmap,
                                              foregroundColor, backgroundColor)
           m == drawn.memory
           dots == 0 .. w * h - 1
           cells(on) == {BitmapCell(fb, row, col, w, n) : n \in {k \in dots : Glyph(rune)[k + 1] = on}}
<1>1. /\ Frame /\ w * h \in Int
      /\ cursorX \in Nat /\ cursorY \in Nat
      /\ cursorX < glyphColumnsInFrameBuffer /\ cursorY < glyphRowsInFrameBuffer
  <2>1. Frame /\ cursorX \in Nat /\ cursorY \in Nat
        /\ cursorX < glyphColumnsInFrameBuffer /\ cursorY < glyphRowsInFrameBuffer
    BY DEF IndInv, TypeOK, CursorOnScreen, Frame
  <2>2. w \in Nat /\ h \in Nat
    BY <2>1, FrameTyped
  <2> QED
    BY <2>1, <2>2
<1>2. cursorY \in Line /\ cursorX \in Column
  <2>1. glyphColumnsInFrameBuffer \in Nat /\ glyphRowsInFrameBuffer \in Nat
    BY <1>1, FrameTyped
  <2> QED
    BY <1>1, <2>1 DEF Line, Column
<1>3. m = Store(Store(memory, cells(1), foregroundColor), cells(0), backgroundColor)
  <2>1. drawn.error = "NoError"
    BY GlyphAccepted
  <2>2. bitmap.PixelsPerRow = w /\ bitmap.NumberOfRows = h /\ bitmap.BitmapDefinition = Glyph(rune)
    BY DEF GlyphBitmap
  <2> HIDE DEF bitmap, w, h, row, col
  <2>3. ~BitmapRefused(fb, row, col, bitmap)
    BY <2>1 DEF DrawAligned2ColorBitmapAt, Refused
  <2> QED
    BY <2>2, <2>3 DEF DrawAligned2ColorBitmapAt, Done
<1> HIDE DEF drawn, m
<1>4. \A bit : \A c : c \in cells(bit) <=>
          \E n \in Bits : Glyph(rune)[n] = bit /\ c = PlaceCell(cursorY, cursorX, n)
  <2> SUFFICES ASSUME NEW bit, NEW c
               PROVE  c \in cells(bit) <=>
                         \E n \in Bits : Glyph(rune)[n] = bit /\ c = PlaceCell(cursorY, cursorX, n)
    OBVIOUS
  <2>1. \A k \in dots : k + 1 \in Bits
                        /\ BitmapCell(fb, row, col, w, k) = PlaceCell(cursorY, cursorX, k + 1)
    BY <1>1, <1>2, BitmapFillsPlace
  <2>2. \A n \in Bits : n - 1 \in dots /\ (n - 1) + 1 = n
    BY <1>1 DEF Bits
  <2> DEFINE cell(k) == BitmapCell(fb, row, col, w, k)
             place(n) == PlaceCell(cursorY, cursorX, n)
             bits == Glyph(rune)
  <2>3. c \in cells(bit) <=> \E k \in dots : bits[k + 1] = bit /\ c = cell(k)
    <3> HIDE DEF cell, bits, dots
    <3>1. cells(bit) = {cell(n) : n \in {k \in dots : bits[k + 1] = bit}}
      BY DEF cell, bits
    <3> HIDE DEF cells
    <3> QED BY <3>1
  <2>4. \A k \in dots : k + 1 \in Bits /\ cell(k) = place(k + 1)
    BY <2>1
  <2> HIDE DEF cell, place, bits, dots, cells
  <2>5. ASSUME NEW k \in dots, bits[k + 1] = bit, c = cell(k)
        PROVE  \E n \in Bits : bits[n] = bit /\ c = place(n)
    BY <2>4, <2>5
  <2>6. ASSUME NEW n \in Bits, bits[n] = bit, c = place(n)
        PROVE  \E k \in dots : bits[k + 1] = bit /\ c = cell(k)
    <3>1. n - 1 \in dots /\ (n - 1) + 1 = n
      BY <2>2
    <3>2. cell(n - 1) = place(n)
      BY <2>4, <3>1
    <3> QED
      BY <2>6, <3>1, <3>2
  <2>7. c \in cells(bit) <=> \E n \in Bits : bits[n] = bit /\ c = place(n)
    BY <2>3, <2>5, <2>6
  <2> QED
    BY <2>7 DEF bits, place
<1> HIDE DEF cells
<1>5. /\ DOMAIN m = DOMAIN memory \cup cells(1) \cup cells(0)
      /\ \A c \in DOMAIN m : m[c] = IF c \in cells(0) THEN backgroundColor
                                    ELSE IF c \in cells(1) THEN foregroundColor
                                    ELSE memory[c]
  BY <1>3 DEF Store
<1>6. FrameCells(fb) \subseteq DOMAIN m
  BY <1>5
<1>7. \A n \in Bits : PlaceCell(cursorY, cursorX, n) \in FrameCells(fb)
  BY <1>1, <1>2, PlaceInFrame
<1>8. \A n \in Bits : m[PlaceCell(cursorY, cursorX, n)]
          = IF Glyph(rune)[n] = 1 THEN foregroundColor ELSE backgroundColor
  <2> SUFFICES ASSUME NEW n \in Bits
               PROVE  m[PlaceCell(cursorY, cursorX, n)]
                          = IF Glyph(rune)[n] = 1 THEN foregroundColor ELSE backgroundColor
    OBVIOUS
  <2> DEFINE c == PlaceCell(cursorY, cursorX, n)
  <2>1. c \in DOMAIN m
    BY <1>6, <1>7
  <2>2. \A n2 \in Bits : c = PlaceCell(cursorY, cursorX, n2) => n = n2
    BY <1>1, <1>2, PlacesApart
  <2>3. Glyph(rune)[n] \in {0, 1}
    BY <1>1, BlankIsSpace
  <2>4. c \in cells(0) <=> Glyph(rune)[n] = 0
    BY <1>4, <2>2
  <2>5. c \in cells(1) <=> Glyph(rune)[n] = 1
    BY <1>4, <2>2
  <2> HIDE DEF c
  <2>6. m[c] = IF Glyph(rune)[n] = 1 THEN foregroundColor ELSE backgroundColor
    BY <1>5, <2>1, <2>3, <2>4, <2>5
  <2> QED
    BY <2>6 DEF c
<1>9. PixelsAt(m, cursorY, cursorX) = GlyphPixels(rune)
  BY <1>8, PixelsByCell DEF GlyphPixels, Bits
<1>10. ASSUME NEW line \in Line, NEW column \in Column,
              <<line, column>> # <<cursorY, cursorX>>
       PROVE  PixelsAt(m, line, column) = PixelsAt(memory, line, column)
  <2>1. \A n \in Bits : m[PlaceCell(line, column, n)] = memory[PlaceCell(line, column, n)]
    <3> SUFFICES ASSUME NEW n \in Bits
                 PROVE  m[PlaceCell(line, column, n)] = memory[PlaceCell(line, column, n)]
      OBVIOUS
    <3> DEFINE c == PlaceCell(line, column, n)
    <3>1. c \in DOMAIN m
      BY <1>1, <1>6, PlaceInFrame
    <3>2. \A n2 \in Bits : c # PlaceCell(cursorY, cursorX, n2)
      BY <1>1, <1>2, <1>10, PlacesApart
    <3>3. c \notin cells(0) /\ c \notin cells(1)
      BY <1>4, <3>2
    <3> HIDE DEF c
    <3>4. m[c] = memory[c]
      BY <1>5, <3>1, <3>3
    <3> QED
      BY <3>4 DEF c
  <2> QED
    BY <2>1, PixelsByCell
<1> QED
  BY <1>6, <1>9, <1>10 DEF drawn, m

(* A frame that is filled shows spaces.                                    *)
LEMMA FilledIsBlank ==
    ASSUME Frame, NEW m, FrameCells(fb) \subseteq DOMAIN m
    PROVE  LET f == FillAllWith(fb, m, backgroundColor).memory
           IN  /\ FrameCells(fb) \subseteq DOMAIN f
               /\ Screen(f) = [p \in Line \X Column |-> " "]
<1> DEFINE f == FillAllWith(fb, m, backgroundColor).memory
           count == fb.HorizontalPixels * fb.VerticalPixels
<1>1. f = [c \in DOMAIN m \cup (0 .. 0 + count - 1) |->
              IF c \in 0 .. 0 + count - 1 THEN backgroundColor ELSE m[c]]
  BY DEF FillAllWith, Done, FillArray, Store
<1>2. FrameCells(fb) = 0 .. 0 + count - 1
  <2>1. count \in Nat
    BY FrameTyped
  <2> QED
    BY <2>1 DEF FrameCells
<1> HIDE DEF f
<1>3. FrameCells(fb) \subseteq DOMAIN f /\ \A c \in FrameCells(fb) : f[c] = backgroundColor
  BY <1>1, <1>2
<1>4. ASSUME NEW line \in Line, NEW column \in Column
      PROVE  Shown(f, line, column) = " "
  <2>1. \A n \in Bits : f[PlaceCell(line, column, n)] = backgroundColor
    BY <1>3, PlaceInFrame
  <2>2. PixelsAt(f, line, column) = [n \in Bits |-> backgroundColor]
    BY <2>1, PixelsByCell
  <2>3. " " \in GlyphRunes /\ GlyphPixels(" ") = [n \in Bits |-> backgroundColor]
    BY FontAssumption, BlankIsSpace
  <2>4. /\ Shown(f, line, column) \in GlyphRunes
        /\ GlyphPixels(Shown(f, line, column)) = [n \in Bits |-> backgroundColor]
    <3>1. PixelsAt(f, line, column) = GlyphPixels(" ")
      BY <2>2, <2>3
    <3>2. /\ Shown(f, line, column) \in GlyphRunes
          /\ GlyphPixels(Shown(f, line, column)) = GlyphPixels(" ")
      <4> DEFINE space == " "
      <4>1. space \in GlyphRunes /\ PixelsAt(f, line, column) = GlyphPixels(space)
        BY <2>3, <3>1
      <4> HIDE DEF space
      <4>2. /\ Shown(f, line, column) \in GlyphRunes
            /\ GlyphPixels(Shown(f, line, column)) = GlyphPixels(space)
        BY <4>1, ShownRune, Zenon
      <4> QED
        BY <4>2 DEF space
    <3> QED
      BY <2>3, <3>2
  <2> QED
    BY <2>4, BlankIsSpace
<1>5. Screen(f) = [p \in Line \X Column |-> Shown(f, p[1], p[2])]
  BY DEF Screen, Line, Column
<1>6. \A p \in Line \X Column : Shown(f, p[1], p[2]) = " "
  BY <1>4
<1>7. Screen(f) = [p \in Line \X Column |-> " "]
  BY <1>5, <1>6
<1> QED
  BY <1>3, <1>7 DEF f

(* A scroll moves nothing and fills from the line above the last one at    *)
(* most: the shift is refused, and the fill starts a row too early.        *)
LEMMA ScrollKeepsLines ==
    ASSUME Frame, fb.HorizontalPixels * fb.VerticalPixels <= RangeUnsigned,
           fb.BitsPerPixel = 32,
           NEW m, FrameCells(fb) \subseteq DOMAIN m
    PROVE  /\ FrameCells(fb) \subseteq DOMAIN ScrolledMemory(m)
           /\ \A line \in Line, column \in Column :
                  line < glyphRowsInFrameBuffer - 2 =>
                      PixelsAt(ScrolledMemory(m), line, column) = PixelsAt(m, line, column)
<1> DEFINE h == glyphPixelHeight
           H == fb.HorizontalPixels
           V == fb.VerticalPixels
           rows == glyphRowsInFrameBuffer
           first == Unsigned(V - h - 1)
           start == Unsigned(first * H)
           count == H * h * (fb.BitsPerPixel \div 8)
           shifted == ShiftPixelRowsUp(fb, m, h, V - h, h)
           s == ScrolledMemory(m)
<1>1. /\ h \in Nat \ {0} /\ H \in Nat \ {0} /\ V \in Nat \ {0} /\ V < RangeUnsigned
      /\ RangeUnsigned \in Nat \ {0} /\ rows \in Nat \ {0} /\ h <= V
      /\ glyphColumnsInFrameBuffer \in Nat \ {0}
  <2>1. h <= V
    BY FrameTyped DEF Frame, RoomForGlyph
  <2> QED
    BY <2>1, FrameTyped
<1>2. shifted.memory = m
  <2>1. Unsigned(h + (V - h)) = V
    <3>1. h + (V - h) = V
      BY <1>1
    <3> QED
      BY <1>1, <3>1, InRange
  <2>2. Unsigned(h + (V - h)) >= V
    BY <1>1, <2>1
  <2> QED
    BY <2>2 DEF ShiftPixelRowsUp, Refused
<1>3. s = FillRowsWith(fb, m, first, h, backgroundColor).memory
  BY <1>2 DEF ScrolledMemory
<1>4. \/ s = m
      \/ s = Store(m, start .. start + count - 1, backgroundColor)
  <2> HIDE DEF s, first
  <2> QED
    BY <1>3 DEF FillRowsWith, Refused, Done, FillArray, start
<1>5. FrameCells(fb) \subseteq DOMAIN s
  <2> HIDE DEF s, start, count
  <2> QED BY <1>4 DEF Store
<1>6. ASSUME NEW line \in Line, NEW column \in Column, line < rows - 2
      PROVE  PixelsAt(s, line, column) = PixelsAt(m, line, column)
  <2>1. line \in Nat /\ line + 3 <= rows
    BY <1>1, <1>6 DEF Line
  <2>2. line * h + h <= V - 2 * h /\ line * h \in Nat
    <3>1. rows * h <= V
      <4>1. rows - 1 \in Nat /\ rows - 1 < V \div h /\ V \div h = rows
        BY <1>1 DEF glyphRowsInFrameBuffer
      <4>2. (rows - 1) * h + h <= V
        <5> HIDE DEF rows, h, V
        <5> QED BY <1>1, <4>1, GlyphFits
      <4>3. (rows - 1) * h + h = rows * h
        <5> HIDE DEF rows, h
        <5> QED BY <1>1, SMTT(30)
      <4> QED
        BY <4>2, <4>3
    <3> HIDE DEF rows, h, V
    <3>2. (line + 3) * h <= rows * h
      BY <1>1, <2>1, SMTT(30)
    <3>3. (line + 3) * h = line * h + 3 * h /\ line * h \in Nat
      BY <1>1, <2>1, SMTT(30)
    <3>4. rows * h \in Nat /\ 3 * h \in Nat
      BY <1>1
    <3> QED
      BY <1>1, <3>1, <3>2, <3>3, <3>4
  <2>3. V - h - 1 \in Nat /\ V - h - 1 < RangeUnsigned /\ line * h + h <= V - h - 1
    <3> HIDE DEF h, V
    <3> QED BY <1>1, <2>2
  <2>4. first = V - h - 1
    <3> HIDE DEF h, V
    <3> QED BY <2>3, InRange DEF first
  <2>5. start = (V - h - 1) * H /\ start \in Nat
    <3>1. (V - h - 1) * H < H * V /\ (V - h - 1) * H \in Nat /\ H * V \in Nat
      <4> HIDE DEF h, V, H
      <4>1. V - h - 1 < V
        BY <1>1
      <4> DEFINE k == V - h - 1
      <4>2. k \in Nat /\ k < V
        BY <2>3, <4>1
      <4> HIDE DEF k
      <4>3. k * H < H * V /\ k * H \in Nat /\ H * V \in Nat
        BY <1>1, <4>2, SMTT(30)
      <4> QED
        BY <4>3 DEF k
    <3>2. H * V <= RangeUnsigned
      OBVIOUS
    <3>3. (V - h - 1) * H < RangeUnsigned
      <4> HIDE DEF h, V, H
      <4> DEFINE p == (V - h - 1) * H
                 t == H * V
      <4>1. p < t /\ p \in Nat /\ t \in Nat /\ t <= RangeUnsigned
        BY <3>1, <3>2
      <4> HIDE DEF p, t
      <4>2. p < RangeUnsigned
        BY <1>1, <4>1
      <4> QED
        BY <4>2 DEF p
    <3> HIDE DEF first, h, V, H
    <3> QED
      BY <2>4, <3>1, <3>3, InRange DEF start
  <2>6. ASSUME NEW n \in Bits
        PROVE  /\ PlaceCell(line, column, n) < start
               /\ PlaceCell(line, column, n) \in FrameCells(fb)
               /\ PlaceCell(line, column, n) \in Nat
    <3> DEFINE q == (n - 1) \div glyphPixelWidth
               r == (n - 1) % glyphPixelWidth
               col == column * glyphPixelWidth + r
    <3>1. /\ q \in Nat /\ q < h
          /\ line * h + q \in 0 .. V - 1 /\ col \in 0 .. H - 1
          /\ PlaceCell(line, column, n) = (line * h + q) * H + col
          /\ PlaceCell(line, column, n) \in FrameCells(fb)
      BY PlaceInFrame
    <3>2. PlaceCell(line, column, n) \in Nat
      <4>1. H * V \in Nat
        BY <1>1, SMTT(30)
      <4> QED
        BY <3>1, <4>1 DEF FrameCells
    <3> HIDE DEF q, r, col, h, V, H, start
    <3> DEFINE a == line * h + q
               k == V - h - 1
    <3>3. a \in Nat /\ k \in Nat /\ a < k
      BY <1>1, <2>2, <2>3, <3>1
    <3> HIDE DEF a, k
    <3>4. a * H + col < k * H
      <4>1. a + 1 <= k
        BY <3>3
      <4>2. (a + 1) * H <= k * H /\ (a + 1) * H = a * H + H /\ a * H \in Nat /\ k * H \in Nat
        BY <1>1, <3>3, <4>1, SMTT(30)
      <4> QED
        BY <1>1, <3>1, <4>2
    <3> QED
      BY <2>5, <3>1, <3>2, <3>4 DEF a, k
  <2>7. \A n \in Bits : s[PlaceCell(line, column, n)] = m[PlaceCell(line, column, n)]
    <3> SUFFICES ASSUME NEW n \in Bits
                 PROVE  s[PlaceCell(line, column, n)] = m[PlaceCell(line, column, n)]
      OBVIOUS
    <3> DEFINE c == PlaceCell(line, column, n)
    <3>1. c < start /\ c \in Nat /\ c \in DOMAIN m /\ start \in Nat
      BY <2>5, <2>6
    <3> HIDE DEF c, s, start, count
    <3>2. c \notin start .. start + count - 1
      BY <3>1
    <3>3. s[c] = m[c]
      BY <1>4, <3>1, <3>2 DEF Store
    <3> QED
      BY <3>3 DEF c
  <2> HIDE DEF s
  <2> QED
    BY <2>7, PixelsByCell
<1> HIDE DEF s
<1>7. /\ FrameCells(fb) \subseteq DOMAIN s
      /\ \A line \in Line, column \in Column :
             line < glyphRowsInFrameBuffer - 2 =>
                 PixelsAt(s, line, column) = PixelsAt(m, line, column)
  BY <1>5, <1>6
<1> QED
  BY <1>7 DEF s

(* Beside the invariant of the terminal: the frame is in the memory, and   *)
(* its cells are counted by an unsigned int.                               *)
FrameInMemory == /\ FrameCells(fb) \subseteq DOMAIN memory
                 /\ fb.HorizontalPixels * fb.VerticalPixels <= RangeUnsigned

ScreenInv == IndInv /\ FrameInMemory

(* The next line of the terminal is the next line of its screen.           *)
LEMMA NextLineShown ==
    ASSUME IndInv, UNCHANGED fb, fb.HorizontalPixels * fb.VerticalPixels <= RangeUnsigned,
           NEW m, FrameCells(fb) \subseteq DOMAIN m, NextLine(m)
    PROVE  /\ TheScreen!NextLine(Screen(m))
           /\ FrameCells(fb) \subseteq DOMAIN memory'
<1>1. /\ Screen(memory)' = Screen(memory')
      /\ glyphRowsInFrameBuffer' = glyphRowsInFrameBuffer
      /\ glyphColumnsInFrameBuffer' = glyphColumnsInFrameBuffer
  BY ScreenAfter
<1>2. Frame /\ fb.BitsPerPixel = 32
  BY DEF IndInv, TypeOK, Frame, FrameBuffers
<1>3. /\ glyphRowsInFrameBuffer \in Nat \ {0} /\ cursorY \in Nat
      /\ cursorY < glyphRowsInFrameBuffer
  BY <1>2, FrameTyped DEF IndInv, TypeOK, CursorOnScreen
<1>4. CASE OnLastLine
  <2>1. /\ cursorX' = 0 /\ memory' = ScrolledMemory(m)
        /\ cursorY' = glyphRowsInFrameBuffer - 1 /\ cursorY = glyphRowsInFrameBuffer - 1
    BY <1>3, <1>4 DEF NextLine, OnLastLine
  <2>2. /\ FrameCells(fb) \subseteq DOMAIN ScrolledMemory(m)
        /\ \A line \in Line, column \in Column :
               line < glyphRowsInFrameBuffer - 2 =>
                   PixelsAt(ScrolledMemory(m), line, column) = PixelsAt(m, line, column)
    BY <1>2, ScrollKeepsLines
  <2>3. \A p \in Line \X Column :
            p[1] < glyphRowsInFrameBuffer - 2 =>
                Screen(ScrolledMemory(m))[p] = Screen(m)[p]
    <3> SUFFICES ASSUME NEW line \in Line, NEW column \in Column,
                        line < glyphRowsInFrameBuffer - 2
                 PROVE  Screen(ScrolledMemory(m))[<<line, column>>] = Screen(m)[<<line, column>>]
      OBVIOUS
    <3>1. Shown(ScrolledMemory(m), line, column) = Shown(m, line, column)
      BY <2>2, SamePixels
    <3>2. <<line, column>> \in Line \X Column
      OBVIOUS
    <3> QED
      BY <3>1, <3>2 DEF Screen, Line, Column
  <2>4. DOMAIN Screen(ScrolledMemory(m)) = Line \X Column
    BY DEF Screen, Line, Column
  <2>5. Line = TheScreen!Lines /\ Line \X Column = TheScreen!Places
    BY DEF Line, Column, TheScreen!Lines, TheScreen!Places
  <2> DEFINE last == glyphRowsInFrameBuffer
  <2>6. Screen(memory)' = Screen(ScrolledMemory(m))
    BY <1>1, <2>1
  <2>7. TheScreen!NextLine(Screen(m))
    BY <2>1, <2>3, <2>4, <2>5, <2>6 DEF TheScreen!NextLine
  <2> QED
    BY <2>1, <2>2, <2>7
<1>5. CASE ~OnLastLine
  <2>1. /\ cursorX' = 0 /\ memory' = m
        /\ cursorY' = cursorY + 1 /\ cursorY + 1 < glyphRowsInFrameBuffer
    BY <1>3, <1>5 DEF NextLine, OnLastLine
  <2>2. Screen(memory)' = Screen(m)
    BY <1>1, <2>1
  <2> QED
    BY <2>1, <2>2 DEF TheScreen!NextLine
<1> QED
  BY <1>4, <1>5

(* A glyph that is put appears at the cursor.                              *)
LEMMA GlyphShown ==
    ASSUME ScreenInv, UNCHANGED fb, NEW rune \in GlyphRunes, DrawGlyph(rune)
    PROVE  /\ TheScreen!Next
           /\ FrameCells(fb) \subseteq DOMAIN memory'
<1> DEFINE m == DrawAligned2ColorBitmapAt(fb, memory,
                    cursorY * glyphPixelHeight, cursorX * glyphPixelWidth,
                    GlyphBitmap(rune), foregroundColor, backgroundColor).memory
           r == Shown(m, cursorY, cursorX)
<1>1. /\ Screen(memory)' = Screen(memory')
      /\ glyphRowsInFrameBuffer' = glyphRowsInFrameBuffer
      /\ glyphColumnsInFrameBuffer' = glyphColumnsInFrameBuffer
  BY ScreenAfter
<1>2. IndInv /\ FrameCells(fb) \subseteq DOMAIN memory
      /\ fb.HorizontalPixels * fb.VerticalPixels <= RangeUnsigned
  BY DEF ScreenInv, FrameInMemory
<1>3. /\ FrameCells(fb) \subseteq DOMAIN m
      /\ PixelsAt(m, cursorY, cursorX) = GlyphPixels(rune)
      /\ \A line \in Line, column \in Column :
             <<line, column>> # <<cursorY, cursorX>> =>
                 PixelsAt(m, line, column) = PixelsAt(memory, line, column)
  BY <1>2, GlyphDrawn
<1>4. IF OnLastColumn
      THEN NextLine(m)
      ELSE cursorX' = cursorX + 1 /\ memory' = m /\ cursorY' = cursorY
  BY DEF DrawGlyph
<1> HIDE DEF m
<1>5. r \in GlyphRunes
  BY <1>3, ShownRune
<1>6. Screen(m) = [Screen(memory) EXCEPT ![<<cursorY, cursorX>>] = r]
  <2>1. /\ Screen(m) = [p \in Line \X Column |-> Shown(m, p[1], p[2])]
        /\ Screen(memory) = [p \in Line \X Column |-> Shown(memory, p[1], p[2])]
    BY DEF Screen, Line, Column
  <2>2. \A p \in Line \X Column :
            Shown(m, p[1], p[2]) = IF p = <<cursorY, cursorX>> THEN r
                                   ELSE Shown(memory, p[1], p[2])
    <3> SUFFICES ASSUME NEW p \in Line \X Column
                 PROVE  Shown(m, p[1], p[2]) = IF p = <<cursorY, cursorX>> THEN r
                                               ELSE Shown(memory, p[1], p[2])
      OBVIOUS
    <3>1. p[1] \in Line /\ p[2] \in Column /\ p = <<p[1], p[2]>>
      OBVIOUS
    <3>2. CASE p = <<cursorY, cursorX>>
      <4>1. p[1] = cursorY /\ p[2] = cursorX
        BY <3>2
      <4> QED
        BY <3>2, <4>1
    <3>3. CASE p # <<cursorY, cursorX>>
      <4>1. PixelsAt(m, p[1], p[2]) = PixelsAt(memory, p[1], p[2])
        BY <1>3, <3>1, <3>3
      <4>2. Shown(m, p[1], p[2]) = Shown(memory, p[1], p[2])
        BY <4>1, SamePixels
      <4> QED
        BY <3>3, <4>2
    <3> QED
      BY <3>2, <3>3
  <2> HIDE DEF r
  <2> DEFINE s == Screen(memory)
             cursor == <<cursorY, cursorX>>
  <2>3. DOMAIN s = Line \X Column /\ \A p \in Line \X Column : s[p] = Shown(memory, p[1], p[2])
    BY <2>1, Zenon
  <2> HIDE DEF s, cursor
  <2>4. [s EXCEPT ![cursor] = r] = [p \in DOMAIN s |-> IF p = cursor THEN r ELSE s[p]]
    OBVIOUS
  <2>5. \A p \in Line \X Column : Shown(m, p[1], p[2]) = IF p = cursor THEN r ELSE s[p]
    BY <2>2, <2>3, Zenon DEF cursor
  <2>6. Screen(m) = [p \in Line \X Column |-> IF p = cursor THEN r ELSE s[p]]
    BY <2>1, <2>5
  <2> QED
    BY <2>3, <2>4, <2>6 DEF s, cursor
<1>7. /\ glyphColumnsInFrameBuffer \in Nat /\ cursorX \in Nat
      /\ cursorX < glyphColumnsInFrameBuffer
  <2>1. Frame
    BY <1>2 DEF IndInv, TypeOK, Frame
  <2> QED
    BY <1>2, <2>1, FrameTyped DEF IndInv, TypeOK, CursorOnScreen
<1> HIDE DEF r
<1>8. CASE OnLastColumn
  <2>1. cursorX + 1 = glyphColumnsInFrameBuffer
    BY <1>7, <1>8 DEF OnLastColumn
  <2>2. TheScreen!NextLine(Screen(m)) /\ FrameCells(fb) \subseteq DOMAIN memory'
    BY <1>2, <1>3, <1>4, <1>8, NextLineShown
  <2>3. TheScreen!Show(r)
    BY <1>6, <2>1, <2>2 DEF TheScreen!Show
  <2> QED
    BY <1>1, <1>5, <2>2, <2>3 DEF TheScreen!Next, TheScreen!Put
<1>9. CASE ~OnLastColumn
  <2>1. /\ cursorX' = cursorX + 1 /\ memory' = m /\ cursorY' = cursorY
        /\ cursorX + 1 < glyphColumnsInFrameBuffer
    BY <1>4, <1>7, <1>9 DEF OnLastColumn
  <2>2. Screen(memory)' = Screen(m)
    BY <1>1, <2>1
  <2>3. TheScreen!Show(r)
    BY <1>6, <2>1, <2>2 DEF TheScreen!Show
  <2> QED
    BY <1>1, <1>3, <1>5, <2>1, <2>3 DEF TheScreen!Next, TheScreen!Put
<1> QED
  BY <1>8, <1>9

(* The screen begins as TextScreen lets it.                                *)
LEMMA InitScreen == Init => ScreenInv /\ TheScreen!Init
<1> SUFFICES ASSUME Init PROVE ScreenInv /\ TheScreen!Init
  OBVIOUS
<1>1. IndInv
  BY InitIndInv
<1>2. FrameInMemory
  BY PixelsAssumption DEF Init, FrameInMemory
<1>3. glyphRowsInFrameBuffer > 0 /\ glyphColumnsInFrameBuffer > 0
  <2>1. Frame
    BY <1>1 DEF IndInv, TypeOK, Frame
  <2> QED
    BY <2>1, FrameTyped
<1>4. DOMAIN Screen(memory) = TheScreen!Places
  BY DEF Screen, TheScreen!Places, TheScreen!Lines
<1> QED
  BY <1>1, <1>2, <1>3, <1>4 DEF Init, ScreenInv, TheScreen!Init

(* A step that leaves memory and cursor alone leaves the screen as it is.  *)
LEMMA SameScreen ==
    ASSUME FrameInMemory, UNCHANGED <<fb, memory, cursorX, cursorY>>
    PROVE  FrameInMemory' /\ UNCHANGED TheScreen!vars
<1>1. /\ Screen(memory)' = Screen(memory')
      /\ glyphRowsInFrameBuffer' = glyphRowsInFrameBuffer
      /\ glyphColumnsInFrameBuffer' = glyphColumnsInFrameBuffer
  BY ScreenAfter
<1>2. Screen(memory)' = Screen(memory)
  BY <1>1
<1> QED
  BY <1>1, <1>2 DEF FrameInMemory, FrameCells, TheScreen!vars

(* Every step of the terminal is one of its screen, or leaves it as it is. *)
LEMMA NextScreen ==
    ScreenInv /\ [Next]_vars => ScreenInv' /\ [TheScreen!Next]_(TheScreen!vars)
<1> SUFFICES ASSUME ScreenInv, [Next]_vars
             PROVE  ScreenInv' /\ (TheScreen!Next \/ UNCHANGED TheScreen!vars)
  OBVIOUS
<1>1. IndInv /\ FrameInMemory /\ IndInv'
  BY NextIndInv DEF ScreenInv
<1>2. UNCHANGED fb
  BY DEF Next, PutRune, PutGlyph, PutTab, PutLineFeed, PutBackspace, PutRuneString, Clear, vars
<1>3. /\ Screen(memory)' = Screen(memory')
      /\ glyphRowsInFrameBuffer' = glyphRowsInFrameBuffer
      /\ glyphColumnsInFrameBuffer' = glyphColumnsInFrameBuffer
  BY <1>2, ScreenAfter
<1>4. FrameCells(fb)' = FrameCells(fb)
      /\ (FrameCells(fb) \subseteq DOMAIN memory' => FrameInMemory')
  BY <1>1, <1>2 DEF FrameInMemory, FrameCells
<1>5. ASSUME UNCHANGED <<memory, cursorX, cursorY>>
      PROVE  FrameInMemory' /\ UNCHANGED TheScreen!vars
  BY <1>1, <1>2, <1>5, SameScreen
<1>6. CASE PutGlyph
  BY <1>1, <1>2, <1>4, <1>6, GlyphShown DEF PutGlyph, ScreenInv
<1>7. CASE PutTab
  BY <1>1, <1>5, <1>7 DEF PutTab, ScreenInv
<1>8. CASE PutLineFeed
  <2>1. NextLine(memory)
    BY <1>8 DEF PutLineFeed
  <2>2. TheScreen!NextLine(Screen(memory)) /\ FrameCells(fb) \subseteq DOMAIN memory'
    BY <1>1, <1>2, <2>1, NextLineShown DEF FrameInMemory
  <2> QED
    BY <1>1, <1>3, <1>4, <2>2 DEF ScreenInv, TheScreen!Next, TheScreen!LineFeed
<1>9. CASE PutBackspace
  BY <1>1, <1>5, <1>9 DEF PutBackspace, ScreenInv
<1>10. CASE PutRuneString
  BY <1>1, <1>5, <1>10 DEF PutRuneString, ScreenInv
<1>11. CASE Clear
  <2>1. Frame /\ FrameCells(fb) \subseteq DOMAIN memory
    BY <1>1 DEF IndInv, TypeOK, Frame, FrameInMemory
  <2>2. /\ FrameCells(fb) \subseteq DOMAIN memory'
        /\ Screen(memory') = [p \in Line \X Column |-> " "]
        /\ cursorX' = 0 /\ cursorY' = 0
    BY <1>11, <2>1, FilledIsBlank DEF Clear
  <2>3. Line \X Column = TheScreen!Places
    BY DEF Line, Column, TheScreen!Lines, TheScreen!Places
  <2> QED
    BY <1>1, <1>3, <1>4, <2>2, <2>3 DEF ScreenInv, TheScreen!Next, TheScreen!Clear
<1>12. CASE UNCHANGED vars
  BY <1>1, <1>5, <1>12 DEF vars, ScreenInv
<1> QED
  BY <1>6, <1>7, <1>8, <1>9, <1>10, <1>11, <1>12 DEF Next, PutRune

(* So is every step with formatted output.                                 *)
LEMMA NextOutputScreen ==
    OutputInv /\ FrameInMemory /\ [OutputNext]_<<vars, output>>
        => FrameInMemory' /\ [TheScreen!Next]_(TheScreen!vars)
<1> SUFFICES ASSUME OutputInv, FrameInMemory, [OutputNext]_<<vars, output>>
             PROVE  FrameInMemory' /\ [TheScreen!Next]_(TheScreen!vars)
  OBVIOUS
<1>1. [Next]_vars => FrameInMemory' /\ [TheScreen!Next]_(TheScreen!vars)
  BY NextScreen DEF OutputInv, ScreenInv
<1>2. CASE PutRune
  BY <1>1, <1>2 DEF Next
<1>3. CASE PutRuneString \/ Clear
  BY <1>1, <1>3 DEF Next
<1>4. CASE PutFormattedRuneString \/ EndOfCall
  BY <1>1, <1>4 DEF PutFormattedRuneString, EndOfCall
<1>5. CASE PutChunk
  BY <1>5, SameScreen DEF PutChunk
<1>6. CASE UNCHANGED <<vars, output>>
  BY <1>1, <1>6
<1> QED
  BY <1>2, <1>3, <1>4, <1>5, <1>6 DEF OutputNext

(***************************************************************************)
(* The terminal implements its screen: a glyph appears at the cursor and   *)
(* changes no other place, a clear leaves spaces, and a scroll touches the *)
(* last two lines at most (TextTerminal.c:4-72).                           *)
(***************************************************************************)
THEOREM ScreenImplemented == Spec => ShowsScreen
<1>1. Init => ScreenInv /\ TheScreen!Init
  BY InitScreen
<1>2. ScreenInv /\ [Next]_vars => ScreenInv' /\ [TheScreen!Next]_(TheScreen!vars)
  BY NextScreen
<1> QED
  BY <1>1, <1>2, PTL DEF Spec, ShowsScreen, TheScreen!Spec

(* So does the terminal with formatted output (TextTerminal.c:74-93).      *)
THEOREM OutputOnScreen == OutputSpec => ShowsScreen
<1>1. OutputInit => FrameInMemory /\ TheScreen!Init
  BY InitScreen DEF OutputInit, ScreenInv
<1>2. OutputInv /\ FrameInMemory /\ [OutputNext]_<<vars, output>>
          => FrameInMemory' /\ [TheScreen!Next]_(TheScreen!vars)
  BY NextOutputScreen
<1> QED
  BY <1>1, <1>2, OutputInvariance, PTL DEF OutputSpec, ShowsScreen, TheScreen!Spec
=============================================================================
