------------------------- MODULE TextTerminalScreen -------------------------
(***************************************************************************)
(* The terminal against what its user sees.                                *)
(***************************************************************************)
EXTENDS TextTerminal

CONSTANT Garbled        \* a place that shows no rune of the font

(* A glyph is a bitmap.  Many runes have a blank one (TextTerminal.c:136); *)
(* of these GlyphRunes holds the space alone.                              *)
ASSUME GlyphsAssumption ==
    \A rune \in GlyphRunes :
        LET bits == 1 .. glyphPixelWidth * glyphPixelHeight
        IN  /\ \A n \in bits : Glyph(rune)[n] \in {0, 1}
            /\ rune = " " <=> \A n \in bits : Glyph(rune)[n] = 0

(* The loader gives the sizes of a frame in 16 bits (stivale2.h).          *)
ASSUME PixelsAssumption ==
    \A frame \in Frames : frame.HorizontalPixels * frame.VerticalPixels <= RangeUnsigned

(* The pixels of a place of the screen, in order, and the rune they show.  *)
PixelsAt(m, line, column) ==
    [n \in 1 .. glyphPixelWidth * glyphPixelHeight |->
        m[(line * glyphPixelHeight + (n - 1) \div glyphPixelWidth) * fb.HorizontalPixels
              + column * glyphPixelWidth + ((n - 1) % glyphPixelWidth)]]

GlyphPixels(rune) ==
    [n \in 1 .. glyphPixelWidth * glyphPixelHeight |->
        IF Glyph(rune)[n] = 1 THEN foregroundColor ELSE backgroundColor]

Shown(m, line, column) ==
    IF \E rune \in GlyphRunes : GlyphPixels(rune) = PixelsAt(m, line, column)
    THEN CHOOSE rune \in GlyphRunes : GlyphPixels(rune) = PixelsAt(m, line, column)
    ELSE Garbled

Screen(m) == [p \in (0 .. glyphRowsInFrameBuffer - 1) \X (0 .. glyphColumnsInFrameBuffer - 1) |->
                 Shown(m, p[1], p[2])]

(***************************************************************************)
(* The terminal implements TextScreen: each glyph lands on its place and   *)
(* on no other, also next to the edges that hold no whole glyph.           *)
(***************************************************************************)
TheScreen == INSTANCE TextScreen
                WITH Runes <- GlyphRunes, Blank <- " ",
                     rows <- glyphRowsInFrameBuffer, columns <- glyphColumnsInFrameBuffer,
                     screen <- Screen(memory), x <- cursorX, y <- cursorY

ShowsScreen == TheScreen!Spec

-----------------------------------------------------------------------------
(* TextTerminal.c:4: when the screen scrolls by one line, every line shows *)
(* what the line below it did.  The shift it asks for is always refused.   *)
LinesMoveUp ==
    [][string # <<>> /\ Head(string) = "\n" /\ cursorY = glyphRowsInFrameBuffer - 1
        /\ string' = Tail(string) =>
        \A p \in DOMAIN Screen(memory) :
            p[1] < glyphRowsInFrameBuffer - 1 =>
                Screen(memory')[p] = Screen(memory)[<<p[1] + 1, p[2]>>]]_vars
=============================================================================
