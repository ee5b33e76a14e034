---------------------------- MODULE TextTerminal ----------------------------
(***************************************************************************)
(* TextTerminal.c: a terminal of glyphs over a 32-bit frame buffer, the    *)
(* only depth that has the bitmap operation the terminal draws with.       *)
(* The program puts strings of runes; one step is one glyph, one line feed *)
(* or one clearing of the screen.                                          *)
(***************************************************************************)
EXTENDS FrameBuffer

CONSTANTS
    Frames,             \* resolutions of the frame buffer
    BytesPerGlyphRow,   \* the font: 1 and 16
    RowsPerGlyph,
    GlyphRunes,         \* the runes the font has glyphs for, with " "
    Glyph(_),           \* the bits of a rune's glyph, in order
    Strings             \* the strings the program puts

(* The rune strings hold these beside the runes of the font.               *)
ControlRunes == {"\t", "\n", "\\b"}

ASSUME FontAssumption == /\ BytesPerGlyphRow \in Nat \ {0}
                         /\ RowsPerGlyph \in Nat \ {0}
                         /\ " " \in GlyphRunes
                         /\ GlyphRunes \cap ControlRunes = {}

(* The frame has room for a glyph: the terminal divides the frame by it.   *)
ASSUME FramesAssumption ==
    \A frame \in Frames : /\ frame.HorizontalPixels \in 0 .. RangeUnsigned - 1
                          /\ frame.VerticalPixels \in 0 .. RangeUnsigned - 1
                          /\ frame.HorizontalPixels >= BytesPerGlyphRow * ByteBits
                          /\ frame.VerticalPixels >= RowsPerGlyph

ASSUME StringsAssumption == Strings \subseteq Seq(GlyphRunes \cup ControlRunes)

VARIABLES
    fb,                 \* term->frameBuffer
    memory,             \* the video memory
    cursorX,
    cursorY,
    string,             \* the runes PutRuneString has still to put
    error,              \* what the frame buffer answered to the last drawing
    scrolled            \* history: scrollOneLine has been called

vars == <<fb, memory, cursorX, cursorY, string, error, scrolled>>

glyphPixelWidth  == BytesPerGlyphRow * ByteBits
glyphPixelHeight == RowsPerGlyph
glyphColumnsInFrameBuffer == fb.HorizontalPixels \div glyphPixelWidth
glyphRowsInFrameBuffer    == fb.VerticalPixels \div glyphPixelHeight

foregroundColor == "white"
backgroundColor == "black"

(* PopulateTextTerminal, on a frame that holds anything.                   *)
Init ==
    /\ \E frame \in Frames :
           fb = [HorizontalPixels |-> frame.HorizontalPixels,
                 VerticalPixels   |-> frame.VerticalPixels,
                 BitsPerPixel     |-> 32]
    /\ memory = [c \in FrameCells(fb) |-> Unknown]
    /\ cursorX = 0
    /\ cursorY = 0
    /\ string = <<>>
    /\ error = "NoError"
    /\ scrolled = FALSE

-----------------------------------------------------------------------------
(* scrollOneLine: a shift of the rows below the first line, then a fill    *)
(* meant for the last line.  The errors of both are ignored.               *)
ScrolledMemory(m) ==
    LET shifted == ShiftPixelRowsUp(fb, m, glyphPixelHeight,
                                    fb.VerticalPixels - glyphPixelHeight, glyphPixelHeight)
        filled  == FillRowsWith(fb, shifted.memory,
                                Unsigned(fb.VerticalPixels - glyphPixelHeight - 1),
                                glyphPixelHeight,
                                backgroundColor)
    IN  filled.memory

LateLastLine == cursorY >= glyphRowsInFrameBuffer           \* mutant: one line too late
OnLastLine   == cursorY + 1 >= glyphRowsInFrameBuffer

LateLastColumn == cursorX >= glyphColumnsInFrameBuffer      \* mutant: one column too late
OnLastColumn   == cursorX + 1 >= glyphColumnsInFrameBuffer

(* The cursor leaves its line; the screen is scrolled when it was the last.*)
NextLine(m) ==
    /\ cursorX' = 0
    /\ IF OnLastLine
       THEN /\ memory' = ScrolledMemory(m)
            /\ cursorY' = glyphRowsInFrameBuffer - 1
            /\ scrolled' = TRUE
       ELSE /\ memory' = m
            /\ cursorY' = cursorY + 1
            /\ UNCHANGED scrolled

GlyphBitmap(rune) == [PixelsPerRow     |-> glyphPixelWidth,
                      NumberOfRows     |-> glyphPixelHeight,
                      BitmapDefinition |-> Glyph(rune)]

(* The glyph is drawn at the cursor, which advances.                       *)
DrawGlyph(rune) ==
    LET drawn == DrawAligned2ColorBitmapAt(fb, memory,
                     cursorY * glyphPixelHeight, cursorX * glyphPixelWidth,
                     GlyphBitmap(rune), foregroundColor, backgroundColor)
    IN  /\ error' = drawn.error
        /\ IF OnLastColumn
           THEN NextLine(drawn.memory)
           ELSE /\ cursorX' = cursorX + 1
                /\ memory' = drawn.memory
                /\ UNCHANGED <<cursorY, scrolled>>

PutGlyph ==
    /\ string # <<>>
    /\ Head(string) \in GlyphRunes
    /\ DrawGlyph(Head(string))
    /\ string' = Tail(string)
    /\ UNCHANGED fb

(* Mutant: a tab puts tabs, and the recursion does not end.                *)
PutTabForever ==
    /\ string # <<>>
    /\ Head(string) = "\t"
    /\ UNCHANGED vars

(* A tab is four spaces.                                                   *)
PutTab ==
    /\ string # <<>>
    /\ Head(string) = "\t"
    /\ string' = <<" ", " ", " ", " ">> \o Tail(string)
    /\ UNCHANGED <<fb, memory, cursorX, cursorY, error, scrolled>>

PutLineFeed ==
    /\ string # <<>>
    /\ Head(string) = "\n"
    /\ NextLine(memory)
    /\ string' = Tail(string)
    /\ UNCHANGED <<fb, error>>

(* Mutant: a backspace moves the cursor, wherever it is.                   *)
PutBackspaceLeft ==
    /\ string # <<>>
    /\ Head(string) = "\\b"
    /\ cursorX' = cursorX - 1
    /\ string' = Tail(string)
    /\ UNCHANGED <<fb, memory, cursorY, error, scrolled>>

(* A backspace is ignored.                                                 *)
PutBackspace ==
    /\ string # <<>>
    /\ Head(string) = "\\b"
    /\ string' = Tail(string)
    /\ UNCHANGED <<fb, memory, cursorX, cursorY, error, scrolled>>

PutRuneString ==
    /\ string = <<>>
    /\ string' \in Strings
    /\ UNCHANGED <<fb, memory, cursorX, cursorY, error, scrolled>>

Clear ==
    /\ string = <<>>
    /\ memory' = FillAllWith(fb, memory, backgroundColor).memory
    /\ cursorX' = 0
    /\ cursorY' = 0
    /\ UNCHANGED <<fb, string, error, scrolled>>

PutRune == PutGlyph \/ PutTab \/ PutLineFeed \/ PutBackspace

Next == PutRune \/ PutRuneString \/ Clear

Spec == Init /\ [][Next]_vars

-----------------------------------------------------------------------------
FrameBuffers == [HorizontalPixels : 0 .. RangeUnsigned - 1,
                 VerticalPixels   : 0 .. RangeUnsigned - 1,
                 BitsPerPixel     : {32}]

TypeOK ==
    /\ fb \in FrameBuffers
    /\ DOMAIN memory \subseteq Int
    /\ cursorX \in Nat
    /\ cursorY \in Nat
    /\ string \in Seq(GlyphRunes \cup ControlRunes)
    /\ error \in {"NoError", "ErrorInvalidParameter"}
    /\ scrolled \in BOOLEAN

(***************************************************************************)
(* The cursor is always on a place of the screen, after wraps, line feeds, *)
(* tabs and scrolls alike, whatever the frame and the font                 *)
(* (TextTerminal.c:9-35).                                                  *)
(***************************************************************************)
CursorOnScreen ==
    /\ cursorX < glyphColumnsInFrameBuffer
    /\ cursorY < glyphRowsInFrameBuffer

(***************************************************************************)
(* PutRune ignores what DrawAligned2ColorBitmapAt returns                  *)
(* (TextTerminal.c:45).  It may: no glyph is ever refused.                 *)
(***************************************************************************)
GlyphsAccepted == error = "NoError"

(***************************************************************************)
(* Until the cursor has left the last line, the terminal writes the frame  *)
(* and nothing else, whatever the frame and the font (TextTerminal.c:9-57).    *)
(***************************************************************************)
WritesFrameOnly == ~scrolled => DOMAIN memory = FrameCells(fb)

(* The inductive invariant: the guards of the bitmap operation need the    *)
(* cursor and a frame that has room for a glyph.                           *)
RoomForGlyph ==
    /\ fb.HorizontalPixels >= glyphPixelWidth
    /\ fb.VerticalPixels >= glyphPixelHeight

IndInv == TypeOK /\ CursorOnScreen /\ GlyphsAccepted /\ WritesFrameOnly /\ RoomForGlyph
=============================================================================
