# Verification of the K-OS

TLA+ specifications of the kernel in `src/src`: models of its components, TLC runs that
check them on small instances, and TLAPS proofs of what holds of them for every instance.
Every definition is translated from the C source; `PROJECT.json` names, for each definition,
the lines it stands for.

## 1. The system

The kernel is small, single-processor and has no scheduler. `_start` reads the loader's
tags, sets up a frame buffer and a text terminal, asks the CPU for its capabilities,
reprograms and masks the interrupt controllers, installs interrupt routines that print on
the terminal, prints a greeting and halts.

| Component | Source | State it keeps | Operations | Uses |
|---|---|---|---|---|
| String formatter | `String.c:104-327` | a chunk of a caller's buffer, the position in the format, the arguments, the error of the last `FormatIntoBuffer` | format iteratively, format into a buffer | number strings; calls back its client for each chunk |
| Number strings | `String.c:3-102, 329-356` | none between calls | write a `uint64_t`/`int64_t` in decimal or hexadecimal, parse a decimal | |
| Frame buffer | `FrameBuffer.c`, `Memory.c` | resolution, depth, the video memory | draw a pixel, a line, a bitmap; fill all, fill rows, shift rows up | fill and move of memory |
| Text terminal | `TextTerminal.c` | cursor, font, a buffer for formatted text | put a rune, a string, a formatted string; clear | frame buffer, formatter |
| Interrupts | `Interrupts.c:1-629` | 256 descriptors, 256 callbacks, the outputter | build and activate the table, set a callback; the default routine prints its name | terminal (through `outputter`), number strings |
| Interrupt controllers | `Interrupts.c:631-666` | the two controllers (hardware) | remap, disable | I/O ports |
| CPU information | `Cpu.c` | capability registers | populate, supports | CPUID |
| Loader interface | `Stivale2.c` | the loader's list of tags | find a tag | |
| Kernel start | `kernel.c` | all of the above | `_start`, `halt` | all of the above |
| ACPI tables | `ACPI.c` | the root description | parse | called by nothing |
| Memory allocator | `Memory.h`, `Memory.c:49` | declared | `Make` returns 0 | |

How they meet: calls through function pointers on structures, one callback
(`OnNextFormatChunk`, through which the formatter drives the terminal) and one shared
mutable object (the terminal, used by the main flow and by every interrupt routine).

### What is hard

* **Chunking.** The formatter fills a buffer of any size and hands it to a client that may
  end the call after any chunk. The guard that closes a chunk is written out five times, and
  what the client is told (`done`) is computed from the format, not from the text.
* **State that outlives a directive** (`minimumHexLength`) and a buffer that is reused for
  every chunk.
* **Edges.** Size guards as tight as the longest number, frames whose size is no multiple
  of a glyph, the last column of the last line, unsigned arithmetic that wraps.
* **Errors nobody looks at.** Each layer returns an `Error` and each caller ignores it:
  `PutRune`, `scrollOneLine`, `FormatIntoBuffer`, `_start`.
* **Answers from outside.** The loader may hand over no frame buffer, or one of any depth;
  the CPU may lack leaves; the controllers start with whatever masks and vectors they had,
  and devices ask for interrupts while they are being written to.
* **Interrupts.** The routines use the terminal the interrupted code may be inside of.

`PROJECT.json` lists each hazard at its line, with the properties that would catch it.

### What makes each part correct

* Formatter: no write outside the buffer; every chunk terminated and free of old runes; the
  chunks cut the text the format means, in order and without loss; errors reported exactly
  when there is one; the call returns.
* Number strings: the digits denote the number, inside the buffer, and the loops end.
* Frame buffer: operations write the cells they name and stay in the frame.
* Terminal: the cursor stays on the screen, each glyph lands on its place and on no other,
  no glyph is refused, every string is put to its end, and a formatted text looks the same
  wherever the buffer cuts it.
* Interrupts: whatever an interrupt splits, the cursor comes back to the screen and nothing
  is drawn outside the frame; the buffer the routines share is not overwritten under a
  routine; routines nest to a bounded depth; none runs before it is there; all output ends.
* Controllers: their masks survive the initialization, and no device reaches the kernel's
  table, whose routines end no interrupt.
* Kernel start: it comes to its halt, with the reason on the screen, for every answer of the
  CPU, and exactly when the loader hands over a frame it can draw glyphs in.

## 2. The modules

```
FormatSemantics   what a format means                      NumberStrings      numbers as strings
FormattedText     the promise to a client                     |- NumberConversions  the loops
                                                              |    |- NumberConversionsProofs
StringFormatter   the formatter                            NumberParser       the inverse
  |- StringFormatterMeaning -> FormattedText                  |- NumberParserProofs
       |- StringFormatterProofs
                                                           FrameBuffer        the operations
InterruptControllers  the two 8259s and their words           |- FrameBufferProofs
  |- Boot         _start (uses FormattedText)                 |- FrameBufferCalls
       |- BootProofs                                          |    |- FrameBufferCallsProofs
                                                              |- TextTerminal
FrameBuffer + NumberStrings                                        |- TextTerminalScreen -> TextScreen
  |- KernelConsole    interrupts and the terminal                  |- TerminalOutput -> TextTerminal
       |- KernelConsoleProofs                                      |    (uses FormattedText)
                                                                   |- TerminalProofs
```
(`->` : implements, as a refinement that TLC checks and TLAPS proves.)

**StringFormatter** is one call of `FormatIterativelyIntoBufferUsingExplicitVarags`. The
variable `fmt` is the pointer of that name as an index, `va` the arguments still to be read,
`source` the rest of the argument being copied (`runeStringArgument` or `rp`), `glyphs` is
`glyphsWrittenToBufferForThisChunk`, and `buf` the caller's runes, a function whose domain
grows when a write falls outside. Each turn of a loop, each directive read and each callback
is an action, so the callback interleaves with everything the code may do around it. `log`
records the chunks shown. Four clients: one that takes all chunks, `FormatIntoBuffer`, the
terminal, and one that ends the call whenever it likes, as the interface lets it. A call
that passes fewer arguments than its format names is undefined in C and left out.

**FormatSemantics** reads a format off the table of directives in `String.h`, a rune or a
directive at a time, independently of the code's switch: a set of directives, the one that
begins what is left of the format, and what it stands for. The header has directives which
the code takes for unknown (`OtherDirectives`: `%if` and `%qf` of line 57, the types `x` and
`d` without a letter of lines 26 and 27), and formatters in braces (line 20), which the code
takes for text. The reading stops at those directives, and the properties on what a format
means leave all such formats out (`Specified` in `StringFormatterMeaning`). For `%b` and
`%s`, whose `int` the code extends with its sign, the header does not say what number is
meant, and the reading takes the code's (`ArgumentOf`). **FormattedText** is the abstract
specification: a text is shown in full chunks and a last one, until the client ends it.
**StringFormatterMeaning** maps the formatter onto it, and holds the invariant (`MeaningInv`)
that relates a call to the reading of its format.

**NumberStrings** has words of 16 nybbles, because TLC's integers are narrower than a
`uint64_t`, and the strings the conversions write. **NumberConversions** models the loops
themselves on those words and is checked to compute those strings; the formatter uses the
strings. **NumberParser** models `DecimalIntegerAsStringToInt64`, with the memory that
follows the buffer. Its integers have any width: a sum that leaves it is undefined in C and
leaves one of the values `Overflowed`.

**FrameBuffer** gives each operation as an operator from the video memory to the new memory
and the error, so that the terminal calls it as the code does. A cell is a pixel of the
depth; a write outside the frame extends the memory's domain. Sums and products that can
leave an `unsigned int` wrap (`Unsigned`), and the narrow offsets of the 8 and 16-bit lines
do (`LineOffset`). A move is the upward loop of `MoveArrayOfBytes`: into a destination behind
its source it repeats the cells between the two (`MovedFrom`). **FrameBufferCalls** is a frame buffer under any calls.

**TextTerminal** is the terminal on a 32-bit frame, the only depth that has the bitmap
operation it draws with. An action is one rune. A tab is expanded in the string instead of
by recursion; a backspace is ignored; the errors of the frame buffer are recorded in
`error`, which the code drops. **TextScreen** is what a user sees: lines of runes and a
cursor; **TextTerminalScreen** maps the pixels onto it.

**TerminalOutput** adds the formatted calls (`PutFormattedRuneString` and its sibling, which
do the same). Here the formatter is what `FormattedText` says of it, which `StringFormatter`
is checked to implement: a text comes in chunks that fill the buffer and a last one, and each
chunk is put, rune by rune, before the next is written into the same buffer. A call is its
text and whether its format ends with plain text (`endsPlain`), since that is what the
formatter's `done` depends on: if it does, exactly the last chunk is marked; if a directive
ends it, a full chunk may be marked at any time. The abstract specification is `TextTerminal`
itself, with the texts among its strings: the runes not yet shown are mapped behind those
being put (`StillToShow`).

**InterruptControllers** has the two 8259s and the bytes `Reinitalize` and `Disable` write. A
byte is the set of its bits. The controllers are hardware, so their part is external and goes
as far as those bytes do: a command with bit 4 starts an initialization and forgets mask and
requests, the data port takes the word that is awaited or else the mask, the slave is heard
through line 2 of the master.

**Boot** is `_start` as a sequence: the walk over the loader's tags, the operations the frame
buffer sets for a depth, the CPU's leaves and the capability registers, each word written to
the controllers as a step of its own, the table, the greeting and the halt, whose text goes
through `FormattedText`. Devices raise requests between any two steps, and the CPU serves
them when its flag is on. Where the code would follow a null pointer or call an operation
that was never set, it is `lost`; a read through the null tag may also find any depth of
`AnyDepth`. Of a populated object only what a later step reads is kept, so the drawing of a
text is left to the terminal's modules. `Boot` and `KernelConsole` overlap from
`InitializeBaseVectorCallback` on: `Boot` shows that no device comes once the table is active,
and `KernelConsole` lets devices come all the same, so what it shows does not rest on the
controllers.

**KernelConsole** is the kernel from `InitializeBaseVectorCallback` to `hlt`, with routines
that may interrupt it from `lidt` on. `flows` is the stack: the main flow, and over it the
routines in progress, each with its place in the code and its locals; only the last one
runs. Here a rune is no longer one action: each access to what the flows share is a step of
its own, in program order, so that an interrupt comes between the load of a cursor
coordinate and its store, between the store and the correction of a cursor off the screen,
or between the reading of the row and of the column of a drawing (the last two in either
order, as C leaves it). After a store the compiler may compare the register it stored, as
the default build (`-O2`) does, or load the cursor once more, as the build with debugging
symbols does (`Makefile:11-14`); the flow may do either (`CompareCursorX`, `CompareCursorY`).
The drawing itself and the conversion of a number are one step;
of a drawing only its place is kept, since `BitmapDefinition`, which a routine may replace
under the flow it interrupts, makes any glyph possible and the code promises none. The CPU
is external: an interrupt gate turns `enabled` off, the return restores it, and no NMI is
taken until a routine returns. No line of the kernel sets the interrupt flag, so its first
value is either. Vectors are the NMI and those of devices, and all of them may come.
Exceptions and callbacks are left out. `halt`
prints its one word through the formatter; as the word has no directive and fits the
terminal's buffer, it is one chunk, and a string like the others.

Operators marked *mutant* are plausible bugs of the definition that follows them. They are
used by no specification: replacing the definition by its mutant must make TLC report the
property named in `PROJECT.json`, which shows that the property can fail.

## 3. The runs

| Run | Instance | Shows |
|---|---|---|
| `formatter` | all formats of at most 2 pieces out of 18, sizes 0-5 and 8, 4 clients | `BufferInBounds`, `ChunkTerminated`, `ErrorsReported`, `TerminalShowsAll`, `OverflowRemembered`, the refinement `ShowsTheText`, the liveness `Returns` |
| `conversions` | 18 words at 64 bits, sizes 0, 16, 17, 20, 21, 22, paddings 0, 1, 2, 8, 15, 16 | `ConversionInBounds`, `ConversionFaithful`, `ConversionReturns` |
| `parser` | all memories of 7 cells over 5 runes, bounds 0, 1, 3, 5, integers of 10 bits | `ParsesNumbers`, `ReadsAtMostOneBeyond` |
| `frame_buffer` | 5x4 and 4x6 pixels, three depths, 2 calls with coordinates 0-6 | `GuardedStayInFrame`, `BitmapDrawn`, `ShiftMovesRows`, `RowsFilled` |
| `terminal` | frames of 4x6, 5x7 and 2x2 pixels, glyphs of 2x2, a buffer of 3 runes | `CursorOnScreen`, `GlyphsAccepted`, `WritesFrameOnly`, the refinements `ShowsScreen` and `ChunksMakeTheText`, the liveness `OutputEnds` |
| `console` | frames of 5x4 and 2x2 pixels, glyphs of 2x2, the NMI and 2 devices, 3 interrupts | `CursorSettles`, `DrawsInFrame`, `OwnNumberShown`, `NestingBounded`, `RoutinesPrepared`, the liveness `ComesToRest` |
| `boot` | 9 lists of tags, 9 CPUs, 3 states of the controllers, the interrupt flag on and off, 2 devices | `QuietOnceActive`, `MasksRestored`, `FrameDecides`, `TellsWhy`, the liveness `Starts` |

**Why the bounds are enough.** The guard of a chunk compares two small numbers, and sizes
0 to 5 put its end before, inside, at the end of and after every piece of a format of two
pieces, which also covers what one directive can leave for the next; 8 holds most texts in
one chunk. The pieces hold every kind of directive, padded and plain, an empty argument, an
argument with a `%` in it, and each way of being unknown. The words of `conversions` are the
ones at which a loop gains or loses a turn: zero, powers of 16 and their predecessors, the
largest, words with zeros inside. Unsigned arithmetic there is modulo 64 instead of 2^32:
no quantity but a wrapped one comes near either. A frame of 5x7 with glyphs of 2x2 has a rest
of rows and columns, 4x6 none, and 2x2 is a single place, where every rune scrolls. The
widths of bytes and words of the frame buffer are constants (2 bits a byte, 16, 32 and 1024
values), so that small frames reach the places where the real ones wrap. Two calls of the
frame buffer let the second meet what the first left; its operations keep no other state.
The parser's integers of ten bits overflow at the fourth digit, and 511 is among the numbers;
seven cells leave room behind each bound. The terminal's buffer of three runes shows two at a
time: the texts fill it one and a half times, twice, and not at all, and the fourth may be
cut off.

Three interrupts of `console` fill the stack (a device's
routine and the NMI's over the main flow) and let one more come after or between; the main
flow prints a glyph and a line feed, the routines a letter, a name or a number and a line
feed, and on frames of four places and of one every kind of step wraps and scrolls. Its
words have two nybbles, as a vector is a byte.

The lists of `boot` have the tag in front, behind another, missing, twice, and of each depth
the frame buffer tells apart; the CPUs have no leaf, leaf 0 only, and leaf 1 with bit 9 in
either register, both and none; the controllers are as a BIOS leaves them, all masked and all
open. One device is on the master, one on the slave, which is heard only through the master.

**Deadlock.** It is not checked where the system really stops: after a formatter's or a
conversion's call has returned, when `MaxCalls` is used up, and when the kernel has halted
with no device left to ask. The terminal never stops.

**Fairness.** `WF_vars(Next)` of one call: the kernel is one thread with nothing to wait
for, and the clients return. Weak fairness of `PutRune`, `PutChunk` and `EndOfCall` of the
terminal: the loops of `PutRuneString` and of the formatter go on until the text ends;
nothing makes the program put another. `WF_vars(Start)` of the boot: the CPU goes on
executing `_start`; devices owe nothing.
`WF_vars(FlowStep)` of the console: the CPU goes on executing the flow on top of the stack.
`ComesToRest` also needs interrupts to end, which `MaxInterrupts` sees to: a kernel flooded
by NMIs promises nothing.

### Where the code departs from what it says

| Run | What TLC shows |
|---|---|
| `formatter_done` | A chunk filled in the middle of the last directive's text is marked done. The terminal ends the call on that mark, so a long last argument is cut off. |
| `formatter_invalid` | `FormatIntoBuffer` returns `NoError` for an unknown directive, and the error recorded in the formatter is overwritten. |
| `signed_decimal` | A negative number is written as a minus and its bits read as unsigned: -1 as -18446744073709551615. |
| `terminal_scroll` | The shift `scrollOneLine` asks for is always refused, so no line moves. |
| `pic_remap` | `Reinitalize` writes 0x01 where 0x10 starts an initialization: the bytes that follow are taken for masks, no line is remapped and the cascade is never set. |

`TerminalShowsAll` and `OverflowRemembered` hold with the precondition `EndsPlain`, which is
exactly what `formatter_done` needs to fail: no directive ends the format. `ShowsTheText`,
`ErrorsReported`, `TerminalShowsAll` and `OverflowRemembered` are about the formats that are
`Specified`. Of the others the code departs from `String.h`: `%if` and `%qf`, which line 57
lists, and `%x` and `%d`, types by lines 26 and 27, end the call with `ErrorInvalidFormat`,
at `%if` and `%qf` with the argument already read; `{...}` behind a directive, the formatters
of line 20, is shown as text. Nothing says what the code should have shown instead, so no run
is about it. `TextScreen` promises little when the last line is left, since `terminal_scroll`
shows there is little to promise. Seen while modelling, present in the models, and reported
by no run: at 16 and 32 bits `fillRowsWith` fills two and four times the rows it accepts
(`FrameBuffer.c:159, 163`), so a scroll also writes behind the frame, and `WritesFrameOnly`
holds only until the first (`GuardedStayInFrame` bounds how far such a fill can stray); a
negative `int` behind `%b` or `%s` prints as the 64-bit number its sign extends to
(`String.c:142`); 8 and 16-bit pixels take a row to be `VerticalPixels` long (`FrameBuffer.c:8, 45`); the
drawing guards let the row and column next to the frame through (`FrameBuffer.c:5, 42, 82`); the offset
of an 8-bit line is an 8-bit number (`FrameBuffer.c:15`); the parser counts its bound from behind the sign
(`String.c:345`), hence the *one beyond* of `ReadsAtMostOneBeyond`, and looks at two runes of
an empty buffer; it computes the magnitude first, so the smallest `int64_t` overflows.

With bit 4 in `PIC_ICW1_INIT` the model satisfies `LinesRemapped`, and every property of
`boot` still holds: the masks are written after the initialization words, whichever way those
are taken. As the code is, `Disable` is what keeps the kernel safe from devices whose vectors
would be those of exceptions.

## 4. The proofs

Every safety property that a passing run checks, every action property and every refinement
is a theorem, for all values of the constants that the assumptions at the end of this section
allow. Where a recursive function is involved (`Readings`, `Divisions`, `Weights`) the prover
knows it only as a `CHOOSE`; that there is such a function is proved first, by the induction
that `SetInduction` draws from the well-foundedness of `<` on the naturals (every non-empty
set of naturals has a smallest member; a set is something the provers can instantiate), and
the inductions over it are done in the same way.

### The formatter

`StringFormatterProofs` proves, for every set of runes and words, every call (any format,
any arguments, any size, 0 included, any client) and any number strings:

* of memory: `TypeCorrect`, `WritesInsideBuffer` (`[]BufferInBounds`), `ChunksTerminated`
  (`[]ChunkTerminated`);
* of meaning, for the formats that are `Specified`: `ErrorsAreReported` (`[]ErrorsReported`), `TerminalIsShownAll`
  (`[]TerminalShowsAll`), `OverflowIsRemembered` (`[]OverflowRemembered`) and the refinement
  `TextIsShown` (`ShowsTheText`).

`BufferInBounds` is not inductive: `Put` writes at `glyphs` and, if the chunk is full, at
`Size - 1`; `EndOfFormat` and `InvalidFormat` write at `glyphs`. The strengthening `IndInv`
adds `RoomForRune`, that between callbacks `glyphs + 2 <= Size`, which holds because a full
chunk goes to a callback before anything else is put and the callback resets `glyphs`;
`RunesPut`, that the runes put so far are no NUL, from which `ChunkTerminated` follows when
the NUL is written behind them; and `CallbackState`, that a refused call is never resumed,
since the room is missing there. The two writes are lemmas (`WriteInside`, `PutKeepsBuffer`,
`CloseChunk`), used by every action that puts; `NextIndInv` has a case per action.

The rest follows from `MeaningInvariance` (`[]MeaningInv`). The reading of a format in
`FormatSemantics` takes a directive at a time, the code takes its runes apart in a switch
over several actions, so the invariant says for each place of the call how far the reading
has come: what is left of the format and of the arguments is what `fmt` and `va` point to,
and the text read so far is `Seen`, the chunks shown and the runes in the one being filled,
with the rest of the argument behind it while one is copied. `LetterRead` says what
the code has to have found out between the letter of an integer and its `x` or `d`, the
padding that outlives the turn of the loop included. `Seen` grows by what is put, whether or
not that closes a chunk (`PutSeen`, `CallbackSeen`), and every directive of the table is read
by one path through the switch and every other by none (`DirectiveAt`, `UnknownIsNone`). For
`ChunkTold` and the properties with `EndsPlain` the proof needs that the code looks at the
rune behind the directive: it is NUL exactly when the format ends there (`DoneIsAll`,
`MoreIsMissing`).

### Number strings

`NumberConversionsProofs` proves, for every `uint64_t`, every padding up to the 16
digits of a number and every size of buffer:

* `ConversionsStayInBounds` (`[]ConversionInBounds`) and `ConversionsAreFaithful`
  (`[]ConversionFaithful`), for every request that `RequestsAssumption` allows but a
  signed one for a buffer of size 0, whose size wraps (`RequestOK`; listed as a hazard);
* `TextsDenoteNumbers`: the digits of those texts denote the number, and no zero leads them
  but those of the padding. The property says so only for the numbers TLC can hold.

`ConversionInv` relates the cells to the texts: in the decimal loop the digits stand in the
order they were found in, those of the first and last `swaps` cells in their final one, and
`v` is what as many divisions leave (`Divisions`); in the hexadecimal loop `v` is the number
shifted by the nybbles stripped and put. That twenty cells are enough for the digits is
`16^16 < 10^20` (`TwentyDivisions`: each division leaves a tenth of the number). The reversal
ends where the swaps meet in the middle. For a negative number the buffer moves by a rune for
the minus, which its size makes up for (`NegativeStep`). TLC checked `ConversionInv` on the
words of `conversions` before it was proved.

`NumberParserProofs` proves, for every memory, bound and width of the integers:

* `ReadingEnds` (`[]ReadsAtMostOneBeyond`): `b` is 0 or 1 and `i` stays below the bound while
  it reads;
* `NumbersAreParsed` (`[]ParsesNumbers`): the sum is the number that the digits read so far
  denote as long as that fits (`ParseInv`). Once it does not, any value is allowed, and no
  later digit makes the number fit again, since `Weights` never falls.

### The frame buffer

`FrameBufferProofs` has the lemmas on where the operations write, of which `BitmapInside`
is the one with substance: the pointer that walks the bits of a bitmap and skips the rest of a
row of the frame stays in the frame, by the quotient and the rest of the bit's number.
`FrameBufferCallsProofs` concludes, for every resolution, depth, bitmap and sequence of calls:

* `GuardsSuffice` (`GuardedStayInFrame`), under the invariant `FrameThere`, that the memory
  keeps the cells of its frame: it says which operations stay in the frame, and by how much
  32-bit pixels and fills of rows at 16 and 32 bits may stray behind it. The sums the callers ask for are assumed not to wrap
  (`NoWrapAssumption`): the guards do not hold otherwise;
* `BitmapsAreDrawn` (`BitmapDrawn`), `ShiftsMoveRows` (`ShiftMovesRows`) and `FillsFillRows`
  (`RowsFilled`), what the operations draw beside where. A cell has one row and one column and
  a bit one row and one column of its bitmap (`OneQuotient`), so no two bits share a cell and
  a later one does not overwrite an earlier.

### The terminal

`TerminalProofs` proves, for every frame with room for a glyph, every font and every set of
strings:

* `CursorStaysOnScreen` (`[]CursorOnScreen`), `NoGlyphRefused` (`[]GlyphsAccepted`) and
  `FrameOnlyWritten` (`[]WritesFrameOnly`).

A glyph is accepted because `k < pixels \div glyph` implies `k * glyph + glyph <= pixels`
(`GlyphFits`), which also keeps the sums in the guards from wrapping (`InRange`), and because
the glyph's width is a whole number of bytes. `IndInv` needs `RoomForGlyph`: without it the
screen has no place, and the cursor that `NextLine` clamps to the last line would leave it.

Of formatted calls, any text and a buffer of two runes or more:

* `ChunksImplementTheText` (`ChunksMakeTheText`): each step of the formatted output is a step
  of the terminal on whole texts, or none, or the cut that `formatter_done` shows;
* `OutputStaysOnScreen`, `NoOutputRefused`, `OutputWritesFrame`, `OutputTypeCorrect`: what the
  theorems above say of strings, of formatted calls too.

The invariant `OutputInv` adds to the terminal's own that what was shown is a beginning of the
text (`ShownInOrder`). A chunk moves runes from the text to the string, whose concatenation
stays (`ChunkCut`); a rune is put from the front of it, where expanding a tab and appending
what is still to show commute (`PutsTheSameRune`). The frame buffer's operators are the same
in both instances (`SameFrameBuffer`).

Of the screen:

* `ScreenImplemented` (`Spec => ShowsScreen`) and `OutputOnScreen` (`OutputSpec =>
  ShowsScreen`): pixel by pixel, the terminal is a screen of lines of runes.

Each bit of each place is a cell of the frame, and no two of them are the same cell
(`PlaceInFrame`, `PlacesApart`), so a bitmap at the cursor makes its place show the rune and
leaves every other as it was (`BitmapFillsPlace`, `GlyphDrawn`). A frame filled with the
background shows spaces (`FilledIsBlank`, from `GlyphsAssumption`). A scroll is the
interesting step (`ScrollKeepsLines`): its shift starts at the row a glyph below the top and
asks for all the rows, so it is refused whatever the frame, and its fill starts at row
`VerticalPixels - glyphPixelHeight - 1`, a row early, so that it touches the last two lines
of the screen and none above. The last part holds as long as the cells of the frame can be
counted in an `unsigned int`, which `ScreenInv` carries along (`FrameInMemory`).

### Interrupts and the start

`KernelConsoleProofs` proves, for every frame with room for a glyph, every set of vectors,
every text and any number of interrupts:

* `CursorRecovers` (`[]CursorSettles`), `NumbersKept` (`[]OwnNumberShown`), `StackBounded`
  (`[]NestingBounded`), `TableComplete` (`[]RoutinesPrepared`), `DrawnInFrame`
  (`[]DrawsInFrame`), `TypeCorrect`.

None of them is inductive by itself. The main strengthening is `Stacked`, what the stack
can look like: the main flow at its bottom, nothing over the routine of the NMI, and from
the third flow on only the NMI, whose frame holds a cleared interrupt flag, so that its
return does not let devices in. From it follow the bound of the stack and that two routines
of devices are never nested, so that the shared buffer has one writer. `CursorSettles` is
stated over all flows of the stack: a step changes the one on top, and an interrupt adds one
that is not on its way to a correction. It is the mutual overwriting of the cursor that
makes it worth a proof: updates are lost, and it holds all the same. `Prepared` carries the
outputter from its assignment to `lidt`.

`DrawnInFrame` has an invariant of its own, `CursorNearby`: the cursor is as many places off
the screen, at most, as the flow that left it there is high on the stack, so that with the
stack bounded it is two off, and what a routine reads of it cannot wrap the sums in the guard
of the drawing. The flow that corrects the cursor last undoes the others' excess, which is why
the bound is a witness (`Astray`) and not a sum over the stack. It needs sizes that leave two
glyphs of room below the range of an `unsigned int` (`SizesAssumption`).

`BootProofs` proves, for every list of tags, every CPU, whatever the loader left in the
controllers, any devices, texts and size of the terminal's buffer:

* `DevicesKeptOut` (`[]QuietOnceActive`), `MasksComeBack` (`[]MasksRestored`),
  `FirstFrameDecides` (`[]FrameDecides`), `HaltsWithItsReason` (`[]TellsWhy`), `TypeCorrect`.

`IndInv` has a part for each: `NoInitialization`, that no command still to be written starts
an initialization, so that every byte on a data port is a mask; `MasksOnTheWay`, that the last
two words are the masks that were read, and `MasterMasked`, that the last of `Disable`'s masks
the master, both by the number of words that are left; `FrameFound`, that the walk has passed
no tag of a frame buffer; `CpuKnown` and `TextReady`, that what is still to be said is what
the CPU calls for. Only the master's mask is needed to keep devices out, as the slave is
heard through it: the order in which `Disable` masks them does not matter once both are done.

### What the proofs assume

Of the constants:

* the formatter: the runes of the directives are runes and NUL is none (`RunesAssumption`),
  the calls are calls (`CallsAssumption`), the number strings hold no NUL
  (`NumberStringsAssumption`; of the real ones `NumberConversionsProofs` shows that they are
  digits);
* number strings: words have 16 nybbles and an `unsigned int` holds more than that
  (`MachineAssumption`), requests are arguments of their C types (`RequestsAssumption`), and
  for the parser NUL is neither a minus nor a digit (`NULAssumption`) and an overflow leaves
  some integer (`LengthsAssumption`);
* the frame buffer: bits are 0 or 1, and the calls are natural numbers whose sums do not wrap
  (`CallsAssumption`, `NoWrapAssumption`);
* the terminal: the font has positive sizes and a space (`FontAssumption`), of the runes
  looked at only the space has a blank glyph (`GlyphsAssumption`; many in the real font do,
  and a screen cannot tell them apart), a frame has room for a glyph and its sizes are
  `unsigned int`s (`FramesAssumption`), and so is their product (`PixelsAssumption`; the
  loader gives them in 16 bits). A buffer has room for a rune and a NUL;
* the console: room for a glyph, sizes as the loader gives them (`SizesAssumption`), and
  vectors are the NMI's and those above the exceptions (`VectorsAssumption`);
* the start: the controllers start outside of an initialization (`PicsAssumption`).

The code does not check that a frame has room for a glyph: `_start` relies on the loader. TLC
evaluates all of them in the runs.

**Only model-checked**: liveness (`Returns`, `ConversionReturns`, `OutputEnds`, `ComesToRest`,
`Starts`), which needs fairness and `ENABLED`; and, since they are false, the properties of
the runs that expect a violation.

## 5. Not modelled

Palettes and glyph bitmaps are constant tables: a colour is a value, the font a constant.
The 32-bit operations mask a colour to 24 bits, which no property tells apart. `Make` and the allocator
are stubs. The test suite, the build and the linker script hold no behaviour of the kernel.
Exceptions are raised by what a flow itself does, and no modelled step raises one; those
that push an error code would return to the wrong address (listed as a hazard). The callbacks
that `SetInterruptVectorCallback` stores are called by no routine. `ParseAcpiTables` is called
by nothing and its last path returns no value: there is no caller to say what it is for. Of
the CPU the manufacturer's name is left out, of the loader's tags all but the identifier and
the depth; the pitch of the frame, which the kernel does not read, is a hazard.

## 6. Plan

1. Done: `StringFormatter` with its meaning and proofs; number strings; frame buffer with its proofs;
   `TextTerminal` with its screen and proofs; `TerminalOutput` with its refinement, checked and
   proved; `KernelConsole` with its proofs; `InterruptControllers` and `Boot` with their proofs;
   the parser's overflow.
2. Left to prove: nothing that the runs check but liveness, which this prover cannot state
   proofs of (fairness needs `ENABLED`).
3. Left to model, should the code come to use them: ACPI, the callbacks, the allocator.
