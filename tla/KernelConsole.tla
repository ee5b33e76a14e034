--------------------------- MODULE KernelConsole ---------------------------
(***************************************************************************)
(* kernel.c, Interrupts.c and TextTerminal.c together: the kernel prepares *)
(* its interrupt routines, greets and halts, and from the moment the table *)
(* is active a routine may run between any two of its steps, and print on  *)
(* the terminal the interrupted code is using.                             *)
(*                                                                         *)
(* A flow is the main flow or a routine in progress; the flows are stacked *)
(* as their frames are, and the last one runs.  A step reads or writes one *)
(* of the things they share: the cursor, the static rune buffer of the     *)
(* routines, the descriptors.  The steps are in program order.  A glyph is *)
(* drawn, and a number converted, in one step; of a drawing only the place *)
(* is kept.                                                                *)
(***************************************************************************)
EXTENDS FrameBuffer, NumberStrings

CONSTANTS
    Frames,             \* resolutions of the frame buffer
    BytesPerGlyphRow,   \* the font
    RowsPerGlyph,
    Vectors,            \* the vectors that interrupts come with
    MaxInterrupts,      \* interrupts taken in a behaviour, at most
    Main,               \* the main flow, beside the vectors
    Runes,              \* what strings hold, digits among them
    MainStrings,        \* what the main flow prints: "The K-OS!\n", "Halting."
    Announcement,       \* "ISR Routine for "
    Name(_)             \* StandardInterruptNames

NMI == 2

(***************************************************************************)
(* The interrupts: the non-maskable one and those of devices.  Exceptions, *)
(* which are raised by what the flow itself does, are left out.            *)
(***************************************************************************)
ASSUME VectorsAssumption == Vectors \subseteq {NMI} \cup 32 .. 255 /\ Main \notin Nat

ASSUME MaxInterruptsAssumption == MaxInterrupts \in Nat

ASSUME GlyphAssumption == BytesPerGlyphRow \in Nat \ {0} /\ RowsPerGlyph \in Nat \ {0}

(* The frame has room for a glyph.                                         *)
ASSUME FramesAssumption ==
    \A frame \in Frames : /\ frame.HorizontalPixels \in Nat
                          /\ frame.VerticalPixels \in Nat
                          /\ frame.HorizontalPixels >= BytesPerGlyphRow * ByteBits
                          /\ frame.VerticalPixels >= RowsPerGlyph

(* The loader gives the sizes of a frame in 16 bits (stivale2.h:95-96): an *)
(* unsigned int has room for two glyphs more.                              *)
ASSUME SizesAssumption ==
    \A frame \in Frames :
        /\ frame.HorizontalPixels + 2 * (BytesPerGlyphRow * ByteBits) < RangeUnsigned
        /\ frame.VerticalPixels + 2 * RowsPerGlyph < RangeUnsigned

ASSUME StringsAssumption ==
    /\ MainStrings \in Seq(Seq(Runes))
    /\ Announcement \in Seq(Runes)
    /\ \A v \in Vectors : Name(v) \in Seq(Runes)

VARIABLES
    fb,                 \* term->frameBuffer
    cursorX,            \* the terminal's, shared by all flows
    cursorY,
    drawn,              \* row and column of the last glyph the frame buffer accepted
    runeBuffer,         \* runeStringBuffer, shared by all routines
    outputter,          \* defaultGlyphStringOutputter has been set
    descriptors,        \* the vectors' descriptors that have been populated
    active,             \* lidt has been executed
    enabled,            \* the CPU: maskable interrupts are taken
    nmiBlocked,         \* the CPU: no NMI is taken until a routine returns
    taken,              \* interrupts taken so far
    flows               \* the stack of flows

console == <<cursorX, cursorY, drawn>>
table   == <<outputter, descriptors, active>>
cpu     == <<enabled, nmiBlocked, taken>>
vars    == <<fb, console, runeBuffer, table, cpu, flows>>

glyphPixelWidth  == BytesPerGlyphRow * ByteBits
glyphPixelHeight == RowsPerGlyph
glyphColumnsInFrameBuffer == fb.HorizontalPixels \div glyphPixelWidth
glyphRowsInFrameBuffer    == fb.VerticalPixels \div glyphPixelHeight

Unread == -1            \* a local variable before it is assigned

(* A flow: where it is, which of its strings it prints, the next rune of   *)
(* it, what it has loaded, and the flags that its return restores.         *)
Flow(vector, pc, flags) ==
    [vector |-> vector, pc |-> pc, string |-> 1, rune |-> 1,
     row |-> Unread, column |-> Unread, loaded |-> Unread, flags |-> flags]

(* The kernel after PopulateTextTerminal.  Whether the CPU takes maskable  *)
(* interrupts is the loader's choice: no line of the kernel sets it.       *)
Init ==
    /\ \E frame \in Frames :
           fb = [HorizontalPixels |-> frame.HorizontalPixels,
                 VerticalPixels   |-> frame.VerticalPixels,
                 BitsPerPixel     |-> 32]
    /\ cursorX = 0
    /\ cursorY = 0
    /\ drawn = [row |-> 0, column |-> 0]
    /\ runeBuffer = <<>>
    /\ outputter = FALSE
    /\ descriptors = {}
    /\ active = FALSE
    /\ enabled \in BOOLEAN
    /\ nmiBlocked = FALSE
    /\ taken = 0
    /\ flows = <<Flow(Main, "setOutputter", FALSE)>>

-----------------------------------------------------------------------------
top     == Len(flows)
Running == flows[top]
At(pc)  == Running.pc = pc

(* The running flow goes on: with these of its variables changed, at a     *)
(* place where it needs none of what it has loaded, with a value loaded.   *)
Continue(flow)  == flows' = [flows EXCEPT ![top] = flow]
GoTo(pc)        == Continue([Running EXCEPT !.pc = pc, !.row = Unread, !.column = Unread,
                                            !.loaded = Unread])
Load(value, pc) == Continue([Running EXCEPT !.loaded = value, !.pc = pc])

(* The strings a flow hands to PutRuneString, one after the other.         *)
StringsOf(vector) ==
    IF vector = Main THEN MainStrings
    ELSE <<Announcement, IF vector < 32 THEN Name(vector) ELSE runeBuffer, <<"\n">>>>

(* InitializeBaseVectorCallback and ActivateTable, as _start calls them.   *)
SetOutputter ==
    /\ At("setOutputter")
    /\ outputter' = TRUE
    /\ GoTo("populate")
    /\ UNCHANGED <<fb, console, runeBuffer, descriptors, active, cpu>>

PopulateDescriptor ==
    /\ At("populate")
    /\ \E v \in Vectors \ descriptors :
           /\ \A w \in Vectors \ descriptors : v <= w
           /\ descriptors' = descriptors \cup {v}
    /\ UNCHANGED <<fb, console, runeBuffer, outputter, active, cpu, flows>>

(* Mutant: the table is activated before the last descriptor is there.     *)
AlmostPopulated == \A v, w \in Vectors \ descriptors : v = w
AllPopulated    == Vectors \subseteq descriptors

ActivateTable ==
    /\ At("populate")
    /\ AllPopulated
    /\ active' = TRUE
    /\ GoTo("nextString")
    /\ UNCHANGED <<fb, console, runeBuffer, outputter, descriptors, cpu>>

-----------------------------------------------------------------------------
(* The flow hands a string to the outputter.  A routine of a vector above  *)
(* the named ones first writes its number to the buffer they all share.    *)
NextString ==
    /\ At("nextString")
    /\ Running.string <= Len(StringsOf(Running.vector))
    /\ Continue([Running EXCEPT !.rune = 1, !.pc = "putRune"])
    /\ runeBuffer' = IF Running.vector # Main /\ Running.vector >= 32 /\ Running.string = 2
                     THEN DecimalText(WordOf(Running.vector))
                     ELSE runeBuffer
    /\ UNCHANGED <<fb, console, table, cpu>>

(* The loop of PutRuneString.                                              *)
String == StringsOf(Running.vector)[Running.string]

EndOfString ==
    /\ At("putRune")
    /\ Running.rune > Len(String)
    /\ Continue([Running EXCEPT !.string = @ + 1, !.pc = "nextString"])
    /\ UNCHANGED <<fb, console, runeBuffer, table, cpu>>

(* Mutant: the pointer stays on the line feed.                             *)
PutLineFeedAgain ==
    /\ At("putRune")
    /\ Running.rune <= Len(String)
    /\ String[Running.rune] = "\n"
    /\ GoTo("loadLine")
    /\ UNCHANGED <<fb, console, runeBuffer, table, cpu>>

PutLineFeed ==
    /\ At("putRune")
    /\ Running.rune <= Len(String)
    /\ String[Running.rune] = "\n"
    /\ Continue([Running EXCEPT !.rune = @ + 1, !.pc = "loadLine"])
    /\ UNCHANGED <<fb, console, runeBuffer, table, cpu>>

PutGlyph ==
    /\ At("putRune")
    /\ Running.rune <= Len(String)
    /\ String[Running.rune] # "\n"
    /\ Continue([Running EXCEPT !.rune = @ + 1, !.pc = "draw"])
    /\ UNCHANGED <<fb, console, runeBuffer, table, cpu>>

(* The arguments of the drawing are read in either order.                  *)
LoadRow ==
    /\ At("draw")
    /\ Running.row = Unread
    /\ Continue([Running EXCEPT !.row = cursorY * glyphPixelHeight])
    /\ UNCHANGED <<fb, console, runeBuffer, table, cpu>>

LoadColumn ==
    /\ At("draw")
    /\ Running.column = Unread
    /\ Continue([Running EXCEPT !.column = cursorX * glyphPixelWidth])
    /\ UNCHANGED <<fb, console, runeBuffer, table, cpu>>

(* The frame buffer may refuse the glyph; PutRune goes on as if it had not.*)
Draw ==
    /\ At("draw")
    /\ Unread \notin {Running.row, Running.column}
    /\ drawn' = IF BitmapRefused(fb, Running.row, Running.column,
                        [PixelsPerRow |-> glyphPixelWidth, NumberOfRows |-> glyphPixelHeight])
                THEN drawn
                ELSE [row |-> Running.row, column |-> Running.column]
    /\ GoTo("loadColumn")
    /\ UNCHANGED <<fb, cursorX, cursorY, runeBuffer, table, cpu>>

(* ++term->cursorX is a load and a store.  What is compared is the register*)
(* in an optimized build; without -O the cursor is loaded once more.       *)
AfterColumn(x) == IF x >= glyphColumnsInFrameBuffer THEN "loadLine" ELSE "putRune"
AfterLine(y)   == IF y >= glyphRowsInFrameBuffer THEN "scroll" ELSE "resetColumn"

LoadCursorX ==
    /\ At("loadColumn")
    /\ Load(cursorX, "storeColumn")
    /\ UNCHANGED <<fb, console, runeBuffer, table, cpu>>

StoreCursorX ==
    /\ At("storeColumn")
    /\ cursorX' = Running.loaded + 1
    /\ GoTo(AfterColumn(cursorX')) \/ GoTo("compareColumn")
    /\ UNCHANGED <<fb, cursorY, drawn, runeBuffer, table, cpu>>

CompareCursorX ==
    /\ At("compareColumn")
    /\ GoTo(AfterColumn(cursorX))
    /\ UNCHANGED <<fb, console, runeBuffer, table, cpu>>

LoadCursorY ==
    /\ At("loadLine")
    /\ Load(cursorY, "storeLine")
    /\ UNCHANGED <<fb, console, runeBuffer, table, cpu>>

(* Mutant: the variable is incremented, and the register compared.         *)
StoreCursorYInPlace ==
    /\ At("storeLine")
    /\ cursorY' = cursorY + 1
    /\ GoTo(AfterLine(Running.loaded + 1))
    /\ UNCHANGED <<fb, cursorX, drawn, runeBuffer, table, cpu>>

StoreCursorY ==
    /\ At("storeLine")
    /\ cursorY' = Running.loaded + 1
    /\ GoTo(AfterLine(cursorY')) \/ GoTo("compareLine")
    /\ UNCHANGED <<fb, cursorX, drawn, runeBuffer, table, cpu>>

CompareCursorY ==
    /\ At("compareLine")
    /\ GoTo(AfterLine(cursorY))
    /\ UNCHANGED <<fb, console, runeBuffer, table, cpu>>

(* scrollOneLine changes pixels only.                                      *)
Scroll ==
    /\ At("scroll")
    /\ GoTo("lastLine")
    /\ UNCHANGED <<fb, console, runeBuffer, table, cpu>>

(* Mutant: the cursor goes up by a screen and a line.                      *)
StoreLineAbove ==
    /\ At("lastLine")
    /\ cursorY' = cursorY - glyphRowsInFrameBuffer - 1
    /\ GoTo("resetColumn")
    /\ UNCHANGED <<fb, cursorX, drawn, runeBuffer, table, cpu>>

StoreLastLine ==
    /\ At("lastLine")
    /\ cursorY' = glyphRowsInFrameBuffer - 1
    /\ GoTo("resetColumn")
    /\ UNCHANGED <<fb, cursorX, drawn, runeBuffer, table, cpu>>

ResetCursorX ==
    /\ At("resetColumn")
    /\ cursorX' = 0
    /\ GoTo("putRune")
    /\ UNCHANGED <<fb, cursorY, drawn, runeBuffer, table, cpu>>

PutRune == \/ EndOfString \/ PutLineFeed \/ PutGlyph
           \/ LoadRow \/ LoadColumn \/ Draw
           \/ LoadCursorX \/ StoreCursorX \/ CompareCursorX
           \/ LoadCursorY \/ StoreCursorY \/ CompareCursorY
           \/ Scroll \/ StoreLastLine \/ ResetCursorX

-----------------------------------------------------------------------------
(* The main flow has printed its strings: halt, again after each interrupt.*)
Halt ==
    /\ At("nextString")
    /\ Running.vector = Main
    /\ Running.string > Len(MainStrings)
    /\ GoTo("halted")
    /\ UNCHANGED <<fb, console, runeBuffer, table, cpu>>

HaltAgain == At("halted") /\ UNCHANGED vars

(* The end of a routine.  The CPU restores the flags and takes NMIs again. *)
ReturnFromInterrupt ==
    /\ At("nextString")
    /\ Running.vector # Main
    /\ Running.string > Len(StringsOf(Running.vector))
    /\ flows' = SubSeq(flows, 1, top - 1)
    /\ enabled' = Running.flags
    /\ nmiBlocked' = FALSE
    /\ UNCHANGED <<fb, console, runeBuffer, table, taken>>

(* A descriptor says whether the CPU goes on taking maskable interrupts:   *)
(* PopulateInterruptDescriptor makes interrupt gates of all.               *)
TrapGates      == TRUE          \* mutant: isTrapGate
InterruptGates == FALSE

isTrapGate == InterruptGates

(* The CPU enters the routine of a vector between two steps of a flow.     *)
Interrupt(v) ==
    /\ active
    /\ v \in descriptors
    /\ taken < MaxInterrupts
    /\ IF v = NMI THEN ~nmiBlocked ELSE enabled
    /\ flows' = Append(flows, Flow(v, "nextString", enabled))
    /\ enabled' = (enabled /\ isTrapGate)
    /\ nmiBlocked' = (nmiBlocked \/ v = NMI)
    /\ taken' = taken + 1
    /\ UNCHANGED <<fb, console, runeBuffer, table>>

FlowStep == \/ SetOutputter \/ PopulateDescriptor \/ ActivateTable
            \/ NextString \/ PutRune \/ Halt \/ HaltAgain \/ ReturnFromInterrupt

Next == FlowStep \/ \E v \in Vectors : Interrupt(v)

Spec == Init /\ [][Next]_vars

(* The flow that runs keeps running.                                       *)
FairSpec == Spec /\ WF_vars(FlowStep)

-----------------------------------------------------------------------------
Places == {"setOutputter", "populate", "nextString", "putRune", "draw", "loadColumn",
           "storeColumn", "compareColumn", "loadLine", "storeLine", "compareLine", "scroll",
           "lastLine", "resetColumn", "halted"}

FlowType == [vector : {Main} \cup Vectors, pc : Places, string : Nat, rune : Nat,
             row : Nat \cup {Unread}, column : Nat \cup {Unread},
             loaded : Nat \cup {Unread}, flags : BOOLEAN]

TypeOK ==
    /\ fb \in [HorizontalPixels : Nat, VerticalPixels : Nat, BitsPerPixel : {32}]
    /\ cursorX \in Nat
    /\ cursorY \in Nat
    /\ drawn \in [row : Nat, column : Nat]
    /\ outputter \in BOOLEAN
    /\ descriptors \subseteq Vectors
    /\ active \in BOOLEAN
    /\ enabled \in BOOLEAN
    /\ nmiBlocked \in BOOLEAN
    /\ taken \in Nat
    /\ flows \in Seq(FlowType)
    /\ flows # <<>>

(***************************************************************************)
(* The terminal recovers from every interruption: whatever the flows have  *)
(* lost of each other's updates, the cursor is on the screen unless a flow *)
(* is still on its way from the store past the limit to the correction     *)
(* (TextTerminal.c:9-17, 28-35).                                           *)
(***************************************************************************)
Wrapping(flow)  == flow.pc \in {"compareColumn", "loadLine", "storeLine", "compareLine",
                                "scroll", "lastLine", "resetColumn"}
Scrolling(flow) == flow.pc \in {"compareLine", "scroll", "lastLine"}

CursorSettles ==
    /\ (\A i \in 1 .. top : ~Wrapping(flows[i]))  => cursorX < glyphColumnsInFrameBuffer
    /\ (\A i \in 1 .. top : ~Scrolling(flows[i])) => cursorY < glyphRowsInFrameBuffer

(***************************************************************************)
(* A routine that interrupts a flow while the cursor is off the screen     *)
(* draws nothing outside the frame (FrameBuffer.c:108).                    *)
(***************************************************************************)
DrawsInFrame ==
    /\ drawn.row + glyphPixelHeight <= fb.VerticalPixels
    /\ drawn.column + glyphPixelWidth <= fb.HorizontalPixels

(***************************************************************************)
(* The buffer all routines share holds the number of the routine that      *)
(* prints it, from the conversion to the last rune, whatever interrupts    *)
(* that routine (Interrupts.c:88-101).                                     *)
(***************************************************************************)
Printing(flow) ==
    /\ flow.vector # Main
    /\ flow.vector >= 32
    /\ flow.string = 2
    /\ flow.pc # "nextString"

OwnNumberShown ==
    \A i \in 1 .. top : Printing(flows[i]) => runeBuffer = DecimalText(WordOf(flows[i].vector))

(***************************************************************************)
(* The routines nest no deeper than one of a device over the main flow and *)
(* one of the NMI over that, and so use a bounded part of the kernel's     *)
(* stack (kernel.c:12, Interrupts.c:26).                                   *)
(***************************************************************************)
NestingBounded == top <= 3

(***************************************************************************)
(* No interrupt can come before its routine is there and knows where to    *)
(* print (kernel.c:94-96).                                                 *)
(***************************************************************************)
RoutinesPrepared == active => outputter /\ Vectors \subseteq descriptors

-----------------------------------------------------------------------------
(* The inductive invariant.  Only the NMI interrupts a routine, and no     *)
(* routine interrupts that of the NMI.                                     *)
Stacked ==
    /\ flows[1].vector = Main
    /\ \A i \in 2 .. top : flows[i].vector # Main
    /\ \A i \in 3 .. top : flows[i].vector = NMI /\ ~flows[i].flags
    /\ \A i \in 1 .. top - 1 : flows[i].vector # NMI
    /\ nmiBlocked <=> Running.vector = NMI
    /\ top > 1 => ~enabled

Prepared == \A i \in 1 .. top : flows[i].pc = "populate" => outputter

RoomForGlyph ==
    /\ fb.HorizontalPixels >= glyphPixelWidth
    /\ fb.VerticalPixels >= glyphPixelHeight

IndInv ==
    /\ TypeOK /\ Stacked /\ NestingBounded
    /\ Prepared /\ RoutinesPrepared
    /\ RoomForGlyph /\ CursorSettles
    /\ OwnNumberShown

(***************************************************************************)
(* How far the cursor strays: a flow that left it off the screen and is on *)
(* its way to correct it is as high on the stack as the cursor is far off, *)
(* and a flow on top of it begins from there.  So the sums in the guard of *)
(* the drawing do not wrap.                                                *)
(***************************************************************************)
Astray(cursor, places, Correcting(_)) ==
    \E i \in 0 .. top : (i # 0 => Correcting(flows[i])) /\ cursor < places + i

(* What flow i of the stack has read of the cursor.                        *)
ReadNearby(flow, i) ==
    /\ flow.pc = "storeColumn" => flow.loaded < glyphColumnsInFrameBuffer + (i - 1)
    /\ flow.pc = "storeLine" => flow.loaded < glyphRowsInFrameBuffer + (i - 1)
    /\ flow.column <= (glyphColumnsInFrameBuffer + 1) * glyphPixelWidth
    /\ flow.row <= (glyphRowsInFrameBuffer + 1) * glyphPixelHeight

SumsFit ==
    /\ fb.HorizontalPixels + 2 * glyphPixelWidth < RangeUnsigned
    /\ fb.VerticalPixels + 2 * glyphPixelHeight < RangeUnsigned

CursorNearby ==
    /\ Astray(cursorX, glyphColumnsInFrameBuffer, Wrapping)
    /\ Astray(cursorY, glyphRowsInFrameBuffer, Scrolling)
    /\ \A i \in 1 .. top : ReadNearby(flows[i], i)
    /\ SumsFit /\ DrawsInFrame

(* The kernel prints its strings to the end and halts, and every routine   *)
(* that interrupts it returns, when interrupts stop coming.                *)
ComesToRest == <>[](top = 1 /\ At("halted"))
=============================================================================
