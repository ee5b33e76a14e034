-------------------------------- MODULE Boot --------------------------------
(***************************************************************************)
(* kernel.c: _start, from the loader's tags to the halt, over every answer *)
(* of the loader and of the CPU, while devices ask the interrupt           *)
(* controllers for service.  _start looks at no error and at no null       *)
(* pointer: where it follows one, control may be lost.                     *)
(*                                                                         *)
(* Text is printed by PutRuneString at once, and by the formatter as       *)
(* FormattedText promises: its client here is the terminal, which ends the *)
(* call when a chunk is marked done.                                       *)
(***************************************************************************)
EXTENDS InterruptControllers

CONSTANTS
    TagLists,       \* the lists of tags the loader may hand over
    AnyDepth,       \* the depths that may be read where there is no tag
    Cpus,           \* what CPUID may answer
    LoaderPics,     \* the controllers as the loader may leave them
    Devices,        \* the controller and line of each device
    Capacity,       \* TextTerminalInteralStringBufferCapacity
    NoCpuid, NoApic, Greeting, Halting      \* the texts

Frame == "STIVALE2_STRUCT_TAG_FRAMEBUFFER_ID"

Tag == [identifier : {Frame, "other"}, bpp : Nat]

(* The highest leaf, and the bits of EDX and ECX of leaf 1.                *)
Cpu == [max : Nat, edx : SUBSET (0 .. 31), ecx : SUBSET (0 .. 31)]

ASSUME TagsAssumption == TagLists \subseteq Seq(Tag) /\ AnyDepth \subseteq Nat

ASSUME CpusAssumption == Cpus \subseteq Cpu

ASSUME PicsAssumption ==
    /\ LoaderPics \subseteq [{PIC1, PIC2} -> Controller]
    /\ \A pics \in LoaderPics, pic \in {PIC1, PIC2} : pics[pic].awaits = "none"
    /\ Devices \subseteq {PIC1, PIC2} \X Lines

ASSUME TextsAssumption ==
    /\ Capacity \in Nat /\ Capacity >= 2
    /\ {NoCpuid, NoApic, Greeting, Halting} \subseteq Seq(STRING)

VARIABLES
    tags,           \* the loader's list, which is never changed
    cpu,            \* the machine's CPU
    enabled,        \* it takes maskable interrupts
    pics,           \* the controllers
    loaderMasks,    \* history: their masks at the start
    pc,
    tag,            \* GetTag's pointer, an index of tags; 0 is null
    operations,     \* the operations of fb that have been set
    populated,      \* bitstringOfWhichCapabilitiesRegistersAreAlreadyPopulated
    registers,      \* cpuCapabilitiesRegisterValues, each the set of its bits
    words,          \* the words still to be written to the controllers
    outputter,      \* InitializeBaseVectorCallback has been called
    active,         \* lidt has been executed
    printed,        \* the runes put on the terminal by PutRuneString
    text,           \* what the formatter is asked to print
    shown,          \* what of it has been put on the terminal
    phase           \* of the formatter's call

machine   == <<tags, cpu, enabled, loaderMasks>>
cpuInfo   == <<populated, registers>>
table     == <<outputter, active>>
formatter == <<text, shown, phase>>
vars == <<machine, pics, pc, tag, operations, cpuInfo, words, table, printed, formatter>>

Formatter == INSTANCE FormattedText WITH Runes <- STRING, room <- Capacity - 1

Init ==
    /\ tags \in TagLists
    /\ cpu \in Cpus
    /\ enabled \in BOOLEAN
    /\ pics \in LoaderPics
    /\ loaderMasks = [pic \in {PIC1, PIC2} |-> pics[pic].mask]
    /\ pc = "getTag"
    /\ tag = IF tags = <<>> THEN 0 ELSE 1
    /\ operations = {}
    /\ populated = {}
    /\ registers = [r \in 0 .. 7 |-> {}]
    /\ words = <<>>
    /\ outputter = FALSE
    /\ active = FALSE
    /\ printed = <<>>
    /\ text = <<>>
    /\ shown = <<>>
    /\ phase = "closed"

-----------------------------------------------------------------------------
GoTo(place) == pc' = place

(* An operation that was never set is called: anything may come of it, but *)
(* not what the kernel was to do.                                          *)
Lost == GoTo("lost")

(* GetTag: the first tag of the loader's list with this identifier.        *)
SameTag == tag                                  \* mutant: the pointer stays
PastTheEnd == tag + 1                           \* mutant: the end is not seen
NextTag == IF tag < Len(tags) THEN tag + 1 ELSE 0

WalkTags ==
    /\ pc = "getTag"
    /\ tag # 0
    /\ tags[tag].identifier # Frame
    /\ tag' = NextTag
    /\ UNCHANGED <<machine, pics, pc, operations, cpuInfo, words, table, printed, formatter>>

(* The operations PopulateFrameBuffer sets for a depth; it refuses others, *)
(* with some of the operations set.                                        *)
OperationsAlike(bpp) ==                         \* mutant: every depth has bitmaps
    {"FillAllWith", "FillRowsWith", "ShiftPixelRowsUp", "DrawPixelAt", "DrawLineAt",
     "GenerateConcreteColorFromAbstractPalette", "DrawAligned2ColorBitmapAt"}
Operations(bpp) ==
    {"FillAllWith", "FillRowsWith", "ShiftPixelRowsUp"}
        \cup (IF bpp \in {8, 16, 32}
              THEN {"DrawPixelAt", "DrawLineAt", "GenerateConcreteColorFromAbstractPalette"}
              ELSE {})
        \cup (IF bpp = 32 THEN {"DrawAligned2ColorBitmapAt"} ELSE {})

PopulateFrameBuffer ==
    /\ pc = "getTag"
    /\ tag # 0
    /\ tags[tag].identifier = Frame
    /\ operations' = Operations(tags[tag].bpp)
    /\ GoTo("terminal")
    /\ UNCHANGED <<machine, pics, tag, cpuInfo, words, table, printed, formatter>>

(* _start reads the tag through a null pointer: the read fails, or it      *)
(* finds what low memory holds.                                            *)
NoFrameBuffer ==
    /\ pc = "getTag"
    /\ tag = 0
    /\ \/ Lost /\ UNCHANGED operations
       \/ \E bpp \in AnyDepth : operations' = Operations(bpp) /\ GoTo("terminal")
    /\ UNCHANGED <<machine, pics, tag, cpuInfo, words, table, printed, formatter>>

(* The terminal asks the frame buffer for its colours.                     *)
PopulateTextTerminal ==
    /\ pc = "terminal"
    /\ IF "GenerateConcreteColorFromAbstractPalette" \in operations THEN GoTo("cpu") ELSE Lost
    /\ UNCHANGED <<machine, pics, tag, operations, cpuInfo, words, table, printed, formatter>>

-----------------------------------------------------------------------------
(* CPUID answers a leaf up to the highest, and no leaf when there is none. *)
Answers(leaf) == cpu.max # 0 /\ leaf <= cpu.max

(* halt: the text goes through the formatter.                              *)
Halt(message) ==
    /\ GoTo("halt")
    /\ text' = message
    /\ shown' = <<>>
    /\ phase' = "open"

NoCpuInformation ==
    /\ pc = "cpu"
    /\ ~(Answers(0) /\ Answers(1))
    /\ Halt(NoCpuid)
    /\ UNCHANGED <<machine, pics, tag, operations, cpuInfo, words, table, printed>>

PopulateCpuInformation ==
    /\ pc = "cpu"
    /\ Answers(0) /\ Answers(1)
    /\ populated' = {0, 1}
    /\ registers' = [registers EXCEPT ![0] = cpu.edx, ![1] = cpu.ecx]
    /\ GoTo("supports")
    /\ UNCHANGED <<machine, pics, tag, operations, words, table, printed, formatter>>

(* A capability is the index of its register, times 256, and its bit.      *)
OnboardAPIC == 9

SupportedSomewhere(capability) ==               \* mutant: in any register
    \E r \in populated : capability % 256 \in registers[r]
CpuSupports(capability) ==
    LET r == capability \div 256
    IN  r \in populated /\ capability % 256 \in registers[r]

NoOnboardApic ==
    /\ pc = "supports"
    /\ ~CpuSupports(OnboardAPIC)
    /\ Halt(NoApic)
    /\ UNCHANGED <<machine, pics, tag, operations, cpuInfo, words, table, printed>>

-----------------------------------------------------------------------------
(* Reinitalize reads the masks first, and Disable follows it.              *)
Reinitalize ==
    /\ pc = "supports"
    /\ CpuSupports(OnboardAPIC)
    /\ words' = InitializationWords \o MaskWords(pics[PIC1].mask, pics[PIC2].mask)
    /\ GoTo("reinitalize")
    /\ UNCHANGED <<machine, pics, tag, operations, cpuInfo, table, printed, formatter>>

WriteWord ==
    /\ words # <<>>
    /\ pics' = AfterWord(pics, Head(words))
    /\ words' = Tail(words)
    /\ UNCHANGED <<machine, pc, tag, operations, cpuInfo, table, printed, formatter>>

Disable ==
    /\ pc = "reinitalize"
    /\ words = <<>>
    /\ words' = DisableWords
    /\ GoTo("disable")
    /\ UNCHANGED <<machine, pics, tag, operations, cpuInfo, table, printed, formatter>>

InitializeBaseVectorCallback ==
    /\ pc = "disable"
    /\ words = <<>>
    /\ outputter' = TRUE
    /\ GoTo("activate")
    /\ UNCHANGED <<machine, pics, tag, operations, cpuInfo, words, active, printed, formatter>>

ActivateTable ==
    /\ pc = "activate"
    /\ active' = TRUE
    /\ GoTo("greet")
    /\ UNCHANGED <<machine, pics, tag, operations, cpuInfo, words, outputter, printed,
                   formatter>>

-----------------------------------------------------------------------------
CanDraw == "DrawAligned2ColorBitmapAt" \in operations

Greet ==
    /\ pc = "greet"
    /\ IF CanDraw
       THEN printed' = Greeting /\ Halt(Halting)
       ELSE Lost /\ UNCHANGED <<printed, formatter>>
    /\ UNCHANGED <<machine, pics, tag, operations, cpuInfo, words, table>>

(* A chunk, which the terminal puts.  It ends the call with the chunk that *)
(* the formatter marks done: the last, or a full one that ends the format. *)
PutChunk ==
    /\ pc = "halt"
    /\ phase = "open"
    /\ IF CanDraw
       THEN /\ \/ Formatter!ShowFullChunk /\ (phase' = "stopped" <=> shown' = text)
               \/ Formatter!ShowLastChunk
            /\ UNCHANGED pc
       ELSE Lost /\ UNCHANGED formatter
    /\ UNCHANGED <<machine, pics, tag, operations, cpuInfo, words, table, printed>>

Rest ==
    /\ pc = "halt"
    /\ phase # "open"
    /\ GoTo("halted")
    /\ UNCHANGED <<machine, pics, tag, operations, cpuInfo, words, table, printed, formatter>>

Start == \/ WalkTags \/ PopulateFrameBuffer \/ NoFrameBuffer \/ PopulateTextTerminal
         \/ NoCpuInformation \/ PopulateCpuInformation \/ NoOnboardApic
         \/ Reinitalize \/ WriteWord \/ Disable
         \/ InitializeBaseVectorCallback \/ ActivateTable
         \/ Greet \/ PutChunk \/ Rest

-----------------------------------------------------------------------------
(* A device asks for service at any time.                                  *)
Raise(pic, line) ==
    /\ line \notin pics[pic].requests
    /\ pics' = [pics EXCEPT ![pic].requests = @ \cup {line}]
    /\ UNCHANGED <<machine, pc, tag, operations, cpuInfo, words, table, printed, formatter>>

(* The CPU serves a device, with the routine of the active table.          *)
Serve(pic, line) ==
    /\ enabled
    /\ <<pic, line>> \in Pending(pics)
    /\ pics' = [pics EXCEPT ![pic].requests = @ \ {line}]
    /\ UNCHANGED <<machine, pc, tag, operations, cpuInfo, words, table, printed, formatter>>

Next == \/ Start
        \/ \E device \in Devices : Raise(device[1], device[2]) \/ Serve(device[1], device[2])

Spec == Init /\ [][Next]_vars

(* The CPU goes on executing _start, whatever devices ask.                 *)
FairSpec == Spec /\ WF_vars(Start)

-----------------------------------------------------------------------------
Places == {"getTag", "terminal", "cpu", "supports", "reinitalize", "disable", "activate",
           "greet", "halt", "halted", "lost"}

TypeOK ==
    /\ tags \in Seq(Tag)
    /\ cpu \in Cpu
    /\ enabled \in BOOLEAN
    /\ pics \in [{PIC1, PIC2} -> Controller]
    /\ loaderMasks \in [{PIC1, PIC2} -> Bytes]
    /\ pc \in Places
    /\ tag \in 0 .. Len(tags)
    /\ operations \subseteq OperationsAlike(32)
    /\ populated \subseteq 0 .. 7
    /\ registers \in [0 .. 7 -> SUBSET (0 .. 31)]
    /\ words \in Seq([pic : {PIC1, PIC2}, port : {"command", "data"}, byte : Bytes])
    /\ outputter \in BOOLEAN
    /\ active \in BOOLEAN
    /\ printed \in Seq(STRING)
    /\ text \in Seq(STRING)
    /\ shown \in Seq(STRING)
    /\ phase \in {"open", "stopped", "closed", "refused"}

(***************************************************************************)
(* From lidt on, no device reaches the kernel through the controllers,     *)
(* whatever the loader left in them, whatever they make of Reinitalize's   *)
(* words and whenever devices ask (Interrupts.c:631-658, kernel.c:92-96):  *)
(* no routine of the kernel ever ends an interrupt.                        *)
(***************************************************************************)
QuietOnceActive == active => Pending(pics) = {}

(***************************************************************************)
(* Reinitalize leaves the masks as it found them (Interrupts.c:635-651),   *)
(* in whichever way the controllers take the words in between.             *)
(***************************************************************************)
MasksRestored ==
    pc = "reinitalize" /\ words = <<>> =>
        \A pic \in {PIC1, PIC2} : pics[pic].mask = loaderMasks[pic]

(***************************************************************************)
(* What the loader answers decides: with a first frame buffer tag of 32    *)
(* bits nothing is called that was not set, and with one of another depth  *)
(* the kernel cannot come to its halt (kernel.c:77-80, FrameBuffer.c:215). *)
(***************************************************************************)
FrameTags == {i \in 1 .. Len(tags) : tags[i].identifier = Frame}

FirstFrameTag(i) == i \in FrameTags /\ \A j \in FrameTags : i <= j

FrameDecides ==
    \A i \in 1 .. Len(tags) : FirstFrameTag(i) =>
        IF tags[i].bpp = 32 THEN pc # "lost" ELSE pc # "halted"

(***************************************************************************)
(* A kernel that has come to its halt has said why, in full, whatever the  *)
(* size of the terminal's buffer: that there is no CPUID, or no APIC, or   *)
(* else its greeting (kernel.c:82-100).                                    *)
(***************************************************************************)
Says == IF cpu.max = 0 THEN NoCpuid
        ELSE IF 9 \notin cpu.edx THEN NoApic
        ELSE Greeting \o Halting

TellsWhy == pc = "halted" => printed \o shown = Says

(***************************************************************************)
(* _start comes to its end: the list of tags is walked, and the text is    *)
(* shown, to the last.                                                     *)
(***************************************************************************)
Starts == <>(pc \in {"halted", "lost"})

-----------------------------------------------------------------------------
(* Interrupts.h:53, Interrupts.c:644: after Reinitalize the lines come     *)
(* with the vectors it was given, and the cascade is on line 2.            *)
LinesRemapped ==
    pc = "disable" =>
        /\ pics[PIC1].base = RemappedIRQ0
        /\ pics[PIC2].base = RemappedIRQ8
        /\ pics[PIC1].cascade = {CascadeLine}
=============================================================================
