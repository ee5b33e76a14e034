----------------------------- MODULE BootProofs -----------------------------
(***************************************************************************)
(* The start of the kernel, for every list of tags, every CPU, whatever    *)
(* the loader left in the interrupt controllers, any devices, texts and    *)
(* size of the terminal's buffer.                                          *)
(***************************************************************************)
EXTENDS Boot, SequenceTheorems, TLAPS

Words == [pic : {PIC1, PIC2}, port : {"command", "data"}, byte : Bytes]

(* The commands start no initialization, so every word on a data port is a *)
(* mask.                                                                   *)
NoInitialization ==
    /\ \A pic \in {PIC1, PIC2} : pics[pic].awaits = "none"
    /\ \A i \in 1 .. Len(words) : words[i].port = "command" => 4 \notin words[i].byte

Writing == pc \in {"reinitalize", "disable"}

NothingLeftOver == ~Writing => words = <<>>

(* The last two words of Reinitalize are the masks it found.               *)
BeforeControllers == {"getTag", "terminal", "cpu", "supports"}

MasksOnTheWay ==
    /\ pc \in BeforeControllers =>
           \A pic \in {PIC1, PIC2} : pics[pic].mask = loaderMasks[pic]
    /\ pc = "reinitalize" =>
           /\ Len(words) >= 1 => words[Len(words)] = Word(PIC2, "data", loaderMasks[PIC2])
           /\ Len(words) >= 2 => words[Len(words) - 1] = Word(PIC1, "data", loaderMasks[PIC1])
           /\ Len(words) <= 1 => pics[PIC1].mask = loaderMasks[PIC1]
           /\ Len(words) = 0 => pics[PIC2].mask = loaderMasks[PIC2]

(* The last word of Disable masks the master.                              *)
MasterMasked ==
    /\ pc = "disable" => /\ Len(words) >= 1 => words[Len(words)] = Word(PIC1, "data", Bits)
                         /\ Len(words) = 0 => pics[PIC1].mask = Bits
    /\ pc \in {"activate", "greet"} \/ active => pics[PIC1].mask = Bits
    /\ pc \in BeforeControllers \/ Writing => ~active

(* The walk has passed no frame buffer's tag, and what it found is set.    *)
FrameFound ==
    \A i \in 1 .. Len(tags) : FirstFrameTag(i) =>
        /\ pc = "getTag" => tag # 0 /\ tag <= i
        /\ pc # "getTag" => operations = Operations(tags[i].bpp)
        /\ pc = "lost" => tags[i].bpp # 32

(* A text is shown only where it can be drawn.                             *)
Drawn == pc = "halted" \/ (pc = "halt" /\ phase # "open") => CanDraw

(* What is known of the CPU from each place on.                            *)
CpuKnown ==
    /\ pc \in {"supports", "reinitalize", "disable", "activate", "greet"} =>
           populated = {0, 1} /\ registers[0] = cpu.edx /\ cpu.max # 0
    /\ pc \in {"reinitalize", "disable", "activate", "greet"} => 9 \in cpu.edx

(* What will be said when the formatter's call is over.                    *)
TextReady ==
    /\ pc \notin {"halt", "halted", "lost"} => printed = <<>>
    /\ pc \in {"halt", "halted"} => printed \o text = Says
    /\ pc = "halted" \/ (pc = "halt" /\ phase # "open") => shown = text

IndInv == /\ TypeOK
          /\ NoInitialization /\ NothingLeftOver /\ MasksOnTheWay /\ MasterMasked
          /\ FrameFound /\ Drawn /\ CpuKnown /\ TextReady

-----------------------------------------------------------------------------
(* The words that are written.                                             *)
LEMMA InitializationTyped ==
    /\ InitializationWords \in Seq(Words)
    /\ Len(InitializationWords) = 8
    /\ \A i \in 1 .. 8 : 4 \notin InitializationWords[i].byte
BY DEF InitializationWords, Words, Word, Bytes, Bits, PIC1, PIC2, PIC_ICW1_INIT, PIC_ICW1_IC4,
       PIC_ICW3_ID0_IR2, PIC_ICW4_IS_8086, RemappedIRQ0, RemappedIRQ8

(* The words Reinitalize writes: the last two are the masks it read.       *)
LEMMA ReinitializeWords ==
    ASSUME NEW mask1 \in Bytes, NEW mask2 \in Bytes
    PROVE  LET w == InitializationWords \o MaskWords(mask1, mask2)
           IN  /\ w \in Seq(Words)
               /\ Len(w) = 10
               /\ w[9] = Word(PIC1, "data", mask1)
               /\ w[10] = Word(PIC2, "data", mask2)
               /\ \A i \in 1 .. 10 : w[i].port = "command" => 4 \notin w[i].byte
<1> DEFINE masks == MaskWords(mask1, mask2)
           w == InitializationWords \o masks
<1>1. /\ masks \in Seq(Words) /\ Len(masks) = 2
      /\ masks[1] = Word(PIC1, "data", mask1) /\ masks[2] = Word(PIC2, "data", mask2)
  BY DEF MaskWords, Words, Word, PIC1, PIC2
<1> HIDE DEF masks
<1>2. /\ w \in Seq(Words) /\ Len(w) = 10
      /\ \A i \in 1 .. 10 : w[i] = IF i <= 8 THEN InitializationWords[i] ELSE masks[i - 8]
  <2> DEFINE first == InitializationWords
  <2>1. first \in Seq(Words) /\ Len(first) = 8
    BY InitializationTyped
  <2> HIDE DEF first
  <2>2. /\ first \o masks \in Seq(Words)
        /\ Len(first \o masks) = Len(first) + Len(masks)
        /\ \A i \in 1 .. Len(first) + Len(masks) :
               (first \o masks)[i] = IF i <= Len(first) THEN first[i] ELSE masks[i - Len(first)]
    BY <1>1, <2>1, ConcatProperties
  <2>3. /\ Len(first \o masks) = 10
        /\ \A i \in 1 .. 10 : (first \o masks)[i] = IF i <= 8 THEN first[i] ELSE masks[i - 8]
    BY <1>1, <2>1, <2>2
  <2> QED
    BY <2>2, <2>3 DEF first
<1>3. w[9] = masks[1] /\ w[10] = masks[2]
  BY <1>2
<1>4. \A i \in 1 .. 10 : w[i].port = "command" => 4 \notin w[i].byte
  <2> HIDE DEF w
  <2> SUFFICES ASSUME NEW i \in 1 .. 10, w[i].port = "command" PROVE 4 \notin w[i].byte
    OBVIOUS
  <2>1. CASE i <= 8
    BY <1>2, <2>1, InitializationTyped
  <2>2. CASE ~(i <= 8)
    <3>1. i = 9 \/ i = 10
      BY <2>2
    <3>2. w[i].port = "data"
      BY <1>1, <1>3, <3>1 DEF Word
    <3> QED
      BY <3>2
  <2> QED
    BY <2>1, <2>2
<1> QED
  BY <1>1, <1>2, <1>3, <1>4 DEF masks

(* Disable writes two masks, the last of them to the master.               *)
LEMMA DisableTyped ==
    /\ DisableWords \in Seq(Words)
    /\ Len(DisableWords) = 2
    /\ DisableWords[1].port = "data" /\ DisableWords[2].port = "data"
    /\ DisableWords[2] = Word(PIC1, "data", Bits)
BY DEF DisableWords, Words, Word, Bytes, PIC1, PIC2

(* A controller that awaits nothing takes a word that starts nothing: as   *)
(* its mask, or not at all.                                                *)
LEMMA WordIsMask ==
    ASSUME TypeOK, NoInitialization, words # <<>>
    PROVE  LET word == Head(words)
           IN  /\ word \in Words
               /\ AfterWord(pics, word)
                      = IF word.port = "command" THEN pics
                        ELSE [pics EXCEPT ![word.pic] = [@ EXCEPT !.mask = word.byte]]
<1> DEFINE word == Head(words)
<1>1. words \in Seq(Words) /\ Len(words) >= 1 /\ word = words[1]
  BY EmptySeq DEF TypeOK, Words
<1>2. word \in Words
  BY <1>1
<1>3. word.port = "command" => 4 \notin word.byte
  BY <1>1 DEF NoInitialization
<1>4. word.pic \in {PIC1, PIC2} /\ pics[word.pic].awaits = "none"
      /\ pics \in [{PIC1, PIC2} -> Controller]
  BY <1>2 DEF Words, NoInitialization, TypeOK
<1> HIDE DEF word
<1>5. word.port = "command" => AfterCommand(pics[word.pic], word.byte) = pics[word.pic]
  BY <1>3 DEF AfterCommand
<1>6. AfterData(pics[word.pic], word.byte) = [pics[word.pic] EXCEPT !.mask = word.byte]
  BY <1>4 DEF AfterData
<1>7. word.port = "command" => AfterWord(pics, word) = pics
  BY <1>4, <1>5 DEF AfterWord
<1>8. word.port # "command" =>
          AfterWord(pics, word) = [pics EXCEPT ![word.pic] = [@ EXCEPT !.mask = word.byte]]
  BY <1>4, <1>6 DEF AfterWord
<1> QED
  BY <1>2, <1>7, <1>8 DEF word

(* The word is gone, and the words behind it move up.                      *)
LEMMA WordGone ==
    ASSUME TypeOK, words # <<>>, words' = Tail(words)
    PROVE  /\ words' \in Seq(Words)
           /\ Len(words) \in Nat \ {0} /\ Len(words') = Len(words) - 1
           /\ \A i \in 1 .. Len(words') : words'[i] = words[i + 1]
           /\ Head(words) = words[1]
<1>1. words \in Seq(Words)
  BY DEF TypeOK, Words
<1>2. /\ Tail(words) \in Seq(Words)
      /\ Len(Tail(words)) = Len(words) - 1
      /\ \A i \in 1 .. Len(Tail(words)) : Tail(words)[i] = words[i + 1]
  BY <1>1, HeadTailProperties
<1>3. Len(words) \in Nat \ {0}
  BY <1>1, EmptySeq
<1> QED
  BY <1>1, <1>2, <1>3

(* What a chunk does to the call it belongs to.                            *)
LEMMA ChunkPut ==
    ASSUME TypeOK, PutChunk
    PROVE  /\ text' = text
           /\ shown' \in Seq(STRING)
           /\ phase' \in {"open", "stopped", "closed"}
           /\ phase' # "open" => shown' = text
           /\ pc' # "lost" => CanDraw /\ pc' = "halt"
           /\ ~CanDraw => pc' = "lost"
           /\ CanDraw => pc' = "halt"
<1>1. /\ text \in Seq(STRING) /\ shown \in Seq(STRING) /\ pc = "halt" /\ phase = "open"
      /\ Len(shown) \in Nat /\ Len(text) \in Nat
      /\ Capacity \in Nat /\ Capacity >= 2
  BY TextsAssumption DEF TypeOK, PutChunk
<1>2. CASE CanDraw
  <2>1. pc' = pc
    BY <1>2 DEF PutChunk
  <2>2. CASE Formatter!ShowFullChunk /\ (phase' = "stopped" <=> shown' = text)
    <3> DEFINE n == Len(shown) + (Capacity - 1)
    <3>1. n <= Len(text) /\ shown' = SubSeq(text, 1, n) /\ text' = text
          /\ phase' \in {"open", "stopped"}
      BY <2>2 DEF Formatter!ShowFullChunk
    <3>2. n \in Nat
      BY <1>1
    <3> HIDE DEF n
    <3>3. \A i \in 1 .. n : text[i] \in STRING
      BY <1>1, <3>1, <3>2, ElementOfSeq
    <3>4. shown' \in Seq(STRING)
      BY <3>1, <3>2, <3>3, SubSeqProperties
    <3> QED
      BY <1>1, <1>2, <2>1, <2>2, <3>1, <3>4
  <2>3. CASE Formatter!ShowLastChunk
    BY <1>1, <1>2, <2>1, <2>3 DEF Formatter!ShowLastChunk
  <2> QED
    BY <1>2, <2>2, <2>3 DEF PutChunk
<1>3. CASE ~CanDraw
  BY <1>1, <1>3 DEF PutChunk, Lost, GoTo, formatter
<1> QED
  BY <1>2, <1>3

-----------------------------------------------------------------------------
(* The invariant holds when the kernel starts,                             *)
LEMMA InitIndInv == Init => IndInv
<1> SUFFICES ASSUME Init PROVE IndInv
  OBVIOUS
<1> USE DEF Init
<1>1. tags \in Seq(Tag) /\ Len(tags) \in Nat /\ tag \in 0 .. Len(tags)
  <2>1. tags \in Seq(Tag)
    BY TagsAssumption
  <2>2. tags # <<>> => Len(tags) \in Nat \ {0}
    BY <2>1, EmptySeq
  <2>3. Len(tags) \in Nat
    BY <2>1
  <2> QED
    BY <2>1, <2>2, <2>3
<1>2. cpu \in Cpu
  BY CpusAssumption
<1>3. pics \in [{PIC1, PIC2} -> Controller] /\ \A pic \in {PIC1, PIC2} : pics[pic].awaits = "none"
  BY PicsAssumption
<1>4. loaderMasks \in [{PIC1, PIC2} -> Bytes]
  BY <1>3 DEF Controller
<1>5. <<>> \in Seq(STRING) /\ <<>> \in Seq(Words) /\ Len(<<>>) = 0
  BY EmptySeq
<1>6. TypeOK
  BY <1>1, <1>2, <1>3, <1>4, <1>5 DEF TypeOK, Places, Words
<1>7. NoInitialization /\ NothingLeftOver /\ MasksOnTheWay /\ MasterMasked
  BY <1>3, <1>5 DEF NoInitialization, NothingLeftOver, MasksOnTheWay, MasterMasked,
                    BeforeControllers, Writing
<1>8. FrameFound
  <2> SUFFICES ASSUME NEW i \in 1 .. Len(tags) PROVE tag # 0 /\ tag <= i
    BY DEF FrameFound
  <2>1. tags # <<>>
    BY <1>5
  <2> QED
    BY <1>1, <2>1
<1>9. Drawn /\ CpuKnown /\ TextReady
  BY DEF Drawn, CpuKnown, TextReady
<1> QED
  BY <1>6, <1>7, <1>8, <1>9 DEF IndInv

-----------------------------------------------------------------------------
(* Every step keeps every part of the invariant.  Steps of devices change  *)
(* only what asks for service.                                             *)
LEMMA DeviceStep ==
    ASSUME TypeOK, NEW device \in Devices,
           Raise(device[1], device[2]) \/ Serve(device[1], device[2])
    PROVE  /\ pics' \in [{PIC1, PIC2} -> Controller]
           /\ \A pic \in {PIC1, PIC2} : /\ pics'[pic].mask = pics[pic].mask
                                        /\ pics'[pic].awaits = pics[pic].awaits
           /\ UNCHANGED <<machine, pc, tag, operations, cpuInfo, words, table, printed,
                          formatter>>
<1>1. device[1] \in {PIC1, PIC2} /\ device[2] \in Lines
  BY PicsAssumption
<1>2. PICK requests \in SUBSET Lines :
          pics' = [pics EXCEPT ![device[1]].requests = requests]
  <2>1. CASE Raise(device[1], device[2])
    <3>1. pics[device[1]].requests \cup {device[2]} \in SUBSET Lines
      BY <1>1 DEF TypeOK, Controller
    <3> QED
      BY <2>1, <3>1 DEF Raise
  <2>2. CASE Serve(device[1], device[2])
    <3>1. pics[device[1]].requests \ {device[2]} \in SUBSET Lines
      BY <1>1 DEF TypeOK, Controller
    <3> QED
      BY <2>2, <3>1 DEF Serve
  <2> QED
    BY <2>1, <2>2
<1>3. pics \in [{PIC1, PIC2} -> Controller]
  BY DEF TypeOK
<1> QED
  BY <1>1, <1>2, <1>3 DEF Controller, Raise, Serve

(* A word changes one mask.                                                *)
LEMMA WordStep ==
    ASSUME TypeOK, NoInitialization, WriteWord
    PROVE  /\ words # <<>> /\ words' = Tail(words) /\ words[1] \in Words
           /\ pics' \in [{PIC1, PIC2} -> Controller]
           /\ \A pic \in {PIC1, PIC2} :
                  /\ pics'[pic].awaits = pics[pic].awaits
                  /\ pics'[pic].mask = IF words[1].port = "data" /\ words[1].pic = pic
                                       THEN words[1].byte ELSE pics[pic].mask
           /\ UNCHANGED <<machine, pc, tag, operations, cpuInfo, table, printed, formatter>>
<1>1. words # <<>> /\ words' = Tail(words) /\ pics' = AfterWord(pics, Head(words))
      /\ UNCHANGED <<machine, pc, tag, operations, cpuInfo, table, printed, formatter>>
  BY DEF WriteWord
<1>2. Head(words) = words[1]
  BY <1>1, WordGone
<1>3. /\ words[1] \in Words
      /\ pics' = IF words[1].port = "command" THEN pics
                 ELSE [pics EXCEPT ![words[1].pic] = [@ EXCEPT !.mask = words[1].byte]]
  BY <1>1, <1>2, WordIsMask
<1>4. pics \in [{PIC1, PIC2} -> Controller]
  BY DEF TypeOK
<1>5. words[1].port \in {"command", "data"} /\ words[1].pic \in {PIC1, PIC2}
      /\ words[1].byte \in Bytes
  BY <1>3 DEF Words
<1>6. pics' \in [{PIC1, PIC2} -> Controller]
  BY <1>3, <1>4, <1>5 DEF Controller
<1> QED
  BY <1>1, <1>3, <1>4, <1>5, <1>6 DEF Controller

(* every step keeps its types,                                             *)
LEMMA NextTypeOK == IndInv /\ [Next]_vars => TypeOK'
<1> SUFFICES ASSUME IndInv, [Next]_vars PROVE TypeOK'
  OBVIOUS
<1>0. TypeOK /\ NoInitialization
  BY DEF IndInv
<1>a. /\ NoCpuid \in Seq(STRING) /\ NoApic \in Seq(STRING)
      /\ Greeting \in Seq(STRING) /\ Halting \in Seq(STRING) /\ <<>> \in Seq(STRING)
  BY TextsAssumption, EmptySeq
<1>1. CASE WalkTags
  <2>1. tag' \in 0 .. Len(tags)
    BY <1>0, <1>1 DEF WalkTags, NextTag, TypeOK
  <2> QED
    BY <1>0, <1>1, <2>1 DEF WalkTags, TypeOK, machine, cpuInfo, table, formatter
<1>2. CASE PopulateFrameBuffer
  BY <1>0, <1>2
     DEF PopulateFrameBuffer, Operations, OperationsAlike, TypeOK, Places, GoTo, machine, cpuInfo, table, formatter
<1>3. CASE NoFrameBuffer
  BY <1>0, <1>3
     DEF NoFrameBuffer, Lost, Operations, OperationsAlike, TypeOK, Places, GoTo, machine, cpuInfo, table, formatter
<1>4. CASE PopulateTextTerminal
  BY <1>0, <1>4
     DEF PopulateTextTerminal, Lost, TypeOK, Places, GoTo, machine, cpuInfo, table, formatter
<1>5. CASE NoCpuInformation
  BY <1>0, <1>a, <1>5
     DEF NoCpuInformation, Halt, TypeOK, Places, GoTo, machine, cpuInfo, table, formatter
<1>6. CASE PopulateCpuInformation
  <2>1. populated' \subseteq 0 .. 7 /\ registers' \in [0 .. 7 -> SUBSET (0 .. 31)]
    <3>1. cpu.edx \in SUBSET (0 .. 31) /\ cpu.ecx \in SUBSET (0 .. 31)
      BY <1>0 DEF TypeOK, Cpu
    <3>2. registers \in [0 .. 7 -> SUBSET (0 .. 31)]
      BY <1>0 DEF TypeOK
    <3>3. registers' = [[registers EXCEPT ![0] = cpu.edx] EXCEPT ![1] = cpu.ecx]
      BY <1>6 DEF PopulateCpuInformation
    <3>4. populated' = {0, 1}
      BY <1>6 DEF PopulateCpuInformation
    <3>5. {0, 1} \subseteq 0 .. 7
      OBVIOUS
    <3> QED
      BY <3>1, <3>2, <3>3, <3>4, <3>5
  <2> QED
    BY <1>0, <1>6, <2>1 DEF PopulateCpuInformation, TypeOK, Places, GoTo, machine, table,
                            formatter
<1>7. CASE NoOnboardApic
  BY <1>0, <1>a, <1>7
     DEF NoOnboardApic, Halt, TypeOK, Places, GoTo, machine, cpuInfo, table, formatter
<1>8. CASE Reinitalize
  <2>1. words' \in Seq(Words)
    <3>1. pics[PIC1].mask \in Bytes /\ pics[PIC2].mask \in Bytes
      BY <1>0 DEF TypeOK, Controller
    <3> QED
      BY <1>8, <3>1, ReinitializeWords DEF Reinitalize
  <2> QED
    BY <1>0, <1>8, <2>1 DEF Reinitalize, TypeOK, Places, Words, GoTo, machine, cpuInfo, table,
                            formatter
<1>9. CASE WriteWord
  BY <1>0, <1>9, WordStep, WordGone DEF TypeOK, Words, machine, cpuInfo, table, formatter
<1>10. CASE Disable
  BY <1>0, <1>10, DisableTyped DEF Disable, TypeOK, Places, Words, GoTo, machine, cpuInfo,
                                   table, formatter
<1>11. CASE InitializeBaseVectorCallback
  BY <1>0, <1>11
     DEF InitializeBaseVectorCallback, TypeOK, Places, GoTo, machine, cpuInfo, table, formatter
<1>12. CASE ActivateTable
  BY <1>0, <1>12
     DEF ActivateTable, TypeOK, Places, GoTo, machine, cpuInfo, table, formatter
<1>13. CASE Greet
  BY <1>0, <1>a, <1>13
     DEF Greet, Halt, Lost, TypeOK, Places, GoTo, machine, cpuInfo, table, formatter
<1>14. CASE PutChunk
  <2>1. pc' \in {"halt", "lost"} /\ text' \in Seq(STRING) /\ shown' \in Seq(STRING)
        /\ phase' \in {"open", "stopped", "closed"}
    BY <1>0, <1>14, ChunkPut DEF TypeOK
  <2> QED
    BY <1>0, <1>14, <2>1 DEF PutChunk, TypeOK, Places, machine, cpuInfo, table
<1>15. CASE Rest
  BY <1>0, <1>15
     DEF Rest, TypeOK, Places, GoTo, machine, cpuInfo, table, formatter
<1>16. CASE \E device \in Devices :
              Raise(device[1], device[2]) \/ Serve(device[1], device[2])
  BY <1>0, <1>16, DeviceStep DEF TypeOK, machine, cpuInfo, table, formatter
<1>17. CASE UNCHANGED vars
  BY <1>0, <1>17 DEF TypeOK, vars, machine, cpuInfo, table, formatter
<1> QED
  BY <1>1, <1>2, <1>3, <1>4, <1>5, <1>6, <1>7, <1>8, <1>9, <1>10, <1>11, <1>12, <1>13, <1>14,
     <1>15, <1>16, <1>17 DEF Next, Start

(* The part about the controllers.                                         *)
Controllers == NoInitialization /\ NothingLeftOver /\ MasksOnTheWay /\ MasterMasked

(* every step keeps what it says of the controllers,                       *)
LEMMA NextControllers == IndInv /\ [Next]_vars => Controllers'
<1> SUFFICES ASSUME IndInv, [Next]_vars PROVE Controllers'
  OBVIOUS
<1> USE DEF Controllers
<1>0. TypeOK /\ Controllers /\ words \in Seq(Words)
  BY DEF IndInv, TypeOK, Words
<1>a. TypeOK'
  BY NextTypeOK
<1>b. Len(<<>>) = 0
  BY EmptySeq
(* A step that writes nothing, before the controllers or after them.       *)
<1>1. ASSUME UNCHANGED <<loaderMasks, words, active>>, ~Writing, ~Writing',
             \A pic \in {PIC1, PIC2} : /\ pics'[pic].mask = pics[pic].mask
                                      /\ pics'[pic].awaits = pics[pic].awaits,
             pc' \in BeforeControllers => pc \in BeforeControllers,
             pc' \in {"activate", "greet"} => pc = pc'
      PROVE  Controllers'
  BY <1>0, <1>1 DEF NoInitialization, NothingLeftOver, MasksOnTheWay, MasterMasked, Writing
<1>2. CASE \/ WalkTags \/ PopulateFrameBuffer \/ NoFrameBuffer \/ PopulateTextTerminal
           \/ NoCpuInformation \/ PopulateCpuInformation \/ NoOnboardApic
  <2>1. /\ UNCHANGED <<machine, pics, words, table>>
        /\ pc \in BeforeControllers /\ pc' \in BeforeControllers \cup {"halt", "lost"}
    BY <1>2 DEF WalkTags, PopulateFrameBuffer, NoFrameBuffer, PopulateTextTerminal,
                NoCpuInformation, PopulateCpuInformation, NoOnboardApic, GoTo, Lost, Halt,
                BeforeControllers
  <2> QED
    BY <1>1, <2>1 DEF machine, table, Writing, BeforeControllers
<1>3. CASE Greet \/ PutChunk \/ Rest
  <2>1. /\ UNCHANGED <<machine, pics, words, table>>
        /\ pc \in {"greet", "halt"} /\ pc' \in {"halt", "halted", "lost"}
    <3>1. CASE Greet
      BY <3>1 DEF Greet, GoTo, Lost, Halt
    <3>2. CASE PutChunk
      BY <1>0, <3>2, ChunkPut DEF PutChunk
    <3>3. CASE Rest
      BY <3>3 DEF Rest, GoTo
    <3> QED
      BY <1>3, <3>1, <3>2, <3>3
  <2> QED
    BY <1>1, <2>1 DEF machine, table, Writing, BeforeControllers
<1>4. CASE Reinitalize
  <2>1. /\ words' = InitializationWords \o MaskWords(pics[PIC1].mask, pics[PIC2].mask)
        /\ pc = "supports" /\ pc' = "reinitalize" /\ UNCHANGED <<machine, pics, table>>
    BY <1>4 DEF Reinitalize, GoTo
  <2>2. pics[PIC1].mask \in Bytes /\ pics[PIC2].mask \in Bytes
    BY <1>0 DEF TypeOK, Controller
  <2>3. /\ Len(words') = 10
        /\ words'[9] = Word(PIC1, "data", pics[PIC1].mask)
        /\ words'[10] = Word(PIC2, "data", pics[PIC2].mask)
        /\ \A i \in 1 .. 10 : words'[i].port = "command" => 4 \notin words'[i].byte
    BY <2>1, <2>2, ReinitializeWords
  <2>4. pics[PIC1].mask = loaderMasks[PIC1] /\ pics[PIC2].mask = loaderMasks[PIC2]
    BY <1>0, <2>1 DEF MasksOnTheWay, BeforeControllers
  <2>5. ~active
    BY <1>0, <2>1 DEF MasterMasked, BeforeControllers
  <2>6. NoInitialization' /\ NothingLeftOver'
    BY <1>0, <2>1, <2>3 DEF NoInitialization, NothingLeftOver, Writing
  <2>7. MasksOnTheWay'
    BY <2>1, <2>3, <2>4 DEF MasksOnTheWay, BeforeControllers, machine
  <2>8. MasterMasked'
    BY <1>0, <2>1, <2>5 DEF MasterMasked, BeforeControllers, Writing, table
  <2> QED
    BY <2>6, <2>7, <2>8
<1>5. CASE WriteWord
  <2> DEFINE n == Len(words)
  <2>1. /\ words # <<>> /\ words[1] \in Words
        /\ \A pic \in {PIC1, PIC2} :
               /\ pics'[pic].awaits = pics[pic].awaits
               /\ pics'[pic].mask = IF words[1].port = "data" /\ words[1].pic = pic
                                    THEN words[1].byte ELSE pics[pic].mask
        /\ UNCHANGED <<loaderMasks, pc, active>>
    BY <1>0, <1>5, WordStep DEF machine, table
  <2>2. /\ n \in Nat \ {0} /\ Len(words') = n - 1
        /\ \A i \in 1 .. n - 1 : words'[i] = words[i + 1]
    BY <1>0, <1>5, WordStep, WordGone
  <2>3. Writing
    BY <1>0, <2>1 DEF NothingLeftOver
  <2>4. NoInitialization'
    <3>1. ASSUME NEW i \in 1 .. Len(words'), words'[i].port = "command"
          PROVE  4 \notin words'[i].byte
      BY <1>0, <2>2, <3>1 DEF NoInitialization
    <3> QED
      BY <1>0, <2>1, <3>1 DEF NoInitialization
  <2>5. NothingLeftOver'
    BY <2>1, <2>3 DEF NothingLeftOver, Writing
  <2>6. MasksOnTheWay'
    <3>1. CASE pc = "reinitalize"
      <4>1. /\ words[n] = Word(PIC2, "data", loaderMasks[PIC2])
            /\ n >= 2 => words[n - 1] = Word(PIC1, "data", loaderMasks[PIC1])
            /\ n <= 1 => pics[PIC1].mask = loaderMasks[PIC1]
        BY <1>0, <2>2, <3>1 DEF MasksOnTheWay
      <4>2. CASE n = 1
        BY <2>1, <2>2, <3>1, <4>1, <4>2
           DEF MasksOnTheWay, BeforeControllers, Word, PIC1, PIC2
      <4>3. CASE n = 2
        BY <2>1, <2>2, <3>1, <4>1, <4>3
           DEF MasksOnTheWay, BeforeControllers, Word, PIC1, PIC2
      <4>4. CASE n > 2
        <5>1. Len(words') >= 2 /\ words'[Len(words')] = words[n]
              /\ words'[Len(words') - 1] = words[n - 1]
          BY <2>2, <4>4
        <5> QED
          BY <2>1, <2>2, <3>1, <4>1, <4>4, <5>1 DEF MasksOnTheWay, BeforeControllers
      <4> QED
        BY <2>2, <4>2, <4>3, <4>4
    <3>2. CASE pc = "disable"
      BY <2>1, <3>2 DEF MasksOnTheWay, BeforeControllers
    <3> QED
      BY <2>3, <3>1, <3>2 DEF Writing
  <2>7. MasterMasked'
    <3>1. CASE pc = "reinitalize"
      BY <1>0, <2>1, <2>3, <3>1 DEF MasterMasked, BeforeControllers, Writing
    <3>2. CASE pc = "disable"
      <4>1. words[n] = Word(PIC1, "data", Bits) /\ ~active
        BY <1>0, <2>2, <2>3, <3>2 DEF MasterMasked
      <4>2. CASE n = 1
        BY <2>1, <2>2, <3>2, <4>1, <4>2 DEF MasterMasked, BeforeControllers, Writing, Word
      <4>3. CASE n > 1
        <5>1. Len(words') >= 1 /\ words'[Len(words')] = words[n]
          BY <2>2, <4>3
        <5> QED
          BY <2>1, <2>2, <3>2, <4>1, <4>3, <5>1
             DEF MasterMasked, BeforeControllers, Writing
      <4> QED
        BY <2>2, <4>2, <4>3
    <3> QED
      BY <2>3, <3>1, <3>2 DEF Writing
  <2> QED
    BY <2>4, <2>5, <2>6, <2>7
<1>6. CASE Disable
  <2>1. /\ words' = DisableWords /\ pc = "reinitalize" /\ pc' = "disable"
        /\ UNCHANGED <<machine, pics, table>>
    BY <1>6 DEF Disable, GoTo
  <2>2. ~active
    BY <1>0, <2>1 DEF MasterMasked, Writing
  <2>3. \A i \in 1 .. Len(words') : words'[i].port # "command"
    BY <2>1, DisableTyped
  <2>4. NoInitialization' /\ NothingLeftOver' /\ MasksOnTheWay'
    BY <1>0, <2>1, <2>3
       DEF NoInitialization, NothingLeftOver, MasksOnTheWay, BeforeControllers, Writing
  <2>5. MasterMasked'
    BY <2>1, <2>2, DisableTyped DEF MasterMasked, BeforeControllers, Writing, table
  <2> QED
    BY <2>4, <2>5
<1>7. CASE InitializeBaseVectorCallback
  <2>1. /\ words = <<>> /\ pc = "disable" /\ pc' = "activate"
        /\ UNCHANGED <<machine, pics, words, active>>
    BY <1>7 DEF InitializeBaseVectorCallback, GoTo
  <2> QED
    BY <1>0, <1>b, <2>1 DEF NoInitialization, NothingLeftOver, MasksOnTheWay, MasterMasked,
                            BeforeControllers, Writing
<1>8. CASE ActivateTable
  <2>1. /\ pc = "activate" /\ pc' = "greet" /\ UNCHANGED <<machine, pics, words>>
    BY <1>8 DEF ActivateTable, GoTo
  <2> QED
    BY <1>0, <2>1 DEF NoInitialization, NothingLeftOver, MasksOnTheWay, MasterMasked,
                      BeforeControllers, Writing
<1>9. ASSUME UNCHANGED <<loaderMasks, words, active, pc>>,
             \A pic \in {PIC1, PIC2} : /\ pics'[pic].mask = pics[pic].mask
                                      /\ pics'[pic].awaits = pics[pic].awaits
      PROVE  Controllers'
  BY <1>0, <1>9 DEF NoInitialization, NothingLeftOver, MasksOnTheWay, MasterMasked, Writing
<1>10. CASE \E device \in Devices :
              Raise(device[1], device[2]) \/ Serve(device[1], device[2])
  BY <1>0, <1>9, <1>10, DeviceStep DEF machine, table
<1>11. CASE UNCHANGED vars
  BY <1>9, <1>11 DEF vars, machine, table
<1> QED
  BY <1>2, <1>3, <1>4, <1>5, <1>6, <1>7, <1>8, <1>10, <1>11 DEF Next, Start

(* The part about the frame buffer: the walk stops at the first tag.       *)
LEMMA NextFrameFound == IndInv /\ [Next]_vars => FrameFound'
<1> SUFFICES ASSUME IndInv, [Next]_vars, NEW i \in 1 .. Len(tags'), FirstFrameTag(i)'
             PROVE  /\ pc' = "getTag" => tag' # 0 /\ tag' <= i
                    /\ pc' # "getTag" => operations' = Operations(tags'[i].bpp)
                    /\ pc' = "lost" => tags'[i].bpp # 32
  BY DEF FrameFound
<1>0. TypeOK
  BY DEF IndInv
<1>1. UNCHANGED tags
  <2>1. CASE PutChunk
    BY <2>1 DEF PutChunk, machine
  <2>2. CASE \E device \in Devices :
                 Raise(device[1], device[2]) \/ Serve(device[1], device[2])
    BY <1>0, <2>2, DeviceStep DEF machine
  <2>3. CASE ~PutChunk /\ Start
    BY <2>3 DEF Start, WalkTags, PopulateFrameBuffer, NoFrameBuffer, PopulateTextTerminal,
                NoCpuInformation, PopulateCpuInformation, NoOnboardApic, Reinitalize, WriteWord,
                Disable, InitializeBaseVectorCallback, ActivateTable, Greet, Rest, machine
  <2>4. CASE UNCHANGED vars
    BY <2>4 DEF vars, machine
  <2> QED
    BY <2>1, <2>2, <2>3, <2>4 DEF Next
<1>2. /\ i \in 1 .. Len(tags) /\ FirstFrameTag(i)
      /\ pc = "getTag" => tag # 0 /\ tag <= i
      /\ pc # "getTag" => operations = Operations(tags[i].bpp)
      /\ pc = "lost" => tags[i].bpp # 32
  <2>1. i \in 1 .. Len(tags) /\ FirstFrameTag(i)
    BY <1>1 DEF FirstFrameTag, FrameTags
  <2> QED
    BY <2>1 DEF IndInv, FrameFound
<1>3. /\ tags[i].identifier = Frame
      /\ \A j \in 1 .. Len(tags) : tags[j].identifier = Frame => i <= j
      /\ tag \in 0 .. Len(tags) /\ Len(tags) \in Nat
  BY <1>0, <1>2 DEF FirstFrameTag, FrameTags, TypeOK
<1>4. CASE WalkTags
  <2>1. /\ pc = "getTag" /\ tag # 0 /\ tags[tag].identifier # Frame /\ tag' = NextTag
        /\ pc' = pc
    BY <1>4 DEF WalkTags
  <2>2. tag < i
    BY <1>2, <1>3, <2>1
  <2>3. tag' = tag + 1
    BY <1>2, <1>3, <2>1, <2>2 DEF NextTag
  <2> QED
    BY <1>2, <1>3, <2>1, <2>2, <2>3
<1>5. CASE PopulateFrameBuffer
  <2>1. /\ pc = "getTag" /\ tag # 0 /\ tags[tag].identifier = Frame
        /\ operations' = Operations(tags[tag].bpp) /\ pc' = "terminal"
    BY <1>5 DEF PopulateFrameBuffer, GoTo
  <2>2. tag = i
    BY <1>2, <1>3, <2>1
  <2> QED
    BY <1>1, <2>1, <2>2
<1>6. CASE NoFrameBuffer
  BY <1>2, <1>6 DEF NoFrameBuffer
<1>7. CASE PopulateTextTerminal
  <2>1. /\ pc = "terminal" /\ operations' = operations
        /\ pc' = IF "GenerateConcreteColorFromAbstractPalette" \in operations
                 THEN "cpu" ELSE "lost"
    BY <1>7 DEF PopulateTextTerminal, GoTo, Lost
  <2> QED
    BY <1>1, <1>2, <2>1 DEF Operations
<1>8. CASE NoCpuInformation \/ PopulateCpuInformation \/ NoOnboardApic \/ Reinitalize
           \/ Disable \/ InitializeBaseVectorCallback \/ ActivateTable \/ Rest
  <2>1. pc # "getTag" /\ pc' \notin {"getTag", "lost"} /\ operations' = operations
    BY <1>8 DEF NoCpuInformation, PopulateCpuInformation, NoOnboardApic, Reinitalize, Disable,
                InitializeBaseVectorCallback, ActivateTable, Rest, Halt, GoTo
  <2> QED
    BY <1>1, <1>2, <2>1
<1>9. CASE Greet \/ PutChunk
  <2>1. pc # "getTag" /\ operations' = operations /\ pc' # "getTag"
        /\ (pc' = "lost" => ~CanDraw)
    <3>1. CASE Greet
      BY <3>1 DEF Greet, Halt, Lost, GoTo
    <3>2. CASE PutChunk
      BY <1>0, <3>2, ChunkPut DEF PutChunk
    <3> QED
      BY <1>9, <3>1, <3>2
  <2> QED
    BY <1>1, <1>2, <2>1 DEF CanDraw, Operations
<1>10. CASE WriteWord
  BY <1>1, <1>2, <1>10 DEF WriteWord
<1>11. CASE \E device \in Devices :
               Raise(device[1], device[2]) \/ Serve(device[1], device[2])
  BY <1>0, <1>1, <1>2, <1>11, DeviceStep
<1>12. CASE UNCHANGED vars
  BY <1>1, <1>2, <1>12 DEF vars
<1> QED
  BY <1>4, <1>5, <1>6, <1>7, <1>8, <1>9, <1>10, <1>11, <1>12 DEF Next, Start

(* The part about what is known of the CPU and what is said of it.         *)
Telling == Drawn /\ CpuKnown /\ TextReady

(* and what it says of the text.                                           *)
LEMMA NextTelling == IndInv /\ [Next]_vars => Telling'
<1> SUFFICES ASSUME IndInv, [Next]_vars PROVE Telling'
  OBVIOUS
<1> USE DEF Telling
<1>0. TypeOK /\ Telling
  BY DEF IndInv
<1>1. /\ <<>> \o NoCpuid = NoCpuid /\ <<>> \o NoApic = NoApic
  BY TextsAssumption, ConcatEmptySeq
<1>2. OnboardAPIC \div 256 = 0 /\ OnboardAPIC % 256 = 9
  BY DEF OnboardAPIC
<1>3. CASE NoCpuInformation
  <2>1. cpu.max = 0
    <3>1. cpu.max \in Nat
      BY <1>0 DEF TypeOK, Cpu
    <3> QED
      BY <1>3, <3>1 DEF NoCpuInformation, Answers
  <2>2. /\ pc = "cpu" /\ pc' = "halt" /\ text' = NoCpuid /\ phase' = "open"
        /\ UNCHANGED <<cpu, printed>>
    BY <1>3 DEF NoCpuInformation, Halt, GoTo, machine
  <2>3. printed = <<>>
    BY <1>0, <2>2 DEF TextReady
  <2> QED
    BY <1>1, <2>1, <2>2, <2>3 DEF Drawn, CpuKnown, TextReady, Says
<1>4. CASE PopulateCpuInformation
  <2>1. /\ pc = "cpu" /\ pc' = "supports" /\ cpu.max # 0 /\ populated' = {0, 1}
        /\ registers' = [registers EXCEPT ![0] = cpu.edx, ![1] = cpu.ecx]
        /\ UNCHANGED <<cpu, printed>>
    BY <1>4 DEF PopulateCpuInformation, Answers, GoTo, machine
  <2>2. registers'[0] = cpu.edx
    BY <1>0, <2>1 DEF TypeOK
  <2> QED
    BY <1>0, <2>1, <2>2 DEF Drawn, CpuKnown, TextReady
<1>5. CASE NoOnboardApic
  <2>1. /\ pc = "supports" /\ pc' = "halt" /\ text' = NoApic /\ phase' = "open"
        /\ ~CpuSupports(OnboardAPIC) /\ UNCHANGED <<cpu, printed>>
    BY <1>5 DEF NoOnboardApic, Halt, GoTo, machine
  <2>2. populated = {0, 1} /\ registers[0] = cpu.edx /\ cpu.max # 0 /\ printed = <<>>
    BY <1>0, <2>1 DEF CpuKnown, TextReady
  <2>3. 9 \notin cpu.edx
    BY <1>2, <2>1, <2>2 DEF CpuSupports
  <2> QED
    BY <1>1, <2>1, <2>2, <2>3 DEF Drawn, CpuKnown, TextReady, Says
<1>6. CASE Reinitalize
  <2>1. /\ pc = "supports" /\ pc' = "reinitalize" /\ CpuSupports(OnboardAPIC)
        /\ UNCHANGED <<cpu, populated, registers, printed>>
    BY <1>6 DEF Reinitalize, GoTo, machine, cpuInfo
  <2>2. populated = {0, 1} /\ registers[0] = cpu.edx /\ cpu.max # 0 /\ printed = <<>>
    BY <1>0, <2>1 DEF CpuKnown, TextReady
  <2>3. 9 \in cpu.edx
    BY <1>2, <2>1, <2>2 DEF CpuSupports
  <2> QED
    BY <2>1, <2>2, <2>3 DEF Drawn, CpuKnown, TextReady
<1>7. CASE Greet
  <2>1. CASE CanDraw
    <3>1. /\ pc = "greet" /\ pc' = "halt" /\ printed' = Greeting /\ text' = Halting
          /\ phase' = "open" /\ UNCHANGED cpu
      BY <1>7, <2>1 DEF Greet, Halt, GoTo, machine
    <3>2. cpu.max # 0 /\ 9 \in cpu.edx
      BY <1>0, <3>1 DEF CpuKnown
    <3> QED
      BY <3>1, <3>2 DEF Drawn, CpuKnown, TextReady, Says
  <2>2. CASE ~CanDraw
    <3>1. pc' = "lost"
      BY <1>7, <2>2 DEF Greet, Lost, GoTo
    <3> QED
      BY <3>1 DEF Drawn, CpuKnown, TextReady
  <2> QED
    BY <2>1, <2>2
<1>8. CASE PutChunk
  <2>1. CASE ~CanDraw
    <3>1. pc' = "lost"
      BY <1>0, <1>8, <2>1, ChunkPut
    <3> QED
      BY <3>1 DEF Drawn, CpuKnown, TextReady
  <2>2. CASE CanDraw
    <3>1. /\ pc = "halt" /\ pc' = "halt" /\ text' = text
          /\ phase' # "open" => shown' = text
          /\ UNCHANGED <<cpu, printed, operations>>
      BY <1>0, <1>8, <2>2, ChunkPut DEF PutChunk, machine
    <3> QED
      BY <1>0, <2>2, <3>1 DEF Drawn, CanDraw, CpuKnown, TextReady, Says
  <2> QED
    BY <2>1, <2>2
<1>9. CASE Rest
  <2>1. /\ pc = "halt" /\ pc' = "halted" /\ phase # "open"
        /\ UNCHANGED <<cpu, operations, printed, text, shown, phase>>
    BY <1>9 DEF Rest, GoTo, machine, formatter
  <2> QED
    BY <1>0, <2>1 DEF Drawn, CanDraw, CpuKnown, TextReady, Says
(* The other steps say nothing and go on to a place where as much is known.*)
<1>10. CASE WalkTags \/ PopulateFrameBuffer \/ NoFrameBuffer \/ PopulateTextTerminal
  <2>1. /\ pc \in {"getTag", "terminal"} /\ pc' \in {"getTag", "terminal", "cpu", "lost"}
        /\ printed' = printed
    BY <1>10 DEF WalkTags, PopulateFrameBuffer, NoFrameBuffer, PopulateTextTerminal, GoTo, Lost
  <2> QED
    BY <1>0, <2>1 DEF Drawn, CpuKnown, TextReady
<1>11. CASE Disable \/ InitializeBaseVectorCallback \/ ActivateTable
  <2>1. /\ pc \in {"reinitalize", "disable", "activate"}
        /\ pc' \in {"disable", "activate", "greet"}
        /\ UNCHANGED <<cpu, populated, registers, printed>>
    BY <1>11 DEF Disable, InitializeBaseVectorCallback, ActivateTable, GoTo, machine, cpuInfo
  <2> QED
    BY <1>0, <2>1 DEF Drawn, CpuKnown, TextReady
<1>12. ASSUME UNCHANGED <<machine, pc, operations, cpuInfo, printed, formatter>>
       PROVE  Telling'
  BY <1>0, <1>12 DEF Drawn, CanDraw, CpuKnown, TextReady, Says, machine, cpuInfo, formatter
<1>13. CASE WriteWord
  BY <1>12, <1>13 DEF WriteWord
<1>14. CASE \E device \in Devices :
               Raise(device[1], device[2]) \/ Serve(device[1], device[2])
  BY <1>0, <1>12, <1>14, DeviceStep
<1>15. CASE UNCHANGED vars
  BY <1>12, <1>15 DEF vars
<1> QED
  BY <1>3, <1>4, <1>5, <1>6, <1>7, <1>8, <1>9, <1>10, <1>11, <1>13, <1>14, <1>15
     DEF Next, Start

-----------------------------------------------------------------------------
(* The invariant holds in every reachable state.                           *)
THEOREM Invariance == Spec => []IndInv
<1>1. Init => IndInv
  BY InitIndInv
<1>2. IndInv /\ [Next]_vars => IndInv'
  BY NextTypeOK, NextControllers, NextFrameFound, NextTelling DEF IndInv, Controllers, Telling
<1> QED
  BY <1>1, <1>2, PTL DEF Spec

(* Every variable keeps its type.                                          *)
THEOREM TypeCorrect == Spec => []TypeOK
<1>1. IndInv => TypeOK
  BY DEF IndInv
<1> QED
  BY <1>1, Invariance, PTL

(* No device reaches the kernel through the controllers from lidt on       *)
(* (Interrupts.c:631-658, kernel.c:92-96).                                 *)
THEOREM DevicesKeptOut == Spec => []QuietOnceActive
<1>1. IndInv => QuietOnceActive
  <2> SUFFICES ASSUME IndInv, active PROVE Pending(pics) = {}
    BY DEF QuietOnceActive
  <2>1. pics[PIC1].mask = Bits
    BY DEF IndInv, MasterMasked
  <2>2. pics[PIC1].requests \subseteq Bits
    BY DEF IndInv, TypeOK, Controller, Lines
  <2>3. Unmasked(pics[PIC1]) = {}
    BY <2>1, <2>2 DEF Unmasked
  <2>4. CascadeLine \in pics[PIC1].mask
    BY <2>1 DEF CascadeLine, Bits
  <2> QED
    BY <2>3, <2>4 DEF Pending
<1> QED
  BY <1>1, Invariance, PTL

(* Reinitalize leaves the masks as it found them (Interrupts.c:635-651).   *)
THEOREM MasksComeBack == Spec => []MasksRestored
<1>1. IndInv => MasksRestored
  <2>1. Len(<<>>) = 0
    BY EmptySeq
  <2> QED
    BY <2>1 DEF IndInv, MasksOnTheWay, MasksRestored
<1> QED
  BY <1>1, Invariance, PTL

(* With a frame of 32 bits nothing is called that was not set; with one of *)
(* another depth the kernel does not come to its halt (kernel.c:77-80).    *)
THEOREM FirstFrameDecides == Spec => []FrameDecides
<1>1. IndInv => FrameDecides
  <2> SUFFICES ASSUME IndInv, NEW i \in 1 .. Len(tags), FirstFrameTag(i)
               PROVE  IF tags[i].bpp = 32 THEN pc # "lost" ELSE pc # "halted"
    BY DEF FrameDecides
  <2>1. /\ pc = "lost" => tags[i].bpp # 32
        /\ pc # "getTag" => operations = Operations(tags[i].bpp)
        /\ pc = "halted" => CanDraw
    BY DEF IndInv, FrameFound, Drawn
  <2> QED
    BY <2>1 DEF CanDraw, Operations
<1> QED
  BY <1>1, Invariance, PTL

(* A kernel that has come to its halt has said why, in full                *)
(* (kernel.c:82-100).                                                      *)
THEOREM HaltsWithItsReason == Spec => []TellsWhy
<1>1. IndInv => TellsWhy
  BY DEF IndInv, TextReady, TellsWhy
<1> QED
  BY <1>1, Invariance, PTL
=============================================================================
