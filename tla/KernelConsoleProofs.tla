------------------------ MODULE KernelConsoleProofs ------------------------
(***************************************************************************)
(* What interrupts cannot break, for every frame, every set of device      *)
(* vectors, every text and any number of interrupts.                       *)
(***************************************************************************)
EXTENDS KernelConsole, FrameBufferProofs, SequenceTheorems

(* A frame that has room for a glyph has a column of them.                 *)
LEMMA SomeGlyphFits ==
    ASSUME NEW pixels \in Nat, NEW glyph \in Nat \ {0}, pixels >= glyph
    PROVE  pixels \div glyph \in Nat \ {0}
BY SMTT(30)

(* The screen has a place.                                                 *)
LEMMA ScreenSize ==
    ASSUME TypeOK, RoomForGlyph
    PROVE  /\ glyphPixelWidth \in Nat \ {0}
           /\ glyphPixelHeight \in Nat \ {0}
           /\ glyphColumnsInFrameBuffer \in Nat \ {0}
           /\ glyphRowsInFrameBuffer \in Nat \ {0}
<1>1. glyphPixelWidth \in Nat \ {0} /\ glyphPixelHeight \in Nat \ {0}
  BY GlyphAssumption, WidthAssumption, SMTT(30) DEF glyphPixelWidth, glyphPixelHeight
<1>2. fb.HorizontalPixels \in Nat /\ fb.VerticalPixels \in Nat
  BY DEF TypeOK
<1>3. glyphColumnsInFrameBuffer \in Nat \ {0}
  BY <1>1, <1>2, SomeGlyphFits DEF RoomForGlyph, glyphColumnsInFrameBuffer
<1>4. glyphRowsInFrameBuffer \in Nat \ {0}
  BY <1>1, <1>2, SomeGlyphFits DEF RoomForGlyph, glyphRowsInFrameBuffer
<1> QED
  BY <1>1, <1>3, <1>4

(* The last flow is one, and is the one that runs.                         *)
LEMMA RunningFlow ==
    ASSUME TypeOK
    PROVE  top \in Nat \ {0} /\ Running \in FlowType /\ Running = flows[top]
BY DEF TypeOK, top, Running

(* A flow that goes on stays in its place, and the others stay as they are.*)
LEMMA Continues ==
    ASSUME TypeOK, NEW flow \in FlowType, Continue(flow)
    PROVE  /\ flows' \in Seq(FlowType) /\ flows' # <<>>
           /\ top' = top
           /\ Running' = flow
           /\ flows'[top] = flow
           /\ \A i \in 1 .. top - 1 : flows'[i] = flows[i]
BY RunningFlow DEF TypeOK, Continue, top, Running

(***************************************************************************)
(* A step of the running flow that changes neither whose flow it is nor    *)
(* the flags it returns with keeps the stack in order.                     *)
(***************************************************************************)
LEMMA ContinuesStacked ==
    ASSUME TypeOK, Stacked, NestingBounded, NEW flow \in FlowType, Continue(flow),
           flow.vector = Running.vector, flow.flags = Running.flags,
           UNCHANGED cpu
    PROVE  Stacked' /\ NestingBounded'
<1>1. /\ top' = top /\ top \in Nat \ {0}
      /\ \A i \in 1 .. top : /\ flows'[i].vector = flows[i].vector
                             /\ flows'[i].flags = flows[i].flags
  BY RunningFlow, Continues
<1>2. Running'.vector = Running.vector
  BY Continues
<1> QED
  BY <1>1, <1>2 DEF Stacked, NestingBounded, cpu

(* It keeps what has been prepared.                                        *)
LEMMA ContinuesPrepared ==
    ASSUME TypeOK, Prepared, NEW flow \in FlowType, Continue(flow),
           flow.pc = "populate" => outputter, UNCHANGED outputter
    PROVE  Prepared'
BY RunningFlow, Continues DEF Prepared

(* It keeps the numbers, unless it begins to print one.                    *)
LEMMA ContinuesNumber ==
    ASSUME TypeOK, OwnNumberShown, NEW flow \in FlowType, Continue(flow),
           Printing(flow) => Printing(Running) /\ flow.vector = Running.vector,
           UNCHANGED runeBuffer
    PROVE  OwnNumberShown'
<1> SUFFICES ASSUME NEW i \in 1 .. top', Printing(flows'[i])
             PROVE  runeBuffer' = DecimalText(WordOf(flows'[i].vector))
  BY DEF OwnNumberShown, Printing
<1>1. top' = top /\ top \in Nat \ {0} /\ Running = flows[top]
  BY RunningFlow, Continues
<1>2. CASE i = top
  BY <1>1, <1>2, Continues DEF OwnNumberShown
<1>3. CASE i # top
  <2>1. flows'[i] = flows[i] /\ i \in 1 .. top
    BY <1>1, <1>3, Continues
  <2> QED
    BY <2>1 DEF OwnNumberShown
<1> QED
  BY <1>2, <1>3

(* It keeps the cursor, while it moves it neither off nor on the screen.   *)
LEMMA ContinuesCursor ==
    ASSUME TypeOK, CursorSettles, NEW flow \in FlowType, Continue(flow),
           \/ UNCHANGED cursorX /\ (Wrapping(Running) => Wrapping(flow))
           \/ cursorX' < glyphColumnsInFrameBuffer
           \/ Wrapping(flow),
           \/ UNCHANGED cursorY /\ (Scrolling(Running) => Scrolling(flow))
           \/ cursorY' < glyphRowsInFrameBuffer
           \/ Scrolling(flow),
           UNCHANGED fb
    PROVE  CursorSettles'
<1>1. /\ top' = top /\ top \in Nat \ {0} /\ Running = flows[top]
      /\ flows'[top] = flow
      /\ \A i \in 1 .. top - 1 : flows'[i] = flows[i]
  BY RunningFlow, Continues
<1>2. /\ glyphColumnsInFrameBuffer' = glyphColumnsInFrameBuffer
      /\ glyphRowsInFrameBuffer' = glyphRowsInFrameBuffer
  BY DEF glyphColumnsInFrameBuffer, glyphRowsInFrameBuffer, glyphPixelWidth, glyphPixelHeight
<1>3. ASSUME \A i \in 1 .. top' : ~Wrapping(flows'[i])
      PROVE  cursorX' < glyphColumnsInFrameBuffer
  <2>1. ~Wrapping(flow) /\ \A i \in 1 .. top - 1 : ~Wrapping(flows[i])
    BY <1>1, <1>3
  <2>2. CASE UNCHANGED cursorX /\ ~Wrapping(Running)
    BY <1>1, <2>1, <2>2 DEF CursorSettles
  <2> QED
    BY <2>1, <2>2
<1>4. ASSUME \A i \in 1 .. top' : ~Scrolling(flows'[i])
      PROVE  cursorY' < glyphRowsInFrameBuffer
  <2>1. ~Scrolling(flow) /\ \A i \in 1 .. top - 1 : ~Scrolling(flows[i])
    BY <1>1, <1>4
  <2>2. CASE UNCHANGED cursorY /\ ~Scrolling(Running)
    BY <1>1, <2>1, <2>2 DEF CursorSettles
  <2> QED
    BY <2>1, <2>2
<1> QED
  BY <1>2, <1>3, <1>4 DEF CursorSettles, Wrapping, Scrolling

-----------------------------------------------------------------------------
(* A stack of one flow.                                                    *)
LEMMA OneFlow ==
    ASSUME NEW S, NEW s \in S
    PROVE  <<s>> \in Seq(S) /\ <<s>> # <<>>
OBVIOUS

(* The invariant holds when the main flow begins.                          *)
LEMMA InitIndInv == Init => IndInv
<1> SUFFICES ASSUME Init PROVE IndInv
  OBVIOUS
<1>1. Flow(Main, "setOutputter", FALSE) \in FlowType
  BY DEF Flow, FlowType, Places, Unread
<1>2. top = 1 /\ Running = flows[1] /\ flows[1] = Flow(Main, "setOutputter", FALSE)
  BY DEF Init, top, Running
<1>3. TypeOK /\ RoomForGlyph
  <2>1. /\ fb \in [HorizontalPixels : Nat, VerticalPixels : Nat, BitsPerPixel : {32}]
        /\ RoomForGlyph
    BY FramesAssumption DEF Init, RoomForGlyph, glyphPixelWidth, glyphPixelHeight
  <2>2. flows \in Seq(FlowType) /\ flows # <<>>
    BY <1>1, OneFlow, Zenon DEF Init
  <2> QED
    BY <2>1, <2>2 DEF Init, TypeOK
<1>4. Main # NMI
  BY VectorsAssumption DEF NMI
<1>5. Stacked /\ NestingBounded
  BY <1>2, <1>4 DEF Init, Stacked, NestingBounded, Flow
<1>6. Prepared /\ RoutinesPrepared
  BY <1>2 DEF Init, Prepared, RoutinesPrepared, Flow
<1>7. CursorSettles
  BY <1>3, ScreenSize DEF Init, CursorSettles
<1>8. OwnNumberShown
  BY <1>2 DEF OwnNumberShown, Printing, Flow
<1> QED
  BY <1>3, <1>5, <1>6, <1>7, <1>8 DEF IndInv

(***************************************************************************)
(* What the steps of the running flow have in common: they touch neither   *)
(* the frame nor the CPU nor the stack below.  The cursor, the buffer and  *)
(* the table are left to the step.                                         *)
(***************************************************************************)
LEMMA StepIndInv ==
    ASSUME IndInv, NEW flow \in FlowType, Continue(flow),
           flow.vector = Running.vector, flow.flags = Running.flags,
           UNCHANGED <<fb, cpu, runeBuffer, table>>,
           cursorX' \in Nat, cursorY' \in Nat, drawn' \in [row : Nat, column : Nat],
           flow.pc # "populate",
           Printing(flow) => Printing(Running),
           \/ UNCHANGED cursorX /\ (Wrapping(Running) => Wrapping(flow))
           \/ cursorX' < glyphColumnsInFrameBuffer
           \/ Wrapping(flow),
           \/ UNCHANGED cursorY /\ (Scrolling(Running) => Scrolling(flow))
           \/ cursorY' < glyphRowsInFrameBuffer
           \/ Scrolling(flow)
    PROVE  IndInv'
<1> USE DEF IndInv
<1>1. TypeOK'
  BY Continues DEF TypeOK, table, cpu
<1>2. Stacked' /\ NestingBounded'
  BY ContinuesStacked
<1>3. Prepared'
  BY ContinuesPrepared DEF table
<1>4. RoutinesPrepared'
  BY DEF RoutinesPrepared, table
<1>5. RoomForGlyph'
  BY DEF RoomForGlyph, glyphPixelWidth, glyphPixelHeight
<1>6. CursorSettles'
  BY ContinuesCursor
<1>7. OwnNumberShown'
  BY ContinuesNumber
<1> QED
  BY <1>1, <1>2, <1>3, <1>4, <1>5, <1>6, <1>7

(* A flow that only goes to another place, or loads a value on the way.    *)
LEMMA MovedFlow ==
    ASSUME TypeOK, NEW pc \in Places
    PROVE  LET flow == [Running EXCEPT !.pc = pc, !.row = Unread, !.column = Unread,
                                       !.loaded = Unread]
           IN  /\ flow \in FlowType /\ flow.pc = pc
               /\ flow.vector = Running.vector /\ flow.flags = Running.flags
               /\ flow.string = Running.string
<1> DEFINE moved     == [Running EXCEPT !.pc = pc]
           left      == [moved EXCEPT !.row = Unread]
           forgotten == [left EXCEPT !.column = Unread]
<1>1. /\ moved \in FlowType /\ moved.pc = pc
      /\ moved.vector = Running.vector /\ moved.flags = Running.flags
      /\ moved.string = Running.string
  BY RunningFlow DEF FlowType
<1> HIDE DEF moved
<1>1a. /\ left \in FlowType /\ left.pc = pc
       /\ left.vector = Running.vector /\ left.flags = Running.flags
       /\ left.string = Running.string
  BY <1>1 DEF FlowType, Unread
<1> HIDE DEF left
<1>2. /\ forgotten \in FlowType /\ forgotten.pc = pc
      /\ forgotten.vector = Running.vector /\ forgotten.flags = Running.flags
      /\ forgotten.string = Running.string
  BY <1>1a DEF FlowType, Unread
<1> HIDE DEF forgotten
<1>3. LET flow == [forgotten EXCEPT !.loaded = Unread]
      IN  /\ flow \in FlowType /\ flow.pc = pc
          /\ flow.vector = Running.vector /\ flow.flags = Running.flags
          /\ flow.string = Running.string
  BY <1>2 DEF FlowType, Unread
<1> QED
  BY <1>3 DEF forgotten, left, moved

(* A flow that loads keeps its vector, flags and string,                   *)
LEMMA LoadedFlow ==
    ASSUME TypeOK, NEW pc \in Places, NEW n \in Nat
    PROVE  LET flow == [Running EXCEPT !.loaded = n, !.pc = pc]
           IN  /\ flow \in FlowType /\ flow.pc = pc
               /\ flow.vector = Running.vector /\ flow.flags = Running.flags
               /\ flow.string = Running.string
<1> DEFINE changed == [Running EXCEPT !.loaded = n]
<1>1. /\ changed \in FlowType
      /\ changed.vector = Running.vector /\ changed.flags = Running.flags
      /\ changed.string = Running.string
  BY RunningFlow DEF FlowType
<1> HIDE DEF changed
<1>2. LET flow == [changed EXCEPT !.pc = pc]
      IN  /\ flow \in FlowType /\ flow.pc = pc
          /\ flow.vector = Running.vector /\ flow.flags = Running.flags
          /\ flow.string = Running.string
  BY <1>1 DEF FlowType
<1> QED
  BY <1>2 DEF changed

(* so does one that goes on,                                               *)
LEMMA AdvancedFlow ==
    ASSUME TypeOK, NEW pc \in Places, NEW n \in Nat
    PROVE  LET flow == [Running EXCEPT !.rune = n, !.pc = pc]
           IN  /\ flow \in FlowType /\ flow.pc = pc
               /\ flow.vector = Running.vector /\ flow.flags = Running.flags
               /\ flow.string = Running.string
<1> DEFINE changed == [Running EXCEPT !.rune = n]
<1>1. /\ changed \in FlowType
      /\ changed.vector = Running.vector /\ changed.flags = Running.flags
      /\ changed.string = Running.string
  BY RunningFlow DEF FlowType
<1> HIDE DEF changed
<1>2. LET flow == [changed EXCEPT !.pc = pc]
      IN  /\ flow \in FlowType /\ flow.pc = pc
          /\ flow.vector = Running.vector /\ flow.flags = Running.flags
          /\ flow.string = Running.string
  BY <1>1 DEF FlowType
<1> QED
  BY <1>2 DEF changed

(* and one at the end of a string keeps vector and flags.                  *)
LEMMA EndedFlow ==
    ASSUME TypeOK, NEW pc \in Places, NEW n \in Nat
    PROVE  LET flow == [Running EXCEPT !.string = n, !.pc = pc]
           IN  /\ flow \in FlowType /\ flow.pc = pc
               /\ flow.vector = Running.vector /\ flow.flags = Running.flags
<1> DEFINE changed == [Running EXCEPT !.string = n]
<1>1. /\ changed \in FlowType
      /\ changed.vector = Running.vector /\ changed.flags = Running.flags
  BY RunningFlow DEF FlowType
<1> HIDE DEF changed
<1>2. LET flow == [changed EXCEPT !.pc = pc]
      IN  /\ flow \in FlowType /\ flow.pc = pc
          /\ flow.vector = Running.vector /\ flow.flags = Running.flags
  BY <1>1 DEF FlowType
<1> QED
  BY <1>2 DEF changed

-----------------------------------------------------------------------------
(* The steps of PutRune.                                                   *)
LEMMA PutRuneIndInv == IndInv /\ PutRune => IndInv'
<1> SUFFICES ASSUME IndInv, PutRune PROVE IndInv'
  OBVIOUS
<1> DEFINE Moved(pc) == [Running EXCEPT !.pc = pc, !.row = Unread, !.column = Unread,
                                        !.loaded = Unread]
           Loaded(pc, n)   == [Running EXCEPT !.loaded = n, !.pc = pc]
           Advanced(pc, n) == [Running EXCEPT !.rune = n, !.pc = pc]
           Ended(pc, n)    == [Running EXCEPT !.string = n, !.pc = pc]
<1>1. TypeOK /\ Running \in FlowType /\ Running.pc \in Places
  BY RunningFlow DEF IndInv, FlowType
<1>2. /\ cursorX \in Nat /\ cursorY \in Nat /\ drawn \in [row : Nat, column : Nat]
      /\ glyphPixelWidth \in Nat /\ glyphPixelHeight \in Nat
      /\ glyphColumnsInFrameBuffer \in Nat \ {0} /\ glyphRowsInFrameBuffer \in Nat \ {0}
  BY <1>1, ScreenSize DEF IndInv, TypeOK
<1>3. ASSUME NEW pc \in Places
      PROVE  /\ Moved(pc) \in FlowType /\ Moved(pc).pc = pc
             /\ Moved(pc).vector = Running.vector /\ Moved(pc).flags = Running.flags
             /\ Moved(pc).string = Running.string
  BY <1>1, MovedFlow
<1>4. ASSUME NEW pc, GoTo(pc) PROVE Continue(Moved(pc))
  BY <1>4 DEF GoTo
<1>3a. ASSUME NEW pc \in Places, NEW n \in Nat
       PROVE  /\ Loaded(pc, n) \in FlowType /\ Loaded(pc, n).pc = pc
              /\ Loaded(pc, n).vector = Running.vector /\ Loaded(pc, n).flags = Running.flags
              /\ Loaded(pc, n).string = Running.string
  BY <1>1, LoadedFlow
<1>3b. ASSUME NEW pc \in Places, NEW n \in Nat
       PROVE  /\ Advanced(pc, n) \in FlowType /\ Advanced(pc, n).pc = pc
              /\ Advanced(pc, n).vector = Running.vector
              /\ Advanced(pc, n).flags = Running.flags
              /\ Advanced(pc, n).string = Running.string
  BY <1>1, AdvancedFlow
<1>3c. ASSUME NEW pc \in Places, NEW n \in Nat
       PROVE  /\ Ended(pc, n) \in FlowType /\ Ended(pc, n).pc = pc
              /\ Ended(pc, n).vector = Running.vector /\ Ended(pc, n).flags = Running.flags
  BY <1>1, EndedFlow
<1>4a. /\ Running.rune + 1 \in Nat /\ Running.string + 1 \in Nat
       /\ EndOfString => Continue(Ended("nextString", Running.string + 1))
       /\ PutLineFeed => Continue(Advanced("loadLine", Running.rune + 1))
       /\ PutGlyph => Continue(Advanced("draw", Running.rune + 1))
       /\ LoadCursorX => Continue(Loaded("storeColumn", cursorX))
       /\ LoadCursorY => Continue(Loaded("storeLine", cursorY))
  BY <1>1 DEF FlowType, EndOfString, PutLineFeed, PutGlyph, LoadCursorX, LoadCursorY, Load
<1> HIDE DEF Moved, Loaded, Advanced, Ended
<1>5. CASE EndOfString
  <2> DEFINE flow == Ended("nextString", Running.string + 1)
  <2>1. /\ flow \in FlowType /\ flow.pc = "nextString"
        /\ flow.vector = Running.vector /\ flow.flags = Running.flags
    BY <1>4a, <1>3c DEF Places
  <2>2. Continue(flow) /\ UNCHANGED <<fb, console, runeBuffer, table, cpu>> /\ At("putRune")
    BY <1>5, <1>4a DEF EndOfString
  <2> HIDE DEF flow
  <2> QED
    BY <1>1, <1>2, <2>1, <2>2, StepIndInv
    DEF console, cpu, Printing, Wrapping, Scrolling, At
<1>6. CASE PutLineFeed
  <2> DEFINE flow == Advanced("loadLine", Running.rune + 1)
  <2>1. /\ flow \in FlowType /\ flow.pc = "loadLine" /\ flow.string = Running.string
        /\ flow.vector = Running.vector /\ flow.flags = Running.flags
    BY <1>4a, <1>3b DEF Places
  <2>2. Continue(flow) /\ UNCHANGED <<fb, console, runeBuffer, table, cpu>> /\ At("putRune")
    BY <1>6, <1>4a DEF PutLineFeed
  <2> HIDE DEF flow
  <2> QED
    BY <1>1, <1>2, <2>1, <2>2, StepIndInv
    DEF console, cpu, Printing, Wrapping, Scrolling, At
<1>7. CASE PutGlyph
  <2> DEFINE flow == Advanced("draw", Running.rune + 1)
  <2>1. /\ flow \in FlowType /\ flow.pc = "draw" /\ flow.string = Running.string
        /\ flow.vector = Running.vector /\ flow.flags = Running.flags
    BY <1>4a, <1>3b DEF Places
  <2>2. Continue(flow) /\ UNCHANGED <<fb, console, runeBuffer, table, cpu>> /\ At("putRune")
    BY <1>7, <1>4a DEF PutGlyph
  <2> HIDE DEF flow
  <2> QED
    BY <1>1, <1>2, <2>1, <2>2, StepIndInv
    DEF console, cpu, Printing, Wrapping, Scrolling, At
<1>8. CASE LoadRow
  <2> DEFINE flow == [Running EXCEPT !.row = cursorY * glyphPixelHeight]
  <2>0. cursorY * glyphPixelHeight \in Nat
    BY <1>2
  <2>1. /\ flow \in FlowType /\ flow.pc = Running.pc /\ flow.string = Running.string
        /\ flow.vector = Running.vector /\ flow.flags = Running.flags
    BY <1>1, <2>0 DEF FlowType
  <2>2. Continue(flow) /\ UNCHANGED <<fb, console, runeBuffer, table, cpu>> /\ At("draw")
    BY <1>8 DEF LoadRow
  <2> HIDE DEF flow
  <2> QED
    BY <1>1, <1>2, <2>1, <2>2, StepIndInv
    DEF console, cpu, Printing, Wrapping, Scrolling, At
<1>9. CASE LoadColumn
  <2> DEFINE flow == [Running EXCEPT !.column = cursorX * glyphPixelWidth]
  <2>0. cursorX * glyphPixelWidth \in Nat
    BY <1>2
  <2>1. /\ flow \in FlowType /\ flow.pc = Running.pc /\ flow.string = Running.string
        /\ flow.vector = Running.vector /\ flow.flags = Running.flags
    BY <1>1, <2>0 DEF FlowType
  <2>2. Continue(flow) /\ UNCHANGED <<fb, console, runeBuffer, table, cpu>> /\ At("draw")
    BY <1>9 DEF LoadColumn
  <2> HIDE DEF flow
  <2> QED
    BY <1>1, <1>2, <2>1, <2>2, StepIndInv
    DEF console, cpu, Printing, Wrapping, Scrolling, At
<1>10. CASE Draw
  <2> DEFINE flow == Moved("loadColumn")
  <2>1. Continue(flow) /\ At("draw") /\ UNCHANGED <<fb, cursorX, cursorY, runeBuffer, table, cpu>>
    BY <1>4, <1>10 DEF Draw
  <2>2. drawn' \in [row : Nat, column : Nat]
    BY <1>1, <1>2, <1>10 DEF Draw, FlowType
  <2>3. /\ flow \in FlowType /\ flow.pc = "loadColumn" /\ flow.string = Running.string
        /\ flow.vector = Running.vector /\ flow.flags = Running.flags
    BY <1>3 DEF Places
  <2> HIDE DEF flow
  <2> QED
    BY <1>1, <1>2, <2>1, <2>2, <2>3, StepIndInv
    DEF console, cpu, Printing, Wrapping, Scrolling, At
<1>11. CASE LoadCursorX
  <2> DEFINE flow == Loaded("storeColumn", cursorX)
  <2>1. Continue(flow) /\ UNCHANGED <<fb, console, runeBuffer, table, cpu>> /\ At("loadColumn")
    BY <1>11, <1>4a DEF LoadCursorX
  <2>2. /\ flow \in FlowType /\ flow.pc = "storeColumn" /\ flow.string = Running.string
        /\ flow.vector = Running.vector /\ flow.flags = Running.flags
    BY <1>2, <1>3a DEF Places
  <2> HIDE DEF flow
  <2> QED
    BY <1>1, <1>2, <2>1, <2>2, StepIndInv
    DEF console, cpu, Printing, Wrapping, Scrolling, At
<1>12. CASE StoreCursorX
  <2>1. PICK pc \in {AfterColumn(cursorX'), "compareColumn"} : GoTo(pc)
    BY <1>12 DEF StoreCursorX
  <2> DEFINE flow == Moved(pc)
  <2>2. Continue(flow) /\ At("storeColumn") /\ UNCHANGED <<fb, cursorY, drawn, runeBuffer, table, cpu>>
    BY <1>4, <1>12, <2>1 DEF StoreCursorX
  <2>3. /\ cursorX' \in Nat
        /\ pc \in {"compareColumn", "loadLine", "putRune"}
        /\ pc = "putRune" => cursorX' < glyphColumnsInFrameBuffer
    BY <1>1, <1>2, <1>12 DEF StoreCursorX, FlowType, Unread, AfterColumn
  <2>4. /\ flow \in FlowType /\ flow.pc = pc /\ flow.string = Running.string
        /\ flow.vector = Running.vector /\ flow.flags = Running.flags
    BY <1>3, <2>3 DEF Places
  <2> HIDE DEF flow
  <2> QED
    BY <1>1, <1>2, <2>2, <2>3, <2>4, StepIndInv
    DEF console, cpu, Printing, Wrapping, Scrolling, At
<1>12a. CASE CompareCursorX
  <2> DEFINE pc == AfterColumn(cursorX)
             flow == Moved(pc)
  <2>1. Continue(flow) /\ At("compareColumn") /\ UNCHANGED <<fb, console, runeBuffer, table, cpu>>
    BY <1>4, <1>12a DEF CompareCursorX
  <2>2. pc = "loadLine" \/ (pc = "putRune" /\ cursorX < glyphColumnsInFrameBuffer)
    BY <1>2 DEF AfterColumn
  <2>3. /\ flow \in FlowType /\ flow.pc = pc /\ flow.string = Running.string
        /\ flow.vector = Running.vector /\ flow.flags = Running.flags
    BY <1>3, <2>2 DEF Places
  <2> HIDE DEF flow, pc
  <2> QED
    BY <1>1, <1>2, <2>1, <2>2, <2>3, StepIndInv
    DEF console, cpu, Printing, Wrapping, Scrolling, At
<1>13. CASE LoadCursorY
  <2> DEFINE flow == Loaded("storeLine", cursorY)
  <2>1. Continue(flow) /\ UNCHANGED <<fb, console, runeBuffer, table, cpu>> /\ At("loadLine")
    BY <1>13, <1>4a DEF LoadCursorY
  <2>2. /\ flow \in FlowType /\ flow.pc = "storeLine" /\ flow.string = Running.string
        /\ flow.vector = Running.vector /\ flow.flags = Running.flags
    BY <1>2, <1>3a DEF Places
  <2> HIDE DEF flow
  <2> QED
    BY <1>1, <1>2, <2>1, <2>2, StepIndInv
    DEF console, cpu, Printing, Wrapping, Scrolling, At
<1>14. CASE StoreCursorY
  <2>1. PICK pc \in {AfterLine(cursorY'), "compareLine"} : GoTo(pc)
    BY <1>14 DEF StoreCursorY
  <2> DEFINE flow == Moved(pc)
  <2>2. Continue(flow) /\ At("storeLine") /\ UNCHANGED <<fb, cursorX, drawn, runeBuffer, table, cpu>>
    BY <1>4, <1>14, <2>1 DEF StoreCursorY
  <2>3. /\ cursorY' \in Nat
        /\ pc \in {"compareLine", "scroll", "resetColumn"}
        /\ pc = "resetColumn" => cursorY' < glyphRowsInFrameBuffer
    BY <1>1, <1>2, <1>14 DEF StoreCursorY, FlowType, Unread, AfterLine
  <2>4. /\ flow \in FlowType /\ flow.pc = pc /\ flow.string = Running.string
        /\ flow.vector = Running.vector /\ flow.flags = Running.flags
    BY <1>3, <2>3 DEF Places
  <2> HIDE DEF flow
  <2> QED
    BY <1>1, <1>2, <2>2, <2>3, <2>4, StepIndInv
    DEF console, cpu, Printing, Wrapping, Scrolling, At
<1>14a. CASE CompareCursorY
  <2> DEFINE pc == AfterLine(cursorY)
             flow == Moved(pc)
  <2>1. Continue(flow) /\ At("compareLine") /\ UNCHANGED <<fb, console, runeBuffer, table, cpu>>
    BY <1>4, <1>14a DEF CompareCursorY
  <2>2. pc = "scroll" \/ (pc = "resetColumn" /\ cursorY < glyphRowsInFrameBuffer)
    BY <1>2 DEF AfterLine
  <2>3. /\ flow \in FlowType /\ flow.pc = pc /\ flow.string = Running.string
        /\ flow.vector = Running.vector /\ flow.flags = Running.flags
    BY <1>3, <2>2 DEF Places
  <2> HIDE DEF flow, pc
  <2> QED
    BY <1>1, <1>2, <2>1, <2>2, <2>3, StepIndInv
    DEF console, cpu, Printing, Wrapping, Scrolling, At
<1>15. CASE Scroll
  <2> DEFINE flow == Moved("lastLine")
  <2>1. Continue(flow) /\ At("scroll") /\ UNCHANGED <<fb, console, runeBuffer, table, cpu>>
    BY <1>4, <1>15 DEF Scroll
  <2>3. /\ flow \in FlowType /\ flow.pc = "lastLine" /\ flow.string = Running.string
        /\ flow.vector = Running.vector /\ flow.flags = Running.flags
    BY <1>3 DEF Places
  <2> HIDE DEF flow
  <2> QED
    BY <1>1, <1>2, <2>1, <2>3, StepIndInv
    DEF console, cpu, Printing, Wrapping, Scrolling, At
<1>16. CASE StoreLastLine
  <2> DEFINE flow == Moved("resetColumn")
  <2>1. Continue(flow) /\ At("lastLine") /\ UNCHANGED <<fb, cursorX, drawn, runeBuffer, table, cpu>>
    BY <1>4, <1>16 DEF StoreLastLine
  <2>2. cursorY' \in Nat /\ cursorY' < glyphRowsInFrameBuffer
    BY <1>2, <1>16 DEF StoreLastLine
  <2>3. /\ flow \in FlowType /\ flow.pc = "resetColumn" /\ flow.string = Running.string
        /\ flow.vector = Running.vector /\ flow.flags = Running.flags
    BY <1>3 DEF Places
  <2> HIDE DEF flow
  <2> QED
    BY <1>1, <1>2, <2>1, <2>2, <2>3, StepIndInv
    DEF console, cpu, Printing, Wrapping, Scrolling, At
<1>17. CASE ResetCursorX
  <2> DEFINE flow == Moved("putRune")
  <2>1. Continue(flow) /\ At("resetColumn") /\ UNCHANGED <<fb, cursorY, drawn, runeBuffer, table, cpu>>
    BY <1>4, <1>17 DEF ResetCursorX
  <2>2. cursorX' \in Nat /\ cursorX' < glyphColumnsInFrameBuffer
    BY <1>2, <1>17 DEF ResetCursorX
  <2>3. /\ flow \in FlowType /\ flow.pc = "putRune" /\ flow.string = Running.string
        /\ flow.vector = Running.vector /\ flow.flags = Running.flags
    BY <1>3 DEF Places
  <2> HIDE DEF flow
  <2> QED
    BY <1>1, <1>2, <2>1, <2>2, <2>3, StepIndInv
    DEF console, cpu, Printing, Wrapping, Scrolling, At
<1> QED
  BY <1>5, <1>6, <1>7, <1>8, <1>9, <1>10, <1>11, <1>12, <1>12a, <1>13, <1>14, <1>14a,
     <1>15, <1>16, <1>17
  DEF PutRune

-----------------------------------------------------------------------------
(* Before the table is active.                                             *)
LEMMA PreparationIndInv ==
    IndInv /\ (SetOutputter \/ PopulateDescriptor \/ ActivateTable) => IndInv'
<1> SUFFICES ASSUME IndInv, SetOutputter \/ PopulateDescriptor \/ ActivateTable
             PROVE  IndInv'
  OBVIOUS
<1> DEFINE Moved(pc) == [Running EXCEPT !.pc = pc, !.row = Unread, !.column = Unread,
                                        !.loaded = Unread]
<1>1. TypeOK /\ Running \in FlowType /\ top \in Nat \ {0} /\ Running = flows[top]
  BY RunningFlow DEF IndInv
<1>2. ASSUME NEW pc \in Places
      PROVE  /\ Moved(pc) \in FlowType /\ Moved(pc).pc = pc
             /\ Moved(pc).vector = Running.vector /\ Moved(pc).flags = Running.flags
             /\ Moved(pc).string = Running.string
  BY <1>1, MovedFlow
<1>3. ASSUME NEW pc, GoTo(pc) PROVE Continue(Moved(pc))
  BY <1>3 DEF GoTo
<1> HIDE DEF Moved
<1>4. ASSUME UNCHANGED fb PROVE RoomForGlyph'
  BY <1>4 DEF IndInv, RoomForGlyph, glyphPixelWidth, glyphPixelHeight
<1>5. CASE SetOutputter
  <2> DEFINE flow == Moved("populate")
  <2>1. /\ Continue(flow) /\ At("setOutputter") /\ outputter' = TRUE
        /\ UNCHANGED <<fb, console, runeBuffer, descriptors, active, cpu>>
    BY <1>3, <1>5 DEF SetOutputter
  <2>2. /\ flow \in FlowType /\ flow.pc = "populate" /\ flow.string = Running.string
        /\ flow.vector = Running.vector /\ flow.flags = Running.flags
    BY <1>2 DEF Places
  <2> HIDE DEF flow
  <2>3. TypeOK'
    BY <2>1, <2>2, Continues DEF IndInv, TypeOK, console, cpu
  <2>4. Stacked' /\ NestingBounded'
    BY <2>1, <2>2, ContinuesStacked DEF IndInv
  <2>5. Prepared' /\ RoutinesPrepared'
    BY <2>1 DEF IndInv, Prepared, RoutinesPrepared
  <2>6. CursorSettles'
    BY <2>1, <2>2, ContinuesCursor DEF IndInv, console, At, Wrapping, Scrolling
  <2>7. OwnNumberShown'
    BY <2>1, <2>2, ContinuesNumber DEF IndInv, At, Printing
  <2> QED
    BY <1>4, <2>1, <2>3, <2>4, <2>5, <2>6, <2>7 DEF IndInv
<1>6. CASE PopulateDescriptor
  <2>1. /\ UNCHANGED <<fb, console, runeBuffer, outputter, active, cpu, flows>>
        /\ descriptors \subseteq descriptors' /\ descriptors' \subseteq Vectors
    BY <1>1, <1>6 DEF PopulateDescriptor, TypeOK
  <2>2. top' = top /\ Running' = Running
    BY <2>1 DEF top, Running
  <2>3. TypeOK'
    BY <2>1 DEF IndInv, TypeOK, console, cpu
  <2>4. Stacked' /\ NestingBounded'
    BY <2>1, <2>2 DEF IndInv, Stacked, NestingBounded, cpu
  <2>5. Prepared' /\ RoutinesPrepared'
    BY <2>1, <2>2 DEF IndInv, Prepared, RoutinesPrepared
  <2>6. CursorSettles'
    BY <2>1, <2>2 DEF IndInv, CursorSettles, console, Wrapping, Scrolling,
                      glyphColumnsInFrameBuffer, glyphRowsInFrameBuffer,
                      glyphPixelWidth, glyphPixelHeight
  <2>7. OwnNumberShown'
    BY <2>1, <2>2 DEF IndInv, OwnNumberShown, Printing
  <2> QED
    BY <1>4, <2>1, <2>3, <2>4, <2>5, <2>6, <2>7 DEF IndInv
<1>7. CASE ActivateTable
  <2> DEFINE flow == Moved("nextString")
  <2>1. /\ Continue(flow) /\ At("populate") /\ AllPopulated /\ active' = TRUE
        /\ UNCHANGED <<fb, console, runeBuffer, outputter, descriptors, cpu>>
    BY <1>3, <1>7 DEF ActivateTable
  <2>2. /\ flow \in FlowType /\ flow.pc = "nextString" /\ flow.string = Running.string
        /\ flow.vector = Running.vector /\ flow.flags = Running.flags
    BY <1>2 DEF Places
  <2> HIDE DEF flow
  <2>3. TypeOK'
    BY <2>1, <2>2, Continues DEF IndInv, TypeOK, console, cpu
  <2>4. Stacked' /\ NestingBounded'
    BY <2>1, <2>2, ContinuesStacked DEF IndInv
  <2>5. outputter
    BY <1>1, <2>1 DEF IndInv, Prepared, At
  <2>6. Prepared' /\ RoutinesPrepared'
    BY <2>1, <2>5 DEF Prepared, RoutinesPrepared, AllPopulated
  <2>7. CursorSettles'
    BY <2>1, <2>2, ContinuesCursor DEF IndInv, console, At, Wrapping, Scrolling
  <2>8. OwnNumberShown'
    BY <2>1, <2>2, ContinuesNumber DEF IndInv, Printing
  <2> QED
    BY <1>4, <2>1, <2>3, <2>4, <2>6, <2>7, <2>8 DEF IndInv
<1> QED
  BY <1>5, <1>6, <1>7

(***************************************************************************)
(* A routine that writes its number is that of a device.  Only the main    *)
(* flow is below it, so no other number is being printed.                  *)
(***************************************************************************)
LEMMA NextStringIndInv == IndInv /\ NextString => IndInv'
<1> SUFFICES ASSUME IndInv, NextString PROVE IndInv'
  OBVIOUS
<1> DEFINE Advanced(pc, n) == [Running EXCEPT !.rune = n, !.pc = pc]
           flow == Advanced("putRune", 1)
           v    == Running.vector
<1>1. TypeOK /\ Running \in FlowType /\ top \in Nat \ {0} /\ Running = flows[top]
  BY RunningFlow DEF IndInv
<1>2. /\ flow \in FlowType /\ flow.pc = "putRune" /\ flow.string = Running.string
      /\ flow.vector = v /\ flow.flags = Running.flags
  <2>1. ASSUME NEW pc \in Places, NEW n \in Nat
        PROVE  /\ Advanced(pc, n) \in FlowType /\ Advanced(pc, n).pc = pc
               /\ Advanced(pc, n).vector = Running.vector
               /\ Advanced(pc, n).flags = Running.flags
               /\ Advanced(pc, n).string = Running.string
    BY <1>1, AdvancedFlow
  <2> HIDE DEF Advanced
  <2> QED
    BY <2>1 DEF Places
<1>3. Continue(flow) /\ At("nextString") /\ UNCHANGED <<fb, console, table, cpu>>
  BY DEF NextString
<1>4. runeBuffer' = IF v # Main /\ v >= 32 /\ Running.string = 2
                    THEN DecimalText(WordOf(v))
                    ELSE runeBuffer
  BY DEF NextString
<1> HIDE DEF flow, v, Advanced
<1>5. TypeOK'
  BY <1>2, <1>3, Continues DEF IndInv, TypeOK, console, table, cpu
<1>6. Stacked' /\ NestingBounded'
  BY <1>2, <1>3, ContinuesStacked DEF IndInv, v
<1>7. Prepared' /\ RoutinesPrepared'
  BY <1>2, <1>3, ContinuesPrepared DEF IndInv, RoutinesPrepared, table
<1>8. RoomForGlyph'
  BY <1>3 DEF IndInv, RoomForGlyph, glyphPixelWidth, glyphPixelHeight
<1>9. CursorSettles'
  BY <1>2, <1>3, ContinuesCursor DEF IndInv, console, At, Wrapping, Scrolling
<1>10. OwnNumberShown'
  <2>1. CASE v # Main /\ v >= 32 /\ Running.string = 2
    <3>1. top # 1
      BY <1>1, <2>1 DEF IndInv, Stacked, v
    <3>2. ~(top >= 3)
      BY <1>1, <2>1 DEF IndInv, Stacked, NMI, v
    <3>3. top = 2 /\ flows'[1] = flows[1] /\ flows'[2] = flow /\ top' = 2
      BY <1>1, <1>2, <1>3, <3>1, <3>2, Continues DEF IndInv
    <3>4. flows'[1].vector = Main
      BY <3>3 DEF IndInv, Stacked
    <3>5. runeBuffer' = DecimalText(WordOf(flows'[2].vector))
      BY <1>2, <1>4, <2>1, <3>3
    <3> QED
      BY <3>3, <3>4, <3>5 DEF OwnNumberShown, Printing
  <2>2. CASE ~(v # Main /\ v >= 32 /\ Running.string = 2)
    <3>1. UNCHANGED runeBuffer /\ ~Printing(flow)
      BY <1>2, <1>4, <2>2 DEF Printing
    <3> QED
      BY <1>1, <1>2, <1>3, <3>1, ContinuesNumber DEF IndInv
  <2> QED
    BY <2>1, <2>2
<1> QED
  BY <1>5, <1>6, <1>7, <1>8, <1>9, <1>10 DEF IndInv

-----------------------------------------------------------------------------
(* A step that changes nothing keeps the invariant.                        *)
LEMMA StutterIndInv == IndInv /\ UNCHANGED vars => IndInv'
<1> SUFFICES ASSUME IndInv, UNCHANGED vars PROVE IndInv'
  OBVIOUS
<1>1. top' = top /\ Running' = Running
  BY DEF top, Running, vars
<1>2. TypeOK' /\ Stacked' /\ NestingBounded'
  BY <1>1 DEF IndInv, vars, console, table, cpu, TypeOK, Stacked, NestingBounded
<1>3. Prepared' /\ RoutinesPrepared' /\ RoomForGlyph'
  BY <1>1 DEF IndInv, vars, table, Prepared, RoutinesPrepared, RoomForGlyph,
              glyphPixelWidth, glyphPixelHeight
<1>4. CursorSettles' /\ OwnNumberShown'
  BY <1>1 DEF IndInv, vars, console, CursorSettles, OwnNumberShown, Wrapping, Scrolling,
              Printing, glyphColumnsInFrameBuffer, glyphRowsInFrameBuffer,
              glyphPixelWidth, glyphPixelHeight
<1> QED
  BY <1>2, <1>3, <1>4 DEF IndInv

(* So does the halt.                                                       *)
LEMMA HaltIndInv == IndInv /\ (Halt \/ HaltAgain) => IndInv'
<1> SUFFICES ASSUME IndInv, Halt \/ HaltAgain PROVE IndInv'
  OBVIOUS
<1> DEFINE Moved(pc) == [Running EXCEPT !.pc = pc, !.row = Unread, !.column = Unread,
                                        !.loaded = Unread]
           flow == Moved("halted")
<1>1. CASE Halt
  <2>1. TypeOK /\ cursorX \in Nat /\ cursorY \in Nat /\ drawn \in [row : Nat, column : Nat]
    BY DEF IndInv, TypeOK
  <2>2. ASSUME NEW pc \in Places
        PROVE  /\ Moved(pc) \in FlowType /\ Moved(pc).pc = pc
               /\ Moved(pc).vector = Running.vector /\ Moved(pc).flags = Running.flags
               /\ Moved(pc).string = Running.string
    BY <2>1, MovedFlow
  <2>3. /\ Continue(flow) /\ At("nextString") /\ Running.vector = Main
        /\ UNCHANGED <<fb, console, runeBuffer, table, cpu>>
    BY <1>1 DEF Halt, GoTo
  <2> HIDE DEF Moved
  <2>4. /\ flow \in FlowType /\ flow.pc = "halted" /\ flow.string = Running.string
        /\ flow.vector = Running.vector /\ flow.flags = Running.flags
    BY <2>2 DEF Places
  <2> HIDE DEF flow
  <2> QED
    BY <2>1, <2>3, <2>4, StepIndInv DEF console, cpu, Printing, Wrapping, Scrolling, At
<1>2. CASE HaltAgain
  <2>1. UNCHANGED vars
    BY <1>2 DEF HaltAgain
  <2> QED
    BY <2>1, StutterIndInv
<1> QED
  BY <1>1, <1>2

(* A sequence without its last element.                                    *)
LEMMA FrontOfSeq ==
    ASSUME NEW S, NEW s \in Seq(S), Len(s) > 1
    PROVE  LET front == SubSeq(s, 1, Len(s) - 1)
           IN  /\ front \in Seq(S) /\ front # <<>> /\ Len(front) = Len(s) - 1
               /\ \A i \in 1 .. Len(s) - 1 : front[i] = s[i]
<1> DEFINE n == Len(s) - 1
           front == SubSeq(s, 1, n)
<1>1. n \in Nat \ {0} /\ \A i \in 1 .. n : s[i] \in S
  OBVIOUS
<1> HIDE DEF n
<1>2. /\ front \in Seq(S) /\ Len(front) = n
      /\ \A i \in 1 .. n : front[i] = s[1 + i - 1]
  BY <1>1, SubSeqProperties
<1>3. \A i \in 1 .. n : front[i] = s[i]
  BY <1>1, <1>2
<1>4. front # <<>>
  BY <1>1, <1>2
<1> QED
  BY <1>2, <1>3, <1>4 DEF n

(* The stack without its last flow.                                        *)
LEMMA ReturnIndInv == IndInv /\ ReturnFromInterrupt => IndInv'
<1> SUFFICES ASSUME IndInv, ReturnFromInterrupt PROVE IndInv'
  OBVIOUS
<1>1. TypeOK /\ Running \in FlowType /\ top \in Nat \ {0} /\ Running = flows[top]
  BY RunningFlow DEF IndInv
<1>2. top > 1
  BY <1>1 DEF ReturnFromInterrupt, IndInv, Stacked
<1>3. /\ flows' \in Seq(FlowType) /\ flows' # <<>> /\ top' = top - 1
      /\ \A i \in 1 .. top' : flows'[i] = flows[i]
  <2>1. flows' = SubSeq(flows, 1, top - 1) /\ flows \in Seq(FlowType) /\ top = Len(flows)
    BY <1>1 DEF ReturnFromInterrupt, TypeOK, top
  <2>2. /\ flows' \in Seq(FlowType) /\ flows' # <<>> /\ Len(flows') = top - 1
        /\ \A i \in 1 .. top - 1 : flows'[i] = flows[i]
    BY <1>2, <2>1, FrontOfSeq
  <2> QED
    BY <2>2 DEF top
<1>4. Running' = flows[top - 1]
  BY <1>1, <1>2, <1>3 DEF Running
<1>5. /\ enabled' = Running.flags /\ nmiBlocked' = FALSE /\ At("nextString")
      /\ UNCHANGED <<fb, console, runeBuffer, table, taken>>
  BY DEF ReturnFromInterrupt
<1>6. TypeOK'
  BY <1>1, <1>3, <1>5 DEF TypeOK, FlowType, console, table
<1>7. Stacked' /\ NestingBounded'
  <2>1. nmiBlocked' <=> Running'.vector = NMI
    BY <1>1, <1>2, <1>4, <1>5 DEF IndInv, Stacked
  <2>2. top' > 1 => ~enabled'
    BY <1>1, <1>3, <1>5 DEF IndInv, Stacked
  <2> QED
    BY <1>1, <1>2, <1>3, <2>1, <2>2 DEF IndInv, Stacked, NestingBounded
<1>8. Prepared' /\ RoutinesPrepared' /\ RoomForGlyph'
  BY <1>1, <1>2, <1>3, <1>5
  DEF IndInv, Prepared, RoutinesPrepared, RoomForGlyph, table, glyphPixelWidth, glyphPixelHeight
<1>9. CursorSettles'
  <2>1. ~Wrapping(Running) /\ ~Scrolling(Running)
    BY <1>5 DEF At, Wrapping, Scrolling
  <2> QED
    BY <1>1, <1>2, <1>3, <1>5, <2>1
    DEF IndInv, CursorSettles, Wrapping, Scrolling, console, glyphColumnsInFrameBuffer,
        glyphRowsInFrameBuffer, glyphPixelWidth, glyphPixelHeight
<1>10. OwnNumberShown'
  BY <1>1, <1>2, <1>3, <1>5 DEF IndInv, OwnNumberShown, Printing
<1> QED
  BY <1>6, <1>7, <1>8, <1>9, <1>10 DEF IndInv

(***************************************************************************)
(* The stack with a routine on it.  The gates let a device interrupt only  *)
(* the main flow, and the CPU lets an NMI interrupt all but an NMI.        *)
(***************************************************************************)
LEMMA InterruptIndInv ==
    ASSUME IndInv, NEW v \in Vectors, Interrupt(v)
    PROVE  IndInv'
<1> DEFINE flow == Flow(v, "nextString", enabled)
<1>1. TypeOK /\ Running \in FlowType /\ top \in Nat \ {0} /\ Running = flows[top]
  BY RunningFlow DEF IndInv
<1>2. /\ flow \in FlowType /\ flow.vector = v /\ flow.pc = "nextString"
      /\ flow.string = 1 /\ flow.flags = enabled
  BY <1>1 DEF Flow, FlowType, Places, Unread, TypeOK
<1>3. taken' = taken + 1 /\ UNCHANGED <<fb, console, runeBuffer, table>>
  BY DEF Interrupt
<1>3a. /\ v = NMI => ~nmiBlocked /\ nmiBlocked'
       /\ v # NMI => enabled /\ nmiBlocked' = nmiBlocked
       /\ ~enabled' /\ enabled' \in BOOLEAN /\ nmiBlocked' \in BOOLEAN
  BY <1>1, Zenon DEF Interrupt, isTrapGate, InterruptGates, TypeOK
<1> HIDE DEF flow
<1>4. /\ flows' \in Seq(FlowType) /\ flows' # <<>> /\ top' = top + 1
      /\ flows'[top + 1] = flow
      /\ \A i \in 1 .. top : flows'[i] = flows[i]
  <2>1. flows' = Append(flows, flow)
    BY DEF Interrupt, flow
  <2> QED
    BY <1>1, <1>2, <2>1 DEF TypeOK, top
<1>5. Running' = flow
  BY <1>4 DEF Running
<1>6. TypeOK'
  BY <1>1, <1>3, <1>3a, <1>4 DEF TypeOK, console, table
<1>7. v # Main /\ NMI # Main
  BY VectorsAssumption DEF NMI
<1>8. ASSUME v = NMI PROVE Stacked' /\ NestingBounded'
  <2>1. ~nmiBlocked /\ Running.vector # NMI /\ nmiBlocked'
    BY <1>3a, <1>8 DEF IndInv, Stacked
  <2>2. top <= 2
    BY <1>1, <2>1 DEF IndInv, Stacked, NestingBounded
  <2>3. \A i \in 1 .. top : flows[i].vector # NMI
    BY <1>1, <2>1 DEF IndInv, Stacked
  <2>4. top = 2 => ~enabled
    BY DEF IndInv, Stacked
  <2> QED
    BY <1>1, <1>2, <1>3a, <1>4, <1>5, <1>7, <1>8, <2>1, <2>2, <2>3, <2>4
    DEF IndInv, Stacked, NestingBounded
<1>9. ASSUME v # NMI PROVE Stacked' /\ NestingBounded'
  <2>1. top = 1 /\ flows[1].vector = Main
    BY <1>1, <1>3a, <1>9 DEF IndInv, Stacked
  <2>2. nmiBlocked' = FALSE
    BY <1>1, <1>3a, <1>7, <1>9, <2>1 DEF IndInv, Stacked, TypeOK
  <2> QED
    BY <1>1, <1>2, <1>3a, <1>4, <1>5, <1>7, <1>9, <2>1, <2>2
    DEF IndInv, Stacked, NestingBounded
<1>10. Prepared' /\ RoutinesPrepared' /\ RoomForGlyph'
  BY <1>1, <1>2, <1>3, <1>4
  DEF IndInv, Prepared, RoutinesPrepared, RoomForGlyph, table, glyphPixelWidth, glyphPixelHeight
<1>11. CursorSettles'
  BY <1>1, <1>3, <1>4
  DEF IndInv, CursorSettles, Wrapping, Scrolling, console, glyphColumnsInFrameBuffer,
      glyphRowsInFrameBuffer, glyphPixelWidth, glyphPixelHeight
<1>12. OwnNumberShown'
  BY <1>1, <1>2, <1>3, <1>4 DEF IndInv, OwnNumberShown, Printing
<1> QED
  BY <1>6, <1>8, <1>9, <1>10, <1>11, <1>12 DEF IndInv

-----------------------------------------------------------------------------
(* Every step keeps the invariant.                                         *)
LEMMA NextIndInv == IndInv /\ [Next]_vars => IndInv'
<1> SUFFICES ASSUME IndInv, [Next]_vars PROVE IndInv'
  OBVIOUS
<1>1. CASE SetOutputter \/ PopulateDescriptor \/ ActivateTable
  BY <1>1, PreparationIndInv
<1>2. CASE NextString
  BY <1>2, NextStringIndInv
<1>3. CASE PutRune
  BY <1>3, PutRuneIndInv
<1>4. CASE Halt \/ HaltAgain
  BY <1>4, HaltIndInv
<1>5. CASE ReturnFromInterrupt
  BY <1>5, ReturnIndInv
<1>6. ASSUME NEW v \in Vectors, Interrupt(v) PROVE IndInv'
  BY <1>6, InterruptIndInv
<1>7. CASE UNCHANGED vars
  BY <1>7, StutterIndInv
<1> QED
  BY <1>1, <1>2, <1>3, <1>4, <1>5, <1>6, <1>7 DEF Next, FlowStep

(* The inductive invariant holds, however many interrupts come.            *)
THEOREM Invariance == Spec => []IndInv
<1> QED
  BY InitIndInv, NextIndInv, PTL DEF Spec

(* Every variable of the console keeps its type.                           *)
THEOREM TypeCorrect == Spec => []TypeOK
<1>1. IndInv => TypeOK
  BY DEF IndInv
<1> QED
  BY <1>1, Invariance, PTL

(***************************************************************************)
(* The cursor comes back to the screen, wherever interrupts split the      *)
(* steps that move it (TextTerminal.c:9-17, 28-35).                        *)
(***************************************************************************)
THEOREM CursorRecovers == Spec => []CursorSettles
<1>1. IndInv => CursorSettles
  BY DEF IndInv
<1> QED
  BY <1>1, Invariance, PTL

(* The static buffer is never overwritten while a routine prints from it   *)
(* (Interrupts.c:88-101).                                                  *)
THEOREM NumbersKept == Spec => []OwnNumberShown
<1>1. IndInv => OwnNumberShown
  BY DEF IndInv
<1> QED
  BY <1>1, Invariance, PTL

(* At most two routines are on the kernel's stack (kernel.c:12).           *)
THEOREM StackBounded == Spec => []NestingBounded
<1>1. IndInv => NestingBounded
  BY DEF IndInv
<1> QED
  BY <1>1, Invariance, PTL

(* The table is active only when every routine can run (kernel.c:94-96).   *)
THEOREM TableComplete == Spec => []RoutinesPrepared
<1>1. IndInv => RoutinesPrepared
  BY DEF IndInv
<1> QED
  BY <1>1, Invariance, PTL

-----------------------------------------------------------------------------
(***************************************************************************)
(* What a flow that goes on has read, in each of the ways it may go on.    *)
(***************************************************************************)
LEMMA MovedFields ==
    ASSUME NEW r \in FlowType, NEW pc \in Places
    PROVE  LET flow == [r EXCEPT !.pc = pc, !.row = Unread, !.column = Unread,
                                 !.loaded = Unread]
           IN  flow.row = Unread /\ flow.column = Unread
BY DEF FlowType, Unread

(* The fields of a flow that a load leaves.                                *)
LEMMA LoadedFields ==
    ASSUME NEW r \in FlowType, NEW pc \in Places, NEW n \in Nat
    PROVE  LET flow == [r EXCEPT !.loaded = n, !.pc = pc]
           IN  flow.row = r.row /\ flow.column = r.column /\ flow.loaded = n
BY DEF FlowType, Unread

(* Those of a flow that goes on,                                           *)
LEMMA AdvancedFields ==
    ASSUME NEW r \in FlowType, NEW pc \in Places, NEW n \in Nat
    PROVE  LET flow == [r EXCEPT !.rune = n, !.pc = pc]
           IN  flow.row = r.row /\ flow.column = r.column
BY DEF FlowType, Unread

(* and of one at the end of a string.                                      *)
LEMMA EndedFields ==
    ASSUME NEW r \in FlowType, NEW pc \in Places, NEW n \in Nat
    PROVE  LET flow == [r EXCEPT !.string = n, !.pc = pc]
           IN  flow.row = r.row /\ flow.column = r.column
BY DEF FlowType, Unread

(* The fields of a flow that read the row.                                 *)
LEMMA RowFields ==
    ASSUME NEW r \in FlowType, NEW n \in Nat
    PROVE  LET flow == [r EXCEPT !.row = n]
           IN  /\ flow \in FlowType /\ flow.pc = r.pc
               /\ flow.row = n /\ flow.column = r.column
BY DEF FlowType, Unread

(* The fields of a flow that read the column.                              *)
LEMMA ColumnFields ==
    ASSUME NEW r \in FlowType, NEW n \in Nat
    PROVE  LET flow == [r EXCEPT !.column = n]
           IN  /\ flow \in FlowType /\ flow.pc = r.pc
               /\ flow.row = r.row /\ flow.column = n
BY DEF FlowType, Unread

(* The places of a line, and one more, are a glyph more than its pixels.   *)
LEMMA PlacesFit ==
    ASSUME NEW pixels \in Nat, NEW glyph \in Nat \ {0}
    PROVE  (pixels \div glyph + 1) * glyph <= pixels + glyph
<1> DEFINE q == pixels \div glyph
<1>1. q \in Nat /\ q * glyph <= pixels
  BY SMTT(30)
<1> HIDE DEF q
<1>2. (q + 1) * glyph <= pixels + glyph
  BY <1>1, SMTT(30)
<1> QED
  BY <1>2 DEF q

(***************************************************************************)
(* What is read of a cursor two places off the screen at most is refused,  *)
(* unless it is on the screen: the guard's sums do not wrap.               *)
(***************************************************************************)
LEMMA AcceptedInFrame ==
    ASSUME TypeOK, RoomForGlyph, SumsFit, NEW row \in Nat, NEW column \in Nat,
           row <= (glyphRowsInFrameBuffer + 1) * glyphPixelHeight,
           column <= (glyphColumnsInFrameBuffer + 1) * glyphPixelWidth,
           ~BitmapRefused(fb, row, column,
                [PixelsPerRow |-> glyphPixelWidth, NumberOfRows |-> glyphPixelHeight])
    PROVE  /\ row + glyphPixelHeight <= fb.VerticalPixels
           /\ column + glyphPixelWidth <= fb.HorizontalPixels
<1> DEFINE H == fb.HorizontalPixels
           V == fb.VerticalPixels
           w == glyphPixelWidth
           h == glyphPixelHeight
<1>1. H \in Nat /\ V \in Nat /\ w \in Nat \ {0} /\ h \in Nat \ {0}
  BY ScreenSize DEF TypeOK
<1>2. /\ (glyphRowsInFrameBuffer + 1) * h <= V + h
      /\ (glyphColumnsInFrameBuffer + 1) * w <= H + w
  <2>1. (V \div h + 1) * h <= V + h
    BY <1>1, PlacesFit
  <2>2. (H \div w + 1) * w <= H + w
    BY <1>1, PlacesFit
  <2> QED
    BY <2>1, <2>2 DEF glyphRowsInFrameBuffer, glyphColumnsInFrameBuffer
<1>3. row + h < RangeUnsigned /\ column + w < RangeUnsigned
  <2>1. V + 2 * h < RangeUnsigned /\ H + 2 * w < RangeUnsigned
    BY DEF SumsFit
  <2>2. /\ (glyphRowsInFrameBuffer + 1) * h \in Nat
        /\ (glyphColumnsInFrameBuffer + 1) * w \in Nat
    BY <1>1, ScreenSize
  <2> DEFINE rows == (glyphRowsInFrameBuffer + 1) * h
             columns == (glyphColumnsInFrameBuffer + 1) * w
  <2>3. row <= rows /\ rows <= V + h /\ rows \in Nat
    BY <1>2, <2>2
  <2>4. column <= columns /\ columns <= H + w /\ columns \in Nat
    BY <1>2, <2>2
  <2> HIDE DEF rows, columns, H, V, w, h
  <2> QED
    BY <1>1, <2>1, <2>3, <2>4, WidthAssumption
<1>4. Unsigned(row + h) = row + h /\ Unsigned(column + w) = column + w
  <2>1. row + h \in Nat /\ column + w \in Nat
    BY <1>1
  <2> QED
    BY <1>3, <2>1, InRange
<1>5. ~(Unsigned(row + h) > V) /\ ~(Unsigned(column + w) > H)
  BY DEF BitmapRefused
<1> HIDE DEF h, w, H, V
<1>6. row + h <= V /\ column + w <= H
  BY <1>1, <1>4, <1>5
<1> QED
  BY <1>6 DEF h, w, H, V

(* Before it corrects the cursor, a flow finds it as far off as the flows  *)
(* below it left it.                                                       *)
LEMMA FoundNearby ==
    ASSUME TypeOK, RoomForGlyph, CursorNearby
    PROVE  /\ ~Wrapping(Running)  => cursorX < glyphColumnsInFrameBuffer + (top - 1)
           /\ ~Scrolling(Running) => cursorY < glyphRowsInFrameBuffer + (top - 1)
<1>1. /\ top \in Nat \ {0} /\ Running = flows[top]
      /\ cursorX \in Nat /\ cursorY \in Nat
      /\ glyphColumnsInFrameBuffer \in Nat /\ glyphRowsInFrameBuffer \in Nat
  BY RunningFlow, ScreenSize DEF TypeOK
<1>2. ASSUME ~Wrapping(Running)
      PROVE  cursorX < glyphColumnsInFrameBuffer + (top - 1)
  <2>1. PICK i \in 0 .. top :
            (i # 0 => Wrapping(flows[i])) /\ cursorX < glyphColumnsInFrameBuffer + i
    BY DEF CursorNearby, Astray
  <2> QED
    BY <1>1, <1>2, <2>1
<1>3. ASSUME ~Scrolling(Running)
      PROVE  cursorY < glyphRowsInFrameBuffer + (top - 1)
  <2>1. PICK i \in 0 .. top :
            (i # 0 => Scrolling(flows[i])) /\ cursorY < glyphRowsInFrameBuffer + i
    BY DEF CursorNearby, Astray
  <2> QED
    BY <1>1, <1>3, <2>1
<1> QED
  BY <1>2, <1>3

(* A flow leaves the cursor on the screen, or is on its way to correct it. *)
LEMMA ContinuesNearby ==
    ASSUME TypeOK, RoomForGlyph, CursorNearby, NEW flow \in FlowType, Continue(flow),
           ReadNearby(flow, top),
           UNCHANGED fb,
           \/ UNCHANGED cursorX /\ (Wrapping(Running) => Wrapping(flow))
           \/ cursorX' < glyphColumnsInFrameBuffer
           \/ Wrapping(flow) /\ cursorX' < glyphColumnsInFrameBuffer + top,
           \/ UNCHANGED cursorY /\ (Scrolling(Running) => Scrolling(flow))
           \/ cursorY' < glyphRowsInFrameBuffer
           \/ Scrolling(flow) /\ cursorY' < glyphRowsInFrameBuffer + top,
           \/ UNCHANGED drawn
           \/ /\ drawn'.row + glyphPixelHeight <= fb.VerticalPixels
              /\ drawn'.column + glyphPixelWidth <= fb.HorizontalPixels
    PROVE  CursorNearby'
<1>1. /\ top' = top /\ top \in Nat \ {0} /\ Running = flows[top]
      /\ flows'[top] = flow
      /\ \A i \in 1 .. top - 1 : flows'[i] = flows[i]
  BY RunningFlow, Continues
<1>2. /\ glyphPixelWidth' = glyphPixelWidth /\ glyphPixelHeight' = glyphPixelHeight
      /\ glyphColumnsInFrameBuffer' = glyphColumnsInFrameBuffer
      /\ glyphRowsInFrameBuffer' = glyphRowsInFrameBuffer
      /\ glyphColumnsInFrameBuffer \in Nat /\ glyphRowsInFrameBuffer \in Nat
  BY ScreenSize
  DEF glyphColumnsInFrameBuffer, glyphRowsInFrameBuffer, glyphPixelWidth, glyphPixelHeight
<1>3. \E i \in 0 .. top : /\ i # 0 => Wrapping(flows'[i])
                          /\ cursorX' < glyphColumnsInFrameBuffer + i
  <2>1. CASE UNCHANGED cursorX /\ (Wrapping(Running) => Wrapping(flow))
    <3>1. PICK i \in 0 .. top :
              (i # 0 => Wrapping(flows[i])) /\ cursorX < glyphColumnsInFrameBuffer + i
      BY DEF CursorNearby, Astray
    <3>2. i # 0 => Wrapping(flows'[i])
      BY <1>1, <2>1, <3>1
    <3> QED
      BY <2>1, <3>1, <3>2
  <2>2. CASE cursorX' < glyphColumnsInFrameBuffer
    BY <1>1, <1>2, <2>2
  <2>3. CASE Wrapping(flow) /\ cursorX' < glyphColumnsInFrameBuffer + top
    BY <1>1, <2>3
  <2> QED
    BY <2>1, <2>2, <2>3
<1>4. \E i \in 0 .. top : /\ i # 0 => Scrolling(flows'[i])
                          /\ cursorY' < glyphRowsInFrameBuffer + i
  <2>1. CASE UNCHANGED cursorY /\ (Scrolling(Running) => Scrolling(flow))
    <3>1. PICK i \in 0 .. top :
              (i # 0 => Scrolling(flows[i])) /\ cursorY < glyphRowsInFrameBuffer + i
      BY DEF CursorNearby, Astray
    <3>2. i # 0 => Scrolling(flows'[i])
      BY <1>1, <2>1, <3>1
    <3> QED
      BY <2>1, <3>1, <3>2
  <2>2. CASE cursorY' < glyphRowsInFrameBuffer
    BY <1>1, <1>2, <2>2
  <2>3. CASE Scrolling(flow) /\ cursorY' < glyphRowsInFrameBuffer + top
    BY <1>1, <2>3
  <2> QED
    BY <2>1, <2>2, <2>3
<1>5. \A i \in 1 .. top : ReadNearby(flows'[i], i)
  BY <1>1 DEF CursorNearby
<1>6. SumsFit' /\ DrawsInFrame'
  BY <1>2 DEF CursorNearby, SumsFit, DrawsInFrame
<1>7. Astray(cursorX, glyphColumnsInFrameBuffer, Wrapping)'
  BY <1>1, <1>2, <1>3 DEF Astray, Wrapping
<1>8. Astray(cursorY, glyphRowsInFrameBuffer, Scrolling)'
  BY <1>1, <1>2, <1>4 DEF Astray, Scrolling
<1>9. (\A i \in 1 .. top : ReadNearby(flows[i], i))'
  BY <1>1, <1>2, <1>5 DEF ReadNearby
<1> QED
  BY <1>6, <1>7, <1>8, <1>9 DEF CursorNearby

(* The cursor begins on the screen.                                        *)
LEMMA InitNearby == Init => CursorNearby
<1> SUFFICES ASSUME Init PROVE CursorNearby
  OBVIOUS
<1>1. TypeOK /\ RoomForGlyph
  BY InitIndInv DEF IndInv
<1>2. /\ glyphPixelWidth \in Nat \ {0} /\ glyphPixelHeight \in Nat \ {0}
      /\ glyphColumnsInFrameBuffer \in Nat \ {0} /\ glyphRowsInFrameBuffer \in Nat \ {0}
  BY <1>1, ScreenSize
<1>3. top = 1 /\ flows[1] = Flow(Main, "setOutputter", FALSE)
  BY DEF Init, top
<1>4. /\ Astray(cursorX, glyphColumnsInFrameBuffer, Wrapping)
      /\ Astray(cursorY, glyphRowsInFrameBuffer, Scrolling)
  <2>1. 0 \in 0 .. top /\ cursorX < glyphColumnsInFrameBuffer + 0
        /\ cursorY < glyphRowsInFrameBuffer + 0
    BY <1>2, <1>3 DEF Init
  <2> QED
    BY <2>1 DEF Astray
<1>5. \A i \in 1 .. top : ReadNearby(flows[i], i)
  <2>1. /\ (glyphColumnsInFrameBuffer + 1) * glyphPixelWidth \in Nat
        /\ (glyphRowsInFrameBuffer + 1) * glyphPixelHeight \in Nat
    BY <1>2
  <2> QED
    BY <1>3, <2>1 DEF ReadNearby, Flow, Unread
<1>6. SumsFit
  BY SizesAssumption DEF Init, SumsFit, glyphPixelWidth, glyphPixelHeight
<1>7. DrawsInFrame
  <2>1. fb.HorizontalPixels >= glyphPixelWidth /\ fb.VerticalPixels >= glyphPixelHeight
    BY <1>1 DEF RoomForGlyph
  <2> QED
    BY <1>1, <1>2, <2>1 DEF DrawsInFrame, Init, TypeOK
<1> QED
  BY <1>4, <1>5, <1>6, <1>7 DEF CursorNearby

(***************************************************************************)
(* The steps of PutRune: each reads no more than it finds, and stores one  *)
(* more than it has read.                                                  *)
(***************************************************************************)
LEMMA PutRuneNearby == IndInv /\ CursorNearby /\ PutRune => CursorNearby'
<1> SUFFICES ASSUME IndInv, CursorNearby, PutRune PROVE CursorNearby'
  OBVIOUS
<1> DEFINE Moved(pc) == [Running EXCEPT !.pc = pc, !.row = Unread, !.column = Unread,
                                        !.loaded = Unread]
           Loaded(pc, n)   == [Running EXCEPT !.loaded = n, !.pc = pc]
           Advanced(pc, n) == [Running EXCEPT !.rune = n, !.pc = pc]
           Ended(pc, n)    == [Running EXCEPT !.string = n, !.pc = pc]
           AtRow(n)        == [Running EXCEPT !.row = n]
           AtColumn(n)     == [Running EXCEPT !.column = n]
           columns == glyphColumnsInFrameBuffer
           rows    == glyphRowsInFrameBuffer
           w == glyphPixelWidth
           h == glyphPixelHeight
<1>1. /\ TypeOK /\ RoomForGlyph /\ Running \in FlowType
      /\ top \in 1 .. 3 /\ Running = flows[top] /\ ReadNearby(Running, top)
  BY RunningFlow DEF IndInv, NestingBounded, CursorNearby
<1>2. /\ cursorX \in Nat /\ cursorY \in Nat
      /\ columns \in Nat \ {0} /\ rows \in Nat \ {0}
      /\ w \in Nat \ {0} /\ h \in Nat \ {0}
      /\ (columns + 1) * w \in Nat /\ (rows + 1) * h \in Nat
  BY <1>1, ScreenSize DEF TypeOK
<1>3. /\ ~Wrapping(Running)  => cursorX < columns + (top - 1)
      /\ ~Scrolling(Running) => cursorY < rows + (top - 1)
  BY <1>1, FoundNearby
<1>4. Running.column <= (columns + 1) * w /\ Running.row <= (rows + 1) * h
  BY <1>1 DEF ReadNearby
<1>5. ASSUME NEW pc \in Places
      PROVE  /\ Moved(pc) \in FlowType /\ Moved(pc).pc = pc
             /\ pc \notin {"storeLine", "storeColumn"} => ReadNearby(Moved(pc), top)
  <2>1. Moved(pc) \in FlowType /\ Moved(pc).pc = pc
    BY <1>1, MovedFlow
  <2>2. Moved(pc).row = Unread /\ Moved(pc).column = Unread
    BY <1>1, MovedFields
  <2> HIDE DEF Moved
  <2> QED
    BY <1>2, <2>1, <2>2 DEF ReadNearby, Unread
<1>6. ASSUME NEW pc \in Places, NEW n \in Nat
      PROVE  /\ Loaded(pc, n) \in FlowType /\ Loaded(pc, n).pc = pc
             /\ /\ pc = "storeColumn" => n < columns + (top - 1)
                /\ pc = "storeLine" => n < rows + (top - 1)
                => ReadNearby(Loaded(pc, n), top)
  <2>1. Loaded(pc, n) \in FlowType /\ Loaded(pc, n).pc = pc
    BY <1>1, LoadedFlow
  <2>2. /\ Loaded(pc, n).row = Running.row /\ Loaded(pc, n).column = Running.column
        /\ Loaded(pc, n).loaded = n
    BY <1>1, LoadedFields
  <2> HIDE DEF Loaded
  <2> QED
    BY <1>4, <2>1, <2>2 DEF ReadNearby
<1>7. ASSUME NEW pc \in Places, NEW n \in Nat
      PROVE  /\ Advanced(pc, n) \in FlowType /\ Advanced(pc, n).pc = pc
             /\ pc \notin {"storeLine", "storeColumn"} => ReadNearby(Advanced(pc, n), top)
  <2>1. Advanced(pc, n) \in FlowType /\ Advanced(pc, n).pc = pc
    BY <1>1, AdvancedFlow
  <2>2. Advanced(pc, n).row = Running.row /\ Advanced(pc, n).column = Running.column
    BY <1>1, AdvancedFields
  <2> HIDE DEF Advanced
  <2> QED
    BY <1>4, <2>1, <2>2 DEF ReadNearby
<1>8. ASSUME NEW pc \in Places, NEW n \in Nat
      PROVE  /\ Ended(pc, n) \in FlowType /\ Ended(pc, n).pc = pc
             /\ pc \notin {"storeLine", "storeColumn"} => ReadNearby(Ended(pc, n), top)
  <2>1. Ended(pc, n) \in FlowType /\ Ended(pc, n).pc = pc
    BY <1>1, EndedFlow
  <2>2. Ended(pc, n).row = Running.row /\ Ended(pc, n).column = Running.column
    BY <1>1, EndedFields
  <2> HIDE DEF Ended
  <2> QED
    BY <1>4, <2>1, <2>2 DEF ReadNearby
<1>9. ASSUME At("draw"), NEW n \in Nat
      PROVE  /\ n <= (rows + 1) * h => ReadNearby(AtRow(n), top)
             /\ n <= (columns + 1) * w => ReadNearby(AtColumn(n), top)
             /\ AtRow(n) \in FlowType /\ AtRow(n).pc = "draw"
             /\ AtColumn(n) \in FlowType /\ AtColumn(n).pc = "draw"
  <2>0. Running.pc = "draw" /\ Running.pc \in Places
    BY <1>1, <1>9 DEF At, FlowType
  <2>1. /\ AtRow(n) \in FlowType /\ AtRow(n).pc = "draw"
        /\ AtRow(n).row = n /\ AtRow(n).column = Running.column
        /\ AtColumn(n) \in FlowType /\ AtColumn(n).pc = "draw"
        /\ AtColumn(n).row = Running.row /\ AtColumn(n).column = n
    BY <1>1, <2>0, RowFields, ColumnFields
  <2> HIDE DEF AtRow, AtColumn
  <2> QED
    BY <1>4, <2>1 DEF ReadNearby
<1>10. ASSUME NEW pc, GoTo(pc) PROVE Continue(Moved(pc))
  BY <1>10 DEF GoTo
<1>11. /\ Running.rune + 1 \in Nat /\ Running.string + 1 \in Nat
       /\ EndOfString => Continue(Ended("nextString", Running.string + 1))
       /\ PutLineFeed => Continue(Advanced("loadLine", Running.rune + 1))
       /\ PutGlyph => Continue(Advanced("draw", Running.rune + 1))
       /\ LoadRow => Continue(AtRow(cursorY * h))
       /\ LoadColumn => Continue(AtColumn(cursorX * w))
       /\ LoadCursorX => Continue(Loaded("storeColumn", cursorX))
       /\ LoadCursorY => Continue(Loaded("storeLine", cursorY))
  BY <1>1 DEF FlowType, EndOfString, PutLineFeed, PutGlyph, LoadRow, LoadColumn,
              LoadCursorX, LoadCursorY, Load
<1> HIDE DEF Moved, Loaded, Advanced, Ended, AtRow, AtColumn, columns, rows, w, h
<1> USE DEF console, Wrapping, Scrolling, At
<1>a. CASE EndOfString
  <2> DEFINE flow == Ended("nextString", Running.string + 1)
  <2>1. flow \in FlowType /\ flow.pc = "nextString" /\ ReadNearby(flow, top)
    BY <1>8, <1>11 DEF Places
  <2> HIDE DEF flow
  <2>2. Continue(flow) /\ At("putRune") /\ UNCHANGED <<fb, console>>
    BY <1>11, <1>a DEF EndOfString, flow
  <2> QED
    BY <1>1, <2>1, <2>2, ContinuesNearby
<1>b. CASE PutLineFeed
  <2> DEFINE flow == Advanced("loadLine", Running.rune + 1)
  <2>1. flow \in FlowType /\ flow.pc = "loadLine" /\ ReadNearby(flow, top)
    BY <1>7, <1>11 DEF Places
  <2> HIDE DEF flow
  <2>2. Continue(flow) /\ At("putRune") /\ UNCHANGED <<fb, console>>
    BY <1>11, <1>b DEF PutLineFeed, flow
  <2> QED
    BY <1>1, <2>1, <2>2, ContinuesNearby
<1>c. CASE PutGlyph
  <2> DEFINE flow == Advanced("draw", Running.rune + 1)
  <2>1. flow \in FlowType /\ flow.pc = "draw" /\ ReadNearby(flow, top)
    BY <1>7, <1>11 DEF Places
  <2> HIDE DEF flow
  <2>2. Continue(flow) /\ At("putRune") /\ UNCHANGED <<fb, console>>
    BY <1>11, <1>c DEF PutGlyph, flow
  <2> QED
    BY <1>1, <2>1, <2>2, ContinuesNearby
<1>d. CASE LoadRow
  <2> DEFINE flow == AtRow(cursorY * h)
  <2>1. At("draw") /\ Continue(flow) /\ UNCHANGED <<fb, console>>
    BY <1>11, <1>d DEF LoadRow
  <2>2. cursorY <= rows + 1 /\ cursorY * h \in Nat
    BY <1>1, <1>2, <1>3, <2>1
  <2>3. cursorY * h <= (rows + 1) * h
    BY <1>2, <2>2, SMTT(30)
  <2>4. flow \in FlowType /\ flow.pc = "draw" /\ ReadNearby(flow, top)
    BY <1>9, <2>1, <2>2, <2>3
  <2> HIDE DEF flow
  <2> QED
    BY <1>1, <2>1, <2>4, ContinuesNearby
<1>e. CASE LoadColumn
  <2> DEFINE flow == AtColumn(cursorX * w)
  <2>1. At("draw") /\ Continue(flow) /\ UNCHANGED <<fb, console>>
    BY <1>11, <1>e DEF LoadColumn
  <2>2. cursorX <= columns + 1 /\ cursorX * w \in Nat
    BY <1>1, <1>2, <1>3, <2>1
  <2>3. cursorX * w <= (columns + 1) * w
    BY <1>2, <2>2, SMTT(30)
  <2>4. flow \in FlowType /\ flow.pc = "draw" /\ ReadNearby(flow, top)
    BY <1>9, <2>1, <2>2, <2>3
  <2> HIDE DEF flow
  <2> QED
    BY <1>1, <2>1, <2>4, ContinuesNearby
<1>f. CASE Draw
  <2> DEFINE flow == Moved("loadColumn")
             bitmap == [PixelsPerRow |-> glyphPixelWidth, NumberOfRows |-> glyphPixelHeight]
  <2>1. /\ At("draw") /\ Continue(flow) /\ UNCHANGED <<fb, cursorX, cursorY>>
        /\ Running.row # Unread /\ Running.column # Unread
        /\ drawn' = IF BitmapRefused(fb, Running.row, Running.column, bitmap)
                    THEN drawn
                    ELSE [row |-> Running.row, column |-> Running.column]
    BY <1>10, <1>f DEF Draw
  <2>2. flow \in FlowType /\ flow.pc = "loadColumn" /\ ReadNearby(flow, top)
    BY <1>5 DEF Places
  <2>3. Running.row \in Nat /\ Running.column \in Nat
    BY <1>1, <2>1 DEF FlowType
  <2>4. \/ UNCHANGED drawn
        \/ /\ drawn'.row + glyphPixelHeight <= fb.VerticalPixels
           /\ drawn'.column + glyphPixelWidth <= fb.HorizontalPixels
    <3>1. CASE BitmapRefused(fb, Running.row, Running.column, bitmap)
      BY <2>1, <3>1
    <3>2. CASE ~BitmapRefused(fb, Running.row, Running.column, bitmap)
      <4>1. /\ Running.row + glyphPixelHeight <= fb.VerticalPixels
            /\ Running.column + glyphPixelWidth <= fb.HorizontalPixels
        BY <1>1, <1>4, <2>3, <3>2, AcceptedInFrame DEF CursorNearby, rows, columns, w, h
      <4>2. drawn'.row = Running.row /\ drawn'.column = Running.column
        BY <2>1, <3>2
      <4> QED
        BY <4>1, <4>2
    <3> QED
      BY <3>1, <3>2
  <2> HIDE DEF flow
  <2> QED
    BY <1>1, <2>1, <2>2, <2>4, ContinuesNearby
<1>g. CASE LoadCursorX
  <2> DEFINE flow == Loaded("storeColumn", cursorX)
  <2>1. At("loadColumn") /\ Continue(flow) /\ UNCHANGED <<fb, console>>
    BY <1>11, <1>g DEF LoadCursorX
  <2>2. flow \in FlowType /\ flow.pc = "storeColumn" /\ ReadNearby(flow, top)
    BY <1>2, <1>3, <1>6, <2>1 DEF Places
  <2> HIDE DEF flow
  <2> QED
    BY <1>1, <2>1, <2>2, ContinuesNearby
<1>h. CASE StoreCursorX
  <2>0. PICK pc \in {AfterColumn(cursorX'), "compareColumn"} : GoTo(pc)
    BY <1>h DEF StoreCursorX
  <2> DEFINE flow == Moved(pc)
  <2>1. /\ At("storeColumn") /\ Continue(flow) /\ UNCHANGED <<fb, cursorY, drawn>>
        /\ cursorX' = Running.loaded + 1
    BY <1>10, <1>h, <2>0 DEF StoreCursorX
  <2>2. flow \in FlowType /\ flow.pc = pc /\ ReadNearby(flow, top)
    BY <1>5, <2>0 DEF Places, AfterColumn
  <2>3. cursorX' < columns + top /\ cursorX' \in Int
    <3>1. Running.loaded < columns + (top - 1) /\ Running.loaded \in Int
      BY <1>1, <2>1 DEF ReadNearby, FlowType, Unread, columns
    <3> QED
      BY <1>1, <1>2, <2>1, <3>1
  <2>4. cursorX' < columns \/ Wrapping(flow)
    BY <1>2, <2>0, <2>2, <2>3 DEF AfterColumn, columns
  <2> HIDE DEF flow
  <2> QED
    BY <1>1, <2>1, <2>2, <2>3, <2>4, ContinuesNearby DEF columns
<1>n. CASE CompareCursorX
  <2> DEFINE pc == AfterColumn(cursorX)
             flow == Moved(pc)
  <2>1. At("compareColumn") /\ Continue(flow) /\ UNCHANGED <<fb, console>>
    BY <1>10, <1>n DEF CompareCursorX
  <2>2. flow \in FlowType /\ flow.pc = pc /\ ReadNearby(flow, top)
    BY <1>5 DEF Places, AfterColumn
  <2>3. cursorX' < columns \/ Wrapping(flow)
    BY <1>2, <2>1, <2>2 DEF AfterColumn, columns
  <2> HIDE DEF flow
  <2> QED
    BY <1>1, <2>1, <2>2, <2>3, ContinuesNearby DEF columns
<1>i. CASE LoadCursorY
  <2> DEFINE flow == Loaded("storeLine", cursorY)
  <2>1. At("loadLine") /\ Continue(flow) /\ UNCHANGED <<fb, console>>
    BY <1>11, <1>i DEF LoadCursorY
  <2>2. flow \in FlowType /\ flow.pc = "storeLine" /\ ReadNearby(flow, top)
    BY <1>2, <1>3, <1>6, <2>1 DEF Places
  <2> HIDE DEF flow
  <2> QED
    BY <1>1, <2>1, <2>2, ContinuesNearby
<1>j. CASE StoreCursorY
  <2>0. PICK pc \in {AfterLine(cursorY'), "compareLine"} : GoTo(pc)
    BY <1>j DEF StoreCursorY
  <2> DEFINE flow == Moved(pc)
  <2>1. /\ At("storeLine") /\ Continue(flow) /\ UNCHANGED <<fb, cursorX, drawn>>
        /\ cursorY' = Running.loaded + 1
    BY <1>10, <1>j, <2>0 DEF StoreCursorY
  <2>2. flow \in FlowType /\ flow.pc = pc /\ ReadNearby(flow, top)
    BY <1>5, <2>0 DEF Places, AfterLine
  <2>3. cursorY' < rows + top /\ cursorY' \in Int
    <3>1. Running.loaded < rows + (top - 1) /\ Running.loaded \in Int
      BY <1>1, <2>1 DEF ReadNearby, FlowType, Unread, rows
    <3> QED
      BY <1>1, <1>2, <2>1, <3>1
  <2>4. (cursorY' < rows \/ Scrolling(flow)) /\ Wrapping(flow)
    BY <1>2, <2>0, <2>2, <2>3 DEF AfterLine, rows
  <2> HIDE DEF flow
  <2> QED
    BY <1>1, <2>1, <2>2, <2>3, <2>4, ContinuesNearby DEF rows
<1>o. CASE CompareCursorY
  <2> DEFINE pc == AfterLine(cursorY)
             flow == Moved(pc)
  <2>1. At("compareLine") /\ Continue(flow) /\ UNCHANGED <<fb, console>>
    BY <1>10, <1>o DEF CompareCursorY
  <2>2. flow \in FlowType /\ flow.pc = pc /\ ReadNearby(flow, top)
    BY <1>5 DEF Places, AfterLine
  <2>3. (cursorY' < rows \/ Scrolling(flow)) /\ Wrapping(flow)
    BY <1>2, <2>1, <2>2 DEF AfterLine, rows
  <2> HIDE DEF flow
  <2> QED
    BY <1>1, <2>1, <2>2, <2>3, ContinuesNearby DEF rows
<1>k. CASE Scroll
  <2> DEFINE flow == Moved("lastLine")
  <2>1. At("scroll") /\ Continue(flow) /\ UNCHANGED <<fb, console>>
    BY <1>10, <1>k DEF Scroll
  <2>2. flow \in FlowType /\ flow.pc = "lastLine" /\ ReadNearby(flow, top)
    BY <1>5 DEF Places
  <2> HIDE DEF flow
  <2> QED
    BY <1>1, <2>1, <2>2, ContinuesNearby
<1>l. CASE StoreLastLine
  <2> DEFINE flow == Moved("resetColumn")
  <2>1. /\ At("lastLine") /\ Continue(flow) /\ UNCHANGED <<fb, cursorX, drawn>>
        /\ cursorY' = rows - 1
    BY <1>10, <1>l DEF StoreLastLine, rows
  <2>2. flow \in FlowType /\ flow.pc = "resetColumn" /\ ReadNearby(flow, top)
    BY <1>5 DEF Places
  <2>3. cursorY' < rows
    BY <1>2, <2>1
  <2> HIDE DEF flow
  <2> QED
    BY <1>1, <2>1, <2>2, <2>3, ContinuesNearby DEF rows
<1>m. CASE ResetCursorX
  <2> DEFINE flow == Moved("putRune")
  <2>1. /\ At("resetColumn") /\ Continue(flow) /\ UNCHANGED <<fb, cursorY, drawn>>
        /\ cursorX' = 0
    BY <1>10, <1>m DEF ResetCursorX
  <2>2. flow \in FlowType /\ flow.pc = "putRune" /\ ReadNearby(flow, top)
    BY <1>5 DEF Places
  <2>3. cursorX' < columns
    BY <1>2, <2>1
  <2> HIDE DEF flow
  <2> QED
    BY <1>1, <2>1, <2>2, <2>3, ContinuesNearby DEF columns
<1> QED
  BY <1>a, <1>b, <1>c, <1>d, <1>e, <1>f, <1>g, <1>h, <1>i, <1>j, <1>k, <1>l, <1>m,
     <1>n, <1>o DEF PutRune

(* A step that leaves the cursor alone and goes where nothing is stored.   *)
LEMMA WalkNearby ==
    ASSUME IndInv, CursorNearby,
           \/ \E pc \in {"populate", "nextString", "halted"} : GoTo(pc)
           \/ Continue([Running EXCEPT !.rune = 1, !.pc = "putRune"]),
           ~Wrapping(Running), UNCHANGED <<fb, console>>
    PROVE  CursorNearby'
<1> DEFINE Moved(pc) == [Running EXCEPT !.pc = pc, !.row = Unread, !.column = Unread,
                                        !.loaded = Unread]
           begun == [Running EXCEPT !.rune = 1, !.pc = "putRune"]
<1>1. /\ TypeOK /\ RoomForGlyph /\ Running \in FlowType /\ ReadNearby(Running, top)
      /\ ~Scrolling(Running) /\ UNCHANGED <<cursorX, cursorY, drawn, fb>>
  BY RunningFlow DEF IndInv, CursorNearby, Wrapping, Scrolling, console
<1>2. /\ (glyphColumnsInFrameBuffer + 1) * glyphPixelWidth \in Nat
      /\ (glyphRowsInFrameBuffer + 1) * glyphPixelHeight \in Nat
  BY <1>1, ScreenSize
<1>3. ASSUME NEW pc \in {"populate", "nextString", "halted"}, GoTo(pc)
      PROVE  CursorNearby'
  <2> DEFINE flow == Moved(pc)
  <2>0. pc \in Places
    BY DEF Places
  <2>1. flow \in FlowType /\ flow.pc = pc
    BY <1>1, <2>0, MovedFlow
  <2>2. flow.row = Unread /\ flow.column = Unread
    BY <1>1, <2>0, MovedFields
  <2>3. Continue(flow)
    BY <1>3 DEF GoTo
  <2> HIDE DEF flow
  <2>4. ReadNearby(flow, top)
    BY <1>2, <2>1, <2>2 DEF ReadNearby, Unread
  <2> QED
    BY <1>1, <2>1, <2>3, <2>4, ContinuesNearby
<1>4. CASE Continue(begun)
  <2>0. "putRune" \in Places
    BY DEF Places
  <2>1. begun \in FlowType /\ begun.pc = "putRune"
    BY <1>1, <2>0, AdvancedFlow
  <2>2. begun.row = Running.row /\ begun.column = Running.column
    BY <1>1, AdvancedFields DEF Places
  <2> HIDE DEF begun
  <2>3. ReadNearby(begun, top)
    BY <1>1, <2>1, <2>2 DEF ReadNearby
  <2> QED
    BY <1>1, <1>4, <2>1, <2>3, ContinuesNearby
<1> QED
  BY <1>3, <1>4

(* Steps that leave cursor and flows leave it nearby.                      *)
LEMMA UnchangedNearby ==
    CursorNearby /\ UNCHANGED <<fb, cursorX, cursorY, drawn, flows>> => CursorNearby'
BY DEF CursorNearby, Astray, Wrapping, Scrolling, ReadNearby, SumsFit, DrawsInFrame, top,
       glyphColumnsInFrameBuffer, glyphRowsInFrameBuffer, glyphPixelWidth, glyphPixelHeight

(* A routine that returns has corrected what it did to the cursor, and one *)
(* that begins has done nothing yet.                                       *)
LEMMA StackNearby ==
    ASSUME IndInv, CursorNearby,
           ReturnFromInterrupt \/ \E v \in Vectors : Interrupt(v)
    PROVE  CursorNearby'
<1>1. /\ TypeOK /\ RoomForGlyph /\ Running \in FlowType
      /\ top \in Nat \ {0} /\ Running = flows[top]
      /\ \A i \in 1 .. top : ReadNearby(flows[i], i)
  BY RunningFlow DEF IndInv, CursorNearby
<1>2. UNCHANGED <<fb, cursorX, cursorY, drawn>>
  BY DEF ReturnFromInterrupt, Interrupt, console
<1>3. /\ glyphPixelWidth' = glyphPixelWidth /\ glyphPixelHeight' = glyphPixelHeight
      /\ glyphColumnsInFrameBuffer' = glyphColumnsInFrameBuffer
      /\ glyphRowsInFrameBuffer' = glyphRowsInFrameBuffer
      /\ (glyphColumnsInFrameBuffer + 1) * glyphPixelWidth \in Nat
      /\ (glyphRowsInFrameBuffer + 1) * glyphPixelHeight \in Nat
  BY <1>1, <1>2, ScreenSize
  DEF glyphColumnsInFrameBuffer, glyphRowsInFrameBuffer, glyphPixelWidth, glyphPixelHeight
<1>4. PICK i \in 0 .. top :
          (i # 0 => Wrapping(flows[i])) /\ cursorX < glyphColumnsInFrameBuffer + i
  BY DEF CursorNearby, Astray
<1>5. PICK j \in 0 .. top :
          (j # 0 => Scrolling(flows[j])) /\ cursorY < glyphRowsInFrameBuffer + j
  BY DEF CursorNearby, Astray
<1>6. /\ i \in 0 .. top' /\ j \in 0 .. top'
      /\ \A k \in 1 .. top' : k \in 1 .. top => flows'[k] = flows[k]
      /\ \A k \in 1 .. top' : k \notin 1 .. top => ReadNearby(flows'[k], k)
  <2>1. CASE ReturnFromInterrupt
    <3>1. top > 1
      BY <1>1, <2>1 DEF ReturnFromInterrupt, IndInv, Stacked
    <3>2. Len(flows') = top - 1 /\ \A k \in 1 .. top - 1 : flows'[k] = flows[k]
      BY <1>1, <2>1, <3>1, FrontOfSeq DEF ReturnFromInterrupt, TypeOK, top
    <3>3. top' = top - 1
      BY <3>2 DEF top
    <3>4. i # top /\ j # top
      BY <1>1, <1>4, <1>5, <2>1 DEF ReturnFromInterrupt, At, Wrapping, Scrolling
    <3> QED
      BY <1>1, <1>4, <1>5, <3>2, <3>3, <3>4
  <2>2. ASSUME NEW v \in Vectors, Interrupt(v)
        PROVE  /\ i \in 0 .. top' /\ j \in 0 .. top'
               /\ \A k \in 1 .. top' : k \in 1 .. top => flows'[k] = flows[k]
               /\ \A k \in 1 .. top' : k \notin 1 .. top => ReadNearby(flows'[k], k)
    <3> DEFINE flow == Flow(v, "nextString", enabled)
    <3>1. flow \in FlowType /\ flow.pc = "nextString"
          /\ flow.row = Unread /\ flow.column = Unread
      BY <1>1 DEF Flow, FlowType, Places, Unread, TypeOK
    <3>2. flows' = Append(flows, flow)
      BY <2>2 DEF Interrupt
    <3> HIDE DEF flow
    <3>3. /\ top' = top + 1 /\ flows'[top + 1] = flow
          /\ \A k \in 1 .. top : flows'[k] = flows[k]
      BY <1>1, <3>1, <3>2 DEF TypeOK, top
    <3>4. ReadNearby(flow, top + 1)
      BY <1>3, <3>1 DEF ReadNearby, Unread
    <3> QED
      BY <1>1, <3>3, <3>4
  <2> QED
    BY <2>1, <2>2
<1>7. Astray(cursorX, glyphColumnsInFrameBuffer, Wrapping)'
  <2>1. i # 0 => Wrapping(flows'[i])
    BY <1>4, <1>6
  <2> QED
    BY <1>2, <1>3, <1>4, <1>6, <2>1 DEF Astray, Wrapping
<1>8. Astray(cursorY, glyphRowsInFrameBuffer, Scrolling)'
  <2>1. j # 0 => Scrolling(flows'[j])
    BY <1>5, <1>6
  <2> QED
    BY <1>2, <1>3, <1>5, <1>6, <2>1 DEF Astray, Scrolling
<1>9. (\A k \in 1 .. top : ReadNearby(flows[k], k))'
  <2>1. \A k \in 1 .. top' : ReadNearby(flows'[k], k)
    BY <1>1, <1>6
  <2> QED
    BY <1>3, <2>1 DEF ReadNearby
<1>10. SumsFit' /\ DrawsInFrame'
  BY <1>2, <1>3 DEF CursorNearby, SumsFit, DrawsInFrame
<1> QED
  BY <1>7, <1>8, <1>9, <1>10 DEF CursorNearby

(* Every step leaves the cursor nearby.                                    *)
LEMMA NextNearby == IndInv /\ CursorNearby /\ [Next]_vars => CursorNearby'
<1> SUFFICES ASSUME IndInv, CursorNearby, [Next]_vars PROVE CursorNearby'
  OBVIOUS
<1>1. CASE SetOutputter \/ ActivateTable \/ Halt
  BY <1>1, WalkNearby DEF SetOutputter, ActivateTable, Halt, At, Wrapping
<1>2. CASE NextString
  BY <1>2, WalkNearby DEF NextString, At, Wrapping
<1>3. CASE PopulateDescriptor \/ HaltAgain \/ UNCHANGED vars
  BY <1>3, UnchangedNearby DEF PopulateDescriptor, HaltAgain, vars, console
<1>4. CASE PutRune
  BY <1>4, PutRuneNearby
<1>5. CASE ReturnFromInterrupt \/ \E v \in Vectors : Interrupt(v)
  BY <1>5, StackNearby
<1> QED
  BY <1>1, <1>2, <1>3, <1>4, <1>5 DEF Next, FlowStep

(***************************************************************************)
(* Whatever a routine finds of a cursor that is off the screen, it draws   *)
(* inside the frame or not at all (TextTerminal.c:45, FrameBuffer.c:108).  *)
(***************************************************************************)
THEOREM DrawnInFrame == Spec => []DrawsInFrame
<1>1. IndInv /\ CursorNearby /\ [Next]_vars => (IndInv /\ CursorNearby)'
  BY NextIndInv, NextNearby
<1>2. Init => IndInv /\ CursorNearby
  BY InitIndInv, InitNearby
<1>3. CursorNearby => DrawsInFrame
  BY DEF CursorNearby
<1> QED
  BY <1>1, <1>2, <1>3, PTL DEF Spec
=============================================================================
