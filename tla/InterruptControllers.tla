------------------------ MODULE InterruptControllers ------------------------
(***************************************************************************)
(* The two 8259 controllers of a PC and the words that Interrupts.c writes *)
(* to their ports.  The controllers are hardware: what a word does to them *)
(* follows their data sheet, as far as the words the kernel writes go.     *)
(*                                                                         *)
(* A byte is the set of its bits that are 1.                               *)
(***************************************************************************)
EXTENDS Integers, Sequences

Bits  == 0 .. 7
Bytes == SUBSET Bits
Lines == Bits           \* the request lines of a controller

(* A controller: its mask, the lines that ask for an interrupt, the first  *)
(* vector of its lines, the word about the cascade, and which word of an   *)
(* initialization it awaits on its data port, if any.                      *)
Awaited == {"none", "ICW2", "ICW3", "ICW4"}

Controller == [mask : Bytes, requests : SUBSET Lines, base : Bytes, cascade : Bytes,
               awaits : Awaited]

PIC1 == 1               \* the master, which the CPU listens to
PIC2 == 2               \* the slave, on line 2 of the master

CascadeLine == 2

-----------------------------------------------------------------------------
(* A command with bit 4 starts an initialization and forgets the mask; the *)
(* other commands the kernel writes set no mode and end no interrupt.      *)
AfterCommand(c, byte) ==
    IF 4 \in byte
    THEN [c EXCEPT !.mask = {}, !.requests = {}, !.awaits = "ICW2"]
    ELSE c

(* A byte on the data port is the word that is awaited, or else the mask.  *)
AfterData(c, byte) ==
    CASE c.awaits = "ICW2" -> [c EXCEPT !.base = byte, !.awaits = "ICW3"]
      [] c.awaits = "ICW3" -> [c EXCEPT !.cascade = byte, !.awaits = "ICW4"]
      [] c.awaits = "ICW4" -> [c EXCEPT !.awaits = "none"]
      [] OTHER             -> [c EXCEPT !.mask = byte]

(* The lines a controller would hand on.  A routine of the loader ends its *)
(* interrupts, so that none is in service for long.                        *)
Unmasked(c) == IF c.awaits = "none" THEN c.requests \ c.mask ELSE {}

(* The controllers and lines the CPU is asked to serve: the slave asks     *)
(* through a line of the master.                                           *)
Pending(pics) ==
    {<<PIC1, line>> : line \in Unmasked(pics[PIC1])}
        \cup {<<PIC2, line>> : line \in
                 IF pics[PIC1].awaits = "none" /\ CascadeLine \notin pics[PIC1].mask
                 THEN Unmasked(pics[PIC2]) ELSE {}}

-----------------------------------------------------------------------------
PIC_ICW1_IC4     == {0}         \* 0x01
PIC_ICW1_INIT    == {0}         \* 0x01
PIC_ICW3_ID0_IR2 == {2}         \* 0x04
PIC_ICW4_IS_8086 == {0}         \* 0x01

RemappedIRQ0 == {5}             \* 0x20
RemappedIRQ8 == {3, 5}          \* 0x28

Word(pic, port, byte) == [pic |-> pic, port |-> port, byte |-> byte]

(* What Reinitalize writes before it writes the masks back.                *)
InitializationWords ==
    << Word(PIC1, "command", PIC_ICW1_INIT \cup PIC_ICW1_IC4),
       Word(PIC2, "command", PIC_ICW1_INIT \cup PIC_ICW1_IC4),
       Word(PIC1, "data", RemappedIRQ0),
       Word(PIC2, "data", RemappedIRQ8),
       Word(PIC1, "data", PIC_ICW3_ID0_IR2),
       Word(PIC2, "data", {1}),
       Word(PIC1, "data", PIC_ICW4_IS_8086),
       Word(PIC2, "data", PIC_ICW4_IS_8086) >>

(* The words that write the masks back.                                    *)
MasksSwapped(mask1, mask2) ==                   \* mutant: each to the other's port
    << Word(PIC1, "data", mask2), Word(PIC2, "data", mask1) >>
MaskWords(mask1, mask2) ==
    << Word(PIC1, "data", mask1), Word(PIC2, "data", mask2) >>

(* Disable.                                                                *)
DisableSlaveTwice ==                            \* mutant: the wrong port
    << Word(PIC2, "data", Bits), Word(PIC2, "data", Bits) >>
DisableWords ==
    << Word(PIC2, "data", Bits), Word(PIC1, "data", Bits) >>

(* The controllers after a word.                                           *)
AfterWord(pics, word) ==
    [pics EXCEPT ![word.pic] =
        IF word.port = "command" THEN AfterCommand(@, word.byte) ELSE AfterData(@, word.byte)]
=============================================================================
