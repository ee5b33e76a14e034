-------------------------- MODULE MCKernelConsole --------------------------
EXTENDS KernelConsole

(* Two places a line and two lines, with a rest of columns; a single place.*)
MCFrames == {[HorizontalPixels |-> h, VerticalPixels |-> v] :
                <<h, v>> \in {<<5, 4>>, <<2, 2>>}}

(* The NMI and two devices.                                                *)
MCVectors == {2, 32, 33}

MCRunes == {"K", "H", "I", "N", "\n"} \cup {DigitRune(d) : d \in 0 .. 9}

MCMainStrings == <<<<"K">>, <<"\n">>>>

MCAnnouncement == <<"I">>

MCName(vector) == <<"N">>
=============================================================================
