------------------------------- MODULE MCBoot -------------------------------
EXTENDS Boot

FrameOf(bpp) == [identifier |-> Frame, bpp |-> bpp]
Other == [identifier |-> "other", bpp |-> 0]

(* No tag, the frame buffer's in front, behind another and missing, of     *)
(* every depth, and a second one that must not be found.                   *)
MCTagLists ==
    {<<>>, <<Other>>, <<Other, Other>>, <<FrameOf(24), FrameOf(32)>>,
     <<Other, FrameOf(32), FrameOf(8)>>}
        \cup {<<Other, FrameOf(bpp)>> : bpp \in {8, 16, 24, 32}}

(* No CPUID, only leaf 0, which holds no capability, and leaf 1 with an    *)
(* APIC, with the other register's bit of that number, and with both.      *)
MCCpus == {[max |-> 0, edx |-> {}, ecx |-> {}]}
              \cup [max : {1, 13}, edx : {{}, {9}}, ecx : {{}, {9}}]

PicOf(mask, base, cascade) ==
    [mask |-> mask, requests |-> {}, base |-> base, cascade |-> cascade, awaits |-> "none"]

(* As a BIOS leaves them, with a clock, a keyboard and a disk let through; *)
(* all masked; and with nothing masked.                                    *)
MCLoaderPics ==
    {[pic \in {PIC1, PIC2} |->
          IF pic = PIC1 THEN PicOf(masks[1], {3}, {2})
                        ELSE PicOf(masks[2], {4, 5, 6}, {1})] :
        masks \in {<<{3, 4, 5, 6, 7}, Bits \ {6}>>, <<Bits, Bits>>, <<{}, {}>>}}

MCDevices == {<<PIC1, 1>>, <<PIC2, 6>>}

MCNoCpuid  == <<"c", "p", "u">>
MCNoApic   == <<"a", "p", "i", "c">>
MCGreeting == <<"K", "\n">>
MCHalting  == <<"h", "a", "l", "t", "s">>
=============================================================================
