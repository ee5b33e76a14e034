--------------------------- MODULE MCFrameBuffer ---------------------------
EXTENDS FrameBufferCalls

MCFrames == {[HorizontalPixels |-> h, VerticalPixels |-> v] : <<h, v>> \in {<<5, 4>>, <<4, 6>>}}

(* Three columns of bits, one of them of a width that is no whole byte.    *)
MCBitmaps ==
    {[PixelsPerRow |-> 2, NumberOfRows |-> 2, BitmapDefinition |-> <<1, 0, 1, 1>>],
     [PixelsPerRow |-> 4, NumberOfRows |-> 3,
      BitmapDefinition |-> <<1, 0, 0, 1, 0, 1, 1, 0, 0, 0, 1, 1>>],
     [PixelsPerRow |-> 3, NumberOfRows |-> 1, BitmapDefinition |-> <<1, 0, 1>>]}
=============================================================================
