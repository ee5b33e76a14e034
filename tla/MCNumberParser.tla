--------------------------- MODULE MCNumberParser ---------------------------
(* Every memory of Cells cells over a few runes, and integers of ten bits. *)
EXTENDS NumberParser

CONSTANTS Cells, Runes

MCMemories == [1 .. Cells -> Runes]

MCOverflowed == {-Largest - 1, 0, Largest}
=============================================================================
