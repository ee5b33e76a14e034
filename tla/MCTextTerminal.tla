--------------------------- MODULE MCTextTerminal ---------------------------
EXTENDS TextTerminalScreen, TerminalOutput

(* Frames with a rest of rows and of columns, and one without.             *)
MCFrames == {[HorizontalPixels |-> h, VerticalPixels |-> v] :
                <<h, v>> \in {<<4, 6>>, <<5, 7>>, <<2, 2>>}}

MCGlyph(rune) == CASE rune = " " -> <<0, 0, 0, 0>>
                   [] rune = "A" -> <<0, 1, 1, 0>>
                   [] rune = "B" -> <<1, 1, 1, 0>>

MCStrings == {<<"A">>, <<"\n">>, <<"A", "\\b", "B">>}

(* Texts of one and a half, of two and of no chunks, and one cut off.      *)
MCCalls == {[text |-> <<"B", "\t", "A">>, endsPlain |-> TRUE],
            [text |-> <<"\n", "B", "A", "A">>, endsPlain |-> TRUE],
            [text |-> <<>>, endsPlain |-> TRUE],
            [text |-> <<"A", "A", "B">>, endsPlain |-> FALSE]}
=============================================================================
