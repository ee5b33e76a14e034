--------------------------- MODULE TerminalOutput ---------------------------
(***************************************************************************)
(* The terminal as the client of its own formatter: a formatted call puts  *)
(* each chunk with PutRuneString, from the terminal's one buffer, and ends *)
(* when a chunk is marked done (TextTerminal.c:74-93).  What the formatter *)
(* shows follows FormattedText, which StringFormatter implements.          *)
(***************************************************************************)
EXTENDS TextTerminal

CONSTANTS
    Calls,          \* formatted calls: their text, and whether the format
                    \* ends with plain text and not with a directive
    Capacity        \* TextTerminalInteralStringBufferCapacity

ASSUME CallsAssumption ==
    Calls \subseteq [text : Seq(GlyphRunes \cup ControlRunes), endsPlain : BOOLEAN]

ASSUME CapacityAssumption == Capacity \in Nat /\ Capacity >= 2

VARIABLES
    call,           \* the formatted call, the last one when there is none
    shown,          \* what of its text has been given to PutRuneString
    phase           \* of the formatter, "idle" outside of a call

output == <<call, shown, phase>>

Formatter == INSTANCE FormattedText
                WITH Runes <- GlyphRunes \cup ControlRunes,
                     text <- call.text, room <- Capacity - 1

NoCall == [text |-> <<>>, endsPlain |-> TRUE]

OutputInit ==
    /\ Init
    /\ call = NoCall
    /\ shown = <<>>
    /\ phase = "idle"

-----------------------------------------------------------------------------
PutFormattedRuneString ==
    /\ phase = "idle"
    /\ string = <<>>
    /\ call' \in Calls
    /\ shown' = <<>>
    /\ phase' = "open"
    /\ UNCHANGED vars

(* A full chunk ends the call when it is marked done.  The formatter looks *)
(* at the format for that: at plain text it is right, inside a directive   *)
(* at the end of the format it may say so too early.                       *)
DoneWhenFull == phase' = "stopped"              \* mutant: every full chunk is
MarkedDone == call.endsPlain => (phase' = "stopped" <=> shown' = call.text)

(* stringIterativeFormatCallback: the chunk becomes the string to put.     *)
NewRunes == SubSeq(shown', Len(shown) + 1, Len(shown'))

PutChunk ==
    /\ phase = "open"
    /\ string = <<>>
    /\ UNCHANGED call
    /\ \/ Formatter!ShowFullChunk /\ MarkedDone
       \/ Formatter!ShowLastChunk
    /\ string' = NewRunes
    /\ UNCHANGED <<fb, memory, cursorX, cursorY, error, scrolled>>

(* The last chunk has been put, and the call returns.                      *)
EndOfCall ==
    /\ phase \in {"stopped", "closed"}
    /\ string = <<>>
    /\ call' = NoCall
    /\ shown' = <<>>
    /\ phase' = "idle"
    /\ UNCHANGED vars

-----------------------------------------------------------------------------
OutputNext ==
    \/ PutRune /\ UNCHANGED output
    \/ phase = "idle" /\ (PutRuneString \/ Clear) /\ UNCHANGED output
    \/ PutFormattedRuneString
    \/ PutChunk
    \/ EndOfCall

OutputSpec == OutputInit /\ [][OutputNext]_<<vars, output>>

(* What is being put is put to its end: the loops keep running.            *)
OutputFairSpec == OutputSpec /\ WF_<<vars, output>>(PutRune /\ UNCHANGED output)
                             /\ WF_<<vars, output>>(PutChunk)
                             /\ WF_<<vars, output>>(EndOfCall)

-----------------------------------------------------------------------------
(* A string and a formatted text, tabs and scrolling included, are put to  *)
(* their end, and the call returns (TextTerminal.c:56-93).                 *)
OutputEnds == string # <<>> \/ phase # "idle" ~> string = <<>> /\ phase = "idle"

(***************************************************************************)
(* A formatted call is the same as PutRuneString of its text, rune by rune *)
(* and wherever the terminal's buffer cuts it (TextTerminal.c:74-93).  The *)
(* only other thing that may happen is that a format ending in a directive *)
(* is cut off at the end of a chunk.                                       *)
(***************************************************************************)
StillToShow == IF phase = "open" THEN SubSeq(call.text, Len(shown) + 1, Len(call.text))
               ELSE <<>>

Whole == INSTANCE TextTerminal
             WITH Strings <- Strings \cup {c.text : c \in Calls},
                  string <- string \o StillToShow

CutOff == PutChunk /\ ~call.endsPlain /\ phase' = "stopped"

ChunksMakeTheText == Whole!Init /\ [][Whole!Next \/ CutOff]_(Whole!vars)
=============================================================================
