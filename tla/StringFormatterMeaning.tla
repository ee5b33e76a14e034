----------------------- MODULE StringFormatterMeaning -----------------------
(***************************************************************************)
(* The formatter of StringFormatter.tla against what its format means.     *)
(***************************************************************************)
EXTENDS StringFormatter, SequencesExt

Semantics == INSTANCE FormatSemantics
                WITH HexOf <- HexString, DecimalOf <- DecimalString,
                     ArgumentOf <- IntegerArgument

(* The meaning of every call, and of this one.                             *)
Meanings == [c \in {<<d.format, d.slots>> : d \in Calls} |->
                IF c[1] = NullFormat THEN Semantics!Unread(<<>>, <<>>)
                ELSE Semantics!Expansion(c[1], c[2])]

Meaning == Meanings[<<call.format, call.slots>>]

(* Everything the client has been shown so far.                            *)
Shown_ == FlattenSeq([i \in 1 .. Len(log) |-> log[i].text])

Returned == pc = "returned"
Refused  == Size < 2

(* String.h says what the format means: the reading does not stop at a     *)
(* directive that String.h has and the code takes for unknown, and there   *)
(* are no formatters, which String.h describes and the code takes for text.*)
Specified ==
    /\ ~ \E d \in Semantics!OtherDirectives : IsPrefix(d, Meaning.rest)
    /\ call.format # NullFormat => Semantics!Formatters \notin Range(call.format)

(* No directive ends the format: the last rune put is a rune of the format.*)
EndsPlain ==
    \/ call.format \in {NullFormat, <<>>}
    \/ /\ Last(call.format) = "%"
       /\ Meaning.valid
    \/ /\ Last(call.format) # "%"
       /\ ~ \E d \in Semantics!Directives : IsSuffix(d, call.format)

(***************************************************************************)
(* The calls implement FormattedText: whatever the buffer's size, the      *)
(* chunks cut the text the format means into full pieces, in order and     *)
(* without loss, repetition or stale runes.  Of a format of which String.h *)
(* and the code think differently nothing is promised.                     *)
(***************************************************************************)
Phase == IF pc # "returned" THEN "open"
         ELSE IF chunk.error = "ErrorWouldCauseOverflow" THEN "refused"
         ELSE IF chunk.resume = "returned" THEN "closed" ELSE "stopped"

Promise == INSTANCE FormattedText
              WITH text <- Meaning.text, room <- Size - 1, shown <- Shown_, phase <- Phase

ShowsTheText == /\ Specified => Promise!Init
                /\ [][Specified => Promise!Next]_Promise!vars

(***************************************************************************)
(* Every call returns, whatever its format, buffer and client.             *)
(***************************************************************************)
Returns == <>Returned

(***************************************************************************)
(* A client that never ends the call is told of an error exactly when the  *)
(* buffer is too small or the format has an unknown directive, once, with  *)
(* its last chunk; formats that are not Specified apart.                   *)
(***************************************************************************)
ErrorsReported ==
    Returned /\ call.client = "iterate" /\ Specified =>
        /\ \A i \in 1 .. Len(log) - 1 : log[i].error = "NoError"
        /\ Last(log).done = 1
        /\ Last(log).error = IF Refused THEN "ErrorWouldCauseOverflow"
                             ELSE IF Meaning.valid THEN "NoError"
                             ELSE "ErrorInvalidFormat"

(***************************************************************************)
(* TextTerminal's client ends the call when it is told the text is done.   *)
(* When no directive ends the format that is never too early: all of the   *)
(* text reaches the screen.                                                *)
(***************************************************************************)
TerminalShowsAll ==
    Returned /\ call.client = "terminal" /\ ~Refused /\ EndsPlain /\ Specified
        => Shown_ = Meaning.text

(***************************************************************************)
(* FormatIntoBuffer takes the first chunk.  When no directive ends the     *)
(* format and it is known, the formatter remembers an overflow exactly when*)
(* the text did not fit.                                                   *)
(***************************************************************************)
OverflowRemembered ==
    Returned /\ call.client = "into" /\ ~Refused /\ EndsPlain /\ Specified /\ Meaning.valid
        => (formatterError = "ErrorWouldCauseOverflow") <=> (Shown_ # Meaning.text)

-----------------------------------------------------------------------------
(***************************************************************************)
(* What the tests and String.h say and the code does not do.               *)
(***************************************************************************)

(* tests/test_String.c:271: a chunk that is not the last must not be marked*)
(* done.  The code marks a chunk done from the rune of the format that     *)
(* follows the directive, whatever the directive has still to copy.        *)
DoneMeansAllShown ==
    (Len(log) > 0 /\ Last(log).done = 1 /\ Last(log).error = "NoError")
        => Shown_ = Meaning.text

(* String.h:22: an unknown directive makes the call return                 *)
(* ErrorInvalidFormat.  FormatIntoBuffer returns NoError.                  *)
InvalidFormatReturned ==
    Returned /\ call.client = "into" /\ ~Refused /\ Specified
        /\ ~Meaning.valid /\ Last(log).text = Meaning.text
        => result = "ErrorInvalidFormat"

-----------------------------------------------------------------------------
(***************************************************************************)
(* The inductive invariant that relates the call to the reading of its     *)
(* format.  `Place' is where the call is, a callback apart, `Seen' what it *)
(* has put so far, in the chunks shown and in the one being filled.        *)
(***************************************************************************)
Reading(format, slots, n) == Semantics!Readings(format, slots)[n]

Place == IF pc \in {"callback", "returned"} THEN chunk.resume ELSE pc

Pending == CASE pc = "returned" -> 0
             [] pc = "callback" -> RunesInChunk
             [] OTHER           -> glyphs

Seen == Shown_ \o [i \in 1 .. Pending |-> buf[i - 1]]

Rest(i) == SubSeq(call.format, i, Len(call.format))

(* The reading has come to rune i of the format, with these slots and text.*)
Reached(i, slots, text) ==
    \E n \in 0 .. Len(call.format) :
        Reading(call.format, call.slots, n)
            = [rest |-> Rest(i), slots |-> slots, text |-> text, valid |-> TRUE]

(* A sequence ends another, rune by rune.                                  *)
Ends(d, f) ==
    /\ Len(d) <= Len(f)
    /\ \A i \in 1 .. Len(d) : f[Len(f) - Len(d) + i] = d[i]

(* p is where the reading met the directive whose letter the call has read.*)
LetterRead(p, letter) ==
    /\ p.valid = TRUE
    /\ p.text = Seen
    /\ p.slots # <<>>
    /\ va = Tail(p.slots)
    /\ integerArgument = IntegerArgument(letter, Head(p.slots).integer)
    /\ At(fmt - 1) = letter
    /\ \/ /\ fmt >= 3
          /\ p.rest = Rest(fmt - 2)
          /\ At(fmt - 2) = "%"
          /\ minimumHexLength = 0
       \/ /\ fmt >= 4
          /\ p.rest = Rest(fmt - 3)
          /\ At(fmt - 3) = "%"
          /\ At(fmt - 2) = "0"
          /\ minimumHexLength = PaddedLength[letter]

AtEntry ==
    Place = "entry" => fmt = 1 /\ va = call.slots /\ log = <<>> /\ minimumHexLength = 0

AtFormat ==
    Place = "format" =>
        /\ fmt \in 1 .. Len(call.format) + 1
        /\ minimumHexLength = 0
        /\ Reached(fmt, va, Seen)

AtInteger ==
    Place = "integer" =>
        \E n \in 0 .. Len(call.format), letter \in IntegerLetters :
            LetterRead(Reading(call.format, call.slots, n), letter)

(* The directive whose text is copied ends at the rune the call looks at.  *)
AtCopy ==
    Place = "copy" =>
        /\ fmt \in 1 .. Len(call.format)
        /\ minimumHexLength = 0
        /\ Reached(fmt + 1, va, Seen \o source)
        /\ \E d \in Semantics!Directives :
               d[Len(d)] # "%" /\ Ends(d, SubSeq(call.format, 1, fmt))

AtEnd ==
    Place = "returned" =>
        IF Refused THEN Seen = <<>> /\ chunk.error = "ErrorWouldCauseOverflow"
        ELSE /\ Seen = Meaning.text
             /\ chunk.error = IF Meaning.valid THEN "NoError" ELSE "ErrorInvalidFormat"

(* What the client is told with a chunk: whether it is full, and whether   *)
(* the format ends where the call will go on.                              *)
ChunkTold ==
    pc \in {"callback", "returned"} =>
        IF chunk.resume = "returned"
        THEN /\ chunk.done = 1
             /\ Refused => Pending = 0
             /\ ~Refused => Pending + 2 <= Size
        ELSE /\ ~Refused
             /\ chunk.error = "NoError"
             /\ pc = "callback" => Pending = Size - 1
             /\ chunk.done = IF At(IF chunk.resume = "format" THEN fmt ELSE fmt + 1) = NUL
                             THEN 1 ELSE 0

(* What the client has been told, and where it ended the call.             *)
ClientTold ==
    /\ \A i \in 1 .. Len(log) : log[i].error = "NoError" \/ (i = Len(log) /\ Returned)
    /\ Returned =>
        /\ log # <<>>
        /\ Last(log).done = chunk.done
        /\ Last(log).error = chunk.error
        /\ call.client = "iterate" => chunk.resume = "returned"
        /\ call.client = "terminal" => chunk.done = 1
        /\ call.client = "into" => formatterError = ErrorRecorded

MeaningInv ==
    /\ call \in Calls
    /\ Place \in {"format", "integer", "copy"} => ~Refused /\ call.format # NullFormat
    /\ AtEntry
    /\ AtFormat
    /\ AtInteger
    /\ AtCopy
    /\ AtEnd
    /\ ChunkTold
    /\ ClientTold
=============================================================================
