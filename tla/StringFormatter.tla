-------------------------- MODULE StringFormatter --------------------------
(***************************************************************************)
(* The formatter of String.c: one call of                                  *)
(* FormatIterativelyIntoBufferUsingExplicitVarags (and of FormatIntoBuffer,*)
(* which wraps it) on a format, its arguments and a buffer of `size' runes.*)
(* The call expands the format into the buffer and hands every chunk to    *)
(* the client's OnNextFormatChunk, which decides whether it goes on.       *)
(*                                                                         *)
(* One step is one turn of a loop: one rune put, one directive read, one   *)
(* callback.  A rune is a value of Runes, the terminator is NUL, and a     *)
(* write outside the buffer makes the domain of `buf' grow.                *)
(***************************************************************************)
EXTENDS Integers, Sequences

CONSTANTS
    Runes,                  \* the non-zero runes
    NUL,                    \* the zero rune
    NullFormat,             \* the format == 0 pointer
    Junk,                   \* what the caller's buffer held before the call
    Words,                  \* uint64_t
    Calls,                  \* the calls the program may make
    HexString(_, _),        \* the runes of Uint64ToZeroPaddedHexString(v, min)
    DecimalString(_),       \* the runes of Uint64ToDecimalString(v)
    IntegerArgument(_, _)   \* the uint64_t a letter of b,s,i,q makes of a va_arg slot

(***************************************************************************)
(* A slot of the va_list is read as a string by %r and as an integer by    *)
(* the other directives; the format decides which of its views is used.    *)
(***************************************************************************)
Slot == [string : Seq(Runes), integer : Words]

(***************************************************************************)
(* The clients of the formatter.  "iterate" takes every chunk (the callback*)
(* returns 0), "into" is FormatIntoBuffer, "terminal" is TextTerminal's    *)
(* callback, and "any" may end the call after any chunk, as the interface  *)
(* lets it.                                                                *)
(***************************************************************************)
Clients == {"iterate", "into", "terminal", "any"}

ASSUME RunesAssumption == /\ {"%", "0", "r", "b", "s", "i", "q", "x", "d"} \subseteq Runes
                          /\ NUL \notin Runes
                          /\ Junk \in Runes \cup {NUL}

Call == [format : Seq(Runes) \cup {NullFormat}, slots : Seq(Slot), size : Nat, client : Clients]

ASSUME CallsAssumption == Calls \subseteq Call

ASSUME WordsAssumption == Words # {}

ASSUME NumberStringsAssumption ==
    \A v \in Words : /\ DecimalString(v) \in Seq(Runes)
                     /\ \A min \in {0, 2, 4, 8, 16} : HexString(v, min) \in Seq(Runes)
                     /\ \A letter \in {"b", "s", "i", "q"} :
                            IntegerArgument(letter, v) \in Words

VARIABLES
    call,               \* the arguments of this call, which it never changes
    pc,                 \* where the call is
    fmt,                \* index in call.format of the rune the code looks at
    va,                 \* the slots va_arg has still to return
    source,             \* the runes of the argument being copied
    integerArgument,    \* the integer a directive has read
    minimumHexLength,   \* the padding a %0 directive asks for
    buf,                \* the runes of inBuffer->String
    glyphs,             \* glyphsWrittenToBufferForThisChunk
    chunk,              \* the arguments of the callback being made, and where it returns to
    log,                \* history: every callback made, with the text it was shown
    formatterError,     \* f->errorFromIterativeToFormat
    result              \* what FormatIntoBuffer returned

vars == <<call, pc, fmt, va, source, integerArgument, minimumHexLength,
          buf, glyphs, chunk, log, formatterError, result>>

Errors == {"NoError", "ErrorWouldCauseOverflow", "ErrorInvalidFormat"}
PCs    == {"entry", "format", "integer", "copy", "callback", "returned"}

Size == call.size

Init ==
    /\ call \in Calls
    /\ pc = "entry"
    /\ fmt = 1
    /\ va = call.slots
    /\ source = <<>>
    /\ integerArgument = CHOOSE w \in Words : TRUE     \* set before it is read
    /\ minimumHexLength = 0
    /\ buf = [i \in 0 .. call.size - 1 |-> Junk]
    /\ glyphs = 0
    /\ chunk = [error |-> "NoError", done |-> 0, resume |-> "format"]
    /\ log = <<>>
    /\ formatterError = "NoError"
    /\ result = "pending"

-----------------------------------------------------------------------------
(* The rune at index i of the format; its terminator follows the last.     *)
At(i) == IF i \in 1 .. Len(call.format) THEN call.format[i] ELSE NUL

(* An assignment to inBuffer->String[i].                                   *)
Write(b, i, r) == [j \in DOMAIN b \cup {i} |-> IF j = i THEN r ELSE b[j]]

(* The callback is about to be made; its return leads to `resume'.         *)
CallBack(error, done, resume) ==
    /\ pc' = "callback"
    /\ chunk' = [error |-> error, done |-> done, resume |-> resume]

(* The chunk has no room for a rune beside its NUL.                        *)
LateFull(n) == n >= Size                \* mutant: one rune too late
Full(n)     == n >= Size - 1

(* What the client of a full chunk is told.                                *)
EarlyDone(last) == IF At(last + 2) = NUL THEN 1 ELSE 0      \* mutant: looks too far
Done(last)      == IF At(last + 1) = NUL THEN 1 ELSE 0

(***************************************************************************)
(* String[glyphs++] = r, and the callback if that fills the chunk.  `last' *)
(* is the rune of the format the code looks at when it puts r: the client  *)
(* is told the text is done when that rune ends the format.                *)
(***************************************************************************)
Put(r, last, resume) ==
    /\ glyphs' = glyphs + 1
    /\ IF Full(glyphs + 1)
       THEN /\ buf' = Write(Write(buf, glyphs, r), Size - 1, NUL)
            /\ CallBack("NoError", Done(last), resume)
       ELSE /\ buf' = Write(buf, glyphs, r)
            /\ pc' = resume
            /\ UNCHANGED chunk

(* The NUL after the last rune put.                                        *)
Untidy     == Write(buf, glyphs + 1, NUL)       \* mutant: counts the NUL first
Terminated == Write(buf, glyphs, NUL)

(* The client's buffer cannot hold a rune and its terminator.              *)
RefuseSmallBuffer ==
    /\ pc = "entry"
    /\ Size < 2
    /\ CallBack("ErrorWouldCauseOverflow", 1, "returned")
    /\ UNCHANGED <<call, fmt, va, source, integerArgument, minimumHexLength,
                   buf, glyphs, log, formatterError, result>>

(* A null format is the empty text.                                        *)
FormatNothing ==
    /\ pc = "entry"
    /\ Size >= 2
    /\ call.format = NullFormat
    /\ buf' = Write(buf, 0, NUL)
    /\ CallBack("NoError", 1, "returned")
    /\ UNCHANGED <<call, fmt, va, source, integerArgument, minimumHexLength,
                   glyphs, log, formatterError, result>>

Start ==
    /\ pc = "entry"
    /\ Size >= 2
    /\ call.format # NullFormat
    /\ pc' = "format"
    /\ UNCHANGED <<call, fmt, va, source, integerArgument, minimumHexLength,
                   buf, glyphs, chunk, log, formatterError, result>>

(* A rune of the format that starts no directive.                          *)
PutPlainRune ==
    /\ pc = "format"
    /\ At(fmt) \notin {"%", NUL}
    /\ Put(At(fmt), fmt, "format")
    /\ fmt' = fmt + 1
    /\ UNCHANGED <<call, va, source, integerArgument, minimumHexLength,
                   log, formatterError, result>>

(* %%                                                                      *)
PutPercent ==
    /\ pc = "format"
    /\ At(fmt) = "%"
    /\ At(fmt + 1) = "%"
    /\ Put("%", fmt + 1, "format")
    /\ fmt' = fmt + 2
    /\ UNCHANGED <<call, va, source, integerArgument, minimumHexLength,
                   log, formatterError, result>>

(* %r reads a slot as a string and starts to copy it.                      *)
ReadString ==
    /\ pc = "format"
    /\ At(fmt) = "%"
    /\ At(fmt + 1) = "r"
    /\ va # <<>>       \* a call that passes too few arguments is undefined
    /\ source' = Head(va).string
    /\ va' = Tail(va)
    /\ fmt' = fmt + 1
    /\ pc' = "copy"
    /\ UNCHANGED <<call, integerArgument, minimumHexLength, buf, glyphs, chunk,
                   log, formatterError, result>>

IntegerLetters == {"b", "s", "i", "q"}

ByteLength   == [b |-> 1, s |-> 2, i |-> 4, q |-> 8]         \* mutant: bytes for nybbles
PaddedLength == [b |-> 2, s |-> 4, i |-> 8, q |-> 16]

(* %b, %s, %i, %q and their %0 forms read a slot as an integer.            *)
ReadInteger ==
    /\ pc = "format"
    /\ At(fmt) = "%"
    /\ va # <<>>
    /\ \E letter \in IntegerLetters :
        /\ \/ /\ At(fmt + 1) = letter
              /\ fmt' = fmt + 2
              /\ UNCHANGED minimumHexLength
           \/ /\ At(fmt + 1) = "0"
              /\ At(fmt + 2) = letter
              /\ fmt' = fmt + 3
              /\ minimumHexLength' = PaddedLength[letter]
        /\ integerArgument' = IntegerArgument(letter, Head(va).integer)
    /\ va' = Tail(va)
    /\ pc' = "integer"
    /\ UNCHANGED <<call, source, buf, glyphs, chunk, log, formatterError, result>>

(* Mutant: the padding stays for the next directive.                       *)
ConvertToHexOnly ==
    /\ pc = "integer"
    /\ At(fmt) = "x"
    /\ source' = HexString(integerArgument, minimumHexLength)
    /\ pc' = "copy"
    /\ UNCHANGED <<call, fmt, va, integerArgument, minimumHexLength, buf, glyphs, chunk,
                   log, formatterError, result>>

(* The x after the letter: hexadecimal.                                    *)
ConvertToHex ==
    /\ pc = "integer"
    /\ At(fmt) = "x"
    /\ source' = HexString(integerArgument, minimumHexLength)
    /\ minimumHexLength' = 0
    /\ pc' = "copy"
    /\ UNCHANGED <<call, fmt, va, integerArgument, buf, glyphs, chunk,
                   log, formatterError, result>>

(* The d after the letter: decimal, which takes no padding.                *)
ConvertToDecimal ==
    /\ pc = "integer"
    /\ At(fmt) = "d"
    /\ minimumHexLength = 0
    /\ source' = DecimalString(integerArgument)
    /\ pc' = "copy"
    /\ UNCHANGED <<call, fmt, va, integerArgument, minimumHexLength, buf, glyphs, chunk,
                   log, formatterError, result>>

CopyRune ==
    /\ pc = "copy"
    /\ source # <<>>
    /\ Put(Head(source), fmt, "copy")
    /\ source' = Tail(source)
    /\ UNCHANGED <<call, fmt, va, integerArgument, minimumHexLength,
                   log, formatterError, result>>

(* Mutant: the directive is read again, until its arguments run out.       *)
EndOfCopyAgain ==
    /\ pc = "copy"
    /\ source = <<>>
    /\ fmt' = fmt - 1
    /\ pc' = "format"
    /\ UNCHANGED <<call, va, source, integerArgument, minimumHexLength, buf, glyphs, chunk,
                   log, formatterError, result>>

EndOfCopy ==
    /\ pc = "copy"
    /\ source = <<>>
    /\ fmt' = fmt + 1
    /\ pc' = "format"
    /\ UNCHANGED <<call, va, source, integerArgument, minimumHexLength, buf, glyphs, chunk,
                   log, formatterError, result>>

(* What follows the % is no directive.                                     *)
UnknownDirective ==
    \/ /\ pc = "format"
       /\ At(fmt) = "%"
       /\ At(fmt + 1) \notin IntegerLetters \cup {"%", "r", "0"}
    \/ /\ pc = "format"
       /\ At(fmt) = "%"
       /\ At(fmt + 1) = "0"
       /\ At(fmt + 2) \notin IntegerLetters
    \/ /\ pc = "integer"
       /\ At(fmt) \notin {"x", "d"}
    \/ /\ pc = "integer"
       /\ At(fmt) = "d"
       /\ minimumHexLength > 0

InvalidFormat ==
    /\ UnknownDirective
    /\ buf' = Terminated
    /\ glyphs' = glyphs + 1
    /\ CallBack("ErrorInvalidFormat", 1, "returned")
    /\ UNCHANGED <<call, fmt, va, source, integerArgument, minimumHexLength,
                   log, formatterError, result>>

(* The end of the format: what the buffer holds is the last chunk.         *)
EndOfFormat ==
    /\ pc = "format"
    /\ At(fmt) = NUL
    /\ buf' = Terminated
    /\ CallBack("NoError", 1, "returned")
    /\ UNCHANGED <<call, fmt, va, source, integerArgument, minimumHexLength,
                   glyphs, log, formatterError, result>>

(***************************************************************************)
(* The client is called.  It reads the buffer up to the first NUL, except  *)
(* when it is refused: then the buffer was never written.                  *)
(***************************************************************************)
Shown == CHOOSE n \in 0 .. Size :
             /\ n = Size \/ buf[n] = NUL
             /\ \A i \in 0 .. n - 1 : buf[i] # NUL

ShownText == IF chunk.error = "ErrorWouldCauseOverflow" THEN <<>>
             ELSE [i \in 1 .. Shown |-> buf[i - 1]]

(* What OnNextFormatChunk may return to the formatter.                     *)
ClientReturns ==
    CASE call.client = "iterate"  -> {0}
      [] call.client = "into"     -> {1}
      [] call.client = "terminal" -> {chunk.done}
      [] OTHER                    -> {0, 1}

(* The error formatIntoBufferChunkCallback leaves in the formatter.        *)
ErrorGiven    == chunk.error        \* mutant: a chunk that is not the last is no error
ErrorRecorded == IF chunk.done = 0 THEN "ErrorWouldCauseOverflow" ELSE "NoError"

(* FormatIntoBuffer returns NoError whatever happened.                     *)
Return ==
    /\ pc' = "returned"
    /\ result' = IF call.client = "into" THEN "NoError" ELSE result
    /\ UNCHANGED glyphs

(* The call goes on with an empty chunk.                                   *)
ResumeInPlace == pc' = chunk.resume /\ UNCHANGED <<glyphs, result>>   \* mutant: no reset
Resume        == pc' = chunk.resume /\ glyphs' = 0 /\ UNCHANGED result

Callback ==
    /\ pc = "callback"
    /\ log' = Append(log, [text  |-> ShownText,
                           error |-> chunk.error,
                           done  |-> chunk.done])
    /\ formatterError' = IF call.client = "into" THEN ErrorRecorded ELSE formatterError
    /\ \E stop \in ClientReturns :
        IF stop # 0 \/ chunk.resume = "returned"
        THEN Return
        ELSE Resume
    /\ UNCHANGED <<call, fmt, va, source, integerArgument, minimumHexLength, buf, chunk>>

Next ==
    \/ RefuseSmallBuffer \/ FormatNothing \/ Start
    \/ PutPlainRune \/ PutPercent
    \/ ReadString \/ ReadInteger \/ ConvertToHex \/ ConvertToDecimal
    \/ CopyRune \/ EndOfCopy
    \/ InvalidFormat \/ EndOfFormat
    \/ Callback

Spec == Init /\ [][Next]_vars

(* The formatter is one thread that keeps running, and every client returns.*)
FairSpec == Spec /\ WF_vars(Next)

-----------------------------------------------------------------------------
Chunks == [error : Errors, done : {0, 1}, resume : {"format", "copy", "returned"}]

LogEntries == [text : Seq(Runes), error : Errors, done : {0, 1}]

(* The type of the state: what each variable may hold.                     *)
TypeOK ==
    /\ call \in Call
    /\ pc \in PCs
    /\ fmt \in Nat \ {0}
    /\ va \in Seq(Slot)
    /\ source \in Seq(Runes)
    /\ integerArgument \in Words
    /\ minimumHexLength \in {0, 2, 4, 8, 16}
    /\ buf \in [DOMAIN buf -> Runes \cup {NUL}]
    /\ glyphs \in Nat
    /\ chunk \in Chunks
    /\ log \in Seq(LogEntries)
    /\ formatterError \in Errors
    /\ result \in {"pending", "NoError"}

(***************************************************************************)
(* No write of the formatter falls outside the caller's buffer: neither a  *)
(* rune, nor the NUL that closes a full chunk, the last chunk or the chunk *)
(* an unknown directive cuts short (String.c:167-187, 227-257, 269).       *)
(***************************************************************************)
BufferInBounds == DOMAIN buf = 0 .. Size - 1

(* The runes of the chunk a callback shows; an unknown directive counts    *)
(* its NUL as one.                                                         *)
RunesInChunk == IF chunk.error = "ErrorInvalidFormat" THEN glyphs - 1 ELSE glyphs

(***************************************************************************)
(* When the client is called, the runes put since the last callback are    *)
(* followed by a NUL and hold none: the client reads exactly the new chunk,*)
(* never past the buffer and never a rune an earlier chunk left there.     *)
(***************************************************************************)
ChunkTerminated ==
    pc = "callback" /\ chunk.error # "ErrorWouldCauseOverflow" =>
        /\ RunesInChunk \in 0 .. Size - 1
        /\ buf[RunesInChunk] = NUL
        /\ \A i \in 0 .. RunesInChunk - 1 : buf[i] # NUL

(***************************************************************************)
(* The inductive invariant.  Between callbacks there is room for a rune    *)
(* and for the NUL that would follow it, and every rune put so far is in   *)
(* its place.                                                              *)
(***************************************************************************)
RoomForRune ==
    pc \in {"format", "integer", "copy"} => glyphs + 2 <= Size

RunesPut ==
    pc \in {"format", "integer", "copy"} =>
        \A i \in 0 .. glyphs - 1 : buf[i] # NUL

EntryState == pc = "entry" => glyphs = 0

FormatState == pc \in {"format", "integer", "copy"} => call.format # NullFormat

(* Nothing is resumed after the callback of a refused call or a null format*)
CallbackState ==
    pc = "callback" =>
        /\ Size < 2 => chunk.resume = "returned" /\ chunk.error = "ErrorWouldCauseOverflow"
        /\ Size >= 2 => chunk.error # "ErrorWouldCauseOverflow"
        /\ chunk.resume # "returned" => call.format # NullFormat

IndInv ==
    /\ TypeOK
    /\ BufferInBounds
    /\ ChunkTerminated
    /\ RoomForRune
    /\ RunesPut
    /\ EntryState
    /\ FormatState
    /\ CallbackState
=============================================================================
