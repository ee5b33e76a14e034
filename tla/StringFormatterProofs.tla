----------------------- MODULE StringFormatterProofs -----------------------
(***************************************************************************)
(* What holds of the formatter for every format, buffer, client and number *)
(* string.  The first part is about memory: the state is well typed, no    *)
(* write leaves the buffer, and every chunk the client is shown is         *)
(* terminated and holds its own runes.  The second is about meaning: the   *)
(* call follows the reading of its format (MeaningInv), so that the chunks *)
(* cut the text the format means, and the client is told of what failed.   *)
(*                                                                         *)
(* A recursive function such as Readings is, to the prover, a CHOOSE whose *)
(* existence has to be proved.  SetInduction, which follows from the well- *)
(* foundedness of < on Nat, does the inductions.                           *)
(***************************************************************************)
EXTENDS StringFormatterMeaning, SequenceTheorems, WellFoundedInduction, TLAPS

Cells == Runes \cup {NUL}

(* A write inside a buffer of n runes leaves a buffer of n runes that      *)
(* differs in the rune written.                                            *)
LEMMA WriteInside ==
    ASSUME NEW n \in Nat, NEW b \in [0 .. n - 1 -> Cells],
           NEW i \in 0 .. n - 1, NEW r \in Cells
    PROVE  /\ Write(b, i, r) \in [0 .. n - 1 -> Cells]
           /\ Write(b, i, r)[i] = r
           /\ \A j \in 0 .. n - 1 : j # i => Write(b, i, r)[j] = b[j]
<1>1. DOMAIN b \cup {i} = 0 .. n - 1
  OBVIOUS
<1>2. Write(b, i, r) = [j \in 0 .. n - 1 |-> IF j = i THEN r ELSE b[j]]
  BY <1>1 DEF Write
<1> QED
  BY <1>2

(* A rune of the format is a rune.                                         *)
LEMMA AtType ==
    ASSUME call \in Call, call.format # NullFormat, NEW i \in Int, At(i) # NUL
    PROVE  At(i) \in Runes
<1>1. call.format \in Seq(Runes)
  BY DEF Call
<1> QED
  BY <1>1 DEF At

(* The buffer as the invariant knows it.                                   *)
LEMMA BufferType ==
    ASSUME TypeOK, BufferInBounds
    PROVE  Size \in Nat /\ buf \in [0 .. Size - 1 -> Cells]
BY DEF TypeOK, BufferInBounds, Size, Call, Cells

(* Putting a rune where there is room for it keeps the buffer, and either  *)
(* leaves room for the next or fills the chunk and calls the client.       *)
LEMMA PutKeepsBuffer ==
    ASSUME IndInv, pc \in {"format", "copy"},
           NEW r \in Runes, NEW last, NEW resume \in {"format", "copy"},
           Put(r, last, resume), UNCHANGED call
    PROVE  /\ buf' \in [DOMAIN buf' -> Cells]
           /\ glyphs' \in Nat
           /\ chunk' \in Chunks
           /\ pc' \in {"callback", "format", "copy"}
           /\ BufferInBounds'
           /\ ChunkTerminated'
           /\ RoomForRune'
           /\ RunesPut'
           /\ EntryState'
           /\ FormatState'
           /\ CallbackState'
<1>1. Size \in Nat /\ Size' = Size /\ buf \in [0 .. Size - 1 -> Cells]
  BY BufferType DEF IndInv, Size
<1>2. glyphs \in Nat /\ glyphs + 2 <= Size /\ \A i \in 0 .. glyphs - 1 : buf[i] # NUL
  BY DEF IndInv, TypeOK, RoomForRune, RunesPut
<1>3. r \in Cells /\ NUL \in Cells /\ r # NUL
  BY RunesAssumption DEF Cells
<1>3a. call.format # NullFormat
  BY DEF IndInv, FormatState
<1>4. glyphs' = glyphs + 1
  BY DEF Put
<1> DEFINE once == Write(buf, glyphs, r)
<1>5. /\ once \in [0 .. Size - 1 -> Cells]
      /\ once[glyphs] = r
      /\ \A j \in 0 .. Size - 1 : j # glyphs => once[j] = buf[j]
  BY <1>1, <1>2, <1>3, WriteInside, glyphs \in 0 .. Size - 1
<1>6. \A i \in 0 .. glyphs : once[i] # NUL
  BY <1>1, <1>2, <1>3, <1>5
<1>7. CASE glyphs + 1 >= Size - 1
  <2> DEFINE full == Write(once, Size - 1, NUL)
  <2>1. /\ buf' = full
        /\ pc' = "callback"
        /\ chunk' = [error |-> "NoError", done |-> IF At(last + 1) = NUL THEN 1 ELSE 0,
                     resume |-> resume]
    BY <1>7 DEF Put, Full, Done, CallBack
  <2>2. Size - 1 \in 0 .. Size - 1 /\ glyphs + 1 = Size - 1
    BY <1>1, <1>2, <1>7
  <2>3. /\ full \in [0 .. Size - 1 -> Cells]
        /\ full[Size - 1] = NUL
        /\ \A j \in 0 .. Size - 1 : j # Size - 1 => full[j] = once[j]
    <3> HIDE DEF once
    <3> QED BY <1>1, <1>3, <1>5, <2>2, WriteInside
  <2>4. chunk' \in Chunks
    BY <2>1 DEF Chunks, Errors
  <2>5. BufferInBounds' /\ buf' \in [DOMAIN buf' -> Cells]
    BY <1>1, <2>1, <2>3 DEF BufferInBounds
  <2>6. ChunkTerminated'
    <3>1. RunesInChunk' = Size - 1
      BY <1>4, <2>1, <2>2 DEF RunesInChunk
    <3>2. \A i \in 0 .. Size - 2 : full[i] # NUL
      <4> HIDE DEF once, full
      <4> QED BY <1>1, <1>2, <1>6, <2>2, <2>3
    <3> HIDE DEF once, full
    <3> QED BY <1>1, <2>1, <2>2, <2>3, <3>1, <3>2 DEF ChunkTerminated
  <2>7. RoomForRune' /\ RunesPut' /\ EntryState' /\ FormatState' /\ CallbackState'
    BY <1>1, <1>2, <1>3a, <2>1 DEF RoomForRune, RunesPut, EntryState, FormatState, CallbackState
  <2> QED
    BY <1>2, <1>4, <2>1, <2>4, <2>5, <2>6, <2>7
<1>8. CASE ~(glyphs + 1 >= Size - 1)
  <2>1. buf' = once /\ pc' = resume /\ chunk' = chunk
    BY <1>8 DEF Put, Full
  <2>2. chunk' \in Chunks
    BY <2>1 DEF IndInv, TypeOK
  <2> HIDE DEF once
  <2>3. BufferInBounds' /\ buf' \in [DOMAIN buf' -> Cells]
    BY <1>1, <1>5, <2>1 DEF BufferInBounds
  <2>4. RoomForRune' /\ RunesPut'
    BY <1>1, <1>2, <1>4, <1>6, <1>8, <2>1 DEF RoomForRune, RunesPut
  <2>5. ChunkTerminated' /\ EntryState' /\ FormatState' /\ CallbackState'
    BY <1>3a, <2>1 DEF ChunkTerminated, EntryState, FormatState, CallbackState
  <2> QED
    BY <1>2, <1>4, <2>1, <2>2, <2>3, <2>4, <2>5
<1> QED
  BY <1>7, <1>8

(* Closing the chunk with a NUL behind the runes put so far.               *)
LEMMA CloseChunk ==
    ASSUME IndInv, Size >= 2,
           glyphs + 1 <= Size, \A i \in 0 .. glyphs - 1 : buf[i] # NUL,
           buf' = Write(buf, glyphs, NUL), UNCHANGED call
    PROVE  /\ buf' \in [DOMAIN buf' -> Cells]
           /\ BufferInBounds'
           /\ buf'[glyphs] = NUL
           /\ \A i \in 0 .. glyphs - 1 : buf'[i] # NUL
           /\ glyphs \in 0 .. Size - 1
<1>1. Size \in Nat /\ Size' = Size /\ buf \in [0 .. Size - 1 -> Cells]
  BY BufferType DEF IndInv, Size
<1>2. glyphs \in 0 .. Size - 1 /\ NUL \in Cells
  BY <1>1 DEF IndInv, TypeOK, Cells
<1>3. /\ buf' \in [0 .. Size - 1 -> Cells]
      /\ buf'[glyphs] = NUL
      /\ \A j \in 0 .. Size - 1 : j # glyphs => buf'[j] = buf[j]
  BY <1>1, <1>2, WriteInside
<1> QED
  BY <1>1, <1>2, <1>3 DEF BufferInBounds

(* The text a client reads: the runes of the chunk, and nothing else.      *)
LEMMA ShownTextIsChunk ==
    ASSUME IndInv, pc = "callback"
    PROVE  ShownText \in Seq(Runes)
<1>1. CASE chunk.error = "ErrorWouldCauseOverflow"
  BY <1>1 DEF ShownText
<1>2. CASE chunk.error # "ErrorWouldCauseOverflow"
  <2>1. Size \in Nat /\ buf \in [0 .. Size - 1 -> Cells]
    BY BufferType DEF IndInv
  <2> DEFINE n == RunesInChunk
  <2>2. n \in 0 .. Size - 1 /\ buf[n] = NUL /\ \A i \in 0 .. n - 1 : buf[i] # NUL
    BY <1>2 DEF IndInv, ChunkTerminated
  <2> HIDE DEF n
  <2>3. /\ Shown \in 0 .. Size
        /\ Shown = Size \/ buf[Shown] = NUL
        /\ \A i \in 0 .. Shown - 1 : buf[i] # NUL
    <3>1. \E m \in 0 .. Size : /\ m = Size \/ buf[m] = NUL
                              /\ \A i \in 0 .. m - 1 : buf[i] # NUL
      BY <2>1, <2>2
    <3> QED
      BY <3>1 DEF Shown
  <2>4. \A i \in 1 .. Shown : buf[i - 1] \in Runes
    BY <2>1, <2>3 DEF Cells
  <2> QED
    BY <1>2, <2>1, <2>3, <2>4 DEF ShownText
<1> QED
  BY <1>1, <1>2

(* The initial states satisfy the invariant.                               *)
LEMMA InitIndInv == Init => IndInv
<1> SUFFICES ASSUME Init PROVE IndInv
  OBVIOUS
<1>1. call \in Call /\ Size \in Nat /\ call.slots \in Seq(Slot)
  BY CallsAssumption DEF Init, Call, Size
<1>2. integerArgument \in Words
  BY WordsAssumption DEF Init
<1>3. buf \in [0 .. Size - 1 -> Cells] /\ buf \in [DOMAIN buf -> Cells]
  BY RunesAssumption DEF Init, Cells, Size
<1>4. chunk \in Chunks
  BY DEF Init, Chunks, Errors
<1>5. TypeOK
  <2>1. va \in Seq(Slot) /\ source \in Seq(Runes) /\ log \in Seq(LogEntries)
    BY <1>1 DEF Init
  <2>2. pc \in PCs /\ fmt \in Nat \ {0} /\ minimumHexLength \in {0, 2, 4, 8, 16} /\ glyphs \in Nat
    BY DEF Init, PCs
  <2>3. formatterError \in Errors /\ result \in {"pending", "NoError"}
    BY DEF Init, Errors
  <2> QED
    BY <1>1, <1>2, <1>3, <1>4, <2>1, <2>2, <2>3 DEF TypeOK, Cells
<1> QED
  BY <1>3, <1>5 DEF Init, IndInv, BufferInBounds, ChunkTerminated, RoomForRune, RunesPut,
                    EntryState, FormatState, CallbackState

(* Every step keeps it: a case per action.                                 *)
LEMMA NextIndInv == IndInv /\ [Next]_vars => IndInv'
<1> SUFFICES ASSUME IndInv, [Next]_vars PROVE IndInv'
  OBVIOUS
<1> USE DEF Size
<1>a. TypeOK
  BY DEF IndInv
<1>b. Size \in Nat /\ buf \in [DOMAIN buf -> Cells] /\ DOMAIN buf = 0 .. Size - 1
  BY <1>a DEF TypeOK, IndInv, BufferInBounds, Call, Cells
<1>c. \A i \in Int : call.format # NullFormat /\ At(i) # NUL => At(i) \in Runes
  BY <1>a, AtType DEF TypeOK
<1>d. va # <<>> => Head(va) \in Slot /\ Tail(va) \in Seq(Slot)
  BY <1>a DEF TypeOK
<1>e. source # <<>> => Head(source) \in Runes /\ Tail(source) \in Seq(Runes)
  BY <1>a DEF TypeOK
<1>1. CASE RefuseSmallBuffer
  <2>1. chunk' \in Chunks
    BY <1>1 DEF RefuseSmallBuffer, CallBack, Chunks, Errors
  <2>2. TypeOK'
    BY <1>1, <1>a, <2>1 DEF RefuseSmallBuffer, CallBack, TypeOK, PCs
  <2> QED
    BY <1>1, <1>b, <2>2 DEF IndInv, RefuseSmallBuffer, CallBack, BufferInBounds, ChunkTerminated,
                            RoomForRune, RunesPut, EntryState, FormatState, CallbackState
<1>2. CASE FormatNothing
  <2>1. glyphs = 0
    BY <1>2 DEF FormatNothing, IndInv, EntryState
  <2>2. /\ buf' \in [DOMAIN buf' -> Cells]
        /\ BufferInBounds'
        /\ buf'[glyphs] = NUL
        /\ glyphs \in 0 .. Size - 1
    BY <1>2, <1>b, <2>1, CloseChunk DEF FormatNothing
  <2>3. chunk' \in Chunks
    BY <1>2 DEF FormatNothing, CallBack, Chunks, Errors
  <2>4. TypeOK'
    BY <1>2, <1>a, <2>2, <2>3 DEF FormatNothing, CallBack, TypeOK, PCs, Cells
  <2> QED
    BY <1>2, <1>b, <2>1, <2>2, <2>4
       DEF IndInv, FormatNothing, CallBack, ChunkTerminated, RunesInChunk,
           RoomForRune, RunesPut, EntryState, FormatState, CallbackState
<1>3. CASE Start
  <2>1. TypeOK'
    BY <1>3, <1>a DEF Start, TypeOK, PCs
  <2> QED
    BY <1>3, <1>b, <2>1 DEF IndInv, Start, BufferInBounds, ChunkTerminated, RoomForRune,
                            RunesPut, EntryState, FormatState, CallbackState
<1>4. CASE PutPlainRune
  <2>1. At(fmt) \in Runes
    BY <1>4, <1>a, <1>c DEF PutPlainRune, TypeOK, IndInv, FormatState
  <2>2. /\ buf' \in [DOMAIN buf' -> Cells] /\ glyphs' \in Nat /\ chunk' \in Chunks
        /\ pc' \in {"callback", "format", "copy"}
        /\ BufferInBounds' /\ ChunkTerminated' /\ RoomForRune' /\ RunesPut'
        /\ EntryState' /\ FormatState' /\ CallbackState'
    BY <1>4, <2>1, PutKeepsBuffer DEF PutPlainRune
  <2>3. TypeOK'
    BY <1>4, <1>a, <2>2 DEF PutPlainRune, TypeOK, PCs, Cells
  <2> QED
    BY <2>2, <2>3 DEF IndInv
<1>5. CASE PutPercent
  <2>1. "%" \in Runes
    BY RunesAssumption
  <2>2. /\ buf' \in [DOMAIN buf' -> Cells] /\ glyphs' \in Nat /\ chunk' \in Chunks
        /\ pc' \in {"callback", "format", "copy"}
        /\ BufferInBounds' /\ ChunkTerminated' /\ RoomForRune' /\ RunesPut'
        /\ EntryState' /\ FormatState' /\ CallbackState'
    BY <1>5, <2>1, PutKeepsBuffer DEF PutPercent
  <2>3. TypeOK'
    BY <1>5, <1>a, <2>2 DEF PutPercent, TypeOK, PCs, Cells
  <2> QED
    BY <2>2, <2>3 DEF IndInv
<1>6. CASE ReadString
  <2>1. TypeOK'
    BY <1>6, <1>a, <1>d DEF ReadString, TypeOK, PCs, Slot
  <2> QED
    BY <1>6, <2>1 DEF IndInv, ReadString, BufferInBounds, ChunkTerminated, RoomForRune,
                      RunesPut, EntryState, FormatState, CallbackState
<1>7. CASE ReadInteger
  <2>1. /\ va' = Tail(va) /\ pc' = "integer" /\ pc = "format" /\ va # <<>>
        /\ UNCHANGED <<call, source, buf, glyphs, chunk, log, formatterError, result>>
    BY <1>7 DEF ReadInteger
  <2>2. PICK letter \in IntegerLetters :
          /\ \/ fmt' = fmt + 2 /\ minimumHexLength' = minimumHexLength
             \/ fmt' = fmt + 3 /\ minimumHexLength' = PaddedLength[letter]
          /\ integerArgument' = IntegerArgument(letter, Head(va).integer)
    BY <1>7 DEF ReadInteger
  <2>3. Head(va).integer \in Words
    BY <1>d, <2>1 DEF Slot
  <2>4. integerArgument' \in Words
    BY <2>2, <2>3, NumberStringsAssumption DEF IntegerLetters
  <2>5. fmt' \in Nat \ {0} /\ minimumHexLength' \in {0, 2, 4, 8, 16}
    BY <1>a, <2>2 DEF TypeOK, IntegerLetters, PaddedLength
  <2>6. TypeOK'
    BY <1>a, <1>d, <2>1, <2>4, <2>5 DEF TypeOK, PCs
  <2> QED
    BY <2>1, <2>6 DEF IndInv, BufferInBounds, ChunkTerminated, RoomForRune,
                      RunesPut, EntryState, FormatState, CallbackState
<1>8. CASE ConvertToHex
  <2>1. source' \in Seq(Runes)
    BY <1>8, <1>a, NumberStringsAssumption DEF ConvertToHex, TypeOK
  <2>2. TypeOK'
    BY <1>8, <1>a, <2>1 DEF ConvertToHex, TypeOK, PCs
  <2> QED
    BY <1>8, <2>2 DEF IndInv, ConvertToHex, BufferInBounds, ChunkTerminated, RoomForRune,
                      RunesPut, EntryState, FormatState, CallbackState
<1>9. CASE ConvertToDecimal
  <2>1. source' \in Seq(Runes)
    BY <1>9, <1>a, NumberStringsAssumption DEF ConvertToDecimal, TypeOK
  <2>2. TypeOK'
    BY <1>9, <1>a, <2>1 DEF ConvertToDecimal, TypeOK, PCs
  <2> QED
    BY <1>9, <2>2 DEF IndInv, ConvertToDecimal, BufferInBounds, ChunkTerminated, RoomForRune,
                      RunesPut, EntryState, FormatState, CallbackState
<1>10. CASE CopyRune
  <2>1. /\ buf' \in [DOMAIN buf' -> Cells] /\ glyphs' \in Nat /\ chunk' \in Chunks
        /\ pc' \in {"callback", "format", "copy"}
        /\ BufferInBounds' /\ ChunkTerminated' /\ RoomForRune' /\ RunesPut'
        /\ EntryState' /\ FormatState' /\ CallbackState'
    BY <1>10, <1>e, PutKeepsBuffer DEF CopyRune
  <2>2. TypeOK'
    BY <1>10, <1>a, <1>e, <2>1 DEF CopyRune, TypeOK, PCs, Cells
  <2> QED
    BY <2>1, <2>2 DEF IndInv
<1>11. CASE EndOfCopy
  <2>1. TypeOK'
    BY <1>11, <1>a DEF EndOfCopy, TypeOK, PCs
  <2> QED
    BY <1>11, <2>1 DEF IndInv, EndOfCopy, BufferInBounds, ChunkTerminated, RoomForRune,
                       RunesPut, EntryState, FormatState, CallbackState
<1>12. CASE InvalidFormat
  <2>1. pc \in {"format", "integer"}
    BY <1>12 DEF InvalidFormat, UnknownDirective
  <2>2. glyphs \in Nat /\ glyphs + 2 <= Size /\ \A i \in 0 .. glyphs - 1 : buf[i] # NUL
    BY <1>a, <2>1 DEF IndInv, TypeOK, RoomForRune, RunesPut
  <2>3. /\ buf' = Write(buf, glyphs, NUL)
        /\ glyphs' = glyphs + 1
        /\ pc' = "callback"
        /\ chunk' = [error |-> "ErrorInvalidFormat", done |-> 1, resume |-> "returned"]
        /\ UNCHANGED <<call, fmt, va, source, integerArgument, minimumHexLength,
                       log, formatterError, result>>
    BY <1>12 DEF InvalidFormat, Terminated, CallBack
  <2>4. /\ buf' \in [DOMAIN buf' -> Cells]
        /\ BufferInBounds'
        /\ buf'[glyphs] = NUL
        /\ \A i \in 0 .. glyphs - 1 : buf'[i] # NUL
        /\ glyphs \in 0 .. Size - 1
    BY <1>b, <2>2, <2>3, CloseChunk
  <2>5. TypeOK'
    BY <1>a, <2>2, <2>3, <2>4 DEF TypeOK, PCs, Chunks, Errors, Cells
  <2>6. ChunkTerminated'
    <3>1. RunesInChunk' = glyphs
      BY <2>2, <2>3 DEF RunesInChunk
    <3> QED
      BY <1>b, <2>3, <2>4, <3>1 DEF ChunkTerminated
  <2> QED
    BY <1>b, <2>2, <2>3, <2>4, <2>5, <2>6
       DEF IndInv, RoomForRune, RunesPut, EntryState, FormatState, CallbackState
<1>13. CASE EndOfFormat
  <2>1. glyphs \in Nat /\ glyphs + 2 <= Size /\ \A i \in 0 .. glyphs - 1 : buf[i] # NUL
    BY <1>13, <1>a DEF EndOfFormat, IndInv, TypeOK, RoomForRune, RunesPut
  <2>2. /\ buf' = Write(buf, glyphs, NUL)
        /\ pc' = "callback"
        /\ chunk' = [error |-> "NoError", done |-> 1, resume |-> "returned"]
        /\ UNCHANGED <<call, fmt, va, source, integerArgument, minimumHexLength,
                       glyphs, log, formatterError, result>>
    BY <1>13 DEF EndOfFormat, Terminated, CallBack
  <2>3. /\ buf' \in [DOMAIN buf' -> Cells]
        /\ BufferInBounds'
        /\ buf'[glyphs] = NUL
        /\ \A i \in 0 .. glyphs - 1 : buf'[i] # NUL
        /\ glyphs \in 0 .. Size - 1
    BY <1>b, <2>1, <2>2, CloseChunk
  <2>4. TypeOK'
    BY <1>a, <2>2, <2>3 DEF TypeOK, PCs, Chunks, Errors, Cells
  <2>5. ChunkTerminated'
    BY <1>b, <2>2, <2>3 DEF ChunkTerminated, RunesInChunk
  <2> QED
    BY <1>b, <2>1, <2>2, <2>3, <2>4, <2>5
       DEF IndInv, RoomForRune, RunesPut, EntryState, FormatState, CallbackState
<1>14. CASE Callback
  <2>1. /\ pc = "callback"
        /\ log' = Append(log, [text |-> ShownText, error |-> chunk.error, done |-> chunk.done])
        /\ formatterError' = IF call.client = "into" THEN ErrorRecorded ELSE formatterError
        /\ UNCHANGED <<call, fmt, va, source, integerArgument, minimumHexLength, buf, chunk>>
    BY <1>14 DEF Callback
  <2>2. \/ pc' = "returned" /\ glyphs' = glyphs /\ result' \in {"pending", "NoError"}
        \/ /\ chunk.resume # "returned" /\ pc' = chunk.resume
           /\ glyphs' = 0 /\ result' = result
    BY <1>14, <1>a DEF Callback, Return, Resume, TypeOK
  <2>3. log' \in Seq(LogEntries)
    <3>1. [text |-> ShownText, error |-> chunk.error, done |-> chunk.done] \in LogEntries
      BY <1>a, <2>1, ShownTextIsChunk DEF TypeOK, LogEntries, Chunks
    <3> QED
      BY <1>a, <2>1, <3>1 DEF TypeOK
  <2>4. formatterError' \in Errors
    BY <1>a, <2>1 DEF TypeOK, ErrorRecorded, Errors
  <2>5. pc' \in {"format", "copy", "returned"} /\ glyphs' \in Nat /\ result' \in {"pending", "NoError"}
    BY <1>a, <2>2 DEF TypeOK, Chunks
  <2>6. TypeOK'
    BY <1>a, <2>1, <2>3, <2>4, <2>5 DEF TypeOK, PCs
  <2>7. pc' # "returned" => Size >= 2 /\ glyphs' = 0 /\ call.format # NullFormat
    BY <1>b, <2>1, <2>2 DEF IndInv, CallbackState
  <2> QED
    BY <1>b, <2>1, <2>5, <2>6, <2>7
       DEF IndInv, BufferInBounds, ChunkTerminated, RoomForRune, RunesPut,
           EntryState, FormatState, CallbackState
<1>15. CASE UNCHANGED vars
  BY <1>15 DEF vars, IndInv, TypeOK, BufferInBounds, ChunkTerminated, RunesInChunk, RoomForRune,
               RunesPut, EntryState, FormatState, CallbackState
<1> QED
  BY <1>1, <1>2, <1>3, <1>4, <1>5, <1>6, <1>7, <1>8, <1>9, <1>10, <1>11, <1>12, <1>13, <1>14,
     <1>15 DEF Next

-----------------------------------------------------------------------------
(* The invariant holds in every reachable state.                           *)
THEOREM Invariance == Spec => []IndInv
<1>1. Init => IndInv
  BY InitIndInv
<1>2. IndInv /\ [Next]_vars => IndInv'
  BY NextIndInv
<1> QED
  BY <1>1, <1>2, PTL DEF Spec

(* The state of a call is well typed, whatever the format and its          *)
(* arguments: no turn of the loops of String.c:104-271 leaves it.          *)
THEOREM TypeCorrect == Spec => []TypeOK
<1>1. IndInv => TypeOK
  BY DEF IndInv
<1> QED
  BY <1>1, Invariance, PTL

(* For every buffer size and every format the formatter writes inside the  *)
(* buffer it is given (String.c:104-271).                                  *)
THEOREM WritesInsideBuffer == Spec => []BufferInBounds
<1>1. IndInv => BufferInBounds
  BY DEF IndInv
<1> QED
  BY <1>1, Invariance, PTL

(* Every chunk a client is shown is terminated inside the buffer and holds *)
(* exactly the runes put since the last one (String.c:104-271).            *)
THEOREM ChunksTerminated == Spec => []ChunkTerminated
<1>1. IndInv => ChunkTerminated
  BY DEF IndInv
<1> QED
  BY <1>1, Invariance, PTL

-----------------------------------------------------------------------------
(***************************************************************************)
(* Sets of numbers, and the readings of a format.                          *)
(***************************************************************************)

(* A set of numbers that holds 0 and the successor of each of its numbers  *)
(* holds them all.                                                         *)
LEMMA SetInduction ==
    ASSUME NEW S, 0 \in S, \A n \in Nat : n \in S => n + 1 \in S
    PROVE  Nat \subseteq S
<1> SUFFICES ASSUME NEW m \in Nat, m \notin S PROVE FALSE
  OBVIOUS
<1> DEFINE R == {p \in Nat \X Nat : p[1] < p[2]}
           T == Nat \ S
<1>1. IsWellFoundedOn(R, Nat)
  BY NatLessThanWellFounded DEF OpToRel
<1>2. T \subseteq Nat /\ T # {}
  OBVIOUS
<1> HIDE DEF R, T
<1>3. PICK x \in T : \A y \in T : ~ (<<y, x>> \in R)
  BY <1>1, <1>2, WFMin
<1> USE DEF R, T
<1>4. x \in Nat /\ x \notin S /\ x # 0
  BY <1>3
<1>5. x - 1 \in Nat /\ <<x - 1, x>> \in R
  BY <1>4
<1>6. x - 1 \in S
  <2> HIDE DEF R
  <2> QED BY <1>3, <1>5
<1> QED
  BY <1>4, <1>5, <1>6

(* The readings of a format are what their definition says.                *)
LEMMA ReadingsDefined ==
    ASSUME NEW format \in Seq(Runes), NEW slots
    PROVE  Semantics!Readings(format, slots) =
             [n \in 0 .. Len(format) |->
                 IF n = 0 THEN Semantics!Unread(format, slots)
                 ELSE Semantics!Advance(Semantics!Readings(format, slots)[n - 1])]
<1> DEFINE Reads(r, m) == r = [n \in 0 .. m |-> IF n = 0 THEN Semantics!Unread(format, slots)
                                                ELSE Semantics!Advance(r[n - 1])]
           S == {m \in Nat : \E r : Reads(r, m)}
<1>1. 0 \in S
  <2> DEFINE r == [n \in 0 .. 0 |-> Semantics!Unread(format, slots)]
  <2>1. Reads(r, 0)
    OBVIOUS
  <2> QED
    BY <2>1
<1>2. ASSUME NEW m \in Nat, m \in S PROVE m + 1 \in S
  <2>1. PICK r : Reads(r, m)
    BY <1>2
  <2> DEFINE q == [n \in 0 .. m + 1 |-> IF n = m + 1 THEN Semantics!Advance(r[m]) ELSE r[n]]
  <2>2. ASSUME NEW n \in 0 .. m + 1
        PROVE  q[n] = IF n = 0 THEN Semantics!Unread(format, slots) ELSE Semantics!Advance(q[n - 1])
    <3>1. CASE n = m + 1
      BY <3>1
    <3>2. CASE n # m + 1
      <4>1. n \in 0 .. m
        BY <3>2
      <4>2. q[n] = r[n] /\ (n # 0 => n - 1 \in 0 .. m /\ q[n - 1] = r[n - 1])
        BY <4>1
      <4>3. r[n] = IF n = 0 THEN Semantics!Unread(format, slots) ELSE Semantics!Advance(r[n - 1])
        BY <2>1, <4>1
      <4> HIDE DEF q
      <4> QED
        BY <4>2, <4>3
    <3> QED
      BY <3>1, <3>2
  <2>3. Reads(q, m + 1)
    BY <2>2
  <2> HIDE DEF Reads, q
  <2> QED
    BY <2>3
<1>3. Len(format) \in S
  <2> HIDE DEF S
  <2> QED BY <1>1, <1>2, SetInduction
<1>4. \E r : Reads(r, Len(format))
  BY <1>3
<1>5. Reads(CHOOSE r : Reads(r, Len(format)), Len(format))
  <2> HIDE DEF Reads
  <2> QED BY <1>4, Zenon
<1>6. Semantics!Readings(format, slots) = CHOOSE r : Reads(r, Len(format))
  BY Zenon DEF Semantics!Readings
<1> QED
  BY <1>5, <1>6, Zenon

-----------------------------------------------------------------------------
(***************************************************************************)
(* FlattenSeq.                                                             *)
(***************************************************************************)

(* What FlattenSeq computes, from the left.                                *)
Flattens(f, s, D) ==
    /\ FlattenSeq(s) = f[Len(s)]
    /\ \A i \in 1 .. Len(s) : f[i] \in Seq(D)
    /\ f[1] = s[1]
    /\ \A i \in 1 .. Len(s) - 1 : f[i + 1] = f[i] \o s[i + 1]

(* A sequence of texts has such a flattening, the empty sequence apart.    *)
LEMMA FlattenDefined ==
    ASSUME NEW D, NEW s \in Seq(Seq(D)), s # <<>>
    PROVE  \E f : Flattens(f, s, D)
<1> DEFINE Flat(f, m) == f = [i \in 1 .. m |-> IF i = 1 THEN s[i] ELSE f[i - 1] \o s[i]]
           S == {m \in Nat : \E f : Flat(f, m)}
           L == Len(s)
<1>1. 0 \in S
  <2>1. Flat([i \in 1 .. 0 |-> <<>>], 0)
    OBVIOUS
  <2> QED
    BY <2>1
<1>2. ASSUME NEW m \in Nat, m \in S PROVE m + 1 \in S
  <2>1. PICK f : Flat(f, m)
    BY <1>2
  <2> DEFINE g == [i \in 1 .. m + 1 |->
                      IF i = m + 1 THEN (IF i = 1 THEN s[i] ELSE f[m] \o s[i]) ELSE f[i]]
  <2>2. ASSUME NEW i \in 1 .. m + 1
        PROVE  g[i] = IF i = 1 THEN s[i] ELSE g[i - 1] \o s[i]
    <3>1. CASE i = m + 1
      BY <3>1
    <3>2. CASE i # m + 1
      <4>1. i \in 1 .. m
        BY <3>2
      <4>2. g[i] = f[i] /\ (i # 1 => i - 1 \in 1 .. m /\ g[i - 1] = f[i - 1])
        BY <4>1
      <4>3. f[i] = IF i = 1 THEN s[i] ELSE f[i - 1] \o s[i]
        BY <2>1, <4>1
      <4> HIDE DEF g
      <4> QED
        BY <4>2, <4>3
    <3> QED
      BY <3>1, <3>2
  <2>3. Flat(g, m + 1)
    BY <2>2
  <2> HIDE DEF Flat, g
  <2> QED
    BY <2>3
<1>3. L \in S
  <2> HIDE DEF S
  <2> QED BY <1>1, <1>2, SetInduction
<1>4. \E f : Flat(f, L)
  BY <1>3
<1> DEFINE f == CHOOSE f : Flat(f, L)
<1>5. Flat(f, L)
  <2> HIDE DEF Flat
  <2> QED BY <1>4, Zenon
<1>6. FlattenSeq(s) = f[L]
  <2>1. Len(s) # 0
    OBVIOUS
  <2> QED
    BY <2>1, Zenon DEF FlattenSeq
<1> HIDE DEF f
<1>7. L \in Nat \ {0} /\ \A i \in 1 .. L : s[i] \in Seq(D)
  OBVIOUS
<1>8. f[1] = s[1]
  <2>1. 1 \in 1 .. L
    BY <1>7
  <2> QED
    BY <1>5, <2>1
<1>9. ASSUME NEW i \in 1 .. L - 1 PROVE f[i + 1] = f[i] \o s[i + 1]
  <2>1. i + 1 \in 1 .. L /\ i + 1 # 1 /\ (i + 1) - 1 = i
    BY <1>7
  <2> QED
    BY <1>5, <2>1
<1> DEFINE T == {m \in Nat : m + 1 \in 1 .. L => f[m + 1] \in Seq(D)}
<1>10. 0 \in T
  BY <1>7, <1>8
<1>11. ASSUME NEW m \in Nat, m \in T PROVE m + 1 \in T
  <2> SUFFICES ASSUME (m + 1) + 1 \in 1 .. L PROVE f[(m + 1) + 1] \in Seq(D)
    OBVIOUS
  <2>1. m + 1 \in 1 .. L - 1
    BY <1>7
  <2>2. f[m + 1] \in Seq(D) /\ s[(m + 1) + 1] \in Seq(D)
    BY <1>7, <1>11, <2>1
  <2>3. f[(m + 1) + 1] = f[m + 1] \o s[(m + 1) + 1]
    BY <1>9, <2>1
  <2> QED
    BY <2>2, <2>3
<1>12. ASSUME NEW i \in 1 .. L PROVE f[i] \in Seq(D)
  <2>1. Nat \subseteq T
    <3> HIDE DEF T
    <3> QED BY <1>10, <1>11, SetInduction
  <2>2. i - 1 \in Nat /\ (i - 1) + 1 = i
    BY <1>7
  <2>3. i - 1 \in T
    <3> HIDE DEF T
    <3> QED BY <2>1, <2>2
  <2> QED
    BY <2>2, <2>3
<1> QED
  BY <1>6, <1>8, <1>9, <1>12 DEF Flattens

(* A sequence more is a piece more.                                        *)
LEMMA FlattenAppend ==
    ASSUME NEW D, NEW s \in Seq(Seq(D)), NEW e \in Seq(D)
    PROVE  /\ FlattenSeq(s) \in Seq(D)
           /\ FlattenSeq(Append(s, e)) = FlattenSeq(s) \o e
<1> DEFINE a == Append(s, e)
           L == Len(s)
<1>1. /\ a \in Seq(Seq(D)) /\ Len(a) = L + 1 /\ L \in Nat
      /\ a[L + 1] = e /\ \A i \in 1 .. L : a[i] = s[i]
  <2>1. e \in Seq(D) /\ s \in Seq(Seq(D))
    OBVIOUS
  <2> QED
    BY <2>1, AppendProperties
<1>1a. Len(a) # 0
  BY <1>1
<1>2. PICK g : /\ FlattenSeq(a) = g[L + 1]
               /\ g[1] = a[1]
               /\ \A i \in 1 .. L : g[i + 1] = g[i] \o a[i + 1]
  <2>1. a # <<>>
    <3>1. \A t : Len(t) # 0 => t # <<>>
      OBVIOUS
    <3> QED
      BY <1>1a, <3>1, Zenon
  <2>2. PICK g : Flattens(g, a, D)
    BY <1>1, <2>1, FlattenDefined
  <2>3. Len(a) - 1 = L
    BY <1>1
  <2> QED
    BY <1>1, <2>2, <2>3 DEF Flattens
<1>3. CASE s = <<>>
  <2>1. FlattenSeq(s) = <<>>
    BY <1>3 DEF FlattenSeq
  <2>2. L = 0 /\ g[1] = e
    BY <1>1, <1>2, <1>3
  <2>3. FlattenSeq(a) = e
    BY <1>2, <2>2
  <2>4. <<>> \o e = e /\ <<>> \in Seq(D)
    OBVIOUS
  <2> QED
    BY <2>1, <2>3, <2>4 DEF a
<1>4. CASE s # <<>>
  <2>0. PICK f : Flattens(f, s, D)
    BY <1>4, FlattenDefined
  <2>1. /\ FlattenSeq(s) = f[L]
        /\ \A i \in 1 .. L : f[i] \in Seq(D)
        /\ f[1] = s[1]
        /\ \A i \in 1 .. L - 1 : f[i + 1] = f[i] \o s[i + 1]
    BY <2>0 DEF Flattens
  <2> DEFINE T == {m \in Nat : m + 1 \in 1 .. L => f[m + 1] = g[m + 1]}
  <2>2. 0 \in T
    BY <1>1, <1>2, <2>1
  <2>3. ASSUME NEW m \in Nat, m \in T PROVE m + 1 \in T
    <3> SUFFICES ASSUME (m + 1) + 1 \in 1 .. L PROVE f[(m + 1) + 1] = g[(m + 1) + 1]
      OBVIOUS
    <3>1. m + 1 \in 1 .. L - 1 /\ m + 1 \in 1 .. L
      BY <1>1
    <3>2. f[m + 1] = g[m + 1]
      BY <2>3, <3>1
    <3>3. f[(m + 1) + 1] = f[m + 1] \o s[(m + 1) + 1]
      BY <2>1, <3>1
    <3>4. g[(m + 1) + 1] = g[m + 1] \o a[(m + 1) + 1]
      BY <1>2, <3>1
    <3>5. a[(m + 1) + 1] = s[(m + 1) + 1]
      BY <1>1
    <3> QED
      BY <3>2, <3>3, <3>4, <3>5
  <2>4. L \in 1 .. L /\ L - 1 \in Nat /\ (L - 1) + 1 = L
    BY <1>1, <1>4
  <2>5. f[L] = g[L]
    <3>1. Nat \subseteq T
      <4> HIDE DEF T
      <4> QED BY <2>2, <2>3, SetInduction
    <3>2. L - 1 \in T
      BY <2>4, <3>1
    <3> QED BY <2>4, <3>2
  <2>6. g[L + 1] = g[L] \o e
    BY <1>1, <1>2, <2>4
  <2> QED
    BY <1>2, <2>1, <2>4, <2>5, <2>6 DEF a
<1> QED
  BY <1>3, <1>4

-----------------------------------------------------------------------------
(***************************************************************************)
(* Directives.                                                             *)
(***************************************************************************)

(* The directives of FormatSemantics, their letters.                       *)
Directives == Semantics!Directives
Letters == Semantics!Letters

(* The four shapes of a directive.                                         *)
LEMMA DirectiveShapes ==
    ASSUME NEW d \in Directives
    PROVE  \/ d = <<"%", "%">>
           \/ d = <<"%", "r">>
           \/ \E l \in Letters, c \in {"x", "d"} : d = <<"%", l, c>>
           \/ \E l \in Letters : d = <<"%", "0", l, "x">>
BY DEF Directives, Letters, Semantics!Directives

(* A directive is at least two runes long, starts with %, and ends with %  *)
(* only in %%.                                                             *)
LEMMA DirectiveType ==
    ASSUME NEW d \in Directives
    PROVE  /\ d \in Seq(Runes) /\ Len(d) >= 2 /\ d[1] = "%"
           /\ d # <<"%", "%">> => d[Len(d)] # "%"
<1>1. Letters \subseteq Runes /\ {"%", "r", "0", "x", "d"} \subseteq Runes /\ "%" \notin Letters
  BY RunesAssumption DEF Letters, Semantics!Letters
<1>2. CASE d = <<"%", "%">>
  BY <1>1, <1>2
<1>3. CASE d = <<"%", "r">>
  BY <1>1, <1>3
<1>4. CASE \E l \in Letters, c \in {"x", "d"} : d = <<"%", l, c>>
  BY <1>1, <1>4
<1>5. CASE \E l \in Letters : d = <<"%", "0", l, "x">>
  BY <1>1, <1>5
<1> QED
  BY <1>2, <1>3, <1>4, <1>5, DirectiveShapes

(* A prefix, rune by rune.                                                 *)
LEMMA PrefixRunes ==
    ASSUME NEW D, NEW d \in Seq(D), NEW f \in Seq(D)
    PROVE  IsPrefix(d, f) <=> Len(d) <= Len(f) /\ \A i \in 1 .. Len(d) : f[i] = d[i]
<1>1. ASSUME Len(d) <= Len(f)
      PROVE  SubSeq(d, 1, Len(d)) = SubSeq(f, 1, Len(d)) <=> \A i \in 1 .. Len(d) : f[i] = d[i]
  <2> DEFINE a == SubSeq(d, 1, Len(d))
             b == SubSeq(f, 1, Len(d))
  <2>1. /\ a \in Seq(D) /\ b \in Seq(D) /\ Len(a) = Len(d) /\ Len(b) = Len(d)
        /\ \A i \in 1 .. Len(d) : a[i] = d[i] /\ b[i] = f[i]
    BY <1>1
  <2> HIDE DEF a, b
  <2>2. a = b <=> \A i \in 1 .. Len(d) : a[i] = b[i]
    BY <2>1, SeqEqual
  <2>3. (\A i \in 1 .. Len(d) : a[i] = b[i]) <=> (\A i \in 1 .. Len(d) : f[i] = d[i])
    BY <2>1
  <2> QED
    BY <2>2, <2>3 DEF a, b
<1> QED
  BY <1>1 DEF IsPrefix

(* The runes of a format tell the directive it starts with.                *)
LEMMA DirectiveRunes ==
    ASSUME NEW f \in Seq(Runes), NEW d \in Directives, IsPrefix(d, f)
    PROVE  \/ d = <<"%", "%">> /\ f[2] = "%"
           \/ d = <<"%", "r">> /\ f[2] = "r"
           \/ f[2] \in Letters /\ d = <<"%", f[2], f[3]>>
           \/ f[2] = "0" /\ d = <<"%", "0", f[3], "x">>
<1>1. \A i \in 1 .. Len(d) : f[i] = d[i]
  BY DirectiveType, PrefixRunes
<1>2. CASE d = <<"%", "%">>
  <2>1. 2 \in 1 .. Len(d) /\ d[2] = "%"
    BY <1>2
  <2> QED
    BY <1>1, <1>2, <2>1
<1>3. CASE d = <<"%", "r">>
  <2>1. 2 \in 1 .. Len(d) /\ d[2] = "r"
    BY <1>3
  <2> QED
    BY <1>1, <1>3, <2>1
<1>4. ASSUME NEW l \in Letters, NEW c \in {"x", "d"}, d = <<"%", l, c>>
      PROVE  f[2] \in Letters /\ d = <<"%", f[2], f[3]>>
  <2>1. 2 \in 1 .. Len(d) /\ 3 \in 1 .. Len(d) /\ d[2] = l /\ d[3] = c
    BY <1>4
  <2>2. f[2] = l /\ f[3] = c
    BY <1>1, <2>1
  <2> QED
    BY <1>4, <2>2
<1>5. ASSUME NEW l \in Letters, d = <<"%", "0", l, "x">>
      PROVE  f[2] = "0" /\ d = <<"%", "0", f[3], "x">>
  <2>1. 2 \in 1 .. Len(d) /\ 3 \in 1 .. Len(d) /\ d[2] = "0" /\ d[3] = l
    BY <1>5
  <2>2. f[2] = "0" /\ f[3] = l
    BY <1>1, <2>1
  <2> QED
    BY <1>5, <2>2
<1> QED
  BY <1>2, <1>3, <1>4, <1>5, DirectiveShapes

(* No format starts with two directives.                                   *)
LEMMA OneDirective ==
    ASSUME NEW f \in Seq(Runes), NEW d \in Directives, NEW e \in Directives,
           IsPrefix(d, f), IsPrefix(e, f)
    PROVE  d = e
<1>1. Letters = {"b", "s", "i", "q"}
  BY DEF Letters, Semantics!Letters
<1>2. \/ d = <<"%", "%">> /\ f[2] = "%"
      \/ d = <<"%", "r">> /\ f[2] = "r"
      \/ f[2] \in Letters /\ d = <<"%", f[2], f[3]>>
      \/ f[2] = "0" /\ d = <<"%", "0", f[3], "x">>
  BY DirectiveRunes
<1>3. \/ e = <<"%", "%">> /\ f[2] = "%"
      \/ e = <<"%", "r">> /\ f[2] = "r"
      \/ f[2] \in Letters /\ e = <<"%", f[2], f[3]>>
      \/ f[2] = "0" /\ e = <<"%", "0", f[3], "x">>
  BY DirectiveRunes
<1> QED
  BY <1>1, <1>2, <1>3

-----------------------------------------------------------------------------
(* What a reading is at, and its step.                                     *)
Parses == [rest : Seq(Runes), slots : Seq(Slot), text : Seq(Runes), valid : BOOLEAN]

Advance(p) == Semantics!Advance(p)

(* The text of a directive is a sequence of runes.                         *)
LEMMA SubstitutionType ==
    ASSUME NEW d \in Directives, d # <<"%", "%">>, NEW slot \in Slot
    PROVE  Semantics!Substitution(d, slot) \in Seq(Runes)
<1>1. Letters = {"b", "s", "i", "q"}
  BY DEF Letters, Semantics!Letters
<1>2. slot.string \in Seq(Runes) /\ slot.integer \in Words
  BY DEF Slot
<1>3. CASE d = <<"%", "r">>
  <2>1. d[2] = "r"
    BY <1>3
  <2> QED
    BY <1>2, <2>1 DEF Semantics!Substitution
<1>4. ASSUME NEW l \in Letters, NEW c \in {"x", "d"}, d = <<"%", l, c>>
      PROVE  Semantics!Substitution(d, slot) \in Seq(Runes)
  <2>1. d[2] = l /\ Len(d) = 3 /\ d[3] = c /\ l # "r" /\ l # "0" /\ d[Len(d) - 1] = l
    BY <1>1, <1>4
  <2>2. IntegerArgument(l, slot.integer) \in Words
    BY <1>1, <1>2, NumberStringsAssumption
  <2>3. Semantics!Substitution(d, slot)
            = IF c = "d" THEN DecimalString(IntegerArgument(l, slot.integer))
              ELSE HexString(IntegerArgument(l, slot.integer), 0)
    BY <2>1 DEF Semantics!Substitution
  <2> QED
    BY <2>2, <2>3, NumberStringsAssumption
<1>5. ASSUME NEW l \in Letters, d = <<"%", "0", l, "x">>
      PROVE  Semantics!Substitution(d, slot) \in Seq(Runes)
  <2>1. d[2] = "0" /\ Len(d) = 4 /\ d[4] = "x" /\ d[3] = l /\ d[Len(d) - 1] = l
    BY <1>5
  <2>2. IntegerArgument(l, slot.integer) \in Words
    BY <1>1, <1>2, NumberStringsAssumption
  <2>3. Semantics!Substitution(d, slot)
            = HexString(IntegerArgument(l, slot.integer), Semantics!FieldLength[l])
    BY <2>1 DEF Semantics!Substitution
  <2>4. Semantics!FieldLength[l] \in {2, 4, 8, 16}
    BY <1>1 DEF Semantics!FieldLength
  <2> QED
    BY <2>2, <2>3, <2>4, NumberStringsAssumption
<1> QED
  BY <1>3, <1>4, <1>5, DirectiveShapes

-----------------------------------------------------------------------------
(***************************************************************************)
(* A step of the reading.                                                  *)
(***************************************************************************)

(* A rune that starts no directive.                                        *)
LEMMA AdvanceRune ==
    ASSUME NEW p \in Parses, p.rest # <<>>, Head(p.rest) # "%"
    PROVE  Advance(p) = [rest |-> Tail(p.rest), slots |-> p.slots,
                         text |-> Append(p.text, Head(p.rest)), valid |-> p.valid]
BY DEF Advance, Semantics!Advance, Semantics!ReadRune, Parses

(* What a format that starts with a directive is read to.                  *)
LEMMA AdvanceKnown ==
    ASSUME NEW p \in Parses, NEW d \in Directives, IsPrefix(d, p.rest),
           d # <<"%", "%">> => p.slots # <<>>
    PROVE  Advance(p) = Semantics!ReadDirective(p, d)
<1>1. p.rest \in Seq(Runes)
  BY DEF Parses
<1>2. p.rest # <<>> /\ Head(p.rest) = "%"
  <2>1. Len(d) <= Len(p.rest) /\ \A i \in 1 .. Len(d) : p.rest[i] = d[i]
    BY <1>1, DirectiveType, PrefixRunes
  <2>2. Len(d) >= 2 /\ d[1] = "%" /\ Len(d) \in Nat
    BY DirectiveType
  <2> QED
    BY <1>1, <2>1, <2>2
<1>3. Semantics!Known(p) = {d}
  <2>1. d \in Semantics!Known(p)
    BY DEF Semantics!Known, Semantics!IsPrefix, IsPrefix, Directives
  <2>2. ASSUME NEW e \in Semantics!Known(p) PROVE e = d
    <3>1. e \in Directives /\ IsPrefix(e, p.rest)
      BY DEF Semantics!Known, Semantics!IsPrefix, IsPrefix, Directives
    <3> QED
      BY <1>1, <3>1, OneDirective
  <2> QED
    BY <2>1, <2>2
<1>4. (CHOOSE e \in {d} : TRUE) = d
  OBVIOUS
<1> QED
  BY <1>2, <1>3, <1>4, Zenon DEF Advance, Semantics!Advance

(* %% stands for a %.                                                      *)
LEMMA AdvancePercent ==
    ASSUME NEW p \in Parses, IsPrefix(<<"%", "%">>, p.rest)
    PROVE  Advance(p) = [rest |-> SubSeq(p.rest, 3, Len(p.rest)), slots |-> p.slots,
                         text |-> Append(p.text, "%"), valid |-> p.valid]
<1>1. <<"%", "%">> \in Directives
  BY DEF Directives, Semantics!Directives
<1>2. Advance(p) = Semantics!ReadDirective(p, <<"%", "%">>)
  BY <1>1, AdvanceKnown
<1>3. Len(<<"%", "%">>) + 1 = 3
  OBVIOUS
<1> QED
  BY <1>2, <1>3 DEF Semantics!ReadDirective, Parses

(* Any other directive stands for its argument.                            *)
LEMMA AdvanceDirective ==
    ASSUME NEW p \in Parses, NEW d \in Directives, d # <<"%", "%">>,
           IsPrefix(d, p.rest), p.slots # <<>>
    PROVE  Advance(p) = [rest |-> SubSeq(p.rest, Len(d) + 1, Len(p.rest)), slots |-> Tail(p.slots),
                         text |-> p.text \o Semantics!Substitution(d, Head(p.slots)),
                         valid |-> p.valid]
<1>1. Advance(p) = Semantics!ReadDirective(p, d)
  BY AdvanceKnown
<1> QED
  BY <1>1 DEF Semantics!ReadDirective, Parses

(* Where no directive starts at a %, the reading stops: the format is      *)
(* invalid.                                                                *)
LEMMA AdvanceUnknown ==
    ASSUME NEW p \in Parses, p.rest # <<>>, Head(p.rest) = "%",
           \A d \in Directives : ~ IsPrefix(d, p.rest)
    PROVE  Advance(p) = [rest |-> p.rest, slots |-> p.slots, text |-> p.text, valid |-> FALSE]
<1>1. Semantics!Known(p) = {}
  BY DEF Semantics!Known, Semantics!IsPrefix, IsPrefix, Directives
<1> QED
  BY <1>1 DEF Advance, Semantics!Advance, Parses

-----------------------------------------------------------------------------
(* A reading goes from p to q over k runes of the format, which add t to   *)
(* the text: at least a rune, unless they are a directive.                 *)
Moves(p, q, k, t) ==
    /\ k \in 1 .. Len(p.rest)
    /\ t \in Seq(Runes)
    /\ q \in Parses
    /\ q.rest = SubSeq(p.rest, k + 1, Len(p.rest))
    /\ q.text = p.text \o t
    /\ q.valid = p.valid
    /\ t = <<>> => \E d \in Directives : IsPrefix(d, p.rest) /\ Len(d) = k /\ d[k] # "%"

(* A step of the reading stays at the end, stops at an unknown directive,  *)
(* or moves on.                                                            *)
LEMMA AdvanceMoves ==
    ASSUME NEW p \in Parses
    PROVE  \/ p.rest = <<>> /\ Advance(p) = p
           \/ /\ p.rest # <<>>
              /\ Advance(p) = [rest |-> p.rest, slots |-> p.slots, text |-> p.text, valid |-> FALSE]
           \/ /\ p.rest # <<>>
              /\ \E k, t : Moves(p, Advance(p), k, t)
<1>0. /\ p.rest \in Seq(Runes) /\ p.slots \in Seq(Slot) /\ p.text \in Seq(Runes)
      /\ p.valid \in BOOLEAN
  BY DEF Parses
<1>1. CASE p.rest = <<>>
  BY <1>1 DEF Advance, Semantics!Advance
<1>2. CASE p.rest # <<>> /\ Head(p.rest) # "%"
  <2> DEFINE t == <<Head(p.rest)>>
  <2>1. /\ Head(p.rest) \in Runes /\ Tail(p.rest) \in Seq(Runes)
        /\ Tail(p.rest) = SubSeq(p.rest, 1 + 1, Len(p.rest))
        /\ 1 \in 1 .. Len(p.rest)
    BY <1>0, <1>2, HeadTailProperties, TailIsSubSeq
  <2>2. t \in Seq(Runes) /\ t # <<>> /\ Append(p.text, Head(p.rest)) = p.text \o t
    BY <1>0, <2>1, AppendIsConcat
  <2>3. p.text \o t \in Seq(Runes)
    BY <1>0, <2>2, ConcatProperties
  <2>4. Advance(p) = [rest |-> Tail(p.rest), slots |-> p.slots, text |-> p.text \o t,
                      valid |-> p.valid]
    BY <1>2, <2>2, AdvanceRune
  <2> HIDE DEF t
  <2>5. Moves(p, Advance(p), 1, t)
    BY <1>0, <2>1, <2>2, <2>3, <2>4 DEF Moves, Parses
  <2> QED
    BY <1>2, <2>5
<1>3. CASE p.rest # <<>> /\ Head(p.rest) = "%" /\ Semantics!Known(p) = {}
  <2>1. Advance(p) = [p EXCEPT !.valid = FALSE]
    BY <1>3 DEF Advance, Semantics!Advance
  <2> QED
    BY <1>3, <2>1 DEF Parses
<1>4. ASSUME NEW d \in Semantics!Known(p), p.rest # <<>>, Head(p.rest) = "%"
      PROVE  \E k, t : Moves(p, Advance(p), k, t)
  <2>1. d \in Directives /\ IsPrefix(d, p.rest) /\ (d # <<"%", "%">> => p.slots # <<>>)
    BY <1>4 DEF Semantics!Known, Semantics!IsPrefix, IsPrefix, Directives
  <2>2. Len(d) \in 1 .. Len(p.rest) /\ d \in Seq(Runes) /\ Len(d) \in Nat
    BY <1>0, <2>1, DirectiveType, PrefixRunes
  <2>3. SubSeq(p.rest, Len(d) + 1, Len(p.rest)) \in Seq(Runes)
    BY <1>0, <2>2
  <2>4. CASE d = <<"%", "%">>
    <3>1. <<"%">> \in Seq(Runes) /\ <<"%">> # <<>> /\ Append(p.text, "%") = p.text \o <<"%">>
      BY <1>0, RunesAssumption, AppendIsConcat
    <3>2. p.text \o <<"%">> \in Seq(Runes)
      BY <1>0, <3>1, ConcatProperties
    <3>3. Advance(p) = [rest |-> SubSeq(p.rest, Len(d) + 1, Len(p.rest)), slots |-> p.slots,
                        text |-> p.text \o <<"%">>, valid |-> p.valid]
      BY <2>1, <2>4, <3>1, AdvancePercent
    <3>4. Moves(p, Advance(p), Len(d), <<"%">>)
      BY <1>0, <2>2, <2>3, <3>1, <3>2, <3>3 DEF Moves, Parses
    <3> QED
      BY <3>4
  <2>5. CASE d # <<"%", "%">>
    <3> DEFINE t == Semantics!Substitution(d, Head(p.slots))
    <3>1. Head(p.slots) \in Slot /\ Tail(p.slots) \in Seq(Slot)
      BY <1>0, <2>1, <2>5, HeadTailProperties
    <3>2. t \in Seq(Runes)
      BY <2>1, <2>5, <3>1, SubstitutionType
    <3>3. Advance(p) = [rest |-> SubSeq(p.rest, Len(d) + 1, Len(p.rest)), slots |-> Tail(p.slots),
                        text |-> p.text \o t, valid |-> p.valid]
      BY <2>1, <2>5, AdvanceDirective
    <3> HIDE DEF t
    <3>4. p.text \o t \in Seq(Runes)
      BY <1>0, <3>2, ConcatProperties
    <3>5. d[Len(d)] # "%"
      BY <2>1, <2>5, DirectiveType
    <3>6. Moves(p, Advance(p), Len(d), t)
      BY <1>0, <2>1, <2>2, <2>3, <3>1, <3>2, <3>3, <3>4, <3>5 DEF Moves, Parses
    <3> QED
      BY <3>6
  <2> QED
    BY <2>4, <2>5
<1> QED
  BY <1>1, <1>2, <1>3, <1>4

-----------------------------------------------------------------------------
(***************************************************************************)
(* Readings.                                                               *)
(***************************************************************************)

(* A reading takes a rune or a directive at a time.                        *)
LEMMA ReadingStep ==
    ASSUME NEW f \in Seq(Runes), NEW s \in Seq(Slot)
    PROVE  /\ Reading(f, s, 0) = [rest |-> f, slots |-> s, text |-> <<>>, valid |-> TRUE]
           /\ \A n \in 0 .. Len(f) - 1 : Reading(f, s, n + 1) = Advance(Reading(f, s, n))
<1>0. Len(f) \in Nat
  OBVIOUS
<1> DEFINE r == Semantics!Readings(f, s)
<1>1. r = [n \in 0 .. Len(f) |-> IF n = 0 THEN Semantics!Unread(f, s)
                                 ELSE Semantics!Advance(r[n - 1])]
  BY ReadingsDefined
<1> HIDE DEF r
<1>2. r[0] = Semantics!Unread(f, s)
  BY <1>0, <1>1
<1>3. ASSUME NEW n \in 0 .. Len(f) - 1 PROVE r[n + 1] = Semantics!Advance(r[n])
  <2>1. n + 1 \in 0 .. Len(f) /\ n + 1 # 0 /\ (n + 1) - 1 = n
    BY <1>0
  <2> QED
    BY <1>1, <2>1
<1> QED
  BY <1>2, <1>3 DEF r, Reading, Semantics!Unread, Advance

(* What n turns leave of a format is one of its ends, shorter by n runes   *)
(* at least while the format is known.                                     *)
Sound(f, n, p) ==
    /\ p \in Parses
    /\ p.valid => Len(p.rest) + n <= Len(f)
    /\ \E k \in 1 .. Len(f) + 1 : p.rest = SubSeq(f, k, Len(f))

(* An end of a sequence.                                                   *)
LEMMA EndProperties ==
    ASSUME NEW D, NEW f \in Seq(D), NEW i \in 1 .. Len(f) + 1
    PROVE  /\ SubSeq(f, i, Len(f)) \in Seq(D)
           /\ Len(SubSeq(f, i, Len(f))) = Len(f) + 1 - i
           /\ \A j \in 1 .. Len(f) + 1 - i : SubSeq(f, i, Len(f))[j] = f[i + j - 1]
<1>1. Len(f) \in Int /\ i \in Int
  OBVIOUS
<1>2. \A j \in i .. Len(f) : f[j] \in D
  OBVIOUS
<1>3. /\ SubSeq(f, i, Len(f)) \in Seq(D)
      /\ Len(SubSeq(f, i, Len(f))) = IF i <= Len(f) THEN Len(f) - i + 1 ELSE 0
      /\ \A j \in 1 .. Len(f) - i + 1 : SubSeq(f, i, Len(f))[j] = f[i + j - 1]
  BY <1>1, <1>2, SubSeqProperties
<1>4. Len(f) + 1 - i = Len(f) - i + 1 /\ (~(i <= Len(f)) => Len(f) + 1 - i = 0)
  BY <1>1
<1> QED
  BY <1>3, <1>4

(* An end of an end is an end.                                             *)
LEMMA EndOfEnd ==
    ASSUME NEW D, NEW f \in Seq(D), NEW i \in 1 .. Len(f) + 1,
           NEW k \in 0 .. Len(SubSeq(f, i, Len(f)))
    PROVE  /\ SubSeq(SubSeq(f, i, Len(f)), k + 1, Len(SubSeq(f, i, Len(f))))
                  = SubSeq(f, i + k, Len(f))
           /\ i + k \in 1 .. Len(f) + 1
<1> DEFINE a == SubSeq(f, i, Len(f))
<1>0. Len(f) \in Nat
  OBVIOUS
<1>2. /\ a \in Seq(D) /\ Len(a) = Len(f) + 1 - i
      /\ \A j \in 1 .. Len(f) + 1 - i : a[j] = f[i + j - 1]
  BY EndProperties
<1>3. k \in 0 .. Len(a)
  OBVIOUS
<1> HIDE DEF a
<1> DEFINE b == SubSeq(a, k + 1, Len(a))
           c == SubSeq(f, i + k, Len(f))
<1>4. i + k \in 1 .. Len(f) + 1 /\ k + 1 \in 1 .. Len(a) + 1
  BY <1>0, <1>2, <1>3
<1>5. /\ b \in Seq(D) /\ Len(b) = Len(a) + 1 - (k + 1)
      /\ \A j \in 1 .. Len(a) + 1 - (k + 1) : b[j] = a[k + 1 + j - 1]
  BY <1>2, <1>4, EndProperties
<1>6. /\ c \in Seq(D) /\ Len(c) = Len(f) + 1 - (i + k)
      /\ \A j \in 1 .. Len(f) + 1 - (i + k) : c[j] = f[i + k + j - 1]
  BY <1>4, EndProperties
<1>7. b = c
  <2> HIDE DEF b, c
  <2>1. Len(b) = Len(c)
    BY <1>0, <1>2, <1>3, <1>5, <1>6
  <2>2. ASSUME NEW j \in 1 .. Len(b) PROVE b[j] = c[j]
    <3>1. /\ j \in 1 .. Len(a) + 1 - (k + 1) /\ j \in 1 .. Len(f) + 1 - (i + k)
          /\ k + 1 + j - 1 \in 1 .. Len(f) + 1 - i
          /\ i + (k + 1 + j - 1) - 1 = i + k + j - 1
      BY <1>0, <1>2, <1>3, <1>5, <1>6, <2>1
    <3> QED
      BY <1>2, <1>5, <1>6, <3>1
  <2> QED
    BY <1>5, <1>6, <2>1, <2>2, SeqEqual
<1> QED
  BY <1>4, <1>7 DEF a

(* Every reading of a format is typed, and its rest is an end of the       *)
(* format.                                                                 *)
LEMMA ReadingSound ==
    ASSUME NEW f \in Seq(Runes), NEW s \in Seq(Slot), NEW n \in 0 .. Len(f)
    PROVE  Sound(f, n, Reading(f, s, n))
<1> DEFINE M == Len(f)
           T == {m \in Nat : m <= M => Sound(f, m, Reading(f, s, m))}
<1>0. M \in Nat
  OBVIOUS
<1>1. 0 \in T
  <2>1. [rest |-> f, slots |-> s, text |-> <<>>, valid |-> TRUE] \in Parses
    BY DEF Parses
  <2>2. f = SubSeq(f, 1, Len(f)) /\ 1 \in 1 .. Len(f) + 1
    BY <1>0
  <2>3. Sound(f, 0, [rest |-> f, slots |-> s, text |-> <<>>, valid |-> TRUE])
    BY <1>0, <2>1, <2>2 DEF Sound
  <2> QED
    BY <2>3, ReadingStep
<1>2. ASSUME NEW m \in Nat, m \in T PROVE m + 1 \in T
  <2> SUFFICES ASSUME m + 1 <= M PROVE Sound(f, m + 1, Reading(f, s, m + 1))
    OBVIOUS
  <2> DEFINE p == Reading(f, s, m)
             q == Reading(f, s, m + 1)
  <2>1. Sound(f, m, p) /\ q = Advance(p)
    BY <1>0, <1>2, ReadingStep
  <2> HIDE DEF p, q
  <2>2. p \in Parses
    BY <2>1 DEF Sound
  <2>3. ASSUME p.rest = <<>>, q = p PROVE Sound(f, m + 1, q)
    <3>1. Len(q.rest) = 0
      BY <2>3
    <3>2. Len(q.rest) + (m + 1) <= Len(f)
      BY <1>0, <3>1
    <3> QED
      BY <2>1, <2>3, <3>2, Zenon DEF Sound
  <2>4. ASSUME q = [rest |-> p.rest, slots |-> p.slots, text |-> p.text, valid |-> FALSE]
        PROVE  Sound(f, m + 1, q)
    <3>1. q \in Parses
      BY <2>2, <2>4 DEF Parses
    <3>2. q.rest = p.rest /\ ~q.valid
      BY <2>4
    <3> QED
      BY <2>1, <3>1, <3>2, Zenon DEF Sound
  <2>5. ASSUME NEW k, NEW t, Moves(p, q, k, t) PROVE Sound(f, m + 1, q)
    <3>1. PICK i \in 1 .. Len(f) + 1 : p.rest = SubSeq(f, i, Len(f))
      BY <2>1 DEF Sound
    <3>2. k \in 1 .. Len(p.rest) /\ q.rest = SubSeq(p.rest, k + 1, Len(p.rest)) /\ q \in Parses
          /\ q.valid = p.valid
      BY <2>5 DEF Moves
    <3>3. k \in 0 .. Len(p.rest)
      BY <3>2
    <3>4. i + k \in 1 .. Len(f) + 1 /\ q.rest = SubSeq(f, i + k, Len(f))
      BY <3>1, <3>2, <3>3, EndOfEnd
    <3>5. Len(q.rest) = Len(f) + 1 - (i + k) /\ Len(p.rest) = Len(f) + 1 - i
      BY <3>1, <3>4, EndProperties
    <3>6. q.valid => Len(q.rest) + (m + 1) <= Len(f)
      <4>1. p.valid => Len(p.rest) + m <= Len(f)
        BY <2>1 DEF Sound
      <4>2. k \in Int /\ k >= 1 /\ i \in Int
        BY <1>0, <3>2, <3>5
      <4>3. Len(p.rest) + m <= Len(f) => Len(q.rest) + (m + 1) <= Len(f)
        BY <1>0, <3>5, <4>2
      <4> QED
        BY <3>2, <4>1, <4>3, Zenon
    <3> QED
      BY <3>2, <3>4, <3>6 DEF Sound
  <2>6. Sound(f, m + 1, q)
    BY <2>1, <2>2, <2>3, <2>4, <2>5, AdvanceMoves, Zenon
  <2> QED
    BY <2>6 DEF q
<1>3. n \in T
  <2> HIDE DEF T
  <2> QED BY <1>1, <1>2, SetInduction
<1> QED
  BY <1>3

-----------------------------------------------------------------------------
(* Two texts, the first of which starts the second.                        *)
Begins(a, b) == \E t \in Seq(Runes) : b = a \o t

(* The beginning of a beginning is a beginning.                            *)
LEMMA BeginsTransitive ==
    ASSUME NEW a \in Seq(Runes), NEW b, NEW c, Begins(a, b), Begins(b, c)
    PROVE  Begins(a, c)
<1>1. PICK t \in Seq(Runes) : b = a \o t
  BY DEF Begins
<1>2. PICK u \in Seq(Runes) : c = b \o u
  BY DEF Begins
<1>3. t \o u \in Seq(Runes)
  BY ConcatProperties
<1>4. (a \o t) \o u = a \o (t \o u)
  BY ConcatAssociative
<1> QED
  BY <1>1, <1>2, <1>3, <1>4 DEF Begins

(* A reading only adds to the text, and stops for good where it stops.     *)
LEMMA ReadingGrows ==
    ASSUME NEW f \in Seq(Runes), NEW s \in Seq(Slot), NEW m \in 0 .. Len(f), NEW n \in m .. Len(f)
    PROVE  /\ Begins(Reading(f, s, m).text, Reading(f, s, n).text)
           /\ Reading(f, s, n).valid => Reading(f, s, m).valid
           /\ Advance(Reading(f, s, m)) = Reading(f, s, m) => Reading(f, s, n) = Reading(f, s, m)
<1> DEFINE p == Reading(f, s, m)
           After(q) == /\ Begins(p.text, q.text)
                       /\ q.valid => p.valid
                       /\ Advance(p) = p => q = p
           T == {k \in Nat : m + k <= Len(f) => After(Reading(f, s, m + k))}
<1>0. Len(f) \in Nat /\ m \in Nat /\ p \in Parses
  BY ReadingSound DEF Sound
<1> HIDE DEF p
<1>1. 0 \in T
  <2>1. p.text \o <<>> = p.text /\ <<>> \in Seq(Runes)
    BY <1>0, ConcatEmptySeq DEF Parses
  <2>2. After(p)
    BY <2>1 DEF Begins
  <2>3. Reading(f, s, m + 0) = p
    BY <1>0 DEF p
  <2> HIDE DEF After
  <2> QED
    BY <2>2, <2>3
<1>2. ASSUME NEW k \in Nat, k \in T PROVE k + 1 \in T
  <2> SUFFICES ASSUME m + (k + 1) <= Len(f) PROVE After(Reading(f, s, m + (k + 1)))
    OBVIOUS
  <2> DEFINE q == Reading(f, s, m + k)
             r == Reading(f, s, m + (k + 1))
  <2>1. /\ m + k \in 0 .. Len(f) - 1 /\ m + k \in 0 .. Len(f)
        /\ m + (k + 1) = (m + k) + 1
    BY <1>0
  <2>2. After(q) /\ r = Advance(q) /\ q \in Parses
    <3> HIDE DEF After
    <3>1. After(q)
      BY <1>0, <1>2, <2>1
    <3>2. r = Advance(q)
      BY <2>1, ReadingStep
    <3>3. q \in Parses
      BY <2>1, ReadingSound DEF Sound
    <3> QED
      BY <3>1, <3>2, <3>3
  <2> HIDE DEF q, r
  <2>3. Begins(q.text, r.text) /\ (r.valid => q.valid)
    <3>1. q.text \o <<>> = q.text /\ <<>> \in Seq(Runes)
      BY <2>2, ConcatEmptySeq DEF Parses
    <3>2. CASE r = q
      BY <3>1, <3>2 DEF Begins
    <3>3. CASE r = [rest |-> q.rest, slots |-> q.slots, text |-> q.text, valid |-> FALSE]
      <4>1. r.text = q.text /\ ~r.valid
        BY <3>3
      <4> QED
        BY <3>1, <4>1 DEF Begins
    <3>4. ASSUME NEW j, NEW t, Moves(q, r, j, t)
          PROVE  Begins(q.text, r.text) /\ (r.valid => q.valid)
      BY <3>4 DEF Moves, Begins
    <3> QED
      BY <2>2, <3>2, <3>3, <3>4, AdvanceMoves, Zenon
  <2>4. Begins(p.text, r.text)
    <3>1. p.text \in Seq(Runes)
      BY <1>0 DEF Parses
    <3> QED
      BY <2>2, <2>3, <3>1, BeginsTransitive
  <2>5. After(r)
    BY <2>2, <2>3, <2>4
  <2> HIDE DEF After
  <2> QED
    BY <2>5 DEF r
<1>3. n - m \in T
  <2> HIDE DEF T
  <2>1. n - m \in Nat
    BY <1>0
  <2> QED BY <1>1, <1>2, <2>1, SetInduction
<1>4. m + (n - m) = n /\ n - m \in Nat /\ n <= Len(f)
  BY <1>0
<1>5. After(Reading(f, s, n))
  <2> HIDE DEF After
  <2> QED BY <1>3, <1>4
<1> QED
  BY <1>5 DEF p

-----------------------------------------------------------------------------
(***************************************************************************)
(* The end of a format.                                                    *)
(***************************************************************************)

(* A sequence that ends another rune by rune is a suffix of it.            *)
LEMMA EndsIsSuffix ==
    ASSUME NEW d \in Seq(Runes), NEW f \in Seq(Runes), Ends(d, f)
    PROVE  IsSuffix(d, f)
<1> DEFINE a == Reverse(d)
           b == Reverse(f)
<1>0. Len(d) \in Nat /\ Len(f) \in Nat /\ Len(d) <= Len(f)
  BY DEF Ends
<1>1. /\ a \in Seq(Runes) /\ Len(a) = Len(d)
      /\ \A i \in 1 .. Len(d) : a[i] = d[(Len(d) - i) + 1]
  <2>1. \A i \in 1 .. Len(d) : d[(Len(d) - i) + 1] \in Runes
    BY <1>0
  <2> QED
    BY <1>0, <2>1 DEF Reverse
<1>2. /\ b \in Seq(Runes) /\ Len(b) = Len(f)
      /\ \A i \in 1 .. Len(f) : b[i] = f[(Len(f) - i) + 1]
  <2>1. \A i \in 1 .. Len(f) : f[(Len(f) - i) + 1] \in Runes
    BY <1>0
  <2> QED
    BY <1>0, <2>1 DEF Reverse
<1> HIDE DEF a, b
<1>3. ASSUME NEW i \in 1 .. Len(a) PROVE b[i] = a[i]
  <2>1. i \in 1 .. Len(d) /\ i \in 1 .. Len(f) /\ (Len(d) - i) + 1 \in 1 .. Len(d)
    BY <1>0, <1>1
  <2>2. f[Len(f) - Len(d) + ((Len(d) - i) + 1)] = d[(Len(d) - i) + 1]
    BY <2>1 DEF Ends
  <2>3. Len(f) - Len(d) + ((Len(d) - i) + 1) = (Len(f) - i) + 1
    BY <1>0, <2>1
  <2> QED
    BY <1>1, <1>2, <2>1, <2>2, <2>3
<1>4. IsPrefix(a, b)
  BY <1>0, <1>1, <1>2, <1>3, PrefixRunes
<1> QED
  BY <1>4 DEF IsSuffix, a, b

(* No directive but %% ends the format.                                    *)
NoDirectiveEnds(f) == \A d \in Directives : d[Len(d)] # "%" => ~ Ends(d, f)

(* A format that is empty, ends in % or in no directive ends in no         *)
(* directive but %%.                                                       *)
LEMMA PlainEnd ==
    ASSUME NEW f \in Seq(Runes),
           f = <<>> \/ Last(f) = "%" \/ ~ \E d \in Directives : IsSuffix(d, f)
    PROVE  NoDirectiveEnds(f)
<1> SUFFICES ASSUME NEW d \in Directives, d[Len(d)] # "%", Ends(d, f) PROVE FALSE
  BY DEF NoDirectiveEnds
<1>1. d \in Seq(Runes) /\ Len(d) \in Nat /\ Len(d) >= 2
  BY DirectiveType
<1>2. IsSuffix(d, f)
  BY <1>1, EndsIsSuffix
<1>3. Len(f) >= 2
  BY <1>1 DEF Ends
<1>4. Len(d) \in 1 .. Len(d) /\ Len(f) - Len(d) + Len(d) = Len(f)
  BY <1>1
<1>5. Last(f) = d[Len(d)]
  BY <1>4 DEF Ends, Last
<1> QED
  BY <1>2, <1>3, <1>5

(* While something is left of a format that no directive ends, something   *)
(* is left of its text.                                                    *)
LEMMA ReadingMore ==
    ASSUME NEW f \in Seq(Runes), NEW s \in Seq(Slot), NoDirectiveEnds(f),
           Reading(f, s, Len(f)).valid,
           NEW n \in 0 .. Len(f), Reading(f, s, n).rest # <<>>
    PROVE  Len(Reading(f, s, n).text) < Len(Reading(f, s, Len(f)).text)
<1> DEFINE M == Len(f)
           whole == Reading(f, s, M)
           More(p) == p.rest # <<>> => Len(p.text) < Len(whole.text)
           T == {k \in Nat : k <= M => More(Reading(f, s, M - k))}
<1>0. M \in Nat /\ whole \in Parses /\ whole.rest = <<>>
  <2>1. M \in Nat /\ M \in 0 .. M
    OBVIOUS
  <2>2. whole \in Parses /\ Len(whole.rest) + M <= M
    BY <2>1, ReadingSound DEF Sound
  <2>3. whole.rest \in Seq(Runes)
    BY <2>2 DEF Parses
  <2> HIDE DEF whole, M
  <2> QED
    BY <2>1, <2>2, <2>3
<1>1. 0 \in T
  <2>1. M - 0 = M
    BY <1>0
  <2>2. More(whole)
    BY <1>0
  <2> QED
    BY <2>1, <2>2
<1>2. ASSUME NEW k \in Nat, k \in T PROVE k + 1 \in T
  <2> SUFFICES ASSUME k + 1 <= M PROVE More(Reading(f, s, M - (k + 1)))
    OBVIOUS
  <2> DEFINE m == M - (k + 1)
             p == Reading(f, s, m)
             q == Reading(f, s, M - k)
  <2>0. m \in 0 .. M - 1 /\ M - k = m + 1 /\ M - k \in 0 .. M
    BY <1>0
  <2>1. Sound(f, m, p) /\ Sound(f, m + 1, q) /\ q = Advance(p)
    BY <2>0, ReadingSound, ReadingStep
  <2>2. p.valid /\ q.valid /\ Begins(q.text, whole.text)
    <3>1. M \in M - k .. M /\ M \in m .. M /\ m \in 0 .. M
      BY <1>0, <2>0
    <3> QED
      BY <2>0, <3>1, ReadingGrows
  <2>3. More(q)
    <3> HIDE DEF More
    <3> QED BY <1>2
  <2> HIDE DEF p, q, m, whole
  <2>4. p \in Parses /\ q \in Parses
    BY <2>1 DEF Sound
  <2>5. p.rest \in Seq(Runes) /\ p.text \in Seq(Runes) /\ q.text \in Seq(Runes)
        /\ whole.text \in Seq(Runes) /\ q.rest \in Seq(Runes)
    BY <1>0, <2>4 DEF Parses
  <2>6. Len(q.text) <= Len(whole.text)
    <3>1. PICK t \in Seq(Runes) : whole.text = q.text \o t
      BY <2>2 DEF Begins
    <3> QED
      BY <2>5, <3>1, ConcatProperties
  <2>7. ASSUME p.rest # <<>> PROVE Len(p.text) < Len(whole.text)
    <3>1. ~ (q = [rest |-> p.rest, slots |-> p.slots, text |-> p.text, valid |-> FALSE])
      BY <2>2
    <3>2. PICK j, t : Moves(p, q, j, t)
      BY <2>1, <2>4, <2>7, <3>1, AdvanceMoves, Zenon
    <3>3. /\ j \in 1 .. Len(p.rest) /\ t \in Seq(Runes)
          /\ q.rest = SubSeq(p.rest, j + 1, Len(p.rest)) /\ q.text = p.text \o t
      BY <3>2 DEF Moves
    <3>4. Len(q.text) = Len(p.text) + Len(t) /\ Len(t) \in Nat /\ Len(p.text) \in Nat
      BY <2>5, <3>3, ConcatProperties
    <3>5. CASE q.rest # <<>>
      BY <2>3, <2>5, <3>4, <3>5
    <3>6. CASE t # <<>>
      <4>1. Len(t) > 0
        BY <3>3, <3>6
      <4> QED
        BY <2>5, <2>6, <3>4, <4>1
    <3>7. CASE q.rest = <<>> /\ t = <<>>
      <4>1. PICK d \in Directives : IsPrefix(d, p.rest) /\ Len(d) = j /\ d[j] # "%"
        BY <3>2, <3>7 DEF Moves
      <4>2. d \in Seq(Runes) /\ Len(d) \in Nat /\ Len(d) <= Len(p.rest)
            /\ \A i \in 1 .. Len(d) : p.rest[i] = d[i]
        BY <2>5, <4>1, DirectiveType, PrefixRunes
      <4>3. Len(d) = Len(p.rest)
        <5>1. j + 1 \in 1 .. Len(p.rest) + 1
          BY <3>3
        <5>2. Len(q.rest) = Len(p.rest) + 1 - (j + 1)
          BY <2>5, <3>3, <5>1, EndProperties
        <5>3. Len(q.rest) = 0 /\ Len(p.rest) \in Nat
          BY <2>5, <3>7
        <5> QED
          BY <4>1, <4>2, <5>2, <5>3
      <4>4. PICK i \in 1 .. Len(f) + 1 : p.rest = SubSeq(f, i, Len(f))
        BY <2>1 DEF Sound
      <4>5. Len(p.rest) = Len(f) + 1 - i
            /\ \A k_1 \in 1 .. Len(f) + 1 - i : p.rest[k_1] = f[i + k_1 - 1]
        <5>1. /\ Len(SubSeq(f, i, Len(f))) = Len(f) + 1 - i
              /\ \A k_1 \in 1 .. Len(f) + 1 - i : SubSeq(f, i, Len(f))[k_1] = f[i + k_1 - 1]
          BY EndProperties
        <5> QED
          BY <4>4, <5>1
      <4>6. Ends(d, f)
        <5>1. Len(d) <= Len(f)
          BY <1>0, <4>3, <4>5
        <5>2. ASSUME NEW k_1 \in 1 .. Len(d) PROVE f[Len(f) - Len(d) + k_1] = d[k_1]
          <6>1. k_1 \in 1 .. Len(f) + 1 - i /\ i + k_1 - 1 = Len(f) - Len(d) + k_1
            BY <1>0, <4>3, <4>5
          <6> QED
            BY <4>2, <4>5, <6>1
        <5> QED
          BY <5>1, <5>2 DEF Ends
      <4> QED
        BY <4>1, <4>6 DEF NoDirectiveEnds
    <3> QED
      BY <3>5, <3>6, <3>7
  <2>8. More(p)
    BY <2>7
  <2> HIDE DEF More
  <2> QED
    BY <2>8 DEF p, m
<1>3. M - n \in T
  <2> HIDE DEF T
  <2>1. M - n \in Nat
    BY <1>0
  <2> QED BY <1>1, <1>2, <2>1, SetInduction
<1>4. M - (M - n) = n /\ M - n \in Nat /\ M - n <= M
  BY <1>0
<1>5. More(Reading(f, s, n))
  <2> HIDE DEF More
  <2> QED BY <1>3, <1>4
<1> QED
  BY <1>5

-----------------------------------------------------------------------------
(***************************************************************************)
(* A call and the reading of its format.                                   *)
(***************************************************************************)

(* The format's length and its whole reading.                              *)
N == Len(call.format)

Whole == Reading(call.format, call.slots, N)

(* A call that has a format.                                               *)
Called == call \in Call /\ call.format # NullFormat

(* The parts of such a call have their types.                              *)
LEMMA CalledType ==
    ASSUME Called
    PROVE  call.format \in Seq(Runes) /\ call.slots \in Seq(Slot) /\ N \in Nat /\ N \in 0 .. N
BY DEF Called, Call, N

(* What is left of the format from rune i on.                              *)
LEMMA RestRunes ==
    ASSUME Called, NEW i \in 1 .. N + 1
    PROVE  /\ Rest(i) \in Seq(Runes)
           /\ Len(Rest(i)) = N + 1 - i
           /\ \A j \in 1 .. N + 1 - i : Rest(i)[j] = At(i + j - 1)
           /\ Rest(i) = <<>> <=> At(i) = NUL
           /\ At(i) # NUL => i \in 1 .. N /\ Head(Rest(i)) = At(i) /\ Tail(Rest(i)) = Rest(i + 1)
           /\ \A k \in 0 .. N + 1 - i : SubSeq(Rest(i), k + 1, Len(Rest(i))) = Rest(i + k)
<1>1. call.format \in Seq(Runes) /\ N \in Nat /\ N = Len(call.format)
  BY CalledType DEF N
<1>2. /\ Rest(i) \in Seq(Runes) /\ Len(Rest(i)) = N + 1 - i
      /\ \A j \in 1 .. N + 1 - i : Rest(i)[j] = call.format[i + j - 1]
  BY <1>1, EndProperties DEF Rest
<1>3. \A j \in 1 .. N : At(j) = call.format[j] /\ At(j) \in Runes
  BY <1>1 DEF At
<1>4. At(i) = NUL <=> i = N + 1
  <2>1. CASE i = N + 1
    BY <1>1, <2>1 DEF At
  <2>2. CASE i # N + 1
    <3>1. i \in 1 .. N
      BY <1>1, <2>2
    <3> QED
      BY <1>3, <2>2, <3>1, RunesAssumption
  <2> QED
    BY <2>1, <2>2
<1>5. ASSUME NEW j \in 1 .. N + 1 - i PROVE Rest(i)[j] = At(i + j - 1)
  <2>1. i + j - 1 \in 1 .. N
    BY <1>1
  <2> QED
    BY <1>2, <1>3, <2>1
<1>6. Rest(i) = <<>> <=> i = N + 1
  <2>1. Rest(i) = <<>> <=> Len(Rest(i)) = 0
    BY <1>2
  <2>2. Len(Rest(i)) = 0 <=> i = N + 1
    BY <1>1, <1>2
  <2> QED
    BY <2>1, <2>2
<1>7. ASSUME NEW k \in 0 .. N + 1 - i
      PROVE  SubSeq(Rest(i), k + 1, Len(Rest(i))) = Rest(i + k)
  <2>1. k \in 0 .. Len(SubSeq(call.format, i, Len(call.format)))
    BY <1>2 DEF Rest
  <2> QED
    BY <1>1, <2>1, EndOfEnd DEF Rest
<1>8. ASSUME At(i) # NUL
      PROVE  i \in 1 .. N /\ Head(Rest(i)) = At(i) /\ Tail(Rest(i)) = Rest(i + 1)
  <2>1. i \in 1 .. N /\ 1 \in 1 .. N + 1 - i /\ i + 1 - 1 = i /\ 1 \in 0 .. N + 1 - i
    BY <1>1, <1>4, <1>8
  <2>2. Rest(i) # <<>>
    BY <1>4, <1>6, <1>8
  <2>3. Head(Rest(i)) = Rest(i)[1]
    BY <1>2, <2>2
  <2>4. Rest(i)[1] = At(i)
    BY <1>5, <2>1
  <2>5. Tail(Rest(i)) = SubSeq(Rest(i), 1 + 1, Len(Rest(i)))
    BY <1>2, <2>2, TailIsSubSeq
  <2> QED
    BY <1>7, <2>1, <2>3, <2>4, <2>5
<1> QED
  BY <1>2, <1>4, <1>5, <1>6, <1>7, <1>8

(* The directives the call may find at rune i.                             *)
LEMMA DirectiveAt ==
    ASSUME Called, NEW i \in 1 .. N + 1, NEW d \in Directives, IsPrefix(d, Rest(i))
    PROVE  \/ At(i + 1) = "%"
           \/ At(i + 1) = "r"
           \/ At(i + 1) \in IntegerLetters /\ At(i + 2) \in {"x", "d"}
           \/ At(i + 1) = "0" /\ At(i + 2) \in IntegerLetters /\ At(i + 3) = "x"
<1>1. Rest(i) \in Seq(Runes) /\ Len(Rest(i)) = N + 1 - i /\ N \in Nat
      /\ \A j \in 1 .. N + 1 - i : Rest(i)[j] = At(i + j - 1)
  BY RestRunes, CalledType
<1>2. Len(d) \in Nat /\ Len(d) <= N + 1 - i /\ \A j \in 1 .. Len(d) : Rest(i)[j] = d[j]
  BY <1>1, DirectiveType, PrefixRunes
<1>3. \A j \in 1 .. Len(d) : At(i + j - 1) = d[j]
  <2> SUFFICES ASSUME NEW j \in 1 .. Len(d) PROVE At(i + j - 1) = d[j]
    OBVIOUS
  <2>1. j \in 1 .. N + 1 - i
    BY <1>1, <1>2
  <2> QED
    BY <1>1, <1>2, <2>1
<1>4. i + 2 - 1 = i + 1 /\ i + 3 - 1 = i + 2 /\ i + 4 - 1 = i + 3
  BY <1>1
<1>5. Letters = IntegerLetters
  BY DEF Letters, IntegerLetters, Semantics!Letters
<1>6. CASE d = <<"%", "%">>
  <2>1. 2 \in 1 .. Len(d) /\ d[2] = "%"
    BY <1>6
  <2> QED
    BY <1>3, <1>4, <2>1
<1>7. CASE d = <<"%", "r">>
  <2>1. 2 \in 1 .. Len(d) /\ d[2] = "r"
    BY <1>7
  <2> QED
    BY <1>3, <1>4, <2>1
<1>8. ASSUME NEW l \in Letters, NEW c \in {"x", "d"}, d = <<"%", l, c>>
      PROVE  At(i + 1) \in IntegerLetters /\ At(i + 2) \in {"x", "d"}
  <2>1. 2 \in 1 .. Len(d) /\ d[2] = l /\ 3 \in 1 .. Len(d) /\ d[3] = c
    BY <1>8
  <2>2. At(i + 1) = l /\ At(i + 2) = c
    BY <1>3, <1>4, <2>1
  <2> QED
    BY <1>5, <2>2
<1>9. ASSUME NEW l \in Letters, d = <<"%", "0", l, "x">>
      PROVE  At(i + 1) = "0" /\ At(i + 2) \in IntegerLetters /\ At(i + 3) = "x"
  <2>1. 2 \in 1 .. Len(d) /\ d[2] = "0" /\ 3 \in 1 .. Len(d) /\ d[3] = l
        /\ 4 \in 1 .. Len(d) /\ d[4] = "x"
    BY <1>9
  <2>2. At(i + 1) = "0" /\ At(i + 2) = l /\ At(i + 3) = "x"
    BY <1>3, <1>4, <2>1
  <2> QED
    BY <1>5, <2>2
<1> QED
  BY <1>6, <1>7, <1>8, <1>9, DirectiveShapes

(* A directive written at rune i of the format.                            *)
LEMMA RunesAreDirective ==
    ASSUME Called, NEW i \in 1 .. N + 1, NEW d \in Directives,
           \A j \in 1 .. Len(d) : At(i + j - 1) = d[j]
    PROVE  /\ IsPrefix(d, Rest(i))
           /\ i + Len(d) - 1 \in 1 .. N
           /\ Ends(d, SubSeq(call.format, 1, i + Len(d) - 1))
<1>1. Rest(i) \in Seq(Runes) /\ Len(Rest(i)) = N + 1 - i /\ N \in Nat
      /\ \A j \in 1 .. N + 1 - i : Rest(i)[j] = At(i + j - 1)
  BY RestRunes, CalledType
<1>2. d \in Seq(Runes) /\ Len(d) \in Nat /\ Len(d) >= 2
  BY DirectiveType
<1>3. i + Len(d) - 1 \in 1 .. N
  <2>1. Len(d) \in 1 .. Len(d)
    BY <1>2
  <2>2. At(i + Len(d) - 1) \in Runes
    BY <1>2, <2>1
  <2>3. At(i + Len(d) - 1) # NUL
    BY <2>2, RunesAssumption
  <2> QED
    BY <1>1, <1>2, <2>3 DEF At, N
<1>4. IsPrefix(d, Rest(i))
  <2>1. Len(d) <= Len(Rest(i))
    BY <1>1, <1>2, <1>3
  <2>2. \A j \in 1 .. Len(d) : Rest(i)[j] = d[j]
    BY <1>1, <1>2, <2>1
  <2> QED
    BY <1>1, <1>2, <2>1, <2>2, PrefixRunes
<1>5. Ends(d, SubSeq(call.format, 1, i + Len(d) - 1))
  <2> DEFINE m == i + Len(d) - 1
             g == SubSeq(call.format, 1, m)
  <2>0. call.format \in Seq(Runes) /\ N = Len(call.format)
    BY CalledType DEF N
  <2>1. Len(g) = m /\ \A j \in 1 .. m : g[j] = call.format[j]
    <3>1. \A j \in 1 .. m : call.format[j] \in Runes
      BY <1>1, <1>3, <2>0
    <3>2. m \in Int /\ 1 <= m
      BY <1>1, <1>3
    <3>3. Len(g) = m - 1 + 1 /\ \A j \in 1 .. m - 1 + 1 : g[j] = call.format[1 + j - 1]
      BY <3>1, <3>2, SubSeqProperties
    <3>4. m - 1 + 1 = m /\ \A j \in 1 .. m : 1 + j - 1 = j
      BY <3>2
    <3> HIDE DEF g, m
    <3> QED
      BY <3>3, <3>4
  <2>2. Len(d) <= m
    BY <1>1, <1>2
  <2>3. ASSUME NEW j \in 1 .. Len(d) PROVE g[m - Len(d) + j] = d[j]
    <3>1. m - Len(d) + j = i + j - 1 /\ i + j - 1 \in 1 .. m /\ i + j - 1 \in 1 .. N
      BY <1>1, <1>2, <1>3
    <3>2. At(i + j - 1) = call.format[i + j - 1]
      BY <2>0, <3>1 DEF At
    <3> HIDE DEF g, m
    <3> QED
      BY <2>1, <3>1, <3>2
  <2> HIDE DEF g, m
  <2> QED
    BY <2>1, <2>2, <2>3 DEF Ends, g, m
<1> QED
  BY <1>3, <1>4, <1>5

(* The reading at rune i, with these slots and text.                       *)
Parse(i, slots, text) == [rest |-> Rest(i), slots |-> slots, text |-> text, valid |-> TRUE]

(* What the reading comes to.                                              *)
Read(p) == \E n \in 0 .. N : Reading(call.format, call.slots, n) = p

(* The invariant's Reached is a parse the reading comes to.                *)
LEMMA ReachedIsRead ==
    ASSUME NEW i, NEW slots, NEW text
    PROVE  Reached(i, slots, text) <=> Read(Parse(i, slots, text))
BY DEF Reached, Read, Parse, N

(* A parse the reading comes to is typed, its text begins the whole text,  *)
(* and the reading goes on from it until nothing moves.                    *)
LEMMA ReadProperties ==
    ASSUME Called, NEW p, Read(p)
    PROVE  /\ p \in Parses
           /\ Begins(p.text, Whole.text)
           /\ Advance(p) = p => Whole = p
           /\ Whole \in Parses
           /\ p.valid /\ p.rest # <<>> => Read(Advance(p))
<1>0. call.format \in Seq(Runes) /\ call.slots \in Seq(Slot) /\ N \in Nat /\ N \in 0 .. N
      /\ N = Len(call.format)
  BY CalledType DEF N
<1>1. PICK n \in 0 .. N : Reading(call.format, call.slots, n) = p
  BY DEF Read
<1>2. Sound(call.format, n, p) /\ Sound(call.format, N, Whole)
  BY <1>0, <1>1, ReadingSound DEF Whole
<1>3. p \in Parses /\ Whole \in Parses
  BY <1>2 DEF Sound
<1>4. Begins(p.text, Whole.text) /\ (Advance(p) = p => Whole = p)
  <2>1. N \in n .. N
    BY <1>0
  <2> QED
    BY <1>0, <1>1, <2>1, ReadingGrows DEF Whole
<1>5. ASSUME p.valid, p.rest # <<>> PROVE Read(Advance(p))
  <2>1. Len(p.rest) + n <= N
    BY <1>0, <1>2, <1>5 DEF Sound
  <2>2. Len(p.rest) >= 1 /\ Len(p.rest) \in Nat
    <3>1. p.rest \in Seq(Runes)
      BY <1>3 DEF Parses
    <3> QED
      BY <1>5, <3>1
  <2>3. n \in 0 .. N - 1 /\ n + 1 \in 0 .. N
    BY <1>0, <2>1, <2>2
  <2>4. Reading(call.format, call.slots, n + 1) = Advance(p)
    BY <1>0, <1>1, <2>3, ReadingStep
  <2> QED
    BY <2>3, <2>4 DEF Read
<1> QED
  BY <1>3, <1>4, <1>5

(* A rune that starts no directive is read as itself.                      *)
LEMMA ReadPlainRune ==
    ASSUME Called, NEW i \in 1 .. N + 1, NEW slots, NEW text,
           Reached(i, slots, text), At(i) \notin {"%", NUL}
    PROVE  /\ Reached(i + 1, slots, Append(text, At(i)))
           /\ i + 1 \in 1 .. N + 1
<1> DEFINE p == Parse(i, slots, text)
<1>1. Read(p)
  BY ReachedIsRead
<1>2. p.rest # <<>> /\ Head(p.rest) = At(i) /\ Tail(p.rest) = Rest(i + 1) /\ i \in 1 .. N
  BY RestRunes DEF Parse
<1>3. p \in Parses /\ p.valid
  BY <1>1, ReadProperties DEF Parse
<1>4. Read(Advance(p))
  BY <1>1, <1>2, <1>3, ReadProperties
<1>5. Advance(p) = [rest |-> Tail(p.rest), slots |-> p.slots,
                    text |-> Append(p.text, Head(p.rest)), valid |-> p.valid]
  BY <1>2, <1>3, AdvanceRune
<1>6. Advance(p) = Parse(i + 1, slots, Append(text, At(i)))
  BY <1>2, <1>5 DEF Parse
<1>7. i + 1 \in 1 .. N + 1
  BY <1>2, CalledType
<1> QED
  BY <1>4, <1>6, <1>7, ReachedIsRead

(* %% is read as a %.                                                      *)
LEMMA ReadPercent ==
    ASSUME Called, NEW i \in 1 .. N + 1, NEW slots, NEW text,
           Reached(i, slots, text), At(i) = "%", At(i + 1) = "%"
    PROVE  /\ Reached(i + 2, slots, Append(text, "%"))
           /\ i + 2 \in 1 .. N + 1
<1> DEFINE p == Parse(i, slots, text)
           d == <<"%", "%">>
<1>0. N \in Nat
  BY CalledType
<1>1. Read(p)
  BY ReachedIsRead
<1>2. d \in Directives /\ Len(d) = 2
  BY DEF Directives, Semantics!Directives
<1>3. \A j \in 1 .. Len(d) : At(i + j - 1) = d[j]
  <2>1. i + 1 - 1 = i /\ i + 2 - 1 = i + 1 /\ d[1] = "%" /\ d[2] = "%"
    BY <1>0
  <2> QED
    BY <1>2, <2>1
<1>4. IsPrefix(d, Rest(i)) /\ i + 2 - 1 \in 1 .. N
  BY <1>2, <1>3, RunesAreDirective
<1>5. p.rest # <<>>
  <2>1. At(i) # NUL
    BY RunesAssumption
  <2> QED
    BY <2>1, RestRunes DEF Parse
<1>6. p \in Parses /\ p.valid
  BY <1>1, ReadProperties DEF Parse
<1>7. Read(Advance(p))
  BY <1>1, <1>5, <1>6, ReadProperties
<1>8. Advance(p) = [rest |-> SubSeq(p.rest, 3, Len(p.rest)), slots |-> p.slots,
                    text |-> Append(p.text, "%"), valid |-> p.valid]
  BY <1>4, <1>6, AdvancePercent DEF Parse
<1>9. SubSeq(Rest(i), 3, Len(Rest(i))) = Rest(i + 2)
  <2>1. 2 \in 0 .. N + 1 - i
    BY <1>0, <1>4
  <2>2. SubSeq(Rest(i), 2 + 1, Len(Rest(i))) = Rest(i + 2)
    BY <2>1, RestRunes
  <2> QED
    BY <2>2
<1>10. Advance(p) = Parse(i + 2, slots, Append(text, "%"))
  BY <1>8, <1>9 DEF Parse
<1>11. i + 2 \in 1 .. N + 1
  BY <1>0, <1>4
<1> QED
  BY <1>7, <1>10, <1>11, ReachedIsRead

(* A directive that reads a slot is read as the text it stands for.        *)
LEMMA ReadDirectiveAt ==
    ASSUME Called, NEW i \in 1 .. N + 1, NEW p, Read(p), p.rest = Rest(i), p.valid = TRUE,
           p.slots # <<>>, NEW d \in Directives, d # <<"%", "%">>,
           \A j \in 1 .. Len(d) : At(i + j - 1) = d[j]
    PROVE  /\ Reached(i + Len(d), Tail(p.slots),
                      p.text \o Semantics!Substitution(d, Head(p.slots)))
           /\ i + Len(d) - 1 \in 1 .. N
           /\ d[Len(d)] # "%"
           /\ Ends(d, SubSeq(call.format, 1, i + Len(d) - 1))
<1>0. N \in Nat /\ Len(d) \in Nat /\ Len(d) >= 2 /\ d[Len(d)] # "%"
  BY CalledType, DirectiveType
<1>1. /\ IsPrefix(d, Rest(i)) /\ i + Len(d) - 1 \in 1 .. N
      /\ Ends(d, SubSeq(call.format, 1, i + Len(d) - 1))
  BY RunesAreDirective
<1>2. p \in Parses
  BY ReadProperties
<1>3. p.rest # <<>>
  <2>1. Len(Rest(i)) = N + 1 - i
    BY RestRunes
  <2>2. Len(Rest(i)) # 0
    BY <1>0, <1>1, <2>1
  <2> QED
    BY <2>2
<1>4. Read(Advance(p))
  BY <1>3, ReadProperties
<1>5. Advance(p) = [rest |-> SubSeq(p.rest, Len(d) + 1, Len(p.rest)), slots |-> Tail(p.slots),
                    text |-> p.text \o Semantics!Substitution(d, Head(p.slots)),
                    valid |-> p.valid]
  BY <1>1, <1>2, AdvanceDirective
<1>6. SubSeq(Rest(i), Len(d) + 1, Len(Rest(i))) = Rest(i + Len(d))
  <2>1. Len(d) \in 0 .. N + 1 - i
    BY <1>0, <1>1
  <2> QED
    BY <2>1, RestRunes
<1>7. Advance(p) = Parse(i + Len(d), Tail(p.slots),
                         p.text \o Semantics!Substitution(d, Head(p.slots)))
  BY <1>5, <1>6 DEF Parse
<1> QED
  BY <1>0, <1>1, <1>4, <1>7, ReachedIsRead

(* A reading that meets an unknown directive stops there.                  *)
LEMMA ReadUnknown ==
    ASSUME Called, NEW i \in 1 .. N + 1, NEW p, Read(p), p.rest = Rest(i), p.valid = TRUE,
           At(i) = "%", \A d \in Directives : ~ IsPrefix(d, Rest(i))
    PROVE  Whole.text = p.text /\ Whole.valid = FALSE
<1>1. p \in Parses
  BY ReadProperties
<1>2. p.rest # <<>> /\ Head(p.rest) = "%"
  <2>1. At(i) # NUL
    BY RunesAssumption
  <2> QED
    BY <2>1, RestRunes
<1> DEFINE q == [rest |-> p.rest, slots |-> p.slots, text |-> p.text, valid |-> FALSE]
<1>3. Advance(p) = q
  BY <1>1, <1>2, AdvanceUnknown
<1>4. Read(q)
  BY <1>2, <1>3, ReadProperties
<1>5. q \in Parses
  BY <1>4, ReadProperties
<1>6. q.rest = p.rest /\ q.text = p.text /\ q.slots = p.slots /\ q.valid = FALSE
  OBVIOUS
<1>7. Advance(q) = q
  <2>1. Advance(q) = [rest |-> q.rest, slots |-> q.slots, text |-> q.text, valid |-> FALSE]
    <3> HIDE DEF q
    <3> QED BY <1>2, <1>5, <1>6, AdvanceUnknown
  <2> QED
    BY <2>1
<1>8. Whole = q
  <2> HIDE DEF q
  <2> QED BY <1>4, <1>7, ReadProperties
<1> QED
  BY <1>6, <1>8

(* A reading that comes to the end of the format is the whole text.        *)
LEMMA ReadToEnd ==
    ASSUME Called, NEW i \in 1 .. N + 1, NEW slots, NEW text,
           Reached(i, slots, text), At(i) = NUL
    PROVE  Whole.text = text /\ Whole.valid = TRUE
<1> DEFINE p == Parse(i, slots, text)
<1>1. Read(p)
  BY ReachedIsRead
<1>2. p.rest = <<>> /\ p.text = text /\ p.valid = TRUE
  BY RestRunes DEF Parse
<1>3. Advance(p) = p
  <2> HIDE DEF p
  <2> QED BY <1>2 DEF Advance, Semantics!Advance
<1>4. Whole = p
  <2> HIDE DEF p
  <2> QED BY <1>1, <1>3, ReadProperties
<1> QED
  BY <1>2, <1>4

(* A format that no directive ends has more text wherever it has more runes*)
LEMMA ReadMore ==
    ASSUME Called, NEW i \in 1 .. N + 1, NEW slots, NEW text,
           Reached(i, slots, text), At(i) # NUL, Whole.valid, NoDirectiveEnds(call.format)
    PROVE  Len(text) < Len(Whole.text)
<1> DEFINE p == Parse(i, slots, text)
<1>1. PICK n \in 0 .. N : Reading(call.format, call.slots, n) = p
  BY ReachedIsRead DEF Read
<1>2. p.rest # <<>> /\ p.text = text
  BY RestRunes DEF Parse
<1>3. call.format \in Seq(Runes) /\ call.slots \in Seq(Slot) /\ N = Len(call.format)
  BY CalledType DEF N
<1> HIDE DEF p
<1> QED
  BY <1>1, <1>2, <1>3, ReadingMore DEF Whole

(* The meaning of the call is its whole reading.                           *)
LEMMA MeaningIsWhole ==
    ASSUME call \in Calls
    PROVE  /\ call.format = NullFormat => Meaning = Semantics!Unread(<<>>, <<>>)
           /\ call.format # NullFormat => Meaning = Whole
<1> DEFINE c == <<call.format, call.slots>>
<1>1. c \in {<<d.format, d.slots>> : d \in Calls} /\ c[1] = call.format /\ c[2] = call.slots
  OBVIOUS
<1>2. Meaning = IF call.format = NullFormat THEN Semantics!Unread(<<>>, <<>>)
                ELSE Semantics!Expansion(call.format, call.slots)
  BY <1>1 DEF Meaning, Meanings
<1> QED
  BY <1>2 DEF Whole, N, Reading, Semantics!Expansion

-----------------------------------------------------------------------------
(***************************************************************************)
(* What clients were shown, and the chunk so far.                          *)
(***************************************************************************)

(* The texts clients were shown, and the chunk that follows them.          *)
Texts == [i \in 1 .. Len(log) |-> log[i].text]

ChunkSoFar == [i \in 1 .. Pending |-> buf[i - 1]]

(* The runes put so far are in their places.                               *)
LEMMA PendingInBuffer ==
    ASSUME IndInv, ChunkTold
    PROVE  /\ Pending \in Nat /\ (Pending <= Size \/ Pending = 0)
           /\ ChunkSoFar \in Seq(Runes) /\ Len(ChunkSoFar) = Pending
           /\ pc = "callback" => Pending = RunesInChunk
           /\ pc \in {"entry", "format", "integer", "copy"} => Pending = glyphs
<1>1. Size \in Nat /\ buf \in [0 .. Size - 1 -> Cells] /\ pc \in PCs /\ glyphs \in Nat
      /\ chunk \in Chunks
  BY BufferType DEF IndInv, TypeOK
<1>2. /\ pc = "callback" => Pending = RunesInChunk
      /\ pc = "returned" => Pending = 0
      /\ pc \in {"entry", "format", "integer", "copy"} => Pending = glyphs
  BY DEF Pending
<1>3. /\ Pending \in Nat
      /\ Pending <= Size \/ Pending = 0
      /\ \A i \in 0 .. Pending - 1 : buf[i] # NUL
  <2>1. CASE pc = "returned"
    BY <1>1, <1>2, <2>1
  <2>2. CASE pc = "entry"
    BY <1>1, <1>2, <2>2 DEF IndInv, EntryState
  <2>3. CASE pc \in {"format", "integer", "copy"}
    BY <1>1, <1>2, <2>3 DEF IndInv, RoomForRune, RunesPut
  <2>4. CASE pc = "callback" /\ chunk.error # "ErrorWouldCauseOverflow"
    BY <1>1, <1>2, <2>4 DEF IndInv, ChunkTerminated
  <2>5. CASE pc = "callback" /\ chunk.error = "ErrorWouldCauseOverflow"
    BY <1>1, <1>2, <2>5 DEF IndInv, CallbackState, ChunkTold, Refused
  <2> QED
    BY <1>1, <2>1, <2>2, <2>3, <2>4, <2>5 DEF PCs
<1>4. \A i \in 1 .. Pending : buf[i - 1] \in Runes
  <2> SUFFICES ASSUME NEW i \in 1 .. Pending PROVE buf[i - 1] \in Runes
    OBVIOUS
  <2>1. i - 1 \in 0 .. Pending - 1 /\ i - 1 \in 0 .. Size - 1
    BY <1>1, <1>3
  <2> QED
    BY <1>1, <1>3, <2>1 DEF Cells
<1>5. ChunkSoFar \in Seq(Runes) /\ Len(ChunkSoFar) = Pending
  BY <1>3, <1>4 DEF ChunkSoFar
<1> QED
  BY <1>2, <1>3, <1>5

(* An entry more is a text more.                                           *)
LEMMA TextsAppend ==
    ASSUME NEW l \in Seq(LogEntries), NEW e \in LogEntries
    PROVE  /\ [i \in 1 .. Len(l) |-> l[i].text] \in Seq(Seq(Runes))
           /\ [i \in 1 .. Len(Append(l, e)) |-> Append(l, e)[i].text]
                = Append([i \in 1 .. Len(l) |-> l[i].text], e.text)
<1> DEFINE a == Append(l, e)
           s == [i \in 1 .. Len(l) |-> l[i].text]
           t == [i \in 1 .. Len(a) |-> a[i].text]
<1>1. /\ a \in Seq(LogEntries) /\ Len(a) = Len(l) + 1 /\ Len(l) \in Nat
      /\ a[Len(l) + 1] = e /\ \A i \in 1 .. Len(l) : a[i] = l[i]
  BY AppendProperties
<1>2. \A x \in LogEntries : x.text \in Seq(Runes)
  BY DEF LogEntries
<1> HIDE DEF a
<1>3. /\ s \in Seq(Seq(Runes)) /\ Len(s) = Len(l)
      /\ \A i \in 1 .. Len(l) : s[i] = l[i].text
  <2>1. \A i \in 1 .. Len(l) : l[i].text \in Seq(Runes)
    BY <1>2, ElementOfSeq
  <2> QED
    BY <1>1, <2>1
<1>4. /\ t \in Seq(Seq(Runes)) /\ Len(t) = Len(l) + 1
      /\ \A i \in 1 .. Len(l) + 1 : t[i] = a[i].text
  <2>1. \A i \in 1 .. Len(a) : a[i].text \in Seq(Runes)
    BY <1>1, <1>2, ElementOfSeq
  <2> QED
    BY <1>1, <2>1
<1> HIDE DEF s, t
<1> DEFINE u == Append(s, e.text)
<1>5. /\ u \in Seq(Seq(Runes)) /\ Len(u) = Len(l) + 1 /\ u[Len(l) + 1] = e.text
      /\ \A i \in 1 .. Len(l) : u[i] = s[i]
  <2>1. e.text \in Seq(Runes)
    BY <1>2
  <2> QED
    BY <1>3, <2>1, AppendProperties
<1> HIDE DEF u
<1>6. ASSUME NEW i \in 1 .. Len(t) PROVE t[i] = u[i]
  <2>1. CASE i = Len(l) + 1
    <3>1. t[i] = a[i].text /\ a[i] = e /\ u[i] = e.text
      BY <1>1, <1>4, <1>5, <2>1
    <3> QED
      BY <3>1
  <2>2. CASE i # Len(l) + 1
    <3>1. i \in 1 .. Len(l) /\ i \in 1 .. Len(l) + 1
      BY <1>1, <1>4, <2>2
    <3>2. t[i] = a[i].text /\ a[i] = l[i] /\ u[i] = s[i] /\ s[i] = l[i].text
      BY <1>1, <1>3, <1>4, <1>5, <3>1
    <3> QED
      BY <3>2
  <2> QED
    BY <2>1, <2>2
<1>7. t = u
  BY <1>4, <1>5, <1>6, SeqEqual
<1> QED
  BY <1>3, <1>7 DEF a, s, t, u

(* What clients were shown is a text.                                      *)
LEMMA ShownType ==
    ASSUME IndInv
    PROVE  Texts \in Seq(Seq(Runes)) /\ Shown_ = FlattenSeq(Texts) /\ Shown_ \in Seq(Runes)
<1>1. log \in Seq(LogEntries)
  BY DEF IndInv, TypeOK
<1>2. Texts \in Seq(Seq(Runes))
  <2>1. \A l \in Seq(LogEntries) : [i \in 1 .. Len(l) |-> l[i].text] \in Seq(Seq(Runes))
    <3>1. [text |-> <<>>, error |-> "NoError", done |-> 0] \in LogEntries
      BY DEF LogEntries, Errors
    <3> QED
      BY <3>1, TextsAppend
  <2> QED
    BY <1>1, <2>1 DEF Texts
<1>3. Shown_ = FlattenSeq(Texts)
  BY DEF Shown_, Texts
<1>4. <<>> \in Seq(Runes)
  OBVIOUS
<1> QED
  BY <1>2, <1>3, <1>4, FlattenAppend

(* What the call has put is what clients were shown and then the chunk so  *)
(* far.                                                                    *)
LEMMA SeenType ==
    ASSUME IndInv, ChunkTold
    PROVE  Seen \in Seq(Runes) /\ Seen = Shown_ \o ChunkSoFar
<1>1. Seen = Shown_ \o ChunkSoFar
  BY DEF Seen, ChunkSoFar
<1> QED
  BY <1>1, PendingInBuffer, ShownType, ConcatProperties

(* Putting a rune adds it to what the call has put.                        *)
LEMMA PutSeen ==
    ASSUME IndInv, ChunkTold, pc \in {"format", "copy"}, NEW r \in Runes, NEW last,
           NEW resume \in {"format", "copy"}, Put(r, last, resume), UNCHANGED <<call, log>>
    PROVE  /\ Seen' = Append(Seen, r)
           /\ Place' = resume
           /\ pc' \in {"callback", resume}
           /\ pc' = "callback" => /\ Pending' = Size - 1
                                  /\ chunk' = [error |-> "NoError", done |-> Done(last),
                                               resume |-> resume]
<1>1. Size \in Nat /\ buf \in [0 .. Size - 1 -> Cells] /\ glyphs \in Nat /\ glyphs + 2 <= Size
  BY BufferType DEF IndInv, TypeOK, RoomForRune
<1>2. r \in Cells /\ NUL \in Cells
  BY DEF Cells
<1>3. Pending = glyphs
  BY PendingInBuffer
<1> DEFINE once == Write(buf, glyphs, r)
<1>4. /\ once \in [0 .. Size - 1 -> Cells]
      /\ once[glyphs] = r
      /\ \A j \in 0 .. Size - 1 : j # glyphs => once[j] = buf[j]
  <2>1. glyphs \in 0 .. Size - 1
    BY <1>1
  <2> QED
    BY <1>1, <1>2, <2>1, WriteInside
<1>5. /\ glyphs' = glyphs + 1
      /\ pc' \in {"callback", resume}
      /\ Place' = resume
      /\ Pending' = glyphs + 1
      /\ pc' = "callback" => /\ glyphs + 1 >= Size - 1
                             /\ chunk' = [error |-> "NoError", done |-> Done(last),
                                          resume |-> resume]
      /\ buf' = once \/ (buf' = Write(once, Size - 1, NUL) /\ glyphs + 1 >= Size - 1)
  <2>1. CASE Full(glyphs + 1)
    <3>1. /\ glyphs' = glyphs + 1 /\ pc' = "callback"
          /\ chunk' = [error |-> "NoError", done |-> Done(last), resume |-> resume]
          /\ buf' = Write(once, Size - 1, NUL)
          /\ glyphs + 1 >= Size - 1
      BY <2>1 DEF Put, CallBack, Full
    <3>2. Place' = resume /\ RunesInChunk' = glyphs + 1
      BY <3>1 DEF Place, RunesInChunk
    <3>3. Pending' = glyphs + 1
      BY <3>1, <3>2 DEF Pending
    <3> QED
      BY <3>1, <3>2, <3>3
  <2>2. CASE ~ Full(glyphs + 1)
    BY <2>2 DEF Put, Place, Pending
  <2> QED
    BY <2>1, <2>2
<1>6. \A j \in 0 .. glyphs : buf'[j] = IF j = glyphs THEN r ELSE buf[j]
  <2> HIDE DEF once
  <2>1. \A j \in 0 .. glyphs : once[j] = IF j = glyphs THEN r ELSE buf[j]
    BY <1>1, <1>4
  <2>2. CASE buf' = once
    BY <2>1, <2>2
  <2>3. CASE buf' = Write(once, Size - 1, NUL) /\ glyphs + 1 >= Size - 1
    <3>1. Size - 1 \in 0 .. Size - 1
      BY <1>1
    <3>2. \A j \in 0 .. Size - 1 : j # Size - 1 => Write(once, Size - 1, NUL)[j] = once[j]
      BY <1>1, <1>2, <1>4, <3>1, WriteInside
    <3>3. \A j \in 0 .. glyphs : j \in 0 .. Size - 1 /\ j # Size - 1
      BY <1>1
    <3> QED
      BY <2>1, <2>3, <3>2, <3>3
  <2> QED
    BY <1>5, <2>2, <2>3
<1>7. ChunkSoFar' = Append(ChunkSoFar, r)
  <2>1. ChunkSoFar' = [i \in 1 .. glyphs + 1 |-> buf'[i - 1]]
    BY <1>5 DEF ChunkSoFar
  <2>2. ChunkSoFar = [i \in 1 .. glyphs |-> buf[i - 1]] /\ ChunkSoFar \in Seq(Runes)
        /\ Len(ChunkSoFar) = glyphs
    BY <1>3, PendingInBuffer DEF ChunkSoFar
  <2>3. ASSUME NEW i \in 1 .. glyphs + 1
        PROVE  buf'[i - 1] = IF i = glyphs + 1 THEN r ELSE ChunkSoFar[i]
    <3>1. i - 1 \in 0 .. glyphs /\ (i - 1 = glyphs <=> i = glyphs + 1)
          /\ (i # glyphs + 1 => i \in 1 .. glyphs)
      BY <1>1
    <3> QED
      BY <1>6, <2>2, <3>1
  <2>4. Append(ChunkSoFar, r)
            = [i \in 1 .. glyphs + 1 |-> IF i = glyphs + 1 THEN r ELSE ChunkSoFar[i]]
    BY <1>1, <2>2
  <2> QED
    BY <2>1, <2>3, <2>4
<1>8. Shown_' = Shown_
  BY DEF Shown_
<1>9. Seen' = Append(Seen, r)
  <2>1. Seen' = Shown_' \o ChunkSoFar'
    BY DEF Seen, ChunkSoFar
  <2>2. Shown_ \in Seq(Runes) /\ ChunkSoFar \in Seq(Runes)
    BY PendingInBuffer, ShownType
  <2>3. Shown_ \o Append(ChunkSoFar, r) = Append(Shown_ \o ChunkSoFar, r)
    BY <2>2
  <2> QED
    BY <1>7, <1>8, <2>1, <2>3, SeenType
<1>10. pc' = "callback" => Pending' = Size - 1
  BY <1>1, <1>5
<1> QED
  BY <1>5, <1>9, <1>10

(* The client is shown the runes put since the last callback.              *)
LEMMA ChunkIsShown ==
    ASSUME IndInv, ChunkTold, pc = "callback"
    PROVE  ShownText = ChunkSoFar
<1>1. Size \in Nat /\ buf \in [0 .. Size - 1 -> Cells]
  BY BufferType DEF IndInv
<1>2. Pending = RunesInChunk
  BY PendingInBuffer
<1>3. CASE chunk.error = "ErrorWouldCauseOverflow"
  <2>1. Pending = 0
    BY <1>1, <1>3 DEF IndInv, CallbackState, ChunkTold, Refused
  <2> QED
    BY <1>3, <2>1 DEF ShownText, ChunkSoFar
<1>4. CASE chunk.error # "ErrorWouldCauseOverflow"
  <2> DEFINE n == RunesInChunk
             Is(m) == /\ m = Size \/ buf[m] = NUL
                      /\ \A i \in 0 .. m - 1 : buf[i] # NUL
  <2>1. n \in 0 .. Size - 1 /\ buf[n] = NUL /\ \A i \in 0 .. n - 1 : buf[i] # NUL
    BY <1>4 DEF IndInv, ChunkTerminated
  <2> HIDE DEF n
  <2>2. n \in 0 .. Size /\ Is(n)
    BY <1>1, <2>1
  <2>3. ASSUME NEW m \in 0 .. Size, Is(m) PROVE m = n
    <3>1. CASE m < n
      BY <1>1, <2>1, <2>3, <3>1
    <3>2. CASE n < m
      BY <1>1, <2>1, <2>3, <3>2
    <3> QED
      BY <1>1, <2>1, <3>1, <3>2
  <2>4. Shown = CHOOSE m \in 0 .. Size : Is(m)
    BY DEF Shown
  <2>5. Shown = n
    <3> HIDE DEF Is
    <3>1. Shown \in 0 .. Size /\ Is(Shown)
      BY <2>2, <2>4, Zenon
    <3> QED
      BY <2>3, <3>1
  <2> QED
    BY <1>2, <1>4, <2>5 DEF ShownText, ChunkSoFar, n
<1> QED
  BY <1>3, <1>4

(* A callback leaves what the call has put, and where it is, alone.        *)
LEMMA CallbackSeen ==
    ASSUME IndInv, IndInv', ChunkTold, Callback
    PROVE  /\ Seen' = Seen /\ Shown_' = Seen /\ Place' = Place
           /\ Shown_' = Shown_ \o ChunkSoFar
           /\ Pending' = 0
           /\ pc' \in {"format", "copy", "returned"}
           /\ pc' # "returned" => pc' = chunk.resume /\ chunk.resume # "returned"
<1>1. /\ pc = "callback"
      /\ log' = Append(log, [text |-> ShownText, error |-> chunk.error, done |-> chunk.done])
      /\ UNCHANGED <<buf, chunk>>
  BY DEF Callback
<1>2. \/ pc' = "returned"
      \/ chunk.resume # "returned" /\ pc' = chunk.resume /\ glyphs' = 0
  BY DEF Callback, Return, Resume
<1>3. chunk \in Chunks /\ log \in Seq(LogEntries)
  BY DEF IndInv, TypeOK
<1>4. pc' \in {"format", "copy", "returned"} /\ Place' = Place
  BY <1>1, <1>2, <1>3 DEF Place, Chunks
<1>5. Pending' = 0
  BY <1>2, <1>4 DEF Pending
<1>6. ChunkSoFar' = <<>>
  BY <1>5 DEF ChunkSoFar
<1>7. Shown_' = Shown_ \o ChunkSoFar
  <2>1. ShownText = ChunkSoFar /\ ShownText \in Seq(Runes)
    BY <1>1, ChunkIsShown, PendingInBuffer
  <2>2. Texts' = Append(Texts, ShownText)
    <3> DEFINE e == [text |-> ShownText, error |-> chunk.error, done |-> chunk.done]
    <3>1. e \in LogEntries /\ e.text = ShownText
      BY <1>3, <2>1 DEF LogEntries, Chunks
    <3>2. log' = Append(log, e)
      BY <1>1
    <3>3. Texts' = [i \in 1 .. Len(log') |-> log'[i].text]
      BY DEF Texts
    <3> HIDE DEF e
    <3>4. [i \in 1 .. Len(Append(log, e)) |-> Append(log, e)[i].text]
            = Append([i \in 1 .. Len(log) |-> log[i].text], e.text)
      BY <1>3, <3>1, TextsAppend
    <3> QED
      BY <3>1, <3>2, <3>3, <3>4 DEF Texts
  <2>3. Shown_' = FlattenSeq(Texts')
    BY DEF Shown_, Texts
  <2> QED
    BY <2>1, <2>2, <2>3, ShownType, FlattenAppend
<1>8. Seen' = Shown_' \o <<>>
  BY <1>6 DEF Seen, ChunkSoFar
<1>9. Seen = Shown_ \o ChunkSoFar /\ Seen \in Seq(Runes)
  BY SeenType
<1>10. Shown_' = Seen /\ Seen' = Seen
  BY <1>7, <1>8, <1>9, ConcatEmptySeq
<1> QED
  BY <1>2, <1>4, <1>5, <1>7, <1>10

-----------------------------------------------------------------------------
(***************************************************************************)
(* Every step keeps the relation of a call to the reading of its format.   *)
(***************************************************************************)

(* A step that calls no client leaves what clients were told alone.        *)
LEMMA QuietStep ==
    ASSUME MeaningInv, pc # "returned", pc' # "returned", UNCHANGED <<call, log>>
    PROVE  call' \in Calls /\ ClientTold' /\ (pc' # "callback" => ChunkTold')
<1>1. call' \in Calls
  BY DEF MeaningInv
<1>2. ClientTold'
  BY DEF MeaningInv, ClientTold, Returned
<1>3. pc' # "callback" => ChunkTold'
  BY DEF ChunkTold
<1> QED
  BY <1>1, <1>2, <1>3

(* What the invariant asks of the places a step does not lead to.          *)
LEMMA OtherPlaces ==
    /\ Place' # "entry" => AtEntry'
    /\ Place' # "format" => AtFormat'
    /\ Place' # "integer" => AtInteger'
    /\ Place' # "copy" => AtCopy'
    /\ Place' # "returned" => AtEnd'
BY DEF AtEntry, AtFormat, AtInteger, AtCopy, AtEnd

(* What depends on the call alone.                                         *)
LEMMA SameCall ==
    ASSUME UNCHANGED call
    PROVE  /\ Meaning' = Meaning /\ (Refused' <=> Refused) /\ Size' = Size /\ N' = N
           /\ AtFormat' <=> (Place' = "format" =>
                                /\ fmt' \in 1 .. N + 1
                                /\ minimumHexLength' = 0
                                /\ Reached(fmt', va', Seen'))
           /\ AtCopy' <=> (Place' = "copy" =>
                                /\ fmt' \in 1 .. N
                                /\ minimumHexLength' = 0
                                /\ Reached(fmt' + 1, va', Seen' \o source')
                                /\ \E d \in Directives : d[Len(d)] # "%"
                                                          /\ Ends(d, SubSeq(call.format, 1, fmt')))
<1>1. Meaning' = Meaning /\ (Refused' <=> Refused) /\ Size' = Size /\ N' = N
  BY DEF Meaning, Refused, Size, N
<1>2. Reached(fmt, va, Seen)' <=> Reached(fmt', va', Seen')
  BY DEF Reached, Rest
<1>3. Reached(fmt + 1, va, Seen \o source)' <=> Reached(fmt' + 1, va', Seen' \o source')
  BY DEF Reached, Rest
<1>4. AtFormat' <=> (Place' = "format" =>
                        /\ fmt' \in 1 .. N + 1
                        /\ minimumHexLength' = 0
                        /\ Reached(fmt', va', Seen'))
  BY <1>2, Zenon DEF AtFormat, N
<1>5. AtCopy' <=> (Place' = "copy" =>
                        /\ fmt' \in 1 .. N
                        /\ minimumHexLength' = 0
                        /\ Reached(fmt' + 1, va', Seen' \o source')
                        /\ \E d \in Directives : d[Len(d)] # "%"
                                                  /\ Ends(d, SubSeq(call.format, 1, fmt')))
  BY <1>3, Zenon DEF AtCopy, N, Directives
<1> QED
  BY <1>1, <1>4, <1>5

(* Nothing has been put at the entry.                                      *)
LEMMA NothingSeen ==
    ASSUME IndInv, MeaningInv, pc = "entry"
    PROVE  Shown_ = <<>> /\ Seen = <<>> /\ glyphs = 0 /\ fmt = 1 /\ va = call.slots
           /\ minimumHexLength = 0
<1>1. Place = "entry"
  BY DEF Place
<1>2. log = <<>> /\ fmt = 1 /\ va = call.slots /\ minimumHexLength = 0
  BY <1>1 DEF MeaningInv, AtEntry
<1>3. glyphs = 0
  BY DEF IndInv, EntryState
<1>4. Shown_ = <<>>
  BY <1>2 DEF Shown_, FlattenSeq
<1>5. Pending = 0
  BY <1>3 DEF Pending
<1>6. Seen = <<>>
  BY <1>4, <1>5 DEF Seen
<1> QED
  BY <1>2, <1>3, <1>4, <1>6

(* The NUL behind the runes put so far hides none of them.                 *)
LEMMA CloseSeen ==
    ASSUME IndInv, ChunkTold, pc \in {"format", "integer"}, UNCHANGED <<call, log>>,
           buf' = Write(buf, glyphs, NUL), Pending' = glyphs
    PROVE  Seen' = Seen
<1>1. Size \in Nat /\ buf \in [0 .. Size - 1 -> Cells] /\ glyphs \in Nat /\ glyphs + 2 <= Size
  BY BufferType DEF IndInv, TypeOK, RoomForRune
<1>2. glyphs \in 0 .. Size - 1 /\ NUL \in Cells
  BY <1>1 DEF Cells
<1>3. \A j \in 0 .. Size - 1 : j # glyphs => buf'[j] = buf[j]
  BY <1>1, <1>2, WriteInside
<1>4. Pending = glyphs
  BY PendingInBuffer
<1>5. \A i \in 1 .. glyphs : buf'[i - 1] = buf[i - 1]
  BY <1>1, <1>3
<1>6. ChunkSoFar' = ChunkSoFar
  BY <1>4, <1>5 DEF ChunkSoFar
<1>7. Shown_' = Shown_
  BY DEF Shown_
<1> QED
  BY <1>6, <1>7 DEF Seen, ChunkSoFar

-----------------------------------------------------------------------------
(* A buffer too small is refused before any rune is put                    *)
(* (String.c:105-110).                                                     *)
LEMMA RefusedMeaning ==
    ASSUME IndInv, MeaningInv, RefuseSmallBuffer PROVE MeaningInv'
<1>1. /\ pc = "entry" /\ Size < 2 /\ pc' = "callback"
      /\ chunk' = [error |-> "ErrorWouldCauseOverflow", done |-> 1, resume |-> "returned"]
      /\ UNCHANGED <<call, log, glyphs, buf>>
  BY DEF RefuseSmallBuffer, CallBack
<1>2. call' \in Calls /\ ClientTold'
  BY <1>1, QuietStep
<1>3. Place' = "returned"
  BY <1>1 DEF Place
<1>4. Pending' = 0 /\ Seen' = <<>>
  <2>1. glyphs = 0 /\ Shown_ = <<>>
    BY <1>1, NothingSeen
  <2>2. Pending' = 0
    BY <1>1, <2>1 DEF Pending, RunesInChunk
  <2>3. Shown_' = Shown_
    BY <1>1 DEF Shown_
  <2> QED
    BY <2>1, <2>2, <2>3 DEF Seen
<1>5. Refused' /\ Refused
  BY <1>1 DEF Refused, Size
<1>6. AtEnd' /\ ChunkTold'
  BY <1>1, <1>3, <1>4, <1>5 DEF AtEnd, ChunkTold
<1> QED
  BY <1>2, <1>3, <1>6, OtherPlaces DEF MeaningInv

(* A null format means the empty text (String.c:112-117).                  *)
LEMMA NothingMeaning ==
    ASSUME IndInv, MeaningInv, FormatNothing PROVE MeaningInv'
<1>1. /\ pc = "entry" /\ Size >= 2 /\ call.format = NullFormat /\ pc' = "callback"
      /\ chunk' = [error |-> "NoError", done |-> 1, resume |-> "returned"]
      /\ UNCHANGED <<call, log, glyphs>>
  BY DEF FormatNothing, CallBack
<1>2. call' \in Calls /\ ClientTold'
  BY <1>1, QuietStep
<1>3. Place' = "returned"
  BY <1>1 DEF Place
<1>4. Pending' = 0 /\ Seen' = <<>>
  <2>1. glyphs = 0 /\ Shown_ = <<>>
    BY <1>1, NothingSeen
  <2>2. Pending' = 0
    BY <1>1, <2>1 DEF Pending, RunesInChunk
  <2>3. Shown_' = Shown_
    BY <1>1 DEF Shown_
  <2> QED
    BY <2>1, <2>2, <2>3 DEF Seen
<1>5. Size \in Nat /\ Size' = Size
  BY <1>1, BufferType DEF IndInv, Size
<1>5a. ~Refused' /\ ~Refused
  BY <1>1, <1>5 DEF Refused
<1>6. Meaning'.text = <<>> /\ Meaning'.valid = TRUE
  <2>1. Meaning = [rest |-> <<>>, slots |-> <<>>, text |-> <<>>, valid |-> TRUE]
    BY <1>1, MeaningIsWhole DEF MeaningInv, Semantics!Unread
  <2> QED
    BY <1>1, <2>1, SameCall
<1>7. AtEnd'
  BY <1>1, <1>3, <1>4, <1>5a, <1>6 DEF AtEnd
<1>8. ChunkTold'
  BY <1>1, <1>4, <1>5, <1>5a DEF ChunkTold
<1> QED
  BY <1>2, <1>3, <1>7, <1>8, OtherPlaces DEF MeaningInv

(* The call starts where the reading does.                                 *)
LEMMA StartMeaning ==
    ASSUME IndInv, MeaningInv, Start PROVE MeaningInv'
<1>1. /\ pc = "entry" /\ Size >= 2 /\ call.format # NullFormat /\ pc' = "format"
      /\ UNCHANGED <<call, fmt, va, minimumHexLength, buf, glyphs, log>>
  BY DEF Start
<1>2. call' \in Calls /\ ClientTold' /\ ChunkTold'
  BY <1>1, QuietStep
<1>3. Place' = "format"
  BY <1>1 DEF Place
<1>4. Seen' = <<>>
  <2>1. glyphs = 0 /\ Shown_ = <<>>
    BY <1>1, NothingSeen
  <2>2. Pending' = 0
    BY <1>1, <2>1 DEF Pending
  <2>3. Shown_' = Shown_
    BY <1>1 DEF Shown_
  <2> QED
    BY <2>1, <2>2, <2>3 DEF Seen
<1>5. Called
  BY <1>1 DEF Called, IndInv, TypeOK
<1>6. Reached(1, call.slots, <<>>)
  <2>1. /\ call.format \in Seq(Runes) /\ call.slots \in Seq(Slot) /\ 0 \in 0 .. N
        /\ N = Len(call.format)
    BY <1>5, CalledType DEF N
  <2>2. Reading(call.format, call.slots, 0)
          = [rest |-> call.format, slots |-> call.slots, text |-> <<>>, valid |-> TRUE]
    BY <2>1, ReadingStep
  <2>3. Rest(1) = call.format
    BY <2>1, SubSeqFull DEF Rest
  <2> QED
    BY <2>1, <2>2, <2>3 DEF Reached
<1>7. AtFormat'
  <2>1. fmt' = 1 /\ va' = call.slots /\ minimumHexLength' = 0 /\ 1 \in 1 .. N + 1
    BY <1>1, <1>5, NothingSeen, CalledType
  <2> QED
    BY <1>1, <1>4, <1>6, <2>1, SameCall
<1>8. ~Refused' /\ call'.format # NullFormat
  <2>1. Size \in Nat
    BY BufferType DEF IndInv
  <2> QED
    BY <1>1, <2>1 DEF Refused, Size
<1> QED
  BY <1>2, <1>3, <1>7, <1>8, OtherPlaces DEF MeaningInv

(* What the invariant says while the call goes through its format.         *)
LEMMA Going ==
    ASSUME IndInv, MeaningInv, Place \in {"format", "integer", "copy"}
    PROVE  Called /\ ~Refused /\ N \in Nat /\ Size \in Nat /\ fmt \in Nat
<1>1. Called
  BY DEF MeaningInv, Called, IndInv, TypeOK
<1> QED
  BY <1>1, CalledType, BufferType DEF MeaningInv, IndInv, TypeOK

(* A plain rune is put as the reading adds it.                             *)
LEMMA PlainRuneMeaning ==
    ASSUME IndInv, MeaningInv, PutPlainRune PROVE MeaningInv'
<1>1. /\ pc = "format" /\ At(fmt) \notin {"%", NUL} /\ Put(At(fmt), fmt, "format")
      /\ fmt' = fmt + 1
      /\ UNCHANGED <<call, va, minimumHexLength, log>>
  BY DEF PutPlainRune
<1>2. Place = "format" /\ ChunkTold
  BY <1>1 DEF Place, MeaningInv
<1>3. Called /\ ~Refused /\ N \in Nat /\ fmt \in Nat
  BY <1>2, Going
<1>4. fmt \in 1 .. N + 1 /\ minimumHexLength = 0 /\ Reached(fmt, va, Seen)
  BY <1>2 DEF MeaningInv, AtFormat, N
<1>5. Reached(fmt + 1, va, Append(Seen, At(fmt))) /\ fmt + 1 \in 1 .. N + 1
  BY <1>1, <1>3, <1>4, ReadPlainRune
<1>6. At(fmt) \in Runes
  BY <1>1, <1>3, AtType DEF Called
<1>7. /\ Seen' = Append(Seen, At(fmt)) /\ Place' = "format"
      /\ pc' \in {"callback", "format"}
      /\ pc' = "callback" => /\ Pending' = Size - 1
                             /\ chunk' = [error |-> "NoError", done |-> Done(fmt),
                                          resume |-> "format"]
  BY <1>1, <1>2, <1>6, PutSeen
<1>8. call' \in Calls /\ ClientTold' /\ (pc' # "callback" => ChunkTold')
  BY <1>1, <1>7, QuietStep
<1>9. AtFormat'
  BY <1>1, <1>4, <1>5, <1>7, SameCall
<1>10. ~Refused' /\ call'.format # NullFormat
  BY <1>1, <1>3, SameCall DEF Called
<1>11. pc' = "callback" => ChunkTold'
  <2>1. At(fmt)' = At(fmt + 1) /\ Size' = Size
    BY <1>1 DEF At, Size
  <2> QED
    BY <1>7, <1>10, <2>1 DEF ChunkTold, Done
<1> QED
  BY <1>7, <1>8, <1>9, <1>10, <1>11, OtherPlaces DEF MeaningInv

(* %% is put as one %.                                                     *)
LEMMA PercentMeaning ==
    ASSUME IndInv, MeaningInv, PutPercent PROVE MeaningInv'
<1>1. /\ pc = "format" /\ At(fmt) = "%" /\ At(fmt + 1) = "%" /\ Put("%", fmt + 1, "format")
      /\ fmt' = fmt + 2
      /\ UNCHANGED <<call, va, minimumHexLength, log>>
  BY DEF PutPercent
<1>2. Place = "format" /\ ChunkTold
  BY <1>1 DEF Place, MeaningInv
<1>3. Called /\ ~Refused /\ N \in Nat /\ fmt \in Nat
  BY <1>2, Going
<1>4. fmt \in 1 .. N + 1 /\ minimumHexLength = 0 /\ Reached(fmt, va, Seen)
  BY <1>2 DEF MeaningInv, AtFormat, N
<1>5. Reached(fmt + 2, va, Append(Seen, "%")) /\ fmt + 2 \in 1 .. N + 1
  BY <1>1, <1>3, <1>4, ReadPercent
<1>6. "%" \in Runes
  BY RunesAssumption
<1>7. /\ Seen' = Append(Seen, "%") /\ Place' = "format"
      /\ pc' \in {"callback", "format"}
      /\ pc' = "callback" => /\ Pending' = Size - 1
                             /\ chunk' = [error |-> "NoError", done |-> Done(fmt + 1),
                                          resume |-> "format"]
  BY <1>1, <1>2, <1>6, PutSeen
<1>8. call' \in Calls /\ ClientTold' /\ (pc' # "callback" => ChunkTold')
  BY <1>1, <1>7, QuietStep
<1>9. AtFormat'
  BY <1>1, <1>4, <1>5, <1>7, SameCall
<1>10. ~Refused' /\ call'.format # NullFormat
  BY <1>1, <1>3, SameCall DEF Called
<1>11. pc' = "callback" => ChunkTold'
  <2>1. At(fmt)' = At((fmt + 1) + 1) /\ Size' = Size
    <3>1. fmt + 2 = (fmt + 1) + 1
      BY <1>3
    <3> QED
      BY <1>1, <3>1 DEF At, Size
  <2> QED
    BY <1>7, <1>10, <2>1 DEF ChunkTold, Done
<1> QED
  BY <1>7, <1>8, <1>9, <1>10, <1>11, OtherPlaces DEF MeaningInv

(* A step that puts no rune and stays in the loop leaves the text alone.   *)
LEMMA SilentSeen ==
    ASSUME pc \in {"format", "integer", "copy"}, pc' \in {"format", "integer", "copy"},
           UNCHANGED <<buf, glyphs, log>>
    PROVE  Seen' = Seen /\ Place' = pc' /\ Place = pc
<1>1. Pending' = Pending
  BY DEF Pending
<1>2. Shown_' = Shown_
  BY DEF Shown_
<1> QED
  BY <1>1, <1>2 DEF Seen, Place

(* %r starts the copy of its string argument.                              *)
LEMMA StringMeaning ==
    ASSUME IndInv, MeaningInv, ReadString PROVE MeaningInv'
<1>1. /\ pc = "format" /\ At(fmt) = "%" /\ At(fmt + 1) = "r" /\ va # <<>>
      /\ source' = Head(va).string /\ va' = Tail(va) /\ fmt' = fmt + 1 /\ pc' = "copy"
      /\ UNCHANGED <<call, minimumHexLength, buf, glyphs, log>>
  BY DEF ReadString
<1>2. Place = "format" /\ Place' = "copy" /\ Seen' = Seen
  BY <1>1, SilentSeen
<1>3. Called /\ ~Refused /\ N \in Nat /\ fmt \in Nat
  BY <1>2, Going
<1>4. fmt \in 1 .. N + 1 /\ minimumHexLength = 0 /\ Reached(fmt, va, Seen)
  BY <1>2 DEF MeaningInv, AtFormat, N
<1>5. call' \in Calls /\ ClientTold' /\ ChunkTold'
  BY <1>1, QuietStep
<1> DEFINE d == <<"%", "r">>
           p == Parse(fmt, va, Seen)
<1>6. d \in Directives /\ d # <<"%", "%">> /\ Len(d) = 2 /\ d[1] = "%" /\ d[2] = "r"
  BY DEF Directives, Semantics!Directives
<1>7. \A j \in 1 .. Len(d) : At(fmt + j - 1) = d[j]
  <2>1. fmt + 1 - 1 = fmt /\ fmt + 2 - 1 = fmt + 1
    BY <1>3
  <2> QED
    BY <1>1, <1>6, <2>1
<1>8. Read(p) /\ p.rest = Rest(fmt) /\ p.valid = TRUE /\ p.slots = va /\ p.text = Seen
  BY <1>4, ReachedIsRead DEF Parse
<1>9. Semantics!Substitution(d, Head(va)) = Head(va).string
  BY <1>6 DEF Semantics!Substitution
<1>10. /\ Reached(fmt + 2, Tail(va), Seen \o Head(va).string)
       /\ fmt + 1 \in 1 .. N
       /\ d[2] # "%" /\ Ends(d, SubSeq(call.format, 1, fmt + 1))
  <2>1. fmt + 2 - 1 = fmt + 1
    BY <1>3
  <2> HIDE DEF d, p
  <2>2. /\ Reached(fmt + Len(d), Tail(p.slots),
                   p.text \o Semantics!Substitution(d, Head(p.slots)))
        /\ fmt + Len(d) - 1 \in 1 .. N
        /\ d[Len(d)] # "%"
        /\ Ends(d, SubSeq(call.format, 1, fmt + Len(d) - 1))
    BY <1>1, <1>3, <1>4, <1>6, <1>7, <1>8, ReadDirectiveAt
  <2> QED
    BY <1>6, <1>8, <1>9, <2>1, <2>2
<1>11. AtCopy'
  <2>1. (fmt + 1) + 1 = fmt + 2
    BY <1>3
  <2> HIDE DEF d
  <2> QED
    BY <1>1, <1>2, <1>4, <1>6, <1>10, <2>1, SameCall
<1>12. ~Refused' /\ call'.format # NullFormat
  BY <1>1, <1>3, SameCall DEF Called
<1> QED
  BY <1>2, <1>5, <1>11, <1>12, OtherPlaces DEF MeaningInv

(* A letter takes its integer argument, with or without padding.           *)
LEMMA IntegerMeaning ==
    ASSUME IndInv, MeaningInv, ReadInteger PROVE MeaningInv'
<1>1. /\ pc = "format" /\ At(fmt) = "%" /\ va # <<>> /\ va' = Tail(va) /\ pc' = "integer"
      /\ UNCHANGED <<call, source, buf, glyphs, log>>
  BY DEF ReadInteger
<1>2. Place = "format" /\ Place' = "integer" /\ Seen' = Seen
  BY <1>1, SilentSeen
<1>3. Called /\ ~Refused /\ N \in Nat /\ fmt \in Nat
  BY <1>2, Going
<1>4. fmt \in 1 .. N + 1 /\ minimumHexLength = 0 /\ Reached(fmt, va, Seen)
  BY <1>2 DEF MeaningInv, AtFormat, N
<1>5. call' \in Calls /\ ClientTold' /\ ChunkTold'
  BY <1>1, QuietStep
<1>6. PICK letter \in IntegerLetters :
        /\ \/ At(fmt + 1) = letter /\ fmt' = fmt + 2 /\ minimumHexLength' = minimumHexLength
           \/ /\ At(fmt + 1) = "0" /\ At(fmt + 2) = letter /\ fmt' = fmt + 3
              /\ minimumHexLength' = PaddedLength[letter]
        /\ integerArgument' = IntegerArgument(letter, Head(va).integer)
  BY DEF ReadInteger
<1>7. PICK n \in 0 .. N : Reading(call.format, call.slots, n) = Parse(fmt, va, Seen)
  BY <1>4, ReachedIsRead DEF Read
<1> DEFINE p == Reading(call.format, call.slots, n)
<1>8. p.valid = TRUE /\ p.text = Seen /\ p.slots = va /\ p.rest = Rest(fmt)
  BY <1>7 DEF Parse
<1> HIDE DEF p
<1>9. LetterRead(p, letter)'
  <2>1. At(fmt - 1)' = letter
    <3>1. fmt + 2 - 1 = fmt + 1 /\ fmt + 3 - 1 = fmt + 2
      BY <1>3
    <3>2. At(fmt - 1)' = At(fmt' - 1)
      BY <1>1 DEF At
    <3>3. CASE fmt' = fmt + 2 /\ At(fmt + 1) = letter
      BY <1>3, <3>1, <3>2, <3>3
    <3>4. CASE fmt' = fmt + 3 /\ At(fmt + 2) = letter
      BY <1>3, <3>1, <3>2, <3>4
    <3> QED
      BY <1>6, <3>3, <3>4
  <2>2. \/ /\ fmt' >= 3
           /\ p.rest = Rest(fmt - 2)'
           /\ At(fmt - 2)' = "%"
           /\ minimumHexLength' = 0
        \/ /\ fmt' >= 4
           /\ p.rest = Rest(fmt - 3)'
           /\ At(fmt - 3)' = "%"
           /\ At(fmt - 2)' = "0"
           /\ minimumHexLength' = PaddedLength[letter]
    <3>1. fmt + 2 - 2 = fmt /\ fmt + 3 - 3 = fmt /\ fmt + 3 - 2 = fmt + 1 /\ fmt >= 1
      BY <1>3, <1>4
    <3>2. /\ At(fmt - 2)' = At(fmt' - 2) /\ At(fmt - 3)' = At(fmt' - 3)
          /\ Rest(fmt - 2)' = Rest(fmt' - 2) /\ Rest(fmt - 3)' = Rest(fmt' - 3)
      BY <1>1 DEF At, Rest
    <3>3. CASE At(fmt + 1) = letter /\ fmt' = fmt + 2 /\ minimumHexLength' = minimumHexLength
      BY <1>1, <1>3, <1>4, <1>8, <3>1, <3>2, <3>3
    <3>4. CASE /\ At(fmt + 1) = "0" /\ At(fmt + 2) = letter /\ fmt' = fmt + 3
               /\ minimumHexLength' = PaddedLength[letter]
      BY <1>1, <1>3, <1>8, <3>1, <3>2, <3>4
    <3> QED
      BY <1>6, <3>3, <3>4
  <2>3. p' = p
    BY <1>1 DEF p
  <2> QED
    BY <1>1, <1>2, <1>6, <1>8, <2>1, <2>2, <2>3 DEF LetterRead
<1>10. AtInteger'
  BY <1>1, <1>9 DEF AtInteger, N, p
<1>11. ~Refused' /\ call'.format # NullFormat
  BY <1>1, <1>3, SameCall DEF Called
<1> QED
  BY <1>2, <1>5, <1>10, <1>11, OtherPlaces DEF MeaningInv

(* Where the directive whose letter the call has read starts.              *)
LetterStart(p, letter, i) ==
    /\ i \in 1 .. N + 1
    /\ Read(p) /\ p.rest = Rest(i) /\ p.valid = TRUE /\ p.text = Seen /\ p.slots # <<>>
    /\ va = Tail(p.slots)
    /\ integerArgument = IntegerArgument(letter, Head(p.slots).integer)
    /\ At(i) = "%"
    /\ \/ fmt = i + 2 /\ At(i + 1) = letter /\ minimumHexLength = 0
       \/ /\ fmt = i + 3 /\ At(i + 1) = "0" /\ At(i + 2) = letter
          /\ minimumHexLength = PaddedLength[letter]

(* A call that looks for x or d has read such a letter.                    *)
LEMMA LetterIsRead ==
    ASSUME IndInv, MeaningInv, pc = "integer"
    PROVE  \E p, i : \E letter \in IntegerLetters : LetterStart(p, letter, i)
<1>1. Place = "integer"
  BY DEF Place
<1>2. PICK n \in 0 .. N, letter \in IntegerLetters :
          LetterRead(Reading(call.format, call.slots, n), letter)
  BY <1>1 DEF MeaningInv, AtInteger, N
<1>3. Called /\ N \in Nat /\ fmt \in Nat
  BY <1>1, Going
<1> DEFINE p == Reading(call.format, call.slots, n)
<1>4. Read(p)
  BY DEF Read
<1> HIDE DEF p
<1>5. /\ p.valid = TRUE /\ p.text = Seen /\ p.slots # <<>> /\ va = Tail(p.slots)
      /\ integerArgument = IntegerArgument(letter, Head(p.slots).integer)
      /\ At(fmt - 1) = letter
      /\ \/ /\ fmt >= 3 /\ p.rest = Rest(fmt - 2) /\ At(fmt - 2) = "%" /\ minimumHexLength = 0
         \/ /\ fmt >= 4 /\ p.rest = Rest(fmt - 3) /\ At(fmt - 3) = "%" /\ At(fmt - 2) = "0"
            /\ minimumHexLength = PaddedLength[letter]
  BY <1>2 DEF LetterRead, p
<1>6. \A i \in Nat : At(i) = "%" => i \in 1 .. N + 1
  BY <1>3, RunesAssumption DEF At, N
<1>7. CASE fmt >= 3 /\ p.rest = Rest(fmt - 2) /\ At(fmt - 2) = "%" /\ minimumHexLength = 0
  <2>1. fmt - 2 \in Nat /\ fmt = (fmt - 2) + 2 /\ fmt - 1 = (fmt - 2) + 1
    BY <1>3, <1>7
  <2>2. fmt - 2 \in 1 .. N + 1
    BY <1>6, <1>7, <2>1
  <2>3. LetterStart(p, letter, fmt - 2)
    BY <1>4, <1>5, <1>7, <2>1, <2>2 DEF LetterStart
  <2> QED
    BY <2>3
<1>8. CASE /\ fmt >= 4 /\ p.rest = Rest(fmt - 3) /\ At(fmt - 3) = "%" /\ At(fmt - 2) = "0"
           /\ minimumHexLength = PaddedLength[letter]
  <2>1. fmt - 3 \in Nat /\ fmt = (fmt - 3) + 3 /\ fmt - 1 = (fmt - 3) + 2
        /\ fmt - 2 = (fmt - 3) + 1
    BY <1>3, <1>8
  <2>2. fmt - 3 \in 1 .. N + 1
    BY <1>6, <1>8, <2>1
  <2>3. LetterStart(p, letter, fmt - 3)
    BY <1>4, <1>5, <1>8, <2>1, <2>2 DEF LetterStart
  <2> QED
    BY <2>3
<1> QED
  BY <1>5, <1>7, <1>8

(* The directive whose letter the call has read, once its last rune is     *)
(* known, stands for the text the call copies.                             *)
LEMMA IntegerDirective ==
    ASSUME Called, fmt \in Nat, minimumHexLength \in Nat,
           NEW p, NEW i, NEW letter \in IntegerLetters, LetterStart(p, letter, i),
           NEW c \in {"x", "d"}, At(fmt) = c, c = "d" => minimumHexLength = 0
    PROVE  /\ fmt \in 1 .. N
           /\ \E d \in Directives : d[Len(d)] # "%" /\ Ends(d, SubSeq(call.format, 1, fmt))
           /\ Reached(fmt + 1, va,
                      Seen \o IF c = "x" THEN HexString(integerArgument, minimumHexLength)
                              ELSE DecimalString(integerArgument))
<1>1. /\ i \in 1 .. N + 1 /\ N \in Nat /\ i \in Int
      /\ Read(p) /\ p.rest = Rest(i) /\ p.valid = TRUE /\ p.text = Seen /\ p.slots # <<>>
      /\ va = Tail(p.slots)
      /\ integerArgument = IntegerArgument(letter, Head(p.slots).integer)
      /\ At(i) = "%"
  BY CalledType DEF LetterStart
<1>2. Letters = IntegerLetters /\ Letters = {"b", "s", "i", "q"}
  BY DEF Letters, IntegerLetters, Semantics!Letters
<1>3. CASE fmt = i + 2 /\ At(i + 1) = letter /\ minimumHexLength = 0
  <2> DEFINE d == <<"%", letter, c>>
  <2>1. /\ d \in Directives /\ Len(d) = 3 /\ d # <<"%", "%">>
        /\ d[1] = "%" /\ d[2] = letter /\ d[3] = c
    BY <1>2 DEF Directives, Semantics!Directives, Letters
  <2>2. \A j \in 1 .. Len(d) : At(i + j - 1) = d[j]
    <3>1. i + 1 - 1 = i /\ i + 2 - 1 = i + 1 /\ i + 3 - 1 = i + 2
      BY <1>1
    <3> QED
      BY <1>1, <1>3, <2>1, <3>1
  <2>3. Semantics!Substitution(d, Head(p.slots))
          = IF c = "x" THEN HexString(integerArgument, minimumHexLength)
            ELSE DecimalString(integerArgument)
    <3>1. d[Len(d) - 1] = letter /\ d[Len(d)] = c /\ letter # "r" /\ letter # "0"
      BY <1>2, <2>1
    <3> HIDE DEF d
    <3> QED
      BY <1>1, <1>3, <2>1, <3>1 DEF Semantics!Substitution
  <2> HIDE DEF d
  <2>4. /\ Reached(i + Len(d), Tail(p.slots),
                   p.text \o Semantics!Substitution(d, Head(p.slots)))
        /\ i + Len(d) - 1 \in 1 .. N
        /\ d[Len(d)] # "%"
        /\ Ends(d, SubSeq(call.format, 1, i + Len(d) - 1))
    BY <1>1, <2>1, <2>2, ReadDirectiveAt
  <2>5. i + 3 = fmt + 1 /\ i + 3 - 1 = fmt
    BY <1>1, <1>3
  <2> QED
    BY <1>1, <2>1, <2>3, <2>4, <2>5
<1>4. CASE /\ fmt = i + 3 /\ At(i + 1) = "0" /\ At(i + 2) = letter
           /\ minimumHexLength = PaddedLength[letter]
  <2> DEFINE d == <<"%", "0", letter, "x">>
  <2>0. minimumHexLength = Semantics!FieldLength[letter] /\ minimumHexLength # 0
    BY <1>2, <1>4 DEF PaddedLength, Semantics!FieldLength
  <2>1. /\ d \in Directives /\ Len(d) = 4 /\ d[1] = "%" /\ d[2] = "0" /\ d[3] = letter
        /\ d[4] = "x" /\ d # <<"%", "%">> /\ c = "x"
    BY <1>2, <2>0 DEF Directives, Semantics!Directives, Letters
  <2>2. \A j \in 1 .. Len(d) : At(i + j - 1) = d[j]
    <3>1. i + 1 - 1 = i /\ i + 2 - 1 = i + 1 /\ i + 3 - 1 = i + 2 /\ i + 4 - 1 = i + 3
      BY <1>1
    <3>2. At(i) = "%" /\ At(i + 1) = "0" /\ At(i + 2) = letter /\ At(i + 3) = "x"
      BY <1>1, <1>4, <2>1
    <3>3. \A j \in 1 .. Len(d) : j = 1 \/ j = 2 \/ j = 3 \/ j = 4
      BY <2>1
    <3> HIDE DEF d
    <3> QED
      BY <2>1, <3>1, <3>2, <3>3
  <2>3. Semantics!Substitution(d, Head(p.slots)) = HexString(integerArgument, minimumHexLength)
    <3>1. d[Len(d) - 1] = letter /\ d[Len(d)] = "x"
      BY <2>1
    <3> HIDE DEF d
    <3> QED
      BY <1>1, <2>0, <2>1, <3>1 DEF Semantics!Substitution
  <2> HIDE DEF d
  <2>4. /\ Reached(i + Len(d), Tail(p.slots),
                   p.text \o Semantics!Substitution(d, Head(p.slots)))
        /\ i + Len(d) - 1 \in 1 .. N
        /\ d[Len(d)] # "%"
        /\ Ends(d, SubSeq(call.format, 1, i + Len(d) - 1))
    BY <1>1, <2>1, <2>2, ReadDirectiveAt
  <2>5. i + 4 = fmt + 1 /\ i + 4 - 1 = fmt
    BY <1>1, <1>4
  <2> QED
    BY <1>1, <2>1, <2>3, <2>4, <2>5
<1> QED
  BY <1>3, <1>4 DEF LetterStart

(* x converts the integer to hexadecimal.                                  *)
LEMMA HexMeaning ==
    ASSUME IndInv, MeaningInv, ConvertToHex PROVE MeaningInv'
<1>1. /\ pc = "integer" /\ At(fmt) = "x" /\ pc' = "copy" /\ minimumHexLength' = 0
      /\ source' = HexString(integerArgument, minimumHexLength)
      /\ UNCHANGED <<call, fmt, va, buf, glyphs, log>>
  BY DEF ConvertToHex
<1>2. Place = "integer" /\ Place' = "copy" /\ Seen' = Seen
  BY <1>1, SilentSeen
<1>3. Called /\ ~Refused /\ N \in Nat /\ fmt \in Nat /\ minimumHexLength \in Nat
  BY <1>2, Going DEF IndInv, TypeOK
<1>4. call' \in Calls /\ ClientTold' /\ ChunkTold'
  BY <1>1, QuietStep
<1>5. PICK p, i : \E letter \in IntegerLetters : LetterStart(p, letter, i)
  BY <1>1, LetterIsRead
<1>6. PICK letter \in IntegerLetters : LetterStart(p, letter, i)
  BY <1>5
<1>7. /\ fmt \in 1 .. N
      /\ \E d \in Directives : d[Len(d)] # "%" /\ Ends(d, SubSeq(call.format, 1, fmt))
      /\ Reached(fmt + 1, va, Seen \o HexString(integerArgument, minimumHexLength))
  BY <1>1, <1>3, <1>6, IntegerDirective
<1>8. AtCopy'
  BY <1>1, <1>2, <1>7, SameCall
<1>9. ~Refused' /\ call'.format # NullFormat
  BY <1>1, <1>3, SameCall DEF Called
<1> QED
  BY <1>2, <1>4, <1>8, <1>9, OtherPlaces DEF MeaningInv

(* d converts the integer to decimal.                                      *)
LEMMA DecimalMeaning ==
    ASSUME IndInv, MeaningInv, ConvertToDecimal PROVE MeaningInv'
<1>1. /\ pc = "integer" /\ At(fmt) = "d" /\ pc' = "copy" /\ minimumHexLength = 0
      /\ source' = DecimalString(integerArgument)
      /\ UNCHANGED <<call, fmt, va, minimumHexLength, buf, glyphs, log>>
  BY DEF ConvertToDecimal
<1>2. Place = "integer" /\ Place' = "copy" /\ Seen' = Seen
  BY <1>1, SilentSeen
<1>3. Called /\ ~Refused /\ N \in Nat /\ fmt \in Nat /\ minimumHexLength \in Nat
  BY <1>2, Going DEF IndInv, TypeOK
<1>4. call' \in Calls /\ ClientTold' /\ ChunkTold'
  BY <1>1, QuietStep
<1>5. PICK p, i : \E letter \in IntegerLetters : LetterStart(p, letter, i)
  BY <1>1, LetterIsRead
<1>6. PICK letter \in IntegerLetters : LetterStart(p, letter, i)
  BY <1>5
<1>7. /\ fmt \in 1 .. N
      /\ \E d \in Directives : d[Len(d)] # "%" /\ Ends(d, SubSeq(call.format, 1, fmt))
      /\ Reached(fmt + 1, va, Seen \o DecimalString(integerArgument))
  BY <1>1, <1>3, <1>6, IntegerDirective
<1>8. AtCopy'
  BY <1>1, <1>2, <1>7, SameCall
<1>9. ~Refused' /\ call'.format # NullFormat
  BY <1>1, <1>3, SameCall DEF Called
<1> QED
  BY <1>2, <1>4, <1>8, <1>9, OtherPlaces DEF MeaningInv

(* A rune of a directive's text is put, and leaves the rest of it to copy. *)
LEMMA CopyMeaning ==
    ASSUME IndInv, MeaningInv, CopyRune PROVE MeaningInv'
<1>1. /\ pc = "copy" /\ source # <<>> /\ Put(Head(source), fmt, "copy") /\ source' = Tail(source)
      /\ UNCHANGED <<call, fmt, va, minimumHexLength, log>>
  BY DEF CopyRune
<1>2. Place = "copy" /\ ChunkTold
  BY <1>1 DEF Place, MeaningInv
<1>3. Called /\ ~Refused /\ N \in Nat /\ fmt \in Nat
  BY <1>2, Going
<1>4. /\ fmt \in 1 .. N /\ minimumHexLength = 0 /\ Reached(fmt + 1, va, Seen \o source)
      /\ \E d \in Directives : d[Len(d)] # "%" /\ Ends(d, SubSeq(call.format, 1, fmt))
  BY <1>2 DEF MeaningInv, AtCopy, N, Directives
<1>5. source \in Seq(Runes) /\ Head(source) \in Runes /\ Tail(source) \in Seq(Runes)
  BY <1>1 DEF IndInv, TypeOK
<1>6. /\ Seen' = Append(Seen, Head(source)) /\ Place' = "copy"
      /\ pc' \in {"callback", "copy"}
      /\ pc' = "callback" => /\ Pending' = Size - 1
                             /\ chunk' = [error |-> "NoError", done |-> Done(fmt),
                                          resume |-> "copy"]
  BY <1>1, <1>2, <1>5, PutSeen
<1>7. Seen' \o source' = Seen \o source
  <2>1. Seen \in Seq(Runes)
    BY <1>2, SeenType
  <2>2. \A a \in Seq(Runes), b \in Seq(Runes) :
            b # <<>> => Append(a, Head(b)) \o Tail(b) = a \o b
    OBVIOUS
  <2> QED
    BY <1>1, <1>5, <1>6, <2>1, <2>2
<1>8. call' \in Calls /\ ClientTold' /\ (pc' # "callback" => ChunkTold')
  BY <1>1, <1>6, QuietStep
<1>9. AtCopy'
  BY <1>1, <1>4, <1>6, <1>7, SameCall
<1>10. ~Refused' /\ call'.format # NullFormat
  BY <1>1, <1>3, SameCall DEF Called
<1>11. pc' = "callback" => ChunkTold'
  <2>1. At(fmt + 1)' = At(fmt + 1) /\ Size' = Size
    BY <1>1 DEF At, Size
  <2> QED
    BY <1>6, <1>10, <2>1 DEF ChunkTold, Done
<1> QED
  BY <1>6, <1>8, <1>9, <1>10, <1>11, OtherPlaces DEF MeaningInv

(* Past the directive's text the call goes on with the format.             *)
LEMMA EndOfCopyMeaning ==
    ASSUME IndInv, MeaningInv, EndOfCopy PROVE MeaningInv'
<1>1. /\ pc = "copy" /\ source = <<>> /\ fmt' = fmt + 1 /\ pc' = "format"
      /\ UNCHANGED <<call, va, minimumHexLength, buf, glyphs, log>>
  BY DEF EndOfCopy
<1>2. Place = "copy" /\ Place' = "format" /\ Seen' = Seen /\ ChunkTold
  BY <1>1, SilentSeen DEF MeaningInv
<1>3. Called /\ ~Refused /\ N \in Nat /\ fmt \in Nat
  BY <1>2, Going
<1>4. fmt \in 1 .. N /\ minimumHexLength = 0 /\ Reached(fmt + 1, va, Seen \o source)
  BY <1>2 DEF MeaningInv, AtCopy, N
<1>5. Seen \o source = Seen
  BY <1>1, <1>2, SeenType, ConcatEmptySeq
<1>6. call' \in Calls /\ ClientTold' /\ ChunkTold'
  BY <1>1, QuietStep
<1>7. AtFormat'
  <2>1. fmt + 1 \in 1 .. N + 1
    BY <1>3, <1>4
  <2> QED
    BY <1>1, <1>2, <1>4, <1>5, <2>1, SameCall
<1>8. ~Refused' /\ call'.format # NullFormat
  BY <1>1, <1>3, SameCall DEF Called
<1> QED
  BY <1>2, <1>6, <1>7, <1>8, OtherPlaces DEF MeaningInv

(* Where the call finds an unknown directive, the format has none.         *)
LEMMA UnknownIsNone ==
    ASSUME IndInv, MeaningInv, UnknownDirective
    PROVE  \E p, i : /\ i \in 1 .. N + 1
                     /\ Read(p) /\ p.rest = Rest(i) /\ p.valid = TRUE /\ p.text = Seen
                     /\ At(i) = "%"
                     /\ \A d \in Directives : ~ IsPrefix(d, Rest(i))
<1>0. IntegerLetters = {"b", "s", "i", "q"}
  BY DEF IntegerLetters
<1>1. CASE pc = "format"
  <2>1. Place = "format"
    BY <1>1 DEF Place
  <2>2. Called /\ N \in Nat
    BY <2>1, Going
  <2>3. fmt \in 1 .. N + 1 /\ Reached(fmt, va, Seen)
    BY <2>1 DEF MeaningInv, AtFormat, N
  <2>4. /\ At(fmt) = "%"
        /\ \/ At(fmt + 1) \notin IntegerLetters \cup {"%", "r", "0"}
           \/ At(fmt + 1) = "0" /\ At(fmt + 2) \notin IntegerLetters
    BY <1>1 DEF UnknownDirective
  <2>5. ASSUME NEW d \in Directives, IsPrefix(d, Rest(fmt)) PROVE FALSE
    BY <1>0, <2>2, <2>3, <2>4, <2>5, DirectiveAt
  <2> DEFINE p == Parse(fmt, va, Seen)
  <2>6. Read(p) /\ p.rest = Rest(fmt) /\ p.valid = TRUE /\ p.text = Seen
    BY <2>3, ReachedIsRead DEF Parse
  <2> HIDE DEF p
  <2> QED
    BY <2>3, <2>4, <2>5, <2>6
<1>2. CASE pc = "integer"
  <2>1. Place = "integer"
    BY <1>2 DEF Place
  <2>2. Called /\ N \in Nat
    BY <2>1, Going
  <2>3. PICK p, i : \E letter \in IntegerLetters : LetterStart(p, letter, i)
    BY <1>2, LetterIsRead
  <2>4. PICK letter \in IntegerLetters : LetterStart(p, letter, i)
    BY <2>3
  <2>5. \/ At(fmt) \notin {"x", "d"}
        \/ At(fmt) = "d" /\ minimumHexLength > 0
    BY <1>2 DEF UnknownDirective
  <2>6. \/ fmt = i + 2 /\ At(i + 1) = letter /\ minimumHexLength = 0
        \/ fmt = i + 3 /\ At(i + 1) = "0" /\ At(i + 2) = letter
    BY <2>4 DEF LetterStart
  <2>7. \/ At(i + 1) = letter /\ At(i + 2) \notin {"x", "d"}
        \/ At(i + 1) = "0" /\ At(i + 3) # "x"
    BY <2>5, <2>6
  <2>8. i \in 1 .. N + 1
    BY <2>4 DEF LetterStart
  <2>9. ASSUME NEW d \in Directives, IsPrefix(d, Rest(i)) PROVE FALSE
    BY <1>0, <2>2, <2>7, <2>8, <2>9, DirectiveAt
  <2>10. Read(p) /\ p.rest = Rest(i) /\ p.valid = TRUE /\ p.text = Seen /\ At(i) = "%"
    BY <2>4 DEF LetterStart
  <2> QED
    BY <2>8, <2>9, <2>10
<1> QED
  BY <1>1, <1>2 DEF UnknownDirective

(* An unknown directive ends the call with the text before it.             *)
LEMMA InvalidMeaning ==
    ASSUME IndInv, MeaningInv, InvalidFormat PROVE MeaningInv'
<1>1. /\ UnknownDirective /\ buf' = Write(buf, glyphs, NUL) /\ glyphs' = glyphs + 1
      /\ pc' = "callback"
      /\ chunk' = [error |-> "ErrorInvalidFormat", done |-> 1, resume |-> "returned"]
      /\ UNCHANGED <<call, log>>
  BY DEF InvalidFormat, CallBack, Terminated
<1>2. pc \in {"format", "integer"} /\ Place = pc /\ Place' = "returned" /\ ChunkTold
  BY <1>1 DEF UnknownDirective, Place, MeaningInv
<1>3. Called /\ ~Refused /\ Size \in Nat
  BY <1>2, Going
<1>4. glyphs \in Nat /\ glyphs + 2 <= Size
  BY <1>2 DEF IndInv, TypeOK, RoomForRune
<1>5. Pending' = glyphs
  BY <1>1, <1>4 DEF Pending, RunesInChunk
<1>6. Seen' = Seen
  BY <1>1, <1>2, <1>5, CloseSeen
<1>7. PICK p, i : /\ i \in 1 .. N + 1
                  /\ Read(p) /\ p.rest = Rest(i) /\ p.valid = TRUE /\ p.text = Seen
                  /\ At(i) = "%"
                  /\ \A d \in Directives : ~ IsPrefix(d, Rest(i))
  BY <1>1, UnknownIsNone
<1>8. Whole.text = Seen /\ Whole.valid = FALSE
  BY <1>3, <1>7, ReadUnknown
<1>9. Meaning' = Whole
  BY <1>1, <1>3, MeaningIsWhole, SameCall DEF MeaningInv, Called
<1>10. call' \in Calls /\ ClientTold'
  BY <1>1, <1>2, QuietStep
<1>11. ~Refused' /\ Size' = Size
  BY <1>1, <1>3, SameCall
<1>12. AtEnd'
  BY <1>1, <1>2, <1>6, <1>8, <1>9, <1>11 DEF AtEnd
<1>13. ChunkTold'
  BY <1>1, <1>4, <1>5, <1>11 DEF ChunkTold
<1> QED
  BY <1>2, <1>10, <1>12, <1>13, OtherPlaces DEF MeaningInv

(* The end of the format ends the call with the whole text.                *)
LEMMA EndMeaning ==
    ASSUME IndInv, MeaningInv, EndOfFormat PROVE MeaningInv'
<1>1. /\ pc = "format" /\ At(fmt) = NUL /\ buf' = Write(buf, glyphs, NUL)
      /\ pc' = "callback"
      /\ chunk' = [error |-> "NoError", done |-> 1, resume |-> "returned"]
      /\ UNCHANGED <<call, log, glyphs>>
  BY DEF EndOfFormat, CallBack, Terminated
<1>2. Place = "format" /\ Place' = "returned" /\ ChunkTold
  BY <1>1 DEF Place, MeaningInv
<1>3. Called /\ ~Refused /\ Size \in Nat
  BY <1>2, Going
<1>4. glyphs \in Nat /\ glyphs + 2 <= Size
  BY <1>1 DEF IndInv, TypeOK, RoomForRune
<1>5. Pending' = glyphs
  BY <1>1, <1>4 DEF Pending, RunesInChunk
<1>6. Seen' = Seen
  BY <1>1, <1>2, <1>5, CloseSeen
<1>7. fmt \in 1 .. N + 1 /\ Reached(fmt, va, Seen)
  BY <1>2 DEF MeaningInv, AtFormat, N
<1>8. Whole.text = Seen /\ Whole.valid = TRUE
  BY <1>1, <1>3, <1>7, ReadToEnd
<1>9. Meaning' = Whole
  BY <1>1, <1>3, MeaningIsWhole, SameCall DEF MeaningInv, Called
<1>10. call' \in Calls /\ ClientTold'
  BY <1>1, <1>2, QuietStep
<1>11. ~Refused' /\ Size' = Size
  BY <1>1, <1>3, SameCall
<1>12. AtEnd'
  BY <1>1, <1>2, <1>6, <1>8, <1>9, <1>11 DEF AtEnd
<1>13. ChunkTold'
  BY <1>1, <1>4, <1>5, <1>11 DEF ChunkTold
<1> QED
  BY <1>2, <1>10, <1>12, <1>13, OtherPlaces DEF MeaningInv

(* A client's answer moves the chunk to the log, and ends the call or goes *)
(* on.                                                                     *)
LEMMA CallbackMeaning ==
    ASSUME IndInv, IndInv', MeaningInv, Callback PROVE MeaningInv'
<1>1. /\ pc = "callback"
      /\ log' = Append(log, [text |-> ShownText, error |-> chunk.error, done |-> chunk.done])
      /\ formatterError' = IF call.client = "into" THEN ErrorRecorded ELSE formatterError
      /\ UNCHANGED <<call, fmt, va, source, integerArgument, minimumHexLength, buf, chunk>>
  BY DEF Callback
<1>2. ChunkTold /\ chunk \in Chunks /\ log \in Seq(LogEntries) /\ Size \in Nat
  BY BufferType DEF MeaningInv, IndInv, TypeOK
<1>3. /\ Seen' = Seen /\ Place' = Place /\ Pending' = 0
      /\ pc' \in {"format", "copy", "returned"}
      /\ pc' # "returned" => pc' = chunk.resume /\ chunk.resume # "returned"
  BY <1>2, CallbackSeen
<1>4. Place \in {"format", "copy", "returned"}
  BY <1>1, <1>2 DEF Place, Chunks
<1>5. call' \in Calls
  BY <1>1 DEF MeaningInv
<1>6. Place' \in {"format", "integer", "copy"} => ~Refused' /\ call'.format # NullFormat
  BY <1>1, <1>3, SameCall DEF MeaningInv
<1>7. AtFormat' /\ AtCopy'
  <2>1. Place = "format" =>
            fmt \in 1 .. N + 1 /\ minimumHexLength = 0 /\ Reached(fmt, va, Seen)
    BY DEF MeaningInv, AtFormat, N
  <2>2. Place = "copy" =>
            /\ fmt \in 1 .. N /\ minimumHexLength = 0 /\ Reached(fmt + 1, va, Seen \o source)
            /\ \E d \in Directives : d[Len(d)] # "%" /\ Ends(d, SubSeq(call.format, 1, fmt))
    BY DEF MeaningInv, AtCopy, N, Directives
  <2> QED
    BY <1>1, <1>3, <2>1, <2>2, SameCall
<1>8. AtEnd'
  BY <1>1, <1>3, SameCall DEF MeaningInv, AtEnd
<1>9. ChunkTold'
  <2>1. At(IF chunk.resume = "format" THEN fmt ELSE fmt + 1)'
            = At(IF chunk.resume = "format" THEN fmt ELSE fmt + 1)
    BY <1>1 DEF At
  <2>2. (Refused' <=> Refused) /\ Size' = Size /\ (~Refused => 2 <= Size)
    BY <1>1, <1>2, SameCall DEF Refused
  <2>3. pc' # "callback"
    BY <1>3
  <2> QED
    BY <1>1, <1>2, <1>3, <2>1, <2>2, <2>3 DEF ChunkTold
<1>10. ClientTold'
  <2> DEFINE e == [text |-> ShownText, error |-> chunk.error, done |-> chunk.done]
  <2>1. e \in LogEntries
    <3>1. ShownText \in Seq(Runes)
      BY <1>1, ShownTextIsChunk
    <3> QED
      BY <1>2, <3>1 DEF LogEntries, Chunks
  <2>2. e.error = chunk.error /\ e.done = chunk.done /\ log' = Append(log, e)
    BY <1>1
  <2> HIDE DEF e
  <2>3. /\ Len(log') = Len(log) + 1 /\ Len(log) \in Nat /\ log' # <<>>
        /\ log'[Len(log) + 1] = e /\ \A i \in 1 .. Len(log) : log'[i] = log[i]
    BY <1>2, <2>1, <2>2, AppendProperties
  <2>4. \A i \in 1 .. Len(log) : log[i].error = "NoError"
    BY <1>1 DEF MeaningInv, ClientTold, Returned
  <2>5. chunk.resume # "returned" => chunk.error = "NoError"
    BY <1>1, <1>2 DEF ChunkTold
  <2>6. ASSUME NEW i \in 1 .. Len(log')
        PROVE  log'[i].error = "NoError" \/ (i = Len(log') /\ pc' = "returned")
    <3>1. CASE i \in 1 .. Len(log)
      BY <2>3, <2>4, <3>1
    <3>2. CASE i = Len(log) + 1
      BY <1>3, <2>2, <2>3, <2>5, <3>2
    <3> QED
      BY <2>3, <3>1, <3>2
  <2>7. Last(log') = e
    BY <2>3 DEF Last
  <2>8. ASSUME pc' = "returned"
        PROVE  /\ call.client = "iterate" => chunk.resume = "returned"
               /\ call.client = "terminal" => chunk.done = 1
    <3>1. PICK stop \in ClientReturns : stop # 0 \/ chunk.resume = "returned"
      <4>1. pc' = chunk.resume => chunk.resume = "returned"
        BY <2>8
      <4> QED
        BY <4>1 DEF Callback, Resume
    <3>2. call.client = "iterate" => stop = 0
      BY DEF ClientReturns
    <3>3. call.client = "terminal" => stop = chunk.done
      BY DEF ClientReturns
    <3>4. chunk.resume = "returned" => chunk.done = 1
      BY <1>1, <1>2 DEF ChunkTold
    <3>5. chunk.done \in {0, 1}
      BY <1>2 DEF Chunks
    <3> QED
      BY <3>1, <3>2, <3>3, <3>4, <3>5
  <2>9. call.client = "into" => formatterError' = ErrorRecorded /\ ErrorRecorded' = ErrorRecorded
    BY <1>1 DEF ErrorRecorded
  <2> QED
    BY <1>1, <2>2, <2>3, <2>6, <2>7, <2>8, <2>9 DEF ClientTold, Returned
<1> QED
  BY <1>3, <1>4, <1>5, <1>6, <1>7, <1>8, <1>9, <1>10, OtherPlaces DEF MeaningInv

(* The relation holds before the call.                                     *)
LEMMA InitMeaning == Init => MeaningInv
<1> SUFFICES ASSUME Init PROVE MeaningInv
  OBVIOUS
<1>1. Place = "entry" /\ pc = "entry"
  BY DEF Init, Place
<1>2. AtEntry
  BY DEF Init, AtEntry
<1>3. ChunkTold /\ ClientTold
  BY DEF Init, ChunkTold, ClientTold, Returned
<1> QED
  BY <1>1, <1>2, <1>3 DEF Init, MeaningInv, AtFormat, AtInteger, AtCopy, AtEnd

(* A step that changes nothing keeps it.                                   *)
LEMMA StutterMeaning ==
    ASSUME MeaningInv, UNCHANGED vars PROVE MeaningInv'
<1>1. UNCHANGED <<call, pc, fmt, va, source, integerArgument, minimumHexLength, buf, glyphs,
                  chunk, log, formatterError>>
  BY DEF vars
<1>2. Place' = Place /\ Seen' = Seen /\ Pending' = Pending
  BY <1>1 DEF Place, Seen, Pending, Shown_, RunesInChunk
<1>3. AtEntry' /\ AtFormat' /\ AtCopy'
  BY <1>1, <1>2 DEF MeaningInv, AtEntry, AtFormat, AtCopy, Reached, Rest
<1>4. AtInteger'
  BY <1>1, <1>2 DEF MeaningInv, AtInteger, LetterRead, At, Rest
<1>5. AtEnd'
  BY <1>1, <1>2, SameCall DEF MeaningInv, AtEnd
<1>6. ChunkTold' /\ ClientTold'
  BY <1>1, <1>2, SameCall DEF MeaningInv, ChunkTold, ClientTold, Returned, ErrorRecorded, At
<1>7. call' \in Calls /\ (Refused' <=> Refused)
  BY <1>1, SameCall DEF MeaningInv
<1> QED
  BY <1>1, <1>2, <1>3, <1>4, <1>5, <1>6, <1>7 DEF MeaningInv

(* The relation of a call to the reading of its format holds always.       *)
THEOREM MeaningInvariance == Spec => []MeaningInv
<1>1. Init => MeaningInv
  BY InitMeaning
<1>2. IndInv /\ IndInv' /\ MeaningInv /\ [Next]_vars => MeaningInv'
  BY RefusedMeaning, NothingMeaning, StartMeaning, PlainRuneMeaning, PercentMeaning,
     StringMeaning, IntegerMeaning, HexMeaning, DecimalMeaning, CopyMeaning, EndOfCopyMeaning,
     InvalidMeaning, EndMeaning, CallbackMeaning, StutterMeaning DEF Next
<1> QED
  BY <1>1, <1>2, Invariance, PTL DEF Spec

-----------------------------------------------------------------------------
(***************************************************************************)
(* What the calls promise.                                                 *)
(***************************************************************************)

(* Once the call has returned, the client has been shown all it put.       *)
LEMMA ReturnedSeen ==
    ASSUME IndInv, MeaningInv, Returned
    PROVE  Seen = Shown_ /\ Shown_ \in Seq(Runes) /\ Place = chunk.resume /\ ChunkTold
           /\ chunk \in Chunks /\ (~Refused => Size >= 2)
<1>1. Pending = 0
  BY DEF Pending, Returned
<1>2. Seen = Shown_ \o <<>>
  BY <1>1 DEF Seen
<1>3. Shown_ \in Seq(Runes)
  BY ShownType
<1>4. Seen = Shown_
  BY <1>2, <1>3, ConcatEmptySeq
<1>5. Size \in Nat
  BY BufferType DEF IndInv
<1> QED
  BY <1>3, <1>4, <1>5 DEF MeaningInv, Place, Returned, IndInv, TypeOK, Refused

(* EndsPlain excludes the directives at the end of the format.             *)
LEMMA EndsPlainly ==
    ASSUME Called, EndsPlain PROVE NoDirectiveEnds(call.format)
BY CalledType, PlainEnd DEF EndsPlain, Called, Directives

(* A client told that the text is done has all of a text that no directive *)
(* ends.                                                                   *)
LEMMA DoneIsAll ==
    ASSUME IndInv, MeaningInv, Returned, ~Refused, EndsPlain, chunk.done = 1
    PROVE  Shown_ = Meaning.text
<1>1. Seen = Shown_ /\ Place = chunk.resume /\ ChunkTold /\ chunk \in Chunks
  BY ReturnedSeen
<1>2. CASE chunk.resume = "returned"
  BY <1>1, <1>2 DEF MeaningInv, AtEnd
<1>3. CASE chunk.resume \in {"format", "copy"}
  <2>1. Called /\ N \in Nat /\ fmt \in Nat /\ Meaning = Whole
    BY <1>1, <1>3, Going, MeaningIsWhole DEF MeaningInv, Called
  <2>2. At(IF chunk.resume = "format" THEN fmt ELSE fmt + 1) = NUL
    BY <1>1, <1>3 DEF ChunkTold, Returned
  <2>3. CASE chunk.resume = "format"
    <3>1. fmt \in 1 .. N + 1 /\ Reached(fmt, va, Seen)
      BY <1>1, <2>3 DEF MeaningInv, AtFormat, N
    <3> QED
      BY <1>1, <2>1, <2>2, <2>3, <3>1, ReadToEnd
  <2>4. CASE chunk.resume = "copy"
    <3>1. /\ fmt \in 1 .. N
          /\ \E d \in Directives : d[Len(d)] # "%" /\ Ends(d, SubSeq(call.format, 1, fmt))
      BY <1>1, <2>4 DEF MeaningInv, AtCopy, N, Directives
    <3>2. call.format \in Seq(Runes) /\ N = Len(call.format)
      BY <2>1, CalledType DEF N
    <3>3. fmt = N
      <4>1. CASE fmt + 1 \in 1 .. N
        <5>1. At(fmt + 1) \in Runes
          BY <3>2, <4>1 DEF At
        <5>2. At(fmt + 1) = NUL
          BY <2>2, <2>4
        <5> QED
          BY <5>1, <5>2, RunesAssumption
      <4>2. CASE fmt + 1 \notin 1 .. N
        BY <2>1, <3>1, <4>2
      <4> QED
        BY <4>1, <4>2
    <3>4. SubSeq(call.format, 1, fmt) = call.format
      BY <3>2, <3>3, SubSeqFull
    <3>5. NoDirectiveEnds(call.format)
      BY <2>1, EndsPlainly
    <3> QED
      BY <3>1, <3>4, <3>5 DEF NoDirectiveEnds
  <2> QED
    BY <1>3, <2>3, <2>4
<1> QED
  BY <1>1, <1>2, <1>3 DEF Chunks

(* A client told that the text goes on has not all of a text that no       *)
(* directive ends.                                                         *)
LEMMA MoreIsMissing ==
    ASSUME IndInv, MeaningInv, Returned, ~Refused, EndsPlain, Meaning.valid, chunk.done = 0
    PROVE  Shown_ # Meaning.text
<1>1. Seen = Shown_ /\ Shown_ \in Seq(Runes) /\ Place = chunk.resume /\ ChunkTold
      /\ chunk \in Chunks
  BY ReturnedSeen
<1>2. chunk.resume \in {"format", "copy"}
  BY <1>1 DEF ChunkTold, Returned, Chunks
<1>3. Called /\ N \in Nat /\ fmt \in Nat /\ Meaning = Whole
  BY <1>1, <1>2, Going, MeaningIsWhole DEF MeaningInv, Called
<1>4. NoDirectiveEnds(call.format)
  BY <1>3, EndsPlainly
<1>5. At(IF chunk.resume = "format" THEN fmt ELSE fmt + 1) # NUL
  BY <1>1, <1>2 DEF ChunkTold, Returned
<1>6. CASE chunk.resume = "format"
  <2>1. fmt \in 1 .. N + 1 /\ Reached(fmt, va, Seen)
    BY <1>1, <1>6 DEF MeaningInv, AtFormat, N
  <2>2. Len(Seen) < Len(Whole.text)
    BY <1>3, <1>4, <1>5, <1>6, <2>1, ReadMore
  <2>3. Len(Seen) \in Nat
    BY <1>1
  <2> QED
    BY <1>1, <1>3, <2>2, <2>3
<1>7. CASE chunk.resume = "copy"
  <2>1. fmt \in 1 .. N /\ Reached(fmt + 1, va, Seen \o source)
    BY <1>1, <1>7 DEF MeaningInv, AtCopy, N
  <2>2. fmt + 1 \in 1 .. N + 1
    BY <1>3, <2>1
  <2>3. Len(Seen \o source) < Len(Whole.text)
    BY <1>3, <1>4, <1>5, <1>7, <2>1, <2>2, ReadMore
  <2>4. Len(Seen \o source) = Len(Seen) + Len(source) /\ Len(Seen) \in Nat /\ Len(source) \in Nat
    <3>1. source \in Seq(Runes)
      BY DEF IndInv, TypeOK
    <3> QED
      BY <1>1, <3>1, ConcatProperties
  <2>5. Len(Seen) < Len(Whole.text)
    <3>1. Len(Whole.text) \in Nat
      <4>1. Whole \in Parses
        BY <1>3, <2>1, ReachedIsRead, ReadProperties
      <4> QED
        BY <4>1 DEF Parses
    <3> QED
      BY <2>3, <2>4, <3>1
  <2> QED
    BY <1>1, <1>3, <2>4, <2>5
<1> QED
  BY <1>2, <1>6, <1>7

-----------------------------------------------------------------------------
(* A client that takes every chunk is told of an error exactly when there  *)
(* is one, once, with its last chunk, whatever the format, the arguments   *)
(* and the buffer, floating-point directives apart (String.c:139-275).     *)
THEOREM ErrorsAreReported == Spec => []ErrorsReported
<1>1. ASSUME IndInv, MeaningInv PROVE ErrorsReported
  <2> SUFFICES ASSUME Returned, call.client = "iterate", Specified
               PROVE  /\ \A i \in 1 .. Len(log) - 1 : log[i].error = "NoError"
                      /\ Last(log).done = 1
                      /\ Last(log).error = IF Refused THEN "ErrorWouldCauseOverflow"
                                           ELSE IF Meaning.valid THEN "NoError"
                                           ELSE "ErrorInvalidFormat"
    BY DEF ErrorsReported
  <2>1. /\ \A i \in 1 .. Len(log) : log[i].error = "NoError" \/ i = Len(log)
        /\ Last(log).done = chunk.done /\ Last(log).error = chunk.error
        /\ chunk.resume = "returned"
    BY <1>1 DEF MeaningInv, ClientTold
  <2>2. Place = "returned" /\ ChunkTold
    BY <1>1, <2>1, ReturnedSeen
  <2>3. chunk.done = 1
    BY <2>1, <2>2 DEF ChunkTold, Returned
  <2>4. chunk.error = IF Refused THEN "ErrorWouldCauseOverflow"
                      ELSE IF Meaning.valid THEN "NoError" ELSE "ErrorInvalidFormat"
    BY <1>1, <2>2 DEF MeaningInv, AtEnd
  <2>5. Len(log) \in Nat
    BY <1>1 DEF IndInv, TypeOK
  <2> QED
    BY <2>1, <2>3, <2>4, <2>5
<1> QED
  BY <1>1, Invariance, MeaningInvariance, PTL

(* The terminal's client, which ends the call when it is told the text is  *)
(* done, never ends it too early when no directive ends the format         *)
(* (String.c:128-137, TextTerminal.c:74-83).                               *)
THEOREM TerminalIsShownAll == Spec => []TerminalShowsAll
<1>1. ASSUME IndInv, MeaningInv PROVE TerminalShowsAll
  <2> SUFFICES ASSUME Returned, call.client = "terminal", ~Refused, EndsPlain
               PROVE  Shown_ = Meaning.text
    BY DEF TerminalShowsAll
  <2>1. chunk.done = 1
    BY <1>1 DEF MeaningInv, ClientTold
  <2> QED
    BY <1>1, <2>1, DoneIsAll
<1> QED
  BY <1>1, Invariance, MeaningInvariance, PTL

(* FormatIntoBuffer's formatter remembers an overflow exactly when a known *)
(* text that no directive ends did not fit (String.c:282-292).             *)
THEOREM OverflowIsRemembered == Spec => []OverflowRemembered
<1>1. ASSUME IndInv, MeaningInv PROVE OverflowRemembered
  <2> SUFFICES ASSUME Returned, call.client = "into", ~Refused, EndsPlain, Meaning.valid
               PROVE  (formatterError = "ErrorWouldCauseOverflow") <=> (Shown_ # Meaning.text)
    BY DEF OverflowRemembered
  <2>1. formatterError = ErrorRecorded /\ chunk.done \in {0, 1}
    BY <1>1, ReturnedSeen DEF MeaningInv, ClientTold, Chunks
  <2>2. CASE chunk.done = 1
    BY <1>1, <2>1, <2>2, DoneIsAll DEF ErrorRecorded
  <2>3. CASE chunk.done = 0
    BY <1>1, <2>1, <2>3, MoreIsMissing DEF ErrorRecorded
  <2> QED
    BY <2>1, <2>2, <2>3
<1> QED
  BY <1>1, Invariance, MeaningInvariance, PTL

-----------------------------------------------------------------------------
(* What the call has put is a beginning of the text its format means.      *)
LEMMA SeenBegins ==
    ASSUME IndInv, MeaningInv, Place \in {"format", "copy"}
    PROVE  /\ Meaning.text \in Seq(Runes)
           /\ Len(Seen) <= Len(Meaning.text)
           /\ Seen = SubSeq(Meaning.text, 1, Len(Seen))
<1>1. Called /\ N \in Nat /\ fmt \in Nat /\ Meaning = Whole /\ ChunkTold
  BY Going, MeaningIsWhole DEF MeaningInv, Called
<1>2. Seen \in Seq(Runes)
  BY <1>1, SeenType
<1>3. Begins(Seen, Whole.text) /\ Whole \in Parses
  <2>1. CASE Place = "format"
    <3>1. Read(Parse(fmt, va, Seen))
      BY <2>1, ReachedIsRead DEF MeaningInv, AtFormat
    <3>2. Parse(fmt, va, Seen).text = Seen
      BY DEF Parse
    <3> QED
      BY <1>1, <3>1, <3>2, ReadProperties
  <2>2. CASE Place = "copy"
    <3>1. Read(Parse(fmt + 1, va, Seen \o source))
      BY <2>2, ReachedIsRead DEF MeaningInv, AtCopy
    <3>2. Parse(fmt + 1, va, Seen \o source).text = Seen \o source
      BY DEF Parse
    <3>3. Begins(Seen \o source, Whole.text) /\ Whole \in Parses
      BY <1>1, <3>1, <3>2, ReadProperties
    <3>4. Begins(Seen, Seen \o source)
      BY DEF Begins, IndInv, TypeOK
    <3> QED
      BY <1>2, <3>3, <3>4, BeginsTransitive
  <2> QED
    BY <2>1, <2>2
<1>4. PICK t \in Seq(Runes) : Whole.text = Seen \o t
  BY <1>3 DEF Begins
<1>5. Len(Seen) \in Nat /\ Len(t) \in Nat
  BY <1>2
<1>6. Whole.text \in Seq(Runes) /\ Len(Whole.text) = Len(Seen) + Len(t)
  BY <1>2, <1>4, ConcatProperties
<1>7. Seen = SubSeq(Whole.text, 1, Len(Seen))
  <2> DEFINE b == SubSeq(Whole.text, 1, Len(Seen))
  <2>1. \A i \in 1 .. Len(Seen) : Whole.text[i] = Seen[i]
    BY <1>2, <1>4, <1>5, ConcatProperties
  <2>2. \A i \in 1 .. Len(Seen) : Whole.text[i] \in Runes
    BY <1>2, <2>1
  <2>3. /\ b \in Seq(Runes)
        /\ Len(b) = (IF 1 <= Len(Seen) THEN Len(Seen) - 1 + 1 ELSE 0)
        /\ \A i \in 1 .. Len(Seen) - 1 + 1 : b[i] = Whole.text[1 + i - 1]
    BY <1>5, <2>2, SubSeqProperties
  <2> HIDE DEF b
  <2>4. Len(b) = Len(Seen) /\ \A i \in 1 .. Len(Seen) : b[i] = Whole.text[i]
    BY <1>5, <2>3
  <2>5. Seen = b
    BY <1>2, <2>1, <2>3, <2>4, SeqEqual
  <2> QED
    BY <2>5 DEF b
<1> QED
  BY <1>1, <1>5, <1>6, <1>7

(* The calls implement FormattedText: the chunks cut the text the format   *)
(* means into full pieces, in order and without loss, repetition or stale  *)
(* runes, for every format that has a meaning (String.c:104-292).          *)
THEOREM TextIsShown == Spec => ShowsTheText
<1>1. ASSUME Init PROVE Promise!Init
  <2>1. MeaningInv /\ IndInv
    BY <1>1, InitMeaning, InitIndInv
  <2>2. Meaning.text \in Seq(Runes)
    <3>1. CASE call.format = NullFormat
      <4>1. Meaning = [rest |-> <<>>, slots |-> <<>>, text |-> <<>>, valid |-> TRUE]
        BY <2>1, <3>1, MeaningIsWhole DEF MeaningInv, Semantics!Unread
      <4> QED
        BY <4>1
    <3>2. CASE call.format # NullFormat
      <4>1. Called /\ Meaning = Whole
        BY <2>1, <3>2, MeaningIsWhole DEF MeaningInv, Called, IndInv, TypeOK
      <4>2. Whole \in Parses
        BY <4>1, CalledType, ReadingSound DEF Whole, Sound, N
      <4> QED
        BY <4>1, <4>2 DEF Parses
    <3> QED
      BY <3>1, <3>2
  <2>3. Size - 1 \in Int
    BY <2>1, BufferType DEF IndInv
  <2>4. Shown_ = <<>> /\ Phase = "open"
    BY <1>1 DEF Init, Shown_, FlattenSeq, Phase
  <2> QED
    BY <2>2, <2>3, <2>4 DEF Promise!Init
<1>2. ASSUME IndInv, IndInv', MeaningInv, MeaningInv', [Next]_vars
      PROVE  [Promise!Next]_Promise!vars
  <2>1. CASE Callback
    <3>1. /\ pc = "callback" /\ UNCHANGED <<call, chunk>>
          /\ \/ pc' = "returned"
             \/ chunk.resume # "returned" /\ pc' = chunk.resume
      BY <2>1 DEF Callback, Return, Resume
    <3>2. ChunkTold /\ chunk \in Chunks /\ Size \in Nat
      BY <1>2, BufferType DEF MeaningInv, IndInv, TypeOK
    <3>3. /\ Seen' = Seen /\ Shown_' = Seen /\ Place' = Place
          /\ Shown_' = Shown_ \o ChunkSoFar
          /\ pc' \in {"format", "copy", "returned"}
          /\ pc' # "returned" => pc' = chunk.resume /\ chunk.resume # "returned"
      BY <1>2, <2>1, <3>2, CallbackSeen
    <3>4. Meaning' = Meaning /\ Size' = Size
      BY <3>1, SameCall
    <3>5. Shown_ \in Seq(Runes) /\ ChunkSoFar \in Seq(Runes) /\ Len(ChunkSoFar) = Pending
          /\ Pending \in Nat
      BY <1>2, <3>2, ShownType, PendingInBuffer
    <3>6. Len(Shown_') = Len(Shown_) + Pending /\ Len(Shown_) \in Nat
      BY <3>3, <3>5, ConcatProperties
    <3>7. Phase = "open" /\ Place = chunk.resume
      BY <3>1 DEF Phase, Place
    <3>8. CASE chunk.resume # "returned"
      <4>1. Size >= 2 /\ chunk.error = "NoError" /\ Pending = Size - 1
        BY <3>1, <3>2, <3>8 DEF ChunkTold, Refused
      <4>2. /\ Len(Seen) <= Len(Meaning.text)
            /\ Seen = SubSeq(Meaning.text, 1, Len(Seen))
        BY <1>2, <3>2, <3>7, <3>8, SeenBegins DEF Chunks
      <4>3. Phase' \in {"open", "stopped"}
        BY <3>1, <3>8, <4>1 DEF Phase
      <4>4. Len(Seen) = Len(Shown_) + (Size - 1)
        BY <3>3, <3>6, <4>1
      <4>5. Promise!ShowFullChunk
        BY <3>2, <3>3, <3>4, <3>7, <4>1, <4>2, <4>3, <4>4 DEF Promise!ShowFullChunk
      <4> QED
        BY <4>5 DEF Promise!Next
    <3>9. CASE chunk.resume = "returned" /\ Refused
      <4>1. Size < 2 /\ chunk.error = "ErrorWouldCauseOverflow" /\ pc' = "returned" /\ Pending = 0
        BY <1>2, <3>1, <3>2, <3>7, <3>9 DEF ChunkTold, Refused, MeaningInv, AtEnd
      <4>2. Shown_' = Shown_
        <5>1. ChunkSoFar = <<>>
          BY <4>1 DEF ChunkSoFar
        <5> QED
          BY <3>3, <3>5, <5>1, ConcatEmptySeq
      <4>3. Phase' = "refused"
        BY <3>1, <4>1 DEF Phase
      <4>4. Promise!Refuse
        BY <3>2, <3>4, <3>7, <4>1, <4>2, <4>3 DEF Promise!Refuse
      <4> QED
        BY <4>4 DEF Promise!Next
    <3>10. CASE chunk.resume = "returned" /\ ~Refused
      <4>1. Size >= 2 /\ Pending + 2 <= Size /\ pc' = "returned"
        BY <3>1, <3>2, <3>10 DEF ChunkTold, Refused
      <4>2. Seen = Meaning.text /\ chunk.error # "ErrorWouldCauseOverflow"
        BY <1>2, <3>7, <3>10 DEF MeaningInv, AtEnd
      <4>3. Phase' = "closed"
        BY <3>1, <3>10, <4>1, <4>2 DEF Phase
      <4>4. Len(Meaning.text) < Len(Shown_) + (Size - 1)
        <5>1. Meaning.text = Shown_'
          BY <3>3, <4>2
        <5>2. Len(Meaning.text) = Len(Shown_) + Pending
          BY <3>6, <5>1
        <5> HIDE DEF Phase, Place
        <5> QED
          BY <3>2, <3>5, <3>6, <4>1, <5>2
      <4>5. Shown_' = Meaning.text /\ Size - 1 >= 1 /\ UNCHANGED <<Meaning.text, Size - 1>>
        <5>1. Shown_' = Meaning.text
          BY <3>3, <4>2
        <5>2. Size - 1 >= 1
          BY <3>2, <4>1
        <5>3. UNCHANGED <<Meaning.text, Size - 1>>
          BY <3>4, Zenon
        <5> QED
          BY <5>1, <5>2, <5>3
      <4>6. Promise!ShowLastChunk
        BY <3>7, <4>3, <4>4, <4>5, Zenon DEF Promise!ShowLastChunk
      <4> QED
        BY <4>6 DEF Promise!Next
    <3> QED
      BY <3>8, <3>9, <3>10
  <2>2. CASE [Next]_vars /\ ~Callback
    <3>1. UNCHANGED <<call, log>> /\ (pc' = "returned" <=> pc = "returned")
          /\ (pc = "returned" => UNCHANGED chunk)
      <4>1. CASE UNCHANGED vars
        BY <4>1 DEF vars
      <4>2. CASE RefuseSmallBuffer \/ FormatNothing \/ Start
        BY <4>2 DEF RefuseSmallBuffer, FormatNothing, Start, CallBack
      <4>3. CASE PutPlainRune \/ PutPercent \/ CopyRune
        BY <4>3 DEF PutPlainRune, PutPercent, CopyRune, Put, CallBack
      <4>4. CASE ReadString \/ ReadInteger \/ ConvertToHex \/ ConvertToDecimal \/ EndOfCopy
        BY <4>4 DEF ReadString, ReadInteger, ConvertToHex, ConvertToDecimal, EndOfCopy
      <4>5. CASE InvalidFormat \/ EndOfFormat
        BY <4>5 DEF InvalidFormat, UnknownDirective, EndOfFormat, CallBack
      <4> QED
        BY <2>2, <4>1, <4>2, <4>3, <4>4, <4>5 DEF Next
    <3>2. Meaning' = Meaning /\ Size' = Size
      BY <3>1, SameCall
    <3>3. Shown_' = Shown_ /\ Phase' = Phase
      BY <3>1 DEF Shown_, Phase
    <3> QED
      BY <3>2, <3>3 DEF Promise!vars
  <2> QED
    BY <1>2, <2>1, <2>2
<1>3. ASSUME IndInv, IndInv', MeaningInv, MeaningInv', [Next]_vars
      PROVE  [Specified => Promise!Next]_Promise!vars
  BY <1>2, <1>3
<1>4. Init => (Specified => Promise!Init)
  BY <1>1
<1> QED
  BY <1>3, <1>4, Invariance, MeaningInvariance, PTL DEF Spec, ShowsTheText
=============================================================================
