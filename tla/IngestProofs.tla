---------------------------- MODULE IngestProofs -----------------------------
(****************************************************************************)
(* Proofs about Ingest, for any bodies, limits and contents: the temporary  *)
(* file is removed, what is written is what was sent, and the write is      *)
(* atomic and durable.                                                      *)
(*                                                                          *)
(* The readers are followed through the body piece by piece.  A body is cut *)
(* or strays (CutOrStray), so where pieces have got through the next one    *)
(* comes, or what is none (Continues).  A place in it is the number of      *)
(* pieces decoded and what is left of the next (Place); that the buffers    *)
(* hold what comes after it, and the caller what came before, is kept by    *)
(* every step of the readers (ReaderDecodes).                               *)
(****************************************************************************)
EXTENDS Ingest, SequenceLemmas, TLAPS

\* What no step changes: what is to be written.
Given == <<body, kind, given>>

\* The readers go on with their body.
LEMMA ReaderFrame == ReaderStep \/ Ask \/ Disconnect => body' = body
<1>1. ReadLine \/ NoLine \/ ReadExact \/ CutShort \/ Feed => body' = body
  BY DEF ReadLine, NoLine, ReadExact, CutShort, Feed, wire, decoder
<1>2. (\E n \in 1..Len(body.bytes) : Receive(n)) \/ EndOfBody => body' = body
  BY DEF Receive, EndOfBody
<1>3. ReturnPayload \/ ReturnBuffer \/ Ask \/ Disconnect => body' = body
  BY DEF ReturnPayload, ReturnBuffer, Ask, Disconnect, wire
<1> QED
  BY <1>1, <1>2, <1>3 DEF ReaderStep

\* Every step works for the same content.
LEMMA GivenFrame == [Next]_vars => UNCHANGED Given
<1>1. RefuseDeclared \/ Open \/ WriteUpload \/ WriteLocal \/ SourceRaises \/ Fsync \/ Replace
        \/ FsyncDirectory \/ Cleanup \/ Cancel \/ Crash \/ UNCHANGED vars => UNCHANGED Given
  BY DEF RefuseDeclared, Open, WriteUpload, WriteLocal, SourceRaises, Fsync, Replace,
     FsyncDirectory, Cleanup, Cancel, Crash, Given, vars, readerVars, wire
<1>2. AskForChunk \/ ReadBody \/ LoseClient => UNCHANGED Given
  BY ReaderFrame DEF AskForChunk, ReadBody, LoseClient, Given
<1> QED
  BY <1>1, <1>2 DEF Next, Step

\* The content to be written stays the same.
LEMMA TargetFrame == [Next]_vars => Target' = Target
BY GivenFrame DEF Target, Given, WholeFrames

------------------------------------------------------------------------------
(* The temporary file.                                                      *)

\* There is none before it is opened and once it has replaced the destination.
TempInv ==
    /\ pc \in {"start", "replaced"} => temp = None
    /\ TempIsRemoved

\* Every step keeps it.
LEMMA TempStep == TempInv /\ [Next]_vars => TempInv'
<1> SUFFICES ASSUME TempInv, [Next]_vars PROVE TempInv'
  OBVIOUS
<1> USE DEF TempInv, TempIsRemoved, Goto, End, files
<1>1. CASE RefuseDeclared \/ Open
  BY <1>1 DEF RefuseDeclared, Open
<1>2. CASE AskForChunk \/ ReadBody \/ LoseClient
  BY <1>2 DEF AskForChunk, ReadBody, LoseClient
<1>3. CASE WriteUpload
  BY <1>3 DEF WriteUpload, TakeChunk
<1>4. CASE WriteLocal
  BY <1>4 DEF WriteLocal, ReadSource, NextSource, TakeChunk
<1>5. CASE SourceRaises \/ Fsync
  BY <1>5 DEF SourceRaises, Fsync
<1>6. CASE Replace \/ FsyncDirectory \/ Cleanup
  BY <1>6 DEF Replace, FsyncDirectory, Cleanup
<1>7. CASE Cancel \/ Crash
  BY <1>7 DEF Cancel, Crash
<1>8. CASE UNCHANGED vars
  BY <1>8 DEF vars
<1> QED
  BY <1>1, <1>2, <1>3, <1>4, <1>5, <1>6, <1>7, <1>8 DEF Next, Step

\* A temporary file stays only if the task was cancelled or killed, or its removal
\* raised, whatever bytes clients send (_atomic_write_stream, `except Exception`).
THEOREM TempRemoved == Spec \/ AnySpec => []TempIsRemoved
<1>1. Init => TempInv
  BY DEF Init, InitFrom, TempInv, TempIsRemoved
<1>2. InitFrom(Body) => TempInv
  BY DEF InitFrom, TempInv, TempIsRemoved
<1>3. TempInv => TempIsRemoved
  BY DEF TempInv
<1>4. Spec => []TempIsRemoved
  BY <1>1, <1>3, TempStep, PTL DEF Spec
<1>5. AnySpec => []TempIsRemoved
  BY <1>2, <1>3, TempStep, PTL DEF AnySpec
<1> QED
  BY <1>4, <1>5

------------------------------------------------------------------------------
(* Type correctness.                                                        *)

\* Where buf[:n] ends.
LEMMA UptoIs ==
    ASSUME NEW S, NEW buf \in Seq(S), NEW n \in Int
    PROVE  /\ Upto(buf, n) \in 0..Len(buf) /\ Len(buf) \in Nat
           /\ n >= 0 => Upto(buf, n) = IF n < Len(buf) THEN n ELSE Len(buf)
<1>1. Len(buf) \in Nat
  BY LenProperties
<1>2. CASE n > Len(buf)
  BY <1>1, <1>2 DEF Upto
<1>3. CASE 0 <= n /\ n <= Len(buf)
  <2>1. Upto(buf, n) = n
    BY <1>1, <1>3 DEF Upto
  <2> QED
    BY <1>1, <1>3, <2>1
<1>4. CASE n < 0 /\ Len(buf) + n >= 0
  <2>1. Upto(buf, n) = Len(buf) + n
    BY <1>1, <1>4 DEF Upto
  <2> QED
    BY <1>1, <1>4, <2>1
<1>5. CASE n < 0 /\ ~ (Len(buf) + n >= 0)
  <2>1. Upto(buf, n) = 0
    BY <1>1, <1>5 DEF Upto
  <2> QED
    BY <1>1, <1>5, <2>1
<1> QED
  BY <1>1, <1>2, <1>3, <1>4, <1>5

\* Part of a sequence has its elements.
LEMMA PartTyped ==
    ASSUME NEW S, NEW s \in Seq(S), NEW m \in 1..(Len(s) + 1), NEW n \in 0..Len(s)
    PROVE  SubSeq(s, m, n) \in Seq(S)
<1>1. Len(s) \in Nat /\ \A i \in 1..Len(s) : s[i] \in S
  BY ElementOfSeq, LenProperties
<1>2. m \in Int /\ n \in Int /\ \A i \in m..n : s[i] \in S
  BY <1>1
<1> QED
  BY <1>2, SubSeqProperties

\* Cutting a sequence in two leaves sequences of the same elements.
LEMMA CutTyped ==
    ASSUME NEW S, NEW buf \in Seq(S), NEW n \in Int
    PROVE  Taken(buf, n) \in Seq(S) /\ Rest(buf, n) \in Seq(S)
<1>1. Upto(buf, n) \in 0..Len(buf) /\ Len(buf) \in Nat
  BY UptoIs
<1>2. 1 \in 1..(Len(buf) + 1) /\ Upto(buf, n) + 1 \in 1..(Len(buf) + 1) /\ Len(buf) \in 0..Len(buf)
  BY <1>1
<1> QED
  BY <1>1, <1>2, PartTyped DEF Taken, Rest

\* The first and the last of some places.
LEMMA EndsThere ==
    ASSUME NEW n \in Nat, NEW S \in SUBSET (1..n), S # {}
    PROVE  /\ Min(S) \in S /\ \A i \in S : Min(S) <= i
           /\ Max(S) \in S /\ \A i \in S : i <= Max(S)
<1>1. S \in SUBSET Nat
  OBVIOUS
<1>2. \E x \in S : \A y \in S : x <= y
  BY <1>1, LeastNatural
<1>3. \E x \in S : \A y \in S : x >= y
  <2> DEFINE R == {n - i : i \in S}
  <2>1. R \in SUBSET Nat /\ R # {}
    <3>1. ASSUME NEW i \in S PROVE n - i \in Nat
      <4>1. i \in 1..n
        OBVIOUS
      <4> QED
        BY <4>1
    <3>2. PICK i \in S : TRUE
      OBVIOUS
    <3> QED
      BY <3>1, <3>2
  <2>2. PICK d \in R : \A e \in R : d <= e
    BY <2>1, LeastNatural
  <2>3. PICK x \in S : d = n - x
    OBVIOUS
  <2>4. ASSUME NEW y \in S PROVE x >= y
    <3>1. n - x <= n - y
      BY <2>2, <2>3
    <3> QED
      BY <3>1
  <2> QED
    BY <2>4
<1>4. Min(S) \in S /\ \A y \in S : Min(S) <= y
  BY <1>2 DEF Min
<1>5. Max(S) \in S /\ \A y \in S : Max(S) >= y
  BY <1>3 DEF Max
<1> QED
  BY <1>1, <1>4, <1>5

\* What comes before the first semicolon.
LEMMA FieldTyped ==
    ASSUME NEW line \in Seq(Byte)
    PROVE  Field(line) \in Seq(Byte)
<1> DEFINE semis == {i \in DOMAIN line : line[i] = Semi}
<1>1. Len(line) \in Nat /\ DOMAIN line = 1..Len(line)
  BY LenProperties
<1>2. CASE semis = {}
  BY <1>2 DEF Field
<1>3. CASE semis # {}
  <2>1. semis \in SUBSET (1..Len(line))
    BY <1>1
  <2>2. Min(semis) \in 1..Len(line)
    <3> HIDE DEF semis
    <3> QED
      BY <1>1, <1>3, <2>1, EndsThere
  <2>3. 1 \in 1..(Len(line) + 1) /\ Min(semis) - 1 \in 0..Len(line)
    BY <1>1, <2>2
  <2>4. SubSeq(line, 1, Min(semis) - 1) \in Seq(Byte)
    <3> HIDE DEF semis
    <3> QED
      BY <2>3, PartTyped
  <2> QED
    BY <1>3, <2>4 DEF Field
<1> QED
  BY <1>2, <1>3

\* A text without the blanks around it.
LEMMA StrippedTyped ==
    ASSUME NEW text \in Seq(Byte)
    PROVE  Stripped(text) \in Seq(Byte)
<1> DEFINE solid == {i \in DOMAIN text : text[i] \notin Blank}
<1>1. Len(text) \in Nat /\ DOMAIN text = 1..Len(text)
  BY LenProperties
<1>2. CASE solid = {}
  BY <1>2, EmptySeq DEF Stripped
<1>3. CASE solid # {}
  <2>1. solid \in SUBSET (1..Len(text))
    BY <1>1
  <2>2. Min(solid) \in 1..Len(text) /\ Max(solid) \in 1..Len(text)
    <3> HIDE DEF solid
    <3> QED
      BY <1>1, <1>3, <2>1, EndsThere
  <2>3. Min(solid) \in 1..(Len(text) + 1) /\ Max(solid) \in 0..Len(text)
    BY <1>1, <2>2
  <2>4. SubSeq(text, Min(solid), Max(solid)) \in Seq(Byte)
    <3> HIDE DEF solid
    <3> QED
      BY <2>3, PartTyped
  <2> QED
    BY <1>3, <2>4 DEF Stripped
<1> QED
  BY <1>2, <1>3

\* The values of the first characters of a text, one by one.
Counts(m, text, n) ==
    m = [i \in 0..n |->
           IF i = 0 THEN 0
           ELSE IF text[i] \in Digit THEN 16 * m[i - 1] + text[i] ELSE m[i - 1]]

\* There are such values, and they are numbers.
LEMMA CountsExists ==
    ASSUME NEW text, NEW n \in Nat
    PROVE  \E m : Counts(m, text, n)
<1> DEFINE Bad == {k \in Nat : ~ \E m : Counts(m, text, k)}
<1> SUFFICES ASSUME Bad # {} PROVE FALSE
  OBVIOUS
<1>1. PICK k \in Bad : \A l \in Bad : k <= l
  <2>1. Bad \in SUBSET Nat
    OBVIOUS
  <2> QED
    BY <2>1, LeastNatural
<1>2. CASE k = 0
  <2>1. Counts([i \in 0..0 |-> 0], text, 0)
    BY DEF Counts
  <2> QED
    BY <1>2, <2>1
<1>3. CASE k # 0
  <2>1. k - 1 \in Nat /\ k - 1 \notin Bad
    BY <1>1, <1>3
  <2>2. PICK g : Counts(g, text, k - 1)
    BY <2>1
  <2> DEFINE m == [i \in 0..k |-> IF i = k THEN IF text[k] \in Digit THEN 16 * g[k - 1] + text[k]
                                                ELSE g[k - 1]
                                  ELSE g[i]]
  <2>3. \A i \in 0..(k - 1) : g[i] = IF i = 0 THEN 0
          ELSE IF text[i] \in Digit THEN 16 * g[i - 1] + text[i] ELSE g[i - 1]
    BY <2>2 DEF Counts
  <2>4. ASSUME NEW i \in 0..k
        PROVE  m[i] = IF i = 0 THEN 0
                 ELSE IF text[i] \in Digit THEN 16 * m[i - 1] + text[i] ELSE m[i - 1]
    <3>1. CASE i = k
      <4>1. k - 1 \in 0..k /\ k - 1 # k /\ k # 0
        BY <1>3
      <4>2. m[k - 1] = g[k - 1]
        BY <4>1
      <4> QED
        BY <3>1, <4>1, <4>2
    <3>2. CASE i # k
      <4>1. i \in 0..(k - 1) /\ (i # 0 => i - 1 \in 0..k /\ i - 1 # k)
        BY <3>2
      <4>2. m[i] = g[i] /\ (i # 0 => m[i - 1] = g[i - 1])
        BY <3>2, <4>1
      <4> QED
        BY <2>3, <4>1, <4>2
    <3> QED
      BY <3>1, <3>2
  <2>5. m = [i \in 0..k |-> IF i = 0 THEN 0
               ELSE IF text[i] \in Digit THEN 16 * m[i - 1] + text[i] ELSE m[i - 1]]
    BY <2>4
  <2>6. Counts(m, text, k)
    BY <2>5 DEF Counts
  <2> QED
    BY <2>6
<1> QED
  BY <1>2, <1>3

LEMMA MagnitudeTyped ==
    ASSUME NEW text, Len(text) \in Nat
    PROVE  Magnitude(text) \in Nat
<1> DEFINE n == Len(text)
           m == CHOOSE f : Counts(f, text, n)
<1>1. Magnitude(text) = m[n]
  BY DEF Magnitude, Counts
<1>2. Counts(m, text, n)
  BY CountsExists
<1> HIDE DEF m
<1>3. \A i \in 0..n : m[i] = IF i = 0 THEN 0
        ELSE IF text[i] \in Digit THEN 16 * m[i - 1] + text[i] ELSE m[i - 1]
  BY <1>2 DEF Counts
<1> DEFINE Bad == {i \in 0..n : m[i] \notin Nat}
<1>4. ASSUME Bad # {} PROVE FALSE
  <2>1. PICK i \in Bad : \A j \in Bad : i <= j
    <3>1. Bad \in SUBSET Nat
      OBVIOUS
    <3> QED
      BY <1>4, <3>1, LeastNatural
  <2>2. i \in 0..n /\ m[i] \notin Nat
    OBVIOUS
  <2>3. i # 0
    BY <1>3, <2>2
  <2>4. i - 1 \in 0..n /\ i - 1 \notin Bad
    BY <2>1, <2>2, <2>3
  <2>5. m[i - 1] \in Nat
    BY <2>4
  <2>6. text[i] \in Digit => 16 * m[i - 1] + text[i] \in Nat
    <3>1. ASSUME NEW a \in Nat, NEW d \in Digit PROVE 16 * a + d \in Nat
      BY DEF Digit
    <3> QED
      BY <2>5, <3>1
  <2> QED
    BY <1>3, <2>2, <2>3, <2>5, <2>6
<1> QED
  BY <1>1, <1>4

\* What is read as a size is a number, of either sign.
LEMMA SizeTyped ==
    ASSUME NEW line \in Seq(Byte), HasSize(line)
    PROVE  FrameSize(line) \in Int
<1> DEFINE text == Stripped(Field(line))
<1>1. text \in Seq(Byte)
  BY FieldTyped, StrippedTyped
<1> HIDE DEF text
<1>2. text # <<>>
  <2>1. IsNumeral(Unsigned(text))
    BY DEF HasSize, text
  <2>2. Unsigned(<<>>) = <<>> /\ ~ IsNumeral(<<>>)
    BY DEF Unsigned, IsNumeral
  <2> QED
    BY <2>1, <2>2
<1>3. Tail(text) \in Seq(Byte)
  BY <1>1, <1>2, HeadTailProperties
<1>4. Len(text) \in Nat /\ Len(Tail(text)) \in Nat
  BY <1>1, <1>3, LenProperties
<1>5. Magnitude(text) \in Nat /\ Magnitude(Tail(text)) \in Nat
  BY <1>4, MagnitudeTyped
<1>6. Unsigned(text) = text \/ Unsigned(text) = Tail(text)
  BY DEF Unsigned
<1>7. Magnitude(Unsigned(text)) \in Nat
  BY <1>5, <1>6, Zenon
<1>8. \A n \in Nat : n \in Int /\ - n \in Int
  OBVIOUS
<1> QED
  BY <1>5, <1>7, <1>8 DEF FrameSize, text

LEMMA ChunkIs == Chunk \in Nat \ {0} /\ Chunk \in Int
BY LimitAssumption

\* If a line ends in the buffer, LineEnd is where.
LEMMA LineEndThere ==
    ASSUME framed \in Seq(Byte), LineEnds # {}
    PROVE  LineEnd \in 1..(Len(framed) - 1)
<1>1. Len(framed) \in Nat
  BY LenProperties
<1>2. LineEnds \in SUBSET Nat
  BY <1>1 DEF LineEnds
<1>3. \E i \in LineEnds : \A j \in LineEnds : i <= j
  BY <1>2, LeastNatural
<1>4. LineEnd \in LineEnds
  BY <1>3 DEF LineEnd
<1> QED
  BY <1>4 DEF LineEnds

\* A step that takes a line keeps the types: what is read as a size is one.
LEMMA ReadLineTyped == ReaderTypeOK /\ ReadLine => ReaderTypeOK'
<1> SUFFICES ASSUME ReaderTypeOK, ReadLine PROVE ReaderTypeOK'
  OBVIOUS
<1> DEFINE line == SubSeq(framed, 1, LineEnd - 1)
<1>1. LineEnd \in Nat
  BY LineEndThere DEF ReadLine, ReaderTypeOK
<1>2. framed' \in Seq(Byte)
  <2>1. LineEnd + 1 \in Nat /\ framed \in Seq(Byte)
    BY <1>1 DEF ReaderTypeOK
  <2>2. Rest(framed, LineEnd + 1) \in Seq(Byte)
    BY <2>1, CutTyped
  <2> QED
    BY <2>2 DEF ReadLine
<1>3. HasSize(line) => FrameSize(line) \in Int
  <2>1. LineEnd \in 1..(Len(framed) - 1) /\ framed \in Seq(Byte) /\ Len(framed) \in Nat
    BY LineEndThere, LenProperties DEF ReadLine, ReaderTypeOK
  <2>2. 1 \in 1..(Len(framed) + 1) /\ LineEnd - 1 \in 0..Len(framed)
    BY <2>1
  <2>3. line \in Seq(Byte)
    BY <2>1, <2>2, PartTyped
  <2> HIDE DEF line
  <2> QED
    BY <2>3, SizeTyped
<1>4. need' \in Int /\ mode' \in {"header", "payload", "crlf", "trailer"}
      /\ finished' \in BOOLEAN /\ call' \in {"none", "reading", "refused", "gone"} /\ data' = data
  <2> HIDE DEF line
  <2>1. CASE mode = "header" /\ line # <<>> /\ ~ HasSize(line)
    BY <2>1 DEF ReadLine, ReaderTypeOK, Refuse, line
  <2>2. CASE mode = "header" /\ line # <<>> /\ HasSize(line) /\ FrameSize(line) # 0
    BY <2>2, <1>3 DEF ReadLine, ReaderTypeOK, line
  <2>3. CASE mode = "header" /\ line # <<>> /\ HasSize(line) /\ FrameSize(line) = 0
    BY <2>3 DEF ReadLine, ReaderTypeOK, line
  <2>4. CASE mode = "trailer" \/ line = <<>>
    BY <2>4 DEF ReadLine, ReaderTypeOK, InLine, line
  <2> QED
    BY <1>3, <2>1, <2>2, <2>3, <2>4 DEF ReadLine, InLine
<1>5. UNCHANGED <<wire, drained, payload>>
  BY DEF ReadLine
<1> QED
  BY <1>2, <1>4, <1>5 DEF ReaderTypeOK, wire

\* So does every other step of the readers.
LEMMA ReaderTyped == ReaderTypeOK /\ (ReaderStep \/ Ask \/ Disconnect) => ReaderTypeOK'
<1> SUFFICES ASSUME ReaderTypeOK, ReaderStep \/ Ask \/ Disconnect PROVE ReaderTypeOK'
  OBVIOUS
<1> USE DEF wire, decoder, Refuse
<1>1. CASE NoLine \/ CutShort
  BY <1>1 DEF NoLine, CutShort, ReaderTypeOK
<1>2. CASE ReadExact
  <2>1. Taken(framed, need) \in Seq(Byte) /\ Rest(framed, need) \in Seq(Byte)
    BY CutTyped DEF ReaderTypeOK
  <2>2. payload \o Taken(framed, need) \in Seq(Byte)
    BY <2>1, ConcatProperties DEF ReaderTypeOK
  <2>3. framed' \in Seq(Byte) /\ payload' \in Seq(Byte)
    BY <1>2, <2>1, <2>2 DEF ReadExact, ReaderTypeOK
  <2>4. need' \in Int /\ mode' \in {"header", "payload", "crlf", "trailer"}
    BY <1>2 DEF ReadExact, AfterPayload
  <2> QED
    BY <1>2, <2>3, <2>4 DEF ReadExact, ReaderTypeOK
<1>3. ASSUME NEW n \in 1..Len(body.bytes), Receive(n) PROVE ReaderTypeOK'
  <2>1. body.bytes \in Seq(Byte) /\ Len(body.bytes) \in Nat
    BY BodyAssumption, LenProperties DEF ReaderTypeOK
  <2>2. arrived + 1 \in Int /\ arrived + n \in 0..Len(body.bytes)
    BY <1>3, <2>1 DEF Receive, ReaderTypeOK
  <2>3. \A i \in (arrived + 1)..(arrived + n) : body.bytes[i] \in Byte
    BY <2>1, <2>2, ElementOfSeq DEF ReaderTypeOK
  <2>4. SubSeq(body.bytes, arrived + 1, arrived + n) \in Seq(Byte)
    BY <2>2, <2>3, SubSeqProperties
  <2>5. buffer \o SubSeq(body.bytes, arrived + 1, arrived + n) \in Seq(Byte)
    BY <2>4, ConcatProperties DEF ReaderTypeOK
  <2> QED
    BY <1>3, <2>2, <2>5 DEF Receive, ReaderTypeOK
<1>4. CASE EndOfBody \/ Ask \/ Disconnect
  BY <1>4 DEF EndOfBody, Ask, Disconnect, ReaderTypeOK
<1>5. CASE Feed
  <2>1. Taken(buffer, Chunk) \in Seq(Byte) /\ Rest(buffer, Chunk) \in Seq(Byte)
    BY CutTyped, ChunkIs DEF ReaderTypeOK
  <2>2. framed \o Taken(buffer, Chunk) \in Seq(Byte)
    BY <2>1, ConcatProperties DEF ReaderTypeOK
  <2> QED
    BY <1>5, <2>1, <2>2 DEF Feed, ReaderTypeOK
<1>6. CASE ReturnPayload
  <2>1. Taken(payload, Chunk) \in Seq(Byte) /\ Rest(payload, Chunk) \in Seq(Byte)
    BY CutTyped, ChunkIs DEF ReaderTypeOK
  <2> QED
    BY <1>6, <2>1 DEF ReturnPayload, ReaderTypeOK
<1>7. CASE ReturnBuffer
  <2>1. Taken(buffer, Chunk) \in Seq(Byte) /\ Rest(buffer, Chunk) \in Seq(Byte)
    BY CutTyped, ChunkIs DEF ReaderTypeOK
  <2> QED
    BY <1>7, <2>1 DEF ReturnBuffer, ReaderTypeOK
<1>8. CASE ReadLine
  BY <1>8, ReadLineTyped
<1> QED
  BY <1>1, <1>2, <1>3, <1>4, <1>5, <1>6, <1>7, <1>8 DEF ReaderStep

\* There is a file while it is written to.
TypeInv ==
    /\ TypeOK
    /\ pc \in {"writing", "waiting", "written", "closed"} => temp \in File

\* What is written is a chunk, or nothing more.
LEMMA TakeChunkTyped ==
    ASSUME TypeInv, pc \in {"writing", "waiting"}, NEW chunk \in Seq(Byte), TakeChunk(chunk)
    PROVE  /\ temp' \in File \cup {None}
           /\ pc' \in {"writing", "written", "cleanup"}
           /\ pc' # "cleanup" => temp' \in File
           /\ result' \in Result
           /\ faults' \in 0..MaxFaults
<1>1. temp \in File /\ temp.bytes \o chunk \in Seq(Byte)
  BY ConcatProperties DEF TypeInv, File
<1>2. [temp EXCEPT !.bytes = @ \o chunk] \in File
  BY <1>1 DEF File
<1>3. faults' \in 0..MaxFaults
  BY FaultAssumption DEF TakeChunk, Fault, NoFault, TypeInv, TypeOK
<1> QED
  BY <1>1, <1>2, <1>3 DEF TakeChunk, Goto, TypeInv, TypeOK

\* What is left of a file is a sequence of bytes again.
LEMMA SurvivorsTyped ==
    ASSUME NEW file \in File
    PROVE  Survivors(file) \subseteq Seq(Byte)
<1>1. file.bytes \in Seq(Byte) /\ Len(file.bytes) \in Nat
  BY LenProperties DEF File
<1>2. ASSUME NEW n \in 0..Len(file.bytes) PROVE SubSeq(file.bytes, 1, n) \in Seq(Byte)
  <2>1. n \in Int /\ \A i \in 1..n : file.bytes[i] \in Byte
    BY <1>1, ElementOfSeq
  <2> QED
    BY <2>1, SubSeqProperties
<1> QED
  BY <1>1, <1>2 DEF Survivors

\* Every step keeps the types.
LEMMA TypeStep == TypeInv /\ [Next]_vars => TypeInv'
<1> SUFFICES ASSUME TypeInv, [Next]_vars PROVE TypeInv'
  OBVIOUS
<1> USE FaultAssumption
<1> USE DEF TypeInv, TypeOK, Result, Goto, End, Fault, NoFault, files
<1>r. ASSUME UNCHANGED readerVars PROVE ReaderTypeOK'
  BY <1>r DEF readerVars, wire, decoder, ReaderTypeOK
<1>1. CASE RefuseDeclared
  BY <1>1, <1>r DEF RefuseDeclared
<1>2. CASE Open
  <2>1. [bytes |-> <<>>, synced |-> FALSE] \in File
    BY EmptySeq DEF File
  <2>2. \/ pc' = "writing" /\ temp' = [bytes |-> <<>>, synced |-> FALSE]
        \/ pc' = "cleanup" /\ temp' = temp
    BY <1>2 DEF Open
  <2>3. \/ pc' = "writing" /\ temp' \in File
        \/ pc' = "cleanup" /\ temp' \in File \cup {None}
    BY <2>1, <2>2, Zenon
  <2>4. faults' \in 0..MaxFaults /\ result' \in Result
    BY <1>2 DEF Open
  <2> QED
    BY <1>2, <1>r, <2>3, <2>4 DEF Open
<1>3. CASE AskForChunk \/ ReadBody \/ LoseClient
  BY <1>3, ReaderTyped DEF AskForChunk, ReadBody, LoseClient
<1>4. CASE WriteUpload
  BY <1>4, <1>r, TakeChunkTyped DEF WriteUpload, ReaderTypeOK
<1>5. CASE WriteLocal
  <2>1. CASE sources = <<>>
    BY <1>5, <1>r, <2>1, TakeChunkTyped, EmptySeq DEF WriteLocal
  <2>2. ASSUME sources # <<>>
        PROVE  Head(sources) \in Seq(Byte) /\ Tail(sources) \in Seq(Seq(Byte))
    BY <2>2, HeadTailProperties
  <2>3. CASE sources # <<>> /\ Head(sources) = <<>>
    BY <1>5, <1>r, <2>2, <2>3 DEF WriteLocal, NextSource
  <2>4. CASE sources # <<>> /\ Head(sources) # <<>>
    <3>1. Taken(Head(sources), Chunk) \in Seq(Byte) /\ Rest(Head(sources), Chunk) \in Seq(Byte)
      BY <2>2, <2>4, CutTyped, ChunkIs
    <3>2. <<Rest(Head(sources), Chunk)>> \o Tail(sources) \in Seq(Seq(Byte))
      BY <2>2, <2>4, <3>1, ConcatProperties
    <3> QED
      BY <1>5, <1>r, <2>4, <3>1, <3>2, TakeChunkTyped DEF WriteLocal, ReadSource
  <2> QED
    BY <2>1, <2>3, <2>4
<1>6. CASE SourceRaises
  BY <1>6, <1>r DEF SourceRaises
<1>7. CASE Fsync
  <2>1. pc = "written" /\ temp \in File => Fsynced(temp) \in File
    BY DEF Fsynced, File
  <2>2. temp \in File
    BY <1>7 DEF Fsync
  <2> QED
    BY <1>7, <1>r, <2>1, <2>2 DEF Fsync
<1>8. CASE Replace
  BY <1>8, <1>r DEF Replace
<1>9. CASE FsyncDirectory \/ Cleanup \/ Cancel
  BY <1>9, <1>r DEF FsyncDirectory, Cleanup, Cancel
<1>10. CASE Crash
  <2>1. PICK file \in {value, disk} : \E bytes \in Survivors(file) :
           value' = [bytes |-> bytes, synced |-> TRUE]
    BY <1>10 DEF Crash
  <2>2. value' \in File
    BY <2>1, SurvivorsTyped DEF File
  <2> QED
    BY <1>10, <1>r, <2>2 DEF Crash
<1>11. CASE UNCHANGED vars
  BY <1>11, <1>r DEF vars
<1> QED
  BY <1>1, <1>2, <1>3, <1>4, <1>5, <1>6, <1>7, <1>8, <1>9, <1>10, <1>11 DEF Next, Step

\* At the beginning they are right.
LEMMA TypeInit ==
    ASSUME NEW bodies \in SUBSET Body, InitFrom(bodies)
    PROVE  TypeInv
<1>1. <<>> \in Seq(Byte) /\ <<>> \in Seq(Seq(Byte))
  BY EmptySeq
<1>2. ReaderTypeOK
  <2>1. ReaderInit(bodies)
    BY DEF InitFrom
  <2>2. arrived \in 0..Len(body.bytes)
    BY <2>1, BodyAssumption, LenProperties DEF ReaderInit
  <2>3. need \in Int
    BY <2>1 DEF ReaderInit
  <2> QED
    BY <1>1, <2>1, <2>2, <2>3 DEF ReaderInit, ReaderTypeOK
<1>3. given \in Seq(Seq(Byte)) /\ [bytes |-> Old, synced |-> TRUE] \in File
  BY <1>1, LocalAssumption DEF InitFrom, File
<1>4. sources \in Seq(Seq(Byte)) /\ value \in File /\ disk \in File
  BY <1>3 DEF InitFrom
<1>5. kind \in {"upload", "write", "copy"} /\ faults \in 0..MaxFaults
  BY FaultAssumption DEF InitFrom
<1> QED
  BY <1>2, <1>3, <1>4, <1>5 DEF InitFrom, TypeInv, TypeOK, Result

\* So they are where clients send what is encoded.
LEMMA EncodedTypeInit == Init => TypeInv
<1>1. Encoded \in SUBSET Body
  BY DEF Encoded
<1> QED
  BY <1>1, TypeInit DEF Init

\* Whatever bytes clients send, every variable of the readers and of the write has its
\* type: what is decoded and stored is bytes, and what a line is taken for is a number, of
\* either sign (_parse_frame_size, _read_exact).
THEOREM TypeCorrect == Spec \/ AnySpec => []TypeOK
<1>1. TypeInv => TypeOK
  BY DEF TypeInv
<1>2. Spec => []TypeOK
  BY <1>1, EncodedTypeInit, TypeStep, PTL DEF Spec
<1>3. InitFrom(Body) => TypeInv
  BY TypeInit
<1>4. AnySpec => []TypeOK
  BY <1>1, <1>3, TypeStep, PTL DEF AnySpec
<1> QED
  BY <1>2, <1>4

------------------------------------------------------------------------------
(* What clients send.                                                       *)

LEMMA CrIsNotLf == CR # LF
<1> DEFINE special == <<CR, LF, Semi, Space, Minus, Plus, Under, Ex>>
<1>1. DOMAIN special = 1..8 /\ special[1] = CR /\ special[2] = LF
  OBVIOUS
<1>2. \A i, j \in DOMAIN special : special[i] = special[j] => i = j
  BY ByteAssumption
<1> QED
  BY <1>1, <1>2

\* What a body is made of.
Length(b)   == Len(b.bytes)
Frame(b, i) == b.frames[i]
Spelling(b, i) == b.sizes[i]
Extension(b, i) == b.extensions[i]
Trailer(b, i) == b.trailer[i]
Trailers(b) == Len(b.trailer)

\* A body that is framed is encoded.
LEMMA Framed ==
    ASSUME NEW b \in Encoded, b.framed
    PROVE  /\ b.bytes \in Seq(Byte) /\ Length(b) \in Nat
           /\ Frames(b) \in Nat /\ Trailers(b) \in Nat
           /\ Lines(b) = Frames(b) + Trailers(b) + 2
           /\ \A i \in 1..Frames(b) : Frame(b, i) \in Seq(Byte) /\ Size(b, i) \in Nat \ {0}
           /\ \A i \in 1..Frames(b) : Len(Frame(b, i)) = Size(b, i)
           /\ \A i \in 1..(Frames(b) + 1) :
                /\ Spelling(b, i) \in Seq(Byte) /\ Extension(b, i) \in Seq(Byte)
                /\ \A k \in DOMAIN Spelling(b, i) : Spelling(b, i)[k] # Semi
                /\ HasSize(Spelling(b, i)) /\ FrameSize(Spelling(b, i)) = Size(b, i)
                /\ Extension(b, i) = <<>> \/ Extension(b, i)[1] = Semi
                /\ OneLine(Spelling(b, i) \o Extension(b, i))
           /\ \A i \in 1..Trailers(b) :
                Trailer(b, i) \in Seq(Byte) /\ OneLine(Trailer(b, i)) /\ Trailer(b, i) # <<>>
<1>1. Sized(b) /\ b.bytes \in Seq(Byte)
  BY BodyAssumption DEF Encoded, IsEncoded
<1>2. Length(b) \in Nat /\ Frames(b) \in Nat /\ Trailers(b) \in Nat
  BY <1>1, LenProperties DEF Sized, Length, Frames, Trailers
<1>3. Lines(b) = Frames(b) + Trailers(b) + 2
  BY DEF Lines, Trailers
<1>4. ASSUME NEW i \in 1..Frames(b)
      PROVE  Frame(b, i) \in Seq(Byte) /\ Size(b, i) \in Nat \ {0} /\ Len(Frame(b, i)) = Size(b, i)
  <2>1. Frame(b, i) \in Seq(Byte)
    BY <1>1, ElementOfSeq DEF Sized, Frame, Frames
  <2>2. i <= Frames(b)
    BY <1>2
  <2>3. Len(Frame(b, i)) = Size(b, i)
    BY <2>2 DEF Size, Frame
  <2>4. Frame(b, i) # <<>>
    BY <1>1 DEF Sized, Frame
  <2>5. Len(Frame(b, i)) \in Nat \ {0}
    BY <2>1, <2>4, EmptySeq, LenProperties
  <2> QED
    BY <2>1, <2>3, <2>5
<1>5. ASSUME NEW i \in 1..(Frames(b) + 1)
      PROVE  /\ Spelling(b, i) \in Seq(Byte) /\ Extension(b, i) \in Seq(Byte)
             /\ \A k \in DOMAIN Spelling(b, i) : Spelling(b, i)[k] # Semi
             /\ HasSize(Spelling(b, i)) /\ FrameSize(Spelling(b, i)) = Size(b, i)
             /\ Extension(b, i) = <<>> \/ Extension(b, i)[1] = Semi
             /\ OneLine(Spelling(b, i) \o Extension(b, i))
  <2>1. /\ b.sizes \in Seq(Seq(Byte)) /\ i \in 1..Len(b.sizes)
        /\ b.extensions \in Seq(Seq(Byte)) /\ i \in 1..Len(b.extensions)
    BY <1>1 DEF Sized
  <2>2. Spelling(b, i) \in Seq(Byte) /\ Extension(b, i) \in Seq(Byte)
    BY <2>1, ElementOfSeq DEF Spelling, Extension
  <2> QED
    BY <1>1, <2>2 DEF Sized, Spelling, Extension
<1>6. ASSUME NEW i \in 1..Trailers(b)
      PROVE  Trailer(b, i) \in Seq(Byte) /\ OneLine(Trailer(b, i)) /\ Trailer(b, i) # <<>>
  <2>1. b.trailer \in Seq(Seq(Byte)) /\ i \in 1..Len(b.trailer) /\ i \in DOMAIN b.trailer
    BY <1>1, LenProperties DEF Sized, Trailers
  <2> QED
    BY <1>1, <2>1, ElementOfSeq DEF Sized, Trailer
<1> QED
  BY <1>1, <1>2, <1>3, <1>4, <1>5, <1>6

\* What is behind a semicolon does not matter to a size.
LEMMA SizeLine ==
    ASSUME NEW text \in Seq(Byte), NEW e \in Seq(Byte), HasSize(text),
           \A k \in DOMAIN text : text[k] # Semi, e = <<>> \/ e[1] = Semi
    PROVE  LET line == text \o e
           IN  /\ line \in Seq(Byte) /\ line # <<>>
               /\ HasSize(line) /\ FrameSize(line) = FrameSize(text)
<1> DEFINE line == text \o e
           n == Len(text)
<1>1. n \in Nat /\ Len(e) \in Nat /\ DOMAIN text = 1..n
  BY LenProperties
<1>2. /\ line \in Seq(Byte) /\ Len(line) = n + Len(e)
      /\ \A i \in 1..(n + Len(e)) : line[i] = IF i <= n THEN text[i] ELSE e[i - n]
  BY ConcatProperties
<1>3. DOMAIN line = 1..(n + Len(e))
  BY <1>2, LenProperties
<1>4. text # <<>>
  <2>1. Field(<<>>) = <<>>
    BY DEF Field
  <2>2. Stripped(<<>>) = <<>>
    BY DEF Stripped
  <2>3. Unsigned(<<>>) = <<>> /\ ~ IsNumeral(<<>>)
    BY DEF Unsigned, IsNumeral
  <2> QED
    BY <2>1, <2>2, <2>3 DEF HasSize
<1>5. Field(text) = text
  BY DEF Field
<1>6. Field(line) = text
  <2>1. CASE e = <<>>
    <3>1. line = text
      BY <2>1, ConcatEmptySeq
    <3> QED
      BY <1>5, <3>1
  <2>2. CASE e # <<>>
    <3> DEFINE semis == {i \in DOMAIN line : line[i] = Semi}
    <3>1. e[1] = Semi /\ Len(e) >= 1
      BY <1>1, <2>2, EmptySeq
    <3>2. n + 1 \in semis
      <4>1. n + 1 \in 1..(n + Len(e)) /\ ~ (n + 1 <= n) /\ (n + 1) - n = 1
        BY <1>1, <3>1
      <4> HIDE DEF line
      <4>2. line[n + 1] = e[1]
        BY <1>2, <4>1
      <4> QED
        BY <1>3, <3>1, <4>1, <4>2
    <3>3. ASSUME NEW i \in semis PROVE i \in Nat /\ n + 1 <= i
      <4> HIDE DEF line
      <4>1. i \in 1..(n + Len(e)) /\ line[i] = Semi
        BY <1>3
      <4>2. ~ (i <= n)
        BY <1>1, <1>2, <4>1
      <4> QED
        BY <1>1, <4>1, <4>2
    <3>4. Min(semis) = n + 1
      <4> HIDE DEF semis
      <4>1. \E i \in semis : \A j \in semis : i <= j
        BY <3>2, <3>3
      <4>2. Min(semis) \in semis /\ \A j \in semis : Min(semis) <= j
        BY <4>1 DEF Min
      <4> DEFINE least == Min(semis)
      <4> HIDE DEF least
      <4>3. least \in semis /\ least <= n + 1
        BY <3>2, <4>2 DEF least
      <4>4. least = n + 1
        BY <1>1, <3>3, <4>3
      <4> QED
        BY <4>4 DEF least
    <3>5. Field(line) = SubSeq(line, 1, n)
      <4>1. semis # {} /\ Min(semis) - 1 = n
        <5> HIDE DEF semis
        <5>1. semis # {}
          BY <3>2
        <5> QED
          BY <1>1, <3>4, <5>1
      <4> HIDE DEF line
      <4> QED
        BY <4>1 DEF Field
    <3>6. SubSeq(line, 1, n) = text
      <4> HIDE DEF line
      <4>1. 1 \in Int /\ n \in Int /\ \A i \in 1..n : line[i] \in Byte
        BY <1>1, <1>2, ElementOfSeq
      <4>2. /\ SubSeq(line, 1, n) \in Seq(Byte)
            /\ Len(SubSeq(line, 1, n)) = IF 1 <= n THEN n - 1 + 1 ELSE 0
            /\ \A i \in 1..(n - 1 + 1) : SubSeq(line, 1, n)[i] = line[1 + i - 1]
        BY <4>1, SubSeqProperties
      <4>3. n >= 1 /\ n - 1 + 1 = n
        BY <1>1, <1>4, EmptySeq
      <4>4. ASSUME NEW i \in 1..n PROVE SubSeq(line, 1, n)[i] = text[i]
        <5>1. i \in 1..(n - 1 + 1) /\ 1 + i - 1 = i /\ i <= n /\ i \in 1..(n + Len(e))
          BY <1>1
        <5> QED
          BY <1>2, <4>2, <5>1
      <4> QED
        BY <4>2, <4>3, <4>4, SeqEqual
    <3> QED
      BY <3>5, <3>6
  <2> QED
    BY <2>1, <2>2
<1>7. line # <<>>
  BY <1>1, <1>2, <1>4, EmptySeq
<1> HIDE DEF line
<1>8. HasSize(line) /\ FrameSize(line) = FrameSize(text)
  BY <1>5, <1>6 DEF HasSize, FrameSize
<1> QED
  BY <1>2, <1>7, <1>8 DEF line

\* What the lines of a body are to the readers.
LEMMA LineIs ==
    ASSUME NEW b \in Encoded, b.framed, NEW i \in 1..Lines(b)
    PROVE  /\ Line(b, i) \in Seq(Byte) /\ OneLine(Line(b, i)) /\ Len(Line(b, i)) \in Nat
           /\ i <= Frames(b) + 1 => HasSize(Line(b, i)) /\ FrameSize(Line(b, i)) = Size(b, i)
           /\ Line(b, i) = <<>> <=> i = Lines(b)
<1>1. Frames(b) \in Nat /\ Trailers(b) \in Nat /\ Lines(b) = Frames(b) + Trailers(b) + 2
  BY Framed
<1>2. i \in Nat /\ 1 <= i /\ i <= Lines(b)
  BY <1>1
<1>3. CASE i <= Frames(b) + 1
  <2>1. i \in 1..(Frames(b) + 1) /\ i # Lines(b)
    BY <1>1, <1>2, <1>3
  <2>2. Line(b, i) = Spelling(b, i) \o Extension(b, i)
    BY <1>3 DEF Line, Spelling, Extension
  <2>3. /\ Spelling(b, i) \in Seq(Byte) /\ Extension(b, i) \in Seq(Byte)
        /\ \A k \in DOMAIN Spelling(b, i) : Spelling(b, i)[k] # Semi
        /\ HasSize(Spelling(b, i)) /\ FrameSize(Spelling(b, i)) = Size(b, i)
        /\ Extension(b, i) = <<>> \/ Extension(b, i)[1] = Semi
        /\ OneLine(Line(b, i))
    BY <2>1, <2>2, Framed
  <2>4. /\ Line(b, i) \in Seq(Byte) /\ Line(b, i) # <<>>
        /\ HasSize(Line(b, i)) /\ FrameSize(Line(b, i)) = Size(b, i)
    BY <2>2, <2>3, SizeLine
  <2> QED
    BY <2>1, <2>3, <2>4, LenProperties
<1>4. CASE ~ (i <= Frames(b) + 1) /\ i < Lines(b)
  <2>1. i - Frames(b) - 1 \in 1..Trailers(b) /\ i <= Frames(b) + 1 + Trailers(b)
    BY <1>1, <1>2, <1>4
  <2>2. Line(b, i) = Trailer(b, i - Frames(b) - 1)
    BY <1>4, <2>1 DEF Line, Trailer, Trailers
  <2>3. /\ Line(b, i) \in Seq(Byte) /\ OneLine(Line(b, i)) /\ Line(b, i) # <<>>
    BY <2>1, <2>2, Framed
  <2> QED
    BY <1>1, <1>2, <1>4, <2>3, LenProperties
<1>5. CASE i = Lines(b)
  <2>1. ~ (i <= Frames(b) + 1) /\ ~ (i <= Frames(b) + 1 + Trailers(b))
    BY <1>1, <1>5
  <2>2. Line(b, i) = <<>>
    BY <2>1 DEF Line, Trailers
  <2>3. OneLine(<<>>) /\ <<>> \in Seq(Byte) /\ Len(<<>>) \in Nat
    BY EmptySeq DEF OneLine
  <2> QED
    BY <1>5, <2>1, <2>2, <2>3
<1> QED
  BY <1>1, <1>2, <1>3, <1>4, <1>5

\* A sequence between two others.
LEMMA Concats ==
    ASSUME NEW s \in Seq(Byte), NEW t \in Seq(Byte)
    PROVE  /\ s \o t \in Seq(Byte) /\ Len(s) \in Nat /\ Len(t) \in Nat
           /\ Len(s \o t) = Len(s) + Len(t)
           /\ \A k \in 1..Len(s) : (s \o t)[k] = s[k]
           /\ \A k \in 1..Len(t) : (s \o t)[Len(s) + k] = t[k]
<1>1. Len(s) \in Nat /\ Len(t) \in Nat
  BY LenProperties
<1>2. /\ s \o t \in Seq(Byte) /\ Len(s \o t) = Len(s) + Len(t)
      /\ \A k \in 1..(Len(s) + Len(t)) : (s \o t)[k] = IF k <= Len(s) THEN s[k] ELSE t[k - Len(s)]
  BY ConcatProperties
<1>3. ASSUME NEW k \in 1..Len(t) PROVE (s \o t)[Len(s) + k] = t[k]
  <2>1. Len(s) + k \in 1..(Len(s) + Len(t)) /\ ~ (Len(s) + k <= Len(s)) /\ Len(s) + k - Len(s) = k
    BY <1>1
  <2> QED
    BY <1>2, <2>1
<1>4. ASSUME NEW k \in 1..Len(s) PROVE (s \o t)[k] = s[k]
  <2>1. k \in 1..(Len(s) + Len(t)) /\ k <= Len(s)
    BY <1>1
  <2> QED
    BY <1>2, <2>1
<1> QED
  BY <1>1, <1>2, <1>3, <1>4

\* A piece begins with its line; the frame, if there is one, follows.
LEMMA PieceIs ==
    ASSUME NEW b \in Encoded, b.framed, NEW i \in 1..Lines(b)
    PROVE  /\ Piece(b, i) \in Seq(Byte) /\ Len(Line(b, i)) \in Nat
           /\ ~ (i <= Frames(b)) => Len(Piece(b, i)) = Len(Line(b, i)) + 2
           /\ \A k \in 1..Len(Line(b, i)) : Piece(b, i)[k] = Line(b, i)[k]
           /\ Piece(b, i)[Len(Line(b, i)) + 1] = CR /\ Piece(b, i)[Len(Line(b, i)) + 2] = LF
           /\ i <= Frames(b) =>
                /\ Len(Piece(b, i)) = Len(Line(b, i)) + 2 + Size(b, i) + 2
                /\ \A k \in 1..Size(b, i) : Piece(b, i)[Len(Line(b, i)) + 2 + k] = Frame(b, i)[k]
<1> DEFINE line == Line(b, i)
           frame == Frame(b, i)
           head == line \o Crlf
           rest == IF i <= Frames(b) THEN frame \o Crlf ELSE <<>>
           piece == Piece(b, i)
<1>1. /\ line \in Seq(Byte) /\ Len(line) \in Nat
      /\ Crlf \in Seq(Byte) /\ Len(Crlf) = 2 /\ Crlf[1] = CR /\ Crlf[2] = LF
  BY LineIs DEF Crlf, Byte
<1>2. piece = head \o rest
  BY DEF Piece, Frame
<1>3. /\ head \in Seq(Byte) /\ Len(head) = Len(line) + 2
      /\ \A k \in 1..Len(line) : head[k] = line[k]
      /\ head[Len(line) + 1] = CR /\ head[Len(line) + 2] = LF
  <2>1. /\ head \in Seq(Byte) /\ Len(head) = Len(line) + Len(Crlf)
        /\ \A k \in 1..Len(line) : head[k] = line[k]
        /\ \A k \in 1..Len(Crlf) : head[Len(line) + k] = Crlf[k]
    BY <1>1, Concats
  <2> HIDE DEF head, line
  <2> QED
    BY <1>1, <2>1
<1> HIDE DEF head, line
<1>4. ASSUME i <= Frames(b)
      PROVE  /\ rest \in Seq(Byte) /\ Len(rest) = Size(b, i) + 2 /\ Size(b, i) \in Nat
             /\ \A k \in 1..Size(b, i) : rest[k] = frame[k]
  <2>1. i \in 1..Frames(b)
    BY <1>4, Framed
  <2>2. frame \in Seq(Byte) /\ Len(frame) = Size(b, i) /\ Size(b, i) \in Nat
    BY <2>1, Framed
  <2>3. rest = frame \o Crlf
    BY <1>4
  <2> HIDE DEF rest, frame
  <2>4. /\ rest \in Seq(Byte) /\ Len(rest) = Len(frame) + Len(Crlf)
        /\ \A k \in 1..Len(frame) : rest[k] = frame[k]
    BY <1>1, <2>2, <2>3, Concats
  <2> QED
    BY <1>1, <2>2, <2>4
<1>5. ~ (i <= Frames(b)) => rest = <<>>
  OBVIOUS
<1>6. rest \in Seq(Byte) /\ Len(rest) \in Nat
  BY <1>4, <1>5, EmptySeq, LenProperties
<1> HIDE DEF rest, piece, frame
<1>7. /\ piece \in Seq(Byte) /\ Len(piece) = Len(head) + Len(rest)
      /\ \A k \in 1..Len(head) : piece[k] = head[k]
      /\ \A k \in 1..Len(rest) : piece[Len(head) + k] = rest[k]
  BY <1>2, <1>3, <1>6, Concats
<1>8. ~ (i <= Frames(b)) => Len(piece) = Len(line) + 2
  <2>1. Len(<<>>) = 0
    OBVIOUS
  <2> QED
    BY <1>1, <1>3, <1>5, <1>7, <2>1
<1>9. /\ \A k \in 1..Len(line) : piece[k] = line[k]
      /\ piece[Len(line) + 1] = CR /\ piece[Len(line) + 2] = LF
  <2>1. /\ \A k \in 1..Len(line) : k \in 1..Len(head)
        /\ Len(line) + 1 \in 1..Len(head) /\ Len(line) + 2 \in 1..Len(head)
    BY <1>1, <1>3
  <2> QED
    BY <1>3, <1>7, <2>1
<1>10. ASSUME i <= Frames(b)
      PROVE  /\ Len(piece) = Len(line) + 2 + Size(b, i) + 2
             /\ \A k \in 1..Size(b, i) : piece[Len(line) + 2 + k] = frame[k]
  <2>1. Len(piece) = Len(line) + 2 + Size(b, i) + 2
    <3>1. Len(piece) = Len(head) + Len(rest) /\ Len(head) = Len(line) + 2
      BY <1>3, <1>7
    <3>2. Len(rest) = Size(b, i) + 2 /\ Size(b, i) \in Nat
      BY <1>4, <1>10
    <3> QED
      BY <1>1, <3>1, <3>2
  <2>2. \A k \in 1..Size(b, i) : k \in 1..Len(rest)
    BY <1>4, <1>10
  <2> QED
    BY <1>3, <1>4, <1>7, <1>10, <2>1, <2>2
<1> QED
  BY <1>1, <1>7, <1>8, <1>9, <1>10 DEF piece, line, frame

\* Where the first n pieces of a body end.
At(b, n) == Len(Sent(b, n))

\* Every piece comes behind the ones before.
LEMMA SentNext ==
    ASSUME NEW b \in Encoded, b.framed
    PROVE  /\ Sent(b, 0) = <<>> /\ At(b, 0) = 0
           /\ \A n \in 0..Lines(b) : Sent(b, n) \in Seq(Byte) /\ At(b, n) \in Nat
           /\ \A n \in 0..(Lines(b) - 1) :
                /\ At(b, n + 1) = At(b, n) + Len(Piece(b, n + 1)) /\ Len(Piece(b, n + 1)) \in Nat \ {0}
                /\ \A k \in 1..At(b, n) : Sent(b, n + 1)[k] = Sent(b, n)[k]
                /\ \A k \in 1..Len(Piece(b, n + 1)) :
                     Sent(b, n + 1)[At(b, n) + k] = Piece(b, n + 1)[k]
<1> DEFINE parts(n) == [i \in 1..n |-> Piece(b, i)]
<1>0. Frames(b) \in Nat /\ Trailers(b) \in Nat /\ Lines(b) = Frames(b) + Trailers(b) + 2
  BY Framed
<1>1. ASSUME NEW n \in 0..Lines(b)
      PROVE  /\ parts(n) \in Seq(Seq(Byte)) /\ Len(parts(n)) = n /\ Sent(b, n) = FlattenSeq(parts(n))
             /\ Sent(b, n) \in Seq(Byte) /\ At(b, n) \in Nat
  <2>1. n \in Nat /\ \A i \in 1..n : Piece(b, i) \in Seq(Byte)
    BY <1>0, PieceIs
  <2>2. parts(n) \in Seq(Seq(Byte)) /\ Len(parts(n)) = n
    BY <2>1
  <2>3. Sent(b, n) = FlattenSeq(parts(n))
    BY DEF Sent
  <2> HIDE DEF parts
  <2> QED
    BY <2>2, <2>3, FlattenTyped, LenProperties DEF At
<1>2. Sent(b, 0) = <<>> /\ At(b, 0) = 0
  <2>1. parts(0) = <<>> /\ 0 \in 0..Lines(b)
    BY <1>0
  <2>2. <<>> \in Seq(Seq(Byte)) /\ <<>> \in Seq(Byte)
    BY EmptySeq
  <2>3. FlattenSeq(<<>>) = <<>>
    BY <2>2, FlattenAppend
  <2>4. Sent(b, 0) = FlattenSeq(parts(0))
    BY DEF Sent
  <2> HIDE DEF parts
  <2> QED
    BY <2>1, <2>3, <2>4 DEF At
<1>3. ASSUME NEW n \in 0..(Lines(b) - 1)
      PROVE  /\ At(b, n + 1) = At(b, n) + Len(Piece(b, n + 1)) /\ Len(Piece(b, n + 1)) \in Nat \ {0}
             /\ \A k \in 1..At(b, n) : Sent(b, n + 1)[k] = Sent(b, n)[k]
             /\ \A k \in 1..Len(Piece(b, n + 1)) : Sent(b, n + 1)[At(b, n) + k] = Piece(b, n + 1)[k]
  <2>1. n \in 0..Lines(b) /\ n + 1 \in 0..Lines(b) /\ n + 1 \in 1..Lines(b) /\ n \in Nat
    BY <1>0
  <2>2. Piece(b, n + 1) \in Seq(Byte) /\ Len(Piece(b, n + 1)) \in Nat \ {0}
    <3>1. /\ Piece(b, n + 1) \in Seq(Byte) /\ Len(Line(b, n + 1)) \in Nat
          /\ \/ Len(Piece(b, n + 1)) = Len(Line(b, n + 1)) + 2
             \/ /\ n + 1 <= Frames(b)
                /\ Len(Piece(b, n + 1)) = Len(Line(b, n + 1)) + 2 + Size(b, n + 1) + 2
      BY <2>1, PieceIs
    <3>2. n + 1 <= Frames(b) => Size(b, n + 1) \in Nat
      BY <1>0, <2>1, Framed
    <3> QED
      BY <3>1, <3>2
  <2>3. parts(n + 1) = Append(parts(n), Piece(b, n + 1))
    <3> DEFINE longer == parts(n + 1)
               shorter == Append(parts(n), Piece(b, n + 1))
    <3>1. parts(n) \in Seq(Seq(Byte)) /\ Len(parts(n)) = n
      <4> HIDE DEF parts
      <4> QED
        BY <1>1, <2>1
    <3>2. longer \in Seq(Seq(Byte)) /\ Len(longer) = n + 1
      <4> HIDE DEF parts
      <4> QED
        BY <1>1, <2>1
    <3>3. /\ shorter \in Seq(Seq(Byte)) /\ Len(shorter) = n + 1
          /\ \A i \in 1..(n + 1) :
               shorter[i] = IF i <= n THEN parts(n)[i] ELSE Piece(b, n + 1)
      <4> HIDE DEF parts
      <4> QED
        BY <2>1, <2>2, <3>1, AppendProperties
    <3>4. \A i \in 1..(n + 1) : longer[i] = shorter[i]
      <4> HIDE DEF shorter
      <4> QED
        BY <2>1, <3>3
    <3> HIDE DEF longer, shorter
    <3>5. longer = shorter
      BY <2>1, <3>2, <3>3, <3>4, SeqEqual
    <3> QED
      BY <3>5 DEF longer, shorter
  <2>4. Sent(b, n + 1) = Sent(b, n) \o Piece(b, n + 1)
    <3>1. parts(n) \in Seq(Seq(Byte)) /\ Sent(b, n) = FlattenSeq(parts(n))
          /\ Sent(b, n + 1) = FlattenSeq(parts(n + 1))
      BY <1>1, <2>1
    <3> HIDE DEF parts
    <3> QED
      BY <2>2, <2>3, <3>1, FlattenAppend
  <2>5. Sent(b, n) \in Seq(Byte)
    BY <1>1, <2>1
  <2>6. /\ Len(Sent(b, n) \o Piece(b, n + 1)) = Len(Sent(b, n)) + Len(Piece(b, n + 1))
        /\ \A k \in 1..Len(Sent(b, n)) : (Sent(b, n) \o Piece(b, n + 1))[k] = Sent(b, n)[k]
        /\ \A k \in 1..Len(Piece(b, n + 1)) :
             (Sent(b, n) \o Piece(b, n + 1))[Len(Sent(b, n)) + k] = Piece(b, n + 1)[k]
    BY <2>2, <2>5, Concats
  <2> QED
    BY <2>2, <2>4, <2>6 DEF At
<1> QED
  BY <1>1, <1>2, <1>3

\* What has been sent stays at the beginning of what is sent.
LEMMA SentGrows ==
    ASSUME NEW b \in Encoded, b.framed, NEW m \in 0..Lines(b), NEW n \in 0..Lines(b), m <= n
    PROVE  /\ At(b, m) \in Nat /\ At(b, n) \in Nat
           /\ At(b, m) <= At(b, n) /\ (m # n => At(b, m) < At(b, n))
           /\ \A k \in 1..At(b, m) : Sent(b, n)[k] = Sent(b, m)[k]
<1> DEFINE Longer(j) == /\ At(b, m) <= At(b, j) /\ (m # j => At(b, m) < At(b, j))
                        /\ \A k \in 1..At(b, m) : Sent(b, j)[k] = Sent(b, m)[k]
           Bad == {j \in m..Lines(b) : ~ Longer(j)}
<1>0. /\ Lines(b) \in Nat /\ \A j \in 0..Lines(b) : At(b, j) \in Nat
      /\ \A j \in m..Lines(b) : j \in 0..Lines(b) /\ j \in Nat
  BY Framed, SentNext
<1>1. SUFFICES ASSUME Bad # {} PROVE FALSE
  BY <1>0
<1>2. PICK j \in Bad : \A i \in Bad : j <= i
  <2>1. Bad \in SUBSET Nat
    BY <1>0
  <2> QED
    BY <1>1, <2>1, LeastNatural
<1>3. j \in m..Lines(b) /\ ~ Longer(j) /\ \A i \in m..Lines(b) : i < j => Longer(i)
  <2>1. \A i \in m..Lines(b) : i < j => i \notin Bad
    <3>1. \A i \in Bad : i \in Nat /\ j \in Nat /\ j <= i
      BY <1>0, <1>2
    <3> HIDE DEF Bad
    <3> QED
      BY <3>1
  <2> QED
    BY <1>2, <2>1
<1> HIDE DEF Bad
<1>4. Longer(m)
  BY <1>0
<1>5. j # m
  BY <1>3, <1>4
<1>6. j - 1 \in m..Lines(b) /\ j - 1 \in 0..(Lines(b) - 1) /\ j - 1 < j /\ (j - 1) + 1 = j
  BY <1>0, <1>3, <1>5
<1>7. Longer(j - 1)
  BY <1>3, <1>6
<1>8. /\ At(b, j) = At(b, j - 1) + Len(Piece(b, j)) /\ Len(Piece(b, j)) \in Nat \ {0}
      /\ \A k \in 1..At(b, j - 1) : Sent(b, j)[k] = Sent(b, j - 1)[k]
  BY <1>6, SentNext
<1>9. At(b, j - 1) \in Nat /\ At(b, j) \in Nat /\ At(b, m) \in Nat
  BY <1>0, <1>3, <1>6
<1>10. At(b, m) < At(b, j)
  BY <1>7, <1>8, <1>9
<1>11. ASSUME NEW k \in 1..At(b, m) PROVE Sent(b, j)[k] = Sent(b, m)[k]
  <2>1. k \in 1..At(b, j - 1)
    BY <1>7, <1>9
  <2> QED
    BY <1>7, <1>8, <2>1
<1> QED
  BY <1>3, <1>9, <1>10, <1>11

\* The first n pieces have got through.
Matches(b, n) == At(b, n) <= Length(b) /\ \A k \in 1..At(b, n) : b.bytes[k] = Sent(b, n)[k]

\* So has the next one, as far as the body goes.
Goes(b, n) ==
    \A k \in 1..Len(Piece(b, n + 1)) :
        At(b, n) + k <= Length(b) => b.bytes[At(b, n) + k] = Piece(b, n + 1)[k]

\* The line in place of a size, and its end.
Detour(b) == b.stray \o Crlf

\* Or there is something else in its place: a line that is no size, or does not end.
Departs(b, n) ==
    /\ b.stray \in Seq(Byte) /\ OneLine(b.stray) /\ b.stray # <<>>
    /\ Matches(b, n) /\ At(b, n) < Length(b)
    /\ \A k \in 1..(Len(b.stray) + 2) :
         At(b, n) + k <= Length(b) => b.bytes[At(b, n) + k] = Detour(b)[k]
    /\ ~ HasSize(b.stray) \/ Length(b) = At(b, n) + Len(b.stray)

Strays(b, n) == n <= Frames(b) /\ Departs(b, n) /\ ~ Whole(b)

\* What a detour is.
LEMMA DetourIs ==
    ASSUME NEW b, b.stray \in Seq(Byte)
    PROVE  /\ Len(b.stray) \in Nat /\ Detour(b) \in Seq(Byte)
           /\ \A k \in 1..Len(b.stray) : Detour(b)[k] = b.stray[k]
           /\ Detour(b)[Len(b.stray) + 1] = CR /\ Detour(b)[Len(b.stray) + 2] = LF
<1>1. Crlf \in Seq(Byte) /\ Len(Crlf) = 2 /\ Crlf[1] = CR /\ Crlf[2] = LF
  BY DEF Crlf, Byte
<1> HIDE DEF Crlf
<1>2. /\ Len(b.stray) \in Nat /\ Detour(b) \in Seq(Byte)
      /\ \A k \in 1..Len(b.stray) : Detour(b)[k] = b.stray[k]
      /\ \A k \in 1..Len(Crlf) : Detour(b)[Len(b.stray) + k] = Crlf[k]
  BY <1>1, Concats DEF Detour
<1> QED
  BY <1>1, <1>2

\* A body is cut, or departs.
LEMMA CutOrStray ==
    ASSUME NEW b \in Encoded, b.framed
    PROVE  \/ /\ Length(b) <= At(b, Lines(b))
              /\ \A k \in 1..Length(b) : b.bytes[k] = Sent(b, Lines(b))[k]
           \/ \E n \in 0..Frames(b) : Departs(b, n)
<1>1. /\ Frames(b) \in Nat /\ Trailers(b) \in Nat /\ Lines(b) = Frames(b) + Trailers(b) + 2
      /\ b.bytes \in Seq(Byte) /\ \A n \in 0..Lines(b) : Sent(b, n) \in Seq(Byte)
      /\ Length(b) \in Nat
  BY Framed, SentNext
<1>2. CASE IsPrefix(b.bytes, Sent(b, Lines(b)))
  <2>1. Sent(b, Lines(b)) \in Seq(Byte)
    BY <1>1
  <2>2. Len(b.bytes) <= Len(Sent(b, Lines(b))) /\ \A k \in 1..Len(b.bytes) : b.bytes[k] = Sent(b, Lines(b))[k]
    BY <1>1, <1>2, <2>1, PrefixIs
  <2> QED
    BY <2>2 DEF Length, At
<1>3. ASSUME NEW n \in 0..Frames(b), StraysAfter(b, n),
             b.stray \in Seq(Byte), b.stray # <<>>, OneLine(b.stray)
      PROVE  Departs(b, n)
  <2> DEFINE p == At(b, n)
             s == Len(b.stray)
             strayed == Sent(b, n) \o b.stray
             longer == strayed \o Crlf
  <2>1. Sent(b, n) \in Seq(Byte) /\ p \in Nat
    BY <1>1, SentNext
  <2>2. /\ s \in Nat \ {0} /\ Detour(b) \in Seq(Byte)
        /\ \A k \in 1..s : Detour(b)[k] = b.stray[k]
        /\ Detour(b)[s + 1] = CR /\ Detour(b)[s + 2] = LF
    BY <1>3, DetourIs, EmptySeq
  <2>3. /\ strayed \in Seq(Byte) /\ Len(strayed) = p + s
        /\ \A k \in 1..p : strayed[k] = Sent(b, n)[k]
        /\ \A k \in 1..s : strayed[p + k] = b.stray[k]
    BY <1>3, <2>1, Concats DEF At
  <2> HIDE DEF p, s, strayed
  <2>4. CASE b.bytes = strayed
    <3>1. Length(b) = p + s
      BY <2>3, <2>4 DEF Length
    <3>2. p < Length(b) /\ \A k \in 1..(s + 2) : p + k <= Length(b) => k \in 1..s
      BY <2>1, <2>2, <3>1
    <3>3. Matches(b, n)
      <4>1. p <= Length(b) /\ \A k \in 1..p : b.bytes[k] = Sent(b, n)[k]
        BY <1>1, <2>1, <2>3, <2>4, <3>2
      <4> QED
        BY <4>1 DEF Matches, p
    <3> QED
      BY <1>3, <2>2, <2>3, <2>4, <3>1, <3>2, <3>3 DEF Departs, p, s
  <2>5. CASE ~ HasSize(b.stray) /\ IsPrefix(longer, b.bytes)
    <3>1. Crlf \in Seq(Byte) /\ Len(Crlf) = 2 /\ Crlf[1] = CR /\ Crlf[2] = LF
      BY DEF Crlf, Byte
    <3> HIDE DEF Crlf
    <3>2. /\ longer \in Seq(Byte) /\ Len(longer) = p + s + 2
          /\ \A k \in 1..(p + s) : longer[k] = strayed[k]
          /\ \A k \in 1..2 : longer[(p + s) + k] = Crlf[k]
      <4>1. /\ longer \in Seq(Byte) /\ Len(longer) = Len(strayed) + Len(Crlf)
            /\ \A k \in 1..Len(strayed) : longer[k] = strayed[k]
            /\ \A k \in 1..Len(Crlf) : longer[Len(strayed) + k] = Crlf[k]
        BY <2>3, <3>1, Concats
      <4> HIDE DEF longer
      <4> QED
        BY <2>1, <2>2, <2>3, <3>1, <4>1
    <3> HIDE DEF longer
    <3>3. Len(longer) <= Length(b) /\ \A k \in 1..Len(longer) : longer[k] = b.bytes[k]
      BY <1>1, <2>5, <3>2, PrefixIs DEF Length
    <3>4. p < Length(b)
      BY <1>1, <2>1, <2>2, <3>2, <3>3
    <3>5. ASSUME NEW k \in 1..p PROVE b.bytes[k] = Sent(b, n)[k]
      <4>1. k \in 1..(p + s) /\ k \in 1..Len(longer)
        BY <2>1, <2>2, <3>2
      <4> QED
        BY <2>3, <3>2, <3>3, <4>1
    <3>6. Matches(b, n)
      <4>1. p <= Length(b)
        BY <1>1, <2>1, <3>4
      <4> QED
        BY <3>5, <4>1 DEF Matches, p
    <3>7. ASSUME NEW k \in 1..(s + 2) PROVE b.bytes[p + k] = Detour(b)[k]
      <4>1. p + k \in 1..Len(longer)
        BY <2>1, <2>2, <3>2
      <4>2. CASE k <= s
        <5>1. k \in 1..s /\ p + k \in 1..(p + s)
          BY <2>1, <2>2, <4>2
        <5> QED
          BY <2>2, <2>3, <3>2, <3>3, <4>1, <5>1
      <4>3. CASE k = s + 1
        <5>1. p + k = (p + s) + 1 /\ 1 \in 1..2
          BY <2>1, <2>2, <4>3
        <5> QED
          BY <2>2, <3>1, <3>2, <3>3, <4>1, <4>3, <5>1
      <4>4. CASE k = s + 2
        <5>1. p + k = (p + s) + 2 /\ 2 \in 1..2
          BY <2>1, <2>2, <4>4
        <5> QED
          BY <2>2, <3>1, <3>2, <3>3, <4>1, <4>4, <5>1
      <4> QED
        BY <2>2, <4>2, <4>3, <4>4
    <3> QED
      BY <1>3, <2>5, <3>4, <3>6, <3>7 DEF Departs, p, s
  <2> QED
    BY <1>3, <2>4, <2>5 DEF StraysAfter, strayed
<1>4. \/ IsPrefix(b.bytes, Sent(b, Lines(b)))
      \/ /\ b.stray \in Seq(Byte) \ {<<>>} /\ OneLine(b.stray)
         /\ \E n \in 0..Frames(b) : StraysAfter(b, n)
  BY DEF Encoded, IsEncoded
<1> QED
  BY <1>2, <1>3, <1>4

\* As far as there are n bytes, they are a line and its end.
Follows(f, line, n) ==
    /\ \A k \in 1..Len(line) : k <= n => f[k] = line[k]
    /\ Len(line) + 1 <= n => f[Len(line) + 1] = CR
    /\ Len(line) + 2 <= n => f[Len(line) + 2] = LF

\* Two lines that end in one place are the same.
LEMMA SameLine ==
    ASSUME NEW line \in Seq(Byte), OneLine(line), NEW other \in Seq(Byte), OneLine(other),
           NEW f, NEW n \in Nat, Len(line) + 2 <= n, Follows(f, line, n), Follows(f, other, n)
    PROVE  line = other
<1> USE DEF Follows
<1> DEFINE l == Len(line)
           o == Len(other)
<1>1. l \in Nat /\ o \in Nat /\ CR # LF
  BY LenProperties, CrIsNotLf
<1>2. ASSUME l < o PROVE FALSE
  <2>1. l + 1 \in 1..o /\ l + 1 <= n /\ l + 2 <= n /\ (l + 1) + 1 = l + 2
    BY <1>1, <1>2
  <2>2. other[l + 1] = CR
    BY <2>1
  <2>3. CASE l + 2 <= o
    <3>1. l + 1 \in 1..(o - 1) /\ l + 2 \in 1..o
      BY <1>1, <2>3
    <3>2. other[l + 2] = LF
      BY <2>1, <3>1
    <3> QED
      BY <2>1, <2>2, <3>1, <3>2 DEF OneLine
  <2>4. CASE ~ (l + 2 <= o)
    <3>1. o + 1 = l + 2
      BY <1>1, <1>2, <2>4
    <3> QED
      BY <1>1, <2>1, <3>1
  <2> QED
    BY <2>3, <2>4
<1>3. ASSUME o < l PROVE FALSE
  <2>1. o + 1 \in 1..l /\ o + 1 <= n /\ o + 2 <= n /\ (o + 1) + 1 = o + 2
    BY <1>1, <1>3
  <2>2. line[o + 1] = CR /\ f[o + 2] = LF
    BY <2>1
  <2>3. CASE o + 2 <= l
    <3>1. o + 1 \in 1..(l - 1) /\ o + 2 \in 1..l
      BY <1>1, <2>3
    <3>2. line[o + 2] = LF
      BY <2>2, <3>1
    <3> QED
      BY <2>1, <2>2, <3>1, <3>2 DEF OneLine
  <2>4. CASE ~ (o + 2 <= l)
    <3>1. l + 1 = o + 2
      BY <1>1, <1>3, <2>4
    <3> QED
      BY <1>1, <2>2, <3>1
  <2> QED
    BY <2>3, <2>4
<1>4. l = o
  BY <1>1, <1>2, <1>3
<1>5. ASSUME NEW k \in 1..l PROVE line[k] = other[k]
  <2>1. k <= n
    BY <1>1
  <2> QED
    BY <1>4, <2>1
<1> QED
  BY <1>4, <1>5, SeqEqual

\* A body that departs does not go on as it was meant.
LEMMA DepartsForGood ==
    ASSUME NEW b \in Encoded, b.framed, NEW n \in 0..Frames(b), Departs(b, n),
           NEW m \in 0..Lines(b), n < m
    PROVE  ~ Matches(b, m)
<1> SUFFICES ASSUME Matches(b, m) PROVE FALSE
  OBVIOUS
<1>1. /\ Frames(b) \in Nat /\ Trailers(b) \in Nat /\ Lines(b) = Frames(b) + Trailers(b) + 2
      /\ Length(b) \in Nat
  BY Framed
<1>2. n \in 0..(Lines(b) - 1) /\ n + 1 \in 1..Lines(b) /\ n + 1 <= Frames(b) + 1 /\ n + 1 <= m
      /\ n + 1 \in 0..Lines(b) /\ n \in 0..Lines(b)
  BY <1>1
<1> DEFINE p == At(b, n)
           line == Line(b, n + 1)
           piece == Piece(b, n + 1)
           l == Len(line)
           s == Len(b.stray)
           after == [k \in 1..Length(b) |-> b.bytes[p + k]]
<1>3. /\ At(b, n + 1) = p + Len(piece) /\ p \in Nat /\ Len(piece) \in Nat
      /\ \A k \in 1..Len(piece) : Sent(b, n + 1)[p + k] = piece[k]
  BY <1>2, SentNext
<1>4. /\ At(b, n + 1) <= At(b, m) /\ At(b, n + 1) \in Nat /\ At(b, m) \in Nat
      /\ \A k \in 1..At(b, n + 1) : Sent(b, m)[k] = Sent(b, n + 1)[k]
  BY <1>2, SentGrows
<1>5. /\ line \in Seq(Byte) /\ OneLine(line) /\ l \in Nat /\ HasSize(line)
  BY <1>2, LineIs
<1>6. /\ l + 2 <= Len(piece) /\ \A k \in 1..l : piece[k] = line[k]
      /\ piece[l + 1] = CR /\ piece[l + 2] = LF
  <2>1. /\ \A k \in 1..l : piece[k] = line[k]
        /\ piece[l + 1] = CR /\ piece[l + 2] = LF
        /\ ~ (n + 1 <= Frames(b)) => Len(piece) = l + 2
        /\ n + 1 <= Frames(b) => Len(piece) = l + 2 + Size(b, n + 1) + 2
    BY <1>2, PieceIs
  <2>2. n + 1 <= Frames(b) => Size(b, n + 1) \in Nat
    BY <1>1, <1>2, Framed
  <2> DEFINE size == Size(b, n + 1)
             all == Len(piece)
  <2>3. /\ ~ (n + 1 <= Frames(b)) => all = l + 2
        /\ n + 1 <= Frames(b) => all = l + 2 + size + 2 /\ size \in Nat
    BY <2>1, <2>2
  <2> HIDE DEF size, all, l
  <2>4. l + 2 <= all
    BY <1>5, <2>3
  <2> QED
    BY <2>1, <2>4 DEF all
<1> HIDE DEF p, line, piece, l, s
<1>7. ASSUME NEW k \in 1..(l + 2) PROVE after[k] = piece[k]
  <2>1. k \in 1..Len(piece) /\ p + k \in 1..At(b, n + 1) /\ p + k \in 1..At(b, m)
    BY <1>3, <1>4, <1>5, <1>6
  <2>2. k \in 1..Length(b) /\ b.bytes[p + k] = Sent(b, m)[p + k]
    BY <1>1, <1>3, <1>4, <2>1 DEF Matches
  <2> QED
    BY <1>3, <1>4, <2>1, <2>2
<1>8. p + (l + 2) <= Length(b)
  BY <1>1, <1>3, <1>4, <1>5, <1>6 DEF Matches
<1>9. /\ b.stray \in Seq(Byte) /\ OneLine(b.stray)
      /\ \A k \in 1..(s + 2) : p + k <= Length(b) => b.bytes[p + k] = Detour(b)[k]
      /\ ~ HasSize(b.stray) \/ Length(b) = p + s
  BY DEF Departs, p, s
<1>10. /\ s \in Nat /\ \A k \in 1..s : Detour(b)[k] = b.stray[k]
       /\ Detour(b)[s + 1] = CR /\ Detour(b)[s + 2] = LF
  BY <1>9, DetourIs DEF s
<1>11. ASSUME NEW k \in 1..(s + 2), k <= Length(b) - p PROVE after[k] = Detour(b)[k]
  <2>1. p + k <= Length(b) /\ k \in 1..Length(b)
    BY <1>1, <1>3, <1>10, <1>11
  <2> QED
    BY <1>9, <2>1
<1> HIDE DEF after
<1>12. line = b.stray
  <2>1. /\ \A k \in 1..l : after[k] = line[k]
        /\ after[l + 1] = CR /\ after[l + 2] = LF
    <3>1. \A k \in 1..l : k \in 1..(l + 2)
      BY <1>5
    <3>2. l + 1 \in 1..(l + 2) /\ l + 2 \in 1..(l + 2)
      BY <1>5
    <3> QED
      BY <1>6, <1>7, <3>1, <3>2
  <2>2. /\ \A k \in 1..s : k <= Length(b) - p => after[k] = b.stray[k]
        /\ s + 1 <= Length(b) - p => after[s + 1] = CR
        /\ s + 2 <= Length(b) - p => after[s + 2] = LF
    <3>1. \A k \in 1..s : k \in 1..(s + 2)
      BY <1>10
    <3>2. s + 1 \in 1..(s + 2) /\ s + 2 \in 1..(s + 2)
      BY <1>10
    <3> QED
      BY <1>10, <1>11, <3>1, <3>2
  <2>3. Length(b) - p \in Nat /\ l + 2 <= Length(b) - p
    BY <1>1, <1>3, <1>5, <1>8
  <2> DEFINE left == Length(b) - p
  <2> HIDE DEF left
  <2>4. left \in Nat /\ Len(line) + 2 <= left
    BY <2>3 DEF left, l
  <2>5. Follows(after, line, left)
    BY <2>1 DEF Follows, l
  <2>6. Follows(after, b.stray, left)
    BY <2>2 DEF Follows, s, left
  <2> QED
    <3>1. /\ line \in Seq(Byte) /\ OneLine(line)
          /\ b.stray \in Seq(Byte) /\ OneLine(b.stray)
      BY <1>5, <1>9
    <3> QED
      BY <2>4, <2>5, <2>6, <3>1, SameLine
<1>13. l = s
  BY <1>12 DEF l, s
<1>14. Length(b) = p + s
  BY <1>5, <1>9, <1>12
<1> QED
  BY <1>3, <1>5, <1>8, <1>13, <1>14

\* What departs is not whole.
LEMMA StraysThen ==
    ASSUME NEW b \in Encoded, b.framed, NEW n \in 0..Frames(b), Departs(b, n)
    PROVE  Strays(b, n)
<1>1. /\ Frames(b) \in Nat /\ Trailers(b) \in Nat /\ Lines(b) = Frames(b) + Trailers(b) + 2
      /\ b.bytes \in Seq(Byte) /\ Length(b) \in Nat
  BY Framed
<1> SUFFICES ASSUME NEW j \in 0..Lines(b), b.bytes = Sent(b, j) PROVE FALSE
  BY <1>1 DEF Strays, Whole
<1>2. Length(b) = At(b, j) /\ Matches(b, j) /\ n \in 0..Lines(b)
  BY <1>1 DEF Length, At, Matches
<1>3. CASE j <= n
  BY <1>1, <1>2, <1>3, SentGrows DEF Departs
<1>4. CASE n < j
  BY <1>2, <1>4, DepartsForGood
<1> QED
  BY <1>1, <1>3, <1>4

\* A body that ends inside of a piece is not whole.
LEMMA CutInside ==
    ASSUME NEW b \in Encoded, b.framed, NEW n \in 0..(Lines(b) - 1),
           At(b, n) < Length(b), Length(b) < At(b, n + 1)
    PROVE  ~ Whole(b)
<1>1. Lines(b) \in Nat /\ Length(b) \in Nat
  BY Framed
<1> SUFFICES ASSUME NEW m \in 0..Lines(b), b.bytes = Sent(b, m) PROVE FALSE
  BY DEF Whole
<1>2. Length(b) = At(b, m)
  BY DEF Length, At
<1>3. n \in 0..Lines(b) /\ n + 1 \in 0..Lines(b)
  BY <1>1
<1>4. CASE m <= n
  BY <1>1, <1>2, <1>3, <1>4, SentGrows
<1>5. CASE n + 1 <= m
  BY <1>1, <1>2, <1>3, <1>5, SentGrows
<1> QED
  BY <1>1, <1>3, <1>4, <1>5

\* After the pieces that got through comes the next, or what is none.
LEMMA Continues ==
    ASSUME NEW b \in Encoded, b.framed, NEW n \in 0..(Lines(b) - 1), Matches(b, n)
    PROVE  Goes(b, n) \/ Strays(b, n)
<1>1. /\ Frames(b) \in Nat /\ Trailers(b) \in Nat /\ Lines(b) = Frames(b) + Trailers(b) + 2
      /\ Length(b) \in Nat
  BY Framed
<1>2. n \in 0..Lines(b) /\ n + 1 \in 0..Lines(b) /\ n \in Nat
  BY <1>1
<1>3. /\ At(b, n + 1) = At(b, n) + Len(Piece(b, n + 1)) /\ Len(Piece(b, n + 1)) \in Nat \ {0}
      /\ \A k \in 1..Len(Piece(b, n + 1)) : Sent(b, n + 1)[At(b, n) + k] = Piece(b, n + 1)[k]
      /\ At(b, n) \in Nat /\ At(b, n + 1) \in Nat
  BY <1>2, SentNext
<1>4. ASSUME NEW m \in 0..Lines(b), n + 1 <= m,
             \A k \in 1..At(b, m) : k <= Length(b) => b.bytes[k] = Sent(b, m)[k]
      PROVE  Goes(b, n)
  <2> SUFFICES ASSUME NEW k \in 1..Len(Piece(b, n + 1)), At(b, n) + k <= Length(b)
               PROVE  b.bytes[At(b, n) + k] = Piece(b, n + 1)[k]
    BY DEF Goes
  <2>1. /\ At(b, n + 1) <= At(b, m) /\ At(b, m) \in Nat
        /\ \A j \in 1..At(b, n + 1) : Sent(b, m)[j] = Sent(b, n + 1)[j]
    BY <1>2, <1>4, SentGrows
  <2>2. At(b, n) + k \in 1..At(b, n + 1) /\ At(b, n) + k \in 1..At(b, m)
    BY <1>3, <2>1
  <2> QED
    BY <1>3, <1>4, <2>1, <2>2
<1>5. CASE /\ Length(b) <= At(b, Lines(b))
           /\ \A k \in 1..Length(b) : b.bytes[k] = Sent(b, Lines(b))[k]
  <2>1. Lines(b) \in 0..Lines(b) /\ n + 1 <= Lines(b) /\ At(b, Lines(b)) \in Nat
    BY <1>1, <1>2, SentNext
  <2>2. \A k \in 1..At(b, Lines(b)) : k <= Length(b) => k \in 1..Length(b)
    BY <1>1, <2>1
  <2> QED
    BY <1>4, <1>5, <2>1, <2>2
<1>6. ASSUME NEW m \in 0..Frames(b), Departs(b, m)
      PROVE  Goes(b, n) \/ Strays(b, n)
  <2>1. m \in 0..Lines(b) /\ m \in Nat /\ At(b, m) \in Nat
    BY <1>1, SentNext
  <2>2. CASE n < m
    <3>1. n + 1 <= m
      BY <1>2, <2>1, <2>2
    <3> QED
      BY <1>4, <1>6, <2>1, <3>1 DEF Departs, Matches
  <2>3. CASE n = m
    BY <1>6, <2>3, StraysThen
  <2>4. CASE m < n
    BY <1>2, <1>6, <2>4, DepartsForGood
  <2> QED
    BY <1>2, <2>1, <2>2, <2>3, <2>4
<1> QED
  BY <1>5, <1>6, CutOrStray

\* A piece that is there to its end.
LEMMA MatchesNext ==
    ASSUME NEW b \in Encoded, b.framed, NEW n \in 0..(Lines(b) - 1), Matches(b, n), Goes(b, n),
           At(b, n + 1) <= Length(b)
    PROVE  Matches(b, n + 1)
<1>1. Lines(b) \in Nat /\ Length(b) \in Nat
  BY Framed
<1>2. /\ At(b, n + 1) = At(b, n) + Len(Piece(b, n + 1)) /\ Len(Piece(b, n + 1)) \in Nat \ {0}
      /\ \A k \in 1..At(b, n) : Sent(b, n + 1)[k] = Sent(b, n)[k]
      /\ \A k \in 1..Len(Piece(b, n + 1)) : Sent(b, n + 1)[At(b, n) + k] = Piece(b, n + 1)[k]
      /\ At(b, n) \in Nat /\ At(b, n + 1) \in Nat
  BY <1>1, SentNext
<1>3. ASSUME NEW k \in 1..At(b, n + 1) PROVE b.bytes[k] = Sent(b, n + 1)[k]
  <2>1. CASE k <= At(b, n)
    <3>1. k \in 1..At(b, n)
      BY <1>2, <2>1
    <3> QED
      BY <1>2, <3>1 DEF Matches
  <2>2. CASE ~ (k <= At(b, n))
    <3> DEFINE j == k - At(b, n)
    <3>1. j \in 1..Len(Piece(b, n + 1)) /\ At(b, n) + j = k /\ At(b, n) + j <= Length(b)
      BY <1>1, <1>2, <2>2
    <3> HIDE DEF j
    <3>2. b.bytes[At(b, n) + j] = Piece(b, n + 1)[j] /\ Sent(b, n + 1)[At(b, n) + j] = Piece(b, n + 1)[j]
      BY <1>2, <3>1 DEF Goes
    <3> QED
      BY <3>1, <3>2
  <2> QED
    BY <2>1, <2>2
<1> QED
  BY <1>3 DEF Matches

\* A body that ends with a piece is whole.
LEMMA EndsWhole ==
    ASSUME NEW b \in Encoded, b.framed, NEW n \in 0..Lines(b), Matches(b, n),
           n = Lines(b) \/ Length(b) = At(b, n)
    PROVE  Length(b) = At(b, n) /\ Whole(b)
<1>1. /\ Frames(b) \in Nat /\ Trailers(b) \in Nat /\ Lines(b) = Frames(b) + Trailers(b) + 2
      /\ Length(b) \in Nat /\ b.bytes \in Seq(Byte) /\ Sent(b, n) \in Seq(Byte) /\ At(b, n) \in Nat
  BY Framed, SentNext
<1>2. Length(b) = At(b, n)
  <2> SUFFICES ASSUME n = Lines(b) PROVE Length(b) = At(b, n)
    OBVIOUS
  <2>1. ASSUME NEW m \in 0..Frames(b), Departs(b, m) PROVE FALSE
    <3>1. m < n
      BY <1>1
    <3> QED
      BY <2>1, <3>1, DepartsForGood
  <2>2. Length(b) <= At(b, n)
    BY <2>1, CutOrStray
  <2> QED
    BY <1>1, <2>2 DEF Matches
<1>3. b.bytes = Sent(b, n)
  BY <1>1, <1>2, SeqEqual DEF Matches, Length, At
<1> QED
  BY <1>2, <1>3 DEF Whole

\* The payloads of the first n frames.
Payloads(b, n) == FlattenSeq(SubSeq(b.frames, 1, n))

\* Such a body means the frames that are there.
LEMMA WholeFramesAre ==
    ASSUME NEW b \in Encoded, b.framed, NEW n \in 0..Lines(b), Length(b) = At(b, n)
    PROVE  WholeFrames(b) = Payloads(b, IF n <= Frames(b) THEN n ELSE Frames(b))
<1> DEFINE S == {m \in 0..Frames(b) : Len(Sent(b, m)) <= Len(b.bytes)}
           N == IF n <= Frames(b) THEN n ELSE Frames(b)
<1>1. /\ Frames(b) \in Nat /\ Trailers(b) \in Nat /\ Lines(b) = Frames(b) + Trailers(b) + 2
  BY Framed
<1>2. S = {m \in 0..Frames(b) : At(b, m) <= At(b, n)}
  BY DEF At, Length
<1>3. N \in 0..Frames(b) /\ N \in 0..Lines(b) /\ N <= n
  BY <1>1
<1>4. N \in S
  BY <1>2, <1>3, SentGrows
<1>5. ASSUME NEW m \in S PROVE m <= N
  <2>1. m \in 0..Lines(b) /\ m \in 0..Frames(b) /\ At(b, m) <= At(b, n)
    BY <1>1, <1>2
  <2>2. m <= n
    <3> SUFFICES ASSUME n < m PROVE FALSE
      BY <1>1, <2>1
    <3>1. At(b, n) < At(b, m) /\ At(b, n) \in Nat /\ At(b, m) \in Nat
      BY <1>1, <2>1, SentGrows
    <3> QED
      BY <2>1, <3>1
  <2> QED
    BY <1>1, <2>1, <2>2
<1>6. Max(S) = N
  <2>1. S \subseteq Nat
    BY <1>1
  <2> HIDE DEF S, N
  <2>2. Max(S) \in S /\ \A m \in S : Max(S) >= m
    <3>1. \E x \in S : \A y \in S : x >= y
      <4>1. \A y \in S : N >= y
        BY <1>4, <1>5, <2>1
      <4> QED
        BY <1>4, <4>1
    <3> QED
      BY <3>1 DEF Max
  <2> DEFINE most == Max(S)
  <2>3. most \in S /\ \A m \in S : most >= m
    BY <2>2
  <2> HIDE DEF most
  <2>4. most <= N /\ most >= N /\ most \in Nat /\ N \in Nat
    BY <1>4, <1>5, <2>1, <2>3
  <2>5. most = N
    BY <2>4
  <2> QED
    BY <2>5 DEF most
<1> QED
  BY <1>6 DEF WholeFrames, Payloads

\* The two parts a buffer is cut in.
LEMMA CutIs ==
    ASSUME NEW S, NEW buf \in Seq(S), NEW n \in Nat
    PROVE  /\ Taken(buf, n) \in Seq(S) /\ Rest(buf, n) \in Seq(S) /\ Len(buf) \in Nat
           /\ Len(Taken(buf, n)) = IF n < Len(buf) THEN n ELSE Len(buf)
           /\ Len(Rest(buf, n)) = IF n < Len(buf) THEN Len(buf) - n ELSE 0
           /\ \A i \in 1..Len(Taken(buf, n)) : Taken(buf, n)[i] = buf[i]
           /\ \A i \in 1..Len(Rest(buf, n)) : Rest(buf, n)[i] = buf[n + i]
           /\ buf = Taken(buf, n) \o Rest(buf, n)
<1> DEFINE upTo == Upto(buf, n)
           last == Len(buf)
<1>1. last \in Nat /\ \A i \in 1..last : buf[i] \in S
  BY ElementOfSeq, LenProperties
<1>2. Taken(buf, n) \in Seq(S) /\ Rest(buf, n) \in Seq(S)
  <2>1. n \in Int
    OBVIOUS
  <2> QED
    BY <2>1, CutTyped
<1>3. upTo \in 0..last /\ upTo = IF n < last THEN n ELSE last
  BY UptoIs
<1> HIDE DEF upTo, last
<1>4. Len(Taken(buf, n)) = upTo /\ \A i \in 1..upTo : Taken(buf, n)[i] = buf[i]
  <2>1. 1 \in Int /\ upTo \in Int /\ \A i \in 1..upTo : buf[i] \in S
    BY <1>1, <1>3
  <2>2. /\ Len(SubSeq(buf, 1, upTo)) = IF 1 <= upTo THEN upTo - 1 + 1 ELSE 0
        /\ \A i \in 1..(upTo - 1 + 1) : SubSeq(buf, 1, upTo)[i] = buf[1 + i - 1]
    BY <2>1, SubSeqProperties
  <2>3. Taken(buf, n) = SubSeq(buf, 1, upTo)
    BY DEF Taken, upTo
  <2>4. \A i \in 1..upTo : i \in 1..(upTo - 1 + 1) /\ 1 + i - 1 = i
    BY <1>1, <1>3
  <2> QED
    BY <1>1, <1>3, <2>2, <2>3, <2>4
<1>5. Len(Rest(buf, n)) = last - upTo /\ \A i \in 1..(last - upTo) : Rest(buf, n)[i] = buf[upTo + i]
  <2> DEFINE rest == SubSeq(buf, upTo + 1, last)
  <2>1. upTo + 1 \in Int /\ last \in Int /\ \A i \in (upTo + 1)..last : buf[i] \in S
    BY <1>1, <1>3
  <2>2. /\ Len(rest) = IF upTo + 1 <= last THEN last - (upTo + 1) + 1 ELSE 0
        /\ \A i \in 1..(last - (upTo + 1) + 1) : rest[i] = buf[(upTo + 1) + i - 1]
    BY <2>1, SubSeqProperties
  <2>3. Rest(buf, n) = rest
    BY DEF Rest, upTo, last
  <2> HIDE DEF rest
  <2>4. Len(rest) = last - upTo
    BY <1>1, <1>3, <2>2
  <2>5. \A i \in 1..(last - upTo) : i \in 1..(last - (upTo + 1) + 1) /\ (upTo + 1) + i - 1 = upTo + i
    BY <1>1, <1>3
  <2> QED
    BY <2>2, <2>3, <2>4, <2>5
<1>6. buf = Taken(buf, n) \o Rest(buf, n)
  <2>1. 1 \in 1..(last + 1) /\ upTo \in (1 - 1)..last /\ last \in upTo..last
    BY <1>1, <1>3
  <2>2. SubSeq(buf, 1, upTo) \o SubSeq(buf, upTo + 1, last) = SubSeq(buf, 1, last)
    BY <2>1, ConcatAdjacentSubSeq DEF last
  <2>3. SubSeq(buf, 1, last) = buf
    BY SubSeqFull DEF last
  <2> QED
    BY <2>2, <2>3 DEF Taken, Rest, upTo, last
<1>7. Len(Rest(buf, n)) = (IF n < last THEN last - n ELSE 0)
      /\ \A i \in 1..Len(Rest(buf, n)) : Rest(buf, n)[i] = buf[n + i]
  <2>1. CASE n < last
    BY <1>3, <1>5, <2>1
  <2>2. CASE ~ (n < last)
    BY <1>1, <1>3, <1>5, <2>2
  <2> QED
    BY <2>1, <2>2
<1> QED
  BY <1>1, <1>2, <1>3, <1>4, <1>6, <1>7 DEF last

------------------------------------------------------------------------------
(* Where the readers are in the body.                                       *)

\* How much of it is in neither buffer any more.
Consumed == arrived - Len(buffer) - Len(framed)

\* The buffers hold what comes next, in order, and nothing is missing.
Flow ==
    /\ arrived <= MaxBytes
    /\ exhausted => arrived = Length(body)
    /\ drained => exhausted /\ buffer = <<>>
    /\ Consumed >= 0
    /\ \A i \in 1..Len(framed) : framed[i] = body.bytes[Consumed + i]
    /\ \A i \in 1..Len(buffer) : buffer[i] = body.bytes[Consumed + Len(framed) + i]

\* Lengths are numbers.
LEMMA Numbers ==
    ReaderTypeOK =>
        /\ Len(buffer) \in Nat /\ Len(framed) \in Nat /\ Len(payload) \in Nat /\ arrived \in Nat
        /\ Length(body) \in Nat /\ arrived <= Length(body) /\ body.bytes \in Seq(Byte)
<1> SUFFICES ASSUME ReaderTypeOK
             PROVE  /\ Len(buffer) \in Nat /\ Len(framed) \in Nat /\ Len(payload) \in Nat
                    /\ arrived \in Nat /\ Length(body) \in Nat /\ arrived <= Length(body)
                    /\ body.bytes \in Seq(Byte)
  OBVIOUS
<1>1. body.bytes \in Seq(Byte) /\ arrived \in 0..Length(body)
  BY BodyAssumption DEF ReaderTypeOK, Length
<1>2. Length(body) \in Nat
  BY <1>1, LenProperties DEF Length
<1>3. Len(buffer) \in Nat /\ Len(framed) \in Nat /\ Len(payload) \in Nat
  BY LenProperties DEF ReaderTypeOK
<1> QED
  BY <1>1, <1>2, <1>3

\* The chunked reader takes bytes from its buffer.
LEMMA FlowTake ==
    ASSUME ReaderTypeOK, Flow, NEW n \in Nat, n <= Len(framed), framed' = Rest(framed, n),
           UNCHANGED <<wire, drained>>
    PROVE  Flow' /\ Consumed' = Consumed + n /\ body' = body
<1>1. /\ Len(framed') = Len(framed) - n
      /\ \A i \in 1..Len(framed') : framed'[i] = framed[n + i]
  <2>1. framed \in Seq(Byte)
    BY DEF ReaderTypeOK
  <2>2. /\ Len(framed) \in Nat
        /\ Len(Rest(framed, n)) = IF n < Len(framed) THEN Len(framed) - n ELSE 0
        /\ \A i \in 1..Len(Rest(framed, n)) : Rest(framed, n)[i] = framed[n + i]
    BY <2>1, CutIs
  <2> QED
    BY <2>2
<1>2. /\ Len(buffer) \in Nat /\ Len(framed) \in Nat /\ arrived \in Nat
  BY Numbers
<1>3. body' = body /\ arrived' = arrived /\ buffer' = buffer /\ exhausted' = exhausted /\ drained' = drained
  BY DEF wire
<1>4. Consumed' = Consumed + n /\ Consumed \in Nat
  BY <1>1, <1>2, <1>3 DEF Consumed, Flow
<1>5. ASSUME NEW i \in 1..Len(framed') PROVE framed'[i] = body.bytes[Consumed' + i]
  <2>1. n + i \in 1..Len(framed) /\ Consumed' + i = Consumed + (n + i)
    BY <1>1, <1>2, <1>4
  <2> QED
    BY <1>1, <2>1 DEF Flow
<1>6. ASSUME NEW i \in 1..Len(buffer) PROVE buffer[i] = body.bytes[Consumed' + Len(framed') + i]
  <2>1. Consumed' + Len(framed') + i = Consumed + Len(framed) + i
    BY <1>1, <1>2, <1>4
  <2> QED
    BY <2>1 DEF Flow
<1>7. Consumed' >= 0
  BY <1>4
<1> QED
  BY <1>3, <1>4, <1>5, <1>6, <1>7 DEF Flow

\* It gets what its source has.
LEMMA FlowFeed ==
    ASSUME ReaderTypeOK, Flow, Feed
    PROVE  Flow' /\ Consumed' = Consumed /\ body' = body
<1> DEFINE taken == Taken(buffer, Chunk)
<1>1. /\ body' = body /\ arrived' = arrived /\ exhausted' = exhausted
      /\ buffer' = Rest(buffer, Chunk) /\ framed' = framed \o taken /\ drained' = (buffer = <<>>)
  BY DEF Feed
<1>2. /\ Len(buffer) \in Nat /\ Len(framed) \in Nat /\ arrived \in Nat /\ Chunk \in Nat \ {0}
      /\ buffer \in Seq(Byte) /\ framed \in Seq(Byte)
  BY Numbers, LimitAssumption DEF ReaderTypeOK
<1>3. /\ taken \in Seq(Byte)
      /\ Len(taken) = IF Chunk < Len(buffer) THEN Chunk ELSE Len(buffer)
      /\ Len(buffer') = IF Chunk < Len(buffer) THEN Len(buffer) - Chunk ELSE 0
      /\ \A i \in 1..Len(taken) : taken[i] = buffer[i]
      /\ \A i \in 1..Len(buffer') : buffer'[i] = buffer[Chunk + i]
  BY <1>1, <1>2, CutIs
<1>4. /\ framed \o taken \in Seq(Byte) /\ Len(framed') = Len(framed) + Len(taken)
      /\ \A i \in 1..(Len(framed) + Len(taken)) :
           framed'[i] = IF i <= Len(framed) THEN framed[i] ELSE taken[i - Len(framed)]
  <2> HIDE DEF taken
  <2>1. /\ framed \o taken \in Seq(Byte) /\ Len(framed \o taken) = Len(framed) + Len(taken)
        /\ \A i \in 1..(Len(framed) + Len(taken)) :
             (framed \o taken)[i] = IF i <= Len(framed) THEN framed[i] ELSE taken[i - Len(framed)]
    BY <1>2, <1>3, ConcatProperties
  <2> QED
    BY <1>1, <2>1
<1> HIDE DEF taken
<1>5. Consumed' = Consumed /\ Consumed \in Nat
  BY <1>1, <1>2, <1>3, <1>4 DEF Consumed, Flow
<1>6. ASSUME NEW i \in 1..Len(framed') PROVE framed'[i] = body.bytes[Consumed' + i]
  <2>1. CASE i <= Len(framed)
    BY <1>2, <1>3, <1>4, <1>5, <2>1 DEF Flow
  <2>2. CASE ~ (i <= Len(framed))
    <3> DEFINE j == i - Len(framed)
    <3>1. /\ j \in 1..Len(taken) /\ j \in 1..Len(buffer) /\ Consumed + Len(framed) + j = Consumed' + i
          /\ i \in 1..(Len(framed) + Len(taken))
      BY <1>2, <1>3, <1>4, <1>5, <2>2
    <3>2. framed'[i] = taken[j]
      BY <1>4, <2>2, <3>1
    <3> HIDE DEF j
    <3>3. taken[j] = buffer[j] /\ buffer[j] = body.bytes[Consumed + Len(framed) + j]
      BY <1>3, <3>1 DEF Flow
    <3> QED
      BY <3>1, <3>2, <3>3
  <2> QED
    BY <2>1, <2>2
<1>7. ASSUME NEW i \in 1..Len(buffer') PROVE buffer'[i] = body.bytes[Consumed' + Len(framed') + i]
  <2>1. /\ Chunk + i \in 1..Len(buffer)
        /\ Consumed' + Len(framed') + i = Consumed + Len(framed) + (Chunk + i)
    BY <1>2, <1>3, <1>4, <1>5
  <2> QED
    BY <1>3, <2>1 DEF Flow
<1>8. drained' => exhausted' /\ buffer' = <<>>
  <2> SUFFICES ASSUME buffer = <<>> PROVE exhausted /\ buffer' = <<>>
    BY <1>1
  <2>1. Len(buffer) = 0
    BY EmptySeq
  <2>2. exhausted
    BY <1>2, <2>1 DEF Feed, Incomplete
  <2>3. buffer' \in Seq(Byte) /\ Len(buffer') = 0
    BY <1>1, <1>2, <1>3, <2>1, CutIs
  <2> QED
    BY <2>2, <2>3, EmptySeq
<1> QED
  BY <1>1, <1>5, <1>6, <1>7, <1>8 DEF Flow

\* More of the body arrives.
LEMMA FlowReceive ==
    ASSUME ReaderTypeOK, Flow, NEW n \in 1..Length(body), Receive(n), ~ TooLarge(n)
    PROVE  Flow' /\ Consumed' = Consumed /\ body' = body
<1> DEFINE piece == SubSeq(body.bytes, arrived + 1, arrived + n)
<1>1. /\ body' = body /\ arrived' = arrived + n /\ exhausted' = exhausted /\ ~ exhausted
      /\ buffer' = buffer \o piece /\ framed' = framed /\ drained' = drained
      /\ arrived + n <= Length(body)
  BY DEF Receive, decoder, Length, Incomplete
<1>2. /\ Len(buffer) \in Nat /\ Len(framed) \in Nat /\ arrived \in Nat /\ n \in Nat
      /\ Length(body) \in Nat /\ body.bytes \in Seq(Byte) /\ buffer \in Seq(Byte)
  BY Numbers DEF ReaderTypeOK
<1>3. /\ piece \in Seq(Byte) /\ Len(piece) = n
      /\ \A i \in 1..n : piece[i] = body.bytes[arrived + i]
  <2>1. \A i \in 1..Length(body) : body.bytes[i] \in Byte
    BY <1>2, ElementOfSeq DEF Length
  <2>2. \A i \in (arrived + 1)..(arrived + n) : body.bytes[i] \in Byte
    BY <1>1, <1>2, <2>1
  <2>3. arrived + 1 \in Int /\ arrived + n \in Int
    BY <1>2
  <2>4. /\ piece \in Seq(Byte)
        /\ Len(piece) = IF arrived + 1 <= arrived + n THEN (arrived + n) - (arrived + 1) + 1 ELSE 0
        /\ \A i \in 1..((arrived + n) - (arrived + 1) + 1) :
             piece[i] = body.bytes[(arrived + 1) + i - 1]
    BY <2>2, <2>3, SubSeqProperties
  <2> HIDE DEF piece
  <2>5. \A i \in 1..n : i \in 1..((arrived + n) - (arrived + 1) + 1) /\ (arrived + 1) + i - 1 = arrived + i
    BY <1>2
  <2>6. Len(piece) = n
    BY <1>2, <2>4
  <2> QED
    BY <2>4, <2>5, <2>6
<1>4. /\ Len(buffer') = Len(buffer) + n
      /\ \A i \in 1..(Len(buffer) + n) :
           buffer'[i] = IF i <= Len(buffer) THEN buffer[i] ELSE piece[i - Len(buffer)]
  BY <1>1, <1>2, <1>3, ConcatProperties
<1> HIDE DEF piece
<1>5. Consumed' = Consumed /\ Consumed \in Nat /\ Consumed + Len(framed) + Len(buffer) = arrived
  BY <1>1, <1>2, <1>4 DEF Consumed, Flow
<1>6. ASSUME NEW i \in 1..Len(buffer') PROVE buffer'[i] = body.bytes[Consumed + Len(framed) + i]
  <2>0. i \in 1..(Len(buffer) + n)
    BY <1>4
  <2>1. CASE i <= Len(buffer)
    <3>1. i \in 1..Len(buffer) /\ buffer'[i] = buffer[i]
      BY <1>2, <1>4, <2>0, <2>1
    <3> QED
      BY <3>1 DEF Flow
  <2>2. CASE ~ (i <= Len(buffer))
    <3> DEFINE j == i - Len(buffer)
    <3>1. j \in 1..n /\ Consumed + Len(framed) + i = arrived + j
      BY <1>2, <1>5, <2>0, <2>2
    <3>2. buffer'[i] = piece[j]
      BY <1>4, <2>0, <2>2
    <3> HIDE DEF j
    <3> QED
      BY <1>3, <3>1, <3>2
  <2> QED
    BY <2>1, <2>2
<1>7. arrived + n <= MaxBytes
  BY <1>2, LimitAssumption DEF TooLarge
<1> QED
  BY <1>1, <1>5, <1>6, <1>7 DEF Flow

\* The network says that there is no more.
LEMMA FlowEnd ==
    ASSUME ReaderTypeOK, Flow, EndOfBody
    PROVE  Flow' /\ Consumed' = Consumed /\ body' = body
<1>1. /\ body' = body /\ arrived' = arrived /\ buffer' = buffer /\ framed' = framed
      /\ drained' = drained /\ arrived = Length(body) /\ exhausted'
  BY DEF EndOfBody, decoder, Length
<1>2. Consumed' = Consumed
  BY <1>1 DEF Consumed
<1> QED
  BY <1>1, <1>2 DEF Flow

\* Where a piece ends.
LEMMA NextAt ==
    ASSUME NEW b \in Encoded, b.framed, NEW n \in 0..(Lines(b) - 1)
    PROVE  /\ At(b, n) \in Nat /\ At(b, n + 1) \in Nat /\ Len(Line(b, n + 1)) \in Nat
           /\ n < Frames(b) =>
                /\ At(b, n + 1) = At(b, n) + Len(Line(b, n + 1)) + 2 + Size(b, n + 1) + 2
                /\ Size(b, n + 1) \in Nat \ {0}
           /\ ~ (n < Frames(b)) => At(b, n + 1) = At(b, n) + Len(Line(b, n + 1)) + 2
<1>1. /\ Frames(b) \in Nat /\ Trailers(b) \in Nat /\ Lines(b) = Frames(b) + Trailers(b) + 2
      /\ \A i \in 1..Frames(b) : Size(b, i) \in Nat \ {0}
  BY Framed
<1>2. n + 1 \in 1..Lines(b) /\ n \in 0..Lines(b) /\ n + 1 \in 0..Lines(b) /\ n \in Nat
  BY <1>1
<1>3. /\ At(b, n + 1) = At(b, n) + Len(Piece(b, n + 1))
      /\ At(b, n) \in Nat /\ At(b, n + 1) \in Nat
  BY <1>2, SentNext
<1>4. /\ Len(Line(b, n + 1)) \in Nat
      /\ ~ (n + 1 <= Frames(b)) => Len(Piece(b, n + 1)) = Len(Line(b, n + 1)) + 2
      /\ n + 1 <= Frames(b) => Len(Piece(b, n + 1)) = Len(Line(b, n + 1)) + 2 + Size(b, n + 1) + 2
  BY <1>2, PieceIs
<1>5. ASSUME n < Frames(b)
      PROVE  /\ At(b, n + 1) = At(b, n) + Len(Line(b, n + 1)) + 2 + Size(b, n + 1) + 2
             /\ Size(b, n + 1) \in Nat \ {0}
  <2>1. n + 1 <= Frames(b) /\ n + 1 \in 1..Frames(b)
    BY <1>1, <1>2, <1>5
  <2>2. Size(b, n + 1) \in Nat \ {0}
    BY <1>1, <2>1
  <2>3. Len(Piece(b, n + 1)) = Len(Line(b, n + 1)) + 2 + Size(b, n + 1) + 2
    BY <1>4, <2>1
  <2> DEFINE size == Size(b, n + 1)
             line == Len(Line(b, n + 1))
             piece == Len(Piece(b, n + 1))
  <2>4. piece = line + 2 + size + 2 /\ size \in Nat \ {0} /\ line \in Nat /\ At(b, n + 1) = At(b, n) + piece
    BY <1>3, <1>4, <2>2, <2>3
  <2> HIDE DEF size, line, piece
  <2>5. At(b, n + 1) = At(b, n) + line + 2 + size + 2
    BY <1>3, <2>4
  <2> QED
    BY <2>2, <2>5 DEF size, line
<1>6. ASSUME ~ (n < Frames(b)) PROVE At(b, n + 1) = At(b, n) + Len(Line(b, n + 1)) + 2
  <2>1. ~ (n + 1 <= Frames(b))
    BY <1>1, <1>2, <1>6
  <2> QED
    BY <1>3, <1>4, <2>1
<1> QED
  BY <1>3, <1>4, <1>5, <1>6

\* One frame more.
LEMMA PayloadsNext ==
    ASSUME NEW b \in Encoded, b.framed
    PROVE  /\ Payloads(b, 0) = <<>>
           /\ \A n \in 0..Frames(b) : Payloads(b, n) \in Seq(Byte)
           /\ \A n \in 0..(Frames(b) - 1) : Payloads(b, n + 1) = Payloads(b, n) \o Frame(b, n + 1)
<1>1. b.frames \in Seq(Seq(Byte)) /\ Frames(b) \in Nat
  BY Framed DEF Encoded, IsEncoded, Sized
<1>2. ASSUME NEW n \in Nat, n < Frames(b)
      PROVE  /\ Payloads(b, 0) = <<>> /\ Payloads(b, n) \in Seq(Byte)
             /\ Payloads(b, n + 1) = Payloads(b, n) \o Frame(b, n + 1)
  BY <1>1, <1>2, FlattenNext DEF Payloads, Frame, Frames
<1>3. Payloads(b, Frames(b)) \in Seq(Byte)
  BY <1>1, SubSeqFull, FlattenTyped DEF Payloads, Frames
<1>4. Payloads(b, 0) = <<>>
  <2>1. CASE Frames(b) = 0
    <3>1. SubSeq(b.frames, 1, 0) = <<>>
      BY SubSeqEmpty
    <3> QED
      BY <3>1 DEF Payloads, FlattenSeq
  <2>2. CASE 0 < Frames(b)
    BY <1>2, <2>2
  <2> QED
    BY <1>1, <2>1, <2>2
<1>5. ASSUME NEW n \in 0..Frames(b) PROVE Payloads(b, n) \in Seq(Byte)
  <2>1. n \in Nat /\ (n = Frames(b) \/ n < Frames(b))
    BY <1>1
  <2> QED
    BY <1>2, <1>3, <2>1
<1>6. ASSUME NEW n \in 0..(Frames(b) - 1)
      PROVE  Payloads(b, n + 1) = Payloads(b, n) \o Frame(b, n + 1)
  <2>1. n \in Nat /\ n < Frames(b)
    BY <1>1
  <2> QED
    BY <1>2, <2>1
<1> QED
  BY <1>4, <1>5, <1>6

\* What is in the buffers is less than what the client sends.
LEMMA InBody ==
    ASSUME ReaderTypeOK, Flow
    PROVE  /\ Consumed \in Nat /\ Consumed + Len(framed) <= Length(body)
           /\ drained => Consumed + Len(framed) = Length(body)
<1>1. /\ Len(buffer) \in Nat /\ Len(framed) \in Nat /\ arrived \in Nat
      /\ Length(body) \in Nat /\ arrived <= Length(body)
  BY Numbers
<1>2. Consumed \in Nat /\ Consumed + Len(framed) + Len(buffer) = arrived
  BY <1>1 DEF Consumed, Flow
<1>3. drained => Len(buffer) = 0 /\ arrived = Length(body)
  BY EmptySeq DEF Flow
<1> QED
  BY <1>1, <1>2, <1>3

\* The bytes of a piece, as far as they are in the buffer.
LEMMA PieceInBuffer ==
    ASSUME ReaderTypeOK, body \in Encoded, Flow, body.framed, NEW m \in 0..(Lines(body) - 1), Goes(body, m),
           NEW i \in Nat, Consumed = At(body, m) + i,
           NEW k \in Nat, k \in 1..Len(framed), i + k <= Len(Piece(body, m + 1))
    PROVE  framed[k] = Piece(body, m + 1)[i + k]
<1>1. body \in Encoded
  BY DEF ReaderTypeOK
<1>2. /\ At(body, m) \in Nat /\ Length(body) \in Nat /\ Len(framed) \in Nat
  BY <1>1, NextAt, Numbers
<1>3. Consumed + k <= Length(body)
  BY <1>2, InBody
<1>4. Len(Piece(body, m + 1)) \in Nat
  BY <1>1, SentNext
<1>5. i + k \in 1..Len(Piece(body, m + 1)) /\ At(body, m) + (i + k) <= Length(body)
      /\ At(body, m) + (i + k) = Consumed + k
  BY <1>2, <1>3, <1>4
<1>6. framed[k] = body.bytes[Consumed + k]
  BY DEF Flow
<1>7. body.bytes[At(body, m) + (i + k)] = Piece(body, m + 1)[i + k]
  BY <1>5 DEF Goes
<1> QED
  BY <1>5, <1>6, <1>7

\* The first line in the buffer, if what is there is a line and its end.
LEMMA LineIn ==
    ASSUME framed \in Seq(Byte), NEW line \in Seq(Byte), OneLine(line), NEW piece,
           Follows(piece, line, Len(line) + 2),
           \A k \in 1..Len(framed) : k <= Len(line) + 2 => framed[k] = piece[k]
    PROVE  /\ LineEnds = {} => Len(framed) < Len(line) + 2
           /\ LineEnds # {} =>
                /\ LineEnd = Len(line) + 1 /\ Len(line) + 2 <= Len(framed)
                /\ SubSeq(framed, 1, LineEnd - 1) = line
<1>1. framed \in Seq(Byte) /\ Len(framed) \in Nat
  BY LenProperties
<1>2. Len(line) \in Nat
  BY LenProperties
<1>3. /\ Len(line) \in Nat /\ line \in Seq(Byte) /\ OneLine(line)
      /\ \A k \in 1..Len(line) : piece[k] = line[k]
      /\ piece[Len(line) + 1] = CR /\ piece[Len(line) + 2] = LF
  <2>1. \A k \in 1..Len(line) : k <= Len(line) + 2
    BY <1>2
  <2>2. Len(line) + 1 <= Len(line) + 2 /\ Len(line) + 2 <= Len(line) + 2
    BY <1>2
  <2> QED
    BY <1>2, <2>1, <2>2 DEF Follows
<1>4. ASSUME NEW k \in 1..Len(framed), k <= Len(line) + 2 PROVE framed[k] = piece[k]
  BY <1>4
<1>5. ASSUME NEW i \in LineEnds PROVE Len(line) + 1 <= i
  <2> SUFFICES ASSUME i <= Len(line) PROVE FALSE
    BY <1>1, <1>3 DEF LineEnds
  <2>1. /\ i \in 1..Len(framed) /\ i + 1 \in 1..Len(framed) /\ framed[i] = CR /\ framed[i + 1] = LF
        /\ i \in Nat
    BY <1>1 DEF LineEnds
  <2>2. piece[i] = CR /\ piece[i + 1] = LF
    BY <1>3, <1>4, <2>1
  <2>3. line[i] = CR
    BY <1>3, <2>1, <2>2
  <2>4. CASE i = Len(line)
    BY <1>3, <2>2, <2>4, CrIsNotLf
  <2>5. CASE i < Len(line)
    <3>1. i \in 1..(Len(line) - 1) /\ i + 1 \in 1..Len(line)
      BY <1>3, <2>1, <2>5
    <3> QED
      BY <1>3, <2>2, <2>3, <3>1 DEF OneLine
  <2> QED
    BY <1>3, <2>1, <2>4, <2>5
<1>6. ASSUME Len(line) + 2 <= Len(framed) PROVE Len(line) + 1 \in LineEnds
  <2>1. /\ Len(line) + 1 \in 1..(Len(framed) - 1) /\ Len(line) + 1 \in 1..Len(framed)
        /\ (Len(line) + 1) + 1 \in 1..Len(framed) /\ (Len(line) + 1) + 1 = Len(line) + 2
    BY <1>1, <1>3, <1>6
  <2>2. framed[Len(line) + 1] = CR /\ framed[(Len(line) + 1) + 1] = LF
    BY <1>3, <1>4, <2>1
  <2> QED
    BY <2>1, <2>2 DEF LineEnds
<1>7. LineEnds = {} => Len(framed) < Len(line) + 2
  BY <1>1, <1>3, <1>6
<1>8. ASSUME LineEnds # {}
      PROVE  /\ LineEnd = Len(line) + 1 /\ Len(line) + 2 <= Len(framed)
             /\ SubSeq(framed, 1, LineEnd - 1) = line
  <2>1. LineEnds \in SUBSET Nat
    BY <1>1 DEF LineEnds
  <2>2. \E i \in LineEnds : \A j \in LineEnds : i <= j
    BY <1>8, <2>1, LeastNatural
  <2>3. LineEnd \in LineEnds /\ \A j \in LineEnds : LineEnd <= j
    BY <2>2 DEF LineEnd
  <2>4. LineEnd \in 1..(Len(framed) - 1) /\ Len(line) + 1 <= LineEnd
    BY <1>5, <2>3 DEF LineEnds
  <2>5. Len(line) + 2 <= Len(framed)
    BY <1>1, <1>3, <2>4
  <2>6. LineEnd = Len(line) + 1
    BY <1>1, <1>3, <1>6, <2>3, <2>4, <2>5
  <2>7. LineEnd - 1 = Len(line)
    BY <1>3, <2>6
  <2>8. SubSeq(framed, 1, Len(line)) = line
    <3> DEFINE n == Len(line)
               front == SubSeq(framed, 1, n)
    <3>1. n \in Int /\ n \in Nat /\ \A i \in 1..n : framed[i] \in Byte
      <4>1. \A i \in 1..Len(framed) : framed[i] \in Byte
        BY <1>1, ElementOfSeq
      <4> QED
        BY <1>1, <1>3, <2>5, <4>1
    <3>2. /\ front \in Seq(Byte) /\ Len(front) = IF 1 <= n THEN n - 1 + 1 ELSE 0
          /\ \A i \in 1..(n - 1 + 1) : front[i] = framed[1 + i - 1]
      BY <3>1, SubSeqProperties
    <3> HIDE DEF front
    <3>3. Len(front) = n
      BY <3>1, <3>2
    <3>4. ASSUME NEW i \in 1..n PROVE front[i] = line[i]
      <4>1. i \in 1..(n - 1 + 1) /\ 1 + i - 1 = i /\ i \in 1..Len(framed) /\ i <= Len(line) + 2
        BY <1>1, <2>5, <3>1
      <4>2. framed[i] = piece[i] /\ piece[i] = line[i]
        BY <1>3, <1>4, <4>1
      <4> QED
        BY <3>2, <4>1, <4>2
    <3>5. front = line
      BY <1>3, <3>2, <3>3, <3>4, SeqEqual
    <3> QED
      BY <3>5 DEF front
  <2> QED
    BY <2>5, <2>6, <2>7, <2>8
<1> QED
  BY <1>7, <1>8

\* The first line in the buffer is the one that was sent.
LEMMA LineFound ==
    ASSUME ReaderTypeOK, body \in Encoded, Flow, body.framed, NEW m \in 0..(Lines(body) - 1), Goes(body, m),
           Consumed = At(body, m)
    PROVE  LET line == Line(body, m + 1)
           IN  /\ LineEnds = {} => Len(framed) < Len(line) + 2
               /\ LineEnds # {} =>
                    /\ LineEnd = Len(line) + 1 /\ Len(line) + 2 <= Len(framed)
                    /\ SubSeq(framed, 1, LineEnd - 1) = line
<1> DEFINE line == Line(body, m + 1)
           piece == Piece(body, m + 1)
<1>1. body \in Encoded /\ Lines(body) \in Nat /\ framed \in Seq(Byte) /\ Len(framed) \in Nat
  BY Framed, Numbers DEF ReaderTypeOK
<1>2. m + 1 \in 1..Lines(body)
  BY <1>1
<1>3. /\ Len(line) \in Nat /\ line \in Seq(Byte) /\ OneLine(line)
      /\ \A k \in 1..Len(line) : piece[k] = line[k]
      /\ piece[Len(line) + 1] = CR /\ piece[Len(line) + 2] = LF
  BY <1>1, <1>2, PieceIs, LineIs
<1>4. Len(piece) \in Nat /\ Len(line) + 2 <= Len(piece)
  <2>1. /\ ~ (m + 1 <= Frames(body)) => Len(piece) = Len(line) + 2
        /\ m + 1 <= Frames(body) => Len(piece) = Len(line) + 2 + Size(body, m + 1) + 2
    BY <1>1, <1>2, PieceIs
  <2>2. m + 1 <= Frames(body) => Size(body, m + 1) \in Nat
    BY <1>1, <1>2, Framed
  <2> QED
    BY <1>3, <2>1, <2>2
<1> HIDE DEF line, piece
<1>5. ASSUME NEW k \in 1..Len(framed), k <= Len(line) + 2 PROVE framed[k] = piece[k]
  <2>1. Consumed = At(body, m) + 0 /\ At(body, m) \in Nat
    BY <1>1, NextAt
  <2>2. k \in Nat /\ 0 + k = k /\ 0 + k <= Len(piece)
    BY <1>1, <1>3, <1>4, <1>5
  <2> QED
    BY <2>1, <2>2, PieceInBuffer DEF piece
<1>6. Follows(piece, line, Len(line) + 2)
  BY <1>3 DEF Follows
<1>7. /\ LineEnds = {} => Len(framed) < Len(line) + 2
      /\ LineEnds # {} =>
           /\ LineEnd = Len(line) + 1 /\ Len(line) + 2 <= Len(framed)
           /\ SubSeq(framed, 1, LineEnd - 1) = line
  BY <1>1, <1>3, <1>5, <1>6, LineIn
<1> QED
  BY <1>7 DEF line

\* Where a body strays, no size is found.
LEMMA StrayFound ==
    ASSUME ReaderTypeOK, body \in Encoded, Flow, body.framed, NEW m \in 0..(Lines(body) - 1), Strays(body, m),
           Consumed = At(body, m), LineEnds # {}
    PROVE  SubSeq(framed, 1, LineEnd - 1) # <<>> /\ ~ HasSize(SubSeq(framed, 1, LineEnd - 1))
<1> DEFINE stray == body.stray
           s == Len(stray)
<1>1. /\ framed \in Seq(Byte) /\ Len(framed) \in Nat /\ body \in Encoded
      /\ Length(body) \in Nat /\ At(body, m) \in Nat
  BY Numbers, NextAt DEF ReaderTypeOK
<1>2. /\ stray \in Seq(Byte) /\ OneLine(stray) /\ stray # <<>>
      /\ \A k \in 1..(s + 2) :
           At(body, m) + k <= Length(body) => body.bytes[At(body, m) + k] = Detour(body)[k]
      /\ ~ HasSize(stray) \/ Length(body) = At(body, m) + s
  BY DEF Strays, Departs
<1>3. /\ s \in Nat /\ \A k \in 1..s : Detour(body)[k] = stray[k]
      /\ Detour(body)[s + 1] = CR /\ Detour(body)[s + 2] = LF
  BY <1>2, DetourIs
<1>4. Consumed \in Nat /\ Consumed + Len(framed) <= Length(body)
  BY InBody
<1> HIDE DEF stray
<1>5. ASSUME NEW k \in 1..Len(framed), k <= Len(stray) + 2 PROVE framed[k] = Detour(body)[k]
  <2>1. k \in 1..(s + 2) /\ At(body, m) + k <= Length(body)
    BY <1>1, <1>3, <1>4, <1>5
  <2>2. framed[k] = body.bytes[Consumed + k]
    BY DEF Flow
  <2> QED
    BY <1>2, <2>1, <2>2
<1>6. Follows(Detour(body), stray, Len(stray) + 2)
  BY <1>3 DEF Follows
<1>7. Len(stray) + 2 <= Len(framed) /\ SubSeq(framed, 1, LineEnd - 1) = stray
  BY <1>1, <1>2, <1>5, <1>6, LineIn
<1>8. Length(body) # At(body, m) + s
  BY <1>1, <1>3, <1>4, <1>7
<1> QED
  BY <1>2, <1>7, <1>8

------------------------------------------------------------------------------
(* The readers decode.                                                      *)

\* m pieces are decoded, out is what was in them, and where the reader is in the next:
\* before its size, in its payload, before the CRLF after it; in the trailer; at the end.
AtSize(m, out) ==
    /\ mode = "header" /\ ~ finished /\ m <= Frames(body)
    /\ Consumed = At(body, m) /\ out = Payloads(body, m)

AtPayload(m, out) ==
    /\ mode = "payload" /\ ~ finished /\ m < Frames(body) /\ Goes(body, m)
    /\ Consumed = At(body, m) + (Len(Line(body, m + 1)) + 2)
    /\ need = Size(body, m + 1) /\ out = Payloads(body, m)

AtCrlf(m, out) ==
    /\ mode = "crlf" /\ ~ finished /\ m < Frames(body) /\ Goes(body, m)
    /\ Consumed + 2 = At(body, m + 1)
    /\ need = 2 /\ out = Payloads(body, m + 1)

InTrailer(m, out) ==
    /\ mode = "trailer" /\ ~ finished /\ Frames(body) < m /\ m < Lines(body)
    /\ Consumed = At(body, m) /\ out = Payloads(body, Frames(body))

AtEnd(m, out) ==
    /\ mode = "header" /\ finished
    /\ Consumed = At(body, m) /\ Length(body) = At(body, m)
    /\ out = Payloads(body, IF m <= Frames(body) THEN m ELSE Frames(body))

Place(m, out) ==
    /\ Matches(body, m)
    /\ AtSize(m, out) \/ AtPayload(m, out) \/ AtCrlf(m, out) \/ InTrailer(m, out) \/ AtEnd(m, out)

\* Why a body may be refused.
Justified == ~ Whole(body) \/ Long(body) \/ Length(body) > MaxBytes

\* The caller has got done so far.
Decoded(done) ==
    IF body.framed
      THEN \E m \in 0..Lines(body) : Place(m, done \o payload)
      ELSE framed = <<>> /\ Len(done) = Consumed /\ \A k \in 1..Len(done) : done[k] = body.bytes[k]

Reading(done) ==
    /\ call \in {"none", "reading"} => Flow /\ Decoded(done)
    /\ call = "refused" => Justified

\* And nothing is left.
Over == IF body.framed THEN mode = "header" /\ finished /\ payload = <<>>
                       ELSE exhausted /\ buffer = <<>>

\* A body that has its last frame ends where a line could begin.
LEMMA CompleteIsWhole ==
    ASSUME NEW b \in Encoded, Complete(b)
    PROVE  Whole(b)
<1>1. CASE b.framed
  <2>1. PICK n \in (Frames(b) + 1)..Lines(b) : b.bytes = Sent(b, n)
    BY <1>1 DEF Complete
  <2>2. Frames(b) \in Nat /\ Trailers(b) \in Nat /\ Lines(b) = Frames(b) + Trailers(b) + 2
    BY <1>1, Framed
  <2>3. n \in 0..Lines(b)
    BY <2>2
  <2> QED
    BY <2>1, <2>3 DEF Whole
<1>2. CASE ~ b.framed
  BY <1>2 DEF Whole
<1> QED
  BY <1>1, <1>2

\* What is refused is refused for a reason.
LEMMA Refusing ==
    ASSUME NEW done, Refuse, Justified, body' = body
    PROVE  Reading(done)' /\ call' # "none"
BY DEF Refuse, Reading, Justified

\* A line is read.
LEMMA ReadLineDecodes ==
    ASSUME ReaderTypeOK, body \in Encoded, NEW done, call = "reading", Flow, Decoded(done), ReadLine
    PROVE  Reading(done)' /\ call' # "none"
<1> DEFINE line == SubSeq(framed, 1, LineEnd - 1)
           out == done \o payload
<1>1. /\ body.framed /\ body \in Encoded /\ LineEnds # {} /\ ~ Satisfied
      /\ mode \in {"header", "trailer"} /\ framed' = Rest(framed, LineEnd + 1)
      /\ body' = body /\ payload' = payload /\ UNCHANGED <<wire, drained>>
  BY DEF ReadLine, InLine, Decoding, ReaderTypeOK, wire
<1>2. /\ Frames(body) \in Nat /\ Trailers(body) \in Nat
      /\ Lines(body) = Frames(body) + Trailers(body) + 2 /\ Length(body) \in Nat
      /\ Len(framed) \in Nat
  BY <1>1, Framed, Numbers
<1>3. PICK m \in 0..Lines(body) : Place(m, out)
  BY <1>1 DEF Decoded
<1> HIDE DEF out
<1>4. Matches(body, m) /\ m \in Nat
  BY <1>3 DEF Place
<1>5. AtSize(m, out) \/ InTrailer(m, out)
  BY <1>1, <1>3 DEF Place, AtPayload, AtCrlf, AtEnd, Satisfied
<1>6. m \in 0..(Lines(body) - 1) /\ Consumed = At(body, m) /\ ~ finished
  BY <1>2, <1>5 DEF AtSize, InTrailer
<1>7. Goes(body, m) \/ Strays(body, m)
  BY <1>1, <1>4, <1>6, Continues
<1>8. CASE Strays(body, m)
  <2>1. line # <<>> /\ ~ HasSize(line)
    BY <1>1, <1>6, <1>8, StrayFound
  <2>2. mode = "header"
    BY <1>2, <1>4, <1>5, <1>8 DEF AtSize, InTrailer, Strays
  <2>3. Refuse
    BY <2>1, <2>2 DEF ReadLine
  <2>4. Justified
    BY <1>8 DEF Strays, Justified
  <2> QED
    BY <1>1, <2>3, <2>4, Refusing
<1>9. CASE Goes(body, m)
  <2> DEFINE L == Len(Line(body, m + 1))
  <2>1. LineEnd = L + 1 /\ L + 2 <= Len(framed) /\ line = Line(body, m + 1)
    BY <1>1, <1>6, <1>9, LineFound
  <2> HIDE DEF line
  <2>2. m + 1 \in 1..Lines(body) /\ m + 1 \in 0..Lines(body)
    BY <1>2, <1>6
  <2>3. L \in Nat /\ At(body, m) \in Nat /\ At(body, m + 1) \in Nat
    BY <1>1, <1>6, NextAt
  <2>4. /\ m <= Frames(body) =>
             line # <<>> /\ HasSize(line) /\ FrameSize(line) = Size(body, m + 1)
        /\ line = <<>> <=> m + 1 = Lines(body)
    <3>1. m + 1 <= Frames(body) + 1 <=> m <= Frames(body)
      BY <1>2, <1>4
    <3>2. /\ m + 1 <= Frames(body) + 1 =>
               HasSize(Line(body, m + 1)) /\ FrameSize(Line(body, m + 1)) = Size(body, m + 1)
          /\ Line(body, m + 1) = <<>> <=> m + 1 = Lines(body)
      BY <1>1, <2>2, LineIs
    <3>3. m <= Frames(body) => m + 1 # Lines(body)
      BY <1>2, <1>4
    <3> QED
      BY <2>1, <3>1, <3>2, <3>3
  <2>5. Flow' /\ Consumed' = At(body, m) + (L + 2)
    <3>1. LineEnd + 1 \in Nat /\ LineEnd + 1 <= Len(framed) /\ LineEnd + 1 = L + 2
      BY <1>2, <2>1, <2>3
    <3>2. Flow' /\ Consumed' = Consumed + (LineEnd + 1)
      BY <1>1, <3>1, FlowTake
    <3> QED
      BY <1>6, <3>1, <3>2
  <2> HIDE DEF L
  <2>6. (done \o payload)' = out
    BY <1>1 DEF out
  <2>7. ASSUME ~ (m < Frames(body)), UNCHANGED <<call, data>>
        PROVE  Matches(body, m + 1) /\ Consumed' = At(body, m + 1)
    <3>1. Consumed' = At(body, m + 1)
      BY <1>1, <1>6, <2>5, <2>7, NextAt DEF L
    <3>2. At(body, m + 1) <= Length(body)
      <4>1. Consumed + (L + 2) <= Length(body)
        BY <1>1, <1>2, <1>6, <2>1, <2>3, InBody
      <4> QED
        BY <1>6, <2>5, <3>1, <4>1
    <3> QED
      BY <1>1, <1>4, <1>6, <1>9, <3>1, <3>2, MatchesNext
  <2>8. CASE AtSize(m, out)
    <3>1. mode = "header" /\ m <= Frames(body) /\ out = Payloads(body, m)
      BY <2>8 DEF AtSize
    <3>2. CASE m < Frames(body)
      <4>1. Size(body, m + 1) > 0
        <5>1. Size(body, m + 1) \in Nat \ {0}
          BY <1>1, <1>6, <3>2, NextAt
        <5> QED
          BY <5>1
      <4>2. mode' = "payload" /\ need' = Size(body, m + 1) /\ finished' = finished /\ call' = call
        BY <2>4, <3>1, <4>1 DEF ReadLine, line
      <4>3. AtPayload(m, done \o payload)'
        BY <1>1, <1>6, <1>9, <2>5, <2>6, <3>1, <3>2, <4>2 DEF AtPayload, L
      <4> QED
        BY <1>1, <1>3, <1>4, <2>5, <4>2, <4>3 DEF Reading, Decoded, Place
    <3>3. CASE m = Frames(body)
      <4>1. Size(body, m + 1) = 0
        BY <1>2, <3>3 DEF Size
      <4>2. mode' = "trailer" /\ finished' = finished /\ UNCHANGED <<call, data>>
        BY <2>4, <3>1, <4>1 DEF ReadLine, line
      <4>3. Matches(body, m + 1) /\ Consumed' = At(body, m + 1)
        BY <1>2, <2>7, <3>3, <4>2
      <4>4. Frames(body) < m + 1 /\ m + 1 < Lines(body)
        BY <1>2, <3>3
      <4>5. InTrailer(m + 1, done \o payload)'
        BY <1>1, <1>6, <2>6, <3>1, <3>3, <4>2, <4>3, <4>4 DEF InTrailer
      <4> QED
        BY <1>1, <2>2, <2>5, <4>2, <4>3, <4>5 DEF Reading, Decoded, Place
    <3> QED
      BY <1>2, <1>4, <3>1, <3>2, <3>3
  <2>9. CASE InTrailer(m, out)
    <3>1. mode = "trailer" /\ Frames(body) < m /\ out = Payloads(body, Frames(body))
      BY <2>9 DEF InTrailer
    <3>2. UNCHANGED <<call, data>>
      BY <3>1 DEF ReadLine
    <3>3. Matches(body, m + 1) /\ Consumed' = At(body, m + 1)
      BY <1>2, <1>4, <2>7, <3>1, <3>2
    <3>4. CASE line = <<>>
      <4>1. mode' = "header" /\ finished'
        BY <3>1, <3>4 DEF ReadLine, line
      <4>2. Length(body) = At(body, m + 1)
        BY <1>1, <2>2, <2>4, <3>3, <3>4, EndsWhole
      <4>3. ~ (m + 1 <= Frames(body))
        BY <1>2, <1>4, <3>1
      <4>4. AtEnd(m + 1, done \o payload)'
        BY <1>1, <2>6, <3>1, <3>3, <4>1, <4>2, <4>3 DEF AtEnd
      <4> QED
        BY <1>1, <2>2, <2>5, <3>2, <3>3, <4>4 DEF Reading, Decoded, Place
    <3>5. CASE line # <<>>
      <4>1. mode' = mode /\ finished' = finished
        BY <3>1, <3>5 DEF ReadLine, line
      <4>2. Frames(body) < m + 1 /\ m + 1 < Lines(body)
        BY <1>2, <1>4, <2>2, <2>4, <3>1, <3>5
      <4>3. InTrailer(m + 1, done \o payload)'
        BY <1>1, <1>6, <2>6, <3>1, <3>3, <4>1, <4>2 DEF InTrailer
      <4> QED
        BY <1>1, <2>2, <2>5, <3>2, <3>3, <4>3 DEF Reading, Decoded, Place
    <3> QED
      BY <3>4, <3>5
  <2> QED
    BY <1>5, <2>8, <2>9
<1> QED
  BY <1>7, <1>8, <1>9

\* What is decoded stays so while the chunked reader does nothing.
LEMMA DecodedFrame ==
    ASSUME NEW done, Decoded(done), Flow', Consumed' = Consumed, body' = body,
           body.framed \/ framed' = framed,
           UNCHANGED <<payload, finished, mode, need>>
    PROVE  Decoded(done)'
<1> DEFINE out == done \o payload
<1>1. (done \o payload)' = out
  OBVIOUS
<1>2. CASE body.framed
  <2>1. PICK m \in 0..Lines(body) : Place(m, out)
    BY <1>2 DEF Decoded
  <2> HIDE DEF out
  <2>2. Place(m, done \o payload)'
    BY <1>1, <2>1 DEF Place, AtSize, AtPayload, AtCrlf, InTrailer, AtEnd
  <2> QED
    BY <1>2, <2>2 DEF Decoded
<1>3. CASE ~ body.framed
  BY <1>3 DEF Decoded
<1> QED
  BY <1>2, <1>3

\* There is no line.
LEMMA NoLineDecodes ==
    ASSUME ReaderTypeOK, body \in Encoded, NEW done, call = "reading", Flow, Decoded(done), NoLine
    PROVE  Reading(done)' /\ call' # "none"
<1> DEFINE out == done \o payload
<1>1. /\ body.framed /\ body \in Encoded /\ LineEnds = {} /\ ~ Satisfied
      /\ mode \in {"header", "trailer"} /\ body' = body /\ payload' = payload
      /\ arrived' = arrived /\ buffer' = buffer /\ exhausted' = exhausted
      /\ framed' = framed /\ drained' = drained
      /\ drained \/ Len(framed) > LineMax
  BY DEF NoLine, InLine, Decoding, ReaderTypeOK, wire
<1>2. /\ Frames(body) \in Nat /\ Trailers(body) \in Nat
      /\ Lines(body) = Frames(body) + Trailers(body) + 2 /\ Length(body) \in Nat
      /\ framed \in Seq(Byte) /\ Len(framed) \in Nat /\ LineMax \in Nat
  BY <1>1, Framed, Numbers, LimitAssumption DEF ReaderTypeOK
<1>3. PICK m \in 0..Lines(body) : Place(m, out)
  BY <1>1 DEF Decoded
<1> HIDE DEF out
<1>4. Matches(body, m) /\ m \in Nat
  BY <1>3 DEF Place
<1>5. AtSize(m, out) \/ InTrailer(m, out)
  BY <1>1, <1>3 DEF Place, AtPayload, AtCrlf, AtEnd, Satisfied
<1>6. m \in 0..(Lines(body) - 1) /\ Consumed = At(body, m) /\ ~ finished
  BY <1>2, <1>5 DEF AtSize, InTrailer
<1>7. CASE framed = <<>>
  <2>1. Len(framed) = 0
    BY <1>7, EmptySeq
  <2>2. Length(body) = At(body, m)
    BY <1>1, <1>2, <1>6, <2>1, InBody
  <2>3. mode' = "header" /\ finished' /\ call' = call
    BY <1>7 DEF NoLine
  <2>4. Consumed' = Consumed /\ Flow'
    <3>1. Consumed' = Consumed
      BY <1>1 DEF Consumed
    <3> QED
      BY <1>1, <3>1 DEF Flow
  <2>5. out = Payloads(body, IF m <= Frames(body) THEN m ELSE Frames(body))
    BY <1>2, <1>4, <1>5 DEF AtSize, InTrailer
  <2>6. (done \o payload)' = out
    BY <1>1 DEF out
  <2>7. AtEnd(m, done \o payload)'
    BY <1>1, <1>6, <2>2, <2>3, <2>4, <2>5, <2>6 DEF AtEnd
  <2> QED
    BY <1>1, <1>4, <2>3, <2>4, <2>7 DEF Reading, Decoded, Place
<1>8. CASE framed # <<>>
  <2>1. Refuse
    BY <1>8 DEF NoLine
  <2>2. Goes(body, m) \/ Strays(body, m)
    BY <1>1, <1>4, <1>6, Continues
  <2>3. CASE Strays(body, m)
    BY <1>1, <2>1, <2>3, Refusing DEF Strays, Justified
  <2>4. CASE Goes(body, m)
    <3> DEFINE L == Len(Line(body, m + 1))
    <3>1. Len(framed) < L + 2
      BY <1>1, <1>6, <2>4, LineFound
    <3>2. L \in Nat /\ At(body, m) \in Nat /\ At(body, m + 1) \in Nat /\ m + 1 \in 1..Lines(body)
      BY <1>1, <1>2, <1>6, NextAt
    <3>3. At(body, m) + L + 2 <= At(body, m + 1)
      <4>1. CASE m < Frames(body)
        <5>1. At(body, m + 1) = At(body, m) + L + 2 + Size(body, m + 1) + 2 /\ Size(body, m + 1) \in Nat \ {0}
          BY <1>1, <1>6, <4>1, NextAt
        <5> DEFINE size == Size(body, m + 1)
        <5>2. At(body, m + 1) = At(body, m) + L + 2 + size + 2 /\ size \in Nat \ {0}
          BY <5>1
        <5> HIDE DEF L, size
        <5> QED
          BY <3>2, <5>2
      <4>2. CASE ~ (m < Frames(body))
        <5>1. At(body, m + 1) = At(body, m) + L + 2
          BY <1>1, <1>6, <4>2, NextAt
        <5> QED
          BY <3>2, <5>1
      <4> QED
        BY <4>1, <4>2
    <3>4. CASE drained
      <4>1. Len(framed) > 0
        BY <1>2, <1>8, EmptySeq
      <4>2. At(body, m) + Len(framed) = Length(body)
        BY <1>6, <3>4, InBody
      <4>3. At(body, m) < Length(body) /\ Length(body) < At(body, m + 1)
        BY <1>2, <3>1, <3>2, <3>3, <4>1, <4>2
      <4>4. ~ Whole(body)
        BY <1>1, <1>6, <4>3, CutInside
      <4> QED
        BY <1>1, <2>1, <4>4, Refusing DEF Justified
    <3>5. CASE Len(framed) > LineMax
      <4>1. L >= LineMax
        BY <1>2, <3>1, <3>2, <3>5
      <4>2. Long(body)
        BY <1>1, <3>2, <4>1 DEF Long
      <4> QED
        BY <1>1, <2>1, <4>2, Refusing DEF Justified
    <3> QED
      BY <1>1, <3>4, <3>5
  <2> QED
    BY <2>2, <2>3, <2>4
<1> QED
  BY <1>7, <1>8

\* Inside of a frame.
LEMMA InFrame ==
    ASSUME ReaderTypeOK, body \in Encoded, NEW done, Flow, body.framed, Decoded(done), mode \in {"payload", "crlf"}
    PROVE  \E m \in 0..(Frames(body) - 1) :
             /\ Matches(body, m) /\ Goes(body, m) /\ ~ finished
             /\ At(body, m) < Consumed /\ Consumed + need <= At(body, m + 1) /\ need \in Nat
             /\ AtPayload(m, done \o payload) \/ AtCrlf(m, done \o payload)
             /\ m \in 0..(Lines(body) - 1) /\ m + 1 \in 0..Lines(body) /\ m + 1 \in 1..Frames(body)
<1> DEFINE out == done \o payload
<1>1. /\ body \in Encoded /\ Frames(body) \in Nat /\ Trailers(body) \in Nat
      /\ Lines(body) = Frames(body) + Trailers(body) + 2 /\ Consumed \in Nat
  BY Framed, InBody DEF ReaderTypeOK
<1>2. PICK m \in 0..Lines(body) : Place(m, out)
  BY DEF Decoded
<1> HIDE DEF out
<1>3. AtPayload(m, out) \/ AtCrlf(m, out)
  BY <1>2 DEF Place, AtSize, InTrailer, AtEnd
<1>4. Matches(body, m) /\ Goes(body, m) /\ ~ finished /\ m < Frames(body)
  BY <1>2, <1>3 DEF Place, AtPayload, AtCrlf
<1>5. /\ m \in 0..(Frames(body) - 1) /\ m \in 0..(Lines(body) - 1) /\ m + 1 \in 0..Lines(body)
      /\ m + 1 \in 1..Frames(body)
  BY <1>1, <1>4
<1> DEFINE line == Len(Line(body, m + 1))
           size == Size(body, m + 1)
<1>6. At(body, m + 1) = At(body, m) + line + 2 + size + 2
  BY <1>1, <1>4, <1>5, NextAt
<1>7. /\ At(body, m) \in Nat /\ At(body, m + 1) \in Nat /\ line \in Nat
  BY <1>1, <1>5, NextAt
<1>8. size \in Nat \ {0}
  BY <1>1, <1>4, <1>5, NextAt
<1>9. CASE AtPayload(m, out)
  <2>1. Consumed = At(body, m) + (line + 2) /\ need = size
    BY <1>9 DEF AtPayload
  <2> HIDE DEF line, size
  <2>2. At(body, m) < Consumed /\ Consumed + need <= At(body, m + 1) /\ need \in Nat
    BY <1>6, <1>7, <1>8, <2>1
  <2> QED
    BY <1>3, <1>4, <1>5, <2>2 DEF out
<1>10. CASE AtCrlf(m, out)
  <2>1. Consumed + 2 = At(body, m + 1) /\ need = 2
    BY <1>10 DEF AtCrlf
  <2> HIDE DEF line, size
  <2>2. At(body, m) < Consumed /\ Consumed + need <= At(body, m + 1) /\ need \in Nat
    BY <1>1, <1>6, <1>7, <1>8, <2>1
  <2> QED
    BY <1>3, <1>4, <1>5, <2>2 DEF out
<1> QED
  BY <1>3, <1>9, <1>10

\* The body ends inside of a frame.
LEMMA CutShortDecodes ==
    ASSUME ReaderTypeOK, body \in Encoded, NEW done, Flow, Decoded(done), CutShort
    PROVE  Reading(done)' /\ call' # "none"
<1>1. /\ body.framed /\ body \in Encoded /\ mode \in {"payload", "crlf"} /\ body' = body
      /\ Len(framed) < need /\ drained /\ Refuse
  BY DEF CutShort, InExact, Decoding, ReaderTypeOK, wire
<1>2. PICK m \in 0..(Frames(body) - 1) :
         /\ At(body, m) < Consumed /\ Consumed + need <= At(body, m + 1)
         /\ m \in 0..(Lines(body) - 1) /\ need \in Nat
  BY <1>1, InFrame
<1>3. /\ Consumed \in Nat /\ Len(framed) \in Nat /\ Consumed + Len(framed) = Length(body)
      /\ At(body, m) \in Nat /\ At(body, m + 1) \in Nat
  BY <1>1, <1>2, InBody, Numbers, NextAt
<1>4. At(body, m) < Length(body) /\ Length(body) < At(body, m + 1)
  BY <1>1, <1>2, <1>3
<1>5. ~ Whole(body)
  BY <1>1, <1>2, <1>4, CutInside
<1> QED
  BY <1>1, <1>5, Refusing DEF Justified

\* A payload is read, or the CRLF after it.
LEMMA ReadExactDecodes ==
    ASSUME ReaderTypeOK, body \in Encoded, NEW done \in Seq(Byte), call = "reading", Flow, Decoded(done), ReadExact
    PROVE  Reading(done)' /\ call' # "none"
<1> DEFINE out == done \o payload
           taken == Taken(framed, need)
<1>1. /\ body.framed /\ body \in Encoded /\ mode \in {"payload", "crlf"} /\ body' = body
      /\ need <= Len(framed) /\ framed' = Rest(framed, need) /\ call' = call
      /\ UNCHANGED <<wire, drained>> /\ finished' = finished
  <2>1. Len(framed) \in Nat /\ need \in Int
    BY Numbers DEF ReaderTypeOK
  <2> QED
    BY <2>1 DEF ReadExact, InExact, Decoding, ReaderTypeOK, wire
<1>2. PICK m \in 0..(Frames(body) - 1) :
         /\ Matches(body, m) /\ Goes(body, m) /\ ~ finished
         /\ At(body, m) < Consumed /\ Consumed + need <= At(body, m + 1) /\ need \in Nat
         /\ AtPayload(m, out) \/ AtCrlf(m, out)
         /\ m \in 0..(Lines(body) - 1) /\ m + 1 \in 0..Lines(body) /\ m + 1 \in 1..Frames(body)
  BY <1>1, InFrame
<1> HIDE DEF out
<1>3. Flow' /\ Consumed' = Consumed + need
  BY <1>1, <1>2, FlowTake
<1>4. /\ Consumed \in Nat /\ At(body, m) \in Nat /\ At(body, m + 1) \in Nat
      /\ Len(framed) \in Nat /\ framed \in Seq(Byte) /\ Frames(body) \in Nat
      /\ Length(body) \in Nat /\ m \in 0..Lines(body)
  <2>1. Consumed \in Nat /\ Len(framed) \in Nat /\ Length(body) \in Nat /\ framed \in Seq(Byte)
    BY InBody, Numbers DEF ReaderTypeOK
  <2>2. At(body, m) \in Nat /\ At(body, m + 1) \in Nat
    BY <1>1, <1>2, NextAt
  <2>3. Frames(body) \in Nat /\ m \in 0..Lines(body)
    <3>1. /\ Frames(body) \in Nat /\ Trailers(body) \in Nat
          /\ Lines(body) = Frames(body) + Trailers(body) + 2
      BY <1>1, Framed
    <3> QED
      BY <1>2, <3>1
  <2> QED
    BY <2>1, <2>2, <2>3
<1>5. CASE AtPayload(m, out)
  <2> DEFINE L == Len(Line(body, m + 1))
             size == Size(body, m + 1)
             frame == Frame(body, m + 1)
             piece == Piece(body, m + 1)
  <2>1. /\ mode = "payload" /\ m < Frames(body) /\ Consumed = At(body, m) + (L + 2) /\ need = size
        /\ out = Payloads(body, m)
    BY <1>5 DEF AtPayload
  <2>2. payload' = payload \o taken /\ mode' = "crlf" /\ need' = 2
    BY <2>1 DEF ReadExact, AfterPayload
  <2>3. At(body, m + 1) = At(body, m) + L + 2 + size + 2
    BY <1>1, <1>2, <2>1, NextAt
  <2>4. L \in Nat /\ Len(frame) = size /\ frame \in Seq(Byte)
    BY <1>1, <1>2, NextAt, Framed
  <2>5. Len(piece) \in Nat /\ Len(piece) = L + 2 + size + 2 /\ \A k \in 1..size : piece[L + 2 + k] = frame[k]
    <3>1. m + 1 \in 1..Lines(body) /\ m + 1 <= Frames(body) /\ m \in Nat
      BY <1>2, <1>4
    <3>2. Len(piece) \in Nat
      BY <1>1, <1>2, SentNext
    <3> QED
      BY <1>1, <3>1, <3>2, PieceIs
  <2>6. /\ taken \in Seq(Byte) /\ Len(taken) = size
        /\ \A k \in 1..Len(taken) : taken[k] = framed[k]
    <3>1. /\ taken \in Seq(Byte) /\ Len(taken) = IF need < Len(framed) THEN need ELSE Len(framed)
          /\ \A k \in 1..Len(taken) : taken[k] = framed[k]
      BY <1>2, <1>4, CutIs
    <3>2. Len(taken) = need
      BY <1>1, <1>2, <1>4, <3>1
    <3> QED
      BY <2>1, <3>1, <3>2
  <2> HIDE DEF L, size, frame, taken, piece
  <2>7. ASSUME NEW k \in 1..Len(taken) PROVE taken[k] = frame[k]
    <3>1. size \in Nat
      BY <1>2, <2>1
    <3>2. k \in Nat /\ k \in 1..size /\ k \in 1..Len(framed) /\ L + 2 \in Nat /\ (L + 2) + k <= Len(piece)
      BY <1>1, <1>4, <2>1, <2>4, <2>5, <2>6, <3>1
    <3>3. framed[k] = piece[(L + 2) + k]
      BY <1>1, <1>2, <2>1, <3>2, PieceInBuffer DEF piece
    <3> QED
      BY <2>5, <2>6, <3>2, <3>3
  <2>8. taken = frame
    BY <2>4, <2>6, <2>7, SeqEqual
  <2>9. (done \o payload)' = Payloads(body, m + 1)
    <3>1. payload \in Seq(Byte)
      BY DEF ReaderTypeOK
    <3>2. done \o (payload \o taken) = (done \o payload) \o taken
      BY <2>6, <3>1, ConcatAssociative
    <3>3. Payloads(body, m + 1) = Payloads(body, m) \o frame
      BY <1>1, <1>2, PayloadsNext DEF frame
    <3> QED
      BY <2>1, <2>2, <2>8, <3>2, <3>3 DEF out
  <2>10. Consumed' + 2 = At(body, m + 1)
    <3>1. size \in Nat
      BY <1>2, <2>1
    <3> QED
      BY <1>3, <1>4, <2>1, <2>3, <2>4, <3>1
  <2>11. AtCrlf(m, done \o payload)'
    BY <1>1, <1>2, <2>1, <2>2, <2>9, <2>10 DEF AtCrlf
  <2> QED
    BY <1>1, <1>2, <1>3, <1>4, <2>11 DEF Reading, Decoded, Place
<1>6. CASE AtCrlf(m, out)
  <2>1. /\ mode = "crlf" /\ need = 2 /\ Consumed + 2 = At(body, m + 1)
        /\ out = Payloads(body, m + 1)
    BY <1>6 DEF AtCrlf
  <2>2. mode' = "header" /\ payload' = payload
    BY <2>1 DEF ReadExact
  <2>3. At(body, m + 1) <= Length(body)
    <3>1. Consumed + Len(framed) <= Length(body)
      BY InBody
    <3> QED
      BY <1>1, <1>4, <2>1, <3>1
  <2>4. Matches(body, m + 1)
    BY <1>1, <1>2, <2>3, MatchesNext
  <2>5. m + 1 <= Frames(body)
    BY <1>2, <1>4
  <2>6. (done \o payload)' = out
    BY <2>2 DEF out
  <2>7. AtSize(m + 1, done \o payload)'
    BY <1>1, <1>2, <1>3, <2>1, <2>2, <2>5, <2>6 DEF AtSize
  <2> QED
    BY <1>1, <1>2, <1>3, <2>4, <2>7 DEF Reading, Decoded, Place
<1> QED
  BY <1>2, <1>5, <1>6

\* The caller gets a chunk of what is decoded, and nothing only at the end.
LEMMA ReturnPayloadDecodes ==
    ASSUME ReaderTypeOK, body \in Encoded, NEW done \in Seq(Byte), call = "reading", Flow, Decoded(done), ReturnPayload,
           NEW chunk, chunk = data'
    PROVE  Reading(done \o chunk)' /\ call' = "none" /\ (chunk = <<>> => Over')
<1>1. /\ body.framed /\ body' = body /\ call' = "none" /\ chunk = Taken(payload, Chunk)
      /\ payload' = Rest(payload, Chunk) /\ Satisfied
      /\ arrived' = arrived /\ buffer' = buffer /\ exhausted' = exhausted /\ framed' = framed
      /\ drained' = drained /\ finished' = finished /\ mode' = mode /\ need' = need
  BY DEF ReturnPayload, Decoding, wire
<1>2. payload \in Seq(Byte) /\ Chunk \in Nat \ {0} /\ Len(payload) \in Nat
  BY LimitAssumption, Numbers DEF ReaderTypeOK
<1>3. /\ chunk \in Seq(Byte) /\ payload' \in Seq(Byte) /\ payload = chunk \o payload'
      /\ Len(chunk) = IF Chunk < Len(payload) THEN Chunk ELSE Len(payload)
  <2>1. /\ Taken(payload, Chunk) \in Seq(Byte) /\ Rest(payload, Chunk) \in Seq(Byte)
        /\ payload = Taken(payload, Chunk) \o Rest(payload, Chunk)
        /\ Len(Taken(payload, Chunk)) = IF Chunk < Len(payload) THEN Chunk ELSE Len(payload)
    BY <1>2, CutIs
  <2> QED
    BY <1>1, <2>1
<1>4. done \o payload = (done \o chunk) \o payload'
  BY <1>3, ConcatAssociative
<1>5. Consumed' = Consumed /\ Flow'
  <2>1. Consumed' = Consumed
    BY <1>1 DEF Consumed
  <2> QED
    BY <1>1, <2>1 DEF Flow
<1>6. Decoded(done \o chunk)'
  <2> DEFINE out == done \o payload
  <2>1. PICK m \in 0..Lines(body) : Place(m, out)
    BY <1>1 DEF Decoded
  <2>2. ((done \o chunk) \o payload)' = out
    BY <1>4
  <2> HIDE DEF out
  <2>3. Place(m, (done \o chunk) \o payload)'
    BY <1>1, <1>5, <2>1, <2>2 DEF Place, AtSize, AtPayload, AtCrlf, InTrailer, AtEnd
  <2> QED
    BY <1>1, <2>3 DEF Decoded
<1>7. ASSUME chunk = <<>> PROVE Over'
  <2>1. Len(chunk) = 0
    BY <1>7, EmptySeq
  <2>2. Len(payload) = 0
    BY <1>2, <1>3, <2>1
  <2>3. payload = <<>>
    BY <1>2, <2>2, EmptySeq
  <2>4. mode = "header" /\ finished
    BY <1>1, <1>2, <2>2 DEF Satisfied
  <2>5. payload' = <<>>
    BY <1>3, <1>7, <2>3, ConcatEmptySeq
  <2> QED
    BY <1>1, <2>4, <2>5 DEF Over
<1> QED
  BY <1>1, <1>5, <1>6, <1>7 DEF Reading

\* Or a chunk of the body that is not framed.
LEMMA ReturnBufferDecodes ==
    ASSUME ReaderTypeOK, body \in Encoded, NEW done \in Seq(Byte), call = "reading", Flow, Decoded(done), ReturnBuffer,
           NEW chunk, chunk = data'
    PROVE  Reading(done \o chunk)' /\ call' = "none" /\ (chunk = <<>> => Over')
<1>1. /\ ~ body.framed /\ body' = body /\ call' = "none" /\ chunk = Taken(buffer, Chunk)
      /\ buffer' = Rest(buffer, Chunk) /\ ~ Incomplete
      /\ arrived' = arrived /\ exhausted' = exhausted /\ framed' = framed /\ drained' = drained
  BY DEF ReturnBuffer, decoder
<1>2. /\ buffer \in Seq(Byte) /\ Chunk \in Nat \ {0} /\ Len(buffer) \in Nat
      /\ arrived \in Nat
  BY LimitAssumption, Numbers DEF ReaderTypeOK
<1>3. /\ chunk \in Seq(Byte)
      /\ Len(chunk) = IF Chunk < Len(buffer) THEN Chunk ELSE Len(buffer)
      /\ Len(buffer') = IF Chunk < Len(buffer) THEN Len(buffer) - Chunk ELSE 0
      /\ \A k \in 1..Len(chunk) : chunk[k] = buffer[k]
      /\ \A k \in 1..Len(buffer') : buffer'[k] = buffer[Chunk + k]
  BY <1>1, <1>2, CutIs
<1>4. /\ framed = <<>> /\ Len(framed) = 0 /\ Len(done) = Consumed
      /\ \A k \in 1..Len(done) : done[k] = body.bytes[k]
  BY <1>1, EmptySeq DEF Decoded
<1>5. /\ done \o chunk \in Seq(Byte) /\ Len(done) \in Nat
      /\ Len(done \o chunk) = Len(done) + Len(chunk)
      /\ \A k \in 1..Len(done) : (done \o chunk)[k] = done[k]
      /\ \A k \in 1..Len(chunk) : (done \o chunk)[Len(done) + k] = chunk[k]
  BY <1>3, Concats
<1> DEFINE more == done \o chunk
<1> HIDE DEF more
<1>6. Consumed' = Consumed + Len(chunk) /\ Len(more) = Consumed'
  BY <1>1, <1>2, <1>3, <1>4, <1>5 DEF Consumed, more
<1>7. ASSUME NEW k \in 1..Len(more) PROVE more[k] = body.bytes[k]
  <2>1. CASE k <= Len(done)
    BY <1>4, <1>5, <2>1 DEF more
  <2>2. CASE ~ (k <= Len(done))
    <3> DEFINE j == k - Len(done)
    <3>1. j \in 1..Len(chunk) /\ Len(done) + j = k /\ j \in 1..Len(buffer)
          /\ Consumed + Len(framed) + j = k
      BY <1>2, <1>3, <1>4, <1>5, <2>2 DEF more
    <3> HIDE DEF j
    <3>2. more[Len(done) + j] = chunk[j]
      BY <1>5, <3>1 DEF more
    <3>3. chunk[j] = buffer[j] /\ buffer[j] = body.bytes[Consumed + Len(framed) + j]
      BY <1>3, <3>1 DEF Flow
    <3> QED
      BY <3>1, <3>2, <3>3
  <2> QED
    BY <2>1, <2>2
<1>8. Decoded(done \o chunk)'
  BY <1>1, <1>4, <1>6, <1>7 DEF Decoded, more
<1>9. Flow'
  <2>1. ASSUME NEW k \in 1..Len(buffer') PROVE buffer'[k] = body.bytes[Consumed' + Len(framed') + k]
    <3>1. Chunk + k \in 1..Len(buffer) /\ Consumed' + Len(framed') + k = Consumed + Len(framed) + (Chunk + k)
      BY <1>1, <1>2, <1>3, <1>4, <1>5, <1>6
    <3> QED
      BY <1>3, <3>1 DEF Flow
  <2>2. ASSUME NEW k \in 1..Len(framed') PROVE framed'[k] = body.bytes[Consumed' + k]
    BY <1>1, <1>4, <2>2
  <2>3. drained' => buffer' = <<>>
    <3> SUFFICES ASSUME drained PROVE buffer' = <<>>
      BY <1>1
    <3>1. Len(buffer) = 0
      BY EmptySeq DEF Flow
    <3>2. buffer' \in Seq(Byte) /\ Len(buffer') = 0
      BY <1>1, <1>2, <1>3, <3>1, CutIs
    <3> QED
      BY <3>2, EmptySeq
  <2>4. Consumed' >= 0
    BY <1>2, <1>3, <1>4, <1>5, <1>6
  <2> QED
    BY <1>1, <2>1, <2>2, <2>3, <2>4 DEF Flow
<1>10. ASSUME chunk = <<>> PROVE Over'
  <2>1. Len(chunk) = 0
    BY <1>10, EmptySeq
  <2>2. Len(buffer) = 0 /\ exhausted
    <3>1. Len(buffer) = 0
      BY <1>2, <1>3, <2>1
    <3> QED
      BY <1>1, <1>2, <3>1 DEF Incomplete
  <2>3. buffer' \in Seq(Byte) /\ Len(buffer') = 0
    BY <1>1, <1>2, <1>3, <2>2, CutIs
  <2>4. buffer' = <<>>
    BY <2>3, EmptySeq
  <2> QED
    BY <1>1, <2>2, <2>4 DEF Over
<1> QED
  BY <1>1, <1>8, <1>9, <1>10 DEF Reading

\* Every step of the readers goes on with the body, where it was.
LEMMA ReaderDecodes ==
    ASSUME ReaderTypeOK, body \in Encoded, NEW done \in Seq(Byte), call = "reading", Reading(done), ReaderStep,
           NEW chunk, chunk = data'
    PROVE  \/ call' # "none" /\ Reading(done)'
           \/ call' = "none" /\ Reading(done \o chunk)' /\ (chunk = <<>> => Over')
<1>1. Flow /\ Decoded(done)
  BY DEF Reading
<1>2. CASE ReadLine
  BY <1>1, <1>2, ReadLineDecodes
<1>3. CASE NoLine
  BY <1>1, <1>3, NoLineDecodes
<1>4. CASE ReadExact
  BY <1>1, <1>4, ReadExactDecodes
<1>5. CASE CutShort
  BY <1>1, <1>5, CutShortDecodes
<1>6. ASSUME NEW n \in 1..Len(body.bytes), Receive(n)
      PROVE  call' # "none" /\ Reading(done)'
  <2>1. n \in 1..Length(body) /\ body' = body
    BY <1>6 DEF Length, Receive
  <2>2. CASE TooLarge(n)
    <3>1. arrived + n <= Length(body) /\ arrived + n > MaxBytes /\ Refuse
      BY <1>6, <2>2 DEF Receive, TooLarge, Length
    <3>2. arrived \in Nat /\ Length(body) \in Nat /\ MaxBytes \in Nat /\ n \in Nat
      BY <2>1, Numbers, LimitAssumption
    <3>3. Justified
      BY <3>1, <3>2 DEF Justified
    <3> QED
      BY <2>1, <3>1, <3>3, Refusing
  <2>3. CASE ~ TooLarge(n)
    <3>1. Flow' /\ Consumed' = Consumed
      BY <1>1, <1>6, <2>1, <2>3, FlowReceive
    <3>2. call' = call /\ framed' = framed /\ UNCHANGED <<payload, finished, mode, need>>
      BY <1>6, <2>3 DEF Receive, decoder
    <3>3. Decoded(done)'
      BY <1>1, <2>1, <3>1, <3>2, DecodedFrame
    <3> QED
      BY <3>1, <3>2, <3>3 DEF Reading
  <2> QED
    BY <2>2, <2>3
<1>7. CASE EndOfBody
  <2>1. Flow' /\ Consumed' = Consumed /\ body' = body
    BY <1>1, <1>7, FlowEnd
  <2>2. call' = call /\ framed' = framed /\ UNCHANGED <<payload, finished, mode, need>>
    BY <1>7 DEF EndOfBody, decoder
  <2>3. Decoded(done)'
    BY <1>1, <2>1, <2>2, DecodedFrame
  <2> QED
    BY <2>1, <2>2, <2>3 DEF Reading
<1>8. CASE Feed
  <2>1. Flow' /\ Consumed' = Consumed /\ body' = body
    BY <1>1, <1>8, FlowFeed
  <2>2. call' = call /\ body.framed /\ UNCHANGED <<payload, finished, mode, need>>
    BY <1>8 DEF Feed, Starving, InLine, InExact, Decoding
  <2>3. Decoded(done)'
    BY <1>1, <2>1, <2>2, DecodedFrame
  <2> QED
    BY <2>1, <2>2, <2>3 DEF Reading
<1>9. CASE ReturnPayload
  BY <1>1, <1>9, ReturnPayloadDecodes
<1>10. CASE ReturnBuffer
  BY <1>1, <1>10, ReturnBufferDecodes
<1> QED
  BY <1>2, <1>3, <1>4, <1>5, <1>6, <1>7, <1>8, <1>9, <1>10 DEF ReaderStep

\* When nothing is left, all that was sent is decoded.
LEMMA OverDecoded ==
    ASSUME ReaderTypeOK, body \in Encoded, NEW done \in Seq(Byte), Flow, Decoded(done), Over
    PROVE  /\ Whole(body) /\ Length(body) <= MaxBytes
           /\ done = IF body.framed THEN WholeFrames(body) ELSE body.bytes
<1>1. /\ body \in Encoded /\ Length(body) \in Nat /\ arrived \in Nat /\ arrived <= Length(body)
      /\ body.bytes \in Seq(Byte) /\ MaxBytes \in Nat /\ arrived <= MaxBytes
      /\ Consumed \in Nat /\ Consumed <= arrived
  <2>1. Len(buffer) \in Nat /\ Len(framed) \in Nat /\ arrived \in Nat
    BY Numbers
  <2>2. Consumed \in Nat /\ Consumed <= arrived
    BY <2>1, InBody DEF Consumed
  <2> QED
    BY <2>2, Numbers, LimitAssumption DEF ReaderTypeOK, Flow
<1>2. CASE body.framed
  <2> DEFINE out == done \o payload
  <2>1. PICK m \in 0..Lines(body) : Place(m, out)
    BY <1>2 DEF Decoded
  <2>2. out = done
    <3>1. payload = <<>>
      BY <1>2 DEF Over
    <3> QED
      BY <3>1, ConcatEmptySeq
  <2> HIDE DEF out
  <2>3. Matches(body, m) /\ AtEnd(m, out)
    <3>1. mode = "header" /\ finished
      BY <1>2 DEF Over
    <3> QED
      BY <2>1, <3>1 DEF Place, AtSize, AtPayload, AtCrlf, InTrailer
  <2>4. /\ Length(body) = At(body, m) /\ Consumed = At(body, m)
        /\ out = Payloads(body, IF m <= Frames(body) THEN m ELSE Frames(body))
    BY <2>3 DEF AtEnd
  <2>5. Whole(body)
    BY <1>1, <1>2, <2>3, <2>4, EndsWhole
  <2>6. WholeFrames(body) = Payloads(body, IF m <= Frames(body) THEN m ELSE Frames(body))
    BY <1>1, <1>2, <2>4, WholeFramesAre
  <2>7. Length(body) <= MaxBytes
    BY <1>1, <2>4
  <2> QED
    BY <1>2, <2>2, <2>4, <2>5, <2>6, <2>7
<1>3. CASE ~ body.framed
  <2>1. /\ framed = <<>> /\ Len(done) = Consumed /\ \A k \in 1..Len(done) : done[k] = body.bytes[k]
        /\ exhausted /\ buffer = <<>>
    BY <1>3 DEF Decoded, Over
  <2>2. Len(framed) = 0 /\ Len(buffer) = 0
    BY <2>1, EmptySeq
  <2>3. Consumed = arrived /\ arrived = Length(body)
    BY <1>1, <2>1, <2>2 DEF Consumed, Flow
  <2>4. done = body.bytes
    BY <1>1, <2>1, <2>3, SeqEqual DEF Length
  <2>5. Whole(body)
    BY <1>3 DEF Whole
  <2>6. Length(body) <= MaxBytes
    BY <1>1, <2>3
  <2> QED
    BY <1>3, <2>4, <2>5, <2>6
<1> QED
  BY <1>2, <1>3

------------------------------------------------------------------------------
(* What is written is what was sent.                                        *)

\* What an upload has written is what its readers have returned, except for the chunk it
\* waits for or has just got.
UploadInv ==
    /\ pc = "start" => call = "none" /\ Reading(<<>>)
    /\ pc = "writing" => call = "none" /\ \E done \in Seq(Byte) : done = temp.bytes /\ Reading(done)
    /\ pc = "waiting" =>
         \E done \in Seq(Byte), chunk \in Seq(Byte) :
            /\ done = temp.bytes /\ chunk = data
            /\ IF call = "none" THEN Reading(done \o chunk) /\ (chunk = <<>> => Over)
                                ELSE Reading(done)

\* The other writes have written what is no longer in their sources.
LocalInv ==
    /\ pc # "waiting"
    /\ pc = "start" => sources = given
    /\ pc = "writing" => temp.bytes \o FlattenSeq(sources) = FlattenSeq(given)

DecodeInv ==
    /\ DecodedAsEncoded
    /\ IF kind = "upload" THEN UploadInv ELSE LocalInv

\* The readers stay as they are.
LEMMA ReadingFrame ==
    ASSUME UNCHANGED readerVars
    PROVE  /\ \A done : Reading(done) => Reading(done)'
           /\ Over' = Over /\ body' = body /\ call' = call /\ data' = data
<1>1. /\ body' = body /\ arrived' = arrived /\ buffer' = buffer /\ exhausted' = exhausted
      /\ framed' = framed /\ drained' = drained /\ payload' = payload /\ finished' = finished
      /\ mode' = mode /\ need' = need /\ call' = call /\ data' = data
  BY DEF readerVars, wire, decoder
<1>2. Consumed' = Consumed
  BY <1>1 DEF Consumed
<1>3. Flow => Flow'
  BY <1>1, <1>2 DEF Flow
<1>4. ASSUME NEW done, Reading(done) PROVE Reading(done)'
  <2>1. CASE call \in {"none", "reading"}
    <3>1. Flow' /\ Decoded(done)
      BY <1>3, <1>4, <2>1 DEF Reading
    <3>2. Decoded(done)'
      BY <1>1, <1>2, <3>1, DecodedFrame
    <3> QED
      BY <1>1, <2>1, <3>1, <3>2 DEF Reading
  <2>2. CASE call \notin {"none", "reading"}
    BY <1>1, <1>4, <2>2 DEF Reading, Justified
  <2> QED
    BY <2>1, <2>2
<1>5. Over' = Over
  BY <1>1 DEF Over
<1> QED
  BY <1>1, <1>4, <1>5

\* A step of anything else than a write keeps what is decoded.
LEMMA QuietDecodes ==
    ASSUME DecodeInv, [Next]_vars, UNCHANGED readerVars, UNCHANGED sources,
           pc' \notin {"written", "closed"} \/ (pc \in {"written", "closed"} /\ temp'.bytes = temp.bytes),
           pc' \in {"start", "writing", "waiting"} => pc' = pc /\ temp' = temp
    PROVE  DecodeInv'
<1>1. body' = body /\ kind' = kind /\ given' = given /\ Target' = Target
  BY GivenFrame, TargetFrame DEF Given
<1>2. /\ \A done : Reading(done) => Reading(done)'
      /\ Over' = Over /\ call' = call /\ data' = data
  BY ReadingFrame
<1>3. DecodedAsEncoded'
  BY <1>1, <1>2 DEF DecodeInv, DecodedAsEncoded
<1>4. CASE kind = "upload"
  <2>1. UploadInv
    BY <1>4 DEF DecodeInv
  <2>2. pc' = "start" => call' = "none" /\ Reading(<<>>)'
    BY <1>2, <2>1 DEF UploadInv
  <2>3. pc' = "writing" =>
          call' = "none" /\ \E done \in Seq(Byte) : done = temp'.bytes /\ Reading(done)'
    BY <1>2, <2>1 DEF UploadInv
  <2>4. ASSUME pc' = "waiting"
        PROVE  \E done \in Seq(Byte), chunk \in Seq(Byte) :
                 /\ done = temp'.bytes /\ chunk = data'
                 /\ IF call' = "none" THEN Reading(done \o chunk)' /\ (chunk = <<>> => Over')
                                      ELSE Reading(done)'
    BY <1>2, <2>1, <2>4 DEF UploadInv
  <2> QED
    BY <1>1, <1>3, <1>4, <2>2, <2>3, <2>4 DEF DecodeInv, UploadInv
<1>5. CASE kind # "upload"
  BY <1>1, <1>3, <1>5 DEF DecodeInv, LocalInv
<1> QED
  BY <1>4, <1>5

\* An upload goes on with what its readers return.
LEMMA UploadDecodes ==
    ASSUME TypeInv, body \in Encoded, DecodeInv, kind = "upload",
           \/ Open /\ pc' = "writing"
           \/ AskForChunk
           \/ ReadBody
           \/ LoseClient
           \/ WriteUpload /\ pc' # "cleanup",
           UNCHANGED Given
    PROVE  DecodeInv'
<1>1. UploadInv /\ DecodedAsEncoded /\ ReaderTypeOK
  BY DEF DecodeInv, TypeInv, TypeOK
<1>2. kind' = kind /\ body' = body /\ given' = given
  BY DEF Given
<1>3. Target' = Target
  BY <1>2 DEF Target, WholeFrames
<1>4. pc \in {"writing", "waiting"} => temp \in File /\ temp.bytes \in Seq(Byte)
  BY DEF TypeInv, File
<1>5. <<>> \in Seq(Byte)
  BY EmptySeq
<1>6. CASE Open /\ pc' = "writing"
  <2>1. pc = "start" /\ temp' = [bytes |-> <<>>, synced |-> FALSE] /\ UNCHANGED readerVars
    BY <1>6 DEF Open, Goto
  <2>2. call' = "none" /\ Reading(<<>>)'
    BY <1>1, <2>1, ReadingFrame DEF UploadInv
  <2>3. temp'.bytes = <<>>
    BY <2>1
  <2>4. UploadInv'
    BY <1>5, <1>6, <2>2, <2>3 DEF UploadInv
  <2> QED
    BY <1>1, <1>2, <1>6, <2>2, <2>4 DEF DecodeInv, DecodedAsEncoded
<1>7. CASE AskForChunk
  <2>1. /\ pc = "writing" /\ pc' = "waiting" /\ temp' = temp /\ call' = "reading"
        /\ call = "none" /\ data' = data /\ body' = body
        /\ arrived' = arrived /\ buffer' = buffer /\ exhausted' = exhausted
        /\ framed' = framed /\ drained' = drained /\ payload' = payload /\ finished' = finished
        /\ mode' = mode /\ need' = need
    BY <1>7 DEF AskForChunk, Ask, Goto, files, wire, decoder
  <2>2. PICK done \in Seq(Byte) : done = temp.bytes /\ Reading(done)
    BY <1>1, <2>1 DEF UploadInv
  <2>3. Flow /\ Decoded(done)
    BY <2>1, <2>2 DEF Reading
  <2>4. Consumed' = Consumed
    BY <2>1 DEF Consumed
  <2>5. Flow'
    BY <2>1, <2>3, <2>4 DEF Flow
  <2>6. Decoded(done)'
    BY <2>1, <2>3, <2>4, <2>5, DecodedFrame
  <2>7. Reading(done)'
    BY <2>1, <2>5, <2>6 DEF Reading
  <2>8. PICK chunk \in Seq(Byte) : chunk = data'
    BY <2>1 DEF TypeInv, TypeOK, ReaderTypeOK
  <2>9. done = temp'.bytes /\ call' # "none"
    BY <2>1, <2>2
  <2>10. UploadInv'
    BY <2>1, <2>7, <2>8, <2>9 DEF UploadInv
  <2> QED
    BY <1>1, <1>2, <2>1, <2>10 DEF DecodeInv, DecodedAsEncoded
<1>8. CASE ReadBody
  <2>1. pc = "waiting" /\ pc' = "waiting" /\ temp' = temp /\ ReaderStep
    BY <1>8 DEF ReadBody, files
  <2>2. PICK done \in Seq(Byte), chunk0 \in Seq(Byte) :
            /\ done = temp.bytes /\ chunk0 = data
            /\ IF call = "none" THEN Reading(done \o chunk0) /\ (chunk0 = <<>> => Over)
                                ELSE Reading(done)
    BY <1>1, <2>1 DEF UploadInv
  <2>3. call = "reading"
    BY <2>1 DEF ReaderStep, ReadLine, NoLine, ReadExact, CutShort, Receive, EndOfBody, Feed,
       ReturnPayload, ReturnBuffer, InLine, InExact, Decoding, Requested, Starving
  <2>4. PICK chunk \in Seq(Byte) : chunk = data'
    <3>1. ReaderTypeOK'
      BY <1>1, <2>1, ReaderTyped
    <3> QED
      BY <3>1 DEF ReaderTypeOK
  <2>5. \/ call' # "none" /\ Reading(done)'
        \/ call' = "none" /\ Reading(done \o chunk)' /\ (chunk = <<>> => Over')
    BY <1>1, <2>1, <2>2, <2>3, <2>4, ReaderDecodes
  <2>6. done = temp'.bytes
    BY <2>1, <2>2
  <2>7. UploadInv'
    BY <2>1, <2>4, <2>5, <2>6 DEF UploadInv
  <2>8. call' = "refused" => Justified'
    BY <2>5 DEF Reading
  <2>9. DecodedAsEncoded'
    <3>1. body' \in Encoded
      BY <1>2
    <3>2. Complete(body)' => Whole(body)'
      BY <3>1, CompleteIsWhole
    <3> QED
      BY <2>1, <2>8, <3>2 DEF DecodedAsEncoded, Justified, Length
  <2> QED
    BY <1>2, <2>7, <2>9 DEF DecodeInv
<1>9. CASE LoseClient
  <2>1. pc = "waiting" /\ pc' = "waiting" /\ temp' = temp /\ call' = "gone" /\ data' = data
    BY <1>9 DEF LoseClient, Disconnect, files
  <2>2. PICK done \in Seq(Byte), chunk \in Seq(Byte) : done = temp.bytes /\ chunk = data
    BY <1>1, <2>1 DEF UploadInv
  <2>3. Reading(done)'
    BY <2>1 DEF Reading
  <2>4. done = temp'.bytes /\ chunk = data'
    BY <2>1, <2>2
  <2>5. UploadInv'
    BY <2>1, <2>3, <2>4 DEF UploadInv
  <2> QED
    BY <1>2, <2>1, <2>5 DEF DecodeInv, DecodedAsEncoded
<1>10. CASE WriteUpload /\ pc' # "cleanup"
  <2>1. /\ pc = "waiting" /\ call = "none" /\ UNCHANGED readerVars
        /\ IF data = <<>> THEN pc' = "written" /\ temp' = temp
                          ELSE pc' = "writing" /\ temp' = [temp EXCEPT !.bytes = @ \o data]
    BY <1>10 DEF WriteUpload, TakeChunk, Goto
  <2>2. PICK done \in Seq(Byte), chunk \in Seq(Byte) :
            /\ done = temp.bytes /\ chunk = data
            /\ Reading(done \o chunk) /\ (chunk = <<>> => Over)
    BY <1>1, <2>1 DEF UploadInv
  <2>3. done \o chunk \in Seq(Byte)
    BY ConcatProperties
  <2>4. Reading(done \o chunk)' /\ call' = "none"
    BY <2>1, <2>2, ReadingFrame
  <2>5. CASE data = <<>>
    <3>1. done \o chunk = done
      BY <2>2, <2>5, ConcatEmptySeq
    <3>2. Flow /\ Decoded(done) /\ Over
      BY <2>1, <2>2, <2>5, <3>1 DEF Reading
    <3>3. /\ Whole(body) /\ Length(body) <= MaxBytes
          /\ done = IF body.framed THEN WholeFrames(body) ELSE body.bytes
      BY <1>1, <3>2, OverDecoded
    <3>4. temp.bytes = Target
      BY <2>2, <3>3 DEF Target
    <3>5. UploadInv'
      BY <2>1, <2>5 DEF UploadInv
    <3>6. DecodedAsEncoded'
      <4>1. Whole(body)' /\ Length(body)' <= MaxBytes /\ temp'.bytes = Target'
        BY <1>2, <1>3, <2>1, <2>5, <3>3, <3>4
      <4> QED
        BY <2>4, <4>1 DEF DecodedAsEncoded, Length
    <3> QED
      BY <1>2, <3>5, <3>6 DEF DecodeInv
  <2>6. CASE data # <<>>
    <3>1. temp'.bytes = done \o chunk
      BY <1>4, <2>1, <2>2, <2>6 DEF File
    <3>2. PICK more \in Seq(Byte) : more = done \o chunk
      BY <2>3
    <3>3. Reading(more)'
      BY <2>4, <3>2
    <3>4. UploadInv'
      BY <2>1, <2>4, <2>6, <3>1, <3>2, <3>3 DEF UploadInv
    <3> QED
      BY <1>2, <2>1, <2>4, <2>6, <3>4 DEF DecodeInv, DecodedAsEncoded
  <2> QED
    BY <2>5, <2>6
<1> QED
  BY <1>6, <1>7, <1>8, <1>9, <1>10

\* A sequence is its head, and the rest.
LEMMA HeadFirst ==
    ASSUME NEW S, NEW s \in Seq(S), s # <<>>
    PROVE  s = <<Head(s)>> \o Tail(s)
<1>1. /\ Head(s) \in S /\ Tail(s) \in Seq(S) /\ Len(Tail(s)) = Len(s) - 1
      /\ \A i \in 1..Len(Tail(s)) : Tail(s)[i] = s[i + 1]
  BY HeadTailProperties
<1>2. Len(s) \in Nat \ {0} /\ Head(s) = s[1]
  BY EmptySeq
<1> DEFINE first == <<Head(s)>>
           tail == Tail(s)
<1>3. first \in Seq(S) /\ Len(first) = 1 /\ first[1] = s[1] /\ tail \in Seq(S)
  BY <1>1, <1>2
<1>4. Len(tail) = Len(s) - 1 /\ \A i \in 1..Len(tail) : tail[i] = s[i + 1]
  BY <1>1
<1> HIDE DEF first, tail
<1>5. /\ first \o tail \in Seq(S) /\ Len(first \o tail) = Len(s)
      /\ \A i \in 1..Len(s) : (first \o tail)[i] = IF i <= 1 THEN first[i] ELSE tail[i - 1]
  <2>1. /\ first \o tail \in Seq(S) /\ Len(first \o tail) = Len(first) + Len(tail)
        /\ \A i \in 1..(Len(first) + Len(tail)) :
             (first \o tail)[i] = IF i <= Len(first) THEN first[i] ELSE tail[i - Len(first)]
    BY <1>3, ConcatProperties
  <2>2. Len(first) + Len(tail) = Len(s)
    BY <1>2, <1>3, <1>4
  <2> QED
    BY <1>3, <2>1, <2>2
<1>6. ASSUME NEW i \in 1..Len(s) PROVE (first \o tail)[i] = s[i]
  <2>1. CASE i = 1
    BY <1>2, <1>3, <1>5, <2>1
  <2>2. CASE i # 1
    <3>1. i - 1 \in 1..Len(tail) /\ (i - 1) + 1 = i /\ ~ (i <= 1)
      BY <1>2, <1>4, <2>2
    <3> QED
      BY <1>4, <1>5, <3>1
  <2> QED
    BY <2>1, <2>2
<1>7. s = first \o tail
  BY <1>5, <1>6, SeqEqual
<1> QED
  BY <1>7 DEF first, tail

\* The other writes go on with their sources.
LEMMA LocalDecodes ==
    ASSUME TypeInv, DecodeInv, kind # "upload", UNCHANGED Given,
           \/ Open /\ pc' = "writing"
           \/ WriteLocal /\ pc' # "cleanup"
    PROVE  DecodeInv'
<1>1. LocalInv /\ DecodedAsEncoded
  BY DEF DecodeInv
<1>2. kind' = kind /\ body' = body /\ given' = given
  BY DEF Given
<1>3. Target = FlattenSeq(given) /\ Target' = FlattenSeq(given)
  BY <1>2 DEF Target
<1>4. CASE Open /\ pc' = "writing"
  <2>1. /\ pc = "start" /\ temp' = [bytes |-> <<>>, synced |-> FALSE] /\ sources' = sources
        /\ call' = call
    BY <1>4 DEF Open, Goto, readerVars
  <2>2. FlattenSeq(given) \in Seq(Byte)
    BY FlattenTyped DEF TypeInv, TypeOK
  <2>3. <<>> \o FlattenSeq(given) = FlattenSeq(given)
    BY <2>2, ConcatEmptySeq
  <2>4. temp'.bytes \o FlattenSeq(sources') = FlattenSeq(given')
    BY <1>1, <1>2, <2>1, <2>3 DEF LocalInv
  <2>5. LocalInv'
    BY <1>4, <2>4 DEF LocalInv
  <2> QED
    BY <1>1, <1>2, <1>4, <2>1, <2>5 DEF DecodeInv, DecodedAsEncoded
<1>5. CASE WriteLocal /\ pc' # "cleanup"
  <2>1. /\ pc = "writing" /\ call' = call
        /\ temp.bytes \o FlattenSeq(sources) = FlattenSeq(given)
    BY <1>1, <1>5 DEF WriteLocal, readerVars, LocalInv
  <2>2. /\ temp \in File /\ temp.bytes \in Seq(Byte) /\ sources \in Seq(Seq(Byte))
    BY <2>1 DEF TypeInv, TypeOK, File
  <2>3. CASE sources = <<>>
    <3>1. pc' = "written" /\ temp' = temp
      BY <1>5, <2>3 DEF WriteLocal, TakeChunk, Goto
    <3>2. FlattenSeq(sources) = <<>>
      BY <2>3 DEF FlattenSeq
    <3>3. temp.bytes = FlattenSeq(given)
      BY <2>1, <2>2, <3>2, ConcatEmptySeq
    <3>4. LocalInv'
      BY <3>1 DEF LocalInv
    <3>5. temp'.bytes = Target'
      BY <1>3, <3>1, <3>3
    <3> QED
      BY <1>1, <1>2, <2>1, <3>4, <3>5 DEF DecodeInv, DecodedAsEncoded
  <2>4. CASE sources # <<>>
    <3> DEFINE head == Head(sources)
               tail == Tail(sources)
    <3>1. head \in Seq(Byte) /\ tail \in Seq(Seq(Byte)) /\ sources = <<head>> \o tail
      BY <2>2, <2>4, HeadTailProperties, HeadFirst
    <3>2. FlattenSeq(tail) \in Seq(Byte)
      BY <3>1, FlattenTyped
    <3>3. \A first \in Seq(Byte) : FlattenSeq(<<first>> \o tail) = first \o FlattenSeq(tail)
      BY <3>1, FlattenFirst
    <3>4. FlattenSeq(sources) = head \o FlattenSeq(tail)
      BY <3>1, <3>3
    <3>5. CASE head = <<>>
      <4>1. sources' = tail /\ temp' = temp /\ pc' = pc
        BY <1>5, <2>4, <3>5 DEF WriteLocal, NextSource
      <4> HIDE DEF head, tail
      <4>2. FlattenSeq(sources) = FlattenSeq(tail)
        BY <3>2, <3>4, <3>5, ConcatEmptySeq
      <4>3. LocalInv'
        BY <1>2, <2>1, <4>1, <4>2 DEF LocalInv
      <4> QED
        BY <1>1, <1>2, <2>1, <4>1, <4>3 DEF DecodeInv, DecodedAsEncoded
    <3>6. CASE head # <<>>
      <4> DEFINE taken == Taken(head, Chunk)
                 rest == Rest(head, Chunk)
      <4>1. sources' = <<rest>> \o tail /\ TakeChunk(taken)
        BY <1>5, <2>4, <3>6 DEF WriteLocal, ReadSource
      <4>2. Chunk \in Nat \ {0} /\ Len(head) \in Nat \ {0}
        BY <3>1, <3>6, LimitAssumption, EmptySeq
      <4> HIDE DEF head, tail
      <4>3. /\ taken \in Seq(Byte) /\ rest \in Seq(Byte) /\ head = taken \o rest
            /\ Len(taken) = IF Chunk < Len(head) THEN Chunk ELSE Len(head)
        BY <3>1, <4>2, CutIs
      <4> HIDE DEF taken, rest
      <4>4. taken # <<>>
        BY <4>2, <4>3, EmptySeq
      <4>5. pc' = "writing" /\ temp'.bytes = temp.bytes \o taken
        BY <1>5, <2>2, <4>1, <4>4 DEF TakeChunk, Goto, File
      <4>6. FlattenSeq(sources') = rest \o FlattenSeq(tail)
        BY <3>3, <4>1, <4>3
      <4>7. temp'.bytes \o FlattenSeq(sources') = FlattenSeq(given)
        <5>1. (temp.bytes \o taken) \o (rest \o FlattenSeq(tail))
                = temp.bytes \o (taken \o (rest \o FlattenSeq(tail)))
          <6>1. rest \o FlattenSeq(tail) \in Seq(Byte)
            BY <3>2, <4>3, ConcatProperties
          <6> DEFINE got == temp.bytes
                     later == rest \o FlattenSeq(tail)
          <6>2. got \in Seq(Byte) /\ taken \in Seq(Byte) /\ later \in Seq(Byte)
            BY <2>2, <4>3, <6>1
          <6> HIDE DEF got, later
          <6>3. (got \o taken) \o later = got \o (taken \o later)
            BY <6>2, ConcatAssociative
          <6> QED
            BY <6>3 DEF got, later
        <5>2. taken \o (rest \o FlattenSeq(tail)) = (taken \o rest) \o FlattenSeq(tail)
          BY <3>2, <4>3, ConcatAssociative
        <5> QED
          BY <2>1, <3>4, <4>3, <4>5, <4>6, <5>1, <5>2
      <4>8. LocalInv'
        BY <1>2, <4>5, <4>7 DEF LocalInv
      <4> QED
        BY <1>1, <1>2, <2>1, <4>5, <4>8 DEF DecodeInv, DecodedAsEncoded
    <3> QED
      BY <3>5, <3>6
  <2> QED
    BY <2>3, <2>4
<1> QED
  BY <1>4, <1>5

\* Every step keeps what is written as it was sent.
LEMMA DecodeStep == TypeInv /\ body \in Encoded /\ DecodeInv /\ [Next]_vars => DecodeInv'
<1> SUFFICES ASSUME TypeInv, body \in Encoded, DecodeInv, [Next]_vars PROVE DecodeInv'
  OBVIOUS
<1> USE DEF Goto, End, files
<1>0. UNCHANGED Given
  BY GivenFrame
<1>1. CASE RefuseDeclared
  BY <1>1, QuietDecodes DEF RefuseDeclared
<1>2. CASE Open
  <2>1. CASE pc' = "writing"
    BY <1>0, <1>2, <2>1, UploadDecodes, LocalDecodes
  <2>2. CASE pc' # "writing"
    BY <1>2, <2>2, QuietDecodes DEF Open
  <2> QED
    BY <2>1, <2>2
<1>3. CASE AskForChunk \/ ReadBody \/ LoseClient
  <2>1. kind = "upload"
    BY <1>3 DEF AskForChunk, ReadBody, LoseClient, DecodeInv, LocalInv
  <2> QED
    BY <1>0, <1>3, <2>1, UploadDecodes
<1>4. CASE WriteUpload
  <2>1. kind = "upload"
    BY <1>4 DEF WriteUpload, DecodeInv, LocalInv
  <2>2. CASE pc' = "cleanup"
    BY <1>4, <2>2, QuietDecodes DEF WriteUpload
  <2>3. CASE pc' # "cleanup"
    BY <1>0, <1>4, <2>1, <2>3, UploadDecodes
  <2> QED
    BY <2>2, <2>3
<1>5. CASE WriteLocal
  <2>1. kind # "upload"
    BY <1>5 DEF WriteLocal
  <2>2. CASE pc' = "cleanup"
    <3>1. UNCHANGED readerVars
      BY <1>5 DEF WriteLocal
    <3>2. DecodedAsEncoded'
      BY <1>0, <2>2, <3>1, ReadingFrame DEF DecodeInv, DecodedAsEncoded
    <3>3. LocalInv'
      BY <2>2 DEF LocalInv
    <3> QED
      BY <1>0, <2>1, <3>2, <3>3 DEF DecodeInv, Given
  <2>3. CASE pc' # "cleanup"
    BY <1>0, <1>5, <2>1, <2>3, LocalDecodes
  <2> QED
    BY <2>2, <2>3
<1>6. CASE SourceRaises
  BY <1>6, QuietDecodes DEF SourceRaises
<1>7. CASE Fsync
  <2>1. CASE pc' = "closed"
    <3>1. temp \in File /\ pc = "written" /\ temp' = Fsynced(temp)
      BY <1>7, <2>1 DEF Fsync, TypeInv
    <3>2. temp'.bytes = temp.bytes
      BY <3>1 DEF Fsynced, File
    <3> QED
      BY <1>7, <2>1, <3>1, <3>2, QuietDecodes DEF Fsync
  <2>2. CASE pc' # "closed"
    BY <1>7, <2>2, QuietDecodes DEF Fsync
  <2> QED
    BY <2>1, <2>2
<1>8. CASE Replace
  BY <1>8, QuietDecodes DEF Replace
<1>9. CASE FsyncDirectory \/ Cleanup \/ Cancel
  BY <1>9, QuietDecodes DEF FsyncDirectory, Cleanup, Cancel
<1>10. CASE Crash
  <2>1. pc' = "done"
    BY <1>10 DEF Crash
  <2> QED
    BY <1>10, <2>1, QuietDecodes DEF Crash
<1>11. CASE UNCHANGED vars
  BY <1>11, QuietDecodes DEF vars
<1> QED
  BY <1>1, <1>2, <1>3, <1>4, <1>5, <1>6, <1>7, <1>8, <1>9, <1>10, <1>11 DEF Next, Step

\* At the beginning nothing is decoded, written or read.
LEMMA DecodeInit == Init => DecodeInv
<1> SUFFICES ASSUME Init PROVE DecodeInv
  OBVIOUS
<1>1. ReaderInit(Encoded) /\ pc = "start" /\ sources = given
  BY DEF Init, InitFrom
<1>2. /\ body \in Encoded /\ arrived = 0 /\ buffer = <<>> /\ exhausted = FALSE
      /\ framed = <<>> /\ drained = FALSE /\ payload = <<>> /\ finished = FALSE
      /\ mode = "header" /\ call = "none"
  BY <1>1 DEF ReaderInit
<1>3. Len(buffer) = 0 /\ Len(framed) = 0 /\ Consumed = 0
  <2>1. Len(buffer) = 0 /\ Len(framed) = 0
    BY <1>2, EmptySeq
  <2>2. arrived = 0
    BY <1>2
  <2>3. arrived - Len(buffer) - Len(framed) = 0
    BY <2>1, <2>2
  <2> QED
    BY <2>1, <2>3 DEF Consumed
<1>4. Flow
  BY <1>2, <1>3, LimitAssumption DEF Flow
<1>5. Decoded(<<>>)
  <2>1. CASE body.framed
    <3>1. <<>> \o payload = <<>>
      <4>1. <<>> \in Seq(Byte) /\ <<>> \o <<>> = <<>>
        BY EmptySeq, ConcatEmptySeq
      <4> QED
        BY <1>2, <4>1
    <3>2. At(body, 0) = 0 /\ Payloads(body, 0) = <<>>
      BY <1>2, <2>1, SentNext, PayloadsNext
    <3>3. Frames(body) \in Nat /\ Length(body) \in Nat /\ 0 \in 0..Lines(body)
      <4>1. /\ Frames(body) \in Nat /\ Trailers(body) \in Nat /\ Length(body) \in Nat
            /\ Lines(body) = Frames(body) + Trailers(body) + 2
        BY <1>2, <2>1, Framed
      <4> QED
        BY <4>1
    <3>4. Matches(body, 0)
      BY <3>2, <3>3 DEF Matches
    <3>5. AtSize(0, <<>>)
      BY <1>2, <1>3, <3>2, <3>3 DEF AtSize
    <3> QED
      BY <2>1, <3>1, <3>3, <3>4, <3>5 DEF Decoded, Place
  <2>2. CASE ~ body.framed
    <3>1. Len(<<>>) = 0
      BY EmptySeq
    <3> QED
      BY <1>2, <1>3, <2>2, <3>1 DEF Decoded
  <2> QED
    BY <2>1, <2>2
<1>6. Reading(<<>>)
  BY <1>2, <1>4, <1>5 DEF Reading
<1>7. DecodedAsEncoded
  BY <1>1, <1>2 DEF DecodedAsEncoded
<1> QED
  BY <1>1, <1>2, <1>6, <1>7 DEF DecodeInv, UploadInv, LocalInv

\* The body is one of those the properties are about.
IsMeant == body \in Encoded

\* What is in the file when the stream is over is what the client put into its frames
\* (AwsChunkedReader, RequestBodyReader, _atomic_write_stream), however the body is cut
\* by the network, the reads and the chunks, however its sizes are spelled, and whatever
\* bytes it holds: a body that ends or strays anywhere but where a line could begin is
\* never stored, and one that has its last frame is refused only if it is too large or has
\* a line at the limit. What strays is a line that is no size to the code, or does not
\* end. Two kinds of bodies are out of this statement, and the code stores both, as
\* OnlyWholePayloadIsStored shows: those that end between two frames, where it says only
\* that the frames until there are stored, and those with a negative size, which are not
\* in Encoded.
THEOREM DecodesAsEncoded == Spec => []DecodedAsEncoded
<1>1. Init => TypeInv /\ IsMeant /\ DecodeInv
  BY EncodedTypeInit, DecodeInit DEF Init, InitFrom, ReaderInit, IsMeant
<1>2. TypeInv /\ IsMeant /\ DecodeInv /\ [Next]_vars => TypeInv' /\ IsMeant' /\ DecodeInv'
  BY TypeStep, DecodeStep, GivenFrame DEF Given, IsMeant
<1>3. DecodeInv => DecodedAsEncoded
  BY DEF DecodeInv
<1> QED
  BY <1>1, <1>2, <1>3, PTL DEF Spec

------------------------------------------------------------------------------
(* The write is atomic.                                                     *)

\* Only a file that was fsynced, and is whole, replaces the destination.
Durable ==
    /\ value.synced = TRUE /\ disk.synced = TRUE
    /\ pc \in {"writing", "waiting", "written", "closed"} =>
         temp = [bytes |-> temp.bytes, synced |-> temp.synced]
    /\ pc = "closed" => temp.synced = TRUE
    /\ pc = "replaced" => value.bytes = Target
    /\ pc = "done" <=> result # "pending"
    /\ result \in Result
    /\ TempInv

\* Before the write has ended and the file is replaced, its status says so.
LEMMA StatusOf ==
    /\ result = "pending" => Status \in {"writing", "published"}
    /\ result = "pending" /\ pc \notin {"replaced", "cleanup"} => Status = "writing"
    /\ result = "pending" /\ Status = "published" => value.bytes = Target /\ temp = None
    /\ result = "pending" /\ pc \in {"replaced", "cleanup"} /\ temp = None /\ value.bytes = Target =>
         Status = "published"
    /\ result = "ok" => Status = "ok"
    /\ result = "dead" => Status = "dead"
    /\ result \in {"error", "uncleaned", "cancelled"} => Status = "failed"
<1>1. CASE result = "pending" /\ pc \in {"replaced", "cleanup"} /\ temp = None /\ value.bytes = Target
  BY <1>1 DEF Status
<1>2. CASE result = "pending" /\ ~ (pc \in {"replaced", "cleanup"} /\ temp = None /\ value.bytes = Target)
  BY <1>2 DEF Status
<1>3. CASE result # "pending"
  BY <1>3 DEF Status
<1> QED
  BY <1>1, <1>2, <1>3

\* The same of the next state.
LEMMA StatusNext ==
    /\ result' = "pending" => Status' \in {"writing", "published"}
    /\ result' = "pending" /\ pc' \notin {"replaced", "cleanup"} => Status' = "writing"
    /\ result' = "pending" /\ Status' = "published" => value'.bytes = Target' /\ temp' = None
    /\ result' = "pending" /\ pc' \in {"replaced", "cleanup"} /\ temp' = None /\ value'.bytes = Target' =>
         Status' = "published"
    /\ result' = "ok" => Status' = "ok"
    /\ result' = "dead" => Status' = "dead"
    /\ result' \in {"error", "uncleaned", "cancelled"} => Status' = "failed"
<1>1. CASE result' = "pending" /\ pc' \in {"replaced", "cleanup"} /\ temp' = None /\ value'.bytes = Target'
  BY <1>1 DEF Status
<1>2. CASE result' = "pending" /\ ~ (pc' \in {"replaced", "cleanup"} /\ temp' = None /\ value'.bytes = Target')
  BY <1>2 DEF Status
<1>3. CASE result' # "pending"
  BY <1>3 DEF Status
<1> QED
  BY <1>1, <1>2, <1>3

\* A call that raises, or one that only moves on: the destination stays, and if it is
\* what was to be written anyway, readers see that from here on.
LEMMA Onward ==
    ASSUME Durable, [Next]_vars, UNCHANGED <<value, disk>>,
           result = "pending", result' = "pending", Status = "published" => Status' = "published"
    PROVE  [Atomic!Next]_(Atomic!vars)
<1>1. Target' = Target
  BY TargetFrame
<1>2. Status' = Status \/ (Status = "writing" /\ Status' = "published" /\ value'.bytes = Target)
  BY <1>1, StatusOf, StatusNext
<1> QED
  BY <1>1, <1>2 DEF Atomic!Next, Atomic!Publish, Atomic!vars

\* The write ends without having returned.
LEMMA Failing ==
    ASSUME [Next]_vars, UNCHANGED <<value, disk>>,
           result = "pending", result' \in {"error", "uncleaned", "cancelled"}
    PROVE  [Atomic!Next]_(Atomic!vars)
<1>1. Target' = Target
  BY TargetFrame
<1>2. Status \in {"writing", "published"} /\ Status' = "failed"
  BY StatusOf, StatusNext
<1> QED
  BY <1>1, <1>2 DEF Atomic!Next, Atomic!Fail

\* Every step of a write whose readers decode correctly is a step of an atomic one.
LEMMA AtomicStep ==
    ASSUME Durable, DecodedAsEncoded, [Next]_vars
    PROVE  Durable' /\ [Atomic!Next]_(Atomic!vars)
<1>1. Target' = Target /\ TempInv'
  BY TargetFrame, TempStep DEF Durable
<1> USE DEF Goto, End, files
<1>2. CASE UNCHANGED vars
  <2>1. Status' = Status
    BY <1>1, <1>2 DEF Status, vars, files
  <2> QED
    BY <1>1, <1>2, <2>1 DEF Durable, Atomic!vars, vars
<1>3. CASE RefuseDeclared
  <2>1. Durable' /\ result = "pending" /\ result' = "error" /\ UNCHANGED <<value, disk>>
    BY <1>1, <1>3 DEF RefuseDeclared, Durable, Result
  <2> QED
    BY <2>1, Failing
<1>4. CASE Open
  <2>1. /\ Durable' /\ result = "pending" /\ result' = "pending" /\ UNCHANGED <<value, disk>>
        /\ pc = "start"
    BY <1>1, <1>4 DEF Open, Durable
  <2> QED
    BY <2>1, Onward, StatusOf
<1>5. CASE AskForChunk \/ ReadBody \/ LoseClient
  <2>1. /\ Durable' /\ result = "pending" /\ result' = "pending" /\ UNCHANGED <<value, disk>>
        /\ pc \in {"writing", "waiting"}
    BY <1>1, <1>5 DEF AskForChunk, ReadBody, LoseClient, Durable
  <2> QED
    BY <2>1, Onward, StatusOf
<1>6. ASSUME NEW chunk, TakeChunk(chunk), pc \in {"writing", "waiting"}, UNCHANGED <<value, disk>>
      PROVE  Durable' /\ [Atomic!Next]_(Atomic!vars)
  <2>1. /\ Durable' /\ result = "pending" /\ result' = "pending" /\ UNCHANGED <<value, disk>>
        /\ pc \in {"writing", "waiting"}
    BY <1>1, <1>6 DEF TakeChunk, Durable
  <2> QED
    BY <2>1, Onward, StatusOf
<1>7. CASE WriteUpload
  BY <1>6, <1>7 DEF WriteUpload
<1>8. CASE WriteLocal
  <2>1. CASE \E chunk : TakeChunk(chunk)
    BY <1>6, <1>8, <2>1 DEF WriteLocal, ReadSource, NextSource
  <2>2. CASE UNCHANGED <<temp, pc, result>>
    <3>1. /\ Durable' /\ result = "pending" /\ result' = "pending" /\ UNCHANGED <<value, disk>>
          /\ pc = "writing"
      BY <1>1, <1>8, <2>2 DEF WriteLocal, ReadSource, NextSource, Durable
    <3> QED
      BY <3>1, Onward, StatusOf
  <2> QED
    BY <1>8, <2>1, <2>2 DEF WriteLocal, ReadSource, NextSource
<1>9. CASE SourceRaises \/ Fsync
  <2>1. /\ Durable' /\ result = "pending" /\ result' = "pending" /\ UNCHANGED <<value, disk>>
        /\ pc \in {"writing", "waiting", "written"}
    BY <1>1, <1>9 DEF SourceRaises, Fsync, Fsynced, Durable
  <2> QED
    BY <2>1, Onward, StatusOf
<1>10. CASE Replace
  <2>1. CASE UNCHANGED <<temp, value>> /\ pc' = "cleanup" /\ result' = result
    <3>1. /\ Durable' /\ result = "pending" /\ result' = "pending" /\ UNCHANGED <<value, disk>>
          /\ pc = "closed"
      BY <1>1, <1>10, <2>1 DEF Replace, Durable
    <3> QED
      BY <3>1, Onward, StatusOf
  <2>2. CASE value' = temp /\ temp' = None /\ pc' = "replaced" /\ result' = result
    <3>1. temp.bytes = Target /\ temp.synced = TRUE /\ pc = "closed"
      BY <1>10 DEF Replace, Durable, DecodedAsEncoded
    <3>2. /\ value'.bytes = Target /\ value'.synced = TRUE /\ disk' = disk /\ temp' = None
          /\ pc' = "replaced" /\ result = "pending" /\ result' = "pending"
      BY <1>10, <2>2, <3>1 DEF Replace, Durable
    <3>3. Status = "writing" /\ Status' = "published"
      BY <1>1, <3>1, <3>2, StatusOf, StatusNext
    <3>4. Durable'
      BY <1>1, <3>2 DEF Durable
    <3> QED
      BY <1>1, <3>2, <3>3, <3>4 DEF Atomic!Next, Atomic!Publish
  <2> QED
    BY <1>10, <2>1, <2>2 DEF Replace
<1>11. CASE FsyncDirectory
  <2>1. /\ pc = "replaced" /\ temp = None /\ temp' = None /\ value' = value /\ value.bytes = Target
        /\ result = "pending"
    BY <1>11 DEF FsyncDirectory, Durable, TempInv
  <2>2. Durable'
    BY <1>1, <1>11, <2>1 DEF FsyncDirectory, Durable, Result
  <2>3. CASE UNCHANGED disk /\ pc' = "cleanup" /\ result' = result
    BY <2>1, <2>2, <2>3, <1>1, Onward, StatusNext
  <2>4. CASE disk' = value /\ result' = "ok"
    <3>1. Status = "published" /\ Status' = "ok"
      BY <2>1, <2>4, StatusOf, StatusNext
    <3> QED
      BY <1>1, <2>1, <2>2, <2>4, <3>1 DEF Atomic!Next, Atomic!Return
  <2> QED
    BY <1>11, <2>3, <2>4 DEF FsyncDirectory
<1>12. CASE Cleanup
  <2>1. /\ Durable' /\ result = "pending" /\ result' \in {"error", "uncleaned"}
        /\ UNCHANGED <<value, disk>>
    BY <1>1, <1>12 DEF Cleanup, Durable, Result
  <2> QED
    BY <2>1, Failing
<1>13. CASE Cancel
  <2>1. Durable' /\ result = "pending" /\ result' = "cancelled" /\ UNCHANGED <<value, disk>>
    BY <1>1, <1>13 DEF Cancel, Durable, Result
  <2> QED
    BY <2>1, Failing
<1>14. CASE Crash
  <2>0. PICK file \in {value, disk} : \E bytes \in Survivors(file) :
           value' = [bytes |-> bytes, synced |-> TRUE]
    BY <1>14 DEF Crash
  <2>1. PICK bytes \in Survivors(file) : value' = [bytes |-> bytes, synced |-> TRUE]
    BY <2>0
  <2>2. bytes = file.bytes
    BY <2>1 DEF Durable, Survivors
  <2>3. /\ value'.bytes \in {value.bytes, disk.bytes} /\ disk' = value'
        /\ value'.synced = TRUE
    BY <1>14, <2>1, <2>2 DEF Crash
  <2>4. pc' = "done" /\ result' = IF pc = "done" THEN result ELSE "dead"
    BY <1>14 DEF Crash
  <2>5. Durable'
    BY <1>1, <2>3, <2>4 DEF Durable, Result
  <2>6. Status' = IF Status \in {"writing", "published"} THEN "dead" ELSE Status
    BY <2>4, StatusOf, StatusNext DEF Durable, Result
  <2> QED
    BY <1>1, <2>3, <2>5, <2>6 DEF Atomic!Next, Atomic!Crash
<1> QED
  BY <1>2, <1>3, <1>4, <1>5, <1>7, <1>8, <1>9, <1>10, <1>11, <1>12, <1>13, <1>14 DEF Next, Step

\* A write is atomic and durable (the docstring of _atomic_write_stream): readers and
\* restarts find the old content or the whole of the new one, and the new one for good
\* once it has returned; whatever raises, wherever the body ends, for any content.
THEOREM WriteIsAtomic == Spec => ImplementsAtomicFile
<1>1. Init => Durable /\ Atomic!Init
  BY DEF Init, InitFrom, Durable, TempInv, TempIsRemoved, Result, Atomic!Init, Status
<1>2. Durable /\ DecodedAsEncoded /\ [Next]_vars => Durable' /\ [Atomic!Next]_(Atomic!vars)
  BY AtomicStep
<1> QED
  BY <1>1, <1>2, DecodesAsEncoded, PTL DEF Spec, ImplementsAtomicFile, Atomic!Spec

=============================================================================
