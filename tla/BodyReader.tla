----------------------------- MODULE BodyReader ------------------------------
(****************************************************************************)
(* app/streams.py: the body of one upload, as it is read from the network,   *)
(* with or without aws-chunked framing around it.                           *)
(*                                                                          *)
(* RequestBodyReader fills `buffer` from whatever pieces the server hands   *)
(* over; AwsChunkedReader moves it to `framed` one read at a time, and out  *)
(* of the frames to `payload`.  Between two awaits the code is              *)
(* deterministic: a step here is one turn of one of its loops.  A body is a *)
(* sequence of bytes; a byte is a hexadecimal digit, written as its value,  *)
(* one that means something in a line, or one of the others.                *)
(****************************************************************************)
EXTENDS Integers, SequencesExt

CONSTANTS
    CR, LF, Semi,  \* the bytes of "\r\n", and ";"
    Space,         \* the other bytes that bytes.strip() strips
    Minus, Plus,   \* the signs of int()
    Under, Ex,     \* "_" between digits, and the x of "0x"
    Other,         \* the other bytes
    Body,          \* the bodies clients send: records of bytes, framed and declared
    Unknown,       \* a length that no header declares
    Chunk,         \* FILE_CHUNK_SIZE_BYTES
    LineMax,       \* _CHUNK_LINE_MAX_BYTES
    MaxBytes       \* max_bytes: the largest body allowed

Digit == 0..15
Byte == Digit \cup {CR, LF, Semi, Space, Minus, Plus, Under, Ex} \cup Other

ASSUME LimitAssumption ==
    Chunk \in Nat \ {0} /\ LineMax \in Nat \ {0} /\ MaxBytes \in Nat
ASSUME BodyAssumption ==
    \A b \in Body : /\ b.bytes \in Seq(Byte)
                    /\ b.framed \in BOOLEAN
                    /\ b.declared \in Nat \cup {Unknown}
ASSUME UnknownAssumption == Unknown \notin Nat

VARIABLES
    body,       \* the body being sent
    arrived,    \* RequestBodyReader._received: how much of it is here
    buffer,     \* RequestBodyReader._buffer
    exhausted,  \* RequestBodyReader._exhausted
    framed,     \* AwsChunkedReader._framed
    drained,    \* AwsChunkedReader._drained
    payload,    \* AwsChunkedReader._payload
    finished,   \* AwsChunkedReader._finished
    mode,       \* where AwsChunkedReader is in a frame
    need,       \* the bytes _read_exact is asked for
    call,       \* the read() the caller is in: "none", "reading", or how it raised
    data        \* what the last read() returned

wire       == <<body, arrived, buffer, exhausted>>
decoder    == <<framed, drained, payload, finished, mode, need>>
readerVars == <<wire, decoder, call, data>>

ReaderTypeOK ==
    /\ body \in Body
    /\ arrived \in 0..Len(body.bytes)
    /\ buffer \in Seq(Byte) /\ framed \in Seq(Byte) /\ payload \in Seq(Byte)
    /\ exhausted \in BOOLEAN /\ drained \in BOOLEAN /\ finished \in BOOLEAN
    /\ mode \in {"header", "payload", "crlf", "trailer"}
    /\ need \in Int
    /\ call \in {"none", "reading", "refused", "gone"}
    /\ data \in Seq(Byte)

\* build_body_reader: both readers empty, before the first read.
ReaderInit(bodies) ==
    /\ body \in bodies
    /\ arrived = 0 /\ buffer = <<>> /\ exhausted = FALSE
    /\ framed = <<>> /\ drained = FALSE /\ payload = <<>> /\ finished = FALSE
    /\ mode = "header" /\ need = 0
    /\ call = "none" /\ data = <<>>

\* _assert_declared_length, from x-amz-decoded-content-length or Content-Length.
DeclaredTooLarge == body.declared # Unknown /\ body.declared > MaxBytes

\* Where buf[:n] ends: a negative n counts from the end of the buffer.
Upto(buf, n) ==
    CASE n > Len(buf) -> Len(buf)
      [] 0 <= n /\ n <= Len(buf) -> n
      [] n < 0 /\ Len(buf) + n >= 0 -> Len(buf) + n
      [] OTHER -> 0

\* bytes(buf[:n]) and del buf[:n].
Taken(buf, n) == SubSeq(buf, 1, Upto(buf, n))
Rest(buf, n) == SubSeq(buf, Upto(buf, n) + 1, Len(buf))

\* S3ObjectTooLargeError or S3ObjectBodyIncompleteError.
Refuse == call' = "refused" /\ UNCHANGED data

------------------------------------------------------------------------------
(* AwsChunkedReader.                                                        *)

\* Where the first CRLF of the framed buffer begins.
LineEnds == {i \in 1..(Len(framed) - 1) : framed[i] = CR /\ framed[i + 1] = LF}
LineEnd == CHOOSE i \in LineEnds : \A j \in LineEnds : i <= j

Decoding == call = "reading" /\ body.framed

\* The condition of the loop in read(): tested between two frames only.
Satisfied == mode = "header" /\ (finished \/ Len(payload) >= Chunk)

InLine == Decoding /\ ~ Satisfied /\ mode \in {"header", "trailer"}
InExact == Decoding /\ mode \in {"payload", "crlf"}

\* _receive of the chunked reader is awaiting its source.
Starving ==
    \/ InLine /\ LineEnds = {} /\ Len(framed) <= LineMax /\ ~ drained
    \/ InExact /\ Len(framed) < need /\ ~ drained

\* line.split(b";", 1)[0]
Field(line) ==
    LET semis == {i \in DOMAIN line : line[i] = Semi}
    IN  IF semis = {} THEN line ELSE SubSeq(line, 1, Min(semis) - 1)

\* bytes.strip()
Blank == {CR, LF, Space}
Stripped(text) ==
    LET solid == {i \in DOMAIN text : text[i] \notin Blank}
    IN  IF solid = {} THEN <<>> ELSE SubSeq(text, Min(solid), Max(solid))

\* A text without its sign.
Unsigned(text) == IF text # <<>> /\ text[1] \in {Minus, Plus} THEN Tail(text) ELSE text

\* What int(text, 16) takes for a number: digits, after "0x" or not, and single
\* underscores between them.
IsNumeral(text) ==
    /\ text # <<>> /\ text[1] \in Digit /\ text[Len(text)] \in Digit
    /\ \A i \in DOMAIN text :
         \/ text[i] \in Digit
         \/ text[i] = Ex /\ i = 2 /\ text[1] = 0
         \/ text[i] = Under /\ text[i - 1] # Under

\* Its value: what is no digit does not count.
Magnitude(text) ==
    LET m[i \in 0..Len(text)] ==
          IF i = 0 THEN 0
          ELSE IF text[i] \in Digit THEN 16 * m[i - 1] + text[i] ELSE m[i - 1]
    IN  m[Len(text)]

\* _parse_frame_size: int(line.split(b";", 1)[0].strip(), 16), which may be negative.
HasSize(line) == IsNumeral(Unsigned(Stripped(Field(line))))
FrameSize(line) ==
    LET text == Stripped(Field(line))
    IN  IF text[1] = Minus THEN - Magnitude(Tail(text)) ELSE Magnitude(Unsigned(text))

\* _read_line found a line, and _decode_frame or _skip_trailer what it is.
ReadLine ==
    /\ InLine /\ LineEnds # {}
    /\ LET line == SubSeq(framed, 1, LineEnd - 1)
           isSize == mode = "header" /\ line # <<>>
       IN  /\ framed' = Rest(framed, LineEnd + 1)
           /\ IF isSize /\ ~ HasSize(line)
                THEN Refuse /\ UNCHANGED <<mode, need, finished>>
                ELSE /\ UNCHANGED <<call, data>>
                     /\ CASE mode = "header" /\ line = <<>> ->
                               UNCHANGED <<mode, need, finished>>
                          [] isSize /\ FrameSize(line) # 0 ->
                               mode' = "payload" /\ need' = FrameSize(line) /\ UNCHANGED finished
                          [] isSize /\ FrameSize(line) = 0 ->
                               mode' = "trailer" /\ UNCHANGED <<need, finished>>
                          [] mode = "trailer" /\ line = <<>> ->
                               mode' = "header" /\ finished' = TRUE /\ UNCHANGED need
                          [] OTHER -> UNCHANGED <<mode, need, finished>>
    /\ UNCHANGED <<wire, drained, payload>>

\* _read_line finds no line: it is too long, or the framed body has ended, which
\* is the end of the payload only where a line would begin.
NoLine ==
    /\ InLine /\ LineEnds = {}
    /\ drained \/ Len(framed) > LineMax
    /\ IF framed # <<>>
         THEN Refuse /\ UNCHANGED <<mode, finished>>
         ELSE mode' = "header" /\ finished' = TRUE /\ UNCHANGED <<call, data>>
    /\ UNCHANGED <<wire, framed, drained, payload, need>>

\* (mutant) The CRLF after the payload of a frame is left in the buffer.
AfterPayloadNothing == mode' = "header" /\ need' = 0

\* The CRLF after the payload of a frame is read as two bytes of any kind.
AfterPayload == mode' = "crlf" /\ need' = 2

\* _read_exact, of the payload of a frame and of the CRLF after it.
ReadExact ==
    /\ InExact /\ Len(framed) >= need
    /\ framed' = Rest(framed, need)
    /\ IF mode = "payload"
         THEN payload' = payload \o Taken(framed, need) /\ AfterPayload
         ELSE mode' = "header" /\ need' = 0 /\ UNCHANGED payload
    /\ UNCHANGED <<wire, drained, finished, call, data>>

\* _read_exact when the body ends inside of what it reads.
CutShort ==
    /\ InExact /\ Len(framed) < need /\ drained
    /\ Refuse
    /\ UNCHANGED <<wire, decoder>>

------------------------------------------------------------------------------
(* RequestBodyReader.                                                       *)

\* Its read(Chunk) is running: for the caller, or for the chunked reader.
Requested == IF body.framed THEN Starving ELSE call = "reading"

\* Its loop goes on.
Incomplete == ~ exhausted /\ Len(buffer) < Chunk

TooLarge(n) == arrived + n > MaxBytes

\* _receive: the server hands over the next n bytes, or says that none are left.
Receive(n) ==
    /\ Requested /\ Incomplete
    /\ arrived + n <= Len(body.bytes)
    /\ arrived' = arrived + n
    /\ IF TooLarge(n)
         THEN Refuse /\ UNCHANGED buffer
         ELSE /\ buffer' = buffer \o SubSeq(body.bytes, arrived + 1, arrived + n)
              /\ UNCHANGED <<call, data>>
    /\ UNCHANGED <<body, exhausted, decoder>>

\* (mutant) StopAsyncIteration is passed over.
EndOfBodyUnseen == Requested /\ Incomplete /\ arrived = Len(body.bytes) /\ UNCHANGED readerVars

EndOfBody ==
    /\ Requested /\ Incomplete
    /\ arrived = Len(body.bytes)
    /\ exhausted' = TRUE
    /\ UNCHANGED <<body, arrived, buffer, decoder, call, data>>

\* The client goes away: the stream raises ClientDisconnect.
Disconnect ==
    /\ Requested /\ Incomplete
    /\ call' = "gone"
    /\ UNCHANGED <<wire, decoder, data>>

\* The chunked reader gets what its _receive asked for; nothing is the end.
Feed ==
    /\ Starving /\ ~ Incomplete
    /\ buffer' = Rest(buffer, Chunk)
    /\ framed' = framed \o Taken(buffer, Chunk)
    /\ drained' = (buffer = <<>>)
    /\ UNCHANGED <<body, arrived, exhausted, payload, finished, mode, need, call, data>>

------------------------------------------------------------------------------
(* The interface: read(Chunk).                                              *)

Ask ==
    /\ call = "none"
    /\ call' = "reading"
    /\ UNCHANGED <<wire, decoder, data>>

\* read() of the chunked reader returns.
ReturnPayload ==
    /\ Decoding /\ Satisfied
    /\ data' = Taken(payload, Chunk)
    /\ payload' = Rest(payload, Chunk)
    /\ call' = "none"
    /\ UNCHANGED <<wire, framed, drained, finished, mode, need>>

\* read() of the plain reader returns.
ReturnBuffer ==
    /\ call = "reading" /\ ~ body.framed /\ ~ Incomplete
    /\ data' = Taken(buffer, Chunk)
    /\ buffer' = Rest(buffer, Chunk)
    /\ call' = "none"
    /\ UNCHANGED <<body, arrived, exhausted, decoder>>

\* A step of the readers while read() is running and the client stays.
ReaderStep ==
    \/ ReadLine \/ NoLine \/ ReadExact \/ CutShort
    \/ \E n \in 1..Len(body.bytes) : Receive(n)
    \/ EndOfBody \/ Feed
    \/ ReturnPayload \/ ReturnBuffer

=============================================================================
