------------------------------- MODULE Ingest --------------------------------
(****************************************************************************)
(* app/repositories/io.py: the atomic write of one file, and what it is fed *)
(* with: the body of a request (upload, through BodyReader), bytes in       *)
(* memory (write), or other files (copy, concat).                           *)
(*                                                                          *)
(* The file system keeps apart what readers see and what a crash brings     *)
(* back: the bytes of a file are safe after its fsync, its name after the   *)
(* fsync of the directory.                                                  *)
(****************************************************************************)
EXTENDS BodyReader

CONSTANTS
    Local,       \* what write, copy and concat are given: sequences of contents
    Old,         \* the content of the destination before the write
    None,        \* no file
    MaxFaults    \* bound: how many calls raise

ASSUME LocalAssumption == Local \subseteq Seq(Seq(Byte)) /\ Old \in Seq(Byte)
ASSUME FaultAssumption == MaxFaults \in Nat

------------------------------------------------------------------------------
(* What clients send.                                                       *)

Crlf == <<CR, LF>>

Frames(b) == Len(b.frames)

\* The size of a frame, and the size that ends them.
Size(b, i) == IF i <= Frames(b) THEN Len(b.frames[i]) ELSE 0

\* The lines of a framed body: a size, as the client spells it, and what else it says of
\* the frame; the trailer, and an empty line.
Line(b, i) ==
    IF i <= Frames(b) + 1 THEN b.sizes[i] \o b.extensions[i]
    ELSE IF i <= Frames(b) + 1 + Len(b.trailer) THEN b.trailer[i - Frames(b) - 1]
    ELSE <<>>

Lines(b) == Frames(b) + Len(b.trailer) + 2

\* A line, and the frame that it begins.
Piece(b, i) ==
    Line(b, i) \o Crlf \o (IF i <= Frames(b) THEN b.frames[i] \o Crlf ELSE <<>>)

\* The first n pieces of a framed body.
Sent(b, n) == FlattenSeq([i \in 1..n |-> Piece(b, i)])

\* A body that ends where a line could begin, one that has its last frame, the empty one,
\* and one with a line at the limit.
Whole(b)    == b.framed => \E n \in 0..Lines(b) : b.bytes = Sent(b, n)
Complete(b) == b.framed => \E n \in (Frames(b) + 1)..Lines(b) : b.bytes = Sent(b, n)
Long(b)     == b.framed /\ \E i \in 1..Lines(b) : Len(Line(b, i)) >= LineMax

OneLine(line) == \A i \in 1..(Len(line) - 1) : line[i] # CR \/ line[i + 1] # LF

Sized(b) ==
    /\ b.frames \in Seq(Seq(Byte)) /\ \A i \in 1..Frames(b) : b.frames[i] # <<>>
    /\ b.sizes \in Seq(Seq(Byte)) /\ Len(b.sizes) = Frames(b) + 1
    /\ b.extensions \in Seq(Seq(Byte)) /\ Len(b.extensions) = Frames(b) + 1
    /\ \A i \in 1..(Frames(b) + 1) :
         /\ \A k \in DOMAIN b.sizes[i] : b.sizes[i][k] # Semi
         /\ HasSize(b.sizes[i]) /\ FrameSize(b.sizes[i]) = Size(b, i)
         /\ b.extensions[i] = <<>> \/ b.extensions[i][1] = Semi
         /\ OneLine(b.sizes[i] \o b.extensions[i])
    /\ b.trailer \in Seq(Seq(Byte))
    /\ \A i \in DOMAIN b.trailer : OneLine(b.trailer[i]) /\ b.trailer[i] # <<>>

\* Where a size should be, after n pieces, there is another line, which is none or does
\* not end.
StraysAfter(b, n) ==
    LET strayed == Sent(b, n) \o b.stray
    IN  b.bytes = strayed \/ (~ HasSize(b.stray) /\ IsPrefix(strayed \o Crlf, b.bytes))

\* A framed body is encoded as AWS SDKs do, but may be cut or stray anywhere.
IsEncoded(b) == b.framed =>
    /\ Sized(b)
    /\ \/ IsPrefix(b.bytes, Sent(b, Lines(b)))
       \/ /\ b.stray \in Seq(Byte) \ {<<>>} /\ OneLine(b.stray)
          /\ \E n \in 0..Frames(b) : StraysAfter(b, n)

Encoded == {b \in Body : IsEncoded(b)}

ASSUME ByteAssumption ==
    LET special == <<CR, LF, Semi, Space, Minus, Plus, Under, Ex>>
    IN  /\ \A i, j \in DOMAIN special : special[i] = special[j] => i = j
        /\ \A i \in DOMAIN special : special[i] \notin Digit \cup Other
        /\ Digit \cap Other = {}

VARIABLES
    kind,        \* "upload", "write" or "copy" (also concat)
    given,       \* the contents to write, for the last two
    sources,     \* what is left of them to read
    temp,        \* the temporary file: its bytes, and whether they are fsynced
    value,       \* the destination as readers see it
    disk,        \* the destination as the directory was last fsynced
    pc,          \* where the write is
    result,      \* how it ended
    faults,      \* how many calls raised so far
    crashed      \* the machine stopped

files == <<temp, value, disk>>
vars  == <<readerVars, kind, given, sources, files, pc, result, faults, crashed>>

File == [bytes : Seq(Byte), synced : BOOLEAN]

Result == {"pending", "ok", "error", "uncleaned", "cancelled", "dead"}

TypeOK ==
    /\ ReaderTypeOK
    /\ kind \in {"upload", "write", "copy"}
    /\ given \in Seq(Seq(Byte)) /\ sources \in Seq(Seq(Byte))
    /\ temp \in File \cup {None}
    /\ value \in File /\ disk \in File
    /\ pc \in {"start", "writing", "waiting", "written", "closed", "replaced", "cleanup", "done"}
    /\ result \in Result
    /\ faults \in 0..MaxFaults
    /\ crashed \in BOOLEAN

\* A write that is fed by one of the bodies, or by contents that are here.
InitFrom(bodies) ==
    /\ ReaderInit(bodies)
    /\ \/ kind = "upload" /\ given = <<>>
       \/ kind \in {"write", "copy"} /\ given \in Local /\ body = CHOOSE b \in bodies : TRUE
    /\ sources = given
    /\ temp = None
    /\ value = [bytes |-> Old, synced |-> TRUE] /\ disk = value
    /\ pc = "start" /\ result = "pending"
    /\ faults = 0 /\ crashed = FALSE

\* The bodies the properties are about.
Init == InitFrom(Encoded)

Goto(label) == pc' = label /\ UNCHANGED result
End(how) == pc' = "done" /\ result' = how

\* A call that touches the disk raises before it did anything.
Fault == faults < MaxFaults /\ faults' = faults + 1
NoFault == UNCHANGED faults

------------------------------------------------------------------------------
(* _atomic_write_stream.                                                    *)

\* The router builds the reader before the service opens any file.
RefuseDeclared ==
    /\ pc = "start" /\ kind = "upload" /\ DeclaredTooLarge
    /\ End("error")
    /\ UNCHANGED <<readerVars, kind, given, sources, files, faults, crashed>>

\* aiofiles.open of _build_temp_path, a name nobody else has.
Open ==
    /\ pc = "start" /\ ~ (kind = "upload" /\ DeclaredTooLarge)
    /\ \/ NoFault /\ Goto("writing") /\ temp' = [bytes |-> <<>>, synced |-> FALSE]
       \/ Fault /\ Goto("cleanup") /\ UNCHANGED temp
    /\ UNCHANGED <<readerVars, kind, given, sources, value, disk, crashed>>

\* data_iter of upload: file.read(FILE_CHUNK_SIZE_BYTES).
AskForChunk ==
    /\ pc = "writing" /\ kind = "upload"
    /\ Ask
    /\ Goto("waiting")
    /\ UNCHANGED <<kind, given, sources, files, faults, crashed>>

\* The readers work while the write waits for them.
ReadBody ==
    /\ pc = "waiting"
    /\ ReaderStep
    /\ UNCHANGED <<kind, given, sources, files, pc, result, faults, crashed>>

\* `async for chunk in data`: a chunk is written, or the stream is over.
TakeChunk(chunk) ==
    IF chunk = <<>>
      THEN NoFault /\ Goto("written") /\ UNCHANGED temp
      ELSE \/ NoFault /\ Goto("writing") /\ temp' = [temp EXCEPT !.bytes = @ \o chunk]
           \/ Fault /\ Goto("cleanup") /\ UNCHANGED temp

WriteUpload ==
    /\ pc = "waiting" /\ call = "none"
    /\ TakeChunk(data)
    /\ UNCHANGED <<readerVars, kind, given, sources, value, disk, crashed>>

\* iter_read: the next chunk of the source.
ReadSource ==
    /\ sources' = <<Rest(Head(sources), Chunk)>> \o Tail(sources)
    /\ TakeChunk(Taken(Head(sources), Chunk))

\* sources_iter of concat: a source is over.
NextSource ==
    /\ sources' = Tail(sources)
    /\ NoFault /\ UNCHANGED <<temp, pc, result>>

\* write, copy and concat: the stream is over with its last source.
WriteLocal ==
    /\ pc = "writing" /\ kind # "upload"
    /\ \/ sources = <<>> /\ TakeChunk(<<>>) /\ UNCHANGED sources
       \/ sources # <<>> /\ Head(sources) = <<>> /\ NextSource
       \/ sources # <<>> /\ Head(sources) # <<>> /\ ReadSource
    /\ UNCHANGED <<readerVars, kind, given, value, disk, crashed>>

\* (mutant) Only errors of the operating system are cleaned up after.
SourceRaisesPast ==
    /\ \/ pc = "waiting" /\ call \in {"refused", "gone"} /\ NoFault /\ End("error")
       \/ pc = "writing" /\ kind = "copy" /\ Fault /\ Goto("cleanup")
    /\ UNCHANGED <<readerVars, kind, given, sources, files, crashed>>

\* The source raises: the readers, or a file that cannot be read.
SourceRaises ==
    /\ \/ pc = "waiting" /\ call \in {"refused", "gone"} /\ NoFault
       \/ pc = "writing" /\ kind = "copy" /\ Fault
    /\ Goto("cleanup")
    /\ UNCHANGED <<readerVars, kind, given, sources, files, crashed>>

\* (mutant) Only flushed.
Synced(file) == file

\* os.fsync of the file.
Fsynced(file) == [file EXCEPT !.synced = TRUE]

\* flush, fsync and close.
Fsync ==
    /\ pc = "written"
    /\ \/ NoFault /\ Goto("closed") /\ temp' = Fsynced(temp)
       \/ Fault /\ Goto("cleanup") /\ UNCHANGED temp
    /\ UNCHANGED <<readerVars, kind, given, sources, value, disk, crashed>>

\* os.replace of the temporary file onto the destination.
Replace ==
    /\ pc = "closed"
    /\ \/ NoFault /\ Goto("replaced") /\ value' = temp /\ temp' = None
       \/ Fault /\ Goto("cleanup") /\ UNCHANGED <<temp, value>>
    /\ UNCHANGED <<readerVars, kind, given, sources, disk, crashed>>

\* _fsync_directory of the parent. When it raises, the file is replaced already.
FsyncDirectory ==
    /\ pc = "replaced"
    /\ \/ NoFault /\ End("ok") /\ disk' = value
       \/ Fault /\ Goto("cleanup") /\ UNCHANGED disk
    /\ UNCHANGED <<readerVars, kind, given, sources, temp, value, crashed>>

\* `except Exception`: unlink, where a missing file is fine, and raise again.
Cleanup ==
    /\ pc = "cleanup"
    /\ \/ NoFault /\ End("error") /\ temp' = None
       \/ Fault /\ End("uncleaned") /\ UNCHANGED temp
    /\ UNCHANGED <<readerVars, kind, given, sources, value, disk, crashed>>

------------------------------------------------------------------------------
(* What ends a write from outside.                                          *)

LoseClient ==
    /\ pc = "waiting"
    /\ Disconnect
    /\ UNCHANGED <<kind, given, sources, files, pc, result, faults, crashed>>

\* CancelledError is not an Exception: nothing is cleaned up. A call that runs in
\* a thread is completed first, or never begins.
Cancel ==
    /\ pc \notin {"start", "done"}
    /\ End("cancelled")
    /\ UNCHANGED <<readerVars, kind, given, sources, files, faults, crashed>>

\* What is left of a file whose bytes were not fsynced.
Survivors(file) ==
    IF file.synced THEN {file.bytes}
                   ELSE {SubSeq(file.bytes, 1, n) : n \in 0..Len(file.bytes)}

\* The machine stops, at any time, and comes back without the task.
Crash ==
    /\ ~ crashed
    /\ crashed' = TRUE
    /\ \E file \in {value, disk} : \E bytes \in Survivors(file) :
          value' = [bytes |-> bytes, synced |-> TRUE]
    /\ disk' = value'
    /\ temp' \in {None, temp}
    /\ IF pc = "done" THEN UNCHANGED <<pc, result>> ELSE End("dead")
    /\ UNCHANGED <<readerVars, kind, given, sources, faults>>

Step ==
    \/ RefuseDeclared \/ Open \/ AskForChunk \/ ReadBody \/ WriteUpload \/ WriteLocal \/ SourceRaises
    \/ Fsync \/ Replace \/ FsyncDirectory \/ Cleanup

Next == Step \/ LoseClient \/ Cancel \/ Crash

Spec == Init /\ [][Next]_vars

\* Any bytes at all.
AnySpec == InitFrom(Body) /\ [][Next]_vars

\* The event loop runs a ready task, calls return, and a client that stays sends
\* its body to the end.
FairSpec == Spec /\ WF_vars(Step)

------------------------------------------------------------------------------
(* Properties.                                                              *)

\* The frames that got through to their last byte.
WholeFrames(b) ==
    LET n == Max({n \in 0..Frames(b) : Len(Sent(b, n)) <= Len(b.bytes)})
    IN  FlattenSeq(SubSeq(b.frames, 1, n))

\* The content that is to be in the destination.
Target ==
    CASE kind # "upload" -> FlattenSeq(given)
      [] kind = "upload" /\ body.framed -> WholeFrames(body)
      [] OTHER -> body.bytes

\* The readers return what the client put into its frames, neither more nor less,
\* however the frames are cut by the reads and the network, however their sizes are
\* spelled, and also where a payload looks like framing. What ends or strays inside of a
\* frame or where a line does not begin is refused, and what is complete is not, unless it
\* is too large or has a line at the limit.
DecodedAsEncoded ==
    /\ pc \in {"written", "closed"} =>
          temp.bytes = Target /\ (kind = "upload" => Whole(body) /\ Len(body.bytes) <= MaxBytes)
    /\ call = "refused" => ~ Complete(body) \/ Long(body) \/ Len(body.bytes) > MaxBytes

\* A body that ends before its last frame is not stored, and nothing of the framing gets
\* into the file. So say the docstrings of S3ObjectBodyIncompleteError, "Raised when the
\* uploaded body ends or frames wrongly", and of AwsChunkedReader, "Only payload bytes
\* are returned."
OnlyWholePayloadIsStored ==
    pc \in {"written", "closed"} /\ kind = "upload" => Complete(body) /\ temp.bytes = Target

\* A temporary file stays behind only when nobody was left to remove it, or its
\* removal raised too.
TempIsRemoved ==
    pc = "done" /\ temp # None => result \in {"cancelled", "dead", "uncleaned"}

\* Every write ends, whichever of its calls raise and wherever its body ends.
EveryWriteEnds == <>(pc = "done")

------------------------------------------------------------------------------
(* The write is atomic, and durable when it has returned.                   *)

Status == CASE result = "ok" -> "ok"
            [] result = "dead" -> "dead"
            [] result \in {"error", "uncleaned", "cancelled"} -> "failed"
            [] /\ result = "pending" /\ pc \in {"replaced", "cleanup"}
               /\ temp = None /\ value.bytes = Target -> "published"
            [] OTHER -> "writing"

Atomic == INSTANCE AtomicFile WITH
    target <- Target, value <- value.bytes, disk <- disk.bytes, status <- Status

\* The docstring of _atomic_write_stream: "Atomically write a byte stream".
ImplementsAtomicFile == Atomic!Spec

=============================================================================
