------------------------------ MODULE MCIngest -------------------------------
(****************************************************************************)
(* Instances of Ingest: bodies of up to two frames, encoded as AWS SDKs do, *)
(* that arrive whole, are cut anywhere, or stray.                           *)
(****************************************************************************)
EXTENDS Ingest, TLC

CONSTANTS x, y

Bytes == {x, y}

\* Payloads, among them ones that look like framing.
Payloads == {<<x>>, <<CR, LF>>, <<0, CR, LF>>}

FrameLists == {<<>>} \cup {<<p>> : p \in Payloads}
                     \cup {<<<<x>>, <<0, CR, LF>>>>, <<<<CR, LF>>, <<y>>>>}

\* Trailers: none, a short line, one as long as a line may be.
Trailers == {<<>>, <<<<y>>>>, <<<<y, y, y, y>>>>}

Extensions == {<<>>, <<Semi, y>>}

\* What a client means to send: every size spelled alike, with the same extension.
Meant(frames, extension, trailer, Spelled(_)) ==
    [bytes |-> <<>>, framed |-> TRUE, declared |-> Len(FlattenSeq(frames)), frames |-> frames,
     sizes |-> [i \in 1..(Len(frames) + 1) |->
                   Spelled(IF i <= Len(frames) THEN Len(frames[i]) ELSE 0)],
     extensions |-> [i \in 1..(Len(frames) + 1) |-> extension], trailer |-> trailer,
     stray |-> <<>>]

AsDigit(size) == <<size>>

\* It is cut anywhere.
CutBodies ==
    UNION {LET b == Meant(f, e, t, AsDigit)
               full == Sent(b, Lines(b))
           IN  {[b EXCEPT !.bytes = SubSeq(full, 1, cut)] : cut \in 0..Len(full)} :
              f \in FrameLists, e \in Extensions, t \in Trailers}

\* Its sizes are spelled in other ways that are taken for numbers.
Padded(size)     == <<0, size>>
Signed(size)     == <<Plus, size>>
Prefixed(size)   == <<0, Ex, size>>
Blanked(size)    == <<Space, size, CR, Space>>
Underscored(size) == <<0, Under, size>>
Negated(size)    == IF size = 0 THEN <<Minus, 0>> ELSE <<size>>
TwoDigits(size)  == <<size \div 16, size % 16>>

SpelledBodies ==
    LET whole(b) == [b EXCEPT !.bytes = Sent(b, Lines(b))]
        frames == <<<<x>>, <<CR, LF>>>>
        e == <<Semi, y>>
    IN  {whole(Meant(frames, e, <<>>, Padded)), whole(Meant(frames, e, <<>>, Signed)),
         whole(Meant(frames, <<>>, <<>>, Prefixed)), whole(Meant(frames, <<>>, <<>>, Blanked)),
         whole(Meant(frames, <<>>, <<>>, Underscored)), whole(Meant(frames, e, <<>>, Negated)),
         whole(Meant(<<[i \in 1..16 |-> x]>>, <<>>, <<>>, TwoDigits))}

\* It goes on with a line that is no size, or with one that does not end.
Strays == {<<x>>, <<Minus>>, <<Plus, Minus, 1>>, <<0, Ex>>, <<Under, 1>>, <<1, Under>>,
           <<1, Under, Under, 1>>, <<1, Ex, 1>>, <<1, Space, 1>>, <<Space>>, <<Semi, 1>>, <<x, CR>>}

StrayBodies ==
    LET b == Meant(<<<<x>>>>, <<>>, <<>>, AsDigit)
    IN  {[b EXCEPT !.stray = s, !.bytes = Sent(b, n) \o s \o end] :
            s \in Strays, n \in {0, 1}, end \in {<<>>, Crlf, Crlf \o <<1>>}}

\* A size is negative, and then comes what the client means to send, or only its first
\* frame.
Negative(size, n) ==
    LET b == Meant(<<<<x, y>>>>, <<>>, <<>>, AsDigit)
    IN  [b EXCEPT !.stray = <<Minus, size>>,
                  !.bytes = <<Minus, size>> \o Crlf \o Sent(b, n)]

NegativeBodies == {Negative(size, n) : size \in Digit \ {0}, n \in {1, 2}}

\* "-2", and a frame of two bytes; the frame of size zero is missing.
NegativeAndCut == {Negative(2, 1)}

Plain(bytes, declared) == [bytes |-> bytes, framed |-> FALSE, declared |-> declared,
                           frames |-> <<>>, sizes |-> <<<<0>>>>, extensions |-> <<<<>>>>,
                           trailer |-> <<>>, stray |-> <<>>]

PlainBodies == {Plain(<<>>, 0), Plain(<<x, y, x, y>>, 4), Plain(<<x, y, x, y>>, Unknown),
                Plain([i \in 1..(MaxBytes + 1) |-> x], Unknown),
                Plain([i \in 1..(MaxBytes + 1) |-> x], MaxBytes + 1)}

EncodedBodies == CutBodies \cup SpelledBodies \cup StrayBodies \cup PlainBodies
Bodies == EncodedBodies \cup NegativeBodies

ASSUME BodiesAreWhatTheyAreMeantToBe == Encoded = Body \cap EncodedBodies

\* What write, copy and concat are given.
Contents == {<<<<>>>>, <<<<x, y, x, y>>>>, <<<<x>>, <<>>, <<y, x, y>>>>}

OldContent == <<y>>

=============================================================================
