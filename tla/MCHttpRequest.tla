---------------------------- MODULE MCHttpRequest ----------------------------
(***************************************************************************)
(* Requests and answers for HttpRequest, small enough for TLC: every way a *)
(* response is framed, with bodies that contain line ends, answers cut     *)
(* short, answers followed by more bytes, and malformed ones.              *)
(***************************************************************************)
EXTENDS HttpRequest, TLC

C(b, v) == [b |-> b, v |-> v]
EOL == <<C("cr", 0), C("lf", 0)>>

\* A body of n bytes; the second and third are a line end.
Body(n) ==
    [i \in 1 .. n |-> C(IF i = 2 THEN "cr" ELSE IF i = 3 THEN "lf" ELSE "text", i)]

HeaderBlock == <<C("text", 0)>> \o EOL \o EOL

Chunk(data) == <<C("hex", Len(data))>> \o EOL \o data \o EOL
LastChunk == <<C("hex", 0)>> \o EOL

\* Body(n) as chunks of k and n - k bytes.
Chunks(n, k) ==
    Chunk(SubSeq(Body(n), 1, k)) \o
    (IF k < n THEN Chunk(SubSeq(Body(n), k + 1, n)) ELSE <<>>)

Base ==
    [max |-> 4, head |-> FALSE, on_chunk |-> TRUE, status |-> "body", te |-> FALSE,
     cl |-> None, clBad |-> FALSE, wire |-> HeaderBlock, payload |-> <<>>, frames |-> <<>>]

\* The frames of an answer: from each whole chunk to the place behind it.
RECURSIVE FramesFrom(_, _)
FramesFrom(s, f) ==
    LET size == Size(From(s, f.at)) IN
    <<f>> \o (IF ChunkAt(s, f.at)
              THEN FramesFrom(s, [at |-> DataAt(s, f.at) + size + 2, off |-> f.off + size])
              ELSE <<>>)

Framing(s) ==
    IF s.te /\ Find(s.wire, CRLFCRLF) # 0
    THEN [s EXCEPT !.frames = FramesFrom(s, [at |-> BodyAt(s), off |-> 0])]
    ELSE s

With(extra) == extra @@ Base

Trailer == EOL \o <<C("text", 0)>>

\* Well-formed answers: by length (with bytes after the body), until the end of
\* the connection, and chunked (with and without bytes after the last chunk).
Lengths ==
    {With([cl |-> n, payload |-> Body(n), on_chunk |-> cb, max |-> m,
           wire |-> HeaderBlock \o Body(n) \o more]) :
        n \in {0, 3, 4}, cb \in BOOLEAN, m \in {3, 4}, more \in {<<>>, Trailer}}

Closes ==
    {With([payload |-> Body(n), wire |-> HeaderBlock \o Body(n), max |-> m]) :
        n \in {0, 4}, m \in {3, 4}}

Chunkeds ==
    {With([te |-> TRUE, payload |-> Body(n), on_chunk |-> cb, cl |-> l, max |-> m,
           wire |-> HeaderBlock \o Chunks(n, k) \o LastChunk \o more]) :
        n \in {4}, k \in {1, 2, 4}, cb \in BOOLEAN, l \in {None, 4}, m \in {3, 4},
        more \in {<<>>, Trailer}}

\* Answers without a body, whatever the headers say of one.
NoBodies ==
    {With([status |-> IF hd THEN "body" ELSE "nobody", head |-> hd, cl |-> l, te |-> t]) :
        hd \in BOOLEAN, l \in {None, 3}, t \in BOOLEAN}

\* A size line with stray line-end bytes in it.
Strays ==
    {With([te |-> TRUE, payload |-> Body(2), max |-> m,
           wire |-> HeaderBlock \o <<C("lf", 0), C("hex", 2), C("lf", 0)>> \o EOL \o Body(2)
                    \o EOL \o LastChunk]) : m \in {1, 4}}

\* Malformed answers. Their payload is the most that may reach the caller.
Malformed ==
    {With([status |-> "bad"]),
     With([clBad |-> TRUE, payload |-> Body(2), wire |-> HeaderBlock \o Body(2)]),
     With([cl |-> 4, payload |-> Body(2), wire |-> HeaderBlock \o Body(2)]),
     With([te |-> TRUE, payload |-> Body(1), wire |-> HeaderBlock \o Chunk(Body(1)) \o EOL]),
     With([te |-> TRUE, wire |-> HeaderBlock \o <<C("junk", 0)>> \o EOL]),
     With([te |-> TRUE, wire |-> HeaderBlock \o <<C("hex", 9)>> \o EOL \o Body(4)]),
     With([te |-> TRUE, wire |-> HeaderBlock \o <<C("hex", 2)>> \o EOL \o Body(4)]),
     With([te |-> TRUE, wire |-> HeaderBlock \o [i \in 1 .. 14 |-> C("text", 0)]]),
     With([te |-> TRUE, cl |-> 3, payload |-> Body(2), wire |-> HeaderBlock \o Chunks(2, 2) \o LastChunk]),
     With([wire |-> [i \in 1 .. 16 |-> C("text", 0)]])}

Answers ==
    {Framing(s) : s \in Lengths \cup Closes \cup Chunkeds \cup NoBodies \cup Strays \cup Malformed}
=============================================================================
