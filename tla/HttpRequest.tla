----------------------------- MODULE HttpRequest -----------------------------
(***************************************************************************)
(* One HTTP request of the network module: ResolveHttpRequest in main.cpp, *)
(* from the moment Dial returned a connection, with HttpChunkDecoder and   *)
(* the Lua callbacks (should_cancel, on_headers, on_chunk).                *)
(*                                                                         *)
(* The response is a sequence of cells (module Bytes). A cell of the body  *)
(* carries its place in the body in v (the decoder never looks at it), so  *)
(* that a lost, repeated or reordered byte shows. recv() returns any part  *)
(* of what is left, and the connection can fail or close at any point.     *)
(***************************************************************************)
EXTENDS Integers, Sequences, SequencesExt, Bytes

CONSTANTS
    Scenarios,      \* the requests: options of the call and the server's answer
    BufferSize,     \* options.buffer_size: the most one recv returns
    Slack,          \* 1 MiB: what HttpChunkDecoder may buffer beyond max
    HeaderMax       \* 1 MiB: the most a header block may take

None == -1          \* an empty std::optional<size_t>

Scenario ==
    [max     : Nat \ {0},            \* options.max_response_bytes
     head    : BOOLEAN,              \* the request line starts with "HEAD "
     on_chunk : BOOLEAN,             \* the caller gave an on_chunk callback
     status  : {"body", "nobody", "bad"}, \* 204 or 304 is "nobody"
     te      : BOOLEAN,              \* Transfer-Encoding names chunked
     cl      : Nat \cup {None},      \* Content-Length
     clBad   : BOOLEAN,              \* Content-Length is not a number
     wire    : Seq(Cells),           \* every byte the server sends
     payload : Seq(Cells),           \* the body the answer carries
     frames  : Seq([at : Nat \ {0}, off : Nat])] \* its chunks: where each size line begins
                                     \* on the wire, and its data in the payload

ASSUME ConstantsAssumption ==
    /\ BufferSize \in Nat \ {0} /\ Slack \in Nat /\ HeaderMax \in Nat
    /\ BufferSize <= Slack

-----------------------------------------------------------------------------

\* The text of the size line that s begins with: TrimAscii drops stray line-end
\* bytes, and what is left has to be one number.
SizeText(s) == {i \in 1 .. Find(s, CRLF) - 1 : s[i].b \notin {"cr", "lf"}}
IsSize(s) == \E i \in SizeText(s) : SizeText(s) = {i} /\ s[i].b = "hex"
Size(s) == s[CHOOSE i \in SizeText(s) : TRUE].v

\* What an answer is made of, read off the wire as a whole. A response to HEAD, a
\* 204 and a 304 have no body whatever their headers say.
HasNoBody(s) == s.head \/ s.status = "nobody"
BodyAt(s) == Find(s.wire, CRLFCRLF) + 4

\* A chunk whose size line begins at p: the line, where the data begins, and
\* whether it is a whole chunk or the last one.
From(s, p) == Drop(s.wire, p - 1)
SizeAt(s, p) == Find(From(s, p), CRLF) # 0 /\ IsSize(From(s, p))
DataAt(s, p) == p + Find(From(s, p), CRLF) + 1
ChunkAt(s, p) ==
    /\ SizeAt(s, p) /\ Size(From(s, p)) # 0
    /\ Matches(s.wire, CRLF, DataAt(s, p) + Size(From(s, p)))
LastChunkAt(s, p) == SizeAt(s, p) /\ Size(From(s, p)) = 0

\* A whole chunk begins at frame f, and the frame behind it is next.
Follows(s, f, next) ==
    LET data == DataAt(s, f.at)
        size == Size(From(s, f.at))
    IN  /\ ChunkAt(s, f.at)
        /\ next = [at |-> data + size + 2, off |-> f.off + size]
        /\ next.off <= Len(s.payload)
        /\ SubSeq(s.payload, f.off + 1, next.off) = SubSeq(s.wire, data, data + size - 1)

\* s.frames lists the whole chunks one behind the other, up to the first place
\* where there is none, and s.payload is their data put together.
Framed(s) ==
    LET last == s.frames[Len(s.frames)] IN
    /\ s.frames # <<>> /\ s.frames[1] = [at |-> BodyAt(s), off |-> 0]
    /\ \A k \in 1 .. Len(s.frames) - 1 : Follows(s, s.frames[k], s.frames[k + 1])
    /\ ~ChunkAt(s, last.at)
    /\ last.off = Len(s.payload)

\* Without chunks the payload is what follows the headers, up to the length.
Counted(s) ==
    s.payload = SubSeq(s.wire, BodyAt(s),
                       IF s.cl = None \/ BodyAt(s) - 1 + s.cl > Len(s.wire)
                       THEN Len(s.wire) ELSE BodyAt(s) - 1 + s.cl)

\* The answer is one that the rules of HTTP allow, and it is whole.
WellFormed(s) ==
    /\ s.status # "bad"
    /\ ~s.clBad
    /\ Find(s.wire, CRLFCRLF) # 0
    /\ \/ HasNoBody(s)
       \/ s.te /\ LastChunkAt(s, s.frames[Len(s.frames)].at) /\ s.cl \in {None, Len(s.payload)}
       \/ ~s.te /\ (s.cl = None \/ BodyAt(s) - 1 + s.cl <= Len(s.wire))

ASSUME ScenariosAssumption ==
    \A s \in Scenarios :
        /\ s \in Scenario
        /\ Find(s.wire, CRLFCRLF) # 0 /\ ~HasNoBody(s) =>
              IF s.te THEN Framed(s) ELSE Counted(s)

VARIABLES
    sc,               \* the request being served (never changes)
    got,              \* how many cells of sc.wire recv has returned
    eof,              \* recv reported the end of the connection
    pc,               \* where ResolveHttpRequest is
    incoming,         \* the bytes of the last recv still to be handled
    pending_headers,  \* bytes received before the end of the headers
    got_headers,
    chunked,
    content_length,   \* a number or None
    finished,
    buffer,           \* HttpChunkDecoder: bytes not decoded yet
    remaining,        \* HttpChunkDecoder: size of the chunk being read, or None
    complete,         \* HttpChunkDecoder: the zero-size chunk was read
    chunks,           \* what Feed decoded and append_body did not take yet
    body,             \* response.body
    seen,             \* every byte on_chunk was called with, in order
    outcome           \* "none" while running, "ok", or the error raised

decoder == <<buffer, remaining, complete, chunks>>
headers == <<pending_headers, got_headers, chunked, content_length>>
vars == <<sc, got, eof, pc, incoming, headers, finished, decoder, body, seen, outcome>>

-----------------------------------------------------------------------------

NoBody == HasNoBody(sc)

\* The call ends: it returns the response ("ok") or throws, and every local,
\* the partly filled ones too, dies with it.
Leave(result) ==
    /\ outcome' = result /\ pc' = "done"

-----------------------------------------------------------------------------

Init ==
    /\ sc \in Scenarios /\ got = 0 /\ eof = FALSE /\ pc = "send"
    /\ incoming = <<>> /\ pending_headers = <<>> /\ got_headers = FALSE
    /\ chunked = FALSE /\ content_length = None /\ finished = FALSE
    /\ buffer = <<>> /\ remaining = None /\ complete = FALSE
    /\ chunks = <<>> /\ body = <<>> /\ seen = <<>> /\ outcome = "none"

\* The request goes out whole, or the send fails, times out or is cut short.
Send ==
    /\ pc = "send"
    /\ \/ pc' = "top" /\ UNCHANGED outcome
       \/ Leave("send")
    /\ UNCHANGED <<sc, got, eof, incoming, headers, finished, decoder, body, seen>>

\* The head of the receive loop: leave it when finished, else ask should_cancel
\* (which may raise) and charge the total timeout before the next recv.
LoopTop ==
    /\ pc = "top"
    /\ \/ finished /\ pc' = "finish" /\ UNCHANGED outcome
       \/ ~finished /\ pc' = "recv" /\ UNCHANGED outcome
       \/ ~finished /\ \E error \in {"cancelled", "callback", "total_timeout"} : Leave(error)
    /\ UNCHANGED <<sc, got, eof, incoming, headers, finished, decoder, body, seen>>

\* recv returns the next n bytes.
Receive(n) ==
    /\ pc = "recv" /\ n <= Len(sc.wire) - got
    /\ incoming' = SubSeq(sc.wire, got + 1, got + n) /\ got' = got + n
    /\ pc' = IF got_headers THEN "body" ELSE "headers"
    /\ UNCHANGED <<sc, eof, headers, finished, decoder, body, seen, outcome>>

\* Mutated form of ReceiveEnd: the loop goes on reading a closed connection.
ReceiveEndIgnored ==
    /\ pc = "recv" /\ eof' = TRUE /\ pc' = "top"
    /\ UNCHANGED <<sc, got, incoming, headers, finished, decoder, body, seen, outcome>>

\* recv returns 0, or TLS reports SEC_I_CONTEXT_EXPIRED: the peer is done, with
\* the answer complete or not.
ReceiveEnd ==
    /\ pc = "recv" /\ finished' = TRUE /\ eof' = TRUE /\ pc' = "finish"
    /\ UNCHANGED <<sc, got, incoming, headers, decoder, body, seen, outcome>>

\* recv times out or fails.
ReceiveError ==
    /\ pc = "recv" /\ Leave("receive")
    /\ UNCHANGED <<sc, got, eof, incoming, headers, finished, decoder, body, seen>>

-----------------------------------------------------------------------------

\* Mutated form of AfterSeparator: the cut is one byte late.
AfterSeparatorLate(pending) == Drop(pending, Find(pending, CRLFCRLF) + 4)

\* What follows the empty line belongs to the body.
AfterSeparator(pending) == Drop(pending, Find(pending, CRLFCRLF) + 3)

\* The separator has not arrived: keep the bytes and read on.
HeadersWait ==
    LET pending == pending_headers \o incoming IN
    /\ pc = "headers" /\ Len(pending) <= HeaderMax
    /\ Find(pending, CRLFCRLF) = 0 /\ pending_headers' = pending
    /\ pc' = "top"
    /\ UNCHANGED <<sc, got, eof, incoming, got_headers, chunked, content_length,
                   finished, decoder, body, seen, outcome>>

\* The header block is complete. on_headers runs before the length is looked at
\* and may raise; what follows the separator stays in incoming.
HeadersParse ==
    LET pending == pending_headers \o incoming IN
    /\ pc = "headers" /\ Len(pending) <= HeaderMax
    /\ Find(pending, CRLFCRLF) # 0 /\ sc.status # "bad"
    /\ incoming' = AfterSeparator(pending) /\ pending_headers' = <<>>
    /\ got_headers' = TRUE
    /\ \/ /\ chunked' = sc.te
          /\ content_length' = sc.cl
          /\ ~sc.clBad
          /\ sc.cl <= sc.max /\ finished' = NoBody
          /\ pc' = IF NoBody THEN "top" ELSE "body"
          /\ UNCHANGED outcome
       \/ /\ sc.clBad \/ sc.cl > sc.max
          /\ chunked' = sc.te
          /\ content_length' = IF sc.clBad THEN None ELSE sc.cl
          /\ Leave("length") /\ UNCHANGED finished
       \/ /\ Leave("callback")
          /\ UNCHANGED <<chunked, content_length, finished>>
    /\ UNCHANGED <<sc, got, eof, decoder, body, seen>>

\* More than 1 MiB of headers, or a status line that is none.
HeadersReject ==
    LET pending == pending_headers \o incoming IN
    /\ pc = "headers"
    /\ \/ Len(pending) > HeaderMax
       \/ Find(pending, CRLFCRLF) # 0 /\ sc.status = "bad"
    /\ pending_headers' = pending /\ Leave("headers")
    /\ UNCHANGED <<sc, got, eof, incoming, got_headers, chunked, content_length,
                   finished, decoder, body, seen>>

-----------------------------------------------------------------------------

\* The body with the new piece stays within max_response_bytes.
BodyFits(piece) == Len(body) + Len(piece) <= sc.max

\* Mutated form of Emitted: only chunked responses are streamed.
EmittedChunkedOnly(piece) == IF sc.on_chunk /\ chunked THEN seen \o piece ELSE seen

\* EmitResponseChunk hands the piece to on_chunk, if the caller gave one.
Emitted(piece) == IF sc.on_chunk THEN seen \o piece ELSE seen

\* append_body: the size limit, the body, then on_chunk, which is not called for
\* an empty piece and can stop the request by returning false or raising. next is
\* where the code goes when it does not.
AppendBody(piece, next) ==
    IF ~BodyFits(piece)
    THEN Leave("too_big") /\ UNCHANGED <<body, seen>>
    ELSE /\ body' = body \o piece
         /\ seen' = Emitted(piece)
         /\ \/ pc' = next /\ UNCHANGED outcome
            \/ sc.on_chunk /\ piece # <<>> /\ Leave("callback")

\* A body with a Content-Length: take what is still missing, ignore the rest.
BodyLength ==
    LET needed == IF content_length > Len(body) THEN content_length - Len(body) ELSE 0
    IN
    /\ pc = "body"
    /\ ~chunked
    /\ content_length # None
    /\ AppendBody(SubSeq(incoming, 1, IF needed < Len(incoming) THEN needed ELSE Len(incoming)), "top")
    /\ finished' = (Len(body') >= content_length) /\ incoming' = <<>>
    /\ UNCHANGED <<sc, got, eof, headers, decoder>>

\* A body that ends where the connection does.
BodyUntilClose ==
    /\ pc = "body"
    /\ ~chunked
    /\ content_length = None /\ AppendBody(incoming, "top")
    /\ incoming' = <<>>
    /\ UNCHANGED <<sc, got, eof, headers, finished, decoder>>

\* Mutated form of DecoderLimit: the largest chunk is all it buffers.
DecoderLimitTight == sc.max

\* The most the decoder buffers, and the largest chunk it accepts.
DecoderLimit == sc.max + Slack
SizeLimit == sc.max

\* Feed begins: the bytes join the decoder's buffer, which has a limit.
FeedStart ==
    /\ pc = "body" /\ chunked /\ buffer' = buffer \o incoming
    /\ incoming' = <<>>
    /\ IF Len(buffer') > DecoderLimit
       THEN Leave("buffering")
       ELSE pc' = "feed" /\ UNCHANGED outcome
    /\ UNCHANGED <<sc, got, eof, headers, finished, remaining, complete, chunks, body, seen>>

\* Feed reads a chunk-size line.
FeedSize ==
    LET eol  == Find(buffer, CRLF)
        size == Size(buffer)
    IN
    /\ pc = "feed"
    /\ ~complete
    /\ remaining = None /\ eol # 0 /\ buffer' = Drop(buffer, eol + 1)
    /\ IF ~IsSize(buffer)
       THEN Leave("chunk_size") /\ UNCHANGED <<remaining, complete>>
       ELSE \/ /\ size = 0
               /\ complete' = TRUE /\ UNCHANGED <<remaining, pc, outcome>>
            \/ /\ size > SizeLimit
               /\ Leave("chunk_size") /\ UNCHANGED <<remaining, complete>>
            \/ /\ size \in 1 .. SizeLimit
               /\ remaining' = size /\ UNCHANGED <<complete, pc, outcome>>
    /\ UNCHANGED <<sc, got, eof, incoming, headers, finished, chunks, body, seen>>

\* Feed takes a whole chunk with the line end after it.
FeedChunk ==
    /\ pc = "feed"
    /\ ~complete
    /\ remaining # None /\ Len(buffer) >= remaining + 2
    /\ IF Matches(buffer, CRLF, remaining + 1)
       THEN /\ chunks' = Append(chunks, SubSeq(buffer, 1, remaining))
            /\ buffer' = Drop(buffer, remaining + 2) /\ remaining' = None
            /\ UNCHANGED <<pc, outcome>>
       ELSE Leave("terminator") /\ UNCHANGED <<chunks, buffer, remaining>>
    /\ UNCHANGED <<sc, got, eof, incoming, headers, finished, complete, body, seen>>

\* Feed returns: it is done, or it needs more bytes.
FeedReturn ==
    /\ pc = "feed"
    /\ \/ complete
       \/ remaining = None /\ Find(buffer, CRLF) = 0
       \/ remaining # None /\ Len(buffer) < remaining + 2
    /\ pc' = "append"
    /\ UNCHANGED <<sc, got, eof, incoming, headers, finished, decoder, body, seen, outcome>>

\* The decoded chunks go to append_body one after the other.
AppendChunk ==
    /\ pc = "append" /\ chunks # <<>> /\ AppendBody(Head(chunks), "append")
    /\ chunks' = Tail(chunks)
    /\ UNCHANGED <<sc, got, eof, incoming, headers, finished, buffer, remaining, complete>>

AppendDone ==
    /\ pc = "append" /\ chunks = <<>> /\ finished' = complete /\ pc' = "top"
    /\ UNCHANGED <<sc, got, eof, incoming, headers, decoder, body, seen, outcome>>

-----------------------------------------------------------------------------

\* Mutated form of ChunksMissing: the last chunk is not insisted on.
ChunksNeverMissing == FALSE

\* The stream ended before the zero-size chunk.
ChunksMissing == chunked /\ ~complete

\* The checks after the loop, in the order the code makes them.
Finish ==
    /\ pc = "finish"
    /\ \/ ~got_headers /\ Leave("no_headers")
       \/ got_headers /\ ChunksMissing /\ Leave("chunked_closed")
       \/ /\ got_headers /\ ~ChunksMissing
          /\ content_length # None /\ ~NoBody /\ Len(body) # content_length
          /\ Leave("length_mismatch")
       \/ /\ got_headers /\ ~ChunksMissing
          /\ content_length = None \/ NoBody \/ Len(body) = content_length
          /\ Leave("ok")
    /\ UNCHANGED <<sc, got, eof, incoming, headers, finished, decoder, body, seen>>

Done == pc = "done" /\ UNCHANGED vars

Next ==
    \/ Send \/ LoopTop
    \/ \E n \in 1 .. BufferSize : Receive(n)
    \/ ReceiveEnd \/ ReceiveError
    \/ HeadersWait \/ HeadersParse \/ HeadersReject
    \/ BodyLength \/ BodyUntilClose
    \/ FeedStart \/ FeedSize \/ FeedChunk \/ FeedReturn
    \/ AppendChunk \/ AppendDone
    \/ Finish \/ Done

Spec == Init /\ [][Next]_vars

\* The call runs on the caller's thread and every recv has a timeout, so it keeps
\* taking steps until it returns or raises.
FairSpec == Spec /\ WF_vars(Next)

-----------------------------------------------------------------------------

\* The body the caller is owed, and how its end is marked.
Expected == IF NoBody THEN <<>> ELSE sc.payload

Ending ==
    IF ~WellFormed(sc) THEN "broken"
    ELSE IF NoBody \/ sc.te \/ sc.cl # None THEN "marked" ELSE "close"

\* The answer respects the caller's limits, and its header block and its size
\* lines those of the code, which checks them after a whole read.
Fits ==
    /\ Len(Expected) <= sc.max /\ sc.cl <= sc.max
    /\ BodyAt(sc) - 1 + BufferSize <= HeaderMax
    /\ sc.te => \A k \in 1 .. Len(sc.frames) :
          Find(From(sc, sc.frames[k].at), CRLF) + BufferSize <= sc.max + Slack

\* Errors that blame the answer itself, and errors that say it was cut short.
Blame == {"headers", "length", "too_big", "buffering", "chunk_size", "terminator"}
CutShort == {"no_headers", "chunked_closed", "length_mismatch"}

\* Where the code can be, and what a call can end with.
Places == {"send", "top", "recv", "headers", "body", "feed", "append", "finish", "done"}
Outcomes == Blame \cup CutShort \cup
            {"none", "ok", "send", "receive", "cancelled", "callback", "total_timeout"}

\* Every variable holds a value its C++ type and the checks in the code allow;
\* a chunk being read is never empty and never larger than max_response_bytes.
TypeOK ==
    /\ sc \in Scenarios /\ got \in 0 .. Len(sc.wire) /\ eof \in BOOLEAN
    /\ pc \in Places /\ incoming \in Seq(Cells)
    /\ pending_headers \in Seq(Cells) /\ got_headers \in BOOLEAN
    /\ chunked \in BOOLEAN /\ content_length \in Nat \cup {None}
    /\ finished \in BOOLEAN /\ buffer \in Seq(Cells)
    /\ remaining \in 1 .. sc.max \cup {None} /\ complete \in BOOLEAN
    /\ chunks \in Seq(Seq(Cells)) /\ body \in Seq(Cells)
    /\ seen \in Seq(Cells) /\ outcome \in Outcomes

\* Memory stays bounded whatever the server sends: the body by
\* max_response_bytes, the header block by 1 MiB, and the decoder's buffer by
\* max_response_bytes plus 1 MiB, at every point where the call goes on.
LimitsHold ==
    /\ Len(body) <= sc.max
    /\ pc # "done" => Len(pending_headers) <= HeaderMax
    /\ pc # "done" => Len(buffer) <= sc.max + Slack

\* What on_chunk was called with, put together, is the body the call returns, so
\* a streaming caller and a buffering caller get the same response.
CallbackSawBody == sc.on_chunk => seen = body

\* The last byte of the header block.
HeaderEnd == Find(sc.wire, CRLFCRLF) + 3

\* Without chunked framing the body is exactly the bytes that follow the first
\* empty line of the answer, none lost, repeated or taken from the headers,
\* wherever the reads split them.
BodyFollowsHeaders ==
    got_headers /\ ~chunked =>
        body = SubSeq(sc.wire, HeaderEnd + 1, HeaderEnd + Len(body))

\* The answer is well-formed and within the limits. An answer to HEAD, a 204 or a 304
\* that names chunked is not among them: the code waits for its chunks
\* (main.cpp:550), and so says that it was cut short although it is complete.
GoodAnswer == WellFormed(sc) /\ Fits /\ ~(NoBody /\ sc.te)

\* Such an answer is never blamed and, when all of it arrived, never said to be cut
\* short, however TCP splits it.
GoodAnswerAccepted ==
    GoodAnswer =>
        /\ outcome \notin Blame
        /\ outcome \in CutShort => got < Len(sc.wire)

\* The request delivers what ResponseDelivery promises: to the caller's on_chunk
\* a growing prefix of the server's body, and a normal return only with all of it.
Delivery == INSTANCE ResponseDelivery WITH
    payload   <- Expected,
    ending    <- Ending,
    delivered <- IF sc.on_chunk THEN seen ELSE body,
    status    <- IF outcome \in {"none", "ok"} THEN outcome ELSE "error"

Delivers == Delivery!RSpec

-----------------------------------------------------------------------------

\* What makes BodyFollowsHeaders inductive: which flags go with which place in
\* the code, and where every byte received so far is held.
Placement ==
    /\ pc \in {"recv", "headers", "body", "feed", "append"} => ~finished
    /\ pc = "headers" => ~got_headers
    /\ pc \in {"body", "feed", "append"} => got_headers
    /\ pc \in {"feed", "append"} => chunked

HeldBack(place) == IF pc = place THEN incoming ELSE <<>>

HeadersKept ==
    pc # "done" /\ ~got_headers =>
        pending_headers \o HeldBack("headers") = SubSeq(sc.wire, 1, got)

HeadersFound ==
    got_headers => Find(sc.wire, CRLFCRLF) # 0 /\ HeaderEnd <= got

BodyKept ==
    pc # "done" /\ got_headers /\ ~chunked /\ ~finished =>
        body \o HeldBack("body") = SubSeq(sc.wire, HeaderEnd + 1, got)

NoBodyYet == ~got_headers => body = <<>>

Accounting ==
    Placement /\ HeadersKept /\ HeadersFound /\ BodyKept /\ NoBodyYet /\ BodyFollowsHeaders

\* What the refinement and GoodAnswerAccepted need besides. What the code knows of
\* the headers, and that a request without a body takes none.
HeadersRead ==
    /\ pc # "done" <=> outcome = "none"
    /\ pc # "done" /\ got_headers =>
          /\ sc.status # "bad" /\ ~sc.clBad
          /\ chunked = sc.te /\ content_length = sc.cl
    /\ NoBody => body = <<>> /\ (pc # "done" /\ got_headers => finished)
    /\ pc = "recv" => ~finished

\* The separator is found as soon as it is there, and a read brings no more than
\* it was asked for.
ReadsBounded ==
    /\ pc # "done" /\ ~got_headers => Find(pending_headers, CRLFCRLF) = 0
    /\ pc \in {"headers", "body"} => Len(incoming) <= BufferSize

\* A body with a length is never longer, and shorter only while all that arrived
\* is in it.
LengthKept ==
    got_headers /\ ~chunked =>
        /\ HeaderEnd + Len(body) <= got
        /\ content_length # None => Len(body) <= content_length
        /\ pc # "done" /\ content_length # None /\ ~NoBody =>
              \/ Len(body) = content_length
              \/ HeaderEnd + Len(body) + Len(HeldBack("body")) = got

\* The decoder has read the first k - 1 chunks: those not in chunks are the body.
Decoded(k) ==
    LET taken == k - Len(chunks) IN
    /\ taken >= 1 /\ body = SubSeq(sc.payload, 1, sc.frames[taken].off)
    /\ \A j \in 1 .. Len(chunks) :
          chunks[j] = SubSeq(sc.payload, sc.frames[taken + j - 1].off + 1, sc.frames[taken + j].off)

\* It is at the size line of the next one, or at its data, or it has read the last
\* size line; the bytes from there on are in the buffer.
ReadUpTo(k) ==
    LET p == sc.frames[k].at
        held == buffer \o HeldBack("body")
    IN
    \/ /\ ~complete /\ remaining = None
       /\ p <= got + 1 /\ held = SubSeq(sc.wire, p, got)
    \/ /\ ~complete /\ remaining # None
       /\ SizeAt(sc, p) /\ remaining = Size(From(sc, p))
       /\ DataAt(sc, p) <= got + 1 /\ held = SubSeq(sc.wire, DataAt(sc, p), got)
    \/ /\ complete
       /\ k = Len(sc.frames) /\ LastChunkAt(sc, p)

ChunksKept ==
    pc # "done" /\ got_headers /\ chunked /\ ~NoBody =>
        \E k \in 1 .. Len(sc.frames) : Decoded(k) /\ ReadUpTo(k)

\* Feed leaves nothing behind that it could decode, and append_body no chunk.
Drained ==
    /\ complete => remaining = None
    /\ pc \notin {"feed", "append", "done"} => chunks = <<>> /\ (complete => finished)
    /\ pc \notin {"feed", "done"} =>
          /\ remaining = None /\ ~complete => Find(buffer, CRLF) = 0
          /\ remaining # None => Len(buffer) < remaining + 2

\* Feed has not begun while there is no chunked body.
NotFed ==
    ~got_headers \/ ~chunked =>
        buffer = <<>> /\ remaining = None /\ ~complete /\ chunks = <<>>

\* What the caller holds is a prefix of the body.
PrefixHeld ==
    /\ CallbackSawBody /\ Len(body) <= Len(Expected)
    /\ body = SubSeq(Expected, 1, Len(body))

Progress ==
    HeadersRead /\ ReadsBounded /\ LengthKept /\ ChunksKept /\ Drained /\ NotFed /\ PrefixHeld

\* Every request ends: it returns or raises.
Terminates == <>(pc = "done")
=============================================================================
