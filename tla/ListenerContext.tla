--------------------------- MODULE ListenerContext ---------------------------
(***************************************************************************)
(* A connection a listener accepted, in the hands of a Lua handler:        *)
(* ListenerContext in main.cpp (request, receive, send and close) over     *)
(* Socket in socket/Socket.cpp, while the peer sends, closes or resets     *)
(* whenever it likes. Nothing happens when the context is collected: its   *)
(* destructor does not run.                                                *)
(*                                                                         *)
(* The peer's bytes are the cells of c.wire, numbered by v. They arrive in *)
(* the kernel up to arrived and are taken from it up to read. The clock    *)
(* counts from the start of the handler's call and stands still outside    *)
(* the waits. ReceiveBytes asks the kernel how much there is (FIONREAD)    *)
(* and acts on the answer later, so can_recv may be out of date.           *)
(***************************************************************************)
EXTENDS Integers, Sequences, Bytes

CONSTANTS
    Cases,          \* the connections: what the peer sends, what the handler calls
    Timeout,        \* 1000 ms: the timeout of a read of lua_Request
    HeaderMax       \* 1 MiB: max_header_bytes

Case ==
    [wire     : Seq(Cells),           \* every byte the peer may send
     line     : BOOLEAN,              \* the request line has its three words
     length   : Nat,                  \* Content-Length, 0 without one
     badLength : BOOLEAN,             \* ... no number, or over 64 MiB
     calls    : SUBSET {"request", "receive", "send", "close"},
     wants    : SUBSET Nat,           \* the n of receive(n), 0 without n
     ends     : SUBSET {"fin", "rst"},\* how the peer may end the connection
     blocking : BOOLEAN]              \* the listener, and so the socket, blocks

ASSUME CasesAssumption ==
    /\ Cases \subseteq Case
    /\ \A case \in Cases : \A i \in 1 .. Len(case.wire) : case.wire[i].v = i

ASSUME LimitsAssumption ==
    /\ Timeout \in Nat \ {0} /\ HeaderMax \in Nat

None == -1

VARIABLES
    c,              \* the connection (never changes)
    arrived,        \* bytes of c.wire that reached the kernel
    peer,           \* "open", or how the peer ended the connection
    read,           \* bytes taken from the kernel
    handle,         \* the socket handle is open
    closed,         \* Socket::closed
    recv_buffer,    \* ListenerContext::recv_buffer
    received,       \* everything receive(n) returned
    pc,             \* where the handler's call is
    caller,         \* the call of ReceiveBytes that is running
    max_recv,       \* its arguments and locals
    deadline,
    can_recv,
    clock,          \* time since the handler's call began
    ready,          \* the whole request was in the kernel when the call began
    result,         \* how the last request ended
    bodies          \* the body of every request that was returned

network == <<arrived, peer>>
socket == <<read, handle, closed>>
kept == <<recv_buffer, received>>
locals == <<caller, max_recv, deadline, can_recv>>
answers == <<ready, result, bodies>>
vars == <<c, network, socket, kept, pc, locals, clock, answers>>

-----------------------------------------------------------------------------

Buffered == arrived - read
Readable == Buffered > 0 \/ peer # "open"

\* Where the body starts in a buffer that holds the whole header.
BodyStart(buffer) == Find(buffer, CRLFCRLF) + 4

\* What the peer's request looks like from its own side.
RequestEnd == BodyStart(c.wire) - 1 + c.length
WellFormed ==
    /\ Find(c.wire, CRLFCRLF) # 0 /\ Find(c.wire, CRLFCRLF) + 3 <= HeaderMax
    /\ c.line /\ ~c.badLength
    /\ RequestEnd <= Len(c.wire)

Init ==
    /\ c \in Cases /\ arrived = 0 /\ peer = "open" /\ read = 0
    /\ handle = TRUE /\ closed = FALSE /\ recv_buffer = <<>>
    /\ received = <<>> /\ pc = "handler" /\ caller = "first" /\ max_recv = 0
    /\ deadline = None /\ can_recv = 0 /\ clock = 0 /\ ready = FALSE
    /\ result = "none" /\ bodies = {}

-----------------------------------------------------------------------------

\* The peer: some more bytes arrive, or it closes or resets the connection. A
\* reset throws away what the kernel still held.
Arrive ==
    /\ peer = "open" /\ arrived' \in arrived + 1 .. Len(c.wire)
    /\ UNCHANGED <<c, peer, socket, kept, pc, locals, clock, answers>>

PeerEnds ==
    /\ peer = "open" /\ peer' \in c.ends
    /\ arrived' = IF peer' = "rst" THEN read ELSE arrived
    /\ UNCHANGED <<c, socket, kept, pc, locals, clock, answers>>

-----------------------------------------------------------------------------

\* A call of ReceiveBytes(n, timeout).
Receive(who, n, timeout) ==
    /\ caller' = who /\ max_recv' = n
    /\ deadline' = IF timeout = 0 THEN None ELSE clock' + timeout
    /\ pc' = "probe"

\* ReceiveBytes returns chunk to whoever called it.
GiveUp(error) ==
    /\ result' = error /\ pc' = "handler" /\ UNCHANGED kept

\* Mutated form of Kept: a later piece takes the place of the earlier ones.
KeptLast(chunk) == chunk

\* What recv_buffer holds after a piece of the request arrived.
Kept(chunk) == recv_buffer \o chunk

Return(chunk) ==
    \/ /\ caller = "receive"
       /\ received' = received \o chunk /\ pc' = "handler"
       /\ UNCHANGED <<recv_buffer, result>>
    \/ /\ caller # "receive"
       /\ chunk # <<>> /\ recv_buffer' = Kept(chunk)
       /\ pc' = IF caller = "body" THEN "body" ELSE "header"
       /\ UNCHANGED <<received, result>>
    \/ caller = "first" /\ chunk = <<>> /\ GiveUp("nil")
    \/ caller = "header" /\ chunk = <<>> /\ GiveUp("incomplete")
    \/ caller = "body" /\ chunk = <<>> /\ GiveUp("body_ended")

\* ioctlsocket(FIONREAD). It fails on a closed handle and on a connection that was reset.
Probe ==
    /\ pc = "probe"
    /\ \/ /\ handle
          /\ can_recv' = Buffered
          /\ pc' = IF Buffered = 0 THEN "peek" ELSE "decide"
          /\ UNCHANGED <<kept, result>>
       \/ /\ ~handle \/ peer = "rst"
          /\ Return(<<>>) /\ UNCHANGED can_recv
    /\ UNCHANGED <<c, network, socket, caller, max_recv, deadline, clock, ready, bodies>>

\* recv(MSG_PEEK) when FIONREAD said there was nothing: it may find data after
\* all, the end of the connection, an error, or nothing. A blocking socket waits.
Peek ==
    /\ pc = "peek"
    /\ \/ /\ Buffered > 0 \/ (peer = "open" /\ ~c.blocking)
          /\ pc' = "decide" /\ UNCHANGED <<kept, result, closed>>
       \/ /\ Buffered = 0 /\ peer # "open"
          /\ closed' = (closed \/ peer = "fin")
          /\ Return(<<>>)
    /\ UNCHANGED <<c, network, read, handle, locals, clock, ready, bodies>>

Satisfied == IF max_recv # 0 THEN can_recv >= max_recv ELSE can_recv > 0

\* Mutated form of DeadlinePassed: nobody looks at the clock.
DeadlineIgnored == FALSE

DeadlinePassed == deadline # None /\ clock >= deadline

\* Enough, too late, or wait: on the kernel, or for a moment if there is data
\* but not enough of it.
Decide ==
    /\ pc = "decide"
    /\ \/ Satisfied /\ pc' = "take" /\ UNCHANGED <<kept, result>>
       \/ ~Satisfied /\ DeadlinePassed /\ Return(<<>>)
       \/ /\ ~Satisfied /\ ~DeadlinePassed
          /\ pc' = IF can_recv > 0 THEN "sleep" ELSE "wait"
          /\ UNCHANGED <<kept, result>>
    /\ UNCHANGED <<c, network, socket, locals, clock, ready, bodies>>

Wake ==
    /\ \/ pc = "sleep"
       \/ pc = "wait" /\ (Readable \/ closed \/ DeadlinePassed)
    /\ pc' = "probe"
    /\ UNCHANGED <<c, network, socket, kept, locals, clock, answers>>

\* WaitReadable ends when its budget does.
MayWait == deadline # None /\ clock < deadline

\* Time passes in the wait for a deadline (the others need no clock).
Tick ==
    /\ pc = "wait"
    /\ ~Readable
    /\ MayWait /\ clock' = clock + 1
    /\ UNCHANGED <<c, network, socket, kept, pc, locals, answers>>

\* recv takes what was asked for, or all that FIONREAD saw. After a reset it fails.
Take ==
    LET n == IF max_recv # 0 THEN max_recv ELSE can_recv IN
    /\ pc = "take"
    /\ IF peer = "rst"
       THEN Return(<<>>) /\ UNCHANGED read
       ELSE Return(SubSeq(c.wire, read + 1, read + n)) /\ read' = read + n
    /\ UNCHANGED <<c, network, handle, closed, locals, clock, ready, bodies>>

-----------------------------------------------------------------------------

\* lua_Request: an earlier call may have left part of the request, or all of it.
CallRequest ==
    /\ pc = "handler"
    /\ "request" \in c.calls
    /\ clock' = 0
    /\ ready' = (WellFormed /\ received = <<>> /\ handle /\ arrived >= RequestEnd)
    /\ result' = "none"
    /\ IF recv_buffer = <<>>
       THEN Receive("first", 0, Timeout)
       ELSE pc' = "header" /\ UNCHANGED <<caller, max_recv, deadline>>
    /\ UNCHANGED <<c, network, socket, kept, can_recv, bodies>>

\* Mutated form of HeaderFound: the limit is looked at first.
HeaderFoundInLimit == Find(recv_buffer, CRLFCRLF) # 0 /\ Len(recv_buffer) < HeaderMax

HeaderFound == Find(recv_buffer, CRLFCRLF) # 0

\* The header: all of it is here and makes sense or not, or more of it is read
\* unless it is too long already.
Header ==
    /\ pc = "header" /\ UNCHANGED clock
    /\ \/ HeaderFound /\ c.line /\ ~c.badLength /\ pc' = "body" /\ UNCHANGED <<locals, kept, result>>
       \/ HeaderFound /\ ~c.line /\ GiveUp("malformed") /\ UNCHANGED locals
       \/ HeaderFound /\ c.line /\ c.badLength /\ GiveUp("length") /\ UNCHANGED locals
       \/ /\ ~HeaderFound /\ Len(recv_buffer) < HeaderMax
          /\ Receive("header", 0, Timeout)
          /\ UNCHANGED <<can_recv, kept, result>>
       \/ ~HeaderFound /\ Len(recv_buffer) >= HeaderMax /\ GiveUp("incomplete") /\ UNCHANGED locals
    /\ UNCHANGED <<c, network, socket, ready, bodies>>

\* Mutated form of Body: what follows the header is the body, all of it.
BodyOf(buffer) == SubSeq(buffer, BodyStart(buffer), Len(buffer))

\* The body of the request in a buffer that holds all of it.
Body(buffer) == SubSeq(buffer, BodyStart(buffer), BodyStart(buffer) - 1 + c.length)

\* The body: more of it is read until there is as much as Content-Length says.
\* recv_buffer stays as it is, so a later call finds the same request.
ReadBody ==
    /\ pc = "body" /\ UNCHANGED clock
    /\ IF Len(recv_buffer) - (BodyStart(recv_buffer) - 1) < c.length
       THEN Receive("body", 0, Timeout) /\ UNCHANGED <<can_recv, result, bodies>>
       ELSE /\ result' = "request"
            /\ bodies' = bodies \cup {Body(recv_buffer)} /\ pc' = "handler"
            /\ UNCHANGED locals
    /\ UNCHANGED <<c, network, socket, kept, ready>>

\* client:receive(n): no timeout.
CallReceive ==
    /\ pc = "handler"
    /\ "receive" \in c.calls
    /\ clock' = 0 /\ ready' = FALSE /\ result' = "none"
    /\ \E n \in c.wants : Receive("receive", n, 0)
    /\ UNCHANGED <<c, network, socket, kept, can_recv, bodies>>

\* SendBytes: a reset connection is marked closed.
Send ==
    /\ pc = "handler"
    /\ "send" \in c.calls
    /\ closed' = (closed \/ (handle /\ peer = "rst"))
    /\ UNCHANGED <<c, network, read, handle, kept, pc, locals, clock, answers>>

\* Socket::Close leaves a socket alone that it thinks is closed.
Close ==
    /\ pc = "handler"
    /\ "close" \in c.calls
    /\ handle' = (handle /\ closed) /\ closed' = TRUE
    /\ UNCHANGED <<c, network, read, kept, pc, locals, clock, answers>>

ReceiveBytes == Probe \/ Peek \/ Decide \/ Wake \/ Tick \/ Take
lua_Request == CallRequest \/ Header \/ ReadBody

Next ==
    \/ Arrive \/ PeerEnds
    \/ ReceiveBytes \/ lua_Request
    \/ CallReceive \/ Send \/ Close

Spec == Init /\ [][Next]_vars

\* A call, once made, runs on its own thread and its waits end when the kernel
\* says so or time is up. Nothing is assumed of the peer or the handler.
FairSpec == Spec /\ WF_vars(ReceiveBytes) /\ WF_vars(Header) /\ WF_vars(ReadBody)

-----------------------------------------------------------------------------

Places == {"handler", "probe", "peek", "decide", "sleep", "wait", "take", "header", "body"}
Failures == {"nil", "incomplete", "body_ended"}

\* Every variable holds a value of its C++ type, and recv never takes bytes that
\* have not arrived (which on a blocking socket would be a wait without end).
TypeOK ==
    /\ c \in Cases /\ arrived \in 0 .. Len(c.wire)
    /\ peer \in {"open", "fin", "rst"} /\ read \in 0 .. arrived
    /\ handle \in BOOLEAN /\ closed \in BOOLEAN
    /\ recv_buffer \in Seq(Cells) /\ received \in Seq(Cells)
    /\ pc \in Places /\ caller \in {"first", "header", "body", "receive"}
    /\ max_recv \in Nat /\ deadline \in Nat \cup {None} /\ can_recv \in Nat
    /\ clock \in Nat /\ ready \in BOOLEAN
    /\ result \in Failures \cup {"none", "request", "malformed", "length"}
    /\ bodies \subseteq Seq(Cells)

Ascending(s) == \A i, j \in 1 .. Len(s) : i < j => s[i].v < s[j].v
Numbers(s) == {s[i].v : i \in 1 .. Len(s)}

\* Every byte taken from the kernel is kept exactly once and in order, by the
\* request or by receive(n), whatever calls failed or timed out in between: a
\* request that failed can be asked for again.
EachByteOnce ==
    /\ Ascending(recv_buffer) /\ Ascending(received)
    /\ Len(recv_buffer) + Len(received) = read
    /\ Numbers(recv_buffer) \cup Numbers(received) = 1 .. read

\* A request that is returned has exactly the Content-Length bytes that follow
\* the peer's header, however they arrived and whatever follows them, and every
\* time client.request is read it is the same request.
RequestExact ==
    /\ \A x, y \in bodies : x = y
    /\ received = <<>> =>
        \A body \in bodies :
            /\ RequestEnd <= Len(c.wire)
            /\ body = SubSeq(c.wire, BodyStart(c.wire), RequestEnd)

\* A request is given up only for a reason: a whole timeout passed, the peer or
\* the handler ended the connection, or the header is too long. README:
\* client.request returns as soon as the request is buffered, so one that was in
\* the kernel before the call costs no wait, and is not refused.
GivesUpForReason ==
    pc = "handler" =>
        /\ result \in Failures =>
            clock >= Timeout \/ peer # "open" \/ ~handle \/ Len(recv_buffer) >= HeaderMax
        /\ ready /\ peer # "rst" => result = "request" /\ clock = 0

\* A read with a timeout does not outlast it.
ReceiveBounded == pc # "handler" /\ deadline # None => clock <= deadline

InRequest == pc # "handler" /\ (pc \in {"header", "body"} \/ caller # "receive")

\* A request ends, whatever the peer does or does not do.
RequestReturns == InRequest ~> (pc = "handler")

=============================================================================
