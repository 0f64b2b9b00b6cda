--------------------------- MODULE AsyncConnection ---------------------------
(***************************************************************************)
(* AsyncConnection (connection.cpp): a request sent and its answer read by *)
(* polling, with overlapped sends on a non-blocking socket. Lua calls      *)
(* start and poll; the kernel connects, completes sends and delivers; the  *)
(* peer answers, closes or resets.                                         *)
(*                                                                         *)
(* The peer's bytes are counted: response is how many were appended. A     *)
(* send the kernel has under way is represented by whether the buffer it   *)
(* was given is still the connection's.                                    *)
(***************************************************************************)
EXTENDS Integers, Sequences

CONSTANTS Total,      \* bytes of the peer's answers, at most
          RecvMax,    \* size of recvbuffer (65536)
          MaxStarts,  \* bound: calls of start
          MaxSends    \* bound: sends under way at a time, and copies counted

ASSUME AsyncAssumption ==
    /\ Total \in Nat /\ RecvMax \in Nat \ {0}
    /\ MaxStarts \in Nat \ {0} /\ MaxSends \in Nat \ {0, 1}

VARIABLES valid,             \* the constructor had a socket and an address
          connection_state,  \* 0 connecting, 1 sending, 2 receiving, 3 finished
          starts,            \* calls of start; the request is empty before the first
          response,          \* bytes appended to it
          expired,           \* start_time + 30000 < GetTickCount64()
          pc,                \* inside Poll: behind WSASend, in front of the test of the time, or behind it
          link,              \* what the kernel knows of the connection
          under_way,         \* sends the kernel has: is the buffer still the connection's?
          overlapped,        \* send_overlapped, as the last completion or WSASend left it
          copies,            \* history: copies of a request handed to the kernel
          got,               \* whole copies the peer received
          sent, closed,      \* bytes the peer sent, and whether it closed
          pended             \* history: a send was not completed at once

lua == <<valid, connection_state, starts, response, pc>>
kernel == <<link, under_way, overlapped, copies, got, pended>>
peer == <<sent, closed>>
vars == <<lua, expired, kernel, peer>>

AtMost(k, bound) == IF k < bound THEN k ELSE bound

-----------------------------------------------------------------------------
(* Start and Poll, on the Lua thread. *)

Init ==
    /\ valid \in BOOLEAN
    /\ connection_state = 0 /\ starts = 0 /\ response = 0 /\ expired = FALSE /\ pc = "idle"
    /\ link = "none" /\ under_way = <<>> /\ overlapped = "done"
    /\ copies = 0 /\ got = 0 /\ pended = FALSE /\ sent = 0 /\ closed = FALSE

\* Start stores the request in a new buffer, the old one is freed, and calls connect(), which
\* begins to connect, or reports an error of which only WSAEISCONN has an effect.
Connect ==
    /\ under_way' = [i \in DOMAIN under_way |-> FALSE]
    /\ link' = IF link = "none" THEN "connecting" ELSE link
    /\ \/ link = "up" /\ connection_state' = 1
       \/ link = "dead" /\ connection_state' \in {1, connection_state}
       \/ link \in {"none", "connecting"} /\ UNCHANGED connection_state
    /\ UNCHANGED <<overlapped, copies, got, pended>>

\* start(r) from Lua.
Start ==
    /\ valid /\ pc = "idle" /\ starts < MaxStarts /\ starts' = starts + 1
    /\ Connect /\ UNCHANGED <<valid, response, pc, expired, peer>>

\* Mutated form of PollConnect: a connection that is sending begins anew.
PollConnectSending ==
    /\ valid /\ pc = "idle" /\ connection_state \in {0, 1} /\ Connect
    /\ UNCHANGED <<valid, starts, response, pc, expired, peer>>

PollConnect ==
    /\ valid /\ pc = "idle" /\ connection_state = 0 /\ Connect
    /\ UNCHANGED <<valid, starts, response, pc, expired, peer>>

\* WSASend: done at once, left to the kernel, or refused because the connection is gone. The same
\* OVERLAPPED is used every time.
PollSend ==
    /\ valid /\ pc = "idle" /\ connection_state = 1
    /\ starts > 0 /\ link = "up" /\ Len(under_way) < MaxSends
    /\ pc' = "sent" /\ copies' = AtMost(copies + 1, MaxSends)
    /\ \/ /\ under_way = <<>>
          /\ overlapped' = "done" /\ got' = AtMost(got + 1, MaxSends)
          /\ UNCHANGED <<under_way, pended>>
       \/ /\ overlapped' = "pending" /\ under_way' = Append(under_way, TRUE)
          /\ pended' = TRUE /\ UNCHANGED got
    /\ UNCHANGED <<valid, connection_state, starts, response, expired, link, peer>>

\* Mutated form of PollResult: the result is read the wrong way round.
PollResultTwisted ==
    /\ pc = "sent"
    /\ IF overlapped # "done" THEN connection_state' = 2 /\ pc' = "receive"
       ELSE pc' = "idle" /\ UNCHANGED connection_state
    /\ UNCHANGED <<valid, starts, response, expired, kernel, peer>>

\* WSAGetOverlappedResult: any completion in the OVERLAPPED counts; a send under way counts as none,
\* and the next poll sends again.
PollResult ==
    /\ pc = "sent"
    /\ IF overlapped = "done" THEN connection_state' = 2 /\ pc' = "receive"
       ELSE pc' = "idle" /\ UNCHANGED connection_state
    /\ UNCHANGED <<valid, starts, response, expired, kernel, peer>>

Receiving == valid /\ (pc = "receive" \/ (pc = "idle" /\ connection_state = 2))

\* Mutated form of Reconnect: the connection gets another 30 s.
ReconnectFresh ==
    /\ Receiving /\ expired
    /\ connection_state' = 0 /\ pc' = "idle" /\ expired' = FALSE
    /\ UNCHANGED <<valid, starts, response, kernel, peer>>

\* 30 s after the connection was made.
Reconnect ==
    /\ Receiving /\ expired /\ connection_state' = 0 /\ pc' = "idle"
    /\ UNCHANGED <<valid, starts, response, expired, kernel, peer>>

\* The time is looked at once; it may run out before the read.
PollTimely ==
    /\ Receiving /\ ~expired /\ pc' = "read"
    /\ UNCHANGED <<valid, connection_state, starts, response, expired, kernel, peer>>

\* Mutated form of PollRecv: a read of nothing at all ends the answer, select or not.
PollRecvUnselected ==
    /\ pc = "read" /\ pc' = "idle"
    /\ LET there == AtMost(sent - response, RecvMax)
       IN  /\ response' = response + (IF link = "up" THEN there ELSE 0)
           /\ connection_state' = IF link = "up" /\ there = 0 THEN 3 ELSE 2
    /\ UNCHANGED <<valid, starts, expired, kernel, peer>>

\* Mutated form of PollRecv: the end of the stream is no news.
PollRecvNoEnd ==
    /\ pc = "read" /\ pc' = "idle"
    /\ response' = response + (IF link = "up" THEN AtMost(sent - response, RecvMax) ELSE 0)
    /\ connection_state' = 2
    /\ UNCHANGED <<valid, starts, expired, kernel, peer>>

\* select, then WSARecv of what is there. Nothing there but the end of the stream: finished. A
\* connection that was reset is readable and its read fails, which is not reported.
PollRecv ==
    /\ pc = "read" /\ pc' = "idle"
    /\ LET there == AtMost(sent - response, RecvMax)
       IN  /\ response' = response + (IF link = "up" THEN there ELSE 0)
           /\ connection_state' = IF link = "up" /\ there = 0 /\ closed THEN 3 ELSE 2
    /\ UNCHANGED <<valid, starts, expired, kernel, peer>>

\* __gc: the socket is closed and every buffer freed, whatever is under way.
Delete ==
    /\ pc = "idle" /\ valid' = FALSE
    /\ link' = "dead" /\ under_way' = [i \in DOMAIN under_way |-> FALSE]
    /\ UNCHANGED <<connection_state, starts, response, pc, expired, overlapped, copies, got,
                   pended, peer>>

-----------------------------------------------------------------------------
(* The clock, the kernel and the peer. *)

Expire == ~expired /\ expired' = TRUE /\ UNCHANGED <<lua, kernel, peer>>

Establish ==
    /\ link = "connecting" /\ link' = "up"
    /\ UNCHANGED <<lua, expired, under_way, overlapped, copies, got, pended, peer>>

Refuse ==
    /\ link = "connecting" /\ link' = "none"
    /\ UNCHANGED <<lua, expired, under_way, overlapped, copies, got, pended, peer>>

\* The oldest send under way is done; its completion goes into the one OVERLAPPED.
CompleteSend ==
    /\ under_way # <<>>
    /\ under_way' = Tail(under_way) /\ overlapped' = "done"
    /\ got' = IF link = "up" /\ Head(under_way) THEN AtMost(got + 1, MaxSends) ELSE got
    /\ UNCHANGED <<lua, expired, link, copies, pended, peer>>

PeerSends ==
    /\ link = "up" /\ got > 0 /\ ~closed /\ sent < Total
    /\ sent' = sent + 1 /\ UNCHANGED <<lua, expired, kernel, closed>>

PeerCloses ==
    /\ link = "up" /\ ~closed
    /\ closed' = TRUE /\ UNCHANGED <<lua, expired, kernel, sent>>

PeerResets ==
    /\ link = "up" /\ link' = "dead"
    /\ UNCHANGED <<lua, expired, under_way, overlapped, copies, got, pended, peer>>

-----------------------------------------------------------------------------
Poll == PollConnect \/ PollSend \/ PollResult \/ Reconnect \/ PollTimely \/ PollRecv

Next ==
    \/ Start \/ Poll \/ Delete
    \/ Expire \/ Establish \/ Refuse \/ CompleteSend
    \/ PeerSends \/ PeerCloses \/ PeerResets

\* Lua polls as long as it wants an answer, the kernel does its work, and the peer ends its answer.
Fairness ==
    /\ WF_vars(Poll) /\ WF_vars(CompleteSend) /\ WF_vars(Establish)
    /\ WF_vars(PeerCloses)

Spec == Init /\ [][Next]_vars /\ Fairness

-----------------------------------------------------------------------------
TypeOK ==
    /\ valid \in BOOLEAN /\ connection_state \in 0 .. 3 /\ starts \in 0 .. MaxStarts
    /\ response \in 0 .. sent /\ sent \in 0 .. Total
    /\ expired \in BOOLEAN /\ closed \in BOOLEAN /\ pended \in BOOLEAN
    /\ pc \in {"idle", "sent", "receive", "read"}
    /\ link \in {"none", "connecting", "up", "dead"}
    /\ under_way \in Seq(BOOLEAN) /\ Len(under_way) <= MaxSends
    /\ overlapped \in {"done", "pending"}
    /\ copies \in 0 .. MaxSends /\ got \in 0 .. MaxSends

\* Poll says true only for a whole answer: the request reached the peer, the peer closed, and every
\* byte it sent before is in the response (Poll, Recv). An early "nothing to read", a send that is
\* still under way or a reset never looks like the end.
FinishedWhole == connection_state = 3 => copies > 0 /\ closed /\ response = sent

\* While time lasts, a request handed over once is not handed over again unless its first send was
\* left to the kernel (connection.cpp:181 takes that for a failure) or start was called again: no
\* other path leads back to the send.
SentOnce == copies > 1 => pended \/ expired \/ starts > 1

\* A send under way reads from the buffer that holds the request. Poll in state 0 replaces the
\* buffer, also with the same request, but gets there with a send under way only after the 30 s
\* are over; start called again and the finalizer do it at any time (connection.cpp:145, 116).
BuffersLive ==
    \A i \in DOMAIN under_way : under_way[i] \/ expired \/ starts > 1 \/ ~valid

\* The 30 s count from the constructor and are never renewed (connection.cpp:247): a connection that
\* is not finished by then, and not about to read, never will be, though its answer be there, and
\* goes on sending.
LateNeverFinishes ==
    [](expired /\ pc # "read" /\ connection_state # 3 => [](connection_state # 3))

\* A connection that came about in time and is not reset is polled to its end, however the answer
\* was cut, if its sends are completed at once. A send that is left to the kernel every time is
\* repeated for ever: its completion is overwritten by the next WSASend before anybody looks.
Finishes ==
    [](~expired /\ link # "dead" /\ valid /\ ~pended) /\ <>(link = "up" /\ starts > 0)
    => <>(connection_state = 3)
=============================================================================
