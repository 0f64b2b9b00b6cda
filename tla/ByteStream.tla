----------------------------- MODULE ByteStream -----------------------------
(***************************************************************************)
(* What Recv and Send of a connection promise whoever calls them, whatever *)
(* lies below: records, buffers, timeouts, reads that stay active. A plain *)
(* socket (BaseSock) and a TLS session (TlsClient) promise the same.       *)
(*                                                                         *)
(* The bytes of either side are numbered from 1. Every Recv continues      *)
(* where the one before it ended, also behind a failure; a Send that       *)
(* returns a length has sent exactly the bytes it was given.               *)
(*                                                                         *)
(* The promise ends with the first call that is begun over an operation    *)
(* still under way (a Send over a read that timed out, any call over a     *)
(* write that did): both use one OVERLAPPED, and either may be given the   *)
(* result of the other.                                                    *)
(***************************************************************************)
EXTENDS Integers, Sequences

VARIABLES
    limit,          \* bytes the peer sends in all
    calling,        \* the call that runs: "none", "recv" or "send"; "late" when none does
                    \* and the bytes of a Send that failed may still leave
    asked,          \* its length
    got,            \* the bytes all Recvs so far have returned, by number
    put,            \* the bytes of the last Send the peer was sent, by number
    answer,         \* of the last call that returned: a length, or -1
    misused         \* a call was begun over an operation still under way

svars == <<limit, calling, asked, got, put, answer, misused>>

FromStart(n) == [i \in 1..n |-> i]

SInit ==
    /\ limit \in Nat /\ calling = "none" /\ asked \in Nat
    /\ got = <<>> /\ put = <<>> /\ answer = 0 /\ misused = FALSE

\* A call begins.
Begins ==
    /\ calling = "none" /\ calling' \in {"recv", "send"} /\ asked' \in Nat
    /\ put' = IF calling' = "send" THEN <<>> ELSE put
    /\ UNCHANGED <<limit, got, answer>>

\* A call may also return at once, with the length it has just been given.
Lengths == IF calling = "none" THEN Nat ELSE {asked}

\* Recv returns a length, at most the one asked for, and with it the next bytes.
RecvReturns ==
    /\ calling \in {"none", "recv"} /\ calling' = "none"
    /\ asked' \in Lengths /\ answer' \in 0..asked'
    /\ Len(got) + answer' <= limit /\ got' = FromStart(Len(got) + answer')
    /\ UNCHANGED <<limit, put>>

\* The peer was sent more of the caller's bytes.
SendsMore == \E n \in Len(put)..asked : put' = FromStart(n)

Sends ==
    /\ calling = "send" /\ SendsMore
    /\ UNCHANGED <<limit, calling, asked, got, answer>>

\* Send returns, with all of it.
SendReturns ==
    /\ calling = "send" /\ calling' = "none" /\ put' = FromStart(asked) /\ answer' = asked
    /\ UNCHANGED <<limit, asked, got>>

\* A call fails. The peer may have been sent a part; nothing received is lost.
Fails ==
    /\ calling \in {"none", "recv", "send"}
    /\ calling' \in {"none"} \cup (IF calling = "send" THEN {"late"} ELSE {})
    /\ asked' \in Lengths /\ answer' = -1
    /\ UNCHANGED put \/ (calling = "send" /\ SendsMore)
    /\ UNCHANGED <<limit, got>>

\* What a Send that failed has left behind is over.
SendsLate ==
    /\ calling = "late" /\ calling' = "none"
    /\ UNCHANGED put \/ SendsMore
    /\ UNCHANGED <<limit, asked, got, answer>>

\* Nothing is promised to an owner that crosses two operations.
Misused == misused'

Promised ==
    /\ Begins \/ RecvReturns \/ Sends \/ SendReturns \/ Fails \/ SendsLate
    /\ ~misused /\ UNCHANGED misused

SNext == Misused \/ Promised

SSpec == SInit /\ [][SNext]_svars
=============================================================================
