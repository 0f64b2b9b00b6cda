----------------------------- MODULE MCTlsClient -----------------------------
(***************************************************************************)
(* Servers with one and with two flights, with and without a request for a *)
(* client certificate, whose application data may come along with the end  *)
(* of the handshake, empty and larger records, and endings of every kind,  *)
(* for a buffer of two records.                                            *)
(***************************************************************************)
EXTENDS TlsClient, TLC

Rec(kind, at, size, textAt, len, reply) ==
    [kind |-> kind, at |-> at, size |-> size, text |-> textAt, len |-> len, reply |-> reply]

\* A full handshake, three data records and a close notify.
Talkative ==
    << Rec("hs", 0, 1, 0, 0, FALSE), Rec("cert", 1, 3, 0, 0, TRUE), Rec("fin", 4, 1, 0, 0, FALSE),
       Rec("data", 5, 3, 0, 2, FALSE), Rec("data", 8, 1, 2, 0, FALSE),
       Rec("data", 9, 4, 2, 3, FALSE), Rec("close", 13, 1, 5, 0, FALSE) >>

\* The server asks for a client certificate, and a later record is damaged.
Asking ==
    << Rec("cert", 0, 2, 0, 0, FALSE), Rec("ask", 2, 1, 0, 0, TRUE), Rec("fin", 3, 2, 0, 0, FALSE),
       Rec("data", 5, 3, 0, 2, FALSE), Rec("bad", 8, 2, 2, 0, FALSE) >>

\* A resumed session: the client has the last word of the handshake.
Resumed ==
    << Rec("cert", 0, 1, 0, 0, FALSE), Rec("fin", 1, 4, 0, 0, TRUE), Rec("data", 5, 2, 0, 1, FALSE),
       Rec("data", 7, 2, 1, 1, FALSE), Rec("hs", 9, 1, 2, 0, FALSE) >>

Alerting == << Rec("hs", 0, 1, 0, 0, FALSE), Rec("alert", 1, 1, 0, 0, FALSE) >>

AllSessions ==
    [records : {Talkative, Asking, Resumed}, accept : {TRUE}]
    \cup {[records |-> Talkative, accept |-> FALSE], [records |-> Alerting, accept |-> TRUE]}
=============================================================================
