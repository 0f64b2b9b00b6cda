------------------------------- MODULE MCDial -------------------------------
(***************************************************************************)
(* Dials for TLC: direct ones, and proxies that follow RFC 1928 and 1929   *)
(* with every choice, verdict, reply and address type, or break off or     *)
(* break the rules somewhere. What the target sends follows the replies,   *)
(* and looks like more of them.                                            *)
(***************************************************************************)
EXTENDS Dial, TLC

Base ==
    [proxy |-> TRUE, remote |-> FALSE, creds |-> FALSE, host |-> "literal", stream |-> <<>>,
     replies |-> 0, total |-> TRUE, ssl |-> FALSE, verify |-> TRUE,
     ca |-> "none", cert |-> "none"]

Bytes(n) == [i \in 1 .. n |-> 5]
Tunnel == <<5, 0, 0, 1, 5, 0>>

\* The bound address and port of a reply, by address type.
Bound(atyp, n) ==
    (CASE atyp = 1 -> Bytes(4) [] atyp = 4 -> Bytes(16) [] atyp = 3 -> <<n>> \o Bytes(n)
       [] OTHER -> <<>>) \o Bytes(2)

Entry(method, status) == IF method = 2 THEN <<5, 2, 1, status>> ELSE <<5, method>>

Answered(case, replies, tunnel) ==
    [case EXCEPT !.stream = replies \o tunnel, !.replies = Len(replies)]

\* Proxies that grant the request.
Granting ==
    {Answered([Base EXCEPT !.creds = cr, !.remote = r, !.host = h],
              Entry(m, 0) \o <<5, 0, 0, a>> \o Bound(a, n), Tunnel) :
        cr \in BOOLEAN, r \in BOOLEAN, h \in {"literal", "name", "unfit", "unknown"},
        m \in {0}, a \in {1, 3, 4}, n \in {1, 5, 255}}
    \cup
    {Answered([Base EXCEPT !.creds = TRUE, !.total = t],
              Entry(2, 0) \o <<5, 0, 0, a>> \o Bound(a, 5), Tunnel) :
        a \in {1, 3, 4}, t \in BOOLEAN}

\* Proxies that refuse: the method, the credentials or the request.
Refusing ==
    {Answered([Base EXCEPT !.creds = cr], <<5, 255>>, <<>>) : cr \in BOOLEAN}
    \cup {Answered([Base EXCEPT !.creds = TRUE], Entry(2, 1), more) : more \in {<<>>, Tunnel}}
    \cup
    {Answered([Base EXCEPT !.creds = TRUE], Entry(m, 0) \o <<5, code, 0, 1>> \o Bound(1, 0), <<>>) :
        m \in {0, 2}, code \in 1 .. 9}

\* Proxies that do not speak SOCKS5, or stop speaking it.
Breaking ==
    {Answered([Base EXCEPT !.creds = cr], replies, Tunnel) :
        cr \in BOOLEAN,
        replies \in {<<4, 0>>, <<5, 1>>, <<5, 2, 1, 0>>, <<5, 2, 5, 0>>,
                     <<5, 0, 4, 0, 0, 1>>, <<5, 0, 5, 0, 0, 2>>, <<5, 0, 5, 0, 0, 3, 0, 0, 0>>}}

\* With TLS, directly and through a proxy.
Secured ==
    {[x EXCEPT !.ssl = TRUE, !.verify = v, !.ca = ca, !.cert = cert] :
        x \in {[Base EXCEPT !.proxy = FALSE],
               Answered(Base, Entry(0, 0) \o <<5, 0, 0, 1>> \o Bound(1, 0), Tunnel)},
        v \in BOOLEAN, ca \in {"none", "readable", "unreadable"}, cert \in {"none", "good", "bad"}}

Dials == Granting \cup Refusing \cup Breaking \cup Secured \cup {[Base EXCEPT !.proxy = FALSE]}
=============================================================================
