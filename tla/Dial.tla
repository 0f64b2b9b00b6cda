-------------------------------- MODULE Dial --------------------------------
(***************************************************************************)
(* Dial (socket/Dial.cpp), the one way every call of the network module    *)
(* gets a connection: to the target or to a SOCKS5 proxy, then the SOCKS5  *)
(* conversation, then the TLS handshake with its certificate check.        *)
(*                                                                         *)
(* A proxy is the stream of bytes it will send (c.stream); RecvExact takes *)
(* an exact number of them, so pos says where in the stream the client is. *)
(* The place where a dial failed stays in pc, the code Lua sees (the one in*)
(* brackets at the head of the message) is in outcome.                     *)
(***************************************************************************)
EXTENDS Integers, Sequences

CONSTANTS
    Cases           \* the dials: the options and what the other side will do

Byte == 0 .. 255

Case ==
    [proxy   : BOOLEAN,                       \* options.proxy has a value
     remote  : BOOLEAN,                       \* socks5h: the proxy resolves the name
     creds   : BOOLEAN,                       \* the proxy URL carries credentials
     host    : {"literal", "name", "unfit", "unknown"},
                      \* unfit: not 1-255 bytes of UTF-8, unknown: does not resolve
     stream  : Seq(Byte),                     \* every byte the proxy sends
     replies : Nat,                           \* how many of them are its replies
     total   : BOOLEAN,                       \* a total timeout is set
     ssl     : BOOLEAN,
     verify  : BOOLEAN,                       \* options.tls_verify
     ca      : {"none", "readable", "unreadable"},   \* options.ca_file
     cert    : {"none", "good", "bad"}]       \* what the TLS peer presents

ASSUME CasesAssumption == Cases \subseteq Case

VARIABLES
    c,              \* the dial (never changes)
    pc,             \* where Dial is
    pos,            \* bytes of c.stream read
    address_length, \* length of the bound address of the CONNECT reply
    wrote,          \* the SOCKS5 messages sent
    checked,        \* CertificateVerifier::checked
    failed,         \* CertificateVerifier::failed
    outcome         \* "none" while running, "ok", or the code of the DialError

verifier == <<checked, failed>>
vars == <<c, pc, pos, address_length, wrote, verifier, outcome>>

-----------------------------------------------------------------------------

Sending == {"greeting", "credentials", "request"}
Reading == {"choice", "verdict", "reply", "length", "address", "port"}
Places == Sending \cup Reading \cup {"connect", "connected", "handshake"}

\* DialErrorText: how a failed TCP connect is reported.
ConnectErrors ==
    {"connect_refused", "connect_timeout", "connect_network_unreachable",
     "dns_failed", "connect_failed"}

\* ReplyCode: what a proxy's reply other than 0 is called.
ReplyCode(code) ==
    CASE code = 1 -> "proxy_general_failure"
      [] code = 2 -> "proxy_not_allowed"
      [] code = 3 -> "proxy_network_unreachable"
      [] code = 4 -> "proxy_host_unreachable"
      [] code = 5 -> "proxy_target_refused"
      [] code = 6 -> "proxy_ttl_expired"
      [] code = 7 -> "proxy_command_unsupported"
      [] code = 8 -> "proxy_address_type_unsupported"
      [] OTHER    -> "proxy_reply_unknown"

\* Dial goes on at another place, or ends: it throws, or returns the connection.
GoTo(place) == pc' = place /\ UNCHANGED outcome
End(code) == outcome' = code /\ UNCHANGED pc

Byte1 == c.stream[pos + 1]
Byte2 == c.stream[pos + 2]
Byte4 == c.stream[pos + 4]

\* RecvExact returns the next n bytes of the proxy's stream.
Take(n) ==
    /\ outcome = "none" /\ pos + n <= Len(c.stream) /\ pos' = pos + n

Init ==
    /\ c \in Cases /\ pc = "connect" /\ pos = 0 /\ address_length = 0
    /\ wrote = {} /\ checked = FALSE /\ failed = FALSE /\ outcome = "none"

\* The TCP connection: to the proxy if there is one, and then to nothing else.
Connect ==
    /\ outcome = "none" /\ pc = "connect"
    /\ \/ GoTo(IF c.proxy THEN "greeting" ELSE "connected")
       \/ \E code \in ConnectErrors : End(code)
    /\ UNCHANGED <<c, pos, address_length, wrote, verifier>>

\* ConnectRequest builds the CONNECT: the name as it is for socks5h, otherwise an
\* address, so a host that is no literal is resolved first. This comes before the
\* send, which is why neither the deadline nor the send can fail in its stead.
Unsendable ==
    /\ pc = "request"
    /\ IF c.remote THEN c.host = "unfit" ELSE c.host \notin {"literal", "name"}

\* Remaining() throws when the total timeout is spent; every send and every read
\* of the conversation asks it, and so does the start of the TLS handshake.
Expired ==
    /\ outcome = "none" /\ c.total /\ pc \in Places \ {"handshake"}
    /\ pc = "connected" => c.ssl
    /\ ~Unsendable
    /\ End("timeout")
    /\ UNCHANGED <<c, pos, address_length, wrote, verifier>>

\* SendAll fails: the message does not go out whole.
SendFails ==
    /\ outcome = "none" /\ pc \in Sending
    /\ ~Unsendable
    /\ End("proxy_protocol_error")
    /\ UNCHANGED <<c, pos, address_length, wrote, verifier>>

\* RecvExact fails: nothing arrives in time, or the connection ends too early.
ReceiveFails ==
    /\ outcome = "none" /\ pc \in Reading
    /\ \E code \in {"proxy_timeout", "proxy_closed"} : End(code)
    /\ UNCHANGED <<c, pos, address_length, wrote, verifier>>

-----------------------------------------------------------------------------

\* The method list: no authentication, and with credentials also RFC 1929.
SendGreeting ==
    /\ outcome = "none" /\ pc = "greeting"
    /\ wrote' = wrote \cup {"greeting"} /\ GoTo("choice")
    /\ UNCHANGED <<c, pos, address_length, verifier>>

\* The methods the client can go on with, given what it offered.
Usable(method) == method = 0 \/ (method = 2 /\ c.creds)

\* The proxy's choice of a method.
ReadChoice ==
    /\ pc = "choice" /\ Take(2)
    /\ \/ Byte1 # 5 /\ End("proxy_protocol_error")
       \/ Byte1 = 5 /\ ~Usable(Byte2) /\ End("proxy_no_acceptable_auth")
       \/ Byte1 = 5 /\ Usable(Byte2) /\ GoTo(IF Byte2 = 2 THEN "credentials" ELSE "request")
    /\ UNCHANGED <<c, address_length, wrote, verifier>>

SendCredentials ==
    /\ outcome = "none" /\ pc = "credentials"
    /\ wrote' = wrote \cup {"credentials"} /\ GoTo("verdict")
    /\ UNCHANGED <<c, pos, address_length, verifier>>

\* Mutated form of Accepted: any verdict of the right version will do.
AcceptedAlways == TRUE

\* The proxy accepts the credentials.
Accepted == Byte2 = 0

ReadVerdict ==
    /\ pc = "verdict" /\ Take(2)
    /\ \/ Byte1 # 1 /\ End("proxy_protocol_error")
       \/ Byte1 = 1 /\ ~Accepted /\ End("proxy_auth_failed")
       \/ Byte1 = 1 /\ Accepted /\ GoTo("request")
    /\ UNCHANGED <<c, address_length, wrote, verifier>>

SendRequest ==
    /\ outcome = "none" /\ pc = "request"
    /\ \/ /\ Unsendable
          /\ End(IF c.remote THEN "proxy_target_name_invalid" ELSE "proxy_dns_failed")
          /\ UNCHANGED wrote
       \/ /\ ~Unsendable
          /\ wrote' = wrote \cup {"connect"} /\ GoTo("reply")
    /\ UNCHANGED <<c, pos, address_length, verifier>>

\* Mutated form of AddressBytes: every bound address is taken for an IPv4 one.
AddressBytesFixed(atyp) == 4

\* Bytes of a bound address; ATYP 3 puts its length in front, which is read first.
AddressBytes(atyp) == CASE atyp = 1 -> 4 [] atyp = 4 -> 16 [] OTHER -> 0

\* The head of the reply to CONNECT: version, reply code, reserved, address type.
ReadReply ==
    /\ pc = "reply" /\ Take(4) /\ address_length' = AddressBytes(Byte4)
    /\ \/ Byte1 # 5 /\ End("proxy_protocol_error")
       \/ Byte1 = 5 /\ Byte2 # 0 /\ End(ReplyCode(Byte2))
       \/ Byte1 = 5 /\ Byte2 = 0 /\ Byte4 \notin {1, 3, 4} /\ End("proxy_protocol_error")
       \/ Byte1 = 5 /\ Byte2 = 0 /\ Byte4 = 3 /\ GoTo("length")
       \/ Byte1 = 5 /\ Byte2 = 0 /\ Byte4 \in {1, 4} /\ GoTo("address")
    /\ UNCHANGED <<c, wrote, verifier>>

ReadLength ==
    /\ pc = "length" /\ Take(1) /\ address_length' = Byte1
    /\ IF Byte1 = 0 THEN End("proxy_protocol_error") ELSE GoTo("address")
    /\ UNCHANGED <<c, wrote, verifier>>

ReadAddress ==
    /\ pc = "address" /\ Take(address_length) /\ GoTo("port")
    /\ UNCHANGED <<c, address_length, wrote, verifier>>

ReadPort ==
    /\ pc = "port" /\ Take(2) /\ GoTo("connected")
    /\ UNCHANGED <<c, address_length, wrote, verifier>>

-----------------------------------------------------------------------------

\* There is a connection to the target. Without ssl it is returned; with it the
\* verifier is made, which loads ca_file if it is to be used.
Connected ==
    /\ outcome = "none" /\ pc = "connected"
    /\ \/ ~c.ssl /\ End("ok") /\ UNCHANGED failed
       \/ /\ c.ssl
          /\ failed' = (c.verify /\ c.ca = "unreadable")
          /\ GoTo("handshake")
    /\ UNCHANGED <<c, pos, address_length, wrote, checked>>

\* CertificateVerifier::Check, called by the handshake once the peer's
\* certificate is known and again at each later step: it refuses a certificate
\* that does not verify, and everything when ca_file was not loaded.
Rejects == c.verify /\ (failed \/ c.cert = "bad")

\* Mutated form of HandshakeError: the verifier is asked even if it never ran.
HandshakeErrorUnseen(seen, bad) == IF bad THEN "tls_certificate" ELSE "tls_handshake_failed"

\* Initialize fails. A certificate that was rejected is the reason, if there was
\* one; a handshake that broke otherwise says nothing about trust.
HandshakeError(seen, bad) == IF seen /\ bad THEN "tls_certificate" ELSE "tls_handshake_failed"

CheckCertificate ==
    /\ outcome = "none" /\ pc = "handshake" /\ c.cert # "none"
    /\ checked' = TRUE
    /\ failed' = (failed \/ Rejects)
    /\ IF Rejects THEN End(HandshakeError(TRUE, TRUE)) ELSE UNCHANGED <<pc, outcome>>
    /\ UNCHANGED <<c, pos, address_length, wrote>>

\* The handshake breaks, before or after the certificate was seen.
HandshakeFails ==
    /\ outcome = "none" /\ pc = "handshake"
    /\ End(HandshakeError(checked, failed))
    /\ UNCHANGED <<c, pos, address_length, wrote, verifier>>

\* Mutated form of Unverified: a handshake without a certificate is let through.
UnverifiedIgnored == FALSE

\* The check that never ran is a failure.
Unverified == c.verify /\ ~checked

\* SChannel finishes the handshake: a certificate, if the peer has one, was handed
\* to the check before.
HandshakeDone ==
    /\ outcome = "none" /\ pc = "handshake"
    /\ c.cert = "none" \/ checked
    /\ End(IF Unverified THEN "tls_no_certificate" ELSE "ok")
    /\ UNCHANGED <<c, pos, address_length, wrote, verifier>>

Done == outcome # "none" /\ UNCHANGED vars

Next ==
    \/ Connect \/ Expired \/ SendFails \/ ReceiveFails
    \/ SendGreeting \/ ReadChoice
    \/ SendCredentials \/ ReadVerdict
    \/ SendRequest \/ ReadReply \/ ReadLength \/ ReadAddress \/ ReadPort
    \/ Connected \/ CheckCertificate \/ HandshakeFails \/ HandshakeDone
    \/ Done

Spec == Init /\ [][Next]_vars

-----------------------------------------------------------------------------

\* The refusals of the README's table, what else can be held against a proxy, and
\* every way a dial can end.
Refusals == {"proxy_general_failure", "proxy_not_allowed", "proxy_network_unreachable",
             "proxy_host_unreachable", "proxy_target_refused", "proxy_ttl_expired",
             "proxy_command_unsupported", "proxy_address_type_unsupported",
             "proxy_reply_unknown"}
ProxyErrors == Refusals \cup {"proxy_protocol_error", "proxy_no_acceptable_auth", "proxy_auth_failed"}
Outcomes == {"none", "ok", "timeout", "proxy_timeout", "proxy_closed", "proxy_dns_failed",
             "proxy_target_name_invalid", "tls_certificate", "tls_handshake_failed",
             "tls_no_certificate"} \cup ConnectErrors \cup ProxyErrors

\* Every variable holds a value of its C++ type, and no read runs past the bytes
\* the proxy sends.
TypeOK ==
    /\ c \in Cases /\ pc \in Places /\ pos \in 0 .. Len(c.stream)
    /\ address_length \in Byte
    /\ wrote \subseteq {"greeting", "credentials", "connect"}
    /\ checked \in BOOLEAN /\ failed \in BOOLEAN /\ outcome \in Outcomes

\* Dial got past the proxy: TLS or the caller's bytes may follow.
Through == pc \in {"connected", "handshake"}

\* The proxy's replies as they lie in its stream: the choice of a method in the
\* first two bytes, a verdict after it if the method asks for one, then the reply
\* to CONNECT.
Chose(method) == c.stream[1] = 5 /\ c.stream[2] = method
Verified == c.stream[3] = 1 /\ c.stream[4] = 0
Admitted == Chose(0) \/ (Chose(2) /\ Verified)
ReplyAt == IF Chose(2) THEN 5 ELSE 3
Granted == Admitted /\ c.stream[ReplyAt] = 5 /\ c.stream[ReplyAt + 1] = 0

\* The methods of the greeting.
Offered == IF c.creds THEN {0, 2} ELSE {0}

\* The reply to CONNECT, well formed and the whole rest of the replies: a head of
\* four bytes, then the bound address, an IPv4 or IPv6 one or a name with its length
\* in front, then two bytes of port.
BoundType == c.stream[ReplyAt + 3]
ReplyEnd ==
    CASE BoundType = 1 -> ReplyAt + 9
      [] BoundType = 4 -> ReplyAt + 21
      [] OTHER         -> ReplyAt + 6 + c.stream[ReplyAt + 4]
WellFormedReply ==
    /\ c.replies > ReplyAt + 4 /\ c.stream[ReplyAt] = 5
    /\ BoundType \in {1, 3, 4}
    /\ BoundType = 3 => c.stream[ReplyAt + 4] # 0
    /\ c.replies = ReplyEnd

\* The replies follow RFC 1928 and RFC 1929: the proxy refuses every method, or
\* chooses an offered one and then refuses the credentials or answers the CONNECT.
Honest ==
    /\ c.replies \in 2 .. Len(c.stream) /\ c.stream[1] = 5
    /\ \/ c.stream[2] = 255 /\ c.replies = 2
       \/ /\ c.stream[2] \in Offered
          /\ c.replies >= 4
          /\ \/ Chose(2) /\ c.replies = 4 /\ c.stream[3] = 1 /\ c.stream[4] # 0
             \/ Admitted /\ WellFormedReply

\* The bytes after the proxy's replies belong to the tunnel. The conversation
\* never takes one of them, and when it is over it has taken all the others, so
\* the first byte TLS or HTTP reads is the first byte of the target.
TunnelUntouched ==
    c.proxy /\ Honest =>
        /\ pos <= c.replies
        /\ Through => pos = c.replies

\* The credentials leave the machine only when the caller gave some and the proxy
\* asked for them, the target is named only to a proxy that let the client in,
\* and nothing more is sent before the proxy granted the connection.
ConversationLegal ==
    /\ "credentials" \in wrote => c.creds /\ Chose(2)
    /\ "connect" \in wrote => Admitted
    /\ c.proxy /\ Through => Granted

\* With ssl and tls_verify a connection is returned only to a peer whose
\* certificate verified against roots that could be loaded.
Authenticated ==
    outcome = "ok" /\ c.ssl /\ c.verify => c.cert = "good" /\ c.ca # "unreadable"

\* The code of an error blames who is to blame. A trust error is raised only for
\* a certificate that was presented and is bad, or for roots that could not be
\* loaded, and a bad certificate that was seen is never reported as a broken
\* transport. A proxy that follows the RFCs is never blamed for an answer it
\* gave: only what it refused is reported, with the code of that refusal.
ErrorsAreTrue ==
    /\ outcome = "tls_certificate" => c.cert = "bad" \/ (c.cert = "good" /\ c.ca = "unreadable")
    /\ outcome = "tls_handshake_failed" /\ checked /\ c.verify => c.cert = "good"
    /\ outcome = "tls_no_certificate" => c.cert = "none"
    /\ Honest /\ pc \in Reading /\ outcome \in ProxyErrors =>
        \/ outcome = "proxy_no_acceptable_auth" /\ c.stream[2] \notin Offered
        \/ outcome = "proxy_auth_failed" /\ c.stream[4] # 0
        \/ outcome \in Refusals /\ Admitted /\ c.stream[ReplyAt + 1] # 0

\* What makes ConversationLegal inductive: at each place of a running dial, how
\* much of the stream was read and what the bytes read so far said.
Progress ==
    /\ ~c.proxy => pc \in {"connect", "connected", "handshake"}
    /\ c.proxy /\ pc \in {"length", "address", "port", "connected", "handshake"} => Granted
    /\ outcome = "none" /\ pc \in {"connect", "greeting", "choice"} => pos = 0
    /\ outcome = "none" /\ pc \in {"credentials", "verdict"} => pos = 2 /\ Chose(2) /\ c.creds
    /\ outcome = "none" /\ pc \in {"request", "reply"} => pos + 1 = ReplyAt /\ Admitted

\* What makes TunnelUntouched inductive: how much of the reply to CONNECT is still
\* to be read at each place within it.
Framed ==
    c.proxy /\ Honest /\ outcome = "none" =>
        /\ pc = "length" => pos = ReplyAt + 3 /\ BoundType = 3
        /\ pc = "address" => pos + address_length + 2 = c.replies
        /\ pc = "port" => pos + 2 = c.replies

\* What makes Authenticated inductive: what the verifier knows during a handshake,
\* and where a dial can succeed.
Vetting ==
    /\ pc = "handshake" => c.ssl
    /\ outcome = "ok" => pc = (IF c.ssl THEN "handshake" ELSE "connected")
    /\ pc = "handshake" /\ c.verify /\ c.ca = "unreadable" => failed
    /\ checked => c.cert # "none"
    /\ checked /\ c.verify /\ outcome \in {"none", "ok"} => ~failed /\ c.cert = "good"
    /\ outcome = "ok" /\ c.ssl /\ c.verify => checked
    /\ checked => pc = "handshake"
    /\ failed /\ outcome = "none" => c.verify /\ c.ca = "unreadable"

=============================================================================
