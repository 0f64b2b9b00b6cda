----------------------------- MODULE DialProofs -----------------------------
(***************************************************************************)
(* Theorems about Dial, for every set of dials: with any options, and      *)
(* whatever bytes a proxy sends. Then about the certificate verifier the   *)
(* dial hands to TLS (CertVerify, DerNames), for every host, every         *)
(* ca_file, every certificate and every answer of the chain engine and the *)
(* policy. The two are proved one beside the other: Spec and TypeOK are    *)
(* those of Dial, VerifierSpec and VerifierTypeOK those of CertVerify.     *)
(***************************************************************************)
EXTENDS Dial, CertVerify, SequenceTheorems, WellFoundedInduction, TLAPS

\* A case has its fields, and its stream is a sequence of bytes.
LEMMA CaseFields ==
    ASSUME NEW x \in Cases
    PROVE  /\ x.stream \in Seq(Byte) /\ x.replies \in Nat
           /\ x.proxy \in BOOLEAN /\ x.creds \in BOOLEAN
           /\ x.ssl \in BOOLEAN /\ x.verify \in BOOLEAN
           /\ x.ca \in {"none", "readable", "unreadable"}
           /\ x.cert \in {"none", "good", "bad"}
<1>1. x \in Case
  BY CasesAssumption
<1> QED
  BY <1>1 DEF Case

\* Every reply code has a name of the README's table.
LEMMA ReplyCodeNamed ==
    ASSUME NEW code \in Byte
    PROVE  ReplyCode(code) \in Refusals
BY DEF Byte, ReplyCode, Refusals

\* A read stays within the stream, and the bytes it returns are bytes.
LEMMA TakenBytes ==
    ASSUME TypeOK, NEW n \in Nat, Take(n)
    PROVE  /\ pos' \in 0 .. Len(c.stream)
           /\ \A i \in 1 .. n : c.stream[pos + i] \in Byte
<1>1. c.stream \in Seq(Byte)
  BY CaseFields DEF TypeOK
<1>2. pos \in Nat /\ Len(c.stream) \in Nat
  BY <1>1 DEF TypeOK
<1>3. pos' = pos + n /\ pos + n <= Len(c.stream)
  BY DEF Take
<1>4. \A i \in 1 .. n : pos + i \in 1 .. Len(c.stream)
  BY <1>2, <1>3
<1> QED
  BY <1>1, <1>2, <1>3, <1>4

\* One step of a dial keeps every variable within its type.
LEMMA TypeStep ==
    ASSUME TypeOK, [Next]_vars
    PROVE  TypeOK'
<1> USE DEF GoTo, End, verifier
<1>0. Byte \subseteq Nat /\ 0 \in Byte
  BY DEF Byte
<1>1. CASE UNCHANGED vars
  BY <1>1 DEF TypeOK, vars
<1>2. CASE Connect
  BY <1>2 DEF TypeOK, Connect, Places, Sending, Reading, Outcomes
<1>3. CASE Expired
  BY <1>3 DEF TypeOK, Expired, Outcomes
<1>4. CASE SendFails
  BY <1>4 DEF TypeOK, SendFails, Outcomes, ProxyErrors
<1>5. CASE ReceiveFails
  BY <1>5 DEF TypeOK, ReceiveFails, Outcomes
<1>6. CASE SendGreeting
  BY <1>6 DEF TypeOK, SendGreeting, Places, Reading
<1>7. CASE ReadChoice
  <2>1. pos' \in 0 .. Len(c.stream)
    BY <1>7, TakenBytes DEF ReadChoice
  <2> QED
    BY <1>7, <2>1 DEF TypeOK, ReadChoice, Places, Sending, Outcomes, ProxyErrors
<1>8. CASE SendCredentials
  BY <1>8 DEF TypeOK, SendCredentials, Places, Reading
<1>9. CASE ReadVerdict
  <2>1. pos' \in 0 .. Len(c.stream)
    BY <1>9, TakenBytes DEF ReadVerdict
  <2> QED
    BY <1>9, <2>1 DEF TypeOK, ReadVerdict, Places, Sending, Outcomes, ProxyErrors
<1>10. CASE SendRequest
  BY <1>10 DEF TypeOK, SendRequest, Places, Reading, Outcomes
<1>11. CASE ReadReply
  <2>1. pos' \in 0 .. Len(c.stream) /\ Byte2 \in Byte
    BY <1>11, TakenBytes DEF ReadReply, Byte2
  <2>2. AddressBytes(Byte4) \in Byte
    BY DEF AddressBytes, Byte
  <2>3. ReplyCode(Byte2) \in Refusals
    BY <2>1, ReplyCodeNamed
  <2> QED
    BY <1>11, <2>1, <2>2, <2>3 DEF TypeOK, ReadReply, Places, Reading, Outcomes, ProxyErrors
<1>12. CASE ReadLength
  <2>1. pos' \in 0 .. Len(c.stream) /\ Byte1 \in Byte
    BY <1>12, TakenBytes DEF ReadLength, Byte1
  <2> QED
    BY <1>12, <2>1 DEF TypeOK, ReadLength, Places, Reading, Outcomes, ProxyErrors
<1>13. CASE ReadAddress
  <2>1. address_length \in Nat
    BY <1>0 DEF TypeOK
  <2>2. pos' \in 0 .. Len(c.stream)
    BY <1>13, <2>1, TakenBytes DEF ReadAddress
  <2> QED
    BY <1>13, <2>2 DEF TypeOK, ReadAddress, Places, Reading
<1>14. CASE ReadPort
  <2>1. pos' \in 0 .. Len(c.stream)
    BY <1>14, TakenBytes DEF ReadPort
  <2> QED
    BY <1>14, <2>1 DEF TypeOK, ReadPort, Places
<1>15. CASE Connected
  BY <1>15, Zenon DEF TypeOK, Connected, Places, Outcomes
<1>16. CASE CheckCertificate
  BY <1>16, Zenon DEF TypeOK, CheckCertificate, HandshakeError, Outcomes
<1>17. CASE HandshakeFails
  BY <1>17 DEF TypeOK, HandshakeFails, HandshakeError, Outcomes
<1>18. CASE HandshakeDone
  BY <1>18 DEF TypeOK, HandshakeDone, Outcomes
<1>19. CASE Done
  BY <1>19 DEF TypeOK, Done, vars
<1> QED
  BY <1>1, <1>2, <1>3, <1>4, <1>5, <1>6, <1>7, <1>8, <1>9, <1>10, <1>11, <1>12,
     <1>13, <1>14, <1>15, <1>16, <1>17, <1>18, <1>19 DEF Next

\* Type correctness: no read leaves the proxy's stream and every error has a code
\* of the documented set, whatever the proxy sends.
THEOREM TypeCorrect == Spec => []TypeOK
<1>1. Init => TypeOK
  <2> SUFFICES ASSUME Init PROVE TypeOK
    OBVIOUS
  <2>1. c.stream \in Seq(Byte) /\ Len(c.stream) \in Nat
    BY CaseFields DEF Init
  <2>2. pos \in 0 .. Len(c.stream) /\ address_length \in Byte
    BY <2>1 DEF Init, Byte
  <2>3. pc \in Places /\ outcome \in Outcomes
    BY DEF Init, Places, Outcomes
  <2> QED
    BY <2>2, <2>3 DEF Init, TypeOK
<1>2. TypeOK /\ [Next]_vars => TypeOK'
  BY TypeStep
<1> QED
  BY <1>1, <1>2, PTL DEF Spec

-----------------------------------------------------------------------------

\* One step keeps what is known of the conversation: how far it got, what the
\* proxy said, and that what was sent was allowed.
LEMMA ConversationStep ==
    ASSUME TypeOK, Progress, ConversationLegal, [Next]_vars
    PROVE  (Progress /\ ConversationLegal)'
<1> USE DEF GoTo, End, verifier, Through
<1>0. c.proxy \in BOOLEAN /\ pos \in Nat
  BY CaseFields DEF TypeOK
<1>c. c' = c
  BY DEF Next, vars, Connect, Expired, SendFails, ReceiveFails, SendGreeting, ReadChoice,
         SendCredentials, ReadVerdict, SendRequest, ReadReply, ReadLength, ReadAddress,
         ReadPort, Connected, CheckCertificate, HandshakeFails, HandshakeDone, Done
<1>said. /\ Granted' = Granted /\ Admitted' = Admitted /\ ReplyAt' = ReplyAt
         /\ Chose(2)' = Chose(2)
  BY <1>c DEF Granted, Admitted, ReplyAt, Chose, Verified
<1>1. CASE UNCHANGED vars
  BY <1>1, <1>said DEF Progress, ConversationLegal, vars
<1>2. CASE Connect
  BY <1>0, <1>2, <1>said DEF Progress, ConversationLegal, Connect
<1>3. CASE Expired
  BY <1>3, <1>said DEF Progress, ConversationLegal, Expired
<1>4. CASE SendFails
  BY <1>4, <1>said DEF Progress, ConversationLegal, SendFails
<1>5. CASE ReceiveFails
  BY <1>5, <1>said DEF Progress, ConversationLegal, ReceiveFails
<1>6. CASE SendGreeting
  BY <1>6, <1>said DEF Progress, ConversationLegal, SendGreeting
<1>7. CASE ReadChoice
  <2>1. pos = 0 /\ pos' = 2 /\ outcome = "none"
    BY <1>0, <1>7 DEF ReadChoice, Take, Progress
  <2>2. Byte1 = c.stream[1] /\ Byte2 = c.stream[2]
    BY <2>1 DEF Byte1, Byte2
  <2>3. CASE pc' = "credentials" /\ outcome' = "none"
    <3>1. Chose(2) /\ c.creds
      BY <1>7, <2>1, <2>2, <2>3 DEF ReadChoice, Usable, Chose
    <3> QED
      BY <1>7, <1>c, <1>said, <2>1, <2>3, <3>1 DEF ReadChoice, Progress, ConversationLegal
  <2>4. CASE pc' = "request" /\ outcome' = "none"
    <3>1. Chose(0) /\ ~Chose(2)
      BY <1>7, <2>1, <2>2, <2>4 DEF ReadChoice, Usable, Chose
    <3>2. Admitted /\ ReplyAt = 3
      BY <3>1 DEF Admitted, ReplyAt
    <3> QED
      BY <1>7, <1>c, <1>said, <2>1, <2>4, <3>2 DEF ReadChoice, Progress, ConversationLegal
  <2>5. CASE outcome' # "none"
    BY <1>7, <1>c, <1>said, <2>1, <2>5 DEF ReadChoice, Progress, ConversationLegal
  <2> QED
    BY <1>7, <2>1, <2>3, <2>4, <2>5 DEF ReadChoice
<1>8. CASE SendCredentials
  BY <1>8, <1>c, <1>said DEF Progress, ConversationLegal, SendCredentials
<1>9. CASE ReadVerdict
  <2>1. pos = 2 /\ pos' = 4 /\ outcome = "none" /\ Chose(2)
    BY <1>0, <1>9 DEF ReadVerdict, Take, Progress
  <2>2. Byte1 = c.stream[3] /\ Byte2 = c.stream[4]
    BY <2>1 DEF Byte1, Byte2
  <2>3. CASE pc' = "request" /\ outcome' = "none"
    <3>1. Admitted /\ ReplyAt = 5
      BY <1>9, <2>1, <2>2, <2>3 DEF ReadVerdict, Accepted, Admitted, Verified, ReplyAt
    <3> QED
      BY <1>9, <1>c, <1>said, <2>1, <2>3, <3>1 DEF ReadVerdict, Progress, ConversationLegal
  <2>4. CASE outcome' # "none"
    BY <1>9, <1>c, <1>said, <2>1, <2>4 DEF ReadVerdict, Progress, ConversationLegal
  <2> QED
    BY <1>9, <2>1, <2>3, <2>4 DEF ReadVerdict
<1>10. CASE SendRequest
  BY <1>10, <1>c, <1>said DEF Progress, ConversationLegal, SendRequest
<1>11. CASE ReadReply
  <2>1. pos + 1 = ReplyAt /\ outcome = "none" /\ Admitted
    BY <1>11 DEF ReadReply, Take, Progress
  <2>2. Byte1 = c.stream[ReplyAt] /\ Byte2 = c.stream[ReplyAt + 1]
    BY <1>0, <2>1 DEF Byte1, Byte2
  <2>3. pc' # "reply" => Granted
    BY <1>11, <2>1, <2>2 DEF ReadReply, Granted
  <2>4. Byte2 \in Byte
    BY <1>11, TakenBytes DEF ReadReply, Byte2
  <2>5. ReplyCode(Byte2) # "none"
    BY <2>4, ReplyCodeNamed DEF Refusals
  <2> QED
    BY <1>11, <1>c, <1>said, <2>1, <2>3, <2>5 DEF ReadReply, Progress, ConversationLegal
<1>12. CASE ReadLength
  BY <1>12, <1>c, <1>said DEF Progress, ConversationLegal, ReadLength
<1>13. CASE ReadAddress
  BY <1>13, <1>c, <1>said DEF Progress, ConversationLegal, ReadAddress
<1>14. CASE ReadPort
  BY <1>14, <1>c, <1>said DEF Progress, ConversationLegal, ReadPort
<1>15. CASE Connected
  BY <1>15, <1>c, <1>said DEF Progress, ConversationLegal, Connected
<1>16. CASE CheckCertificate
  BY <1>16, <1>c, <1>said DEF Progress, ConversationLegal, CheckCertificate
<1>17. CASE HandshakeFails
  BY <1>17, <1>c, <1>said DEF Progress, ConversationLegal, HandshakeFails
<1>18. CASE HandshakeDone
  BY <1>18, <1>c, <1>said DEF Progress, ConversationLegal, HandshakeDone
<1>19. CASE Done
  BY <1>19, <1>said DEF Progress, ConversationLegal, Done, vars
<1> QED
  BY <1>1, <1>2, <1>3, <1>4, <1>5, <1>6, <1>7, <1>8, <1>9, <1>10, <1>11, <1>12,
     <1>13, <1>14, <1>15, <1>16, <1>17, <1>18, <1>19 DEF Next

\* Every dial knows where it is in the conversation, and keeps to it.
LEMMA ConversationHolds == Spec => [](Progress /\ ConversationLegal)
<1>1. Init => Progress /\ ConversationLegal
  <2> SUFFICES ASSUME Init PROVE Progress /\ ConversationLegal
    OBVIOUS
  <2>1. pc = "connect" /\ pos = 0 /\ wrote = {}
    BY DEF Init
  <2> QED
    BY <2>1 DEF Progress, ConversationLegal, Through
<1>2. TypeOK /\ Progress /\ ConversationLegal /\ [Next]_vars => (Progress /\ ConversationLegal)'
  BY ConversationStep
<1> QED
  BY <1>1, <1>2, TypeCorrect, PTL DEF Spec

\* Whatever bytes a proxy sends, the credentials go only to a proxy that asked for
\* them, the target is named only after the proxy let the client in, and nothing
\* passes the proxy before it granted the connection.
THEOREM ConversationIsLegal == Spec => []ConversationLegal
BY ConversationHolds, PTL

-----------------------------------------------------------------------------

\* One step keeps what the verifier knows.
LEMMA VettingStep ==
    ASSUME TypeOK, Vetting, [Next]_vars
    PROVE  Vetting'
<1> USE DEF GoTo, End, verifier
<1>0. /\ c.ssl \in BOOLEAN /\ c.verify \in BOOLEAN
      /\ c.cert \in {"none", "good", "bad"}
      /\ checked \in BOOLEAN /\ failed \in BOOLEAN
  BY CaseFields DEF TypeOK
<1>1. CASE UNCHANGED vars
  BY <1>1 DEF Vetting, vars
<1>2. CASE Connect
  BY <1>2 DEF Vetting, Connect, ConnectErrors
<1>3. CASE Expired
  BY <1>3 DEF Vetting, Expired
<1>4. CASE SendFails
  BY <1>4 DEF Vetting, SendFails
<1>5. CASE ReceiveFails
  BY <1>5 DEF Vetting, ReceiveFails
<1>6. CASE SendGreeting \/ SendCredentials
  BY <1>6 DEF Vetting, SendGreeting, SendCredentials
<1>7. CASE ReadChoice
  BY <1>7 DEF Vetting, ReadChoice, Take
<1>9. CASE ReadVerdict
  BY <1>9 DEF Vetting, ReadVerdict, Take
<1>10. CASE SendRequest
  BY <1>10 DEF Vetting, SendRequest
<1>11. CASE ReadReply
  <2>1. Byte2 \in Byte
    BY <1>11, TakenBytes DEF ReadReply, Byte2
  <2>2. ReplyCode(Byte2) # "ok" /\ ReplyCode(Byte2) # "none"
    BY <2>1, ReplyCodeNamed DEF Refusals
  <2> QED
    BY <1>11, <2>2 DEF Vetting, ReadReply, Take
<1>12. CASE ReadLength
  BY <1>12 DEF Vetting, ReadLength, Take
<1>13. CASE ReadAddress \/ ReadPort
  BY <1>13 DEF Vetting, ReadAddress, ReadPort, Take
<1>15. CASE Connected
  BY <1>0, <1>15 DEF Vetting, Connected
<1>16. CASE CheckCertificate
  BY <1>0, <1>16 DEF Vetting, CheckCertificate, Rejects, HandshakeError
<1>17. CASE HandshakeFails
  BY <1>17 DEF Vetting, HandshakeFails, HandshakeError
<1>18. CASE HandshakeDone
  BY <1>0, <1>18 DEF Vetting, HandshakeDone, Unverified
<1>19. CASE Done
  BY <1>19 DEF Vetting, Done, vars
<1> QED
  BY <1>1, <1>2, <1>3, <1>4, <1>5, <1>6, <1>7, <1>9, <1>10, <1>11, <1>12,
     <1>13, <1>15, <1>16, <1>17, <1>18, <1>19 DEF Next

\* What the verifier knows, as an invariant of every dial.
LEMMA VettingHolds == Spec => []Vetting
<1>1. Init => Vetting
  BY DEF Init, Vetting
<1>2. TypeOK /\ Vetting /\ [Next]_vars => Vetting'
  BY VettingStep
<1> QED
  BY <1>1, <1>2, TypeCorrect, PTL DEF Spec

\* With ssl and tls_verify Dial returns a connection only to a peer whose
\* certificate verified, through a proxy as well as directly.
THEOREM PeerAuthenticated == Spec => []Authenticated
<1>1. Vetting => Authenticated
  <2> SUFFICES ASSUME Vetting, outcome = "ok", c.ssl, c.verify
               PROVE  c.cert = "good" /\ c.ca # "unreadable"
    BY DEF Authenticated
  <2>1. checked /\ pc = "handshake" /\ ~failed /\ c.cert = "good"
    BY DEF Vetting
  <2> QED
    BY <2>1 DEF Vetting
<1> QED
  BY <1>1, VettingHolds, PTL

-----------------------------------------------------------------------------

\* Every dial keeps its case, and with it all that the proxy's stream says.
LEMMA StreamFixed ==
    ASSUME [Next]_vars
    PROVE  /\ c' = c
           /\ Honest' = Honest /\ Admitted' = Admitted /\ Offered' = Offered
           /\ ReplyAt' = ReplyAt /\ BoundType' = BoundType
<1>1. c' = c
  BY DEF Next, vars, Connect, Expired, SendFails, ReceiveFails, SendGreeting, ReadChoice,
         SendCredentials, ReadVerdict, SendRequest, ReadReply, ReadLength, ReadAddress,
         ReadPort, Connected, CheckCertificate, HandshakeFails, HandshakeDone, Done
<1>2. /\ Chose(0)' = Chose(0) /\ Chose(2)' = Chose(2) /\ Verified' = Verified
      /\ Offered' = Offered
  BY <1>1 DEF Chose, Verified, Offered
<1>3. Admitted' = Admitted /\ ReplyAt' = ReplyAt
  BY <1>2 DEF Admitted, ReplyAt
<1>4. BoundType' = BoundType
  BY <1>1, <1>3 DEF BoundType
<1>5. ReplyEnd' = ReplyEnd
  BY <1>1, <1>3, <1>4 DEF ReplyEnd
<1>6. WellFormedReply' = WellFormedReply
  BY <1>1, <1>3, <1>4, <1>5 DEF WellFormedReply
<1>7. Honest' = Honest
  BY <1>1, <1>2, <1>3, <1>6 DEF Honest
<1> QED
  BY <1>1, <1>2, <1>3, <1>4, <1>7

\* What RFC 1928 and 1929 say of the bytes at each place of the conversation: two
\* for the choice, two more for a verdict, and a reply whose length its address
\* type gives.
LEMMA HonestLayout ==
    ASSUME TypeOK, Honest
    PROVE  /\ c.replies \in Nat /\ 2 <= c.replies
           /\ c.stream[1] = 5
           /\ Chose(2) => c.replies >= 4 /\ c.stream[3] = 1
           /\ Admitted =>
                /\ ReplyAt \in Nat /\ c.replies > ReplyAt + 4
                /\ c.stream[ReplyAt] = 5
                /\ BoundType \in {1, 3, 4}
                /\ BoundType = 1 => c.replies = ReplyAt + 9
                /\ BoundType = 4 => c.replies = ReplyAt + 21
                /\ BoundType = 3 => /\ c.stream[ReplyAt + 4] # 0
                                    /\ c.replies = ReplyAt + 6 + c.stream[ReplyAt + 4]
<1>1. c.replies \in Nat /\ 2 <= c.replies /\ c.stream[1] = 5
  BY CaseFields DEF TypeOK, Honest
<1>2. ASSUME Chose(2) PROVE c.replies >= 4 /\ c.stream[3] = 1
  BY <1>2 DEF Honest, Chose, Admitted, Verified
<1>3. ASSUME Admitted PROVE WellFormedReply
  BY <1>3 DEF Honest, Chose, Admitted, Verified
<1>4. ASSUME Admitted
      PROVE /\ ReplyAt \in Nat /\ c.replies > ReplyAt + 4
            /\ c.stream[ReplyAt] = 5
            /\ BoundType \in {1, 3, 4}
            /\ BoundType = 1 => c.replies = ReplyAt + 9
            /\ BoundType = 4 => c.replies = ReplyAt + 21
            /\ BoundType = 3 => /\ c.stream[ReplyAt + 4] # 0
                                /\ c.replies = ReplyAt + 6 + c.stream[ReplyAt + 4]
  <2>1. ReplyAt \in Nat
    BY DEF ReplyAt
  <2>2. /\ BoundType = 1 => ReplyEnd = ReplyAt + 9
        /\ BoundType = 4 => ReplyEnd = ReplyAt + 21
        /\ BoundType = 3 => ReplyEnd = ReplyAt + 6 + c.stream[ReplyAt + 4]
    BY DEF ReplyEnd
  <2> QED
    BY <1>3, <1>4, <2>1, <2>2 DEF WellFormedReply
<1> QED
  BY <1>1, <1>2, <1>4

\* The reads of the conversation with an honest proxy take its replies to the last
\* byte and no byte more.
LEMMA FramingStep ==
    ASSUME TypeOK, Progress, Framed, TunnelUntouched, [Next]_vars
    PROVE  (Framed /\ TunnelUntouched)'
<1> USE DEF GoTo, End, verifier, Through
<1>0. c.proxy \in BOOLEAN /\ pos \in Nat /\ address_length \in Nat
  BY CaseFields DEF TypeOK, Byte
<1>fixed. /\ c' = c /\ Honest' = Honest
          /\ ReplyAt' = ReplyAt /\ BoundType' = BoundType
  BY StreamFixed
<1> SUFFICES ASSUME c.proxy, Honest PROVE (Framed /\ TunnelUntouched)'
  BY <1>fixed DEF Framed, TunnelUntouched
<1>layout. /\ c.replies \in Nat /\ 2 <= c.replies
           /\ Chose(2) => c.replies >= 4
           /\ Admitted =>
                /\ ReplyAt \in Nat /\ c.replies > ReplyAt + 4
                /\ BoundType \in {1, 3, 4}
                /\ BoundType = 1 => c.replies = ReplyAt + 9
                /\ BoundType = 4 => c.replies = ReplyAt + 21
                /\ BoundType = 3 => c.replies = ReplyAt + 6 + c.stream[ReplyAt + 4]
  BY HonestLayout
<1>within. pos <= c.replies /\ (Through => pos = c.replies)
  BY DEF TunnelUntouched
<1>1. CASE UNCHANGED vars
  BY <1>1, <1>fixed DEF Framed, TunnelUntouched, vars
<1>2. CASE Connect
  BY <1>2, <1>fixed, <1>within DEF Framed, TunnelUntouched, Connect, ConnectErrors
<1>3. CASE Expired \/ SendFails \/ ReceiveFails
  BY <1>3, <1>fixed, <1>within
     DEF Framed, TunnelUntouched, Expired, SendFails, ReceiveFails, Sending, Reading
<1>4. CASE SendGreeting \/ SendCredentials \/ SendRequest
  BY <1>4, <1>fixed, <1>within
     DEF Framed, TunnelUntouched, SendGreeting, SendCredentials, SendRequest
<1>5. CASE ReadChoice
  <2>1. pos' = 2 /\ pc' \in {"choice", "credentials", "request"}
    BY <1>0, <1>5 DEF ReadChoice, Take, Progress
  <2> QED
    BY <1>fixed, <1>layout, <2>1 DEF Framed, TunnelUntouched
<1>6. CASE ReadVerdict
  <2>1. pos' = 4 /\ Chose(2) /\ pc' \in {"verdict", "request"}
    BY <1>0, <1>6 DEF ReadVerdict, Take, Progress
  <2> QED
    BY <1>fixed, <1>layout, <2>1 DEF Framed, TunnelUntouched
<1>7. CASE ReadReply
  <2>1. /\ Admitted /\ pos + 1 = ReplyAt /\ pos' = ReplyAt + 3
        /\ outcome = "none" /\ Byte4 = BoundType
    BY <1>0, <1>7 DEF ReadReply, Take, Progress, Byte4, BoundType
  <2>2. pos' <= c.replies
    BY <1>layout, <2>1
  <2>3. CASE outcome' # "none" /\ pc' = "reply"
    BY <1>fixed, <2>2, <2>3 DEF Framed, TunnelUntouched
  <2>4. CASE pc' = "length" /\ BoundType = 3
    BY <1>fixed, <2>1, <2>2, <2>4 DEF Framed, TunnelUntouched
  <2>5. CASE pc' = "address" /\ BoundType \in {1, 4}
    <3>1. address_length' = IF BoundType = 1 THEN 4 ELSE 16
      BY <1>7, <2>1, <2>5 DEF ReadReply, AddressBytes
    <3>2. pos' + address_length' + 2 = c.replies
      BY <1>layout, <2>1, <2>5, <3>1
    <3> QED
      BY <1>fixed, <2>2, <2>5, <3>2 DEF Framed, TunnelUntouched
  <2>6. Byte2 \in Byte
    BY <1>7, TakenBytes DEF ReadReply, Byte2
  <2>7. ReplyCode(Byte2) # "none"
    BY <2>6, ReplyCodeNamed DEF Refusals
  <2> QED
    BY <1>7, <2>1, <2>3, <2>4, <2>5, <2>7 DEF ReadReply
<1>8. CASE ReadLength
  <2>1. pos = ReplyAt + 3 /\ BoundType = 3 /\ pos' = ReplyAt + 4 /\ Admitted
    BY <1>0, <1>8 DEF ReadLength, Take, Framed, Progress, Granted, ReplyAt
  <2>2. Byte1 = c.stream[ReplyAt + 4] /\ address_length' = Byte1
    BY <1>8, <1>layout, <2>1 DEF ReadLength, Byte1
  <2>3. Byte1 \in Byte
    BY <1>8, TakenBytes DEF ReadLength, Byte1
  <2>4. pos' <= c.replies /\ pos' + address_length' + 2 = c.replies
    BY <1>layout, <2>1, <2>2, <2>3 DEF Byte
  <2> QED
    BY <1>8, <1>fixed, <2>4 DEF ReadLength, Framed, TunnelUntouched
<1>9. CASE ReadAddress
  <2>1. pos + address_length + 2 = c.replies /\ pos' = pos + address_length
    BY <1>9 DEF ReadAddress, Take, Framed
  <2>2. pos' + 2 = c.replies /\ pos' <= c.replies
    BY <1>0, <1>layout, <2>1
  <2> QED
    BY <1>9, <1>fixed, <2>2 DEF ReadAddress, Framed, TunnelUntouched
<1>10. CASE ReadPort
  <2>1. pos + 2 = c.replies /\ pos' = pos + 2
    BY <1>10 DEF ReadPort, Take, Framed
  <2> QED
    BY <1>10, <1>fixed, <1>layout, <2>1 DEF ReadPort, Framed, TunnelUntouched
<1>11. CASE Connected \/ CheckCertificate \/ HandshakeFails \/ HandshakeDone
  BY <1>11, <1>fixed, <1>within
     DEF Framed, TunnelUntouched, Connected, CheckCertificate, HandshakeFails, HandshakeDone
<1>12. CASE Done
  BY <1>12, <1>fixed DEF Framed, TunnelUntouched, Done, vars
<1> QED
  BY <1>1, <1>2, <1>3, <1>4, <1>5, <1>6, <1>7, <1>8, <1>9, <1>10, <1>11, <1>12 DEF Next

\* Whatever address type and length an RFC-conforming proxy answers with, Dial reads
\* exactly its replies: the tunnel's first byte is left for TLS or the caller.
THEOREM TunnelIsUntouched == Spec => []TunnelUntouched
<1>1. Init => Framed /\ TunnelUntouched
  <2> SUFFICES ASSUME Init PROVE Framed /\ TunnelUntouched
    OBVIOUS
  <2>1. pc = "connect" /\ pos = 0 /\ c.replies \in Nat
    BY CaseFields DEF Init
  <2> QED
    BY <2>1 DEF Framed, TunnelUntouched, Through
<1>2. TypeOK /\ Progress /\ Framed /\ TunnelUntouched /\ [Next]_vars
        => (Framed /\ TunnelUntouched)'
  BY FramingStep
<1> QED
  BY <1>1, <1>2, TypeCorrect, ConversationHolds, PTL DEF Spec

-----------------------------------------------------------------------------

\* ErrorsAreTrue in its two halves: what a TLS code says, and what a code that
\* blames the proxy says when the proxy kept to the RFCs.
TlsBlame ==
    /\ outcome = "tls_certificate" => c.cert = "bad" \/ (c.cert = "good" /\ c.ca = "unreadable")
    /\ outcome = "tls_handshake_failed" /\ checked /\ c.verify => c.cert = "good"
    /\ outcome = "tls_no_certificate" => c.cert = "none"
ProxyBlame ==
    Honest /\ pc \in Reading /\ outcome \in ProxyErrors =>
        \/ outcome = "proxy_no_acceptable_auth" /\ c.stream[2] \notin Offered
        \/ outcome = "proxy_auth_failed" /\ c.stream[4] # 0
        \/ outcome \in Refusals /\ Admitted /\ c.stream[ReplyAt + 1] # 0

\* Only a running dial gets an outcome, so a step blames TLS rightly if the
\* handshake's steps do.
LEMMA TlsBlameStep ==
    ASSUME TypeOK, Vetting, TlsBlame, [Next]_vars
    PROVE  TlsBlame'
<1> USE DEF GoTo, End, verifier
<1>0. /\ c.verify \in BOOLEAN /\ c.cert \in {"none", "good", "bad"}
      /\ checked \in BOOLEAN /\ failed \in BOOLEAN
  BY CaseFields DEF TypeOK
<1>fixed. c' = c
  BY StreamFixed
<1>1. CASE UNCHANGED vars
  BY <1>1 DEF TlsBlame, vars
<1>2. CASE Connect
  BY <1>2, <1>fixed DEF TlsBlame, Connect, ConnectErrors
<1>3. CASE Expired \/ SendFails \/ ReceiveFails
  BY <1>3, <1>fixed DEF TlsBlame, Expired, SendFails, ReceiveFails
<1>4. CASE SendGreeting \/ SendCredentials \/ SendRequest
  BY <1>4, <1>fixed DEF TlsBlame, SendGreeting, SendCredentials, SendRequest
<1>5. CASE ReadChoice \/ ReadVerdict
  BY <1>5, <1>fixed DEF TlsBlame, ReadChoice, ReadVerdict, Take
<1>6. CASE ReadReply
  <2>1. Byte2 \in Byte
    BY <1>6, TakenBytes DEF ReadReply, Byte2
  <2>2. ReplyCode(Byte2) \notin {"tls_certificate", "tls_handshake_failed", "tls_no_certificate"}
    BY <2>1, ReplyCodeNamed DEF Refusals
  <2> QED
    BY <1>6, <1>fixed, <2>2 DEF TlsBlame, ReadReply, Take
<1>7. CASE ReadLength \/ ReadAddress \/ ReadPort
  BY <1>7, <1>fixed DEF TlsBlame, ReadLength, ReadAddress, ReadPort, Take
<1>8. CASE Connected
  BY <1>8, <1>fixed DEF TlsBlame, Connected
<1>9. CASE CheckCertificate
  BY <1>0, <1>9, <1>fixed DEF TlsBlame, Vetting, CheckCertificate, Rejects, HandshakeError
<1>10. CASE HandshakeFails
  BY <1>0, <1>10, <1>fixed DEF TlsBlame, Vetting, HandshakeFails, HandshakeError
<1>11. CASE HandshakeDone
  BY <1>0, <1>11, <1>fixed DEF TlsBlame, HandshakeDone, Unverified
<1>12. CASE Done
  BY <1>12 DEF TlsBlame, Done, vars
<1> QED
  BY <1>1, <1>2, <1>3, <1>4, <1>5, <1>6, <1>7, <1>8, <1>9, <1>10, <1>11, <1>12 DEF Next

\* A step that ends a read with a code that blames an honest proxy had a refusal
\* before it: the bytes at that place of an honest stream allow no other.
LEMMA ProxyBlameStep ==
    ASSUME TypeOK, Progress, Framed, ProxyBlame, [Next]_vars
    PROVE  ProxyBlame'
<1> USE DEF GoTo, End, verifier
<1>0. c.proxy \in BOOLEAN /\ pos \in Nat /\ "none" \notin ProxyErrors
  BY CaseFields DEF TypeOK, ProxyErrors, Refusals
<1>fixed. /\ c' = c /\ Honest' = Honest /\ Admitted' = Admitted
          /\ ReplyAt' = ReplyAt /\ Offered' = Offered
  BY StreamFixed
<1> SUFFICES ASSUME Honest, pc' \in Reading, outcome' \in ProxyErrors, outcome = "none"
             PROVE  ProxyBlame'
  <2>1. CASE outcome = "none"
    BY <1>fixed, <2>1 DEF ProxyBlame
  <2>2. CASE outcome # "none"
    <3>1. UNCHANGED <<pc, outcome>>
      BY <2>2 DEF Next, vars, Connect, Expired, SendFails, ReceiveFails, SendGreeting,
         ReadChoice, SendCredentials, ReadVerdict, SendRequest, ReadReply, ReadLength,
         ReadAddress, ReadPort, Connected, CheckCertificate, HandshakeFails, HandshakeDone,
         Done, Take
    <3> QED
      BY <1>fixed, <3>1 DEF ProxyBlame
  <2> QED
    BY <2>1, <2>2
<1>layout. /\ c.stream[1] = 5
           /\ Chose(2) => c.stream[3] = 1
           /\ Admitted =>
                /\ ReplyAt \in Nat
                /\ c.stream[ReplyAt] = 5
                /\ BoundType \in {1, 3, 4}
                /\ BoundType = 3 => c.stream[ReplyAt + 4] # 0
  BY HonestLayout
<1>1. CASE UNCHANGED vars
  BY <1>0, <1>1 DEF vars
<1>2. CASE Connect
  BY <1>2 DEF Connect, Reading
<1>3. CASE Expired \/ SendFails \/ ReceiveFails
  BY <1>3 DEF Expired, SendFails, ReceiveFails, Sending, Reading, ProxyErrors, Refusals
<1>4. CASE SendGreeting \/ SendCredentials \/ SendRequest
  BY <1>0, <1>4 DEF SendGreeting, SendCredentials, SendRequest, Reading
<1>5. CASE ReadChoice
  <2>1. pos = 0
    BY <1>5 DEF ReadChoice, Progress
  <2>2. Byte1 = 5 /\ Byte2 = c.stream[2]
    BY <1>layout, <2>1 DEF Byte1, Byte2
  <2>3. outcome' = "proxy_no_acceptable_auth" /\ c.stream[2] \notin Offered
    BY <1>0, <1>5, <2>2 DEF ReadChoice, Usable, Offered
  <2> QED
    BY <1>fixed, <2>3 DEF ProxyBlame
<1>6. CASE ReadVerdict
  <2>1. pos = 2 /\ Chose(2)
    BY <1>6 DEF ReadVerdict, Progress
  <2>2. Byte1 = 1 /\ Byte2 = c.stream[4]
    BY <1>layout, <2>1 DEF Byte1, Byte2
  <2>3. outcome' = "proxy_auth_failed" /\ c.stream[4] # 0
    BY <1>0, <1>6, <2>2 DEF ReadVerdict, Accepted
  <2> QED
    BY <1>fixed, <2>3 DEF ProxyBlame
<1>7. CASE ReadReply
  <2>1. pos + 1 = ReplyAt /\ Admitted
    BY <1>7 DEF ReadReply, Progress
  <2>2. Byte1 = 5 /\ Byte2 = c.stream[ReplyAt + 1] /\ Byte4 = BoundType
    BY <1>0, <1>layout, <2>1 DEF Byte1, Byte2, Byte4, BoundType
  <2>3. Byte2 \in Byte
    BY <1>7, TakenBytes DEF ReadReply, Byte2
  <2>4. Byte2 # 0 /\ outcome' = ReplyCode(Byte2)
    BY <1>0, <1>7, <1>layout, <2>1, <2>2 DEF ReadReply
  <2>5. outcome' \in Refusals
    BY <2>3, <2>4, ReplyCodeNamed
  <2> QED
    BY <1>fixed, <2>1, <2>2, <2>4, <2>5 DEF ProxyBlame
<1>8. CASE ReadLength
  <2>1. c.proxy
    BY <1>8 DEF ReadLength, Progress
  <2>2. pos = ReplyAt + 3 /\ BoundType = 3 /\ Admitted
    BY <1>8, <2>1 DEF ReadLength, Framed, Progress, Granted
  <2>3. Byte1 = c.stream[ReplyAt + 4]
    BY <1>layout, <2>2 DEF Byte1
  <2> QED
    BY <1>0, <1>8, <1>layout, <2>2, <2>3 DEF ReadLength
<1>9. CASE ReadAddress \/ ReadPort
  BY <1>0, <1>9 DEF ReadAddress, ReadPort
<1>10. CASE Connected \/ CheckCertificate \/ HandshakeFails \/ HandshakeDone
  BY <1>10 DEF Connected, CheckCertificate, HandshakeFails, HandshakeDone, Reading
<1>11. CASE Done
  BY <1>11 DEF Done
<1> QED
  BY <1>1, <1>2, <1>3, <1>4, <1>5, <1>6, <1>7, <1>8, <1>9, <1>10, <1>11 DEF Next

\* The code of an error names the true cause: a bad certificate is neither invented
\* nor hidden, and a proxy that keeps to the RFCs is blamed only for what it refused.
THEOREM BlameIsTrue == Spec => []ErrorsAreTrue
<1>1. Init => Framed /\ TunnelUntouched /\ TlsBlame /\ ProxyBlame
  <2> SUFFICES ASSUME Init PROVE Framed /\ TunnelUntouched /\ TlsBlame /\ ProxyBlame
    OBVIOUS
  <2>1. pc = "connect" /\ pos = 0 /\ c.replies \in Nat /\ outcome = "none"
    BY CaseFields DEF Init
  <2> QED
    BY <2>1 DEF Framed, TunnelUntouched, Through, TlsBlame, ProxyBlame, Reading
<1>2. TypeOK /\ Progress /\ Framed /\ TunnelUntouched /\ [Next]_vars
        => (Framed /\ TunnelUntouched)'
  BY FramingStep
<1>3. TypeOK /\ Vetting /\ TlsBlame /\ [Next]_vars => TlsBlame'
  BY TlsBlameStep
<1>4. TypeOK /\ Progress /\ Framed /\ ProxyBlame /\ [Next]_vars => ProxyBlame'
  BY ProxyBlameStep
<1>5. TlsBlame /\ ProxyBlame => ErrorsAreTrue
  BY DEF TlsBlame, ProxyBlame, ErrorsAreTrue
<1> QED
  BY <1>1, <1>2, <1>3, <1>4, <1>5, TypeCorrect, ConversationHolds, VettingHolds, PTL DEF Spec

-----------------------------------------------------------------------------
(* The certificate verifier. *)

\* What Check finds is one of the codes.
LEMMA TroubleCode ==
    ASSUME NEW f, NEW cert
    PROVE  Trouble(f, cert) \in Codes
<1>1. VerifyChain(f, cert) \in Codes
  BY DEF VerifyChain, StatusCode, Codes
<1>2. VerifyName(f, cert) \in Codes
  BY DEF VerifyName, Codes
<1> QED
  BY <1>1, <1>2 DEF Trouble, Codes

\* The fields of a verifier and what they keep through its life.
Fields == [host : {dial.host}, verify : {dial.verify}, exclusive : BOOLEAN, roots : {v.roots},
           checked : BOOLEAN, failed : BOOLEAN, code : Codes]

\* VerifierTypeOK, with the fields as a record.
Whole == VerifierTypeOK /\ v \in Fields

\* The constructor, with and without LoadRoots.
LEMMA WholeAtFirst == VerifierInit => Whole
<1> SUFFICES ASSUME VerifierInit PROVE Whole
  OBVIOUS
<1>1. dial \in Dials /\ dial.verify \in BOOLEAN /\ dial.file.given \in BOOLEAN /\ Len(dial.certs) \in Nat
  BY DialsAssumption DEF VerifierInit
<1>2. /\ v.host = dial.host /\ v.verify = dial.verify
      /\ v.exclusive = (dial.verify /\ dial.file.given)
      /\ v.roots = IF v.exclusive THEN dial.file.roots ELSE {}
      /\ v.checked = FALSE /\ v.failed \in BOOLEAN /\ v.code \in Codes
      /\ v \in Fields
  <2>1. CASE dial.verify /\ dial.file.given
    BY <1>1, <2>1 DEF VerifierInit, LoadRoots, Fail, Codes, Fields
  <2>2. CASE ~(dial.verify /\ dial.file.given)
    BY <1>1, <2>2 DEF VerifierInit, Codes, Fields
  <2> QED
    BY <2>1, <2>2
<1>3. asked = 0 /\ refused = 0 /\ verdict = "none"
  BY DEF VerifierInit
<1>4. asked \in 0 .. Len(dial.certs) /\ refused \in 0 .. asked
  BY <1>1, <1>3
<1>5. (asked > 0) = FALSE
  BY <1>3
<1>6. v.checked = (asked > 0)
  BY <1>2, <1>5, Zenon
<1> QED
  BY <1>1, <1>2, <1>3, <1>4, <1>6, Zenon DEF Whole, VerifierTypeOK

\* Check changes only checked, failed and code.
LEMMA WholeStep ==
    ASSUME Whole, [VerifierNext]_verifierVars
    PROVE  Whole'
<1>0. /\ dial \in Dials /\ Len(dial.certs) \in Nat /\ asked \in Nat /\ refused \in Nat
      /\ v \in Fields
  BY DialsAssumption DEF Whole, VerifierTypeOK
<1>1. CASE CheckOff \/ CheckFailed
  <2>1. /\ v' = [v EXCEPT !.checked = TRUE] /\ asked' = asked + 1 /\ asked < Len(dial.certs)
        /\ UNCHANGED dial /\ refused' \in {refused, asked + 1} /\ verdict' \in {"yes", "no"}
    BY <1>1 DEF CheckOff, CheckFailed, Asked
  <2>2. /\ v'.host = v.host /\ v'.verify = v.verify /\ v'.exclusive = v.exclusive
        /\ v'.roots = v.roots /\ v'.checked = TRUE
        /\ v'.failed \in BOOLEAN /\ v'.code \in Codes
        /\ v' \in [host : {dial.host}, verify : {dial.verify}, exclusive : BOOLEAN, roots : {v.roots},
                   checked : BOOLEAN, failed : BOOLEAN, code : Codes]
    BY <1>0, <2>1 DEF Fields
  <2>3. /\ asked' = asked + 1 /\ asked < Len(dial.certs) /\ UNCHANGED dial
        /\ refused' \in {refused, asked + 1} /\ verdict' \in {"yes", "no"}
    BY <2>1
  <2> QED
    BY <1>0, <2>2, <2>3 DEF Whole, VerifierTypeOK, Fields
<1>2. CASE Judge
  <2> DEFINE code == Trouble(v, dial.certs[asked + 1])
             f == [v EXCEPT !.checked = TRUE]
  <2>1. code \in Codes
    BY TroubleCode
  <2>2. v' = f \/ v' = [f EXCEPT !.failed = TRUE, !.code = code]
    BY <1>2 DEF Judge, Fail
  <2>3. /\ asked' = asked + 1 /\ asked < Len(dial.certs) /\ UNCHANGED dial
        /\ refused' \in {refused, asked + 1} /\ verdict' \in {"yes", "no"}
    BY <1>2 DEF Judge, Asked
  <2> HIDE DEF code
  <2>4. /\ v'.host = v.host /\ v'.verify = v.verify /\ v'.exclusive = v.exclusive
        /\ v'.roots = v.roots /\ v'.checked = TRUE
        /\ v'.failed \in BOOLEAN /\ v'.code \in Codes
        /\ v' \in [host : {dial.host}, verify : {dial.verify}, exclusive : BOOLEAN, roots : {v.roots},
                   checked : BOOLEAN, failed : BOOLEAN, code : Codes]
    BY <1>0, <2>1, <2>2 DEF Fields
  <2> QED
    BY <1>0, <2>3, <2>4 DEF Whole, VerifierTypeOK, Fields
<1>3. CASE UNCHANGED verifierVars
  BY <1>3 DEF Whole, VerifierTypeOK, Fields, verifierVars
<1> QED
  BY <1>1, <1>2, <1>3 DEF VerifierNext

\* The type invariant with the record form of the fields.
LEMMA AlwaysWhole == VerifierSpec => []Whole
<1>1. Whole /\ [VerifierNext]_verifierVars => Whole'
  BY WholeStep
<1> QED
  BY <1>1, WholeAtFirst, PTL DEF VerifierSpec

(* Every field keeps its type; the host, the switch and the roots are      *)
(* those of the dial for the verifier's whole life, and with a ca_file it  *)
(* trusts nothing else (the constructor, LoadRoots, Check).                *)
THEOREM VerifierTypeCorrect == VerifierSpec => []VerifierTypeOK
<1>1. Whole => VerifierTypeOK
  BY DEF Whole
<1> QED
  BY <1>1, AlwaysWhole, PTL

-----------------------------------------------------------------------------
\* A chain found good by VerifyChain has an element that may be trusted.
LEMMA GoodChain ==
    ASSUME NEW f, NEW cert, f.exclusive \in BOOLEAN, cert.built => 1 \in DOMAIN cert.chains,
           VerifyChain(f, cert) = "none"
    PROVE  \E i \in DOMAIN cert.chains : Trusts(f, cert.chains[i])
<1>1. cert.built /\ (f.exclusive => RootedInFile(cert, f.roots)) /\ HardStatus(cert, f.exclusive) = {}
  <2>1. cert.built
    BY DEF VerifyChain
  <2>2. f.exclusive => RootedInFile(cert, f.roots)
    BY <2>1 DEF VerifyChain
  <2>3. HardStatus(cert, f.exclusive) = {}
    <3>1. StatusCode(HardStatus(cert, f.exclusive)) # "none"
      BY DEF StatusCode
    <3> QED
      BY <2>1, <2>2, <3>1 DEF VerifyChain
  <2> QED
    BY <2>1, <2>2, <2>3
<1>2. \A i \in DOMAIN cert.chains : cert.chains[i].errors \subseteq EngineStatus(cert)
  BY DEF EngineStatus
<1>3. CASE f.exclusive
  <2>1. PICK i \in DOMAIN cert.chains : cert.chains[i].end \in f.roots
    BY <1>1, <1>3 DEF RootedInFile
  <2>2. cert.chains[i].errors \subseteq Soft \cup {"untrusted_root"}
    BY <1>1, <1>2, <1>3 DEF HardStatus
  <2> QED
    BY <1>3, <2>1, <2>2 DEF Trusts
<1>4. CASE ~f.exclusive
  <2>1. cert.chains[1].errors \subseteq Soft /\ 1 \in DOMAIN cert.chains
    BY <1>1, <1>2, <1>4 DEF HardStatus
  <2> QED
    BY <1>4, <2>1 DEF Trusts
<1> QED
  BY <1>3, <1>4

\* Before the first question nothing was answered.
Trusted == /\ verdict = "none" <=> asked = 0
           /\ AcceptedTrusted

\* Check answers yes only behind VerifyChain, or when verification is off.
LEMMA TrustedStep ==
    ASSUME Whole, Trusted, [VerifierNext]_verifierVars
    PROVE  Trusted'
<1>0. /\ dial \in Dials /\ Len(dial.certs) \in Nat /\ asked \in Nat /\ v \in Fields
  BY DialsAssumption DEF Whole, VerifierTypeOK
<1>1. CASE CheckOff
  BY <1>0, <1>1 DEF CheckOff, Asked, Trusted, AcceptedTrusted, Fields
<1>2. CASE CheckFailed
  BY <1>0, <1>2 DEF CheckFailed, Asked, Trusted, AcceptedTrusted
<1>3. CASE Judge
  <2> DEFINE cert == dial.certs[asked + 1]
  <2>1. asked' = asked + 1 /\ asked + 1 \in 1 .. Len(dial.certs) /\ dial' = dial /\ verdict' # "none"
    BY <1>0, <1>3 DEF Judge, Asked
  <2>2. ASSUME verdict' = "yes"
        PROVE  \E i \in DOMAIN cert.chains : Trusts(v', cert.chains[i])
    <3>1. Trouble(v, cert) = "none" /\ v' = [v EXCEPT !.checked = TRUE]
      BY <1>3, <2>2 DEF Judge
    <3>2. VerifyChain(v, cert) = "none"
      BY <3>1 DEF Trouble
    <3>3. cert.built => 1 \in DOMAIN cert.chains
      BY <1>0, <2>1, DialsAssumption
    <3>4. v.exclusive \in BOOLEAN
      BY <1>0 DEF Fields
    <3> HIDE DEF cert
    <3>5. \E i \in DOMAIN cert.chains : Trusts(v, cert.chains[i])
      BY <3>2, <3>3, <3>4, GoodChain
    <3>6. v'.exclusive = v.exclusive /\ v'.roots = v.roots
      BY <1>0, <3>1 DEF Fields
    <3> QED
      BY <3>5, <3>6 DEF Trusts
  <2> QED
    BY <1>0, <2>1, <2>2 DEF Trusted, AcceptedTrusted
<1>4. CASE UNCHANGED verifierVars
  BY <1>4 DEF Trusted, AcceptedTrusted, verifierVars, Trusts
<1> QED
  BY <1>1, <1>2, <1>3, <1>4 DEF VerifierNext

(* An accepted certificate has a chain without hard errors, and with a     *)
(* ca_file one that ends in it, whatever the engine and the policy say     *)
(* (VerifyChain).                                                          *)
THEOREM AcceptedIsTrusted == VerifierSpec => []AcceptedTrusted
<1>1. VerifierInit => Trusted
  BY DEF VerifierInit, Trusted, AcceptedTrusted
<1>2. Whole /\ Trusted /\ [VerifierNext]_verifierVars => Trusted'
  BY TrustedStep
<1>3. Trusted => AcceptedTrusted
  BY DEF Trusted
<1> QED
  BY <1>1, <1>2, <1>3, AlwaysWhole, PTL DEF VerifierSpec

-----------------------------------------------------------------------------
\* What Check finds wrong with a certificate depends on the fields that never change.
LEMMA SameTrouble ==
    ASSUME NEW f, NEW g, NEW cert, f.host = g.host, f.exclusive = g.exclusive, f.roots = g.roots
    PROVE  Trouble(f, cert) = Trouble(g, cert)
<1>1. VerifyChain(f, cert) = VerifyChain(g, cert)
  BY DEF VerifyChain
<1>2. VerifyName(f, cert) = VerifyName(g, cert)
  BY DEF VerifyName
<1> QED
  BY <1>1, <1>2 DEF Trouble

\* A verifier that is off never fails.
Reason == FirstReasonStands /\ (v.failed => v.verify)

\* Fail keeps the first reason.
LEMMA ReasonStep ==
    ASSUME Whole, Reason, [VerifierNext]_verifierVars
    PROVE  Reason'
<1>0. /\ dial \in Dials /\ Len(dial.certs) \in Nat /\ asked \in Nat /\ refused \in Nat /\ v \in Fields
  BY DialsAssumption DEF Whole, VerifierTypeOK
<1>1. CASE CheckOff \/ CheckFailed
  <2>1. v' = [v EXCEPT !.checked = TRUE] /\ UNCHANGED <<dial, refused>>
    BY <1>1 DEF CheckOff, CheckFailed, Asked
  <2>2. /\ v'.host = v.host /\ v'.exclusive = v.exclusive /\ v'.roots = v.roots
        /\ v'.failed = v.failed /\ v'.code = v.code /\ v'.verify = v.verify
    BY <1>0, <2>1 DEF Fields
  <2>3. \A cert : Trouble(v', cert) = Trouble(v, cert)
    BY <2>2, SameTrouble
  <2>4. CASE CheckFailed
    BY <2>1, <2>2, <2>3, <2>4 DEF Reason, FirstReasonStands, CheckFailed
  <2>5. CASE CheckOff
    <3>1. ~v.failed
      BY <2>5 DEF CheckOff, Reason
    <3> QED
      BY <2>1, <2>2, <2>3, <3>1 DEF Reason, FirstReasonStands
  <2> QED
    BY <1>1, <2>4, <2>5
<1>2. CASE Judge
  <2> DEFINE cert == dial.certs[asked + 1]
             f == [v EXCEPT !.checked = TRUE]
  <2>1. v.verify /\ ~v.failed /\ dial' = dial
    BY <1>2 DEF Judge, Asked
  <2>2. refused = 0
    BY <1>0, <2>1 DEF Reason, FirstReasonStands
  <2>3. CASE Trouble(v, cert) = "none"
    <3>1. v' = f /\ refused' = 0
      BY <1>2, <2>2, <2>3 DEF Judge
    <3>2. ~v'.failed
      BY <1>0, <2>1, <3>1 DEF Fields
    <3> QED
      BY <3>1, <3>2 DEF Reason, FirstReasonStands
  <2>4. CASE Trouble(v, cert) # "none"
    <3>1. ~f.failed
      BY <1>0, <2>1 DEF Fields
    <3>2. v' = [f EXCEPT !.failed = TRUE, !.code = Trouble(v, cert)] /\ refused' = asked + 1 /\ verdict' = "no"
      BY <1>2, <2>2, <2>4, <3>1 DEF Judge, Fail
    <3>3. /\ v'.host = v.host /\ v'.exclusive = v.exclusive /\ v'.roots = v.roots /\ v'.verify = v.verify
          /\ v'.failed = TRUE /\ v'.code = Trouble(v, cert)
      BY <1>0, <3>2 DEF Fields
    <3>4. Trouble(v', cert) = Trouble(v, cert)
      BY <3>3, SameTrouble
    <3> QED
      BY <2>1, <3>2, <3>3, <3>4 DEF Reason, FirstReasonStands
  <2> QED
    BY <2>3, <2>4
<1>3. CASE UNCHANGED verifierVars
  BY <1>3 DEF Reason, FirstReasonStands, verifierVars
<1> QED
  BY <1>1, <1>2, <1>3 DEF VerifierNext

(* The reason of the first refusal is kept and true of its certificate,    *)
(* and a verifier that refused accepts nothing any more (Fail, Check).     *)
THEOREM ReasonStands == VerifierSpec => []FirstReasonStands
<1>1. VerifierInit => Reason
  <2> SUFFICES ASSUME VerifierInit PROVE Reason
    OBVIOUS
  <2>1. refused = 0 /\ verdict = "none"
    BY DEF VerifierInit
  <2>2. v.failed => v.verify
    <3>1. CASE dial.verify /\ dial.file.given
      BY <3>1 DEF VerifierInit, LoadRoots, Fail
    <3>2. CASE ~(dial.verify /\ dial.file.given)
      BY <3>2 DEF VerifierInit
    <3> QED
      BY <3>1, <3>2
  <2> QED
    BY <2>1, <2>2 DEF Reason, FirstReasonStands
<1>2. Whole /\ Reason /\ [VerifierNext]_verifierVars => Reason'
  BY ReasonStep
<1>3. Reason => FirstReasonStands
  BY DEF Reason
<1> QED
  BY <1>1, <1>2, <1>3, AlwaysWhole, PTL DEF VerifierSpec

-----------------------------------------------------------------------------
(* The reader of the DER encoding. *)

\* Every non-empty set of naturals has a least element.
LEMMA LeastElement ==
    \A S \in SUBSET Nat : S # {} => \E i \in S : \A j \in S : i <= j
<1> SUFFICES ASSUME NEW S \in SUBSET Nat, S # {}
             PROVE  \E i \in S : \A j \in S : i <= j
  OBVIOUS
<1> DEFINE Less == OpToRel(<, Nat)
<1>1. PICK i \in S : \A j \in S : ~(<<j, i>> \in Less)
  BY NatLessThanWellFounded, WFMin
<1>2. \A j \in S : ~(j < i)
  BY <1>1, Zenon DEF OpToRel
<1> QED
  BY <1>2

\* The loop over the length bytes, step by step.
Added(mem, at, n, Value) ==
    Value[0] = 0 /\ \A k \in 1 .. n : Value[k] = 256 * Value[k - 1] + mem[at + k]

\* The loop is such a sum, for the few bytes there may be.
LEMMA LengthLoop ==
    ASSUME NEW mem, NEW at \in Nat, NEW n \in 1 .. 4, \A k \in 1 .. n : mem[at + k] \in Nat
    PROVE  \E Value : LengthBytes(mem, at, n) = Value[n] /\ Added(mem, at, n, Value)
<1> DEFINE Value == CHOOSE f : f = [k \in 0 .. n |-> IF k = 0 THEN 0 ELSE 256 * f[k - 1] + mem[at + k]]
<1>1. LengthBytes(mem, at, n) = Value[n]
  BY DEF LengthBytes
<1>2. \E f : f = [k \in 0 .. n |-> IF k = 0 THEN 0 ELSE 256 * f[k - 1] + mem[at + k]]
  <2> DEFINE b(k) == mem[at + k]
             f == [k \in 0 .. n |->
                     IF k = 0 THEN 0
                     ELSE IF k = 1 THEN 256 * 0 + b(1)
                     ELSE IF k = 2 THEN 256 * (256 * 0 + b(1)) + b(2)
                     ELSE IF k = 3 THEN 256 * (256 * (256 * 0 + b(1)) + b(2)) + b(3)
                     ELSE 256 * (256 * (256 * (256 * 0 + b(1)) + b(2)) + b(3)) + b(4)]
  <2>1. \A k \in 0 .. n : f[k] = IF k = 0 THEN 0 ELSE 256 * f[k - 1] + mem[at + k]
    OBVIOUS
  <2>2. f = [k \in 0 .. n |-> IF k = 0 THEN 0 ELSE 256 * f[k - 1] + mem[at + k]]
    BY <2>1
  <2> QED
    BY <2>2
<1>3. Value = [k \in 0 .. n |-> IF k = 0 THEN 0 ELSE 256 * Value[k - 1] + mem[at + k]]
  BY <1>2
<1> HIDE DEF Value
<1>4. Value[0] = 0 /\ \A k \in 1 .. n : Value[k] = 256 * Value[k - 1] + mem[at + k]
  BY <1>3
<1> QED
  BY <1>1, <1>4 DEF Added

\* What it returns is a number.
LEMMA LengthIsNat ==
    ASSUME NEW mem, NEW at \in Nat, NEW n \in 1 .. 4, \A k \in 1 .. n : mem[at + k] \in Nat
    PROVE  LengthBytes(mem, at, n) \in Nat
<1>0. PICK Value : LengthBytes(mem, at, n) = Value[n] /\ Added(mem, at, n, Value)
  BY LengthLoop
<1>1. /\ LengthBytes(mem, at, n) = Value[n] /\ Value[0] = 0
      /\ \A k \in 1 .. n : Value[k] = 256 * Value[k - 1] + mem[at + k]
  BY <1>0 DEF Added
<1>2. Value[1] \in Nat
  BY <1>1
<1>3. n >= 2 => Value[2] \in Nat
  BY <1>1, <1>2
<1>4. n >= 3 => Value[3] \in Nat
  BY <1>1, <1>3
<1>5. n >= 4 => Value[4] \in Nat
  BY <1>1, <1>4
<1> QED
  BY <1>1, <1>2, <1>3, <1>4, <1>5

\* It is the number whose digits the bytes are.
LEMMA LengthIsRead ==
    ASSUME NEW mem, NEW at \in Nat, NEW n \in 1 .. 4, NEW size \in Nat,
           Spells(mem, at, size, n)
    PROVE  LengthBytes(mem, at, n) = size
<1>0. /\ size \div Weight[5 - n] < 256
      /\ \A k \in 1 .. n : mem[at + k] = (size \div Weight[4 - n + k]) % 256
  BY DEF Spells
<1>2. \A k \in 1 .. n : mem[at + k] \in Nat
  BY <1>0 DEF Weight
<1>4. PICK Value : LengthBytes(mem, at, n) = Value[n] /\ Added(mem, at, n, Value)
  BY <1>2, LengthLoop
<1>5. /\ LengthBytes(mem, at, n) = Value[n] /\ Value[0] = 0
      /\ \A k \in 1 .. n : Value[k] = 256 * Value[k - 1] + mem[at + k]
  BY <1>4 DEF Added
<1>6. CASE n = 1
  <2>1. mem[at + 1] = size % 256 /\ size < 256
    BY <1>0, <1>6, SMT DEF Weight
  <2> QED
    BY <1>2, <1>5, <1>6, <2>1, SMT
<1>7. CASE n = 2
  <2>1. mem[at + 1] = (size \div 256) % 256 /\ mem[at + 2] = size % 256 /\ size \div 256 < 256
    BY <1>0, <1>7, SMT DEF Weight
  <2>2. Value[1] = mem[at + 1] /\ Value[2] = 256 * Value[1] + mem[at + 2]
    BY <1>2, <1>5, <1>7, SMT
  <2> QED
    BY <1>5, <1>7, <2>1, <2>2, SMT
<1>8. CASE n = 3
  <2>1. /\ mem[at + 1] = (size \div 65536) % 256 /\ mem[at + 2] = (size \div 256) % 256
        /\ mem[at + 3] = size % 256 /\ size \div 65536 < 256
    BY <1>0, <1>8, SMT DEF Weight
  <2>2. /\ Value[1] = mem[at + 1] /\ Value[2] = 256 * Value[1] + mem[at + 2]
        /\ Value[3] = 256 * Value[2] + mem[at + 3]
    BY <1>2, <1>5, <1>8, SMT
  <2>3. Value[1] = size \div 65536
    BY <2>1, <2>2, SMT
  <2>4. Value[2] = size \div 256
    BY <2>1, <2>2, <2>3, SMT
  <2>5. Value[3] = size
    BY <2>1, <2>2, <2>4, SMT
  <2> QED
    BY <1>5, <1>8, <2>5, SMT
<1>9. CASE n = 4
  <2>1. /\ mem[at + 1] = (size \div 16777216) % 256 /\ mem[at + 2] = (size \div 65536) % 256
        /\ mem[at + 3] = (size \div 256) % 256 /\ mem[at + 4] = size % 256
        /\ size \div 16777216 < 256
    BY <1>0, <1>9, SMT DEF Weight
  <2>2. /\ Value[1] = mem[at + 1] /\ Value[2] = 256 * Value[1] + mem[at + 2]
        /\ Value[3] = 256 * Value[2] + mem[at + 3] /\ Value[4] = 256 * Value[3] + mem[at + 4]
    BY <1>2, <1>5, <1>9, SMT
  <2>3. Value[1] = size \div 16777216
    BY <2>1, <2>2, SMT
  <2>4. Value[2] = size \div 65536
    BY <2>1, <2>2, <2>3, SMT
  <2>5. Value[3] = size \div 256
    BY <2>1, <2>2, <2>4, SMT
  <2>6. Value[4] = size
    BY <2>1, <2>2, <2>5, SMT
  <2> QED
    BY <1>5, <1>9, <2>6, SMT
<1> QED
  BY <1>6, <1>7, <1>8, <1>9

\* A value that stands at a position and ends within the bytes there is read as it is.
LEMMA StandingIsRead ==
    ASSUME NEW mem, NEW at \in Nat, NEW x, NEW available \in Int,
           Stands(mem, at, x), Past(x) <= at + available
    PROVE  ReadTlv(mem, at, available) = x
<1>1. PICK n \in 0 .. 4 : x.content = at + 2 + n /\ Spells(mem, at + 1, x.size, n)
  BY DEF Stands
<1>2. x.size \in Nat /\ x = [ok |-> TRUE, tag |-> mem[at], content |-> at + 2 + n, size |-> x.size]
  BY <1>1 DEF Stands, Values
<1>3. available >= 2 + n + x.size
  BY <1>1, <1>2 DEF Past
<1>4. CASE n = 0
  <2>1. mem[at + 1] = x.size /\ x.size < 128
    BY <1>1, <1>4 DEF Spells
  <2> QED
    BY <1>2, <1>3, <1>4, <2>1 DEF ReadTlv, FitsIn
<1>5. CASE n \in 1 .. 4
  <2>1. mem[at + 1] = 128 + n
    BY <1>1, <1>5 DEF Spells
  <2>2. LengthBytes(mem, at + 1, n) = x.size
    BY <1>1, <1>2, <1>5, LengthIsRead
  <2> QED
    BY <1>2, <1>3, <1>5, <2>1, <2>2 DEF ReadTlv, FitsIn
<1> QED
  BY <1>4, <1>5

\* A value has a header of two bytes at least.
LEMMA StandsPast ==
    ASSUME NEW mem, NEW at \in Nat, NEW x, Stands(mem, at, x)
    PROVE  /\ x \in Values /\ x.content \in Nat /\ x.size \in Nat /\ x.tag = mem[at]
           /\ at + 2 <= x.content /\ x.content <= Past(x) /\ Past(x) \in Nat
<1>1. PICK n \in 0 .. 4 : x.content = at + 2 + n
  BY DEF Stands
<1>2. x \in Values /\ x.tag = mem[at]
  BY DEF Stands
<1>3. x.content \in Nat /\ x.size \in Nat
  BY <1>2 DEF Values
<1> QED
  BY <1>1, <1>2, <1>3 DEF Past

\* Two memories hold the same bytes at the positions from `from` on and below `to`.
Same(mem, other, from, to) == \A i \in Nat : from <= i /\ i < to => other[i] = mem[i]

\* So they do in a part.
LEMMA SamePart ==
    ASSUME NEW mem, NEW other, NEW from \in Nat, NEW to \in Nat, NEW a \in Nat, NEW b \in Nat,
           Same(mem, other, from, to), from <= a, b <= to
    PROVE  Same(mem, other, a, b)
BY DEF Same

\* Where two memories hold the same bytes, the same values stand in them.
LEMMA StandsToo ==
    ASSUME NEW mem, NEW other, NEW at \in Nat, NEW x, Stands(mem, at, x),
           Same(mem, other, at, Past(x))
    PROVE  Stands(other, at, x)
<1>1. PICK n \in 0 .. 4 : x.content = at + 2 + n /\ Spells(mem, at + 1, x.size, n)
  BY DEF Stands
<1>2. x \in Values /\ x.tag = mem[at] /\ x.size \in Nat
  BY DEF Stands, Values
<1>3. Past(x) = at + 2 + n + x.size
  BY <1>1 DEF Past
<1>4. other[at] = mem[at] /\ other[at + 1] = mem[at + 1]
  BY <1>2, <1>3 DEF Same
<1>5. \A k \in 1 .. n : other[at + 1 + k] = mem[at + 1 + k]
  BY <1>2, <1>3 DEF Same
<1>6. Spells(other, at + 1, x.size, n)
  BY <1>1, <1>4, <1>5 DEF Spells
<1> QED
  BY <1>1, <1>2, <1>4, <1>6 DEF Stands

\* Values that fill a content end within it, each behind the one before.
LEMMA RowEnds ==
    ASSUME NEW mem, NEW x \in Values, NEW row, Fills(mem, row, x)
    PROVE  \A i \in 1 .. Len(row) :
              /\ row[i] \in Values /\ Past(row[i]) \in Nat /\ Past(row[i]) <= Past(x)
              /\ i > 1 => Past(row[i - 1]) < Past(row[i])
              /\ x.content < Past(row[i]) /\ row[i].content <= Past(row[i])
<1> DEFINE start(i) == IF i = 1 THEN x.content ELSE Past(row[i - 1])
<1>0. row \in Seq(Values) /\ Len(row) \in Nat /\ x.content \in Nat
  BY DEF Fills, Values
<1>1. \A i \in 1 .. Len(row) : row[i] \in Values /\ Past(row[i]) \in Nat
  <2>1. \A i \in 1 .. Len(row) : row[i] \in Values
    BY <1>0
  <2>2. \A y \in Values : Past(y) \in Nat
    BY DEF Values, Past
  <2> QED
    BY <2>1, <2>2
<1>2. \A i \in 1 .. Len(row) : start(i) \in Nat /\ Stands(mem, start(i), row[i])
  BY <1>0, <1>1 DEF Fills
<1>3. \A i \in 1 .. Len(row) : start(i) + 2 <= row[i].content /\ row[i].content <= Past(row[i])
  BY <1>2, StandsPast
<1>4. \A i \in 1 .. Len(row) : row[i].content \in Nat
  BY <1>1 DEF Values
<1>6. \A i \in 1 .. Len(row) : i > 1 => Past(row[i - 1]) < Past(row[i])
  <2> SUFFICES ASSUME NEW i \in 1 .. Len(row), i > 1 PROVE Past(row[i - 1]) < Past(row[i])
    OBVIOUS
  <2>1. Past(row[i - 1]) + 2 <= row[i].content /\ row[i].content <= Past(row[i])
    BY <1>3
  <2>2. i - 1 \in 1 .. Len(row)
    BY <1>0
  <2>3. Past(row[i - 1]) \in Nat /\ row[i].content \in Nat /\ Past(row[i]) \in Nat
    BY <1>1, <1>4, <2>2
  <2> QED
    BY <2>1, <2>3
<1>5. \A i \in 1 .. Len(row) : Past(row[i]) <= Past(x)
  <2> DEFINE bad == {k \in Nat : k < Len(row) /\ ~(Past(row[Len(row) - k]) <= Past(x))}
  <2>1. CASE bad = {}
    <3> SUFFICES ASSUME NEW i \in 1 .. Len(row) PROVE Past(row[i]) <= Past(x)
      OBVIOUS
    <3>1. Len(row) - i \in Nat /\ Len(row) - i < Len(row) /\ Len(row) - (Len(row) - i) = i
      BY <1>0
    <3> QED
      BY <2>1, <3>1
  <2>2. CASE bad # {}
    <3>1. PICK k \in bad : \A j \in bad : k <= j
      BY <2>2, LeastElement
    <3>2. k # 0
      BY <1>0, <1>1, <3>1 DEF Fills
    <3>3. k - 1 \in Nat /\ k - 1 \notin bad
      BY <3>1, <3>2
    <3>4. Past(row[Len(row) - (k - 1)]) <= Past(x)
      BY <1>0, <3>1, <3>3
    <3> DEFINE i == Len(row) - (k - 1)
    <3>5. i \in 1 .. Len(row) /\ i > 1 /\ i - 1 = Len(row) - k
      BY <1>0, <3>1, <3>2
    <3>6. Past(row[i - 1]) <= Past(row[i]) /\ Past(row[i - 1]) \in Nat /\ Past(row[i]) \in Nat
      <4>1. i - 1 \in 1 .. Len(row)
        BY <1>0, <3>5
      <4>2. Past(row[i - 1]) < Past(row[i]) /\ Past(row[i]) \in Nat /\ Past(row[i - 1]) \in Nat
        BY <1>1, <1>6, <3>5, <4>1
      <4> QED
        BY <4>2
    <3>7. Past(x) \in Nat
      BY DEF Past, Values
    <3>8. Past(row[Len(row) - k]) <= Past(x)
      BY <3>4, <3>5, <3>6, <3>7
    <3> QED
      BY <3>1, <3>8
  <2> QED
    BY <2>1, <2>2
<1>7. \A i \in 1 .. Len(row) : x.content < Past(row[i])
  <2> DEFINE bad == {i \in Nat : i \in 1 .. Len(row) /\ ~(x.content < Past(row[i]))}
  <2>1. CASE bad = {}
    BY <2>1
  <2>2. CASE bad # {}
    <3>1. PICK i \in bad : \A j \in bad : i <= j
      BY <2>2, LeastElement
    <3>2. CASE i = 1
      BY <1>0, <1>1, <1>2, <1>3, <1>4, <3>1, <3>2
    <3>3. CASE i > 1
      <4>1. i - 1 \in 1 .. Len(row) /\ i - 1 \notin bad
        BY <3>1, <3>3
      <4>2. x.content < Past(row[i - 1]) /\ Past(row[i - 1]) < Past(row[i])
        BY <1>6, <3>1, <3>3, <4>1
      <4> QED
        BY <1>0, <1>1, <3>1, <4>1, <4>2
    <3> QED
      BY <3>1, <3>2, <3>3
  <2> QED
    BY <2>1, <2>2
<1> QED
  BY <1>1, <1>3, <1>5, <1>6, <1>7

\* Each of them starts behind the first byte of the content.
LEMMA RowStarts ==
    ASSUME NEW mem, NEW x \in Values, NEW row, Fills(mem, row, x), NEW i \in 1 .. Len(row)
    PROVE  row[i].content \in Nat /\ x.content <= row[i].content
<1> DEFINE start == IF i = 1 THEN x.content ELSE Past(row[i - 1])
<1>0. x.content \in Nat /\ row \in Seq(Values)
  BY DEF Values, Fills
<1>1. Stands(mem, start, row[i])
  BY DEF Fills
<1>2. start \in Nat /\ x.content <= start
  <2>1. CASE i = 1
    BY <1>0, <2>1
  <2>2. CASE i # 1
    <3>1. i - 1 \in 1 .. Len(row)
      BY <1>0, <2>2
    <3>2. Past(row[i - 1]) \in Nat /\ x.content < Past(row[i - 1])
      BY <3>1, RowEnds
    <3> QED
      BY <1>0, <2>2, <3>2
  <2> QED
    BY <2>1, <2>2
<1> HIDE DEF start
<1>3. start + 2 <= row[i].content /\ row[i].content \in Nat
  BY <1>1, <1>2, StandsPast
<1> QED
  BY <1>0, <1>2, <1>3

\* A value that is read lies within the bytes there.
LEMMA ReadWithin ==
    ASSUME NEW mem, NEW at \in Nat, NEW available \in Nat,
           \A i \in Nat : at <= i /\ i < at + available => mem[i] \in Nat,
           ReadTlv(mem, at, available).ok
    PROVE  LET x == ReadTlv(mem, at, available)
           IN  /\ x.content \in Nat /\ x.size \in Nat /\ x.tag = mem[at]
               /\ at + 2 <= x.content /\ Past(x) <= at + available
<1> DEFINE first == mem[at + 1]
           long == first >= 128
           count == first - 128
           header == IF long THEN 2 + count ELSE 2
           length == IF long THEN LengthBytes(mem, at + 1, count) ELSE first
<1>1. /\ available >= 2
      /\ long => count \in 1 .. 4 /\ available >= header
      /\ FitsIn(available, header, length)
      /\ ReadTlv(mem, at, available)
         = [ok |-> TRUE, tag |-> mem[at], content |-> at + header, size |-> length]
  BY DEF ReadTlv, Unreadable
<1>2. first \in Nat
  BY <1>1
<1>3. CASE long
  <2>1. count \in 1 .. 4 /\ header = 2 + count /\ available >= 2 + count
    BY <1>1, <1>3
  <2>2. \A k \in 1 .. count : mem[at + 1 + k] \in Nat
    <3> SUFFICES ASSUME NEW k \in 1 .. count PROVE mem[at + 1 + k] \in Nat
      OBVIOUS
    <3>1. at + 1 + k \in Nat /\ at <= at + 1 + k /\ at + 1 + k < at + available
      BY <2>1
    <3> QED
      BY <3>1
  <2>3. LengthBytes(mem, at + 1, count) \in Nat
    BY <2>1, <2>2, LengthIsNat
  <2>4. length \in Nat /\ header \in Nat /\ header >= 2
    BY <1>3, <2>1, <2>3
  <2> HIDE DEF length, header, first
  <2> QED
    BY <1>1, <2>4 DEF FitsIn, Past
<1>4. CASE ~long
  <2>1. length \in Nat /\ header = 2
    BY <1>2, <1>4
  <2> HIDE DEF length, header, first
  <2> QED
    BY <1>1, <2>1 DEF FitsIn, Past
<1> QED
  BY <1>3, <1>4

\* The loop over the values of a content, step by step: n bytes are left.
Walk(mem, at, left, From) ==
    \A n \in 0 .. left :
        LET here == at + left - n
            entry == ReadTlv(mem, here, n)
        IN  From[n] = IF n = 0 THEN <<>>
                      ELSE IF ~entry.ok THEN <<entry>>
                      ELSE <<entry>> \o From[n - (entry.content + entry.size - here)]

\* Every step leaves fewer bytes, so the loop is a function of the bytes left.
LEMMA EntriesWalk ==
    ASSUME NEW mem, NEW at \in Nat, NEW left \in Nat,
           \A i \in Nat : at <= i /\ i < at + left => mem[i] \in Nat
    PROVE  \E From : Entries(mem, at, left) = From[left] /\ Walk(mem, at, left, From)
<1> DEFINE entry(n) == ReadTlv(mem, at + left - n, n)
           rest(n) == n - (entry(n).content + entry(n).size - (at + left - n))
           Step(f, n) == IF n = 0 THEN <<>>
                         ELSE IF ~entry(n).ok THEN <<entry(n)>>
                         ELSE <<entry(n)>> \o f[rest(n)]
           From == CHOOSE f : f = [n \in 0 .. left |-> Step(f, n)]
<1>1. Entries(mem, at, left) = From[left]
  BY DEF Entries
<1>2. \A n \in 1 .. left : entry(n).ok => rest(n) \in Nat /\ rest(n) < n
  <2> SUFFICES ASSUME NEW n \in 1 .. left, entry(n).ok PROVE rest(n) \in Nat /\ rest(n) < n
    OBVIOUS
  <2> DEFINE here == at + left - n
  <2>1. here \in Nat /\ n \in Nat /\ at <= here /\ here + n = at + left
    OBVIOUS
  <2>2. \A i \in Nat : here <= i /\ i < here + n => mem[i] \in Nat
    BY <2>1
  <2> HIDE DEF here
  <2>3. ReadTlv(mem, here, n) = entry(n)
    BY DEF here
  <2> DEFINE x == ReadTlv(mem, here, n)
  <2>4. /\ x.content \in Nat /\ x.size \in Nat
        /\ here + 2 <= x.content /\ Past(x) <= here + n
    BY <2>1, <2>2, <2>3, ReadWithin
  <2>5. rest(n) = n - (x.content + x.size - here)
    BY <2>3 DEF here
  <2> HIDE DEF x, rest
  <2> QED
    BY <2>1, <2>4, <2>5 DEF Past
<1> HIDE DEF entry, rest
<1>3. \A k \in Nat : k <= left => \E f : f = [n \in 0 .. k |-> Step(f, n)]
  <2> DEFINE bad == {k \in Nat : k <= left /\ ~\E f : f = [n \in 0 .. k |-> Step(f, n)]}
  <2> SUFFICES ASSUME bad # {} PROVE FALSE
    OBVIOUS
  <2>1. bad \in SUBSET Nat
    OBVIOUS
  <2>2. PICK k \in bad : \A j \in bad : k <= j
    <3> HIDE DEF bad
    <3> QED BY <2>1, LeastElement
  <2>3. k \in Nat /\ k <= left
    BY <2>2
  <2>4. CASE k = 0
    <3> DEFINE f == [n \in 0 .. k |-> <<>>]
    <3>1. f = [n \in 0 .. k |-> Step(f, n)]
      BY <2>4
    <3> QED
      BY <2>2, <3>1
  <2>5. CASE k > 0
    <3>1. k - 1 \in Nat /\ k - 1 \notin bad /\ k - 1 <= left
      BY <2>2, <2>3, <2>5
    <3>2. PICK g : g = [n \in 0 .. k - 1 |-> Step(g, n)]
      BY <3>1
    <3> DEFINE f == [n \in 0 .. k |-> IF n < k THEN g[n] ELSE Step(g, n)]
    <3>3. \A n \in 0 .. k : Step(f, n) = Step(g, n)
      <4> SUFFICES ASSUME NEW n \in 0 .. k PROVE Step(f, n) = Step(g, n)
        OBVIOUS
      <4>1. CASE n = 0
        BY <4>1
      <4>2. CASE n > 0 /\ entry(n).ok
        <5>1. n \in 1 .. left /\ rest(n) \in Nat /\ rest(n) < n
          BY <1>2, <2>3, <4>2
        <5>2. rest(n) \in 0 .. k /\ rest(n) < k
          BY <2>3, <5>1
        <5>3. f[rest(n)] = g[rest(n)]
          BY <5>2
        <5> QED
          BY <5>3
      <4>3. CASE n > 0 /\ ~entry(n).ok
        BY <4>3
      <4> QED
        BY <2>3, <4>1, <4>2, <4>3
    <3> HIDE DEF Step
    <3>4. \A n \in 0 .. k : f[n] = Step(g, n)
      BY <2>3, <3>1, <3>2
    <3>5. f = [n \in 0 .. k |-> Step(f, n)]
      <4>1. f = [n \in 0 .. k |-> f[n]]
        OBVIOUS
      <4>2. \A n \in 0 .. k : f[n] = Step(f, n)
        BY <3>3, <3>4
      <4> HIDE DEF f
      <4> QED
        BY <4>1, <4>2
    <3> HIDE DEF f
    <3> QED
      BY <2>2, <3>5
  <2> QED
    BY <2>3, <2>4, <2>5
<1> HIDE DEF Step
<1>4. From = [n \in 0 .. left |-> Step(From, n)]
  <2>1. \E f : f = [n \in 0 .. left |-> Step(f, n)]
    BY <1>3
  <2> QED
    BY <2>1
<1> HIDE DEF From
<1>5. \A n \in 0 .. left : From[n] = Step(From, n)
  BY <1>4
<1>6. Walk(mem, at, left, From)
  BY <1>5 DEF Walk, Step, entry, rest
<1> QED
  BY <1>1, <1>6

\* What follows one element.
LEMMA HeadTail ==
    ASSUME NEW S, NEW h \in Seq(S), Len(h) = 1, NEW t \in Seq(S), NEW k \in 1 .. Len(t) + 1
    PROVE  (h \o t)[k] = IF k = 1 THEN h[1] ELSE t[k - 1]
<1>1. k \in 1 .. Len(h) + Len(t)
  OBVIOUS
<1>2. (h \o t)[k] = IF k <= Len(h) THEN h[k] ELSE t[k - Len(h)]
  BY <1>1, ConcatProperties
<1> QED
  BY <1>2

\* The bytes left before and behind a value that ends at u.
LEMMA LeftOver ==
    ASSUME NEW l \in Nat, NEW s \in Nat, NEW p \in Nat, p = l + s,
           NEW h \in Nat, NEW u \in Nat, l <= h, h < u, u <= p
    PROVE  /\ p - h \in 1 .. s /\ l + s - (p - h) = h /\ h + (p - h) = p /\ p - h \in Int
           /\ \A a, b \in Nat : a + b = u => (p - h) - (a + b - h) = p - u
OBVIOUS

\* A slice is its first element and the rest.
LEMMA SliceStep ==
    ASSUME NEW S, NEW row \in Seq(S), NEW i \in 1 .. Len(row)
    PROVE  <<row[i]>> \o SubSeq(row, i + 1, Len(row)) = SubSeq(row, i, Len(row))
<1> DEFINE left == <<row[i]>> \o SubSeq(row, i + 1, Len(row))
           right == SubSeq(row, i, Len(row))
<1>0. Len(row) \in Nat /\ \A k \in 1 .. Len(row) : row[k] \in S
  OBVIOUS
<1>1. SubSeq(row, i + 1, Len(row)) \in Seq(S) /\ Len(SubSeq(row, i + 1, Len(row))) = Len(row) - i
  <2>1. \A k \in i + 1 .. Len(row) : row[k] \in S
    BY <1>0
  <2> QED
    BY <1>0, <2>1
<1>2. right \in Seq(S) /\ Len(right) = Len(row) - i + 1
  <2>1. \A k \in i .. Len(row) : row[k] \in S
    BY <1>0
  <2> QED
    BY <1>0, <2>1
<1>3. \A k \in 1 .. Len(row) - i : SubSeq(row, i + 1, Len(row))[k] = row[i + k]
  BY <1>0, <1>1
<1>4. \A k \in 1 .. Len(row) - i + 1 : right[k] = row[i + k - 1]
  BY <1>0, <1>2
<1>5. <<row[i]>> \in Seq(S) /\ Len(<<row[i]>>) = 1 /\ <<row[i]>>[1] = row[i]
  BY <1>0
<1> DEFINE tail == SubSeq(row, i + 1, Len(row))
           head == <<row[i]>>
<1> HIDE DEF tail, right, head
<1>6. left = head \o tail
  BY DEF tail, head
<1>7. left \in Seq(S) /\ Len(left) = Len(row) - i + 1
  BY <1>0, <1>1, <1>5, <1>6 DEF tail, head
<1>8. \A k \in 1 .. Len(row) - i + 1 : left[k] = right[k]
  <2> SUFFICES ASSUME NEW k \in 1 .. Len(row) - i + 1 PROVE left[k] = right[k]
    OBVIOUS
  <2>0. head \in Seq(S) /\ Len(head) = 1 /\ head[1] = row[i] /\ tail \in Seq(S) /\ Len(tail) = Len(row) - i
    BY <1>1, <1>5 DEF tail, head
  <2>1. CASE k = 1
    <3>1. (head \o tail)[1] = row[i]
      <4>1. 1 \in 1 .. Len(tail) + 1
        BY <1>0, <2>0
      <4> QED
        BY <2>0, <4>1, HeadTail
    <3> QED
      BY <1>0, <1>4, <1>6, <2>1, <3>1
  <2>2. CASE k > 1
    <3>0. k - 1 \in 1 .. Len(row) - i /\ k \in 1 .. 1 + Len(tail)
      BY <1>0, <2>0, <2>2
    <3>1. (head \o tail)[k] = tail[k - 1]
      <4>1. k \in 1 .. Len(tail) + 1 /\ k # 1
        BY <1>0, <2>0, <2>2
      <4>2. (head \o tail)[k] = IF k = 1 THEN head[1] ELSE tail[k - 1]
        <5>1. \A s \in Seq(S), t \in Seq(S) :
                Len(s) = 1 => \A j \in 1 .. Len(t) + 1 : (s \o t)[j] = IF j = 1 THEN s[1] ELSE t[j - 1]
          BY HeadTail
        <5> QED
          BY <2>0, <4>1, <5>1
      <4> QED
        BY <4>1, <4>2
    <3>2. tail[k - 1] = row[i + (k - 1)]
      BY <1>3, <3>0 DEF tail
    <3>3. i + (k - 1) = i + k - 1
      BY <1>0
    <3> QED
      BY <1>4, <1>6, <3>1, <3>2, <3>3
  <2> QED
    BY <2>1, <2>2
<1> QED
  BY <1>2, <1>7, <1>8, SeqEqual DEF right

\* Values that fill a content are what the loop over it finds.
LEMMA RowIsRead ==
    ASSUME NEW mem, NEW x \in Values, NEW row, Fills(mem, row, x),
           \A i \in Nat : x.content <= i /\ i < Past(x) => mem[i] \in Nat
    PROVE  Entries(mem, x.content, x.size) = row
<1> DEFINE N == Len(row)
           Upto(i) == IF i = 0 THEN x.content ELSE Past(row[i])
<1>0. /\ row \in Seq(Values) /\ N \in Nat /\ x.content \in Nat /\ x.size \in Nat
      /\ Past(x) = x.content + x.size /\ Past(x) \in Nat
  BY DEF Fills, Values, Past
<1>1. PICK From : Entries(mem, x.content, x.size) = From[x.size] /\ Walk(mem, x.content, x.size, From)
  <2>1. \A i \in Nat : x.content <= i /\ i < x.content + x.size => mem[i] \in Nat
    BY <1>0
  <2> QED
    BY <1>0, <2>1, EntriesWalk
<1>2. \A i \in 1 .. N :
        /\ row[i] \in Values /\ Past(row[i]) \in Nat /\ Past(row[i]) <= Past(x)
        /\ i > 1 => Past(row[i - 1]) < Past(row[i])
        /\ x.content < Past(row[i]) /\ row[i].content <= Past(row[i])
  BY RowEnds
<1>3. \A i \in 0 .. N : Upto(i) \in Nat /\ x.content <= Upto(i) /\ Upto(i) <= Past(x)
  BY <1>0, <1>2
<1>4. Upto(N) = Past(x)
  BY <1>0 DEF Fills
<1>5. \A i \in 1 .. N : Stands(mem, Upto(i - 1), row[i]) /\ Upto(i - 1) < Upto(i)
  <2> SUFFICES ASSUME NEW i \in 1 .. N PROVE Stands(mem, Upto(i - 1), row[i]) /\ Upto(i - 1) < Upto(i)
    OBVIOUS
  <2>1. Upto(i - 1) = (IF i = 1 THEN x.content ELSE Past(row[i - 1])) /\ Upto(i) = Past(row[i])
    BY <1>0
  <2> QED
    BY <1>2, <2>1 DEF Fills
<1> DEFINE Good(i) == From[Past(x) - Upto(i)] = SubSeq(row, i + 1, N)
<1>6. \A i \in 1 .. N : Good(i) => Good(i - 1)
  <2>a. SUFFICES ASSUME NEW i \in 1 .. N, Good(i) PROVE Good(i - 1)
    OBVIOUS
  <2> DEFINE here == Upto(i - 1)
             n == Past(x) - here
  <2>0. i - 1 \in 0 .. N /\ i \in 0 .. N
    BY <1>0
  <2>1. here \in Nat /\ x.content <= here /\ here < Upto(i) /\ Upto(i) <= Past(x) /\ Upto(i) \in Nat
    BY <1>3, <1>5, <2>0
  <2>2. Upto(i) = Past(row[i]) /\ Stands(mem, here, row[i])
    BY <1>0, <1>5
  <2> HIDE DEF Upto
  <2>3. n \in 1 .. x.size /\ x.content + x.size - n = here /\ here + n = Past(x) /\ n \in Int
    <3>1. n = Past(x) - here
      OBVIOUS
    <3>2. /\ x.content \in Nat /\ x.size \in Nat /\ Past(x) \in Nat /\ Past(x) = x.content + x.size
      BY <1>0
    <3> DEFINE u == Upto(i)
               p == Past(x)
               h == here
    <3>3. /\ h \in Nat /\ u \in Nat /\ x.content <= h /\ h < u /\ u <= p
      BY <2>1
    <3> HIDE DEF here, n, u, h
    <3>4. /\ p - h \in 1 .. x.size /\ x.content + x.size - (p - h) = h /\ h + (p - h) = p /\ p - h \in Int
      BY <3>2, <3>3, LeftOver
    <3> QED
      BY <3>1, <3>4 DEF h
  <2>4. ReadTlv(mem, here, n) = row[i]
    <3>1. Past(row[i]) <= here + n
      BY <2>1, <2>2, <2>3
    <3> HIDE DEF here, n
    <3> QED
      BY <2>1, <2>2, <2>3, <3>1, StandingIsRead
  <2>5. row[i].ok = TRUE /\ Past(row[i]) = row[i].content + row[i].size
    BY <1>2 DEF Values, Past
  <2>6. From[n] = <<row[i]>> \o From[n - (row[i].content + row[i].size - here)]
    <3> HIDE DEF here, n
    <3>1. n \in 0 .. x.size /\ n # 0
      BY <1>0, <2>3
    <3>2. LET h == x.content + x.size - n
              entry == ReadTlv(mem, h, n)
          IN  From[n] = IF n = 0 THEN <<>>
                        ELSE IF ~entry.ok THEN <<entry>>
                        ELSE <<entry>> \o From[n - (entry.content + entry.size - h)]
      BY <1>1, <3>1 DEF Walk
    <3> QED
      BY <2>3, <2>4, <2>5, <3>1, <3>2
  <2>7. n - (row[i].content + row[i].size - here) = Past(x) - Upto(i)
    <3> DEFINE u == Upto(i)
               p == Past(x)
               h == here
    <3>0. row[i].content \in Nat /\ row[i].size \in Nat
      BY <1>2 DEF Values
    <3>1. row[i].content + row[i].size = u /\ n = p - h
      BY <2>2, <2>5
    <3>2. /\ x.content \in Nat /\ x.size \in Nat /\ p \in Nat /\ p = x.content + x.size
          /\ h \in Nat /\ u \in Nat /\ x.content <= h /\ h < u /\ u <= p
      BY <1>0, <2>1
    <3> HIDE DEF here, n, u, h, p
    <3>3. \A a, b \in Nat : a + b = u => (p - h) - (a + b - h) = p - u
      BY <3>2, LeftOver
    <3>4. n - (row[i].content + row[i].size - h) = p - u
      BY <3>0, <3>1, <3>3, Zenon
    <3> QED
      BY <3>4 DEF h, u, p
  <2>8. From[n] = <<row[i]>> \o SubSeq(row, i + 1, N)
    BY <2>a, <2>6, <2>7
  <2>9. <<row[i]>> \o SubSeq(row, i + 1, N) = SubSeq(row, i, N)
    BY <1>0, SliceStep
  <2>10. (i - 1) + 1 = i
    BY <1>0
  <2> QED
    BY <2>8, <2>9, <2>10
<1>7. Good(N)
  <2>1. From[0] = <<>>
    <3>1. 0 \in 0 .. x.size
      BY <1>0
    <3>2. LET h == x.content + x.size - 0
              entry == ReadTlv(mem, h, 0)
          IN  From[0] = IF 0 = 0 THEN <<>>
                        ELSE IF ~entry.ok THEN <<entry>>
                        ELSE <<entry>> \o From[0 - (entry.content + entry.size - h)]
      BY <1>1, <3>1 DEF Walk
    <3> QED
      BY <3>2
  <2>2. SubSeq(row, N + 1, N) = <<>>
    BY <1>0
  <2>3. Past(x) - Upto(N) = 0
    BY <1>0, <1>4
  <2> QED
    BY <2>1, <2>2, <2>3
<1> HIDE DEF Good
<1>8. Good(0)
  <2> DEFINE good == {k \in Nat : k <= N /\ Good(k)}
  <2>1. N \in good /\ good \in SUBSET Nat
    BY <1>0, <1>7
  <2>2. PICK k \in good : \A j \in good : k <= j
    <3> HIDE DEF good
    <3> QED BY <2>1, LeastElement
  <2>3. CASE k = 0
    BY <2>2, <2>3
  <2>4. CASE k > 0
    <3>1. k \in 1 .. N /\ Good(k) /\ k - 1 \in Nat /\ k - 1 <= N
      BY <1>0, <2>2, <2>4
    <3>2. k - 1 \in good
      BY <1>6, <3>1
    <3> QED
      BY <2>2, <3>1, <3>2
  <2> QED
    BY <2>2, <2>3, <2>4
<1>9. Past(x) - Upto(0) = x.size
  BY <1>0
<1>10. SubSeq(row, 1, N) = row
  BY <1>0
<1> QED
  BY <1>1, <1>8, <1>9, <1>10 DEF Good

\* Where two memories hold the same bytes, the same values fill a content.
LEMMA FillsToo ==
    ASSUME NEW mem, NEW other, NEW x \in Values, NEW row, Fills(mem, row, x),
           Same(mem, other, x.content, Past(x))
    PROVE  Fills(other, row, x)
<1> DEFINE start(i) == IF i = 1 THEN x.content ELSE Past(row[i - 1])
<1>0. x.content \in Nat /\ Past(x) \in Nat /\ row \in Seq(Values) /\ Len(row) \in Nat
  BY DEF Values, Past, Fills
<1>1. \A i \in 1 .. Len(row) :
        /\ row[i] \in Values /\ Past(row[i]) \in Nat /\ Past(row[i]) <= Past(x)
        /\ x.content < Past(row[i])
  BY RowEnds
<1>2. \A i \in 1 .. Len(row) : Stands(other, start(i), row[i])
  <2> SUFFICES ASSUME NEW i \in 1 .. Len(row) PROVE Stands(other, start(i), row[i])
    OBVIOUS
  <2>1. Stands(mem, start(i), row[i])
    BY DEF Fills
  <2>2. start(i) \in Nat /\ x.content <= start(i)
    <3>1. CASE i = 1
      BY <1>0, <3>1
    <3>2. CASE i # 1
      <4>1. i - 1 \in 1 .. Len(row)
        BY <1>0, <3>2
      <4> QED
        BY <1>0, <1>1, <3>2, <4>1
    <3> QED
      BY <3>1, <3>2
  <2> HIDE DEF start
  <2>3. Past(row[i]) \in Nat /\ Past(row[i]) <= Past(x)
    BY <1>1
  <2>4. Same(mem, other, start(i), Past(row[i]))
    BY <1>0, <2>2, <2>3, SamePart
  <2> QED
    BY <2>1, <2>2, <2>4, StandsToo
<1> QED
  BY <1>2 DEF Fills

\* A row with one hit at k, or none (0), gives that one.
LEMMA OnlyHit ==
    ASSUME NEW row \in Seq(Values), NEW hits, NEW k \in 0 .. Len(row),
           \A i \in 1 .. Len(row) : row[i] \in hits <=> i = k
    PROVE  FirstOf(row, hits) = IF k = 0 THEN Unreadable ELSE row[k]
<1> DEFINE at == {i \in DOMAIN row : row[i] \in hits}
<1>0. Len(row) \in Nat /\ DOMAIN row = 1 .. Len(row)
  OBVIOUS
<1>1. at = IF k = 0 THEN {} ELSE {k}
  BY <1>0
<1>2. FirstOf(row, hits) = IF at = {} THEN Unreadable
                           ELSE row[CHOOSE i \in at : \A j \in at : i <= j]
  BY DEF FirstOf
<1> HIDE DEF at
<1>3. CASE k = 0
  BY <1>1, <1>2, <1>3
<1>4. CASE k # 0
  <2>1. at = {k} /\ k \in Nat
    BY <1>0, <1>1, <1>4
  <2>2. (CHOOSE i \in at : \A j \in at : i <= j) = k
    BY <2>1
  <2> QED
    BY <1>2, <1>4, <2>1, <2>2
<1> QED
  BY <1>3, <1>4

\* Of a certificate that is cut short even the outermost value cannot be read.
LEMMA CutIsUnreadable ==
    ASSUME NEW mem, NEW other, NEW x, NEW total \in Nat, Stands(mem, 1, x), total < Past(x) - 1,
           \A i \in 1 .. total : other[i] = mem[i]
    PROVE  ReadTlv(other, 1, total) = Unreadable
<1>1. PICK n \in 0 .. 4 : x.content = 1 + 2 + n /\ Spells(mem, 1 + 1, x.size, n)
  BY DEF Stands
<1>2. x.size \in Nat /\ Past(x) = 3 + n + x.size
  BY <1>1 DEF Stands, Values, Past
<1> DEFINE first == other[1 + 1]
           long == first >= 128
           count == first - 128
           header == IF long THEN 2 + count ELSE 2
           length == IF long THEN LengthBytes(other, 1 + 1, count) ELSE first
           readable == /\ total >= 2
                       /\ long => count \in 1 .. 4 /\ total >= header
                       /\ FitsIn(total, header, length)
<1>3. ReadTlv(other, 1, total) = IF readable
        THEN [ok |-> TRUE, tag |-> other[1], content |-> 1 + header, size |-> length]
        ELSE Unreadable
  BY DEF ReadTlv
<1>4. SUFFICES ASSUME readable PROVE FALSE
  BY <1>3
<1>5. first = mem[1 + 1]
  BY <1>4
<1>6. CASE n = 0
  <2>1. first = x.size /\ x.size < 128
    BY <1>1, <1>5, <1>6 DEF Spells
  <2> QED
    BY <1>2, <1>4, <1>6, <2>1 DEF FitsIn
<1>7. CASE n # 0
  <2>1. first = 128 + n
    BY <1>1, <1>5, <1>7 DEF Spells
  <2>2. total >= 2 + n
    BY <1>4, <1>7, <2>1
  <2>3. \A k \in 1 .. n : other[1 + 1 + k] = mem[1 + 1 + k]
    BY <2>2
  <2>4. Spells(other, 1 + 1, x.size, n)
    BY <1>1, <1>5, <2>3 DEF Spells
  <2>5. LengthBytes(other, 1 + 1, n) = x.size
    BY <1>2, <1>7, <2>4, LengthIsRead
  <2> QED
    BY <1>2, <1>4, <1>7, <2>1, <2>5 DEF FitsIn
<1> QED
  BY <1>6, <1>7

\* A slice of z elements from m on is the same in two sequences that agree there.
LEMMA SameSlice ==
    ASSUME NEW S, NEW s \in Seq(S), NEW t \in Seq(S), Len(t) = Len(s), NEW m \in Nat \ {0}, NEW z \in Nat,
           m + z - 1 <= Len(s), \A i \in m .. m + z - 1 : t[i] = s[i]
    PROVE  SubSeq(t, m, m + z - 1) = SubSeq(s, m, m + z - 1) /\ Len(SubSeq(s, m, m + z - 1)) = z
<1> DEFINE n == m + z - 1
<1>0. n \in Int /\ m <= n + 1 /\ n - m + 1 = z /\ n <= Len(s) /\ (m <= n <=> z > 0)
  OBVIOUS
<1> HIDE DEF n
<1>1. \A i \in m .. n : s[i] \in S /\ t[i] \in S /\ t[i] = s[i]
  <2> SUFFICES ASSUME NEW i \in m .. n PROVE s[i] \in S /\ t[i] \in S /\ t[i] = s[i]
    OBVIOUS
  <2>1. i \in 1 .. Len(s) /\ i \in 1 .. Len(t)
    BY <1>0
  <2> QED
    BY <2>1, ElementOfSeq DEF n
<1>2. /\ SubSeq(s, m, n) \in Seq(S) /\ SubSeq(t, m, n) \in Seq(S)
      /\ Len(SubSeq(s, m, n)) = z /\ Len(SubSeq(t, m, n)) = z
      /\ \A k \in 1 .. z : SubSeq(s, m, n)[k] = s[m + k - 1] /\ SubSeq(t, m, n)[k] = t[m + k - 1]
  BY <1>0, <1>1, SubSeqProperties
<1>3. \A k \in 1 .. z : SubSeq(s, m, n)[k] = SubSeq(t, m, n)[k]
  <2> SUFFICES ASSUME NEW k \in 1 .. z PROVE SubSeq(s, m, n)[k] = SubSeq(t, m, n)[k]
    OBVIOUS
  <2>1. m + k - 1 \in m .. n
    BY <1>0
  <2> QED
    BY <1>1, <1>2, <2>1
<1>4. SubSeq(t, m, n) = SubSeq(s, m, n)
  BY <1>2, <1>3, SeqEqual
<1> QED
  BY <1>2, <1>4 DEF n

\* The bytes of a value are the same in both memories, and as many as it has.
LEMMA SameContent ==
    ASSUME NEW mem \in Seq(0 .. 255), NEW other \in Seq(0 .. 255), NEW x \in Values, x.content >= 1,
           Past(x) <= Len(mem) + 1, Len(other) = Len(mem),
           Same(mem, other, x.content, Past(x))
    PROVE  Content(other, x) = Content(mem, x) /\ Len(Content(mem, x)) = x.size
<1> DEFINE m == x.content
           z == x.size
           L == Len(mem)
<1>0. m \in Nat /\ z \in Nat /\ Past(x) = m + z
  BY DEF Values, Past
<1>1. L \in Nat /\ m >= 1 /\ m + z <= L + 1
  BY <1>0
<1> HIDE DEF m, z, L
<1>2. m \in Nat \ {0} /\ z \in Nat /\ m + z - 1 <= L
  BY <1>0, <1>1
<1>3. \A i \in m .. m + z - 1 : other[i] = mem[i]
  <2> SUFFICES ASSUME NEW i \in m .. m + z - 1 PROVE other[i] = mem[i]
    OBVIOUS
  <2>1. i \in Nat /\ m <= i /\ i < m + z
    BY <1>0, <1>1
  <2>2. i \in Nat /\ x.content <= i /\ i < Past(x)
    BY <1>0, <2>1 DEF m
  <2> QED
    BY <2>2 DEF Same
<1>4. SubSeq(other, m, m + z - 1) = SubSeq(mem, m, m + z - 1) /\ Len(SubSeq(mem, m, m + z - 1)) = z
  BY <1>2, <1>3, SameSlice DEF L
<1> QED
  BY <1>4 DEF Content, m, z

\* The names of the list inside the OCTET STRING are read as they stand there.
LEMMA ListIsRead ==
    ASSUME NEW mem \in Seq(0 .. 255), NEW other \in Seq(0 .. 255), NEW value \in Values,
           value.content >= 1, Past(value) <= Len(mem) + 1, Len(other) = Len(mem),
           Same(mem, other, value.content, Past(value)),
           NEW names, NEW row, Within(mem, names, value), names.tag = 48, Fills(mem, row, names),
           \A i \in 1 .. Len(row) : row[i].tag = 135 => row[i].size \in {4, 16}
    PROVE  LET read == ReadGeneralNames(other, value.content, value.size)
           IN  read.dns = Tagged(mem, row, 130) /\ read.ip = Tagged(mem, row, 135)
<1>0. /\ value.content \in Nat /\ value.size \in Nat /\ Past(value) = value.content + value.size
      /\ Past(value) \in Nat /\ Len(mem) \in Nat
  BY DEF Values, Past
<1>1. Stands(mem, value.content, names) /\ Past(names) <= Past(value)
  BY DEF Within
<1>2. /\ names \in Values /\ names.content \in Nat /\ names.size \in Nat /\ Past(names) \in Nat
      /\ value.content + 2 <= names.content /\ names.content <= Past(names)
      /\ Past(names) = names.content + names.size
  BY <1>0, <1>1, StandsPast DEF Past
<1>3. Stands(other, value.content, names)
  <2>1. Same(mem, other, value.content, Past(names))
    BY <1>0, <1>1, <1>2, SamePart
  <2> QED
    BY <1>0, <1>1, <2>1, StandsToo
<1>4. ReadTlv(other, value.content, value.size) = names
  BY <1>0, <1>1, <1>3, StandingIsRead
<1>5. Same(mem, other, names.content, Past(names))
  <2>1. value.content <= names.content
    BY <1>0, <1>2
  <2> QED
    BY <1>0, <1>1, <1>2, <2>1, SamePart
<1>6. Fills(other, row, names)
  BY <1>2, <1>5, FillsToo
<1>7. \A i \in Nat : names.content <= i /\ i < Past(names) => other[i] \in Nat
  <2> SUFFICES ASSUME NEW i \in Nat, names.content <= i, i < Past(names) PROVE other[i] \in Nat
    OBVIOUS
  <2>1. i \in 1 .. Len(other)
    BY <1>0, <1>1, <1>2
  <2>2. other[i] \in 0 .. 255
    BY <2>1, ElementOfSeq
  <2>3. 0 .. 255 \subseteq Nat
    OBVIOUS
  <2> QED
    BY <2>2, <2>3, Zenon
<1>8. Entries(other, names.content, names.size) = row
  BY <1>2, <1>6, <1>7, RowIsRead
<1>9. row \in Seq(Values) /\ DOMAIN row = 1 .. Len(row)
  BY DEF Fills
<1>10. \A i \in 1 .. Len(row) : /\ row[i] \in Values /\ row[i].ok
                                /\ Content(other, row[i]) = Content(mem, row[i])
                                /\ Len(Content(mem, row[i])) = row[i].size
  <2> SUFFICES ASSUME NEW i \in 1 .. Len(row)
               PROVE  /\ row[i] \in Values /\ row[i].ok
                      /\ Content(other, row[i]) = Content(mem, row[i])
                      /\ Len(Content(mem, row[i])) = row[i].size
    OBVIOUS
  <2>1. row[i] \in Values /\ Past(row[i]) \in Nat /\ Past(row[i]) <= Past(names)
    BY <1>2, RowEnds
  <2>2. row[i].ok /\ row[i].content \in Nat
    BY <2>1 DEF Values
  <2>3. names.content <= row[i].content
    BY <1>2, RowStarts
  <2>4. Same(mem, other, row[i].content, Past(row[i]))
    BY <1>2, <1>5, <2>1, <2>2, <2>3, SamePart
  <2>5. row[i].content >= 1 /\ Past(row[i]) <= Len(mem) + 1
    <3>1. row[i].content >= 1
      BY <1>0, <1>2, <2>2, <2>3
    <3>2. Past(row[i]) <= Len(mem) + 1
      BY <1>0, <1>1, <1>2, <2>1
    <3> QED
      BY <3>1, <3>2
  <2> QED
    BY <2>1, <2>2, <2>4, <2>5, SameContent
<1> DEFINE tagged(tag) == {Content(other, row[i]) : i \in {j \in DOMAIN row : row[j].ok /\ row[j].tag = tag}}
<1>11. \A tag : tagged(tag) = Tagged(mem, row, tag)
  <2> SUFFICES ASSUME NEW tag PROVE tagged(tag) = Tagged(mem, row, tag)
    OBVIOUS
  <2>1. {j \in DOMAIN row : row[j].ok /\ row[j].tag = tag} = {j \in 1 .. Len(row) : row[j].tag = tag}
    BY <1>9, <1>10, Zenon
  <2>2. \A i \in {j \in 1 .. Len(row) : row[j].tag = tag} : Content(other, row[i]) = Content(mem, row[i])
    BY <1>10, Zenon
  <2> QED
    BY <2>1, <2>2, Zenon DEF Tagged
<1>12. names.ok
  BY <1>2 DEF Values
<1>13. ReadGeneralNames(other, value.content, value.size)
       = [san |-> TRUE, dns |-> tagged(130), ip |-> {IpText(b) : b \in tagged(135)}]
  BY <1>4, <1>8, <1>12 DEF ReadGeneralNames
<1>14. \A b \in Tagged(mem, row, 135) : IpText(b) = b
  <2> SUFFICES ASSUME NEW i \in 1 .. Len(row), row[i].tag = 135
               PROVE  IpText(Content(mem, row[i])) = Content(mem, row[i])
    BY DEF Tagged
  <2>1. Len(Content(mem, row[i])) = row[i].size /\ row[i].size \in {4, 16}
    BY <1>10, Zenon
  <2> QED
    BY <2>1 DEF IpText
<1>15. {IpText(b) : b \in Tagged(mem, row, 135)} = Tagged(mem, row, 135)
  BY <1>14
<1> HIDE DEF tagged
<1> QED
  BY <1>11, <1>13, <1>15

\* The names read are those of the row.
TakenFrom(read, mem, row) == read.dns = Tagged(mem, row, 130) /\ read.ip = Tagged(mem, row, 135)

\* Behind the OID of a subjectAltName that is not critical the code finds its value, and in it the names.
LEMMA PlainIsRead ==
    ASSUME NEW mem \in Seq(0 .. 255), NEW other \in Seq(0 .. 255), NEW e \in Values, NEW oid \in Values,
           NEW p, Lists(mem, e, oid, FALSE, p), Past(oid) >= 1, Past(e) <= Len(mem) + 1,
           Len(other) = Len(mem), Same(mem, other, 1, Past(e))
    PROVE  TakenFrom(SanValue(other, e, oid), mem, p.entries)
<1> DEFINE value == p.value
           names == p.names
           row == p.entries
           behind == Past(oid)
           end == Past(e)
<1>1. /\ Stands(mem, behind, value) /\ value.tag = 4 /\ Past(value) <= end
      /\ Within(mem, names, value) /\ names.tag = 48 /\ Fills(mem, row, names)
      /\ \A i \in 1 .. Len(row) : row[i].tag = 135 => row[i].size \in {4, 16}
  BY DEF Lists
<1>2. behind \in Nat /\ end \in Nat /\ behind >= 1 /\ end <= Len(mem) + 1 /\ Len(mem) \in Nat
  <2>1. \A x \in Values : Past(x) \in Nat
    BY DEF Past, Values
  <2> QED
    BY <2>1
<1> HIDE DEF value, names, row, behind, end
<1>3. /\ value \in Values /\ value.content \in Nat /\ value.size \in Nat
      /\ behind + 2 <= value.content /\ value.content <= Past(value) /\ Past(value) \in Nat
  BY <1>1, <1>2, StandsPast
<1>4. Stands(other, behind, value)
  <2>1. Same(mem, other, behind, Past(value))
    BY <1>1, <1>2, <1>3, SamePart DEF end
  <2> QED
    BY <1>1, <1>2, <2>1, StandsToo
<1>5. ReadTlv(other, behind, end - behind) = value
  <2>1. Past(value) <= behind + (end - behind) /\ end - behind \in Int
    BY <1>1, <1>2
  <2> QED
    BY <1>2, <1>4, <2>1, StandingIsRead
<1>6. Stands(mem, value.content, names) /\ Past(names) <= Past(value)
  BY <1>1 DEF Within
<1>7. names.tag = mem[value.content] /\ value.content + 2 <= Past(names) /\ Past(names) \in Nat
  <2>1. /\ names.tag = mem[value.content] /\ value.content + 2 <= names.content /\ names.content \in Nat
        /\ names.content <= Past(names) /\ Past(names) \in Nat
    BY <1>3, <1>6, StandsPast
  <2> QED
    BY <1>3, <2>1
<1>8. other[value.content] = 48
  <2>1. 1 <= value.content /\ value.content < end
    BY <1>1, <1>2, <1>3, <1>6, <1>7
  <2>2. other[value.content] = mem[value.content]
    BY <1>3, <2>1 DEF Same, end
  <2> QED
    BY <1>1, <1>7, <2>2
<1>9. value.ok
  BY <1>3 DEF Values
<1>10. SanValue(other, e, oid) = ReadGeneralNames(other, value.content, value.size)
  <2>1. e.content + e.size = end /\ oid.content + oid.size = behind
    BY DEF Past, end, behind
  <2> QED
    BY <1>1, <1>5, <1>8, <1>9, <2>1 DEF SanValue
<1>11. Same(mem, other, value.content, Past(value))
  <2>1. 1 <= value.content
    BY <1>2, <1>3
  <2> QED
    BY <1>1, <1>2, <1>3, <2>1, SamePart DEF end
<1>12. value.content >= 1 /\ Past(value) <= Len(mem) + 1
  BY <1>1, <1>2, <1>3
<1>13. LET read == ReadGeneralNames(other, value.content, value.size)
       IN  read.dns = Tagged(mem, row, 130) /\ read.ip = Tagged(mem, row, 135)
  BY <1>1, <1>3, <1>11, <1>12, ListIsRead
<1> QED
  BY <1>10, <1>13 DEF row, TakenFrom

\* Of a critical one it takes the BOOLEAN for the value, and reads no names.
LEMMA CriticalIsNot ==
    ASSUME NEW mem \in Seq(0 .. 255), NEW other \in Seq(0 .. 255), NEW e \in Values, NEW oid \in Values,
           NEW p, Lists(mem, e, oid, TRUE, p), Past(oid) >= 1, Past(e) <= Len(mem) + 1,
           Len(other) = Len(mem), Same(mem, other, 1, Past(e))
    PROVE  SanValue(other, e, oid) = NoNames
<1> DEFINE behind == Past(oid)
           end == Past(e)
           flag == [ok |-> TRUE, tag |-> 1, content |-> behind + 2, size |-> 1]
<1>1. /\ SubSeq(mem, behind, behind + 2) = <<1, 1, 255>>
      /\ Stands(mem, behind + 3, p.value) /\ Past(p.value) <= end
  BY DEF Lists
<1>2. behind \in Nat /\ end \in Nat /\ behind >= 1 /\ end <= Len(mem) + 1 /\ Len(mem) \in Nat
  <2>1. \A x \in Values : Past(x) \in Nat
    BY DEF Past, Values
  <2> QED
    BY <2>1
<1>3. SanValue(other, e, oid)
      = LET first == ReadTlv(other, behind, end - behind)
            next == IF other[first.content] = 1 THEN first.content + first.size ELSE behind
            value == ReadTlv(other, next, end - next)
        IN  IF first.ok /\ value.ok /\ value.tag = 4
            THEN ReadGeneralNames(other, value.content, value.size)
            ELSE NoNames
  BY DEF SanValue, Past
<1> HIDE DEF behind, end
<1>4. behind + 5 <= end
  <2>1. /\ behind + 3 + 2 <= p.value.content /\ p.value.content <= Past(p.value) /\ Past(p.value) \in Nat
        /\ p.value.content \in Nat
    <3>1. behind + 3 \in Nat
      BY <1>2
    <3> QED
      BY <1>1, <3>1, StandsPast
  <2> QED
    BY <1>1, <1>2, <2>1
<1>5. mem[behind] = 1 /\ mem[behind + 1] = 1 /\ mem[behind + 2] = 255
  <2>1. \A i \in behind .. behind + 2 : mem[i] \in 0 .. 255
    <3> SUFFICES ASSUME NEW i \in behind .. behind + 2 PROVE mem[i] \in 0 .. 255
      OBVIOUS
    <3>1. i \in 1 .. Len(mem)
      BY <1>2, <1>4
    <3> QED
      BY <3>1, ElementOfSeq
  <2>2. \A i \in 1 .. behind + 2 - behind + 1 : SubSeq(mem, behind, behind + 2)[i] = mem[behind + i - 1]
    BY <1>2, <2>1, SubSeqProperties
  <2>3. /\ SubSeq(mem, behind, behind + 2)[1] = mem[behind + 1 - 1]
        /\ SubSeq(mem, behind, behind + 2)[2] = mem[behind + 2 - 1]
        /\ SubSeq(mem, behind, behind + 2)[3] = mem[behind + 3 - 1]
    BY <1>2, <2>2
  <2>4. behind + 1 - 1 = behind /\ behind + 2 - 1 = behind + 1 /\ behind + 3 - 1 = behind + 2
    BY <1>2
  <2>5. /\ SubSeq(mem, behind, behind + 2)[1] = 1 /\ SubSeq(mem, behind, behind + 2)[2] = 1
        /\ SubSeq(mem, behind, behind + 2)[3] = 255
    <3>1. <<1, 1, 255>>[1] = 1 /\ <<1, 1, 255>>[2] = 1 /\ <<1, 1, 255>>[3] = 255
      OBVIOUS
    <3> QED
      BY <1>1, <3>1, Zenon
  <2> QED
    BY <2>3, <2>4, <2>5, Zenon
<1>6. other[behind] = 1 /\ other[behind + 1] = 1 /\ other[behind + 2] = 255
  <2>1. /\ behind \in Nat /\ behind + 1 \in Nat /\ behind + 2 \in Nat
        /\ 1 <= behind /\ behind + 2 < end /\ 1 <= behind + 1 /\ behind + 1 < end /\ behind < end /\ 1 <= behind + 2
    BY <1>2, <1>4
  <2> QED
    BY <1>5, <2>1 DEF Same, end
<1>7. Stands(other, behind, flag)
  <2>1. flag \in Values /\ flag.tag = other[behind] /\ flag.content = behind + 2 + 0
    BY <1>2, <1>6 DEF Values
  <2>2. Spells(other, behind + 1, flag.size, 0)
    BY <1>6 DEF Spells
  <2> QED
    BY <2>1, <2>2 DEF Stands
<1>8. ReadTlv(other, behind, end - behind) = flag
  <2>1. Past(flag) <= behind + (end - behind) /\ end - behind \in Int
    BY <1>2, <1>4 DEF Past
  <2> QED
    BY <1>2, <1>7, <2>1, StandingIsRead
<1> QED
  BY <1>3, <1>6, <1>8

\* The first bytes of an OID are the same in both memories.
LEMMA SameOid ==
    ASSUME NEW mem \in Seq(0 .. 255), NEW other \in Seq(0 .. 255), NEW oid \in Values, NEW end \in Nat,
           oid.content >= 1, Past(oid) <= end, end <= Len(mem) + 1, Len(other) = Len(mem),
           Same(mem, other, 1, end)
    PROVE  IsSanOid(other, oid) <=> IsSanOid(mem, oid)
<1> DEFINE m == oid.content
           L == Len(mem)
<1>1. m \in Nat /\ m >= 1 /\ oid.size \in Nat /\ m + oid.size <= end /\ L \in Nat /\ end <= L + 1
  BY DEF Values, Past
<1> SUFFICES ASSUME oid.size >= 3
             PROVE  SubSeq(other, m, m + 2) = SubSeq(mem, m, m + 2)
  BY DEF IsSanOid
<1> HIDE DEF m, L
<1>2. m + 3 - 1 = m + 2 /\ m + 3 <= end /\ m + 3 - 1 <= L /\ m \in Nat \ {0} /\ 3 \in Nat
  BY <1>1
<1>3. \A i \in m .. m + 3 - 1 : other[i] = mem[i]
  BY <1>1, <1>2 DEF Same
<1>4. SubSeq(other, m, m + 3 - 1) = SubSeq(mem, m, m + 3 - 1)
  BY <1>2, <1>3, SameSlice DEF L
<1> QED
  BY <1>2, <1>4

\* What the code reads out of the encoding of a certificate, when it is given the first `total`
\* bytes of a memory that begins with them: its names, if all bytes are there and the
\* subjectAltName is not critical, and else none.
LEMMA NamesAreRead ==
    ASSUME NEW cert, cert.mem \in Seq(0 .. 255), cert.critical \in BOOLEAN, Encodes(cert),
           NEW other \in Seq(0 .. 255), Len(other) = Len(cert.mem),
           \A i \in 1 .. cert.total : other[i] = cert.mem[i]
    PROVE  LET read == ReadAltNames(other, cert.total)
           IN  IF Uncut(cert) /\ ~cert.critical THEN Shows(read, cert) ELSE read.dns = {} /\ read.ip = {}
<1> DEFINE p == cert.plan
           mem == cert.mem
           total == cert.total
<1>1. /\ Stands(mem, 1, p.outer) /\ Within(mem, p.tbs, p.outer)
      /\ Fills(mem, p.fields, p.tbs) /\ p.box \in 0 .. Len(p.fields)
      /\ \A i \in 1 .. Len(p.fields) : p.fields[i].tag = 163 <=> i = p.box
      /\ p.box > 0 => Within(mem, p.list, p.fields[p.box]) /\ Fills(mem, p.extensions, p.list)
      /\ p.san \in 0 .. IF p.box > 0 THEN Len(p.extensions) ELSE 0
      /\ p.box > 0 => \A i \in 1 .. Len(p.extensions) :
            /\ Within(mem, p.oids[i], p.extensions[i])
            /\ IsSanOid(mem, p.oids[i]) <=> i = p.san
      /\ p.san > 0 => Lists(mem, p.extensions[p.san], p.oids[p.san], cert.critical, p)
      /\ cert.dns = (IF p.san > 0 THEN Tagged(mem, p.entries, 130) ELSE {})
      /\ cert.ip = (IF p.san > 0 THEN Tagged(mem, p.entries, 135) ELSE {})
      /\ Past(p.outer) <= Len(mem) + 1 /\ total \in 0 .. Past(p.outer) - 1
  BY DEF Encodes
<1>2. p.outer \in Values /\ p.outer.content \in Nat /\ p.outer.content >= 3 /\ Past(p.outer) \in Nat
  BY <1>1, StandsPast
<1>3. ReadAltNames(other, total)
      = LET tbs == Inside(other, ReadTlv(other, 1, total))
            extensions == Inside(other, ExtensionsAmong(Entries(other, tbs.content, tbs.size)))
        IN  IF tbs.ok /\ extensions.ok
            THEN ReadSanExtension(other, extensions.content, extensions.size)
            ELSE NoNames
  BY DEF ReadAltNames
<1>u. Uncut(cert) <=> total = Past(p.outer) - 1
  BY DEF Uncut
<1>m. mem \in Seq(0 .. 255) /\ Len(other) = Len(mem) /\ \A i \in 1 .. total : other[i] = mem[i]
  OBVIOUS
<1> HIDE DEF p, mem, total
<1>4. CASE ~Uncut(cert)
  <2>1. total \in Nat /\ total < Past(p.outer) - 1
    BY <1>1, <1>2, <1>4, <1>u
  <2>2. ReadTlv(other, 1, total) = Unreadable
    <3>1. Stands(mem, 1, p.outer)
      BY <1>1
    <3> QED
      BY <1>m, <2>1, <3>1, CutIsUnreadable
  <2>3. ReadAltNames(other, total) = NoNames
    <3>1. Unreadable.ok = FALSE
      BY DEF Unreadable
    <3>2. Inside(other, Unreadable) = Unreadable
      BY <3>1 DEF Inside
    <3> QED
      BY <1>3, <2>2, <3>1, <3>2, Zenon
  <2> QED
    BY <1>4, <2>3 DEF NoNames, total
<1>5. CASE Uncut(cert)
  <2> DEFINE end == Past(p.outer)
  <2>1. total = end - 1 /\ end \in Nat /\ Same(mem, other, 1, end)
    <3>1. total = end - 1
      BY <1>5, <1>u
    <3>2. \A i \in Nat : 1 <= i /\ i < end => i \in 1 .. total
      BY <1>2, <3>1
    <3> QED
      BY <1>2, <1>m, <3>1, <3>2 DEF Same
  <2>2. ASSUME NEW at \in Nat, at >= 1, NEW x, Stands(mem, at, x), Past(x) <= end
        PROVE  Stands(other, at, x)
    <3>1. Past(x) \in Nat
      BY <2>2, StandsPast
    <3>2. Same(mem, other, at, Past(x))
      BY <1>2, <2>1, <2>2, <3>1, SamePart
    <3> QED
      BY <2>2, <3>2, StandsToo
  <2>3. ASSUME NEW outer \in Values, outer.content >= 1, Past(outer) <= end, NEW x, Within(mem, x, outer)
        PROVE  /\ x \in Values /\ x.ok /\ x.content \in Nat /\ x.content >= 1 /\ Past(x) \in Nat
               /\ Past(x) <= Past(outer) /\ Past(x) <= end
               /\ ReadTlv(other, outer.content, outer.size) = x
    <3>1. outer.content \in Nat /\ outer.size \in Nat /\ Past(outer) = outer.content + outer.size
      BY DEF Values, Past
    <3>2. Stands(mem, outer.content, x) /\ Past(x) <= Past(outer)
      BY <2>3 DEF Within
    <3>3. x \in Values /\ x.content \in Nat /\ x.content >= outer.content + 2 /\ Past(x) \in Nat
      BY <3>1, <3>2, StandsPast
    <3>4. x.ok /\ Past(x) <= end /\ x.content >= 1
      <4>1. x.ok
        BY <3>3 DEF Values
      <4>2. Past(x) <= end
        BY <2>1, <2>3, <3>1, <3>2, <3>3
      <4>3. x.content >= 1
        BY <2>3, <3>1, <3>3
      <4> QED
        BY <4>1, <4>2, <4>3
    <3>5. Stands(other, outer.content, x)
      BY <2>2, <2>3, <3>1, <3>2, <3>4
    <3>6. ReadTlv(other, outer.content, outer.size) = x
      BY <3>1, <3>2, <3>5, StandingIsRead
    <3> QED
      BY <3>2, <3>3, <3>4, <3>6
  <2>4. ASSUME NEW x \in Values, x.content >= 1, Past(x) <= end, NEW row, Fills(mem, row, x)
        PROVE  /\ Entries(other, x.content, x.size) = row
               /\ row \in Seq(Values)
               /\ \A i \in 1 .. Len(row) : row[i] \in Values /\ row[i].ok /\ row[i].content >= 1 /\ Past(row[i]) <= end
    <3>0. x.content \in Nat /\ Past(x) \in Nat
      BY DEF Values, Past
    <3>1. Same(mem, other, x.content, Past(x))
      BY <2>1, <2>4, <3>0, SamePart
    <3>2. Fills(other, row, x)
      BY <2>4, <3>1, FillsToo
    <3>3. \A i \in Nat : x.content <= i /\ i < Past(x) => other[i] \in Nat
      <4> SUFFICES ASSUME NEW i \in Nat, x.content <= i, i < Past(x) PROVE other[i] \in Nat
        OBVIOUS
      <4>1. i \in 1 .. Len(other)
        BY <1>1, <1>2, <1>m, <2>1, <2>4, <3>0
      <4>2. other[i] \in 0 .. 255
        BY <4>1, ElementOfSeq
      <4>3. 0 .. 255 \subseteq Nat
        OBVIOUS
      <4> QED
        BY <4>2, <4>3, Zenon
    <3>4. Entries(other, x.content, x.size) = row
      BY <3>2, <3>3, RowIsRead
    <3>5. ASSUME NEW i \in 1 .. Len(row)
          PROVE  row[i] \in Values /\ row[i].ok /\ row[i].content >= 1 /\ Past(row[i]) <= end
      <4>1. row[i] \in Values /\ Past(row[i]) \in Nat /\ Past(row[i]) <= Past(x)
        BY <2>4, RowEnds
      <4>2. row[i].content >= x.content
        BY <2>4, RowStarts
      <4>3. row[i].content \in Nat /\ row[i].ok
        BY <4>1 DEF Values
      <4> QED
        BY <2>1, <2>4, <3>0, <4>1, <4>2, <4>3
    <3> QED
      BY <2>4, <3>4, <3>5 DEF Fills
  <2>5. ReadTlv(other, 1, total) = p.outer /\ p.outer.ok
    <3>1. Stands(other, 1, p.outer)
      BY <1>1, <2>1, <2>2
    <3>2. Past(p.outer) <= 1 + total /\ total \in Int
      BY <1>1, <2>1
    <3> QED
      BY <1>2, <3>1, <3>2, StandingIsRead DEF Values
  <2>6. /\ Inside(other, p.outer) = p.tbs /\ p.tbs.ok
        /\ p.tbs \in Values /\ p.tbs.content >= 1 /\ Past(p.tbs) <= end
    <3>1. p.outer.content >= 1 /\ Past(p.outer) <= end /\ Within(mem, p.tbs, p.outer)
      BY <1>1, <1>2
    <3>2. /\ ReadTlv(other, p.outer.content, p.outer.size) = p.tbs /\ p.tbs.ok
          /\ p.tbs \in Values /\ p.tbs.content >= 1 /\ Past(p.tbs) <= end
      BY <1>2, <2>3, <3>1
    <3> QED
      BY <2>5, <3>2 DEF Inside
  <2>7. /\ Entries(other, p.tbs.content, p.tbs.size) = p.fields /\ p.fields \in Seq(Values)
        /\ \A i \in 1 .. Len(p.fields) :
              p.fields[i] \in Values /\ p.fields[i].ok /\ p.fields[i].content >= 1 /\ Past(p.fields[i]) <= end
    BY <1>1, <2>4, <2>6
  <2>8. ExtensionsAmong(p.fields) = IF p.box = 0 THEN Unreadable ELSE p.fields[p.box]
    <3> DEFINE hits == {x \in Range(p.fields) : ~x.ok \/ x.tag = 163}
    <3>1. \A i \in 1 .. Len(p.fields) : p.fields[i] \in hits <=> i = p.box
      <4>1. \A i \in 1 .. Len(p.fields) : p.fields[i] \in Range(p.fields)
        BY <2>7 DEF Range
      <4> QED
        BY <1>1, <2>7, <4>1
    <3> HIDE DEF hits
    <3>2. FirstOf(p.fields, hits) = IF p.box = 0 THEN Unreadable ELSE p.fields[p.box]
      <4>1. p.box \in 0 .. Len(p.fields) /\ p.fields \in Seq(Values)
        BY <1>1, <2>7
      <4> QED
        BY <3>1, <4>1, OnlyHit
    <3> QED
      BY <3>2 DEF ExtensionsAmong, hits
  <2>9. CASE p.box = 0
    <3>1. Inside(other, ExtensionsAmong(p.fields)) = Unreadable
      BY <2>8, <2>9 DEF Inside, Unreadable
    <3>2. ReadAltNames(other, total) = NoNames
      BY <1>3, <2>5, <2>6, <2>7, <3>1 DEF Unreadable
    <3>3. p.san = 0
      BY <1>1, <2>9
    <3> QED
      BY <1>1, <3>2, <3>3 DEF NoNames, Shows, total
  <2>10. CASE p.box > 0
    <3> DEFINE box == p.fields[p.box]
    <3>1. p.box \in 1 .. Len(p.fields)
      BY <1>1, <2>7, <2>10
    <3>2. box \in Values /\ box.ok /\ box.content >= 1 /\ Past(box) <= end
      BY <2>7, <3>1
    <3>3. /\ p.list \in Values /\ p.list.ok /\ p.list.content >= 1 /\ Past(p.list) <= end
          /\ ReadTlv(other, box.content, box.size) = p.list
      BY <1>1, <2>3, <2>10, <3>2
    <3>4. ReadAltNames(other, total) = ReadSanExtension(other, p.list.content, p.list.size)
      <4>1. Inside(other, ExtensionsAmong(p.fields)) = p.list
        BY <2>8, <2>10, <3>2, <3>3 DEF Inside
      <4> QED
        BY <1>3, <2>5, <2>6, <2>7, <3>3, <4>1
    <3>5. /\ Entries(other, p.list.content, p.list.size) = p.extensions /\ p.extensions \in Seq(Values)
          /\ \A i \in 1 .. Len(p.extensions) :
                /\ p.extensions[i] \in Values /\ p.extensions[i].ok
                /\ p.extensions[i].content >= 1 /\ Past(p.extensions[i]) <= end
      BY <1>1, <2>4, <2>10, <3>3
    <3>6. \A i \in 1 .. Len(p.extensions) :
            /\ Oid(other, p.extensions[i]) = p.oids[i] /\ p.oids[i].ok /\ p.oids[i] \in Values
            /\ p.oids[i].content >= 1 /\ Past(p.oids[i]) <= end
            /\ Past(p.oids[i]) \in Nat /\ p.oids[i].content \in Nat
      <4> SUFFICES ASSUME NEW i \in 1 .. Len(p.extensions)
                   PROVE  /\ Oid(other, p.extensions[i]) = p.oids[i] /\ p.oids[i].ok /\ p.oids[i] \in Values
                          /\ p.oids[i].content >= 1 /\ Past(p.oids[i]) <= end
                          /\ Past(p.oids[i]) \in Nat /\ p.oids[i].content \in Nat
        OBVIOUS
      <4>1. Within(mem, p.oids[i], p.extensions[i])
        BY <1>1, <2>10
      <4>2. p.extensions[i] \in Values /\ p.extensions[i].content >= 1 /\ Past(p.extensions[i]) <= end
        BY <3>5
      <4>3. /\ ReadTlv(other, p.extensions[i].content, p.extensions[i].size) = p.oids[i]
            /\ p.oids[i].ok /\ p.oids[i] \in Values /\ p.oids[i].content >= 1 /\ Past(p.oids[i]) <= end
            /\ Past(p.oids[i]) \in Nat /\ p.oids[i].content \in Nat
        BY <2>3, <4>1, <4>2
      <4> QED
        BY <4>3 DEF Oid
    <3>7. \A i \in 1 .. Len(p.extensions) : IsSanOid(other, p.oids[i]) <=> i = p.san
      <4> SUFFICES ASSUME NEW i \in 1 .. Len(p.extensions)
                   PROVE  IsSanOid(other, p.oids[i]) <=> IsSanOid(mem, p.oids[i])
        BY <1>1, <2>10
      <4> QED
        <5>1. /\ p.oids[i] \in Values /\ p.oids[i].content >= 1 /\ Past(p.oids[i]) <= end
          BY <3>6
        <5>2. end \in Nat /\ end <= Len(mem) + 1 /\ Same(mem, other, 1, end)
          BY <1>1, <2>1
        <5> QED
          BY <1>m, <5>1, <5>2, SameOid
    <3>8. SanAmong(other, p.extensions) = IF p.san = 0 THEN Unreadable ELSE p.extensions[p.san]
      <4> DEFINE hits == {e \in Range(p.extensions) :
                             ~e.ok \/ (LET oid == Oid(other, e) IN ~oid.ok \/ IsSanOid(other, oid))}
      <4>1. \A i \in 1 .. Len(p.extensions) : p.extensions[i] \in hits <=> i = p.san
        <5>1. \A i \in 1 .. Len(p.extensions) : p.extensions[i] \in Range(p.extensions)
          BY <3>5 DEF Range
        <5> QED
          BY <3>5, <3>6, <3>7, <5>1
      <4> HIDE DEF hits
      <4>2. p.san \in 0 .. Len(p.extensions)
        BY <1>1, <2>10
      <4>3. FirstOf(p.extensions, hits) = IF p.san = 0 THEN Unreadable ELSE p.extensions[p.san]
        BY <3>5, <4>1, <4>2, OnlyHit
      <4> QED
        BY <4>3 DEF SanAmong, hits
    <3>9. CASE p.san = 0
      <4>1. ReadAltNames(other, total) = NoNames
        BY <3>4, <3>5, <3>8, <3>9 DEF ReadSanExtension, SanOf, Unreadable
      <4> QED
        BY <1>1, <3>9, <4>1 DEF NoNames, Shows, total
    <3>10. CASE p.san > 0
      <4> DEFINE e == p.extensions[p.san]
                 oid == p.oids[p.san]
      <4>1. p.san \in 1 .. Len(p.extensions)
        BY <1>1, <2>10, <3>10
      <4>2. ReadAltNames(other, total) = SanValue(other, e, oid)
        BY <3>4, <3>5, <3>6, <3>8, <3>10, <4>1 DEF ReadSanExtension, SanOf
      <4>3. Lists(mem, e, oid, cert.critical, p)
        BY <1>1, <3>10
      <4>4. e \in Values /\ oid \in Values /\ Past(e) <= end /\ Past(e) \in Nat /\ Past(oid) >= 1
        <5>1. e \in Values /\ Past(e) <= end /\ oid \in Values /\ oid.content >= 1
          BY <3>5, <3>6, <4>1
        <5> HIDE DEF e, oid
        <5>2. Past(e) \in Nat /\ Past(oid) = oid.content + oid.size /\ oid.content \in Nat /\ oid.size \in Nat
          BY <5>1 DEF Values, Past
        <5> QED
          BY <5>1, <5>2
      <4>5. Past(e) <= Len(mem) + 1 /\ Same(mem, other, 1, Past(e))
        BY <1>1, <1>2, <2>1, <4>4, SamePart
      <4> HIDE DEF e, oid
      <4>6. CASE cert.critical
        <5>1. SanValue(other, e, oid) = NoNames
          <6>1. Lists(mem, e, oid, TRUE, p)
            BY <4>3, <4>6
          <6> QED
            BY <1>m, <4>4, <4>5, <6>1, CriticalIsNot
        <5> QED
          BY <4>2, <4>6, <5>1 DEF NoNames, total
      <4>7. CASE ~cert.critical
        <5>1. TakenFrom(SanValue(other, e, oid), mem, p.entries)
          <6>1. Lists(mem, e, oid, FALSE, p)
            BY <4>3, <4>7
          <6> QED
            BY <1>m, <4>4, <4>5, <6>1, PlainIsRead
        <5> QED
          BY <1>1, <1>5, <3>10, <4>2, <4>7, <5>1 DEF Shows, total, TakenFrom
      <4> QED
        BY <4>6, <4>7
    <3> QED
      BY <1>1, <3>9, <3>10
  <2> QED
    BY <1>1, <2>9, <2>10
<1> QED
  BY <1>4, <1>5

(* The names VerifyName compares are those of the certificate's encoding,  *)
(* whatever its lengths and the forms they are spelt in, wherever the      *)
(* subjectAltName stands among the extensions; a certificate that is cut   *)
(* short or whose subjectAltName is critical gives none; and what lies in  *)
(* memory behind the certificate has no influence (ReadTlv, ReadAltNames). *)
THEOREM NamesAreReadBack == VerifierSpec => []NamesReadBack
<1>1. Whole => NamesReadBack
  <2> SUFFICES ASSUME Whole, asked > 0, dial.certs[asked].there PROVE NamesReadBack
    BY DEF NamesReadBack
  <2> DEFINE cert == dial.certs[asked]
             Behind(x) == [i \in DOMAIN cert.mem |-> IF i > cert.total THEN x ELSE cert.mem[i]]
             reads == {ReadAltNames(mem, cert.total) : mem \in {cert.mem, Behind(0), Behind(1), Behind(130)}}
             good == Uncut(cert) /\ ~cert.critical
  <2>1. /\ cert.mem \in Seq(0 .. 255) /\ cert.critical \in BOOLEAN /\ Encodes(cert)
    <3>1. dial \in Dials /\ asked \in 1 .. Len(dial.certs)
      <4>1. dial \in Dials /\ asked \in 0 .. Len(dial.certs)
        BY DEF Whole, VerifierTypeOK
      <4>2. Len(dial.certs) \in Nat
        BY <4>1, DialsAssumption
      <4> QED
        BY <4>1, <4>2
    <3> QED
      BY <3>1, EncodingsAssumption
  <2>2. cert.there
    OBVIOUS
  <2>3. NamesReadBack <=> \A read \in reads : /\ Readable(cert) => Shows(read, cert)
                                              /\ read.dns \subseteq cert.dns /\ read.ip \subseteq cert.ip
                                              /\ \A other \in reads : Shows(read, other)
    BY DEF NamesReadBack
  <2> HIDE DEF cert
  <2>4. cert.total \in Nat
    <3>1. /\ Stands(cert.mem, 1, cert.plan.outer)
          /\ cert.total \in 0 .. Past(cert.plan.outer) - 1
      BY <2>1 DEF Encodes
    <3> QED
      BY <3>1
  <2>5. ASSUME NEW other \in Seq(0 .. 255), Len(other) = Len(cert.mem),
               \A i \in 1 .. cert.total : other[i] = cert.mem[i]
        PROVE  LET read == ReadAltNames(other, cert.total)
               IN  IF good THEN Shows(read, cert) ELSE read.dns = {} /\ read.ip = {}
    BY <2>1, <2>5, NamesAreRead
  <2>6. ASSUME NEW x \in 0 .. 255
        PROVE  /\ Behind(x) \in Seq(0 .. 255) /\ Len(Behind(x)) = Len(cert.mem)
               /\ \A i \in 1 .. cert.total : Behind(x)[i] = cert.mem[i]
    <3>1. DOMAIN cert.mem = 1 .. Len(cert.mem) /\ Len(cert.mem) \in Nat
      BY <2>1
    <3>2. \A i \in 1 .. Len(cert.mem) : cert.mem[i] \in 0 .. 255
      BY <2>1, ElementOfSeq
    <3>3. Behind(x) \in Seq(0 .. 255) /\ Len(Behind(x)) = Len(cert.mem)
      <4> DEFINE size == Len(cert.mem)
      <4>1. Behind(x) = [i \in 1 .. size |-> IF i > cert.total THEN x ELSE cert.mem[i]]
        BY <3>1
      <4>2. \A i \in 1 .. size : (IF i > cert.total THEN x ELSE cert.mem[i]) \in 0 .. 255
        BY <3>2
      <4> HIDE DEF Behind
      <4>3. size \in Nat
        BY <3>1
      <4> HIDE DEF size
      <4>4. Behind(x) \in [1 .. size -> 0 .. 255]
        BY <4>1, <4>2
      <4>5. Behind(x) \in Seq(0 .. 255) /\ Len(Behind(x)) = size
        BY <4>3, <4>4
      <4> QED
        BY <4>5 DEF size
    <3>4. cert.total <= Len(cert.mem)
      <4>1. /\ Past(cert.plan.outer) <= Len(cert.mem) + 1 /\ cert.total \in 0 .. Past(cert.plan.outer) - 1
            /\ Stands(cert.mem, 1, cert.plan.outer)
        BY <2>1 DEF Encodes
      <4>2. Past(cert.plan.outer) \in Nat
        BY <4>1, StandsPast
      <4> QED
        BY <3>1, <4>1, <4>2
    <3> QED
      BY <2>4, <3>1, <3>3, <3>4
  <2>7. \A read \in reads : IF good THEN Shows(read, cert) ELSE read.dns = {} /\ read.ip = {}
    <3>1. LET read == ReadAltNames(cert.mem, cert.total)
          IN  IF good THEN Shows(read, cert) ELSE read.dns = {} /\ read.ip = {}
      BY <2>1, <2>5
    <3>2. ASSUME NEW x \in 0 .. 255
          PROVE  LET read == ReadAltNames(Behind(x), cert.total)
                 IN  IF good THEN Shows(read, cert) ELSE read.dns = {} /\ read.ip = {}
      BY <2>5, <2>6
    <3>3. 0 \in 0 .. 255 /\ 1 \in 0 .. 255 /\ 130 \in 0 .. 255
      OBVIOUS
    <3> HIDE DEF good, Behind
    <3> QED
      BY <3>1, <3>2, <3>3
  <2> HIDE DEF reads
  <2>8. Readable(cert) => good
    BY DEF Readable
  <2> HIDE DEF good
  <2> QED
    BY <2>3, <2>7, <2>8 DEF Shows
<1> QED
  BY <1>1, AlwaysWhole, PTL

-----------------------------------------------------------------------------
(* Names. *)

\* A character of a certificate's name, or of a host that is one byte per character.
Char == 0 .. 255

\* A byte is not changed by being cut to a byte.
LEMMA CutByte ==
    ASSUME NEW ch \in Char
    PROVE  ch % 256 = ch
BY DEF Char

\* On bytes the code's comparison is the reference's.
LEMMA LowerIsFold ==
    ASSUME NEW ch \in Char
    PROVE  LowerAscii(ch) = Fold(ch)
<1>1. ch % 256 = ch
  BY CutByte
<1> QED
  BY <1>1 DEF LowerAscii, Fold, Char

\* The comparison of bytes is that of the reference.
LEMMA EqualsIsSame ==
    ASSUME NEW a \in Seq(Char), NEW b \in Seq(Char)
    PROVE  AsciiEqualsInsensitive(a, b) <=> SameName(a, b)
<1>1. ASSUME Len(a) = Len(b), NEW i \in DOMAIN a
      PROVE  LowerAscii(a[i]) = Fold(a[i]) /\ LowerAscii(b[i]) = Fold(b[i])
  <2>0. DOMAIN a = 1 .. Len(a) /\ DOMAIN b = 1 .. Len(b)
    OBVIOUS
  <2>1. a[i] \in Char /\ b[i] \in Char
    BY <1>1, <2>0
  <2> QED
    BY <2>1, LowerIsFold
<1> QED
  BY <1>1 DEF AsciiEqualsInsensitive, SameName

\* Dot and star have no other case.
LEMMA FoldMarks ==
    ASSUME NEW ch \in Char
    PROVE  (Fold(ch) = Fold(Dot) <=> ch = Dot) /\ (Fold(ch) = Fold(Star) <=> ch = Star)
BY DEF Fold, Dot, Star, Char

\* What a suffix of a sequence holds.
LEMMA SuffixFacts ==
    ASSUME NEW s \in Seq(Char), NEW i \in 1 .. Len(s)
    PROVE  /\ SubSeq(s, i, Len(s)) \in Seq(Char)
           /\ Len(SubSeq(s, i, Len(s))) = Len(s) - i + 1
           /\ \A k \in 1 .. Len(s) - i + 1 : SubSeq(s, i, Len(s))[k] = s[i + k - 1]
<1>1. Len(s) \in Nat /\ \A j \in 1 .. Len(s) : s[j] \in Char
  OBVIOUS
<1>2. SubSeq(s, i, Len(s)) = [k \in 1 .. Len(s) - i + 1 |-> s[i + k - 1]]
  OBVIOUS
<1>3. \A k \in 1 .. Len(s) - i + 1 : i + k - 1 \in 1 .. Len(s)
  BY <1>1
<1>4. [k \in 1 .. Len(s) - i + 1 |-> s[i + k - 1]] \in Seq(Char)
  BY <1>1, <1>3
<1>5. Len(s) - i + 1 \in Nat
  BY <1>1
<1>6. Len([k \in 1 .. Len(s) - i + 1 |-> s[i + k - 1]]) = Len(s) - i + 1
  BY <1>5
<1> QED
  BY <1>2, <1>4, <1>6

\* What lies in front of the cut.
LEMMA PrefixFacts ==
    ASSUME NEW s \in Seq(Char), NEW i \in 1 .. Len(s)
    PROVE  /\ Len(SubSeq(s, 1, i)) = i
           /\ \A k \in 1 .. i : SubSeq(s, 1, i)[k] = s[k]
OBVIOUS

\* A wildcard with one star for the whole first label, spelled out by positions.
LEMMA CoversByPosition ==
    ASSUME NEW pattern \in Seq(Char), NEW host \in Seq(Char), NEW i \in 2 .. Len(host) - 1
    PROVE  SameName(pattern, <<Star>> \o SubSeq(host, i, Len(host)))
           <=> /\ Len(pattern) = Len(host) - i + 2
               /\ pattern[1] = Star
               /\ \A k \in 1 .. Len(host) - i + 1 : Fold(pattern[k + 1]) = Fold(host[i + k - 1])
<1> DEFINE tail == SubSeq(host, i, Len(host))
           m == Len(host) - i + 1
           whole == <<Star>> \o tail
<1>0. Len(host) \in Nat /\ i \in Nat /\ i \in 1 .. Len(host) /\ m \in Nat /\ m >= 2
  OBVIOUS
<1>1. tail \in Seq(Char) /\ Len(tail) = m /\ \A k \in 1 .. m : tail[k] = host[i + k - 1]
  BY <1>0, SuffixFacts
<1>2. /\ <<Star>> \in Seq(Char) /\ Len(<<Star>>) = 1 /\ <<Star>>[1] = Star
  BY DEF Star, Char
<1> HIDE DEF tail, m
<1>3. Len(whole) = m + 1 /\ whole[1] = Star /\ \A k \in 1 .. m : whole[k + 1] = tail[k]
  BY <1>0, <1>1, <1>2
<1> HIDE DEF whole
<1>4. DOMAIN pattern = 1 .. Len(pattern) /\ Len(pattern) \in Nat
  OBVIOUS
<1>5. ASSUME SameName(pattern, whole)
      PROVE  /\ Len(pattern) = m + 1 /\ pattern[1] = Star
             /\ \A k \in 1 .. m : Fold(pattern[k + 1]) = Fold(host[i + k - 1])
  <2>1. Len(pattern) = m + 1 /\ \A j \in 1 .. m + 1 : Fold(pattern[j]) = Fold(whole[j])
    BY <1>3, <1>4, <1>5 DEF SameName
  <2>a. 1 \in 1 .. m + 1 /\ Len(pattern) >= 1
    BY <1>0, <2>1
  <2>b. pattern[1] \in Char
    BY <1>4, <2>a
  <2>2. Fold(pattern[1]) = Fold(Star) /\ pattern[1] \in Char
    BY <1>3, <2>1, <2>a, <2>b
  <2>3. pattern[1] = Star
    BY <2>2, FoldMarks
  <2>4. \A k \in 1 .. m : k + 1 \in 1 .. m + 1
    BY <1>0
  <2> QED
    BY <1>1, <1>3, <2>1, <2>3, <2>4
<1>6. ASSUME Len(pattern) = m + 1, pattern[1] = Star,
             \A k \in 1 .. m : Fold(pattern[k + 1]) = Fold(host[i + k - 1])
      PROVE  SameName(pattern, whole)
  <2>1. ASSUME NEW j \in 1 .. m + 1 PROVE Fold(pattern[j]) = Fold(whole[j])
    <3>1. CASE j = 1
      BY <1>3, <1>6, <3>1
    <3>2. CASE j # 1
      <4>1. j - 1 \in 1 .. m /\ (j - 1) + 1 = j
        BY <1>0, <3>2
      <4>2. whole[j] = host[i + (j - 1) - 1] /\ Fold(pattern[j]) = Fold(host[i + (j - 1) - 1])
        BY <1>1, <1>3, <1>6, <4>1
      <4> QED
        BY <4>2
    <3> QED
      BY <3>1, <3>2
  <2> QED
    BY <1>3, <1>4, <1>6, <2>1 DEF SameName
<1>7. m + 1 = Len(host) - i + 2
  BY <1>0 DEF m
<1> QED
  BY <1>5, <1>6, <1>7 DEF m, whole, tail

\* The code's wildcard, spelled out by positions too.
LEMMA WildcardByPosition ==
    ASSUME NEW pattern \in Seq(Char), NEW host \in Seq(Char)
    PROVE  MatchesWildcard(host, pattern)
           <=> /\ Len(pattern) >= 3 /\ pattern[1] = Star /\ pattern[2] = Dot
               /\ Len(host) - Len(pattern) + 1 > 0
               /\ \A k \in 1 .. Len(pattern) - 1 :
                     Fold(pattern[k + 1]) = Fold(host[Len(host) - Len(pattern) + 1 + k])
               /\ \A j \in 1 .. Len(host) - Len(pattern) + 1 : host[j] \notin {Dot, Star}
<1> DEFINE cut == Len(host) - Len(pattern) + 1
           suffix == SubSeq(pattern, 2, Len(pattern))
           end == SubSeq(host, cut + 1, Len(host))
           label == SubSeq(host, 1, cut)
<1>0. Len(host) \in Nat /\ Len(pattern) \in Nat
  OBVIOUS
<1>1. CASE Len(pattern) >= 3 /\ cut > 0
  <2>0. 2 \in 1 .. Len(pattern) /\ cut \in 1 .. Len(host) /\ cut + 1 \in 1 .. Len(host) /\ cut \in Nat
    BY <1>0, <1>1
  <2>1. /\ suffix \in Seq(Char) /\ Len(suffix) = Len(pattern) - 1
        /\ \A k \in 1 .. Len(pattern) - 1 : suffix[k] = pattern[k + 1]
    <3>1. /\ suffix \in Seq(Char) /\ Len(suffix) = Len(pattern) - 2 + 1
          /\ \A k \in 1 .. Len(pattern) - 2 + 1 : suffix[k] = pattern[2 + k - 1]
      BY <2>0, SuffixFacts
    <3>2. Len(pattern) - 2 + 1 = Len(pattern) - 1 /\ \A k \in 1 .. Len(pattern) - 1 : 2 + k - 1 = k + 1
      BY <1>0
    <3> QED
      BY <3>1, <3>2
  <2>2. /\ end \in Seq(Char) /\ Len(end) = Len(pattern) - 1
        /\ \A k \in 1 .. Len(pattern) - 1 : end[k] = host[cut + k]
    <3>1. /\ end \in Seq(Char) /\ Len(end) = Len(host) - (cut + 1) + 1
          /\ \A k \in 1 .. Len(host) - (cut + 1) + 1 : end[k] = host[(cut + 1) + k - 1]
      BY <2>0, SuffixFacts
    <3>2. Len(host) - (cut + 1) + 1 = Len(pattern) - 1
      BY <1>0
    <3>3. \A k \in 1 .. Len(pattern) - 1 : (cut + 1) + k - 1 = cut + k
      BY <1>0, <2>0
    <3> HIDE DEF cut, end
    <3> QED
      BY <3>1, <3>2, <3>3
  <2>3. Len(label) = cut /\ \A j \in 1 .. cut : label[j] = host[j]
    BY <2>0, PrefixFacts
  <2>4. DOMAIN label = 1 .. cut /\ DOMAIN end = 1 .. Len(pattern) - 1
    <3>1. DOMAIN end = 1 .. Len(end)
      BY <2>2
    <3>2. label = [j \in 1 .. cut |-> host[j]]
      BY <2>0
    <3> QED
      BY <2>2, <3>1, <3>2
  <2>5. Len(host) - Len(suffix) = cut
    <3>1. Len(suffix) = Len(pattern) - 1
      BY <2>1
    <3> HIDE DEF suffix
    <3> QED
      BY <1>0, <3>1
  <2>6. AsciiEqualsInsensitive(end, suffix) <=> SameName(end, suffix)
    BY <2>1, <2>2, EqualsIsSame
  <2>d. SameName(end, suffix) /\ pattern[2] = Dot => Has(host, Dot)
    <3> SUFFICES ASSUME SameName(end, suffix), pattern[2] = Dot PROVE Has(host, Dot)
      OBVIOUS
    <3>1. 1 \in 1 .. Len(pattern) - 1 /\ 1 \in DOMAIN end
      BY <1>0, <1>1, <2>4
    <3>2. suffix[1] = Dot /\ end[1] = host[cut + 1]
      BY <2>1, <2>2, <3>1
    <3>3. end[1] \in Char /\ Fold(end[1]) = Fold(Dot)
      <4>1. Fold(end[1]) = Fold(suffix[1])
        BY <3>1 DEF SameName
      <4>2. end[1] \in Char
        BY <2>2, <3>1
      <4> QED
        BY <3>2, <4>1, <4>2
    <3>4. host[cut + 1] = Dot
      BY <3>2, <3>3, FoldMarks DEF Dot, Char
    <3>5. cut + 1 \in DOMAIN host
      BY <2>0
    <3> HIDE DEF cut
    <3> QED
      BY <3>4, <3>5 DEF Has
  <2>7. MatchesWildcard(host, pattern)
        <=> /\ pattern[1] = Star /\ pattern[2] = Dot
            /\ SameName(end, suffix) /\ ~Has(label, Star) /\ ~Has(label, Dot)
    BY <1>1, <2>5, <2>6, <2>d DEF MatchesWildcard
  <2> HIDE DEF cut, suffix, end, label
  <2>8. SameName(end, suffix) <=> \A k \in 1 .. Len(pattern) - 1 : Fold(pattern[k + 1]) = Fold(host[cut + k])
    BY <2>1, <2>2, <2>4 DEF SameName
  <2>9. ~Has(label, Star) /\ ~Has(label, Dot) <=> \A j \in 1 .. cut : host[j] \notin {Dot, Star}
    BY <2>3, <2>4 DEF Has
  <2> QED
    BY <1>1, <2>7, <2>8, <2>9 DEF cut
<1>2. CASE ~(Len(pattern) >= 3 /\ cut > 0)
  <2>1. CASE ~(Len(pattern) >= 3)
    BY <2>1 DEF MatchesWildcard
  <2>2. CASE Len(pattern) >= 3 /\ ~(cut > 0)
    <3>1. 2 \in 1 .. Len(pattern)
      BY <1>0, <2>2
    <3>2. Len(suffix) = Len(pattern) - 2 + 1
      BY <3>1, SuffixFacts
    <3>3. Len(host) - Len(suffix) = cut
      <4> HIDE DEF suffix
      <4> QED
        BY <1>0, <3>2
    <3> QED
      BY <2>2, <3>3 DEF MatchesWildcard
  <2> QED
    BY <1>2, <2>1, <2>2
<1> QED
  BY <1>1, <1>2

(* A name of a certificate matches a host for the code if and only if it   *)
(* covers it: they are the same but for the case of ASCII letters, or the  *)
(* name has a star for the whole first label of the host and only there.   *)
(* For every name and every host (AsciiEqualsInsensitive, MatchesWildcard).*)
THEOREM MatchingIsCovering ==
    ASSUME NEW pattern \in Seq(Char), NEW host \in Seq(Char)
    PROVE  AsciiEqualsInsensitive(pattern, host) \/ MatchesWildcard(host, pattern) <=> Covers(pattern, host)
<1> DEFINE cut == Len(host) - Len(pattern) + 1
           Spelled(i) == /\ Len(pattern) = Len(host) - i + 2
                         /\ pattern[1] = Star
                         /\ \A k \in 1 .. Len(host) - i + 1 : Fold(pattern[k + 1]) = Fold(host[i + k - 1])
           Wild(i) == /\ host[i] = Dot
                      /\ \A j \in 1 .. i - 1 : host[j] \notin {Dot, Star}
                      /\ Spelled(i)
<1>0. /\ Len(host) \in Nat /\ Len(pattern) \in Nat
      /\ \A j \in 1 .. Len(host) : host[j] \in Char
      /\ \A j \in 1 .. Len(pattern) : pattern[j] \in Char
  OBVIOUS
<1>1. AsciiEqualsInsensitive(pattern, host) <=> SameName(pattern, host)
  BY EqualsIsSame
<1>2. Covers(pattern, host) <=> SameName(pattern, host) \/ \E i \in 2 .. Len(host) - 1 : Wild(i)
  BY CoversByPosition DEF Covers
<1>3. ASSUME MatchesWildcard(host, pattern)
      PROVE  \E i \in 2 .. Len(host) - 1 : Wild(i)
  <2>1. /\ Len(pattern) >= 3 /\ pattern[1] = Star /\ pattern[2] = Dot /\ cut > 0
        /\ \A k \in 1 .. Len(pattern) - 1 : Fold(pattern[k + 1]) = Fold(host[cut + k])
        /\ \A j \in 1 .. cut : host[j] \notin {Dot, Star}
    BY <1>3, WildcardByPosition
  <2>2. cut \in Nat /\ cut + 1 \in 2 .. Len(host) - 1 /\ cut + 1 \in 1 .. Len(host)
    BY <1>0, <2>1
  <2>3. host[cut + 1] = Dot
    <3>1. 1 \in 1 .. Len(pattern) - 1 /\ host[cut + 1] \in Char /\ 1 + 1 = 2
      BY <1>0, <2>1, <2>2
    <3>2. Fold(pattern[2]) = Fold(host[cut + 1])
      BY <2>1, <3>1
    <3> QED
      BY <2>1, <3>1, <3>2, FoldMarks
  <2>4. Spelled(cut + 1)
    <3>1. Len(pattern) = Len(host) - (cut + 1) + 2 /\ Len(host) - (cut + 1) + 1 = Len(pattern) - 1
      BY <1>0
    <3>2. \A k \in 1 .. Len(pattern) - 1 : (cut + 1) + k - 1 = cut + k
      BY <1>0, <2>2
    <3> HIDE DEF cut
    <3> QED
      BY <2>1, <3>1, <3>2
  <2>5. (cut + 1) - 1 = cut
    BY <2>2
  <2> HIDE DEF Spelled, cut
  <2> QED
    BY <2>1, <2>2, <2>3, <2>4, <2>5
<1>4. ASSUME NEW i \in 2 .. Len(host) - 1, Wild(i)
      PROVE  MatchesWildcard(host, pattern)
  <2>1. /\ host[i] = Dot /\ \A j \in 1 .. i - 1 : host[j] \notin {Dot, Star}
        /\ Len(pattern) = Len(host) - i + 2 /\ pattern[1] = Star
        /\ \A k \in 1 .. Len(host) - i + 1 : Fold(pattern[k + 1]) = Fold(host[i + k - 1])
    BY <1>4
  <2>2. /\ cut = i - 1 /\ cut > 0 /\ Len(pattern) >= 3 /\ Len(host) - i + 1 = Len(pattern) - 1
        /\ i \in Nat /\ 1 \in 1 .. Len(host) - i + 1 /\ 2 \in 1 .. Len(pattern)
    BY <1>0, <2>1
  <2>3. \A k \in 1 .. Len(pattern) - 1 : i + k - 1 = cut + k
    <3> HIDE DEF cut
    <3> QED
      BY <1>0, <2>2
  <2>4. pattern[2] = Dot
    <3>1. Fold(pattern[1 + 1]) = Fold(host[i + 1 - 1])
      BY <2>1, <2>2
    <3>2. Fold(pattern[2]) = Fold(host[i])
      BY <2>2, <3>1
    <3>3. pattern[2] \in Char
      BY <1>0, <2>2
    <3> QED
      BY <2>1, <3>2, <3>3, FoldMarks
  <2> HIDE DEF cut
  <2>5. \A k \in 1 .. Len(pattern) - 1 : Fold(pattern[k + 1]) = Fold(host[cut + k])
    BY <2>1, <2>2, <2>3
  <2>6. \A j \in 1 .. cut : host[j] \notin {Dot, Star}
    BY <2>1, <2>2
  <2> QED
    BY <2>1, <2>2, <2>4, <2>5, <2>6, WildcardByPosition DEF cut
<1> HIDE DEF Wild
<1> QED
  BY <1>1, <1>2, <1>3, <1>4

\* The common name up to its comma is a name if the whole is.
LEMMA BeforeCommaType ==
    ASSUME NEW name \in Seq(Nat)
    PROVE  BeforeComma(name) \in Seq(Nat)
<1> DEFINE commas == {i \in DOMAIN name : name[i] = Comma}
<1>1. CASE commas = {}
  BY <1>1 DEF BeforeComma
<1>2. CASE commas # {}
  <2> DEFINE first == CHOOSE i \in commas : \A j \in commas : i <= j
  <2>0. commas \in SUBSET Nat /\ commas \subseteq 1 .. Len(name)
    OBVIOUS
  <2>1. first \in 1 .. Len(name)
    <3> HIDE DEF commas
    <3>1. \E i \in commas : \A j \in commas : i <= j
      BY <1>2, <2>0, LeastElement
    <3> QED
      BY <2>0, <3>1
  <2>2. BeforeComma(name) = SubSeq(name, 1, first - 1)
    BY <1>2 DEF BeforeComma
  <2> HIDE DEF first
  <2>3. \A k \in 1 .. first - 1 : name[k] \in Nat
    BY <2>1
  <2>4. SubSeq(name, 1, first - 1) \in Seq(Nat)
    BY <2>1, <2>3
  <2> QED
    BY <2>2, <2>4
<1> QED
  BY <1>1, <1>2

\* The code compares a wide name with a host by its low bytes, and finds every host that
\* the name really is.
LEMMA WideEquals ==
    ASSUME NEW name \in Seq(Nat), NEW host \in Seq(Char),
           \A i \in 1 .. Len(host) : host[i] < 128
    PROVE  /\ AsciiEqualsInsensitive(name, host) <=> SameName(CutToBytes(name), host)
           /\ SameName(name, host) => AsciiEqualsInsensitive(name, host)
<1>0. /\ Len(name) \in Nat /\ DOMAIN name = 1 .. Len(name)
      /\ \A i \in 1 .. Len(name) : name[i] \in Nat
      /\ \A i \in 1 .. Len(host) : host[i] \in Char
  OBVIOUS
<1>1. /\ Len(CutToBytes(name)) = Len(name) /\ DOMAIN CutToBytes(name) = 1 .. Len(name)
      /\ \A i \in 1 .. Len(name) : CutToBytes(name)[i] = name[i] % 256
  BY <1>0 DEF CutToBytes
<1>2. \A ch \in Nat : LowerAscii(ch) = Fold(ch % 256)
  BY DEF LowerAscii, Fold
<1>3. \A ch \in Char : LowerAscii(ch) = Fold(ch)
  BY LowerIsFold
<1>4. \A ch \in Nat, h \in Char : h < 128 /\ Fold(ch) = Fold(h) => Fold(ch % 256) = Fold(h)
  <2> SUFFICES ASSUME NEW ch \in Nat, NEW h \in Char, h < 128, Fold(ch) = Fold(h)
               PROVE  Fold(ch % 256) = Fold(h)
    OBVIOUS
  <2>1. ch \in Nat /\ h \in Nat
    BY DEF Char
  <2>2. ch < 128
    BY <2>1 DEF Fold
  <2>3. ch % 256 = ch
    <3>1. ch \in Char
      BY <2>1, <2>2 DEF Char
    <3> QED
      BY <3>1, CutByte
  <2> QED
    BY <2>3
<1>5. AsciiEqualsInsensitive(name, host) <=> SameName(CutToBytes(name), host)
  BY <1>0, <1>1, <1>2, <1>3 DEF AsciiEqualsInsensitive, SameName
<1>6. SameName(name, host) => SameName(CutToBytes(name), host)
  BY <1>0, <1>1, <1>4 DEF SameName
<1> QED
  BY <1>5, <1>6

\* When the reader shows the certificate's own names, VerifyName finds the host in every
\* certificate that names it, and in no other but one whose common name spells it when
\* it is cut to bytes.
LEMMA VerifyNameIsNames ==
    ASSUME NEW f, NEW cert, AsciiHost(f.host), f.host.text \in Seq(Nat),
           cert.dns \subseteq Seq(Char), cert.cn \in Seq(Nat),
           Shows(ReadAltNames(cert.mem, cert.total), cert)
    PROVE  /\ Names(cert, f.host) => VerifyName(f, cert) = "none"
           /\ VerifyName(f, cert) = "none" => Names(cert, f.host) \/ NamesWhenCut(cert, f.host)
<1> DEFINE names == ReadAltNames(cert.mem, cert.total)
           host == f.host.text
<1>1. host \in Seq(Char)
  <2>1. host \in Seq(Nat) /\ \A i \in 1 .. Len(host) : host[i] \in Nat /\ host[i] < 128
    BY DEF AsciiHost
  <2> HIDE DEF host
  <2>2. \A n \in Nat : n < 128 => n \in Char
    BY DEF Char
  <2>3. \A i \in 1 .. Len(host) : host[i] \in Char
    BY <2>1, <2>2
  <2> QED
    BY <2>1, <2>3
<1>2. names.dns = cert.dns /\ names.ip = cert.ip
  BY DEF Shows
<1>3. \A n \in cert.dns : AsciiEqualsInsensitive(n, host) \/ MatchesWildcard(host, n) <=> Covers(n, host)
  BY <1>1, MatchingIsCovering
<1>4. /\ AsciiEqualsInsensitive(BeforeComma(cert.cn), host)
            => SameName(CutToBytes(BeforeComma(cert.cn)), host)
      /\ SameName(BeforeComma(cert.cn), host) => AsciiEqualsInsensitive(BeforeComma(cert.cn), host)
  <2>1. \A i \in 1 .. Len(host) : host[i] < 128
    <3>1. DOMAIN host = 1 .. Len(host)
      BY <1>1
    <3> QED
      BY <3>1 DEF AsciiHost
  <2> HIDE DEF host
  <2> QED
    BY <1>1, <2>1, BeforeCommaType, WideEquals
<1>5. VerifyName(f, cert) = "none"
      <=> IF f.host.ip # <<>> THEN f.host.ip \in names.ip
          ELSE \/ \E n \in names.dns : AsciiEqualsInsensitive(n, host) \/ MatchesWildcard(host, n)
               \/ names.dns = {} /\ AsciiEqualsInsensitive(BeforeComma(cert.cn), host)
  BY DEF VerifyName
<1> HIDE DEF names, host
<1>6. Names(cert, f.host)
      <=> IF f.host.ip # <<>> THEN f.host.ip \in cert.ip
          ELSE \/ \E n \in cert.dns : Covers(n, host)
               \/ cert.dns = {} /\ SameName(BeforeComma(cert.cn), host)
  BY DEF Names, host
<1>7. NamesWhenCut(cert, f.host)
      <=> /\ f.host.ip = <<>> /\ cert.dns = {}
          /\ SameName(CutToBytes(BeforeComma(cert.cn)), host)
  BY DEF NamesWhenCut, host
<1> QED
  BY <1>2, <1>3, <1>4, <1>5, <1>6, <1>7

\* The names of the certificate asked about last are those the code reads.
LEMMA ReadBackShows ==
    ASSUME NamesReadBack, asked > 0, Readable(dial.certs[asked])
    PROVE  Shows(ReadAltNames(dial.certs[asked].mem, dial.certs[asked].total), dial.certs[asked])
BY DEF NamesReadBack, Readable

\* What the last answer and the first refusal say of their certificates.
Judged ==
    /\ verdict = "yes" /\ v.verify => asked > 0 /\ Trouble(v, dial.certs[asked]) = "none"
    /\ refused > 0 => v.verify /\ refused <= asked

\* One call of Check keeps it, because Trouble looks only at fields that never change.
LEMMA JudgedStep ==
    ASSUME Whole, Judged, [VerifierNext]_verifierVars
    PROVE  Judged'
<1>0. /\ dial \in Dials /\ Len(dial.certs) \in Nat /\ asked \in Nat /\ refused \in Nat /\ v \in Fields
  BY DialsAssumption DEF Whole, VerifierTypeOK
<1>1. CASE CheckOff \/ CheckFailed
  <2>1. /\ v' = [v EXCEPT !.checked = TRUE] /\ asked' = asked + 1 /\ UNCHANGED <<dial, refused>>
        /\ (v.verify => verdict' = "no")
    BY <1>1 DEF CheckOff, CheckFailed, Asked
  <2>2. v'.verify = v.verify
    BY <1>0, <2>1 DEF Fields
  <2> QED
    BY <1>0, <2>1, <2>2 DEF Judged
<1>2. CASE Judge
  <2> DEFINE cert == dial.certs[asked + 1]
             f == [v EXCEPT !.checked = TRUE]
  <2>1. dial' = dial /\ asked' = asked + 1 /\ v.verify
    BY <1>2 DEF Judge, Asked
  <2>2. v' = f \/ v' = [f EXCEPT !.failed = TRUE, !.code = Trouble(v, cert)]
    BY <1>2 DEF Judge, Fail
  <2>3. verdict' = "yes" => Trouble(v, cert) = "none"
    BY <1>2 DEF Judge
  <2>4. refused' \in {refused, asked + 1}
    BY <1>2 DEF Judge
  <2> HIDE DEF cert
  <2>5. /\ v'.host = v.host /\ v'.exclusive = v.exclusive /\ v'.roots = v.roots
        /\ v'.verify = v.verify
    BY <1>0, <2>2 DEF Fields
  <2>6. Trouble(v', cert) = Trouble(v, cert)
    BY <2>5, SameTrouble
  <2>7. dial'.certs[asked'] = cert
    BY <2>1 DEF cert
  <2> QED
    BY <1>0, <2>1, <2>3, <2>4, <2>5, <2>6, <2>7 DEF Judged
<1>3. CASE UNCHANGED verifierVars
  BY <1>3 DEF Judged, verifierVars
<1> QED
  BY <1>1, <1>2, <1>3 DEF VerifierNext

\* Judged, as an invariant of every verifier.
LEMMA AlwaysJudged == VerifierSpec => []Judged
<1>1. VerifierInit => Judged
  BY DEF VerifierInit, Judged
<1>2. Whole /\ Judged /\ [VerifierNext]_verifierVars => Judged'
  BY JudgedStep
<1> QED
  BY <1>1, <1>2, AlwaysWhole, PTL DEF VerifierSpec

(* An accepted certificate names the host: the DER walk, the matching, the *)
(* split between addresses and names and the fall back to the common name  *)
(* add no way in (ReadAltNames, VerifyName, Check), for every name in      *)
(* UTF-16, but one: a common name whose characters, cut to their low       *)
(* bytes, spell the host (LowerAscii's cast, TlsVerify.cpp:63-75).         *)
THEOREM AcceptedIsNamed == VerifierSpec => []AcceptedNamed
<1>1. Whole /\ Judged /\ NamesReadBack => AcceptedNamed
  <2> SUFFICES ASSUME Whole, Judged, NamesReadBack, verdict = "yes", v.verify,
                      Readable(dial.certs[asked]), AsciiHost(v.host)
               PROVE  Names(dial.certs[asked], v.host) \/ NamesWhenCut(dial.certs[asked], v.host)
    BY DEF AcceptedNamed
  <2> DEFINE cert == dial.certs[asked]
  <2>1. asked \in 1 .. Len(dial.certs) /\ Trouble(v, cert) = "none"
    <3>1. dial \in Dials /\ asked \in 0 .. Len(dial.certs) /\ asked > 0
      BY DEF Judged, Whole, VerifierTypeOK
    <3>2. Len(dial.certs) \in Nat
      BY <3>1, DialsAssumption
    <3> QED
      BY <3>1, <3>2 DEF Judged
  <2>2. cert.there /\ Shows(ReadAltNames(cert.mem, cert.total), cert)
    BY <2>1, ReadBackShows DEF Readable
  <2>3. v.host.text \in Seq(Nat) /\ cert.dns \subseteq Seq(Char) /\ cert.cn \in Seq(Nat)
    <3>1. dial \in Dials /\ v.host = dial.host
      BY DEF Whole, VerifierTypeOK
    <3> QED
      BY <2>1, <2>2, <3>1, DialsAssumption, EncodingsAssumption DEF Char
  <2>4. VerifyName(v, cert) = "none"
    BY <2>1, <2>2 DEF Trouble
  <2> HIDE DEF cert
  <2>5. Names(cert, v.host) \/ NamesWhenCut(cert, v.host)
    BY <2>2, <2>3, <2>4, VerifyNameIsNames
  <2> QED
    BY <2>5 DEF cert
<1> QED
  BY <1>1, AlwaysWhole, AlwaysJudged, NamesAreReadBack, PTL

\* A certificate that nothing is wrong with, for the verifier f.
Impeccable(f, cert) ==
    /\ Readable(cert) /\ cert.built /\ Names(cert, f.host)
    /\ \A i \in DOMAIN cert.chains : Trusts(f, cert.chains[i])
    /\ cert.policy = "ok" \/ (f.exclusive /\ cert.policy = "untrusted_root")

\* VerifyChain finds nothing wrong with chains that may all be trusted.
LEMMA ImpeccableChain ==
    ASSUME NEW f, NEW cert, f.exclusive \in BOOLEAN, "nohash" \notin f.roots,
           cert.built => 1 \in DOMAIN cert.chains, Impeccable(f, cert)
    PROVE  VerifyChain(f, cert) = "none"
<1>0. /\ cert.built /\ 1 \in DOMAIN cert.chains
      /\ \A i \in DOMAIN cert.chains : Trusts(f, cert.chains[i])
      /\ cert.policy = "ok" \/ (f.exclusive /\ cert.policy = "untrusted_root")
  BY DEF Impeccable
<1>1. f.exclusive => RootedInFile(cert, f.roots)
  BY <1>0 DEF RootedInFile, Trusts
<1>2. HardStatus(cert, f.exclusive) = {}
  <2>1. CASE f.exclusive
    <3>1. \A i \in DOMAIN cert.chains : cert.chains[i].errors \subseteq Soft \cup {"untrusted_root"}
      BY <1>0, <2>1 DEF Trusts
    <3>2. EngineStatus(cert) \subseteq Soft \cup {"untrusted_root"}
      BY <3>1 DEF EngineStatus
    <3> QED
      BY <2>1, <3>2 DEF HardStatus
  <2>2. CASE ~f.exclusive
    <3>1. \A i \in DOMAIN cert.chains : cert.chains[i].errors \subseteq Soft
      BY <1>0, <2>2 DEF Trusts
    <3>2. EngineStatus(cert) \subseteq Soft
      BY <3>1 DEF EngineStatus
    <3> QED
      BY <2>2, <3>2 DEF HardStatus
  <2> QED
    BY <2>1, <2>2
<1> QED
  BY <1>0, <1>1, <1>2 DEF VerifyChain

\* What Check refuses is not impeccable, and stays the one refused.
LEMMA GoodStep ==
    ASSUME Whole, Judged, Whole', NamesReadBack', GoodAccepted,
           [VerifierNext]_verifierVars
    PROVE  GoodAccepted'
<1>0. /\ dial \in Dials /\ Len(dial.certs) \in Nat /\ asked \in Nat /\ refused \in Nat /\ v \in Fields
  BY DialsAssumption DEF Whole, VerifierTypeOK
<1>1. ASSUME UNCHANGED <<dial, refused>>, v'.host = v.host, v'.exclusive = v.exclusive,
             v'.roots = v.roots
      PROVE  GoodAccepted'
  BY <1>1 DEF GoodAccepted, Trusts
<1>2. CASE CheckOff \/ CheckFailed
  <2>1. v' = [v EXCEPT !.checked = TRUE] /\ UNCHANGED <<dial, refused>>
    BY <1>2 DEF CheckOff, CheckFailed, Asked
  <2>2. v'.host = v.host /\ v'.exclusive = v.exclusive /\ v'.roots = v.roots
    BY <1>0, <2>1 DEF Fields
  <2> QED
    BY <1>1, <2>1, <2>2
<1>3. CASE Judge
  <2> DEFINE cert == dial.certs[asked + 1]
             f == [v EXCEPT !.checked = TRUE]
  <2>1. dial' = dial /\ asked' = asked + 1 /\ asked + 1 \in 1 .. Len(dial.certs)
    BY <1>0, <1>3 DEF Judge, Asked
  <2>2. v' = f \/ v' = [f EXCEPT !.failed = TRUE, !.code = Trouble(v, cert)]
    BY <1>3 DEF Judge, Fail
  <2>3. refused' = refused \/ (refused' = asked + 1 /\ Trouble(v, cert) # "none")
    BY <1>3 DEF Judge
  <2>4. dial'.certs[asked'] = cert /\ (refused' = asked + 1 => dial'.certs[refused'] = cert)
    BY <2>1
  <2>5. /\ cert.built => 1 \in DOMAIN cert.chains
        /\ cert.there => cert.dns \subseteq Seq(Char) /\ cert.cn \in Seq(Nat)
    BY <1>0, <2>1, DialsAssumption, EncodingsAssumption DEF Char
  <2> HIDE DEF cert
  <2>6. /\ v'.host = v.host /\ v'.exclusive = v.exclusive /\ v'.roots = v.roots
    BY <1>0, <2>2 DEF Fields
  <2>7. CASE refused' = refused
    BY <1>1, <2>1, <2>6, <2>7
  <2>8. CASE refused' = asked + 1 /\ Trouble(v, cert) # "none"
    <3>1. SUFFICES ASSUME AsciiHost(v.host), Impeccable(v', cert) PROVE FALSE
      BY <2>4, <2>6, <2>8 DEF GoodAccepted, Impeccable
    <3>2. Trouble(v', cert) # "none" /\ cert.there
      BY <2>6, <2>8, <3>1, SameTrouble DEF Impeccable, Readable
    <3>3. v'.exclusive \in BOOLEAN /\ "nohash" \notin v'.roots
      <4>1. /\ v'.exclusive \in BOOLEAN
            /\ v'.roots = IF v'.exclusive THEN dial'.file.roots ELSE {}
        BY DEF Whole, VerifierTypeOK, Fields
      <4> QED
        BY <1>0, <2>1, <4>1, DialsAssumption
    <3>4. VerifyChain(v', cert) = "none"
      BY <2>5, <3>1, <3>3, ImpeccableChain
    <3>5. Shows(ReadAltNames(cert.mem, cert.total), cert)
      <4>1. (asked > 0)'
        BY <1>0, <2>1
      <4>2. Readable(dial'.certs[asked'])
        BY <2>4, <3>1 DEF Impeccable
      <4> QED
        BY <2>4, <4>1, <4>2 DEF NamesReadBack, Readable
    <3>6. AsciiHost(v'.host) /\ v'.host.text \in Seq(Nat)
      BY <1>0, <2>6, <3>1, DialsAssumption DEF Whole, VerifierTypeOK
    <3>7. Names(cert, v'.host) /\ cert.dns \subseteq Seq(Char) /\ cert.cn \in Seq(Nat)
      BY <2>5, <3>1, <3>2 DEF Impeccable
    <3>8. VerifyName(v', cert) = "none"
      BY <3>5, <3>6, <3>7, VerifyNameIsNames
    <3> QED
      BY <3>2, <3>4, <3>8 DEF Trouble
  <2> QED
    BY <2>3, <2>7, <2>8
<1>4. CASE UNCHANGED verifierVars
  BY <1>1, <1>4 DEF verifierVars
<1> QED
  BY <1>2, <1>3, <1>4 DEF VerifierNext

(* A certificate with clean chains that names the host is refused by no    *)
(* verifier, with or without a ca_file, unless its subjectAltName is       *)
(* critical or it is cut short (Check, VerifyChain, VerifyName).           *)
THEOREM GoodIsAccepted == VerifierSpec => []GoodAccepted
<1>1. VerifierInit => GoodAccepted
  BY DEF VerifierInit, GoodAccepted
<1>2. /\ Whole /\ Judged /\ Whole' /\ NamesReadBack' /\ GoodAccepted
      /\ [VerifierNext]_verifierVars
      => GoodAccepted'
  BY GoodStep
<1> QED
  BY <1>1, <1>2, AlwaysWhole, AlwaysJudged, NamesAreReadBack, PTL DEF VerifierSpec
=============================================================================
