------------------------ MODULE AsyncConnectionProofs ------------------------
(***************************************************************************)
(* Theorems about AsyncConnection, for answers of every length, every size *)
(* of the receive buffer and any number of starts and sends.               *)
(***************************************************************************)
EXTENDS AsyncConnection, TLAPS

\* Capping keeps a counter in its range, does not take the first count back, and does not grow.
LEMMA AtMostBounds ==
    ASSUME NEW k \in Nat, NEW bound \in Nat
    PROVE  /\ AtMost(k, bound) \in 0 .. bound /\ AtMost(k, bound) <= k
           /\ k > 0 /\ bound > 0 => AtMost(k, bound) > 0
BY DEF AtMost

\* One step keeps every variable within its type.
LEMMA TypeStep ==
    ASSUME TypeOK, [Next]_vars
    PROVE  TypeOK'
<1>a. Total \in Nat /\ RecvMax \in Nat /\ RecvMax > 0 /\ MaxStarts \in Nat /\ MaxSends \in Nat /\ MaxSends > 1
  BY AsyncAssumption
<1>0. /\ starts \in Nat /\ response \in Nat /\ sent \in Nat /\ copies \in Nat /\ got \in Nat
      /\ response <= sent /\ sent <= Total
  BY <1>a DEF TypeOK
<1>u. /\ [i \in DOMAIN under_way |-> FALSE] \in Seq(BOOLEAN)
      /\ Len([i \in DOMAIN under_way |-> FALSE]) = Len(under_way)
  <2>1. under_way \in Seq(BOOLEAN)
    BY DEF TypeOK
  <2>2. DOMAIN under_way = 1 .. Len(under_way) /\ Len(under_way) \in Nat
    BY <2>1
  <2>3. [i \in 1 .. Len(under_way) |-> FALSE] \in Seq(BOOLEAN)
    BY <2>2
  <2>4. Len([i \in 1 .. Len(under_way) |-> FALSE]) = Len(under_way)
    BY <2>2
  <2> QED
    BY <2>2, <2>3, <2>4
<1>c. AtMost(copies + 1, MaxSends) \in 0 .. MaxSends /\ AtMost(got + 1, MaxSends) \in 0 .. MaxSends
  <2>1. copies + 1 \in Nat /\ got + 1 \in Nat
    BY <1>0
  <2> QED
    BY <2>1, <1>a, AtMostBounds
<1>con. ASSUME Connect
        PROVE  /\ under_way' \in Seq(BOOLEAN) /\ Len(under_way') <= MaxSends
               /\ link' \in {"none", "connecting", "up", "dead"} /\ connection_state' \in 0 .. 3
  BY <1>con, <1>u DEF Connect, TypeOK
<1>1. CASE Start
  BY <1>1, <1>con, <1>a, <1>0 DEF Start, Connect, TypeOK, peer
<1>2. CASE PollConnect
  BY <1>2, <1>con DEF PollConnect, Connect, TypeOK, peer
<1>3. CASE PollSend
  <2>0. under_way \in Seq(BOOLEAN) /\ Len(under_way) \in Nat /\ Len(under_way) < MaxSends
    BY <1>3 DEF PollSend, TypeOK
  <2>a. Append(under_way, TRUE) \in Seq(BOOLEAN) /\ Len(Append(under_way, TRUE)) = Len(under_way) + 1
    BY <2>0
  <2>b. under_way' = under_way \/ under_way' = Append(under_way, TRUE)
    BY <1>3 DEF PollSend
  <2>1. under_way' \in Seq(BOOLEAN) /\ Len(under_way') <= MaxSends
    <3>1. CASE under_way' = under_way
      BY <2>0, <3>1, <1>a
    <3>2. CASE under_way' = Append(under_way, TRUE)
      <4>1. Len(under_way) + 1 <= MaxSends
        BY <2>0, <1>a
      <4> QED
        BY <2>a, <3>2, <4>1
    <3> QED
      BY <2>b, <3>1, <3>2
  <2>2. pended' \in BOOLEAN
    BY <1>3 DEF PollSend, TypeOK
  <2> QED
    BY <1>3, <1>c, <2>1, <2>2 DEF PollSend, TypeOK, peer
<1>4. CASE PollResult
  BY <1>4 DEF PollResult, TypeOK, kernel, peer
<1>5. CASE Reconnect \/ PollTimely
  BY <1>5 DEF Reconnect, PollTimely, TypeOK, kernel, peer
<1>6. CASE PollRecv
  <2>1. AtMost(sent - response, RecvMax) \in Nat /\ AtMost(sent - response, RecvMax) <= sent - response
    BY <1>0, <1>a, AtMostBounds
  <2>2. response' \in 0 .. sent /\ connection_state' \in 0 .. 3
    BY <1>6, <1>0, <2>1 DEF PollRecv
  <2> QED
    BY <1>6, <2>2 DEF PollRecv, TypeOK, kernel, peer
<1>7. CASE Delete
  BY <1>7, <1>u DEF Delete, TypeOK, peer
<1>8. CASE Expire
  BY <1>8 DEF Expire, TypeOK, lua, kernel, peer
<1>9. CASE Establish \/ Refuse \/ PeerResets
  BY <1>9 DEF Establish, Refuse, PeerResets, TypeOK, lua, peer
<1>10. CASE CompleteSend
  <2>0. under_way \in Seq(BOOLEAN) /\ under_way # <<>> /\ Len(under_way) <= MaxSends
    BY <1>10 DEF CompleteSend, TypeOK
  <2>a. Tail(under_way) \in Seq(BOOLEAN) /\ Len(Tail(under_way)) = Len(under_way) - 1 /\ Len(under_way) \in Nat
    BY <2>0
  <2>1. Tail(under_way) \in Seq(BOOLEAN) /\ Len(Tail(under_way)) <= MaxSends
    BY <2>0, <2>a, <1>a
  <2>2. under_way' \in Seq(BOOLEAN) /\ Len(under_way') <= MaxSends
    BY <1>10, <2>1 DEF CompleteSend
  <2>3. got' \in 0 .. MaxSends
    BY <1>10, <1>c DEF CompleteSend, TypeOK
  <2> QED
    BY <1>10, <2>2, <2>3 DEF CompleteSend, TypeOK, lua, peer
<1>11. CASE PeerSends
  BY <1>11, <1>0, <1>a DEF PeerSends, TypeOK, lua, kernel
<1>12. CASE PeerCloses
  BY <1>12 DEF PeerCloses, TypeOK, lua, kernel
<1>13. CASE UNCHANGED vars
  BY <1>13 DEF TypeOK, vars, lua, kernel, peer
<1> QED
  BY <1>1, <1>2, <1>3, <1>4, <1>5, <1>6, <1>7, <1>8, <1>9, <1>10, <1>11, <1>12, <1>13 DEF Next, Poll

\* The constructor leaves every field in its type.
LEMMA TypeInit == Init => TypeOK
<1> SUFFICES ASSUME Init PROVE TypeOK
  OBVIOUS
<1>1. Total \in Nat /\ MaxStarts \in Nat /\ MaxSends \in Nat
  BY AsyncAssumption
<1>2. under_way \in Seq(BOOLEAN) /\ Len(under_way) = 0
  BY DEF Init
<1>3. valid \in BOOLEAN /\ expired \in BOOLEAN /\ closed \in BOOLEAN /\ pended \in BOOLEAN
  BY DEF Init
<1> QED
  BY <1>1, <1>2, <1>3 DEF Init, TypeOK

(* Every variable keeps its type, and no more is appended to the response  *)
(* than the peer sent (connection.cpp, AsyncConnection).                   *)
THEOREM TypeCorrect == Spec => []TypeOK
<1>1. TypeOK /\ [Next]_vars => TypeOK'
  BY TypeStep
<1> QED
  BY <1>1, TypeInit, PTL DEF Spec

-----------------------------------------------------------------------------
\* Before the first start nothing is sent, and behind a send there is a copy.
Handed ==
    /\ starts = 0 => copies = 0 /\ connection_state \in {0, 1} /\ pc = "idle" /\ under_way = <<>>
    /\ connection_state \in {2, 3} \/ pc # "idle" => copies > 0
    /\ pc = "sent" => connection_state = 1
    /\ overlapped = "pending" => pended

\* A send that was completed at once is never followed by another one, unless start is called again
\* or the time is over.
Once ==
    ~pended /\ ~expired /\ starts <= 1 =>
        /\ copies <= 1
        /\ connection_state \in {0, 1} /\ pc = "idle" => copies = 0

\* The connection does not go back to connecting with a send under way while the time lasts.
Calm == ~expired /\ starts <= 1 /\ connection_state = 0 => under_way = <<>>

\* Every step of Lua, kernel and peer preserves Handed.
LEMMA HandedStep ==
    ASSUME TypeOK, Handed, [Next]_vars
    PROVE  Handed'
<1>a. MaxSends \in Nat /\ MaxSends > 1
  BY AsyncAssumption
<1>0. starts \in Nat /\ copies \in Nat
  BY <1>a DEF TypeOK
<1>1. CASE Start
  <2>1. starts' # 0
    BY <1>1, <1>0 DEF Start
  <2>2. connection_state' = 1 \/ connection_state' = connection_state
    BY <1>1 DEF Start, Connect
  <2> QED
    BY <1>1, <2>1, <2>2 DEF Start, Connect, Handed
<1>2. CASE PollConnect
  <2>1. connection_state' = 1 \/ connection_state' = connection_state
    BY <1>2 DEF PollConnect, Connect
  <2>2. under_way = <<>> => under_way' = <<>>
    BY <1>2 DEF PollConnect, Connect
  <2> QED
    BY <1>2, <2>1, <2>2 DEF PollConnect, Connect, Handed
<1>3. CASE PollSend
  <2>0. copies + 1 \in Nat /\ copies + 1 > 0
    BY <1>0
  <2>a. copies' = AtMost(copies + 1, MaxSends)
    BY <1>3 DEF PollSend
  <2>b. AtMost(copies + 1, MaxSends) \in 0 .. MaxSends /\ AtMost(copies + 1, MaxSends) > 0
    BY <2>0, <1>a, AtMostBounds
  <2>1. copies' > 0 /\ copies' \in Nat
    BY <2>a, <2>b, <1>a
  <2>2. overlapped' = "pending" => pended'
    BY <1>3 DEF PollSend
  <2>3. starts' # 0 /\ pc' = "sent" /\ connection_state' = 1
    BY <1>3, <1>0 DEF PollSend
  <2> QED
    BY <2>1, <2>2, <2>3 DEF Handed
<1>4. CASE PollResult
  BY <1>4 DEF PollResult, Handed, kernel
<1>5. CASE Reconnect \/ PollTimely
  BY <1>5 DEF Reconnect, PollTimely, Handed, kernel, Receiving
<1>6. CASE PollRecv
  BY <1>6 DEF PollRecv, Handed, kernel
<1>7. CASE Delete
  <2>1. under_way = <<>> => under_way' = <<>>
    BY <1>7 DEF Delete
  <2> QED
    BY <1>7, <2>1 DEF Delete, Handed
<1>8. CASE Expire
  BY <1>8 DEF Expire, Handed, lua, kernel
<1>9. CASE Establish \/ Refuse \/ PeerResets
  BY <1>9 DEF Establish, Refuse, PeerResets, Handed, lua
<1>10. CASE CompleteSend
  BY <1>10 DEF CompleteSend, Handed, lua
<1>11. CASE PeerSends \/ PeerCloses
  BY <1>11 DEF PeerSends, PeerCloses, Handed, lua, kernel
<1>12. CASE UNCHANGED vars
  BY <1>12 DEF Handed, vars, lua, kernel
<1> QED
  BY <1>1, <1>2, <1>3, <1>4, <1>5, <1>6, <1>7, <1>8, <1>9, <1>10, <1>11, <1>12 DEF Next, Poll

\* Every step preserves Once and Calm.
LEMMA OnceStep ==
    ASSUME TypeOK, Handed, Once, Calm, [Next]_vars
    PROVE  Once' /\ Calm'
<1>a. MaxSends \in Nat /\ MaxSends > 1
  BY AsyncAssumption
<1>0. starts \in Nat /\ copies \in Nat
  BY <1>a DEF TypeOK
<1>1. CASE Start
  <2>1. starts' = starts + 1 /\ UNCHANGED <<copies, pended, expired, pc>>
    BY <1>1 DEF Start, Connect
  <2>2. under_way = <<>> => under_way' = <<>>
    BY <1>1 DEF Start, Connect
  <2>3. CASE starts = 0
    BY <2>1, <2>2, <2>3 DEF Once, Calm, Handed
  <2>4. CASE starts # 0
    BY <1>0, <2>1, <2>4 DEF Once, Calm
  <2> QED
    BY <2>3, <2>4
<1>2. CASE PollConnect
  <2>1. connection_state = 0 /\ pc = "idle" /\ UNCHANGED <<starts, copies, pended, expired, pc>>
    BY <1>2 DEF PollConnect, Connect
  <2>2. under_way = <<>> => under_way' = <<>>
    BY <1>2 DEF PollConnect, Connect
  <2> QED
    BY <2>1, <2>2 DEF Once, Calm
<1>3. CASE PollSend
  <2>1. /\ connection_state = 1 /\ pc = "idle" /\ pc' = "sent"
        /\ UNCHANGED <<connection_state, starts, expired>>
    BY <1>3 DEF PollSend
  <2>p. pended => pended'
    BY <1>3, Zenon DEF PollSend
  <2>a. copies' = AtMost(copies + 1, MaxSends)
    BY <1>3 DEF PollSend
  <2>b. copies + 1 \in Nat /\ AtMost(copies + 1, MaxSends) <= copies + 1
    BY <1>0, <1>a, AtMostBounds
  <2>2. copies = 0 => copies' <= 1
    BY <1>a, <2>a, <2>b DEF AtMost
  <2> QED
    BY <2>1, <2>2, <2>p DEF Once, Calm
<1>4. CASE PollResult
  <2>1. pc = "sent" /\ connection_state = 1 /\ UNCHANGED <<starts, copies, pended, expired>>
    BY <1>4 DEF PollResult, Handed, kernel
  <2>2. CASE overlapped = "done"
    BY <1>4, <2>1, <2>2 DEF PollResult, Once, Calm
  <2>3. CASE overlapped # "done"
    <3>1. pended
      BY <2>3 DEF TypeOK, Handed
    <3>2. connection_state' = 1
      BY <1>4, <2>1, <2>3 DEF PollResult
    <3> QED
      BY <2>1, <3>1, <3>2 DEF Once, Calm
  <2> QED
    BY <2>2, <2>3
<1>5. CASE Reconnect \/ PollTimely
  BY <1>5 DEF Reconnect, PollTimely, Once, Calm, kernel
<1>6. CASE PollRecv
  BY <1>6 DEF PollRecv, Once, Calm, kernel
<1>7. CASE Delete
  <2>1. under_way = <<>> => under_way' = <<>>
    BY <1>7 DEF Delete
  <2> QED
    BY <1>7, <2>1 DEF Delete, Once, Calm
<1>8. CASE Expire
  BY <1>8 DEF Expire, Once, Calm
<1>9. CASE Establish \/ Refuse \/ PeerResets
  BY <1>9 DEF Establish, Refuse, PeerResets, Once, Calm, lua
<1>10. CASE CompleteSend
  BY <1>10 DEF CompleteSend, Once, Calm, lua
<1>11. CASE PeerSends \/ PeerCloses
  BY <1>11 DEF PeerSends, PeerCloses, Once, Calm, lua, kernel
<1>12. CASE UNCHANGED vars
  BY <1>12 DEF Once, Calm, vars, lua, kernel
<1> QED
  BY <1>1, <1>2, <1>3, <1>4, <1>5, <1>6, <1>7, <1>8, <1>9, <1>10, <1>11, <1>12 DEF Next, Poll

\* Nothing was handed over yet.
LEMMA HandedInit == Init => Handed /\ Once /\ Calm
BY DEF Init, Handed, Once, Calm

\* The facts about sends, together.
LEMMA Sending == Spec => [](TypeOK /\ Handed /\ Once /\ Calm)
<1>1. TypeOK /\ Handed /\ Once /\ Calm /\ [Next]_vars => (TypeOK /\ Handed /\ Once /\ Calm)'
  BY TypeStep, HandedStep, OnceStep
<1>2. Init => TypeOK /\ Handed /\ Once /\ Calm
  BY TypeInit, HandedInit
<1> QED
  BY <1>1, <1>2, PTL DEF Spec

(* While the 30 s last, a request is handed to the kernel once, unless a   *)
(* send was left to it or start was called again (Poll).                   *)
THEOREM RequestSentOnce == Spec => []SentOnce
<1>1. TypeOK /\ Handed /\ Once /\ Calm => SentOnce
  <2> SUFFICES ASSUME TypeOK, Once PROVE SentOnce
    OBVIOUS
  <2>1. copies \in Nat /\ starts \in Nat
    BY AsyncAssumption DEF TypeOK
  <2> QED
    BY <2>1 DEF Once, SentOnce
<1> QED
  BY <1>1, Sending, PTL

-----------------------------------------------------------------------------
\* Only a receive that finds the end of the stream and nothing before it finishes.
LEMMA WholeStep ==
    ASSUME TypeOK, Handed, FinishedWhole, [Next]_vars
    PROVE  FinishedWhole'
<1>a. MaxSends \in Nat /\ MaxSends > 1 /\ RecvMax \in Nat /\ RecvMax > 0 /\ Total \in Nat
  BY AsyncAssumption
<1>0. copies \in Nat /\ sent \in Nat /\ response \in Nat /\ response <= sent
  BY <1>a DEF TypeOK
<1>1. CASE Start \/ PollConnect
  <2>1. connection_state' = 1 \/ connection_state' = connection_state
    BY <1>1 DEF Start, PollConnect, Connect
  <2> QED
    BY <1>1, <2>1 DEF Start, PollConnect, Connect, FinishedWhole, peer
<1>2. CASE PollSend \/ PollResult
  <2>1. connection_state' \in {1, 2}
    BY <1>2 DEF PollSend, PollResult, Handed
  <2> QED
    BY <2>1 DEF FinishedWhole
<1>3. CASE Reconnect \/ PollTimely
  BY <1>3 DEF Reconnect, PollTimely, FinishedWhole, kernel, peer
<1>4. CASE PollRecv
  <2>1. copies > 0 /\ UNCHANGED <<copies, closed, sent>>
    BY <1>4 DEF PollRecv, Handed, kernel, peer
  <2>2. AtMost(sent - response, RecvMax) = 0 => response = sent
    BY <1>0, <1>a DEF AtMost
  <2>3. AtMost(sent - response, RecvMax) \in Nat
    BY <1>0, <1>a, AtMostBounds
  <2>4. connection_state' = 3 => closed /\ AtMost(sent - response, RecvMax) = 0 /\ response' = response
    BY <1>4, <1>0, <2>3 DEF PollRecv
  <2> QED
    BY <2>1, <2>2, <2>4 DEF FinishedWhole
<1>5. CASE Delete \/ Expire \/ Establish \/ Refuse \/ PeerResets \/ CompleteSend
  BY <1>5 DEF Delete, Expire, Establish, Refuse, PeerResets, CompleteSend, FinishedWhole, lua, kernel, peer
<1>6. CASE PeerSends \/ PeerCloses
  BY <1>6 DEF PeerSends, PeerCloses, FinishedWhole, lua, kernel
<1>7. CASE UNCHANGED vars
  BY <1>7 DEF FinishedWhole, vars, lua, kernel, peer
<1> QED
  BY <1>1, <1>2, <1>3, <1>4, <1>5, <1>6, <1>7 DEF Next, Poll

(* poll says true only for a whole answer to a request that was sent,      *)
(* however the peer cut it and whatever became of the sends (Poll, Recv).  *)
THEOREM FinishedIsWhole == Spec => []FinishedWhole
<1>1. Init => FinishedWhole
  BY DEF Init, FinishedWhole
<1>2. TypeOK /\ Handed /\ Once /\ Calm /\ FinishedWhole /\ [Next]_vars => FinishedWhole'
  BY WholeStep
<1> QED
  BY <1>1, <1>2, Sending, PTL DEF Spec

-----------------------------------------------------------------------------
\* Only Connect and Delete replace a buffer.
LEMMA LiveStep ==
    ASSUME TypeOK, Handed, Calm, BuffersLive, [Next]_vars
    PROVE  BuffersLive'
<1>0. starts \in Nat
  BY AsyncAssumption DEF TypeOK
<1>s. under_way \in Seq(BOOLEAN)
  BY DEF TypeOK
<1>1. CASE Start
  <2>1. CASE starts = 0
    BY <1>1, <2>1 DEF Start, Connect, Handed, BuffersLive
  <2>2. CASE starts # 0
    BY <1>1, <1>0, <2>2 DEF Start, BuffersLive
  <2> QED
    BY <2>1, <2>2
<1>2. CASE PollConnect
  <2>1. UNCHANGED <<starts, expired, valid>> /\ connection_state = 0
    BY <1>2 DEF PollConnect
  <2>2. under_way = <<>> => under_way' = <<>>
    BY <1>2 DEF PollConnect, Connect
  <2>3. CASE expired \/ starts > 1
    BY <2>1, <2>3 DEF BuffersLive
  <2>4. CASE ~expired /\ starts <= 1
    BY <2>1, <2>2, <2>4 DEF BuffersLive, Calm
  <2> QED
    BY <1>0, <2>3, <2>4
<1>3. CASE PollSend
  <2>1. UNCHANGED <<starts, expired, valid>>
    BY <1>3 DEF PollSend
  <2>2. under_way' = under_way \/ under_way' = Append(under_way, TRUE)
    BY <1>3 DEF PollSend
  <2>3. \A i \in DOMAIN under_way' : under_way'[i] \/ (i \in DOMAIN under_way /\ under_way'[i] = under_way[i])
    <3>1. CASE under_way' = under_way
      BY <3>1
    <3>2. CASE under_way' = Append(under_way, TRUE)
      <4>1. /\ Len(under_way) \in Nat /\ DOMAIN under_way = 1 .. Len(under_way)
            /\ DOMAIN under_way' = 1 .. Len(under_way) + 1
            /\ under_way'[Len(under_way) + 1] = TRUE
            /\ \A i \in 1 .. Len(under_way) : under_way'[i] = under_way[i]
        BY <1>s, <3>2
      <4> QED
        BY <4>1
    <3> QED
      BY <2>2, <3>1, <3>2
  <2> QED
    BY <2>1, <2>3 DEF BuffersLive
<1>4. CASE Delete
  BY <1>4 DEF Delete, BuffersLive
<1>5. CASE CompleteSend
  <2>1. UNCHANGED <<starts, expired, valid>> /\ under_way # <<>> /\ under_way' = Tail(under_way)
    BY <1>5 DEF CompleteSend, lua
  <2>2. \A i \in DOMAIN under_way' : i + 1 \in DOMAIN under_way /\ under_way'[i] = under_way[i + 1]
    BY <1>s, <2>1
  <2> QED
    BY <2>1, <2>2 DEF BuffersLive
<1>6. CASE PollResult \/ Reconnect \/ PollTimely \/ PollRecv
  BY <1>6 DEF PollResult, Reconnect, PollTimely, PollRecv, BuffersLive, kernel
<1>7. CASE Expire
  BY <1>7 DEF Expire, BuffersLive
<1>8. CASE Establish \/ Refuse \/ PeerResets \/ PeerSends \/ PeerCloses
  BY <1>8 DEF Establish, Refuse, PeerResets, PeerSends, PeerCloses, BuffersLive, lua, kernel
<1>9. CASE UNCHANGED vars
  BY <1>9 DEF BuffersLive, vars, lua, kernel
<1> QED
  BY <1>1, <1>2, <1>3, <1>4, <1>5, <1>6, <1>7, <1>8, <1>9 DEF Next, Poll

(* A send under way reads from a buffer that is alive, up to the 30 s, a   *)
(* second start or the finalizer (connection.cpp 133-169).                 *)
THEOREM BuffersStayLive == Spec => []BuffersLive
<1>1. Init => BuffersLive
  BY DEF Init, BuffersLive
<1>2. TypeOK /\ Handed /\ Once /\ Calm /\ BuffersLive /\ [Next]_vars => BuffersLive'
  BY LiveStep
<1> QED
  BY <1>1, <1>2, Sending, PTL DEF Spec

-----------------------------------------------------------------------------
\* The 30 s passed without the end of the answer, and nothing is about to read it.
Missed == expired /\ pc # "read" /\ connection_state # 3

\* No step ends such a connection: every poll that would receive reconnects.
LEMMA MissedStep ==
    ASSUME TypeOK, Handed, Missed, [Next]_vars
    PROVE  Missed'
<1>1. CASE Start \/ PollConnect
  <2>1. connection_state' = 1 \/ connection_state' = connection_state
    BY <1>1 DEF Start, PollConnect, Connect
  <2>2. connection_state' # 3
    BY <2>1 DEF Missed
  <2> QED
    BY <1>1, <2>2, Zenon DEF Start, PollConnect, Missed
<1>2. CASE PollSend \/ PollResult \/ Reconnect
  <2>1. connection_state' \in {0, 1, 2}
    BY <1>2 DEF PollSend, PollResult, Reconnect, Handed
  <2>2. connection_state' # 3
    BY <2>1
  <2>3. pc' \in {"idle", "sent", "receive"}
    BY <1>2 DEF PollSend, PollResult, Reconnect
  <2>4. expired'
    BY <1>2, Zenon DEF PollSend, PollResult, Reconnect, Missed
  <2> QED
    BY <2>2, <2>3, <2>4 DEF Missed
<1>5. CASE PollTimely \/ PollRecv
  BY <1>5 DEF PollTimely, PollRecv, Missed
<1>3. CASE Delete \/ Expire \/ Establish \/ Refuse \/ PeerResets \/ CompleteSend
  BY <1>3 DEF Delete, Expire, Establish, Refuse, PeerResets, CompleteSend, Missed, lua
<1>4. CASE PeerSends \/ PeerCloses \/ UNCHANGED vars
  BY <1>4 DEF PeerSends, PeerCloses, Missed, vars, lua
<1> QED
  BY <1>1, <1>2, <1>3, <1>4, <1>5 DEF Next, Poll

(* A connection that is not finished 30 s after it was made, and not about *)
(* to read, never will be, whatever Lua, the kernel and the peer do        *)
(* (connection.cpp:247).                                                   *)
THEOREM LateIsNever == Spec => LateNeverFinishes
<1>1. TypeOK /\ Handed /\ Once /\ Calm /\ Missed /\ [Next]_vars => Missed'
  BY MissedStep
<1>2. Missed <=> expired /\ pc # "read" /\ connection_state # 3
  BY DEF Missed
<1> QED
  BY <1>1, <1>2, Sending, PTL DEF Spec, LateNeverFinishes
=============================================================================
