------------------------ MODULE ListenerContextProofs ------------------------
(***************************************************************************)
(* Theorems about ListenerContext, for every connection, every peer, every *)
(* handler and every limit that satisfies the module's assumptions.        *)
(***************************************************************************)
EXTENDS ListenerContext, WellFoundedInduction, SequenceTheorems, TLAPS

\* The places inside ReceiveBytes.
InReceive == pc \in {"probe", "peek", "decide", "sleep", "wait", "take"}

\* What ReceiveBytes was told by FIONREAD is still there, unless the peer reset
\* the connection, and recv is called only for what was seen.
Supply ==
    /\ pc = "peek" => can_recv = 0
    /\ pc \in {"peek", "decide", "sleep", "wait", "take"} /\ peer # "rst" => read + can_recv <= arrived
    /\ pc = "take" => Satisfied

\* A read of lua_Request has a whole timeout and no minimum.
Timers ==
    InReceive /\ caller # "receive" =>
        deadline \in Nat /\ Timeout <= deadline /\ max_recv = 0

\* Where a request is: nothing is answered before it ends, and the body is
\* read only behind a whole header that makes sense.
Phases ==
    /\ pc # "handler" => result = "none"
    /\ pc = "body" \/ (InReceive /\ caller = "body") => HeaderFound /\ c.line /\ ~c.badLength

\* A handler that never calls receive(n) has the stream itself in recv_buffer.
Stream == received = <<>> => recv_buffer = SubSeq(c.wire, 1, read)

\* Every request that was returned is the one that is still in recv_buffer.
SameRequest ==
    bodies # {} =>
        /\ HeaderFound
        /\ BodyStart(recv_buffer) - 1 + c.length <= Len(recv_buffer)
        /\ bodies = {Body(recv_buffer)}

\* A request that was in the kernel when it was asked for is read without a wait.
NoWait ==
    ready =>
        /\ WellFormed
        /\ received = <<>>
        /\ InReceive => caller # "receive"
        /\ pc # "handler" => handle
        /\ pc # "handler" /\ peer # "rst" =>
            /\ clock = 0
            /\ RequestEnd <= arrived
            /\ pc \notin {"peek", "sleep", "wait"}
            /\ InReceive => read < RequestEnd
            /\ pc = "decide" => can_recv > 0

\* The inductive invariant.
Inv ==
    /\ TypeOK /\ EachByteOnce /\ ReceiveBounded /\ GivesUpForReason
    /\ Supply /\ Timers /\ Phases /\ Stream /\ SameRequest /\ NoWait

-----------------------------------------------------------------------------

\* What a connection's fields are; the only use of the assumption on Cases.
LEMMA CaseFields ==
    ASSUME NEW x \in Cases
    PROVE  /\ x.wire \in Seq(Cells)
           /\ x.line \in BOOLEAN
           /\ x.badLength \in BOOLEAN
           /\ x.length \in Nat
           /\ \A n \in x.wants : n \in Nat
           /\ \A e \in x.ends : e \in {"fin", "rst"}
           /\ \A i \in 1 .. Len(x.wire) : x.wire[i] \in Cells /\ x.wire[i].v = i
  <1>1. x \in Case /\ \A i \in 1 .. Len(x.wire) : x.wire[i].v = i
    BY CasesAssumption
  <1>2. x.wire \in Seq(Cells)
    BY <1>1 DEF Case
  <1>3. \A i \in 1 .. Len(x.wire) : x.wire[i] \in Cells
    BY <1>2, LenProperties
  <1> QED BY <1>1, <1>2, <1>3 DEF Case

\* Every non-empty set of naturals has a least element.
LEMMA LeastElement ==
    \A S \in SUBSET Nat : S # {} => \E i \in S : \A j \in S : i <= j
  <1> SUFFICES ASSUME NEW S \in SUBSET Nat, S # {}
               PROVE  \E i \in S : \A j \in S : i <= j
    OBVIOUS
  <1> DEFINE Less == OpToRel(<, Nat)
  <1>1. PICK i \in S : \A j \in S : ~(<<j, i>> \in Less)
    BY NatLessThanWellFounded, WFMin
  <1>2. \A j \in S : ~(j < i)
    BY <1>1, Zenon DEF OpToRel
  <1> QED BY <1>2

\* The search for the end of the header: 0, or the first position at which the
\* empty line fits.
LEMMA FindPosition ==
    ASSUME NEW s \in Seq(Cells)
    PROVE  /\ Find(s, CRLFCRLF) \in Nat
           /\ Find(s, CRLFCRLF) # 0 =>
                 /\ Find(s, CRLFCRLF) \in 1 .. Len(s)
                 /\ Matches(s, CRLFCRLF, Find(s, CRLFCRLF))
                 /\ Find(s, CRLFCRLF) + 3 <= Len(s)
                 /\ \A j \in 1 .. Len(s) : Matches(s, CRLFCRLF, j) => Find(s, CRLFCRLF) <= j
           /\ Find(s, CRLFCRLF) = 0 => \A j \in 1 .. Len(s) : ~Matches(s, CRLFCRLF, j)
  <1> DEFINE pat == CRLFCRLF
             hits == {i \in 1 .. Len(s) : Matches(s, pat, i)}
  <1>0. Len(pat) = 4
    BY DEF CRLFCRLF
  <1> HIDE DEF pat
  <1>1. hits \in SUBSET Nat
    OBVIOUS
  <1>2. Find(s, pat) = IF hits = {} THEN 0 ELSE CHOOSE i \in hits : \A j \in hits : i <= j
    BY DEF Find
  <1>3. CASE hits = {}
    BY <1>2, <1>3 DEF pat
  <1>4. CASE hits # {}
    <2> HIDE DEF hits
    <2>1. \E i \in hits : \A j \in hits : i <= j
      BY <1>1, <1>4, LeastElement
    <2>2. Find(s, pat) \in hits /\ \A j \in hits : Find(s, pat) <= j
      BY <1>2, <1>4, <2>1
    <2>3. Find(s, pat) + 3 <= Len(s)
      BY <2>2, <1>0 DEF hits, Matches
    <2> QED BY <2>2, <2>3 DEF hits, pat
  <1> QED BY <1>3, <1>4

\* The end of the header is where it is, however much of the stream follows: a
\* longer sequence has it at the same place, and a shorter one that still holds
\* it too.
LEMMA FindStays ==
    ASSUME NEW s \in Seq(Cells), NEW w \in Seq(Cells), Len(s) <= Len(w),
           \A i \in 1 .. Len(s) : w[i] = s[i]
    PROVE  /\ Find(s, CRLFCRLF) # 0 => Find(w, CRLFCRLF) = Find(s, CRLFCRLF)
           /\ Find(w, CRLFCRLF) # 0 /\ Find(w, CRLFCRLF) + 3 <= Len(s) => Find(s, CRLFCRLF) = Find(w, CRLFCRLF)
  <1> DEFINE pat == CRLFCRLF
             f == Find(s, pat)
             g == Find(w, pat)
  <1>0. Len(pat) = 4
    BY DEF CRLFCRLF
  <1>1. Len(s) \in Nat /\ Len(w) \in Nat
    BY LenProperties
  <1>2. /\ f \in Nat
        /\ f # 0 => f \in 1 .. Len(s) /\ Matches(s, pat, f) /\ f + 3 <= Len(s)
        /\ f # 0 => \A j \in 1 .. Len(s) : Matches(s, pat, j) => f <= j
        /\ f = 0 => \A j \in 1 .. Len(s) : ~Matches(s, pat, j)
    BY FindPosition
  <1>3. /\ g \in Nat
        /\ g # 0 => g \in 1 .. Len(w) /\ Matches(w, pat, g) /\ g + 3 <= Len(w)
        /\ g # 0 => \A j \in 1 .. Len(w) : Matches(w, pat, j) => g <= j
        /\ g = 0 => \A j \in 1 .. Len(w) : ~Matches(w, pat, j)
    BY FindPosition
  <1> HIDE DEF pat, f, g
  <1>4. ASSUME NEW i \in Nat \ {0}, i + 3 <= Len(s)
        PROVE  Matches(s, pat, i) <=> Matches(w, pat, i)
    <2>1. \A j \in 1 .. 4 : s[i + j - 1] = w[i + j - 1]
      BY <1>1, <1>4
    <2> QED BY <2>1, <1>0, <1>1, <1>4 DEF Matches
  <1>5. f # 0 => g = f
    <2> SUFFICES ASSUME f # 0 PROVE g = f
      OBVIOUS
    <2>1. Matches(w, pat, f) /\ f \in 1 .. Len(w)
      BY <1>1, <1>2, <1>4
    <2>2. g # 0 /\ g <= f
      BY <1>3, <2>1
    <2>3. Matches(s, pat, g) /\ g \in 1 .. Len(s)
      BY <1>1, <1>2, <1>3, <1>4, <2>2
    <2> QED BY <1>2, <1>3, <2>2, <2>3
  <1>6. g # 0 /\ g + 3 <= Len(s) => f # 0
    BY <1>1, <1>2, <1>3, <1>4
  <1> QED BY <1>5, <1>6 DEF f, g, pat

-----------------------------------------------------------------------------

\* A slice that ends inside a sequence of cells is a sequence of cells.
LEMMA SliceType ==
    ASSUME NEW s \in Seq(Cells), NEW m \in Nat \ {0}, NEW n \in Int, n <= Len(s)
    PROVE  /\ SubSeq(s, m, n) \in Seq(Cells)
           /\ Len(SubSeq(s, m, n)) = IF m <= n THEN n - m + 1 ELSE 0
           /\ \A i \in 1 .. n - m + 1 : SubSeq(s, m, n)[i] = s[m + i - 1]
  <1>1. \A i \in m .. n : s[i] \in Cells
    BY LenProperties
  <1> QED BY <1>1, SubSeqProperties

\* A piece of the stream: its bytes and their numbers.
LEMMA Piece ==
    ASSUME NEW x \in Cases, NEW m \in Nat, NEW n \in Nat, m + n <= Len(x.wire)
    PROVE  /\ SubSeq(x.wire, m + 1, m + n) \in Seq(Cells)
           /\ Len(SubSeq(x.wire, m + 1, m + n)) = n
           /\ \A i \in 1 .. n : /\ SubSeq(x.wire, m + 1, m + n)[i] = x.wire[m + i]
                                /\ SubSeq(x.wire, m + 1, m + n)[i].v = m + i
  <1>1. /\ x.wire \in Seq(Cells)
        /\ Len(x.wire) \in Nat
        /\ \A i \in 1 .. Len(x.wire) : x.wire[i] \in Cells /\ x.wire[i].v = i
    BY CaseFields, LenProperties
  <1>2. \A i \in m + 1 .. m + n : x.wire[i] \in Cells
    BY <1>1
  <1>3. /\ SubSeq(x.wire, m + 1, m + n) \in Seq(Cells)
        /\ Len(SubSeq(x.wire, m + 1, m + n)) = n
        /\ \A i \in 1 .. n : SubSeq(x.wire, m + 1, m + n)[i] = x.wire[m + i]
    BY <1>1, <1>2, SubSeqProperties
  <1> QED BY <1>1, <1>3

\* The next n bytes of the stream.
Chunk(n) == SubSeq(c.wire, read + 1, read + n)

\* Nothing returned leaves both buffers alone and ends the call, with a failure
\* if it was a request.
LEMMA ReturnNothing ==
    ASSUME TypeOK, Return(<<>>)
    PROVE  /\ recv_buffer' = recv_buffer /\ received' = received
           /\ pc' = "handler"
           /\ caller = "receive" => result' = result
           /\ caller # "receive" => result' \in Failures
  <1>1. received \in Seq(Cells)
    BY DEF TypeOK
  <1>2. received \o <<>> = received
    BY <1>1, ConcatEmptySeq
  <1> QED BY <1>2, Zenon DEF Return, GiveUp, kept, Failures, TypeOK

\* Some bytes returned are kept behind those of before.
LEMMA ReturnSome ==
    ASSUME TypeOK, NEW chunk \in Seq(Cells), Len(chunk) # 0, Return(chunk)
    PROVE  /\ result' = result
           /\ \/ /\ caller = "receive" /\ pc' = "handler"
                 /\ received' = received \o chunk /\ recv_buffer' = recv_buffer
              \/ /\ caller # "receive" /\ pc' = (IF caller = "body" THEN "body" ELSE "header")
                 /\ recv_buffer' = recv_buffer \o chunk /\ received' = received
  <1>1. chunk # <<>>
    BY EmptySeq
  <1> QED BY <1>1, Zenon DEF Return, Kept, kept

\* A step takes the next bytes of the stream, or leaves both buffers alone.
Taken(n) ==
    /\ pc = "take" /\ n \in Nat \ {0} /\ read + n <= arrived
    /\ peer # "rst"
    /\ read' = read + n
    /\ UNCHANGED <<c, network, handle, closed, locals, clock, answers>>
    /\ \/ /\ caller = "receive" /\ pc' = "handler"
          /\ received' = received \o Chunk(n) /\ recv_buffer' = recv_buffer
       \/ /\ caller # "receive" /\ pc' = (IF caller = "body" THEN "body" ELSE "header")
          /\ recv_buffer' = recv_buffer \o Chunk(n) /\ received' = received

\* A step that takes no byte out of the kernel.
Untaken ==
    /\ read' = read /\ recv_buffer' = recv_buffer /\ received' = received
    /\ UNCHANGED c

\* recv takes bytes, or fails on a connection that was reset.
LEMMA TakeOrNot ==
    ASSUME TypeOK, Supply, Take
    PROVE  (\E n \in Nat \ {0} : Taken(n))
           \/ (Untaken /\ peer = "rst" /\ Return(<<>>))
  <1> DEFINE n == IF max_recv # 0 THEN max_recv ELSE can_recv
  <1>1. CASE peer = "rst"
    <2>1. Return(<<>>) /\ UNCHANGED <<c, read>>
      BY <1>1 DEF Take
    <2> QED BY <1>1, <2>1, ReturnNothing DEF Untaken
  <1>2. CASE peer # "rst"
    <2>1. n \in Nat \ {0} /\ read + n <= arrived /\ read \in Nat /\ arrived <= Len(c.wire)
      BY <1>2 DEF Take, Supply, Satisfied, TypeOK
    <2>2. Return(Chunk(n)) /\ read' = read + n /\ pc = "take"
      BY <1>2 DEF Take, Chunk
    <2>3. Chunk(n) \in Seq(Cells) /\ Len(Chunk(n)) = n
      <3>1. c \in Cases /\ read + n <= Len(c.wire)
        <4>1. Len(c.wire) \in Nat /\ c \in Cases /\ arrived \in Nat
          BY CaseFields, LenProperties DEF TypeOK
        <4> HIDE DEF n
        <4> QED BY <4>1, <2>1
      <3> HIDE DEF n
      <3> QED BY <2>1, <3>1, Piece DEF Chunk
    <2>4. UNCHANGED <<c, network, handle, closed, locals, clock, ready, bodies>>
      BY DEF Take
    <2> HIDE DEF n
    <2>5. Taken(n)
      BY <1>2, <2>1, <2>2, <2>3, <2>4, ReturnSome DEF Taken, answers
    <2> QED BY <2>1, <2>5
  <1> QED BY <1>1, <1>2

-----------------------------------------------------------------------------

\* The types hold, and FIONREAD's answer stays true, in every step.
LEMMA TypeStep == TypeOK /\ Supply /\ [Next]_vars => TypeOK' /\ Supply'
  <1> SUFFICES ASSUME TypeOK, Supply, [Next]_vars PROVE TypeOK' /\ Supply'
    OBVIOUS
  <1>0. /\ c \in Cases /\ c.wire \in Seq(Cells) /\ Len(c.wire) \in Nat /\ c.length \in Nat
        /\ \A n \in c.wants : n \in Nat
        /\ \A e \in c.ends : e \in {"fin", "rst"}
        /\ arrived \in Nat /\ read \in Nat /\ read <= arrived /\ arrived <= Len(c.wire)
    BY CaseFields, LenProperties DEF TypeOK
  <1> USE DEF network, socket, kept, locals, answers
  <1>1. CASE Arrive
    <2>1. arrived' \in Nat /\ arrived <= arrived' /\ arrived' <= Len(c.wire)
      BY <1>0, <1>1 DEF Arrive
    <2>2. TypeOK'
      BY <1>0, <1>1, <2>1 DEF Arrive, TypeOK
    <2>3. UNCHANGED <<pc, peer, can_recv, max_recv, read>>
      BY <1>1 DEF Arrive
    <2>4. can_recv \in Nat
      BY DEF TypeOK
    <2>5. pc' = "peek" => can_recv' = 0
      BY <2>3 DEF Supply
    <2>6. read + can_recv <= arrived => read' + can_recv' <= arrived'
      <3>1. can_recv' = can_recv /\ read' = read
        BY <2>3
      <3>2. arrived \in Nat /\ read \in Nat /\ arrived' \in Nat /\ arrived <= arrived'
        BY <1>0, <2>1
      <3> QED BY <3>1, <3>2, <2>4
    <2>7. pc' \in {"peek", "decide", "sleep", "wait", "take"} /\ peer' # "rst" => read' + can_recv' <= arrived'
      BY <2>3, <2>6 DEF Supply
    <2>8. pc' = "take" => Satisfied'
      BY <2>3 DEF Supply, Satisfied
    <2> QED BY <2>2, <2>5, <2>7, <2>8 DEF Supply
  <1>2. CASE PeerEnds
    BY <1>0, <1>2 DEF PeerEnds, TypeOK, Supply, Satisfied, Places, Failures
  <1>3. CASE Probe
    <2>1. CASE Return(<<>>) /\ UNCHANGED can_recv
      BY <1>3, <2>1, ReturnNothing DEF Probe, TypeOK, Supply, Places, Failures
    <2>2. CASE ~(Return(<<>>) /\ UNCHANGED can_recv)
      BY <1>0, <1>3, <2>2 DEF Probe, Buffered, TypeOK, Supply, Satisfied, Places, Failures
    <2> QED BY <2>1, <2>2
  <1>4. CASE Peek
    <2>1. CASE Return(<<>>)
      BY <1>4, <2>1, ReturnNothing DEF Peek, TypeOK, Supply, Places, Failures
    <2>2. CASE ~Return(<<>>)
      BY <1>0, <1>4, <2>2 DEF Peek, TypeOK, Supply, Satisfied, Places, Failures
    <2> QED BY <2>1, <2>2
  <1>5. CASE Decide
    <2>1. CASE Return(<<>>)
      BY <1>5, <2>1, ReturnNothing DEF Decide, TypeOK, Supply, Places, Failures
    <2>2. CASE ~Return(<<>>)
      BY <1>0, <1>5, <2>2 DEF Decide, TypeOK, Supply, Satisfied, Places, Failures
    <2> QED BY <2>1, <2>2
  <1>6. CASE Wake
    BY <1>0, <1>6 DEF Wake, TypeOK, Supply, Satisfied, Places, Failures
  <1>7. CASE Tick
    BY <1>0, <1>7 DEF Tick, TypeOK, Supply, Satisfied, Places, Failures
  <1>8. CASE Take
    <2>1. CASE Untaken /\ peer = "rst" /\ Return(<<>>)
      BY <1>0, <1>8, <2>1, ReturnNothing DEF Take, Untaken, TypeOK, Supply, Places, Failures
    <2>2. ASSUME NEW n \in Nat \ {0}, Taken(n) PROVE TypeOK' /\ Supply'
      <3>1. Chunk(n) \in Seq(Cells)
        BY <1>0, <2>2, Piece DEF Chunk, Taken
      <3>2. recv_buffer' \in Seq(Cells) /\ received' \in Seq(Cells)
        BY <2>2, <3>1, ConcatProperties DEF Taken, TypeOK
      <3>3. pc' \in {"handler", "body", "header"} /\ UNCHANGED <<c, arrived, peer, handle, closed, caller, max_recv, deadline, can_recv, clock, ready, result, bodies>>
        BY <2>2 DEF Taken
      <3>4. read' \in 0 .. arrived'
        BY <1>0, <2>2 DEF Taken
      <3>5. TypeOK'
        BY <3>2, <3>3, <3>4 DEF TypeOK, Places
      <3> QED BY <3>3, <3>5 DEF Supply
    <2> QED BY <1>8, <2>1, <2>2, TakeOrNot
  <1>9. CASE CallRequest
    BY <1>0, <1>9, LimitsAssumption DEF CallRequest, Receive, WellFormed, TypeOK, Supply, Places, Failures, None
  <1>10. CASE Header
    BY <1>0, <1>10, LimitsAssumption DEF Header, HeaderFound, GiveUp, Receive, TypeOK, Supply, Places, Failures, None
  <1>11. CASE ReadBody
    <2>1. CASE Receive("body", 0, Timeout) /\ UNCHANGED <<can_recv, result, bodies>>
      BY <1>11, <2>1, LimitsAssumption DEF ReadBody, Receive, TypeOK, Supply, Places, None
    <2>2. CASE ~(Receive("body", 0, Timeout) /\ UNCHANGED <<can_recv, result, bodies>>)
      <3>1. /\ BodyStart(recv_buffer) - 1 + c.length <= Len(recv_buffer)
            /\ BodyStart(recv_buffer) \in Nat \ {0}
        <4>1. Find(recv_buffer, CRLFCRLF) \in Nat /\ Len(recv_buffer) \in Nat
          BY FindPosition, LenProperties DEF TypeOK
        <4> QED BY <1>0, <1>11, <2>2, <4>1 DEF ReadBody, BodyStart
      <3>2. Body(recv_buffer) \in Seq(Cells)
        BY <1>0, <3>1, SliceType DEF Body, TypeOK
      <3>3. /\ result' = "request" /\ bodies' = bodies \cup {Body(recv_buffer)} /\ pc' = "handler"
            /\ UNCHANGED <<locals, c, network, socket, kept, ready, clock>>
        BY <1>11, <2>2 DEF ReadBody
      <3> HIDE DEF Body
      <3>4. bodies' \subseteq Seq(Cells)
        BY <3>2, <3>3, Zenon DEF TypeOK
      <3> QED BY <3>3, <3>4 DEF TypeOK, Supply, Places
    <2> QED BY <2>1, <2>2
  <1>12. CASE CallReceive
    BY <1>0, <1>12 DEF CallReceive, Receive, TypeOK, Supply, Places, Failures, None
  <1>13. CASE Send
    BY <1>0, <1>13 DEF Send, TypeOK, Supply, Places, Failures
  <1>14. CASE Close
    BY <1>0, <1>14 DEF Close, TypeOK, Supply, Places, Failures
  <1>15. CASE UNCHANGED vars
    BY <1>15 DEF vars, TypeOK, Supply, Satisfied
  <1> QED
    BY <1>1, <1>2, <1>3, <1>4, <1>5, <1>6, <1>7, <1>8, <1>9, <1>10, <1>11, <1>12, <1>13, <1>14, <1>15
    DEF Next, ReceiveBytes, lua_Request

\* Every step takes bytes as Taken says, or none.
LEMMA StepTakes ==
    ASSUME TypeOK, Supply, [Next]_vars
    PROVE  Untaken \/ \E n \in Nat \ {0} : Taken(n)
  <1> USE DEF network, socket, kept, locals, answers, Untaken
  <1>1. CASE Arrive \/ PeerEnds \/ Wake \/ Tick \/ CallRequest \/ CallReceive \/ Send \/ Close
    BY <1>1 DEF Arrive, PeerEnds, Wake, Tick, CallRequest, CallReceive, Send, Close
  <1>2. CASE Probe
    BY <1>2, ReturnNothing DEF Probe
  <1>3. CASE Peek
    BY <1>3, ReturnNothing DEF Peek
  <1>4. CASE Decide
    BY <1>4, ReturnNothing DEF Decide
  <1>5. CASE Take
    BY <1>5, TakeOrNot
  <1>6. CASE Header
    BY <1>6 DEF Header, GiveUp
  <1>7. CASE ReadBody
    BY <1>7 DEF ReadBody
  <1>8. CASE UNCHANGED vars
    BY <1>8 DEF vars
  <1> QED BY <1>1, <1>2, <1>3, <1>4, <1>5, <1>6, <1>7, <1>8 DEF Next, ReceiveBytes, lua_Request

\* Bytes with the numbers m + 1 .. m + n put behind bytes with lower numbers.
LEMMA AppendAscending ==
    ASSUME NEW s \in Seq(Cells), NEW t \in Seq(Cells), NEW m \in Nat, NEW n \in Nat,
           Ascending(s), Numbers(s) \subseteq 1 .. m,
           Len(t) = n, \A i \in 1 .. n : t[i].v = m + i
    PROVE  /\ Ascending(s \o t)
           /\ Numbers(s \o t) = Numbers(s) \cup (m + 1 .. m + n)
           /\ Len(s \o t) = Len(s) + n
  <1> DEFINE u == s \o t
             k == Len(s)
  <1>1. /\ k \in Nat /\ u \in Seq(Cells) /\ Len(u) = k + n
        /\ \A i \in 1 .. k + n : u[i] = IF i <= k THEN s[i] ELSE t[i - k]
    BY ConcatProperties, LenProperties
  <1>2. \A i \in 1 .. k : s[i].v \in 1 .. m
    BY DEF Numbers
  <1>3. \A i, j \in 1 .. k : i < j => s[i].v < s[j].v
    BY DEF Ascending
  <1> HIDE DEF u, k
  <1>4. \A i \in 1 .. k : u[i].v = s[i].v
    BY <1>1
  <1>5. \A i \in k + 1 .. k + n : u[i].v = m + (i - k)
    BY <1>1
  <1>6. ASSUME NEW i \in 1 .. k + n, NEW j \in 1 .. k + n, i < j
        PROVE  u[i].v < u[j].v
    <2>1. CASE j <= k
      BY <1>1, <1>3, <1>4, <1>6, <2>1
    <2>2. CASE i <= k /\ j > k
      <3>1. u[i].v \in 1 .. m
        BY <1>1, <1>2, <1>4, <2>2
      <3>2. u[j].v = m + (j - k) /\ j - k \in Nat /\ j - k >= 1
        BY <1>1, <1>5, <2>2
      <3> QED BY <3>1, <3>2
    <2>3. CASE i > k
      <3>1. u[j].v = m + (j - k) /\ u[i].v = m + (i - k)
        BY <1>1, <1>5, <1>6, <2>3
      <3> QED BY <1>1, <1>6, <3>1
    <2> QED BY <1>1, <1>6, <2>1, <2>2, <2>3
  <1>7. Ascending(u)
    BY <1>1, <1>6 DEF Ascending
  <1>8. Numbers(u) = {u[i].v : i \in 1 .. k + n} /\ Numbers(s) = {s[i].v : i \in 1 .. k}
    BY <1>1 DEF Numbers, k
  <1>9. ASSUME NEW x \in Numbers(u) PROVE x \in Numbers(s) \cup (m + 1 .. m + n)
    <2>1. PICK i \in 1 .. k + n : x = u[i].v
      BY <1>8
    <2>2. CASE i <= k
      <3>1. i \in 1 .. k
        BY <1>1, <2>2
      <3>2. x = s[i].v
        BY <1>4, <2>1, <3>1
      <3> QED BY <1>8, <3>1, <3>2, Zenon
    <2>3. CASE i > k
      <3>1. x = m + (i - k)
        BY <1>1, <1>5, <2>1, <2>3
      <3> QED BY <1>1, <2>3, <3>1
    <2> QED BY <1>1, <2>2, <2>3
  <1>10. ASSUME NEW x \in Numbers(s) \cup (m + 1 .. m + n) PROVE x \in Numbers(u)
    <2>1. CASE x \in Numbers(s)
      <3>1. PICK i \in 1 .. k : x = s[i].v
        BY <1>8, <2>1
      <3> QED BY <1>1, <1>4, <1>8, <3>1
    <2>2. CASE x \in m + 1 .. m + n
      <3>1. x - m + k \in k + 1 .. k + n /\ m + ((x - m + k) - k) = x
        BY <1>1, <2>2
      <3>2. u[x - m + k].v = x /\ x - m + k \in 1 .. k + n
        BY <1>1, <1>5, <3>1
      <3> QED BY <1>8, <3>2
    <2> QED BY <2>1, <2>2
  <1> QED BY <1>1, <1>7, <1>9, <1>10 DEF u, k

\* The bytes of both buffers stay the bytes that were taken.
LEMMA OnceStep == TypeOK /\ Supply /\ EachByteOnce /\ [Next]_vars => EachByteOnce'
  <1> SUFFICES ASSUME TypeOK, Supply, EachByteOnce, [Next]_vars PROVE EachByteOnce'
    OBVIOUS
  <1> DEFINE Numbered(t, m, n) == Len(t) = n /\ \A i \in 1 .. n : t[i].v = m + i
             Appended(s, t, m, n) ==
                 /\ Ascending(s \o t)
                 /\ Numbers(s \o t) = Numbers(s) \cup (m + 1 .. m + n)
                 /\ Len(s \o t) = Len(s) + n
  <1>0. \A s, t \in Seq(Cells) : \A m, n \in Nat :
            Ascending(s) /\ Numbers(s) \subseteq 1 .. m /\ Numbered(t, m, n) => Appended(s, t, m, n)
    BY AppendAscending
  <1>1. CASE Untaken
    BY <1>1 DEF Untaken, EachByteOnce, Ascending, Numbers
  <1>2. ASSUME NEW n \in Nat \ {0}, Taken(n) PROVE EachByteOnce'
    <2>1. /\ c \in Cases /\ read \in Nat /\ n \in Nat
          /\ recv_buffer \in Seq(Cells) /\ received \in Seq(Cells)
          /\ Len(recv_buffer) \in Nat /\ Len(received) \in Nat
      BY LenProperties DEF TypeOK
    <2>2. read + n <= Len(c.wire)
      <3>1. Len(c.wire) \in Nat /\ arrived \in 0 .. Len(c.wire)
        BY CaseFields, LenProperties DEF TypeOK
      <3> QED BY <1>2, <2>1, <3>1 DEF Taken
    <2>3. /\ Chunk(n) \in Seq(Cells) /\ Len(Chunk(n)) = n
          /\ \A i \in 1 .. n : Chunk(n)[i].v = read + i
      <3> DEFINE P(x, m, l) ==
                   /\ SubSeq(x.wire, m + 1, m + l) \in Seq(Cells)
                   /\ Len(SubSeq(x.wire, m + 1, m + l)) = l
                   /\ \A i \in 1 .. l : SubSeq(x.wire, m + 1, m + l)[i].v = m + i
      <3>1. \A x \in Cases : \A m, l \in Nat : m + l <= Len(x.wire) => P(x, m, l)
        BY Piece
      <3> HIDE DEF P
      <3>2. P(c, read, n)
        BY <2>1, <2>2, <3>1
      <3> QED BY <3>2 DEF P, Chunk
    <2>4. /\ Ascending(recv_buffer) /\ Ascending(received)
          /\ Len(recv_buffer) + Len(received) = read
          /\ Numbers(recv_buffer) \cup Numbers(received) = 1 .. read
      BY DEF EachByteOnce
    <2>5. 1 .. read + n = (1 .. read) \cup (read + 1 .. read + n)
      BY <2>1
    <2>6. Numbers(recv_buffer) \subseteq 1 .. read /\ Numbers(received) \subseteq 1 .. read
      BY <2>4, Zenon
    <2>0. Numbered(Chunk(n), read, n)
      BY <2>3, Zenon
    <2>7. read' = read + n
      BY <1>2 DEF Taken
    <2>8. CASE received' = received \o Chunk(n) /\ recv_buffer' = recv_buffer
      <3>1. /\ Ascending(received \o Chunk(n))
            /\ Numbers(received \o Chunk(n)) = Numbers(received) \cup (read + 1 .. read + n)
            /\ Len(received \o Chunk(n)) = Len(received) + n
        <4> HIDE DEF Numbered, Appended
        <4>1. Appended(received, Chunk(n), read, n)
          BY <1>0, <2>1, <2>3, <2>4, <2>6, <2>0
        <4> QED BY <4>1 DEF Appended
      <3>2. Len(recv_buffer') + Len(received') = read'
        <4>1. Len(received') = Len(received) + n /\ Len(recv_buffer') = Len(recv_buffer)
          BY <2>8, <3>1, Zenon
        <4> QED BY <2>1, <2>4, <2>7, <4>1
      <3>3. Numbers(recv_buffer') \cup Numbers(received') = 1 .. read'
        BY <2>4, <2>5, <2>7, <2>8, <3>1, Zenon
      <3>4. Ascending(recv_buffer') /\ Ascending(received')
        BY <2>4, <2>8, <3>1, Zenon
      <3> QED BY <3>2, <3>3, <3>4 DEF EachByteOnce, Ascending, Numbers
    <2>9. CASE recv_buffer' = recv_buffer \o Chunk(n) /\ received' = received
      <3>1. /\ Ascending(recv_buffer \o Chunk(n))
            /\ Numbers(recv_buffer \o Chunk(n)) = Numbers(recv_buffer) \cup (read + 1 .. read + n)
            /\ Len(recv_buffer \o Chunk(n)) = Len(recv_buffer) + n
        <4> HIDE DEF Numbered, Appended
        <4>1. Appended(recv_buffer, Chunk(n), read, n)
          BY <1>0, <2>1, <2>3, <2>4, <2>6, <2>0
        <4> QED BY <4>1 DEF Appended
      <3>2. Len(recv_buffer') + Len(received') = read'
        <4>1. Len(recv_buffer') = Len(recv_buffer) + n /\ Len(received') = Len(received)
          BY <2>9, <3>1, Zenon
        <4> QED BY <2>1, <2>4, <2>7, <4>1
      <3>3. Numbers(recv_buffer') \cup Numbers(received') = 1 .. read'
        BY <2>4, <2>5, <2>7, <2>9, <3>1, Zenon
      <3>4. Ascending(recv_buffer') /\ Ascending(received')
        BY <2>4, <2>9, <3>1, Zenon
      <3> QED BY <3>2, <3>3, <3>4 DEF EachByteOnce, Ascending, Numbers
    <2> QED BY <1>2, <2>8, <2>9 DEF Taken
  <1> QED BY <1>1, <1>2, StepTakes

-----------------------------------------------------------------------------

\* w begins with s.
Begins(s, w) == Len(s) <= Len(w) /\ \A i \in 1 .. Len(s) : w[i] = s[i]

\* A request that is whole in a buffer is the same request in a longer one.
LEMMA SameBody ==
    ASSUME c \in Cases, NEW s \in Seq(Cells), NEW w \in Seq(Cells), Begins(s, w),
           Find(s, CRLFCRLF) # 0
    PROVE  /\ Find(w, CRLFCRLF) = Find(s, CRLFCRLF)
           /\ BodyStart(w) = BodyStart(s)
           /\ BodyStart(s) - 1 + c.length <= Len(s) =>
                /\ BodyStart(w) - 1 + c.length <= Len(w)
                /\ Body(w) = Body(s)
  <1>1. Find(w, CRLFCRLF) = Find(s, CRLFCRLF)
    BY FindStays DEF Begins
  <1>2. BodyStart(w) = BodyStart(s)
    BY <1>1, Zenon DEF BodyStart
  <1>3. BodyStart(s) \in Nat \ {0} /\ c.length \in Nat /\ Len(s) \in Nat /\ Len(w) \in Nat /\ Len(s) <= Len(w)
    BY FindPosition, CaseFields, LenProperties DEF BodyStart, Begins
  <1>4. ASSUME BodyStart(s) - 1 + c.length <= Len(s)
        PROVE  Body(w) = Body(s)
    <2> DEFINE a == BodyStart(s)
               b == BodyStart(s) - 1 + c.length
    <2>1. a \in Nat \ {0} /\ b \in Nat /\ b <= Len(s) /\ b <= Len(w)
      BY <1>3, <1>4
    <2> HIDE DEF a, b
    <2>2. /\ SubSeq(s, a, b) \in Seq(Cells) /\ SubSeq(w, a, b) \in Seq(Cells)
          /\ Len(SubSeq(s, a, b)) = Len(SubSeq(w, a, b))
          /\ Len(SubSeq(s, a, b)) = IF a <= b THEN b - a + 1 ELSE 0
          /\ \A i \in 1 .. b - a + 1 : SubSeq(s, a, b)[i] = s[a + i - 1] /\ SubSeq(w, a, b)[i] = w[a + i - 1]
      BY <2>1, SliceType
    <2>3. \A i \in 1 .. b - a + 1 : s[a + i - 1] = w[a + i - 1]
      BY <1>3, <2>1 DEF Begins
    <2>4. \A i \in 1 .. Len(SubSeq(s, a, b)) : SubSeq(s, a, b)[i] = SubSeq(w, a, b)[i]
      BY <2>1, <2>2, <2>3
    <2>5. SubSeq(s, a, b) = SubSeq(w, a, b)
      BY <2>2, <2>4, SeqEqual
    <2> QED BY <1>2, <2>5, Zenon DEF Body, a, b
  <1>5. BodyStart(s) - 1 + c.length <= Len(s) => BodyStart(w) - 1 + c.length <= Len(w)
    BY <1>2, <1>3
  <1> QED BY <1>1, <1>2, <1>4, <1>5, Zenon

\* recv_buffer only grows at its end.
LEMMA BufferGrows ==
    ASSUME TypeOK, Supply, [Next]_vars
    PROVE  Begins(recv_buffer, recv_buffer') /\ c' = c
  <1>1. recv_buffer \in Seq(Cells) /\ Len(recv_buffer) \in Nat
    BY LenProperties DEF TypeOK
  <1>2. CASE Untaken
    BY <1>1, <1>2 DEF Untaken, Begins
  <1>3. ASSUME NEW n \in Nat \ {0}, Taken(n) PROVE Begins(recv_buffer, recv_buffer') /\ c' = c
    <2>1. CASE recv_buffer' = recv_buffer
      BY <1>1, <1>3, <2>1 DEF Begins, Taken
    <2>2. CASE recv_buffer' = recv_buffer \o Chunk(n)
      <3>1. Chunk(n) \in Seq(Cells)
        <4>1. c \in Cases /\ read \in Nat /\ arrived \in Nat /\ Len(c.wire) \in Nat /\ arrived <= Len(c.wire)
          BY CaseFields, LenProperties DEF TypeOK
        <4>2. read + n <= Len(c.wire)
          BY <1>3, <4>1 DEF Taken
        <4> QED BY <4>1, <4>2, Piece DEF Chunk
      <3> HIDE DEF Chunk
      <3>2. /\ Len(recv_buffer \o Chunk(n)) = Len(recv_buffer) + Len(Chunk(n))
            /\ \A i \in 1 .. Len(recv_buffer) + Len(Chunk(n)) : (recv_buffer \o Chunk(n))[i] =
                  IF i <= Len(recv_buffer) THEN recv_buffer[i] ELSE Chunk(n)[i - Len(recv_buffer)]
        BY <1>1, <3>1, ConcatProperties
      <3>3. Len(Chunk(n)) \in Nat
        BY <3>1, LenProperties
      <3>4. Begins(recv_buffer, recv_buffer \o Chunk(n))
        BY <1>1, <3>2, <3>3 DEF Begins
      <3>5. Begins(recv_buffer, recv_buffer')
        BY <2>2, <3>4, Zenon
      <3> QED BY <1>3, <3>5 DEF Taken
    <2> QED BY <1>3, <2>1, <2>2 DEF Taken
  <1> QED BY <1>2, <1>3, StepTakes DEF Untaken

\* Without receive(n), recv_buffer stays the beginning of the stream.
LEMMA StreamStep == TypeOK /\ Supply /\ Stream /\ [Next]_vars => Stream'
  <1> SUFFICES ASSUME TypeOK, Supply, Stream, [Next]_vars PROVE Stream'
    OBVIOUS
  <1>1. CASE Untaken
    BY <1>1 DEF Untaken, Stream
  <1>2. ASSUME NEW n \in Nat \ {0}, Taken(n) PROVE Stream'
    <2>1. /\ c \in Cases /\ c.wire \in Seq(Cells) /\ read \in Nat /\ arrived \in Nat
          /\ Len(c.wire) \in Nat /\ arrived <= Len(c.wire)
      BY CaseFields, LenProperties DEF TypeOK
    <2>2. read + n <= Len(c.wire)
      BY <1>2, <2>1 DEF Taken
    <2>3. Chunk(n) \in Seq(Cells) /\ Len(Chunk(n)) = n
      BY <2>1, <2>2, Piece DEF Chunk
    <2>4. CASE received' = received \o Chunk(n)
      <3> HIDE DEF Chunk
      <3>1. received \in Seq(Cells) /\ Len(received) \in Nat
        BY LenProperties DEF TypeOK
      <3>2. Len(received \o Chunk(n)) = Len(received) + n
        BY <2>3, <3>1, ConcatProperties
      <3>3. Len(received \o Chunk(n)) # 0
        BY <3>1, <3>2
      <3>4. received \o Chunk(n) # <<>>
        BY <3>3, EmptySeq
      <3> QED BY <2>4, <3>4, Zenon DEF Stream
    <2>5. CASE recv_buffer' = recv_buffer \o Chunk(n) /\ received' = received
      <3>1. SubSeq(c.wire, 1, read) \o Chunk(n) = SubSeq(c.wire, 1, read + n)
        BY <2>1, <2>2, ConcatAdjacentSubSeq DEF Chunk
      <3>2. c' = c /\ read' = read + n
        BY <1>2 DEF Taken
      <3> QED BY <2>5, <3>1, <3>2, Zenon DEF Stream
    <2> QED BY <1>2, <2>4, <2>5 DEF Taken
  <1> QED BY <1>1, <1>2, StepTakes

-----------------------------------------------------------------------------

\* A header that was found stays found.
LEMMA HeaderStays ==
    ASSUME TypeOK, TypeOK', Supply, [Next]_vars, HeaderFound
    PROVE  HeaderFound'
  <1>1. recv_buffer \in Seq(Cells) /\ recv_buffer' \in Seq(Cells) /\ c \in Cases
    BY DEF TypeOK
  <1>2. Begins(recv_buffer, recv_buffer')
    BY BufferGrows
  <1>3. Find(recv_buffer', CRLFCRLF) = Find(recv_buffer, CRLFCRLF)
    BY <1>1, <1>2, SameBody DEF HeaderFound
  <1> QED BY <1>3 DEF HeaderFound

\* The timers and the place of a request, in every step.
LEMMA PhaseStep ==
    TypeOK /\ TypeOK' /\ Supply /\ ReceiveBounded /\ Timers /\ Phases /\ [Next]_vars
        => ReceiveBounded' /\ Timers' /\ Phases'
  <1> SUFFICES ASSUME TypeOK, TypeOK', Supply, ReceiveBounded, Timers, Phases, [Next]_vars
               PROVE  ReceiveBounded' /\ Timers' /\ Phases'
    OBVIOUS
  <1>0. /\ clock \in Nat /\ deadline \in Nat \cup {None} /\ Timeout \in Nat /\ Timeout # 0
        /\ deadline' \in Nat \cup {None} /\ clock' \in Nat
    BY LimitsAssumption DEF TypeOK
  <1>a. HeaderFound => HeaderFound'
    BY HeaderStays
  <1>b. c' = c
    BY BufferGrows
  <1> HIDE DEF HeaderFound
  <1> USE DEF network, socket, kept, locals, answers, InReceive, ReceiveBounded, Timers, Phases
  <1>1. CASE Arrive \/ PeerEnds \/ Wake \/ Send \/ Close \/ UNCHANGED vars
    BY <1>0, <1>a, <1>b, <1>1 DEF Arrive, PeerEnds, Wake, Send, Close, vars
  <1>2. CASE Tick
    BY <1>0, <1>a, <1>b, <1>2 DEF Tick, MayWait
  <1>3. CASE Probe
    <2>1. CASE Return(<<>>)
      BY <1>3, <2>1, ReturnNothing
    <2>2. CASE ~Return(<<>>)
      BY <1>a, <1>b, <1>3, <2>2 DEF Probe
    <2> QED BY <2>1, <2>2
  <1>4. CASE Peek
    <2>1. CASE Return(<<>>)
      BY <1>4, <2>1, ReturnNothing
    <2>2. CASE ~Return(<<>>)
      BY <1>a, <1>b, <1>4, <2>2 DEF Peek
    <2> QED BY <2>1, <2>2
  <1>5. CASE Decide
    <2>1. CASE Return(<<>>)
      BY <1>5, <2>1, ReturnNothing
    <2>2. CASE ~Return(<<>>)
      BY <1>a, <1>b, <1>5, <2>2 DEF Decide
    <2> QED BY <2>1, <2>2
  <1>6. CASE Take
    <2>1. CASE Return(<<>>)
      BY <2>1, ReturnNothing
    <2>2. ASSUME NEW n \in Nat \ {0}, Taken(n) PROVE ReceiveBounded' /\ Timers' /\ Phases'
      <3>1. /\ pc = "take" /\ UNCHANGED <<deadline, clock, result>>
            /\ pc' = "handler" \/ (caller # "receive" /\ pc' = IF caller = "body" THEN "body" ELSE "header")
        BY <2>2 DEF Taken
      <3> QED BY <1>0, <1>a, <1>b, <3>1
    <2> QED BY <1>6, <2>1, <2>2, TakeOrNot
  <1>7. CASE CallRequest
    BY <1>0, <1>7 DEF CallRequest, Receive, None
  <1>8. CASE Header
    BY <1>0, <1>a, <1>b, <1>8 DEF Header, Receive, GiveUp, None
  <1>9. CASE ReadBody
    BY <1>0, <1>a, <1>b, <1>9 DEF ReadBody, Receive, None
  <1>10. CASE CallReceive
    BY <1>0, <1>10 DEF CallReceive, Receive, None
  <1> QED
    BY <1>1, <1>2, <1>3, <1>4, <1>5, <1>6, <1>7, <1>8, <1>9, <1>10
    DEF Next, ReceiveBytes, lua_Request

\* Only a request that is in recv_buffer, whole, is returned.
LEMMA BodiesStep ==
    ASSUME TypeOK, Supply, [Next]_vars
    PROVE  \/ bodies' = bodies
           \/ /\ pc = "body" /\ recv_buffer' = recv_buffer /\ c' = c
              /\ BodyStart(recv_buffer) - 1 + c.length <= Len(recv_buffer)
              /\ bodies' = bodies \cup {Body(recv_buffer)}
  <1> USE DEF network, socket, kept, locals, answers
  <1>1. CASE ReadBody
    <2>1. Find(recv_buffer, CRLFCRLF) \in Nat /\ Len(recv_buffer) \in Nat /\ c.length \in Nat
      BY FindPosition, LenProperties, CaseFields DEF TypeOK
    <2>2. CASE Len(recv_buffer) - (BodyStart(recv_buffer) - 1) < c.length
      BY <1>1, <2>2 DEF ReadBody
    <2>3. CASE ~(Len(recv_buffer) - (BodyStart(recv_buffer) - 1) < c.length)
      <3>1. BodyStart(recv_buffer) - 1 + c.length <= Len(recv_buffer)
        BY <2>1, <2>3 DEF BodyStart
      <3>2. pc = "body" /\ recv_buffer' = recv_buffer /\ c' = c /\ bodies' = bodies \cup {Body(recv_buffer)}
        BY <1>1, <2>3, Zenon DEF ReadBody
      <3> QED BY <3>1, <3>2, Zenon
    <2> QED BY <2>2, <2>3
  <1>2. CASE Take
    <2>1. bodies' = bodies
      BY <1>2 DEF Take
    <2> QED BY <2>1
  <1>3. CASE ~ReadBody /\ ~Take
    <2>1. bodies' = bodies
      BY <1>3 DEF Next, ReceiveBytes, lua_Request, Arrive, PeerEnds, Probe, Peek, Decide, Wake, Tick,
         CallRequest, Header, CallReceive, Send, Close, vars
    <2> QED BY <2>1
  <1> QED BY <1>1, <1>2, <1>3

\* A request that was delivered stays the one that was found.
LEMMA SameStep ==
    TypeOK /\ TypeOK' /\ Supply /\ Phases /\ SameRequest /\ [Next]_vars => SameRequest'
  <1> SUFFICES ASSUME TypeOK, TypeOK', Supply, Phases, SameRequest, [Next]_vars
               PROVE  SameRequest'
    OBVIOUS
  <1>1. recv_buffer \in Seq(Cells) /\ recv_buffer' \in Seq(Cells) /\ c \in Cases /\ c' = c
    BY BufferGrows DEF TypeOK
  <1>2. Begins(recv_buffer, recv_buffer')
    BY BufferGrows
  <1>3. CASE bodies' = bodies
    <2> SUFFICES ASSUME bodies' # {} PROVE SameRequest'
      BY DEF SameRequest
    <2>1. /\ Find(recv_buffer, CRLFCRLF) # 0
          /\ BodyStart(recv_buffer) - 1 + c.length <= Len(recv_buffer)
          /\ bodies = {Body(recv_buffer)}
      BY <1>3 DEF SameRequest, HeaderFound
    <2>2. /\ Find(recv_buffer', CRLFCRLF) = Find(recv_buffer, CRLFCRLF)
          /\ BodyStart(recv_buffer') - 1 + c.length <= Len(recv_buffer')
          /\ Body(recv_buffer') = Body(recv_buffer)
      BY <1>1, <1>2, <2>1, SameBody
    <2>3. /\ BodyStart(recv_buffer)' = BodyStart(recv_buffer')
          /\ Body(recv_buffer)' = Body(recv_buffer')
      BY <1>1 DEF BodyStart, Body
    <2> QED BY <1>1, <1>3, <2>1, <2>2, <2>3 DEF SameRequest, HeaderFound
  <1>4. CASE /\ pc = "body" /\ recv_buffer' = recv_buffer
             /\ BodyStart(recv_buffer) - 1 + c.length <= Len(recv_buffer)
             /\ bodies' = bodies \cup {Body(recv_buffer)}
    <2>1. HeaderFound
      BY <1>4 DEF Phases
    <2>2. bodies' = {Body(recv_buffer)}
      BY <1>4, Zenon DEF SameRequest
    <2>3. /\ BodyStart(recv_buffer)' = BodyStart(recv_buffer)
          /\ Body(recv_buffer)' = Body(recv_buffer)
      BY <1>1, <1>4 DEF BodyStart, Body
    <2> QED BY <1>1, <1>4, <2>1, <2>2, <2>3 DEF SameRequest, HeaderFound
  <1> QED BY <1>3, <1>4, BodiesStep

-----------------------------------------------------------------------------

\* How much of a well-formed request is in recv_buffer, if all that was read is.
LEMMA HowFar ==
    ASSUME TypeOK, Stream, WellFormed, received = <<>>
    PROVE  /\ Len(recv_buffer) = read
           /\ RequestEnd \in Nat \ {0}
           /\ HeaderFound => BodyStart(recv_buffer) - 1 + c.length = RequestEnd
           /\ HeaderFound => BodyStart(recv_buffer) \in Nat
           /\ ~HeaderFound => read < HeaderMax /\ read < RequestEnd
  <1> DEFINE h == Find(c.wire, CRLFCRLF)
  <1>1. /\ c \in Cases /\ c.wire \in Seq(Cells) /\ Len(c.wire) \in Nat /\ c.length \in Nat
        /\ read \in Nat /\ read <= Len(c.wire) /\ HeaderMax \in Nat
        /\ recv_buffer \in Seq(Cells)
    <2>1. c \in Cases /\ c.wire \in Seq(Cells) /\ Len(c.wire) \in Nat /\ c.length \in Nat
      BY CaseFields, LenProperties DEF TypeOK
    <2> QED BY <2>1, LimitsAssumption DEF TypeOK
  <1>2. recv_buffer = SubSeq(c.wire, 1, read)
    BY DEF Stream
  <1>3. /\ Len(SubSeq(c.wire, 1, read)) = read
        /\ \A i \in 1 .. read : SubSeq(c.wire, 1, read)[i] = c.wire[i]
    BY <1>1, SliceType
  <1>4. Len(recv_buffer) = read /\ \A i \in 1 .. read : c.wire[i] = recv_buffer[i]
    BY <1>2, <1>3, Zenon
  <1>5. h \in Nat /\ h # 0 /\ h + 3 <= HeaderMax
    BY <1>1, FindPosition DEF WellFormed
  <1>6. RequestEnd = h + 3 + c.length
    BY <1>1, <1>5 DEF RequestEnd, BodyStart
  <1>7. HeaderFound => Find(recv_buffer, CRLFCRLF) = h
    BY <1>1, <1>4, FindStays DEF HeaderFound
  <1>8. h + 3 <= read => HeaderFound
    BY <1>1, <1>4, <1>5, FindStays DEF HeaderFound
  <1> HIDE DEF h
  <1>9. HeaderFound => BodyStart(recv_buffer) = h + 4
    BY <1>7 DEF BodyStart
  <1> QED BY <1>1, <1>4, <1>5, <1>6, <1>8, <1>9

\* A request that can be answered at once is, and none is given up without a reason.
LEMMA ReadyStep ==
    TypeOK /\ TypeOK' /\ Supply /\ Timers /\ Phases /\ Stream /\ GivesUpForReason /\ NoWait /\ [Next]_vars
        => GivesUpForReason' /\ NoWait'
  <1> SUFFICES ASSUME TypeOK, TypeOK', Supply, Timers, Phases, Stream,
                      GivesUpForReason, NoWait, [Next]_vars
               PROVE  GivesUpForReason' /\ NoWait'
    OBVIOUS
  <1>0. /\ clock \in Nat /\ Timeout \in Nat /\ Timeout # 0 /\ HeaderMax \in Nat
        /\ read \in Nat /\ arrived \in Nat /\ can_recv \in Nat /\ c.length \in Nat
        /\ read' \in Nat /\ arrived' \in Nat
    <2>1. c \in Cases /\ arrived \in 0 .. Len(c.wire) /\ arrived' \in 0 .. Len(c'.wire)
      BY DEF TypeOK
    <2>2. c.length \in Nat
      BY <2>1, CaseFields
    <2> QED BY <2>1, <2>2, LimitsAssumption DEF TypeOK
  <1>a. c' = c /\ (WellFormed' <=> WellFormed) /\ RequestEnd' = RequestEnd
    <2>1. c' = c
      BY BufferGrows
    <2> QED BY <2>1 DEF WellFormed, RequestEnd, BodyStart
  <1>b. WellFormed /\ received = <<>> =>
           /\ Len(recv_buffer) = read
           /\ RequestEnd \in Nat \ {0}
           /\ HeaderFound => BodyStart(recv_buffer) - 1 + c.length = RequestEnd
           /\ HeaderFound => BodyStart(recv_buffer) \in Nat
           /\ ~HeaderFound => read < HeaderMax /\ read < RequestEnd
    BY HowFar
  <1>c. WellFormed => c.line /\ ~c.badLength
    BY DEF WellFormed
  <1>d. InReceive /\ caller # "receive" => deadline \in Nat /\ Timeout <= deadline /\ max_recv = 0
    BY DEF Timers
  <1>e. pc # "handler" => result = "none"
    BY DEF Phases
  <1> HIDE DEF HeaderFound, RequestEnd, WellFormed, BodyStart
  <1> USE DEF network, socket, kept, locals, answers, InReceive, GivesUpForReason, NoWait, Failures
  <1>1. CASE Arrive
    BY <1>0, <1>a, <1>b, <1>1 DEF Arrive
  <1>2. CASE PeerEnds
    BY <1>0, <1>a, <1>b, <1>2 DEF PeerEnds
  <1>3. CASE Probe
    <2>1. CASE Return(<<>>) /\ (~handle \/ peer = "rst")
      BY <1>a, <1>e, <1>3, <2>1, ReturnNothing DEF Probe
    <2>2. CASE ~(Return(<<>>) /\ (~handle \/ peer = "rst"))
      BY <1>0, <1>a, <1>b, <1>3, <2>2 DEF Probe, Buffered
    <2> QED BY <2>1, <2>2
  <1>4. CASE Peek
    <2>1. CASE Return(<<>>) /\ peer # "open"
      BY <1>a, <1>e, <1>4, <2>1, ReturnNothing DEF Peek
    <2>2. CASE ~(Return(<<>>) /\ peer # "open")
      BY <1>0, <1>a, <1>4, <2>2 DEF Peek
    <2> QED BY <2>1, <2>2
  <1>5. CASE Decide
    <2>1. CASE Return(<<>>) /\ ~Satisfied /\ DeadlinePassed
      BY <1>0, <1>a, <1>d, <1>e, <1>5, <2>1, ReturnNothing DEF Decide, DeadlinePassed, Satisfied
    <2>2. CASE ~(Return(<<>>) /\ ~Satisfied /\ DeadlinePassed)
      BY <1>0, <1>a, <1>b, <1>d, <1>5, <2>2 DEF Decide, Satisfied
    <2> QED BY <2>1, <2>2
  <1>6. CASE Wake
    BY <1>0, <1>a, <1>6 DEF Wake
  <1>7. CASE Tick
    BY <1>0, <1>a, <1>7 DEF Tick
  <1>8. CASE Take
    <2>1. CASE Untaken /\ peer = "rst" /\ Return(<<>>)
      BY <1>a, <1>e, <1>8, <2>1, ReturnNothing DEF Take, Untaken
    <2>2. ASSUME NEW n \in Nat \ {0}, Taken(n) PROVE GivesUpForReason' /\ NoWait'
      <3>1. /\ pc = "take" /\ UNCHANGED <<arrived, peer, handle, clock, ready, result>>
            /\ \/ caller = "receive" /\ pc' = "handler"
               \/ caller # "receive" /\ pc' \in {"body", "header"} /\ received' = received
        BY <2>2 DEF Taken
      <3> QED BY <1>a, <1>e, <3>1
    <2> QED BY <1>8, <2>1, <2>2, TakeOrNot
  <1>9. CASE CallRequest
    <2>1. recv_buffer = <<>> => Len(recv_buffer) = 0
      BY EmptySeq
    <2>2. /\ clock' = 0 /\ pc' # "handler" /\ UNCHANGED <<handle, received, arrived, peer, read>>
          /\ \/ recv_buffer = <<>> /\ pc' = "probe" /\ caller' = "first"
             \/ pc' = "header"
      BY <1>9 DEF CallRequest, Receive
    <2>3. ready' => WellFormed /\ received = <<>> /\ handle /\ arrived >= RequestEnd
      BY <1>9 DEF CallRequest
    <2>4. GivesUpForReason'
      BY <2>2
    <2>5. ready' /\ InReceive' => read' < RequestEnd /\ caller' = "first"
      BY <1>0, <1>b, <2>1, <2>2, <2>3
    <2>6. ready' => RequestEnd <= arrived'
      BY <1>0, <1>b, <2>2, <2>3
    <2> QED BY <1>a, <2>2, <2>3, <2>4, <2>5, <2>6
  <1>10. CASE Header
    BY <1>0, <1>a, <1>b, <1>c, <1>10 DEF Header, Receive, GiveUp
  <1>11. CASE ReadBody
    <2>1. pc = "body" => HeaderFound
      BY DEF Phases
    <2>2. CASE Len(recv_buffer) - (BodyStart(recv_buffer) - 1) < c.length
      BY <1>0, <1>a, <1>b, <1>11, <2>1, <2>2 DEF ReadBody, Receive
    <2>3. CASE ~(Len(recv_buffer) - (BodyStart(recv_buffer) - 1) < c.length)
      <3>1. result' = "request" /\ pc = "body" /\ pc' = "handler" /\ UNCHANGED <<clock, ready, peer, arrived, received>>
        BY <1>11, <2>3 DEF ReadBody
      <3> QED BY <1>a, <3>1
    <2> QED BY <2>2, <2>3
  <1>12. CASE CallReceive
    BY <1>12 DEF CallReceive, Receive
  <1>13. CASE Send
    BY <1>a, <1>13 DEF Send
  <1>14. CASE Close
    BY <1>a, <1>14 DEF Close
  <1>15. CASE UNCHANGED vars
    BY <1>a, <1>15 DEF vars
  <1> QED
    BY <1>1, <1>2, <1>3, <1>4, <1>5, <1>6, <1>7, <1>8, <1>9, <1>10, <1>11, <1>12, <1>13, <1>14, <1>15
    DEF Next, ReceiveBytes, lua_Request

-----------------------------------------------------------------------------

\* A new connection satisfies the invariant.
LEMMA InvInit == Init => Inv
  <1> SUFFICES ASSUME Init PROVE Inv
    OBVIOUS
  <1>1. c \in Cases /\ c.wire \in Seq(Cells) /\ Len(c.wire) \in Nat
    BY CaseFields, LenProperties DEF Init
  <1>2. <<>> \in Seq(Cells) /\ Len(<<>>) = 0
    BY EmptySeq
  <1>3. TypeOK
    <2>1. arrived \in 0 .. Len(c.wire) /\ read \in 0 .. arrived
      BY <1>1 DEF Init
    <2>2. recv_buffer \in Seq(Cells) /\ received \in Seq(Cells) /\ bodies \subseteq Seq(Cells)
      BY <1>2 DEF Init
    <2>3. deadline \in Nat \cup {None} /\ max_recv \in Nat /\ can_recv \in Nat /\ clock \in Nat
      BY DEF Init
    <2>4. pc \in Places /\ result \in Failures \cup {"none", "request", "malformed", "length"}
      BY DEF Init, Places
    <2>5. handle \in BOOLEAN /\ closed \in BOOLEAN /\ ready \in BOOLEAN
      BY DEF Init
    <2> QED BY <1>1, <2>1, <2>2, <2>3, <2>4, <2>5 DEF Init, TypeOK
  <1>4. EachByteOnce
    BY <1>2 DEF Init, EachByteOnce, Ascending, Numbers
  <1>5. Stream
    <2>1. SubSeq(c.wire, 1, 0) = <<>>
      BY SubSeqEmpty
    <2> QED BY <2>1 DEF Init, Stream
  <1>6. Supply /\ Timers /\ Phases /\ SameRequest /\ NoWait /\ ReceiveBounded /\ GivesUpForReason
    BY DEF Init, Supply, Timers, Phases, SameRequest, NoWait, ReceiveBounded, GivesUpForReason, InReceive, Failures
  <1> QED BY <1>3, <1>4, <1>5, <1>6 DEF Inv

\* Every step preserves the invariant: the lemmas above, one per conjunct.
LEMMA InvStep == Inv /\ [Next]_vars => Inv'
  BY TypeStep, OnceStep, StreamStep, PhaseStep, SameStep, ReadyStep DEF Inv

\* The invariant holds always.
LEMMA InvAlways == Spec => []Inv
  BY InvInit, InvStep, PTL DEF Spec

\* Type correctness, for every connection: every variable keeps its type, and recv
\* is never called for bytes that have not arrived.
THEOREM TypeCorrect == Spec => []TypeOK
  <1>1. Inv => TypeOK
    BY DEF Inv
  <1> QED BY <1>1, InvAlways, PTL

\* Every byte taken from the kernel is in recv_buffer or was returned by
\* receive(n), once and in order, whatever calls failed in between.
THEOREM BytesKeptOnce == Spec => []EachByteOnce
  <1>1. Inv => EachByteOnce
    BY DEF Inv
  <1> QED BY <1>1, InvAlways, PTL

\* A read of a request does not outlast its timeout.
THEOREM ReceivesAreBounded == Spec => []ReceiveBounded
  <1>1. Inv => ReceiveBounded
    BY DEF Inv
  <1> QED BY <1>1, InvAlways, PTL

\* A request is given up only for a reason, and one that was in the kernel before
\* the call is returned without a wait, for every cut of the stream.
THEOREM GivesUpOnlyForReason == Spec => []GivesUpForReason
  <1>1. Inv => GivesUpForReason
    BY DEF Inv
  <1> QED BY <1>1, InvAlways, PTL

\* client.request returns exactly the peer's request, the same one every time.
THEOREM RequestIsExact == Spec => []RequestExact
  <1>1. ASSUME Inv PROVE RequestExact
    <2>1. \A x, y \in bodies : x = y
      BY <1>1 DEF Inv, SameRequest
    <2>2. ASSUME received = <<>>, NEW body \in bodies
          PROVE  RequestEnd <= Len(c.wire) /\ body = SubSeq(c.wire, BodyStart(c.wire), RequestEnd)
      <3>1. /\ c \in Cases /\ c.wire \in Seq(Cells) /\ Len(c.wire) \in Nat
            /\ recv_buffer \in Seq(Cells) /\ read \in Nat /\ read <= Len(c.wire)
        <4>1. c \in Cases /\ c.wire \in Seq(Cells) /\ Len(c.wire) \in Nat
          BY <1>1, CaseFields, LenProperties DEF Inv, TypeOK
        <4> QED BY <1>1, <4>1 DEF Inv, TypeOK
      <3>2. recv_buffer = SubSeq(c.wire, 1, read)
        BY <1>1, <2>2 DEF Inv, Stream
      <3>3. /\ Len(SubSeq(c.wire, 1, read)) = read
            /\ \A i \in 1 .. read : SubSeq(c.wire, 1, read)[i] = c.wire[i]
        BY <3>1, SliceType
      <3>4. Len(recv_buffer) = read /\ \A i \in 1 .. read : c.wire[i] = recv_buffer[i]
        BY <3>2, <3>3, Zenon
      <3>5. Begins(recv_buffer, c.wire)
        BY <3>1, <3>4 DEF Begins
      <3>6. /\ Find(recv_buffer, CRLFCRLF) # 0
            /\ BodyStart(recv_buffer) - 1 + c.length <= Len(recv_buffer)
            /\ body = Body(recv_buffer)
        BY <1>1, <2>2 DEF Inv, SameRequest, HeaderFound
      <3>7. BodyStart(c.wire) - 1 + c.length <= Len(c.wire) /\ Body(c.wire) = Body(recv_buffer)
        BY <3>1, <3>5, <3>6, SameBody
      <3> QED BY <3>6, <3>7, Zenon DEF Body, RequestEnd
    <2> QED BY <2>1, <2>2 DEF RequestExact
  <1> QED BY <1>1, InvAlways, PTL

=============================================================================
