--------------------------------- MODULE Ping ---------------------------------
(***************************************************************************)
(* network.ping (misc/ping.cpp) beside the other sockets of the process:   *)
(* ICMP echoes over a raw socket that is given every ICMP message the host *)
(* receives. An echo carries the tick it was sent at, and its answer       *)
(* carries it back; identifier and sequence number are sent and not        *)
(* compared. Ping starts Winsock and does not clean it up.                 *)
(*                                                                         *)
(* Time is in ticks; Second of them are a second. The checksum and the     *)
(* padding are left out.                                                   *)
(***************************************************************************)
EXTENDS SocketLife, Sequences

CONSTANTS Retries,    \* values of nRetries
          Second,     \* the time of select and of Sleep
          MaxEchoes, MaxClock   \* bounds

ASSUME PingAssumption == Retries \subseteq Nat /\ Second \in Nat \ {0} /\ MaxClock \in Nat

VARIABLES clock,     \* GetTickCount()
          echoes,    \* history: the echoes sent: by which ping, when, and when they were answered
          flying,    \* the echoes on their way, there or back
          queue,     \* the answers each ping's raw socket has to read
          ping,      \* the locals of each ping, and the echo its result is from
          stranger,  \* history: a ping read a message that is no answer, or recvfrom failed
          late       \* history: an answer came when its ping had returned

pingVars == <<clock, echoes, flying, queue, ping, stranger, late>>
processVars == <<lifeVars, pingVars>>

NoPing == [nRetries |-> 0, nLoop |-> 0, since |-> 0, first |-> FALSE, second |-> 0, of |-> 0]

PingInit ==
    /\ LifeInit /\ clock = 0 /\ echoes = <<>> /\ flying = {}
    /\ queue = [i \in Ids |-> <<>>] /\ ping = [i \in Ids |-> NoPing]
    /\ stranger = FALSE /\ late = FALSE

\* WSAStartup, and never a WSACleanup.
Ping(t, i, n) ==
    /\ i \in Unborn /\ Work + 3 <= MaxWork /\ Enters(t, "ping", i)
    /\ obj' = Made(i, "ping", Nobody) /\ winsock' = winsock + 1
    /\ ping' = [ping EXCEPT ![i].nRetries = n]
    /\ UNCHANGED <<count, holder, bases, clock, echoes, flying, queue, stranger, late>>

\* Without a raw socket (it takes an administrator) or an address Ping returns at once; without an
\* address it keeps the raw socket.
PingRefused(t) ==
    /\ IsAt(t, "ping")
    /\ holder' \in {holder} \cup {[holder EXCEPT ![h] = Holding(t)] : h \in Free}
    /\ obj' = [obj EXCEPT ![Holding(t)].at = "gone"] /\ Leaves(t)
    /\ UNCHANGED <<count, winsock, bases, overlapped, pingVars>>

\* Mutated form of PingSocket: one raw socket for all pings, with what the ones before left unread.
PingSocketKept(t) ==
    /\ IsAt(t, "ping")
    /\ \E h \in Free : /\ holder' = [holder EXCEPT ![h] = Holding(t)]
                       /\ obj' = [obj EXCEPT ![Holding(t)].handle = h, ![Holding(t)].at = "live"]
    /\ \E i \in Pings : queue' = [queue EXCEPT ![Holding(t)] = queue[i]]
    /\ Goes(t, "send")
    /\ UNCHANGED <<count, winsock, bases, overlapped, clock, echoes, flying, ping, stranger, late>>

PingSocket(t) ==
    /\ IsAt(t, "ping")
    /\ \E h \in Free : /\ holder' = [holder EXCEPT ![h] = Holding(t)]
                       /\ obj' = [obj EXCEPT ![Holding(t)].handle = h, ![Holding(t)].at = "live"]
    /\ Goes(t, "send")
    /\ UNCHANGED <<count, winsock, bases, overlapped, pingVars>>

lifeButThread == <<count, winsock, holder, obj, bases, overlapped>>

\* An echo leaves, or sendto fails and nobody minds.
SendEchoRequest(t) ==
    /\ IsAt(t, "send") /\ ping[Holding(t)].nLoop < ping[Holding(t)].nRetries
    /\ Len(echoes) < MaxEchoes
    /\ echoes' = Append(echoes, [by |-> Holding(t), sent |-> clock, back |-> 0])
    /\ flying' \in {flying, flying \cup {Len(echoes) + 1}}
    /\ ping' = [ping EXCEPT ![Holding(t)].since = clock] /\ Goes(t, "wait")
    /\ UNCHANGED <<lifeButThread, clock, queue, stranger, late>>

\* select timed out and the next echo is sent at once, or select failed and none is.
WaitEnds(t) ==
    /\ IsAt(t, "wait")
    /\ \/ /\ queue[Holding(t)] = <<>> /\ clock >= ping[Holding(t)].since + Second
          /\ ping' = [ping EXCEPT ![Holding(t)].nLoop = @ + 1]
       \/ ping' = [ping EXCEPT ![Holding(t)].nLoop = ping[Holding(t)].nRetries]
    /\ Goes(t, "send")
    /\ UNCHANGED <<lifeButThread, clock, echoes, flying, queue, stranger, late>>

\* Mutated form of Elapsed: counted from the echo this ping sent last.
ElapsedSinceLast(i, e) == clock - ping[i].since

\* GetTickCount() - dwTime of the answer.
Elapsed(i, e) == clock - echoes[e].sent

\* The result, then a second of sleep if a retry is left.
Result(t, ms, of) ==
    /\ LET p == ping[Holding(t)] IN
       ping' = [ping EXCEPT ![Holding(t)] = [p EXCEPT !.first = TRUE, !.second = ms, !.of = of,
                                                      !.nLoop = p.nLoop + 1, !.since = clock]]
    /\ Goes(t, IF ping[Holding(t)].nLoop + 1 < ping[Holding(t)].nRetries THEN "sleep" ELSE "send")

\* The first message is the answer, whichever echo it answers.
RecvEchoReply(t) ==
    /\ IsAt(t, "wait") /\ queue[Holding(t)] # <<>>
    /\ LET e == Head(queue[Holding(t)]) IN Result(t, Elapsed(Holding(t), e), e)
    /\ queue' = [queue EXCEPT ![Holding(t)] = Tail(@)]
    /\ UNCHANGED <<lifeButThread, clock, echoes, flying, stranger, late>>

\* ICMP of another program or about something else, and a recvfrom that fails: any time.
RecvStranger(t) ==
    /\ IsAt(t, "wait") /\ stranger' = TRUE
    /\ \E ms \in {0, MaxClock} : Result(t, ms, 0)
    /\ UNCHANGED <<lifeButThread, clock, echoes, flying, queue, late>>

Sleep(t) ==
    /\ IsAt(t, "sleep") /\ clock >= ping[Holding(t)].since + Second
    /\ Goes(t, "send") /\ UNCHANGED <<lifeButThread, pingVars>>

\* closesocket, and the result is returned.
PingReturn(t) ==
    /\ IsAt(t, "send") /\ ping[Holding(t)].nLoop >= ping[Holding(t)].nRetries
    /\ holder' = Released(obj[Holding(t)].handle)
    /\ obj' = [obj EXCEPT ![Holding(t)].at = "gone"] /\ Leaves(t)
    /\ UNCHANGED <<count, winsock, bases, overlapped, pingVars>>

-----------------------------------------------------------------------------
(* The network. *)

\* An answer comes back, to every raw socket.
Arrive(e) ==
    /\ e \in flying /\ flying' = flying \ {e}
    /\ echoes' = [echoes EXCEPT ![e].back = clock]
    /\ queue' = [i \in Ids |-> IF i \in Pings /\ Alive(i) THEN Append(queue[i], e) ELSE queue[i]]
    /\ late' = (late \/ ~Alive(echoes[e].by))
    /\ UNCHANGED <<lifeVars, clock, ping, stranger>>

\* Time, as long as a ping looks at it.
Tick ==
    /\ \E i \in Pings : Alive(i)
    /\ clock < MaxClock /\ clock' = clock + 1
    /\ UNCHANGED <<lifeVars, echoes, flying, queue, ping, stranger, late>>

PingNext ==
    \/ \E t \in Threads :
          \/ \E i \in Ids, n \in Retries : Ping(t, i, n)
          \/ PingRefused(t) \/ PingSocket(t) \/ SendEchoRequest(t) \/ WaitEnds(t)
          \/ RecvEchoReply(t) \/ RecvStranger(t) \/ Sleep(t) \/ PingReturn(t)
    \/ \E e \in flying : Arrive(e)
    \/ Tick

ProcessNext == PingNext \/ (LifeNext /\ UNCHANGED pingVars)

ProcessSpec == PingInit /\ [][ProcessNext]_processVars

-----------------------------------------------------------------------------
(* The time a ping reports is never shorter than the round trip of the     *)
(* echo whose answer it read, whichever echo of whichever ping that was:   *)
(* the answer brings the time it was sent along (ping.cpp 90-93, 145, 185).*)
RoundTripNotShort ==
    \A i \in Ids : LET p == ping[i] IN
        (p.first /\ p.of # 0) => p.second >= echoes[p.of].back - echoes[p.of].sent

(* A ping that succeeds was answered by the host it asked, as long as no   *)
(* two pings overlap, no answer comes after its ping returned and no other *)
(* program's ICMP is read: what the missing comparison of identifiers      *)
(* leaves to luck (ping.cpp 164-186).                                      *)
AnsweredByHost ==
    (~late /\ ~stranger /\ ~overlapped) =>
        \A i \in Pings : ping[i].first => echoes[ping[i].of].by = i

-----------------------------------------------------------------------------
(* What makes them inductive. *)

Echo == [by : Ids, sent : Nat, back : Nat]
PingLocal == [nRetries : Nat, nLoop : Nat, since : Nat, first : BOOLEAN, second : Int, of : Nat]

PingTypeOK ==
    /\ clock \in Nat /\ stranger \in BOOLEAN /\ late \in BOOLEAN
    /\ echoes \in Seq(Echo) /\ queue \in [Ids -> Seq(Nat)] /\ ping \in [Ids -> PingLocal]

\* The echoes that are answered, or lost.
Settled == (1 .. Len(echoes)) \ flying

\* The past is behind, and what was read does not change.
EchoesKept ==
    /\ \A e \in 1 .. Len(echoes) : echoes[e].sent <= clock /\ echoes[e].back <= clock
    /\ flying \subseteq 1 .. Len(echoes)
    /\ \A i \in Ids : /\ \A n \in 1 .. Len(queue[i]) : queue[i][n] \in Settled
                      /\ ping[i].of \in {0} \cup Settled

\* One ping at a time, whose answers come while it is there, is read no other's.
AnswersKept ==
    (~late /\ ~stranger /\ ~overlapped) =>
        /\ \A e \in 1 .. Len(echoes) : echoes[e].by \in Pings
        /\ \A i \in Ids : /\ \A n \in 1 .. Len(queue[i]) : echoes[queue[i][n]].by = i
                          /\ ping[i].first => ping[i].of # 0 /\ echoes[ping[i].of].by = i
=============================================================================
