------------------------------ MODULE Listener ------------------------------
(***************************************************************************)
(* server:accept of the network module: Listener_Accept in main.cpp over   *)
(* SocketServer::Accept and Socket::WaitReadable in socket/Socket.cpp, with*)
(* the worker thread of the registered form (Listener_AsyncRun), while     *)
(* clients connect and give up whenever they like.                         *)
(*                                                                         *)
(* A Lua state calls accept again and again, with any arguments. What the  *)
(* handler does with its connection is in module ListenerContext; here it  *)
(* returns something, returns nothing or raises.                           *)
(***************************************************************************)
EXTENDS Integers

CONSTANTS
    Clients,        \* the clients, each connecting at most once
    Timeouts,       \* the timeouts a call may pass, in milliseconds
    Servers         \* the listeners

Server ==
    [blocking   : BOOLEAN,    \* network.listen(port, false)
     registered : BOOLEAN]    \* server:async registered a function

Nobody == "nobody"

ASSUME ListenerAssumption ==
    /\ Timeouts \subseteq Int /\ Servers \subseteq Server
    /\ Nobody \notin Clients

\* The arguments of a call: what is in the second and third slot, whether there
\* is a fourth, and the number if one of the two is a number (0 otherwise).
Arguments ==
    {a \in [slot2 : {"callable", "number", "nil", "other"},
           slot3 : {"absent", "number", "nil", "other"},
           extra : BOOLEAN,
           fits  : BOOLEAN,      \* the number is whole and fits in an int
           ms    : Timeouts \cup {0}] :
        /\ "number" \notin {a.slot2, a.slot3} => a.fits
        /\ "number" \notin {a.slot2, a.slot3} \/ ~a.fits => a.ms = 0}

VARIABLES
    s,              \* the listener (never changes)
    conn,           \* where each client is; the pending ones wait in the kernel
    aborted,        \* a client gave up and the next accept() reports it
    pc,             \* where the call is
    args,           \* its arguments
    timed,
    clock,          \* milliseconds spent in the wait
    excuse,         \* while the call ran, somebody gave up or the kernel failed
    took,           \* the client this call accepted
    answer          \* what the call returned: "true", "false", "empty" (no
                    \* values), "error" (raised) or "none" while it runs

call == <<args, timed, clock, took>>
vars == <<s, conn, aborted, pc, call, excuse, answer>>

-----------------------------------------------------------------------------

Pending == {i \in Clients : conn[i] = "pending"}

HasHandler == args.slot2 = "callable"

Init ==
    /\ s \in Servers /\ conn = [i \in Clients |-> "away"] /\ aborted = FALSE
    /\ pc = "lua"
    /\ args = [slot2 |-> "nil", slot3 |-> "absent", extra |-> FALSE, fits |-> TRUE, ms |-> 0]
    /\ timed = FALSE /\ clock = 0 /\ excuse = FALSE /\ took = Nobody
    /\ answer = "none"

\* A client connects.
Connects(i) ==
    /\ conn[i] = "away" /\ conn' = [conn EXCEPT ![i] = "pending"]
    /\ UNCHANGED <<s, aborted, pc, call, excuse, answer>>

\* A client gives up before it is accepted. Winsock drops it from the queue, and
\* may let the next accept() fail for it.
GivesUp(i) ==
    /\ conn[i] = "pending" /\ conn' = [conn EXCEPT ![i] = "gone"]
    /\ aborted' \in {aborted, TRUE} /\ excuse' = TRUE
    /\ UNCHANGED <<s, pc, call, answer>>

-----------------------------------------------------------------------------

\* The call returns to Lua, or raises an error there.
Return(value) == answer' = value /\ pc' = "lua"

\* Mutated form of Said: the answer does not depend on what happened.
SaidYes(accepted) == IF timed THEN "true" ELSE "empty"

\* The lambda "answer": a timed call says whether it accepted a connection.
Said(accepted) == IF timed THEN (IF accepted THEN "true" ELSE "false") ELSE "empty"

\* accept(...) is called.
Call ==
    /\ pc = "lua" /\ args' \in Arguments /\ pc' = "arguments"
    /\ timed' = FALSE /\ clock' = 0 /\ excuse' = FALSE /\ took' = Nobody
    /\ answer' = "none" /\ UNCHANGED <<s, conn, aborted>>

\* The arguments: at most three, a number in the second slot or else in the third
\* is the timeout and must fit, and a handler has nothing but a timeout behind it.
TakesTimeout == args.slot2 = "number" \/ args.slot3 = "number"

\* The checks are made in this order, and each one that fails ends the call.
CheckArguments ==
    /\ pc = "arguments"
    /\ timed' = (~args.extra /\ TakesTimeout /\ args.fits)
    /\ \/ /\ \/ args.extra
             \/ TakesTimeout /\ ~args.fits
             \/ ~TakesTimeout /\ HasHandler /\ args.slot3 = "other"
          /\ Return("error")
       \/ /\ ~args.extra
          /\ TakesTimeout => args.fits
          /\ ~TakesTimeout /\ HasHandler => args.slot3 # "other"
          /\ pc' = "handler?" /\ UNCHANGED answer
    /\ UNCHANGED <<s, conn, aborted, args, clock, excuse, took>>

\* Neither a handler nor a registered function.
NothingToRun == ~s.registered /\ ~HasHandler

CheckHandler ==
    /\ pc = "handler?"
    /\ \/ NothingToRun /\ Return("error")
       \/ /\ ~NothingToRun
          /\ pc' = IF timed /\ args.ms # 0 THEN "park" ELSE "accept"
          /\ UNCHANGED answer
    /\ UNCHANGED <<s, conn, aborted, call, excuse>>

\* Mutated form of TimeIsUp: a wait without a limit has one.
TimeIsUpAtOnce == clock >= args.ms

\* WaitReadable: a negative timeout never ends.
TimeIsUp == args.ms > 0 /\ clock >= args.ms

\* The wait is over: somebody is there, or the time is up.
Wake ==
    /\ pc = "park"
    /\ \/ (Pending # {} \/ aborted) /\ pc' = "accept" /\ UNCHANGED answer
       \/ Pending = {} /\ ~aborted /\ TimeIsUp /\ Return("false")
    /\ UNCHANGED <<s, conn, aborted, call, excuse>>

\* Time passes; an interrupted WSAPoll goes on with what is left of it.
Tick ==
    /\ pc = "park"
    /\ Pending = {} /\ ~aborted
    /\ args.ms > 0 /\ ~TimeIsUp
    /\ clock' = clock + 1
    /\ UNCHANGED <<s, conn, aborted, pc, args, timed, took, excuse, answer>>

\* WSAPoll fails for another reason than an interruption.
WaitFails ==
    /\ pc = "park" /\ Return("false") /\ excuse' = TRUE
    /\ UNCHANGED <<s, conn, aborted, call>>

\* accept() takes a client (which one is up to the kernel), for the handler or for
\* a worker thread.
Accept ==
    /\ pc = "accept"
    /\ ~aborted
    /\ took' \in Pending
    /\ \/ /\ HasHandler
          /\ conn' = [conn EXCEPT ![took'] = "handler"] /\ pc' = "handler"
          /\ UNCHANGED answer
       \/ /\ ~HasHandler
          /\ conn' = [conn EXCEPT ![took'] = "worker"] /\ Return(Said(TRUE))
    /\ UNCHANGED <<s, aborted, args, timed, clock, excuse>>

\* SocketServer::Accept returned no socket.
Nothing == Return(IF HasHandler /\ s.blocking THEN "error" ELSE Said(FALSE))

\* Mutated form of AcceptNobody: every listener waits.
AcceptNobodyWaits == FALSE /\ UNCHANGED vars

\* Nobody is there any more: a non-blocking listener says so, a blocking one waits.
AcceptNobody ==
    /\ pc = "accept"
    /\ ~aborted /\ Pending = {}
    /\ ~s.blocking
    /\ Nothing /\ UNCHANGED <<s, conn, aborted, call, excuse>>

\* accept() is interrupted.
AcceptInterrupted ==
    /\ pc = "accept" /\ Nothing /\ excuse' = TRUE
    /\ UNCHANGED <<s, conn, aborted, call>>

\* accept() fails for a client that gave up: the exception passes through Lua.
AcceptFails ==
    /\ pc = "accept" /\ aborted /\ aborted' = FALSE /\ pc' = "crashed"
    /\ UNCHANGED <<s, conn, call, excuse, answer>>

-----------------------------------------------------------------------------

\* The handler returns something, which is sent before the socket is closed. So
\* is what is on the stack after an error function that does not raise.
HandlerAnswers ==
    /\ pc = "handler" /\ conn' = [conn EXCEPT ![took] = "closed"]
    /\ Return(Said(TRUE)) /\ UNCHANGED <<s, aborted, call, excuse>>

\* The handler returns nothing: it keeps the connection.
HandlerKeeps ==
    /\ pc = "handler" /\ conn' = [conn EXCEPT ![took] = "kept"]
    /\ Return(Said(TRUE)) /\ UNCHANGED <<s, aborted, call, excuse>>

\* The handler raises, and there is no error function, or it raises as well.
HandlerRaises ==
    /\ pc = "handler" /\ conn' = [conn EXCEPT ![took] = "kept"]
    /\ Return("error") /\ UNCHANGED <<s, aborted, call, excuse>>

\* A worker thread ends: its context closes the connection, whatever was sent.
WorkerEnds(i) ==
    /\ conn[i] = "worker" /\ pc # "crashed"
    /\ conn' = [conn EXCEPT ![i] = "closed"]
    /\ UNCHANGED <<s, aborted, pc, call, excuse, answer>>

\* ... or its function fails, and the error has nowhere to go.
WorkerFails(i) ==
    /\ conn[i] = "worker" /\ pc' = "crashed"
    /\ UNCHANGED <<s, conn, aborted, call, excuse, answer>>

Handler == HandlerAnswers \/ HandlerKeeps \/ HandlerRaises
Running == CheckArguments \/ CheckHandler \/ Wake \/ Tick \/ Accept \/ AcceptNobody
           \/ AcceptFails \/ Handler

Crashed == pc = "crashed" /\ UNCHANGED vars

Next ==
    \/ pc # "crashed" /\ \E i \in Clients : Connects(i) \/ GivesUp(i)
    \/ Call \/ Running \/ WaitFails \/ AcceptInterrupted
    \/ \E i \in Clients : WorkerEnds(i) \/ WorkerFails(i)
    \/ Crashed

Spec == Init /\ [][Next]_vars

\* A call keeps running on the thread of its Lua state, a worker on its own.
FairSpec ==
    /\ Spec /\ WF_vars(Running)
    /\ \A i \in Clients : WF_vars(WorkerEnds(i) \/ WorkerFails(i))

-----------------------------------------------------------------------------

\* Every variable holds a value of its type, and a wait never outlasts its
\* timeout, interrupted or not.
TypeOK ==
    /\ s \in Servers
    /\ conn \in [Clients -> {"away", "pending", "gone", "handler", "worker", "kept", "closed"}]
    /\ aborted \in BOOLEAN
    /\ pc \in {"lua", "arguments", "handler?", "park", "accept", "handler", "crashed"}
    /\ args \in Arguments /\ timed \in BOOLEAN /\ clock \in Nat
    /\ clock > 0 => clock <= args.ms
    /\ excuse \in BOOLEAN /\ took \in Clients \cup {Nobody}
    /\ answer \in {"none", "true", "false", "empty", "error"}

\* README: a timed call says what it did, true with a connection that was given
\* to the handler or a worker and false without one, and an untimed call returns
\* no values. A connection that was taken is never reported as a timeout.
AnswerTruthful ==
    /\ answer = "true" => timed /\ took # Nobody /\ conn[took] \in {"worker", "kept", "closed"}
    /\ answer = "false" => timed /\ took = Nobody
    /\ answer = "empty" => ~timed

\* A call that was to wait says false only after its whole timeout, unless a
\* client gave up or the kernel failed meanwhile; one without a limit waits on.
FalseNotEarly ==
    answer = "false" /\ args.ms # 0 => excuse \/ (args.ms > 0 /\ clock = args.ms)

\* README: a call with nothing to run raises before it would wait, and takes no
\* connection that nobody would serve.
WaitsOnlyToServe ==
    pc \in {"park", "accept"} \/ took # Nobody => s.registered \/ HasHandler

\* README: a non-blocking listener never blocks outside the wait that was asked
\* for, so a call without an unlimited wait returns (or takes the process down).
CallReturns ==
    (pc \notin {"lua", "crashed"} /\ ~s.blocking /\ (TakesTimeout => args.ms >= 0)) ~> (pc \in {"lua", "crashed"})

=============================================================================
