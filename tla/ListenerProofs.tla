--------------------------- MODULE ListenerProofs ---------------------------
(***************************************************************************)
(* What module Listener promises holds for any number of clients, any      *)
(* timeouts and every kind of listener. The invariants are proved together,*)
(* with Phases and WokenForSomebody, as one inductive invariant.           *)
(***************************************************************************)
EXTENDS Listener, TLAPS

\* What the promises rest on. A call accepts once and answers last; it is in
\* the wait only with a timeout, and in a handler only with the client it took.
Phases ==
    /\ pc \in {"arguments", "handler?", "park", "accept"} => took = Nobody
    /\ pc \notin {"lua", "crashed"} => answer = "none"
    /\ pc = "arguments" => ~timed
    /\ pc = "park" => timed
    /\ pc = "handler" => took \in Clients /\ conn[took] = "handler" /\ HasHandler

\* A wait that ended early ended for somebody, who is still there or gave up.
WokenForSomebody ==
    pc = "accept" /\ timed /\ args.ms # 0 => Pending # {} \/ aborted \/ excuse

Promises == Phases /\ WokenForSomebody /\ AnswerTruthful /\ FalseNotEarly /\ WaitsOnlyToServe

\* The timeout of a call, and 0 without one, is an integer.
LEMMA TimeoutIsInt == ASSUME NEW a \in Arguments PROVE a.ms \in Int
  <1>1. a.ms \in Timeouts \cup {0}
    BY Zenon DEF Arguments
  <1>2. Timeouts \cup {0} \subseteq Int
    BY ListenerAssumption
  <1>3. QED
    BY <1>1, <1>2, Zenon

\* The type invariant holds when the listener is made.
LEMMA InitTyped == Init => TypeOK
  <1> SUFFICES ASSUME Init PROVE TypeOK
    OBVIOUS
  <1>1. args \in Arguments
    BY ListenerAssumption DEF Init, Arguments
  <1>2. conn \in [Clients -> {"away", "pending", "gone", "handler", "worker", "kept", "closed"}]
    BY DEF Init
  <1>3. clock \in Nat /\ ~(clock > 0)
    BY DEF Init
  <1>4. QED
    BY <1>1, <1>2, <1>3, Zenon DEF Init, TypeOK

\* Every step of a call, a client or a worker keeps it.
LEMMA StepTyped == TypeOK /\ [Next]_vars => TypeOK'
  <1> SUFFICES ASSUME TypeOK, [Next]_vars PROVE TypeOK'
    OBVIOUS
  <1> USE DEF TypeOK
  <1>0. args.ms \in Int
    BY TimeoutIsInt
  <1>1. CASE UNCHANGED vars
    BY <1>1 DEF vars, call
  <1>2. ASSUME NEW i \in Clients, Connects(i) PROVE TypeOK'
    BY <1>2 DEF Connects, call
  <1>3. ASSUME NEW i \in Clients, GivesUp(i) PROVE TypeOK'
    BY <1>3 DEF GivesUp, call
  <1>4. CASE Call
    <2>1. clock' \in Nat /\ ~(clock' > 0)
      BY <1>4 DEF Call
    <2>2. QED
      BY <1>4, <2>1, Zenon DEF Call
  <1>5. CASE CheckArguments
    <2>1. timed' \in BOOLEAN
      BY <1>5, Zenon DEF CheckArguments
    <2>2. QED
      BY <1>5, <2>1 DEF CheckArguments, Return
  <1>6. CASE CheckHandler
    BY <1>6 DEF CheckHandler, Return, call
  <1>7. CASE Wake
    BY <1>7 DEF Wake, Return, call
  <1>8. CASE Tick
    BY <1>0, <1>8 DEF Tick, TimeIsUp
  <1>9. CASE WaitFails
    BY <1>9 DEF WaitFails, Return, call
  <1>10. CASE Accept
    BY <1>10 DEF Accept, Return, Said, Pending
  <1>11. CASE AcceptNobody
    BY <1>11 DEF AcceptNobody, Nothing, Return, Said, call
  <1>12. CASE AcceptInterrupted
    BY <1>12 DEF AcceptInterrupted, Nothing, Return, Said, call
  <1>13. CASE AcceptFails
    BY <1>13 DEF AcceptFails, call
  <1>14. CASE Handler
    BY <1>14 DEF Handler, HandlerAnswers, HandlerKeeps, HandlerRaises, Return, Said, call
  <1>15. ASSUME NEW i \in Clients, WorkerEnds(i) \/ WorkerFails(i) PROVE TypeOK'
    BY <1>15 DEF WorkerEnds, WorkerFails, call
  <1>16. CASE Crashed
    BY <1>16 DEF Crashed, vars, call
  <1>17. QED
    BY <1>1, <1>2, <1>3, <1>4, <1>5, <1>6, <1>7, <1>8, <1>9, <1>10, <1>11, <1>12, <1>13,
       <1>14, <1>15, <1>16 DEF Next, Running

\* Every variable keeps its type and no wait outlasts its timeout, for any number
\* of clients and any timeouts (Socket::WaitReadable and Listener_Accept).
THEOREM TypeCorrect == Spec => []TypeOK
  BY InitTyped, StepTyped, PTL DEF Spec

-----------------------------------------------------------------------------

\* A client that connects or gives up while a call runs disturbs no promise.
LEMMA ClientStep ==
  ASSUME TypeOK, Promises, NEW i \in Clients, Connects(i) \/ GivesUp(i)
  PROVE  Promises'
  <1> USE DEF TypeOK
  <1>1. conn[i] \in {"away", "pending"} /\ \A j \in Clients : j # i => conn'[j] = conn[j]
    BY DEF Connects, GivesUp
  <1>2. UNCHANGED <<s, pc, args, timed, clock, took, answer>>
    BY DEF Connects, GivesUp, call
  <1>3. Phases'
    BY <1>1, <1>2 DEF Promises, Phases, HasHandler
  <1>4. WokenForSomebody'
    <2>1. CASE Connects(i)
      <3>1. i \in Pending'
        BY <2>1 DEF Connects, Pending
      <3>2. QED
        BY <3>1 DEF WokenForSomebody
    <2>2. CASE GivesUp(i)
      BY <2>2 DEF GivesUp, WokenForSomebody
    <2>3. QED
      BY <2>1, <2>2
  <1>5. AnswerTruthful'
    BY <1>1, <1>2 DEF Promises, AnswerTruthful
  <1>6. FalseNotEarly'
    BY <1>2 DEF Promises, FalseNotEarly, Connects, GivesUp
  <1>7. WaitsOnlyToServe'
    BY <1>2 DEF Promises, WaitsOnlyToServe, HasHandler
  <1>8. QED
    BY <1>3, <1>4, <1>5, <1>6, <1>7 DEF Promises

\* The checks before the wait keep them: a call that fails them took nobody.
LEMMA CheckStep ==
  ASSUME TypeOK, Promises, Call \/ CheckArguments \/ CheckHandler
  PROVE  Promises'
  <1> USE DEF TypeOK
  <1>1. CASE Call
    BY <1>1 DEF Call, Promises, Phases, WokenForSomebody, AnswerTruthful, FalseNotEarly, WaitsOnlyToServe
  <1>2. CASE CheckArguments
    BY <1>2 DEF CheckArguments, Return, Promises, Phases, WokenForSomebody, AnswerTruthful, FalseNotEarly,
                WaitsOnlyToServe
  <1>3. CASE CheckHandler
    BY <1>3 DEF CheckHandler, Return, NothingToRun, call, HasHandler, Promises, Phases, WokenForSomebody,
                AnswerTruthful, FalseNotEarly, WaitsOnlyToServe
  <1>4. QED
    BY <1>1, <1>2, <1>3

\* So does the wait: it says false at the end of its time and not before.
LEMMA WaitStep ==
  ASSUME TypeOK, Promises, Wake \/ Tick \/ WaitFails
  PROVE  Promises'
  <1> USE DEF TypeOK
  <1>1. args.ms \in Int
    BY TimeoutIsInt
  <1>2. CASE Wake
    <2>1. pc = "park" /\ UNCHANGED <<s, conn, aborted, args, timed, clock, took, excuse>>
      BY <1>2 DEF Wake, call
    <2>2. CASE (Pending # {} \/ aborted) /\ pc' = "accept" /\ UNCHANGED answer
      <3>1. Pending' = Pending
        BY <2>1 DEF Pending
      <3>2. QED
        BY <2>1, <2>2, <3>1 DEF HasHandler, Promises, Phases, WokenForSomebody, AnswerTruthful,
                                FalseNotEarly, WaitsOnlyToServe
    <2>3. CASE TimeIsUp /\ Return("false")
      BY <1>1, <2>1, <2>3 DEF TimeIsUp, Return, HasHandler, Promises, Phases, WokenForSomebody,
                              AnswerTruthful, FalseNotEarly, WaitsOnlyToServe
    <2>4. QED
      BY <1>2, <2>2, <2>3 DEF Wake
  <1>3. CASE Tick
    BY <1>3 DEF Tick, HasHandler, Promises, Phases, WokenForSomebody, AnswerTruthful, FalseNotEarly, WaitsOnlyToServe
  <1>4. CASE WaitFails
    BY <1>4 DEF WaitFails, Return, call, HasHandler, Promises, Phases, WokenForSomebody, AnswerTruthful,
                FalseNotEarly, WaitsOnlyToServe
  <1>5. QED
    BY <1>2, <1>3, <1>4

\* So does accept(): who is taken was waiting, and false is said for a reason.
LEMMA AcceptStep ==
  ASSUME TypeOK, Promises, Accept \/ AcceptNobody \/ AcceptInterrupted \/ AcceptFails
  PROVE  Promises'
  <1> USE DEF TypeOK
  <1>1. CASE Accept
    <2>1. took' \in Clients /\ took' # Nobody
      BY <1>1, ListenerAssumption DEF Accept, Pending
    <2>2. QED
      BY <1>1, <2>1 DEF Accept, Return, Said, HasHandler, Promises, Phases, WokenForSomebody, AnswerTruthful,
                        FalseNotEarly, WaitsOnlyToServe
  <1>2. CASE AcceptNobody
    BY <1>2 DEF AcceptNobody, Nothing, Return, Said, call, HasHandler, Promises, Phases, WokenForSomebody,
                AnswerTruthful, FalseNotEarly, WaitsOnlyToServe
  <1>3. CASE AcceptInterrupted
    BY <1>3 DEF AcceptInterrupted, Nothing, Return, Said, call, HasHandler, Promises, Phases, WokenForSomebody,
                AnswerTruthful, FalseNotEarly, WaitsOnlyToServe
  <1>4. CASE AcceptFails
    BY <1>4 DEF AcceptFails, call, HasHandler, Promises, Phases, WokenForSomebody, AnswerTruthful,
                FalseNotEarly, WaitsOnlyToServe
  <1>5. QED
    BY <1>1, <1>2, <1>3, <1>4

\* So do the handler and the workers, who may end while another call runs.
LEMMA ServeStep ==
  ASSUME TypeOK, Promises, Handler \/ \E i \in Clients : WorkerEnds(i) \/ WorkerFails(i)
  PROVE  Promises'
  <1> USE DEF TypeOK
  <1>1. CASE Handler
    BY <1>1, ListenerAssumption
    DEF Handler, HandlerAnswers, HandlerKeeps, HandlerRaises, Return, Said, call, HasHandler, Promises, Phases,
        WokenForSomebody, AnswerTruthful, FalseNotEarly, WaitsOnlyToServe
  <1>2. ASSUME NEW i \in Clients, WorkerEnds(i) PROVE Promises'
    <2>1. /\ conn[i] = "worker" /\ conn'[i] = "closed"
          /\ \A j \in Clients : j # i => conn'[j] = conn[j]
          /\ UNCHANGED <<s, aborted, pc, args, timed, clock, took, excuse, answer>>
      BY <1>2 DEF WorkerEnds, call
    <2>2. Pending' = Pending
      BY <2>1 DEF Pending
    <2>3. Phases' /\ WokenForSomebody' /\ FalseNotEarly' /\ WaitsOnlyToServe'
      BY <2>1, <2>2 DEF HasHandler, Promises, Phases, WokenForSomebody, FalseNotEarly, WaitsOnlyToServe
    <2>4. AnswerTruthful'
      BY <2>1 DEF Promises, AnswerTruthful
    <2>5. QED
      BY <2>3, <2>4 DEF Promises
  <1>3. ASSUME NEW i \in Clients, WorkerFails(i) PROVE Promises'
    BY <1>3 DEF WorkerFails, call, HasHandler, Promises, Phases, WokenForSomebody, AnswerTruthful,
                FalseNotEarly, WaitsOnlyToServe
  <1>4. QED
    BY <1>1, <1>2, <1>3

\* The promises hold at the start and are kept by every step.
LEMMA PromisesKept == Spec => []Promises
  <1>1. Init => Promises
    BY DEF Init, Promises, Phases, WokenForSomebody, AnswerTruthful, FalseNotEarly, WaitsOnlyToServe
  <1>2. TypeOK /\ Promises /\ [Next]_vars => Promises'
    <2> SUFFICES ASSUME TypeOK, Promises, [Next]_vars PROVE Promises'
      OBVIOUS
    <2>1. CASE UNCHANGED vars
      BY <2>1 DEF vars, call, Pending, HasHandler, Promises, Phases, WokenForSomebody, AnswerTruthful,
                  FalseNotEarly, WaitsOnlyToServe
    <2>2. QED
      BY <2>1, ClientStep, CheckStep, WaitStep, AcceptStep, ServeStep DEF Next, Running, Crashed
  <1>3. QED
    BY <1>1, <1>2, TypeCorrect, PTL DEF Spec

\* What a timed accept answers is what it did, whoever connects, gives up or is
\* being served meanwhile (the lambda "answer" of Listener_Accept).
THEOREM AnswersAreTruthful == Spec => []AnswerTruthful
  BY PromisesKept, PTL DEF Promises

\* accept never says false before its time without a client that gave up or a
\* failure of the kernel (Socket::WaitReadable, SocketServer::Accept).
THEOREM FalseIsNotEarly == Spec => []FalseNotEarly
  BY PromisesKept, PTL DEF Promises

\* accept waits and takes a connection only if there is something to run for it
\* (the check "No function provided" of Listener_Accept).
THEOREM WaitsAreServed == Spec => []WaitsOnlyToServe
  BY PromisesKept, PTL DEF Promises

=============================================================================
