---------------------------- MODULE DialDeadline ----------------------------
(***************************************************************************)
(* The clock of a dial: Remaining, Seconds and StepBudget::Arm of          *)
(* socket/Dial.cpp, and the timers of CBaseSock they set, which count whole*)
(* seconds of the system clock. Times are in milliseconds. What is said    *)
(* over the connection is left out (module Dial has it): a step of the     *)
(* SOCKS5 conversation or of the TLS handshake is a message of some bytes  *)
(* that arrive, or leave, in pieces, each after a wait the peer chooses.   *)
(* Before one of them socks5:// may look the target up, and that wait has  *)
(* no timer at all.                                                        *)
(***************************************************************************)
EXTENDS Integers

CONSTANTS
    Budgets,        \* the dials: options, the clock when they start, their length
    Waits,          \* how long a peer can take over a piece, in milliseconds
    Lookups         \* how long Windows can take to look a name up

Budget ==
    [start   : Nat,           \* system clock when Dial is called
     total   : Nat,           \* options.total_timeout_ms, 0 for none
     connect : Nat \ {0},     \* options.connect_timeout_ms
     steps   : Nat,           \* messages of the SOCKS5 conversation
     lookup  : Nat,           \* messages before ResolveLocally, 0 if it is not called
     rounds  : Nat,           \* messages of the TLS handshake
     bytes   : Nat \ {0}]     \* bytes of a message (MinLen)

ASSUME BudgetsAssumption == Budgets \subseteq Budget
ASSUME WaitsAssumption == Waits \subseteq Nat
ASSUME LookupsAssumption == Lookups \subseteq Nat

VARIABLES
    b,              \* the dial (never changes)
    now,            \* the clock
    pc,             \* where Dial is
    done,           \* messages exchanged in this phase
    need,           \* bytes of the current message still missing
    armed,          \* RecvTimeoutSeconds (and SendTimeoutSeconds)
    end,            \* RecvEndTime (and SendEndTime), in seconds
    began,          \* when the current message was begun
    lookup,         \* milliseconds of a lookup that no arming has seen yet
    outcome         \* "none" while running, "ok" or an error

vars == <<b, now, pc, done, need, armed, end, began, lookup, outcome>>

-----------------------------------------------------------------------------

\* Seconds(): milliseconds rounded up to whole seconds, at least one.
Seconds(ms) == IF (ms + 999) \div 1000 > 1 THEN (ms + 999) \div 1000 ELSE 1

\* Mutated form of Left: the total timeout starts anew at every step.
LeftAnew == IF b.total > 0 /\ b.total < b.connect THEN b.total ELSE b.connect

\* Remaining(): connect_timeout_ms, or what is left of the total timeout.
Left == IF b.total > 0 /\ b.start + b.total - now < b.connect
        THEN b.start + b.total - now ELSE b.connect

\* ... which throws once nothing is left.
Spent == b.total > 0 /\ now - b.start >= b.total

SecondsNow == now \div 1000

\* Where Dial goes when the current phase is over.
AfterConnect == IF b.steps > 0 THEN "arm" ELSE IF b.rounds > 0 THEN "tls" ELSE "connected"
AfterMessage ==
    IF pc = "exchange"
    THEN IF done + 1 < b.steps
         THEN IF done + 1 = b.lookup THEN "resolve" ELSE "arm"
         ELSE IF b.rounds > 0 THEN "tls" ELSE "connected"
    ELSE IF done + 1 < b.rounds THEN "round" ELSE "connected"

Init ==
    /\ b \in Budgets /\ now = b.start /\ pc = "connect" /\ done = 0
    /\ need = 0 /\ armed = Seconds(b.connect) /\ end = 0 /\ began = b.start
    /\ lookup = 0 /\ outcome = "none"

\* The TCP connect, given the whole seconds that Dial armed; it succeeds or fails
\* after any wait within them.
Connect ==
    /\ outcome = "none" /\ pc = "connect" /\ armed' = Seconds(Left)
    /\ \E wait \in Waits \cup {1000 * Seconds(Left)} :
          /\ wait <= 1000 * Seconds(Left) /\ now' = now + wait
    /\ \/ pc' = AfterConnect /\ UNCHANGED outcome
       \/ outcome' = "connect" /\ UNCHANGED pc
    /\ UNCHANGED <<b, done, need, end, began, lookup>>

\* ResolveLocally, for the address the CONNECT request carries: the request is put
\* together before SendAll arms anything, and GetAddrInfoW takes its time.
Resolve ==
    /\ outcome = "none" /\ pc = "resolve"
    /\ \E wait \in Lookups : now' = now + wait /\ lookup' = lookup + wait
    /\ \/ pc' = "arm" /\ UNCHANGED outcome
       \/ outcome' = "proxy_dns_failed" /\ UNCHANGED pc
    /\ UNCHANGED <<b, done, need, armed, end, began>>

\* StepBudget::Arm, then Send or Recv starts its timer.
Arm ==
    /\ outcome = "none" /\ pc = "arm"
    /\ \/ Spent /\ outcome' = "timeout" /\ UNCHANGED <<pc, need, armed, end, began, lookup>>
       \/ /\ ~Spent
          /\ armed' = Seconds(Left) /\ end' = SecondsNow + Seconds(Left)
          /\ began' = now /\ need' = b.bytes /\ pc' = "exchange"
          /\ lookup' = 0 /\ UNCHANGED outcome
    /\ UNCHANGED <<b, now, done>>

\* Before the TLS handshake the timers are armed once for all of it.
ArmHandshake ==
    /\ outcome = "none" /\ pc = "tls"
    /\ \/ Spent /\ outcome' = "timeout" /\ UNCHANGED <<pc, armed, done>>
       \/ /\ ~Spent
          /\ armed' = Seconds(Left) /\ done' = 0 /\ pc' = "round"
          /\ UNCHANGED outcome
    /\ UNCHANGED <<b, now, need, end, began, lookup>>

\* Every Recv and Send of the handshake starts the timer again.
BeginRound ==
    /\ outcome = "none" /\ pc = "round" /\ end' = SecondsNow + armed
    /\ began' = now /\ need' = 1 /\ pc' = "handshake"
    /\ UNCHANGED <<b, now, done, armed, lookup, outcome>>

\* Mutated form of TimerAfterPiece: every piece starts the timer again.
TimerAfterPieceAgain == end' = now' \div 1000 + armed

\* A piece of a message does not touch the timer of the message.
TimerAfterPiece == UNCHANGED end

\* RecvPartial or SendPartial: a piece of the message, in time.
Piece ==
    /\ outcome = "none" /\ pc \in {"exchange", "handshake"}
    /\ end - SecondsNow > 0
    /\ \E wait \in Waits :
          /\ wait <= 1000 * (end - SecondsNow) /\ now' = now + wait
    /\ \E n \in 1 .. need :
          /\ need' = need - n
          /\ IF n < need
             THEN UNCHANGED <<pc, done, outcome>>
             ELSE /\ pc' = AfterMessage
                  /\ done' = done + 1 /\ UNCHANGED outcome
    /\ TimerAfterPiece /\ UNCHANGED <<b, armed, began, lookup>>

\* Nothing comes: no whole second was left, or the wait for all of them is over.
TimesOut ==
    /\ outcome = "none" /\ pc \in {"exchange", "handshake"}
    /\ now' = IF end - SecondsNow > 0 THEN now + 1000 * (end - SecondsNow) ELSE now
    /\ outcome' = "timed_out"
    /\ UNCHANGED <<b, pc, done, need, armed, end, began, lookup>>

\* The connection is ready and Dial returns it.
Return ==
    /\ outcome = "none" /\ pc = "connected" /\ outcome' = "ok"
    /\ UNCHANGED <<b, now, pc, done, need, armed, end, began, lookup>>

Done == outcome # "none" /\ UNCHANGED vars

Next ==
    \/ Connect \/ Resolve \/ Arm \/ ArmHandshake \/ BeginRound
    \/ Piece \/ TimesOut \/ Return \/ Done

Spec == Init /\ [][Next]_vars

-----------------------------------------------------------------------------

Places ==
    {"connect", "resolve", "arm", "exchange", "tls", "round", "handshake", "connected"}

\* Every variable holds a value of its type, and the timers are never armed with
\* more than connect_timeout_ms rounded up to whole seconds.
TypeOK ==
    /\ b \in Budgets /\ now \in Nat /\ pc \in Places /\ done \in Nat
    /\ need \in 0 .. b.bytes /\ armed \in 1 .. Seconds(b.connect)
    /\ end \in Nat /\ began \in Nat /\ lookup \in Nat
    /\ outcome \in {"none", "ok", "connect", "proxy_dns_failed", "timeout", "timed_out"}

\* A message is exchanged as a whole within its timeout, whether it comes in one
\* piece or in many, up to the second the timers cannot see. (At "round" the next
\* timeout is armed and its message not begun; what a lookup takes after the message
\* is no part of it.)
MessageBounded == pc # "round" => now <= began + 1000 * armed + 999 + lookup

\* Up to the TLS handshake the total timeout is one budget: however the proxy
\* spreads its bytes, connect and conversation are over less than two seconds
\* after it (one lost by rounding up, one by the timer's whole seconds). The budget
\* does NOT cover a lookup of socks5://: the dial ends as late as GetAddrInfoW lets
\* it. What holds is that only the lookup itself comes on top, and that the next
\* arming sees it: no message is begun once the total timeout is over.
DeadlineHolds ==
    b.total > 0 /\ (pc \in {"connect", "resolve", "arm", "exchange", "tls"} \/ b.rounds = 0) =>
        now - b.start <= b.total + 1998 + lookup

\* What makes the two inductive: the timer of a message under way, when it can
\* still fire, and that a message of the conversation is begun within the total
\* timeout. A lookup is unseen only until the next arming.
Timers ==
    /\ began <= now
    /\ lookup > 0 => pc \in {"resolve", "arm"}
    /\ pc \in {"exchange", "handshake"} =>
          end = began \div 1000 + armed /\ now <= 1000 * end + 999
    /\ pc = "exchange" /\ b.total > 0 => 1000 * armed <= b.start + b.total - began + 999
    /\ pc = "connect" /\ outcome = "none" => now = b.start /\ began = b.start
    /\ pc \in {"tls", "round", "handshake"} => b.rounds > 0

=============================================================================
