------------------------- MODULE DialDeadlineProofs -------------------------
(***************************************************************************)
(* Theorems about DialDeadline, for every timeout, every moment a dial can *)
(* start at and every way a peer can spread its bytes over time.           *)
(***************************************************************************)
EXTENDS DialDeadline, TLAPS

\* A dial has its fields.
LEMMA BudgetFields ==
    ASSUME NEW x \in Budgets
    PROVE  /\ x.start \in Nat /\ x.total \in Nat /\ x.steps \in Nat /\ x.rounds \in Nat
           /\ x.connect \in Nat /\ x.connect >= 1 /\ x.bytes \in Nat /\ x.bytes >= 1
<1>1. x \in Budget
  BY BudgetsAssumption
<1> QED
  BY <1>1 DEF Budget

\* Rounding up to seconds: at least one, and less than a second too much.
LEMMA SecondsBounds ==
    ASSUME NEW ms \in Int
    PROVE  /\ Seconds(ms) \in Nat /\ Seconds(ms) >= 1
           /\ ms >= 1 => 1000 * Seconds(ms) <= ms + 999
BY DEF Seconds

\* More milliseconds are never fewer seconds.
LEMMA SecondsMonotone ==
    ASSUME NEW ms \in Int, NEW more \in Int, ms <= more
    PROVE  Seconds(ms) <= Seconds(more)
BY DEF Seconds

\* The timeout of the options, in seconds.
LEMMA ConnectSeconds ==
    ASSUME NEW x \in Budgets
    PROVE  Seconds(x.connect) \in Nat /\ Seconds(x.connect) >= 1
<1>1. x.connect \in Nat
  BY BudgetFields
<1>2. x.connect \in Int
  BY <1>1
<1> QED
  BY <1>2, SecondsBounds

\* What Arm arms: between one second and connect_timeout_ms, and less than a second
\* more than is left of the total timeout.
LEMMA LeftBounds ==
    ASSUME TypeOK
    PROVE  /\ Left \in Int /\ Left <= b.connect
           /\ Seconds(Left) \in 1 .. Seconds(b.connect)
           /\ b.total > 0 /\ ~Spent => 1000 * Seconds(Left) <= b.start + b.total - now + 999
<1>1. /\ b.start \in Nat /\ b.total \in Nat /\ b.connect \in Nat /\ b.connect >= 1 /\ now \in Nat
  BY BudgetFields DEF TypeOK
<1>2. Left \in Int /\ Left <= b.connect
  BY <1>1 DEF Left
<1>3. Seconds(Left) \in 1 .. Seconds(b.connect)
  <2>1. b.connect \in Int
    BY <1>1
  <2>2. Seconds(Left) \in Nat /\ Seconds(Left) >= 1 /\ Seconds(b.connect) \in Nat
    BY <1>2, <2>1, SecondsBounds
  <2>3. Seconds(Left) <= Seconds(b.connect)
    BY <1>2, <2>1, SecondsMonotone
  <2> QED
    BY <2>2, <2>3
<1>4. ASSUME b.total > 0, ~Spent
      PROVE  1000 * Seconds(Left) <= b.start + b.total - now + 999
  <2>1. Left >= 1 /\ Left <= b.start + b.total - now
    BY <1>1, <1>4 DEF Left, Spent
  <2>2. 1000 * Seconds(Left) <= Left + 999 /\ Seconds(Left) \in Nat
    BY <1>2, <2>1, SecondsBounds
  <2> QED
    BY <1>1, <1>2, <2>1, <2>2
<1> QED
  BY <1>2, <1>3, <1>4

\* One step keeps every variable within its type.
LEMMA TypeStep ==
    ASSUME TypeOK, [Next]_vars
    PROVE  TypeOK'
<1>0. /\ now \in Nat /\ end \in Nat /\ armed \in Nat /\ need \in Nat /\ done \in Nat
      /\ b.bytes \in Nat /\ b.bytes >= 1 /\ Seconds(b.connect) \in Nat /\ lookup \in Nat
  BY BudgetFields, ConnectSeconds DEF TypeOK
<1>s. SecondsNow \in Nat
  BY <1>0 DEF SecondsNow
<1>l. Seconds(Left) \in 1 .. Seconds(b.connect)
  BY LeftBounds
<1>1. CASE UNCHANGED vars
  BY <1>1 DEF TypeOK, vars
<1>2. CASE Connect
  <2>1. now' \in Nat
    BY <1>0, <1>2, <1>l, WaitsAssumption DEF Connect
  <2>2. pc' \in Places
    BY <1>2 DEF TypeOK, Connect, AfterConnect, Places
  <2> QED
    BY <1>2, <1>l, <2>1, <2>2 DEF TypeOK, Connect
<1>3. CASE Arm
  <2>1. SecondsNow + Seconds(Left) \in Nat
    BY <1>0, <1>s, <1>l
  <2> QED
    BY <1>0, <1>3, <1>l, <2>1 DEF TypeOK, Arm, Places
<1>4. CASE ArmHandshake
  BY <1>0, <1>4, <1>l DEF TypeOK, ArmHandshake, Places
<1>5. CASE BeginRound
  <2>1. SecondsNow + armed \in Nat
    BY <1>0, <1>s
  <2> QED
    BY <1>0, <1>5, <2>1 DEF TypeOK, BeginRound, Places
<1>6. CASE Piece
  <2>1. now' \in Nat
    BY <1>0, <1>6, WaitsAssumption DEF Piece
  <2>2. need' \in 0 .. b.bytes
    BY <1>0, <1>6 DEF TypeOK, Piece
  <2>3. pc' \in Places /\ done' \in Nat
    BY <1>0, <1>6 DEF TypeOK, Piece, AfterMessage, Places
  <2> QED
    BY <1>6, <2>1, <2>2, <2>3 DEF TypeOK, Piece, TimerAfterPiece
<1>7. CASE TimesOut
  <2>1. now' \in Nat
    BY <1>0, <1>s, <1>7 DEF TimesOut
  <2> QED
    BY <1>7, <2>1 DEF TypeOK, TimesOut
<1>8. CASE Return
  BY <1>8 DEF TypeOK, Return
<1>9. CASE Done
  BY <1>9 DEF TypeOK, Done, vars
<1>10. CASE Resolve
  <2>1. now' \in Nat /\ lookup' \in Nat
    BY <1>0, <1>10, LookupsAssumption DEF Resolve
  <2> QED
    BY <1>10, <2>1 DEF TypeOK, Resolve, Places
<1> QED
  BY <1>10, <1>1, <1>2, <1>3, <1>4, <1>5, <1>6, <1>7, <1>8, <1>9 DEF Next

\* Type correctness, and no step is ever given more than connect_timeout_ms
\* rounded up to whole seconds.
THEOREM TypeCorrect == Spec => []TypeOK
<1>1. Init => TypeOK
  <2> SUFFICES ASSUME Init PROVE TypeOK
    OBVIOUS
  <2>1. b \in Budgets /\ b.start \in Nat /\ b.bytes \in Nat /\ b.connect \in Nat
    BY BudgetFields DEF Init
  <2>2. Seconds(b.connect) \in 1 .. Seconds(b.connect)
    BY <2>1, ConnectSeconds
  <2> QED
    BY <2>1, <2>2 DEF Init, TypeOK, Places
<1>2. TypeOK /\ [Next]_vars => TypeOK'
  BY TypeStep
<1> QED
  BY <1>1, <1>2, PTL DEF Spec

-----------------------------------------------------------------------------

\* One step keeps the timers' invariant and, with it, both bounds.
LEMMA TimersStep ==
    ASSUME TypeOK, Timers, MessageBounded, DeadlineHolds, [Next]_vars
    PROVE  (Timers /\ MessageBounded /\ DeadlineHolds)'
<1>0. /\ now \in Nat /\ end \in Nat /\ armed \in Nat /\ armed >= 1 /\ began \in Nat
      /\ b.start \in Nat /\ b.total \in Nat /\ b.rounds \in Nat /\ lookup \in Nat
  <2>1. Seconds(b.connect) \in Nat
    BY ConnectSeconds DEF TypeOK
  <2> QED
    BY <2>1, BudgetFields DEF TypeOK
<1>s. /\ SecondsNow \in Nat /\ 1000 * SecondsNow <= now /\ now <= 1000 * SecondsNow + 999
  BY <1>0 DEF SecondsNow
<1>l. Seconds(Left) \in Nat /\ Seconds(Left) >= 1
  <2>1. Left \in Int
    BY LeftBounds
  <2> QED
    BY <2>1, SecondsBounds
<1>1. CASE UNCHANGED vars
  BY <1>1 DEF Timers, MessageBounded, DeadlineHolds, vars
<1>2. CASE Connect
  <2>1. now = b.start /\ began = b.start /\ outcome = "none" /\ pc = "connect"
        /\ lookup = 0 /\ lookup' = 0
    BY <1>0, <1>2 DEF Connect, Timers
  <2>2. b.total > 0 => 1000 * Seconds(Left) <= b.total + 999
    BY <1>0, <2>1, LeftBounds DEF Spent
  <2>3. now' \in Nat /\ now <= now' /\ now' <= now + 1000 * Seconds(Left)
    BY <1>0, <1>2, <1>l, WaitsAssumption DEF Connect
  <2>4. pc' \in {"connect", "arm", "tls", "connected"} /\ (pc' = "tls" => b.rounds > 0)
    BY <1>2, <2>1 DEF Connect, AfterConnect
  <2>5. (pc' = "connect" => outcome' # "none") /\ b' = b /\ began' = began /\ armed' = Seconds(Left)
    BY <1>2, <2>1 DEF Connect, AfterConnect
  <2>6. Timers'
    BY <1>0, <2>1, <2>3, <2>4, <2>5 DEF Timers
  <2>7. MessageBounded'
    BY <1>0, <1>l, <2>1, <2>3, <2>5 DEF MessageBounded
  <2>8. DeadlineHolds'
    BY <1>0, <1>l, <2>1, <2>2, <2>3, <2>5 DEF DeadlineHolds
  <2> QED
    BY <2>6, <2>7, <2>8
<1>3. CASE Arm
  <2>1. CASE outcome' = "timeout"
    BY <1>3, <2>1 DEF Arm, Timers, MessageBounded, DeadlineHolds
  <2>2. CASE ~Spent /\ pc' = "exchange"
    <3>1. /\ armed' = Seconds(Left) /\ end' = SecondsNow + Seconds(Left) /\ began' = now
          /\ now' = now /\ b' = b /\ pc = "arm" /\ outcome' = "none" /\ lookup' = 0
      BY <1>3, <2>2 DEF Arm
    <3>2. b.total > 0 => 1000 * Seconds(Left) <= b.start + b.total - now + 999
      BY <2>2, LeftBounds
    <3>3. end' = began' \div 1000 + armed' /\ now' <= 1000 * end' + 999
      BY <1>0, <1>s, <1>l, <3>1 DEF SecondsNow
    <3>4. Timers'
      BY <1>0, <1>l, <2>2, <3>1, <3>2, <3>3 DEF Timers
    <3>5. MessageBounded'
      BY <1>0, <1>l, <3>1 DEF MessageBounded
    <3>6. DeadlineHolds'
      BY <1>0, <2>2, <3>1 DEF DeadlineHolds, Spent
    <3> QED
      BY <3>4, <3>5, <3>6
  <2> QED
    BY <1>3, <2>1, <2>2 DEF Arm
<1>4. CASE ArmHandshake
  BY <1>4 DEF ArmHandshake, Timers, MessageBounded, DeadlineHolds
<1>5. CASE BeginRound
  <2>1. /\ armed' = armed /\ end' = SecondsNow + armed /\ began' = now /\ now' = now /\ b' = b
        /\ pc' = "handshake" /\ b.rounds > 0 /\ outcome' = "none"
        /\ lookup = 0 /\ lookup' = 0
    BY <1>0, <1>5 DEF BeginRound, Timers
  <2>2. end' = began' \div 1000 + armed' /\ now' <= 1000 * end' + 999
    BY <1>0, <1>s, <2>1 DEF SecondsNow
  <2>3. Timers'
    BY <1>0, <2>1, <2>2 DEF Timers
  <2>4. MessageBounded'
    BY <1>0, <2>1 DEF MessageBounded
  <2>5. DeadlineHolds'
    BY <1>0, <2>1 DEF DeadlineHolds
  <2> QED
    BY <2>3, <2>4, <2>5
<1>6. CASE Piece \/ TimesOut
  <2>1. /\ armed' = armed /\ end' = end /\ began' = began /\ b' = b /\ outcome = "none"
        /\ pc \in {"exchange", "handshake"} /\ lookup = 0 /\ lookup' = 0
    BY <1>0, <1>6 DEF Timers, Piece, TimesOut, TimerAfterPiece
  <2>2. now' \in Nat /\ now <= now' /\ now' <= 1000 * end + 999
    <3>1. end = began \div 1000 + armed /\ now <= 1000 * end + 999
      BY <2>1 DEF Timers
    <3>2. CASE Piece
      BY <1>0, <1>s, <3>2, WaitsAssumption DEF Piece
    <3>3. CASE TimesOut
      BY <1>0, <1>s, <3>1, <3>3 DEF TimesOut
    <3> QED
      BY <1>6, <3>2, <3>3
  <2>3. /\ pc = "exchange" => pc' \in {"exchange", "resolve", "arm", "tls", "connected"}
        /\ pc = "handshake" => pc' \in {"handshake", "round", "connected"}
        /\ pc' = "tls" => b.rounds > 0
    BY <1>6, <2>1 DEF Piece, TimesOut, AfterMessage
  <2>4. 1000 * end <= began + 1000 * armed
    BY <1>0, <2>1 DEF Timers
  <2>5. Timers'
    BY <1>0, <2>1, <2>2, <2>3 DEF Timers
  <2>6. MessageBounded'
    <3>1. now' <= began + 1000 * armed + 999
      BY <1>0, <2>2, <2>4
    <3> QED
      BY <1>0, <2>1, <2>2, <3>1 DEF MessageBounded
  <2>7. DeadlineHolds'
    <3>1. CASE pc = "exchange"
      <4>1. b.total > 0 => 1000 * armed <= b.start + b.total - began + 999
        BY <3>1 DEF Timers
      <4> QED
        BY <1>0, <2>1, <2>2, <2>4, <4>1 DEF DeadlineHolds
    <3>2. CASE pc = "handshake"
      <4>1. b.rounds > 0
        BY <3>2 DEF Timers
      <4> QED
        BY <1>0, <2>1, <2>3, <3>2, <4>1 DEF DeadlineHolds
    <3> QED
      BY <2>1, <3>1, <3>2
  <2> QED
    BY <2>5, <2>6, <2>7
<1>8. CASE Return
  BY <1>8 DEF Return, Timers, MessageBounded, DeadlineHolds
<1>9. CASE Done
  BY <1>9 DEF Done, vars, Timers, MessageBounded, DeadlineHolds
<1>10. CASE Resolve
  <2>1. PICK wait \in Lookups : now' = now + wait /\ lookup' = lookup + wait
    BY <1>10 DEF Resolve
  <2>2. wait \in Nat
    BY LookupsAssumption
  <2>3. /\ armed' = armed /\ began' = began /\ b' = b /\ pc = "resolve"
        /\ (pc' = "arm" \/ (pc' = pc /\ outcome' # "none"))
    BY <1>10 DEF Resolve
  <2>4. Timers'
    BY <1>0, <2>1, <2>2, <2>3 DEF Timers
  <2>5. MessageBounded'
    BY <1>0, <2>1, <2>2, <2>3 DEF MessageBounded
  <2>6. DeadlineHolds'
    BY <1>0, <2>1, <2>2, <2>3 DEF DeadlineHolds
  <2> QED
    BY <2>4, <2>5, <2>6
<1> QED
  BY <1>10, <1>1, <1>2, <1>3, <1>4, <1>5, <1>6, <1>8, <1>9 DEF Next

\* The bounds hold when a dial starts.
LEMMA TimersInit == Init => Timers /\ MessageBounded /\ DeadlineHolds
<1> SUFFICES ASSUME Init PROVE Timers /\ MessageBounded /\ DeadlineHolds
  OBVIOUS
<1>1. /\ b.start \in Nat /\ b.total \in Nat /\ b.connect \in Nat
      /\ now = b.start /\ began = b.start /\ pc = "connect" /\ armed = Seconds(b.connect)
      /\ lookup = 0
  BY BudgetFields DEF Init
<1>2. Seconds(b.connect) \in Nat
  BY ConnectSeconds DEF Init
<1>3. Timers
  BY <1>1 DEF Timers
<1>4. MessageBounded
  BY <1>1, <1>2 DEF MessageBounded
<1>5. DeadlineHolds
  BY <1>1 DEF DeadlineHolds
<1> QED
  BY <1>3, <1>4, <1>5

\* Every message of a dial is over within its timeout plus one second, however
\* many pieces the peer cuts it into; a lookup after it is not counted.
THEOREM MessagesBounded == Spec => []MessageBounded
<1>1. TypeOK /\ Timers /\ MessageBounded /\ DeadlineHolds /\ [Next]_vars
        => (Timers /\ MessageBounded /\ DeadlineHolds)'
  BY TimersStep
<1> QED
  BY <1>1, TimersInit, TypeCorrect, PTL DEF Spec

\* Connect and SOCKS5 conversation end less than two seconds after the total
\* timeout and what the one lookup of socks5:// took, for every timeout, every proxy
\* and every time Windows takes for the lookup. The lookup itself has no bound, so
\* this is no bound on the dial of a socks5:// host name; it says that nothing but
\* the lookup adds to the budget and that nothing is begun after it is spent.
THEOREM DeadlineRespected == Spec => []DeadlineHolds
<1>1. TypeOK /\ Timers /\ MessageBounded /\ DeadlineHolds /\ [Next]_vars
        => (Timers /\ MessageBounded /\ DeadlineHolds)'
  BY TimersStep
<1> QED
  BY <1>1, TimersInit, TypeCorrect, PTL DEF Spec
=============================================================================
