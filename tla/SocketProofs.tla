---------------------------- MODULE SocketProofs ----------------------------
(***************************************************************************)
(* Theorems about the sockets: BaseSock, the overlapped socket, for every  *)
(* amount of data, all lengths and any number of calls; then SocketLife    *)
(* and Ping, the sockets of the process, for any number of threads,        *)
(* objects, handles and pings. Spec, TypeOK and None are those of          *)
(* BaseSock, ProcessSpec and Nobody those of the process.                  *)
(***************************************************************************)
EXTENDS BaseSock, Ping, FiniteSetTheorems, SequenceTheorems, TLAPS

-----------------------------------------------------------------------------
(* Consecutive numbers. *)

\* A run of consecutive numbers is a sequence, as long as it says.
LEMMA NumbersType ==
    ASSUME NEW a \in Nat, NEW n \in Nat
    PROVE  /\ Numbers(a, n) \in Seq(Nat) /\ Len(Numbers(a, n)) = n
           /\ DOMAIN Numbers(a, n) = 1 .. n
           /\ \A i \in 1 .. n : Numbers(a, n)[i] = a + i
BY DEF Numbers

\* Two runs, the second of which begins where the first ends, are one run.
LEMMA NumbersConcat ==
    ASSUME NEW a \in Nat, NEW m \in Nat, NEW n \in Nat
    PROVE  Numbers(a, m) \o Numbers(a + m, n) = Numbers(a, m + n)
<1> DEFINE p == Numbers(a, m)
           q == Numbers(a + m, n)
           r == Numbers(a, m + n)
<1>1. /\ p \in Seq(Nat) /\ Len(p) = m /\ \A i \in 1 .. m : p[i] = a + i
      /\ q \in Seq(Nat) /\ Len(q) = n /\ \A i \in 1 .. n : q[i] = a + m + i
      /\ r \in Seq(Nat) /\ Len(r) = m + n /\ \A i \in 1 .. m + n : r[i] = a + i
  <2>1. a + m \in Nat /\ m + n \in Nat
    OBVIOUS
  <2> QED
    BY <2>1, NumbersType
<1> HIDE DEF p, q, r
<1>2. /\ p \o q \in Seq(Nat) /\ Len(p \o q) = m + n
      /\ \A i \in 1 .. m + n : (p \o q)[i] = IF i <= m THEN p[i] ELSE q[i - m]
  BY <1>1, ConcatProperties
<1>3. ASSUME NEW i \in 1 .. m + n PROVE (p \o q)[i] = r[i]
  <2>1. CASE i <= m
    BY <1>1, <1>2, <2>1
  <2>2. CASE i > m
    <3>1. i - m \in 1 .. n /\ a + m + (i - m) = a + i
      BY <2>2
    <3>2. q[i - m] = a + m + (i - m)
      BY <1>1, <3>1
    <3> QED
      BY <1>1, <1>2, <2>2, <3>1, <3>2
  <2>3. i <= m \/ i > m
    OBVIOUS
  <2> QED
    BY <2>1, <2>2, <2>3
<1>4. p \o q = r
  BY <1>1, <1>2, <1>3, SeqEqual
<1> QED
  BY <1>4 DEF p, q, r

\* The same for runs from the start, in one fact to rewrite with.
LEMMA NumbersFromStart ==
    \A m, n \in Nat : /\ Numbers(0, m) \o Numbers(m, n) = Numbers(0, m + n)
                      /\ Numbers(0, m) \in Seq(Nat) /\ Len(Numbers(m, n)) = n
                      /\ Numbers(m, n) \in Seq(Nat)
<1> SUFFICES ASSUME NEW m \in Nat, NEW n \in Nat
             PROVE  /\ Numbers(0, m) \o Numbers(m, n) = Numbers(0, m + n)
                    /\ Numbers(0, m) \in Seq(Nat) /\ Len(Numbers(m, n)) = n
                    /\ Numbers(m, n) \in Seq(Nat)
  OBVIOUS
<1>1. 0 \in Nat /\ 0 + m = m
  OBVIOUS
<1>2. Numbers(0, m) \o Numbers(0 + m, n) = Numbers(0, m + n)
  BY <1>1, NumbersConcat
<1> QED
  BY <1>1, <1>2, NumbersType

-----------------------------------------------------------------------------
(* The overlapped socket. *)

\* What holds of the callers that keep to a read they left active, before a call is
\* begun over an operation under way.
Sound == ~misused /\ TypeOK /\ RecvTruthful /\ Kept

\* What the types say, in the form the steps need.
LEMMA SoundTypes ==
    ASSUME TypeOK, ~misused, "lua" \notin Callers
    PROVE  /\ c \in {"once", "again"}
           /\ arg.len \in Nat /\ arg.min \in Nat /\ 1 <= arg.min /\ arg.min <= arg.len
           /\ total \in Nat /\ total <= arg.len
           /\ taken \in Nat /\ taken <= Total /\ Total \in Nat
           /\ Len(reported) \in Nat /\ reported \in Seq(Nat)
           /\ os.bytes \in Nat /\ os.status \in {"zero", "pending", "done", "error"}
           /\ os.event \in {"none", "read", "write"}
BY BaseSockAssumption DEF TypeOK, RecvArg

\* Steps that change nothing but where the call is and what it returned.
LEMMA SoundControl ==
    ASSUME "lua" \notin Callers, Sound,
           RecvExpired \/ RecvResume \/ RecvWoken \/ RecvGivesUp
           \/ SendReturn \/ SendWoken \/ SendGivesUp
    PROVE  Sound'
<1> USE SoundTypes DEF Sound, call, events, kernel
<1>0. /\ UNCHANGED <<c, calls, arg, home, misused, total, RecvInitiated, os, read_event, write_event, kread,
                     kwrite, taken, buffer, reported, sent>>
      /\ pc' \in {"idle", "rwait", "rget", "sget", "closed"}
      /\ result' \in Int /\ c \in {"once", "again"}
  BY DEF RecvExpired, RecvResume, RecvWoken, RecvGivesUp, SendReturn, SendWoken, SendGivesUp,
         ReturnError, None, TypeOK
<1>1. ~misused' /\ TypeOK' /\ RecvTruthful'
  BY <1>0 DEF TypeOK, RecvTruthful
<1>2. pc # "closed" /\ ReadKept /\ BytesAccounted /\ WriteKept
  BY DEF Kept, RecvExpired, RecvResume, RecvWoken, RecvGivesUp, SendReturn, SendWoken, SendGivesUp
<1>3. ASSUME pc' # "closed" PROVE ReadKept'
  <2>1. ActiveRead' = ActiveRead /\ (Reading' => Reading)
    <3>1. ActiveRead' = ActiveRead
      BY <1>0 DEF ActiveRead
    <3>2. Reading' => Reading
      BY <1>0 DEF Reading, RecvExpired, RecvResume, RecvWoken, RecvGivesUp, SendReturn, SendWoken,
         SendGivesUp, ReturnError
    <3> QED
      BY <3>1, <3>2
  <2>2. CASE RecvExpired \/ RecvGivesUp
    BY <1>0, <1>2, <1>3, <2>1, <2>2 DEF ReadKept, RecvExpired, RecvGivesUp, ReturnError
  <2>3. CASE RecvResume
    BY <1>0, <1>2, <2>1, <2>3 DEF ReadKept, RecvResume, LeftActive
  <2>4. CASE RecvWoken
    BY <1>0, <1>2, <2>1, <2>4 DEF ReadKept, ActiveRead, RecvWoken
  <2>5. CASE SendReturn \/ SendWoken \/ SendGivesUp
    <3>1. pc \in {"send", "swait"} /\ pc' \in {"idle", "sget", "closed"}
      BY <2>5 DEF SendReturn, SendWoken, SendGivesUp, ReturnError
    <3>2. ~RecvInitiated /\ kread = {} /\ ~Reading'
      BY <1>0, <1>2, <3>1 DEF ReadKept, Reading
    <3> QED
      BY <1>0, <3>1, <3>2 DEF ReadKept
  <2> QED
    BY <2>2, <2>3, <2>4, <2>5
<1>4. ASSUME pc' # "closed" PROVE BytesAccounted'
  BY <1>0, <1>2, <1>4 DEF BytesAccounted, ReadKept, Landed, Reading, RecvExpired, RecvResume, RecvWoken,
     RecvGivesUp, SendReturn, SendWoken, SendGivesUp, ReturnError
<1>5. ASSUME pc' # "closed" PROVE WriteKept'
  BY <1>0, <1>2, <1>5 DEF WriteKept, ActiveWrite, WriteUnderWay, SendExact, RecvExpired, RecvResume, RecvWoken,
     RecvGivesUp, SendReturn, SendWoken, SendGivesUp, ReturnError
<1> QED
  BY <1>1, <1>3, <1>4, <1>5 DEF Kept

\* A call of Recv or Send begins with no other operation under way, or with the
\* read it takes up again.
LEMMA SoundCall ==
    ASSUME "lua" \notin Callers, Sound, Caller, ~misused'
    PROVE  Sound'
<1> USE SoundTypes DEF Sound
<1>0. pc = "idle" /\ ReadKept /\ BytesAccounted /\ WriteKept /\ c \in {"once", "again"}
  BY DEF Caller, RecvCall, SendCall, Kept
<1>1. ASSUME NEW a \in RecvArgs, RecvCall(a) PROVE Sound'
  <2>0. a \in RecvArg
    BY BaseSockAssumption
  <2>1. /\ UNCHANGED <<c, result, RecvInitiated, os, read_event, write_event, kwrite, taken,
                       reported, sent>>
        /\ calls' \in 0 .. MaxCalls /\ arg' = a /\ total' = 0 /\ pc' = "recv"
        /\ c = "again" => a.min = 1 /\ (RecvInitiated => a = home)
        /\ home' = a /\ kwrite = {} /\ misused' = misused /\ misused \in BOOLEAN
    <3>1. kwrite = {} /\ misused' \in BOOLEAN
      BY <1>1 DEF RecvCall
    <3>2. misused' = misused /\ misused \in BOOLEAN
      BY <3>1 DEF TypeOK
    <3> QED
      <4>1. calls' \in 0 .. MaxCalls
        BY <1>1, BaseSockAssumption DEF RecvCall, TypeOK
      <4> QED
        BY <1>1, <3>1, <3>2, <4>1 DEF RecvCall, events
  <2>2. CASE RecvInitiated
    <3>1. c = "again" /\ total = 0 /\ a = arg
      BY <1>0, <2>1, <2>2 DEF ReadKept, Reading
    <3>2. UNCHANGED <<buffer, kread, arg, home, total>>
      BY <1>0, <1>1, <2>1, <2>2, <3>1 DEF RecvCall
    <3>3. ~misused' /\ TypeOK' /\ RecvTruthful'
      BY <2>1, <3>1, <3>2 DEF TypeOK, RecvTruthful
    <3>4. ReadKept'
      BY <1>0, <2>1, <2>2, <3>1, <3>2 DEF ReadKept, ActiveRead, Reading
    <3>5. BytesAccounted'
      BY <1>0, <2>1, <2>2, <3>2 DEF BytesAccounted, Landed, Reading
    <3>6. WriteKept'
      BY <1>0, <2>1 DEF WriteKept, SendExact
    <3> QED
      BY <3>3, <3>4, <3>5, <3>6 DEF Kept
  <2>3. CASE ~RecvInitiated
    <3>1. kread = {} /\ kread' = {} /\ buffer' = Empty
      BY <1>0, <1>1, <2>3 DEF RecvCall, ReadKept
    <3>2. a.len \in Nat /\ total' \in 0 .. a.len /\ DOMAIN buffer' = {}
      BY <2>0, <2>1, <3>1 DEF RecvArg, Empty
    <3>3. ~misused' /\ TypeOK' /\ RecvTruthful'
      BY <2>0, <2>1, <3>1, <3>2 DEF TypeOK, RecvTruthful
    <3>4. ReadKept'
      BY <1>0, <2>1, <2>3, <3>1 DEF ReadKept, Reading
    <3>5. BytesAccounted'
      BY <1>0, <2>1, <2>3 DEF BytesAccounted, Landed, Reading
    <3>6. WriteKept'
      BY <1>0, <2>1 DEF WriteKept, SendExact
    <3> QED
      BY <3>3, <3>4, <3>5, <3>6 DEF Kept
  <2> QED
    BY <2>2, <2>3
<1>2. ASSUME NEW len \in SendLens, SendCall(len) PROVE Sound'
  <2>0. len \in Nat \ {0} /\ [len |-> len, min |-> len] \in RecvArg
    BY BaseSockAssumption DEF RecvArg
  <2>1. /\ UNCHANGED <<c, result, RecvInitiated, os, read_event, write_event, kread, kwrite, taken,
                       buffer, reported>>
        /\ calls' \in 0 .. MaxCalls /\ arg' = [len |-> len, min |-> len] /\ total' = 0
        /\ sent' = <<>> /\ pc' = "send" /\ UNCHANGED <<home, misused>> /\ misused \in BOOLEAN
    <3>1. misused' \in BOOLEAN /\ misused \in BOOLEAN
      BY <1>2 DEF SendCall, TypeOK
    <3> QED
      <4>1. calls' \in 0 .. MaxCalls
        BY <1>2, BaseSockAssumption DEF SendCall, TypeOK
      <4>2. misused' = misused
        BY <3>1
      <4> QED
        BY <1>2, <3>1, <4>1, <4>2 DEF SendCall, events, kernel
  <2>2. ~RecvInitiated /\ kread = {} /\ kwrite = {}
    BY <1>0, <1>2 DEF SendCall, ReadKept, WriteKept
  <2>3. total' \in 0 .. arg'.len
    BY <2>0, <2>1
  <2>4. ~misused' /\ TypeOK' /\ RecvTruthful'
    BY <2>0, <2>1, <2>3 DEF TypeOK, RecvTruthful
  <2>5. ReadKept'
    BY <2>1, <2>2 DEF ReadKept, Reading
  <2>6. BytesAccounted'
    BY <1>0, <2>1, <2>2 DEF BytesAccounted, Reading
  <2>7. Numbers(0, 0) = <<>>
    BY DEF Numbers
  <2>8. WriteKept'
    BY <2>1, <2>2, <2>7 DEF WriteKept, SendExact
  <2> QED
    BY <2>4, <2>5, <2>6, <2>8 DEF Kept
<1> QED
  BY <1>1, <1>2 DEF Caller

\* What a Recv reports continues what was reported before.
LEMMA ReportContinues ==
    ASSUME TypeOK, ~misused, RecvTruthful, "lua" \notin Callers,
           \A i \in 1 .. total : i \in DOMAIN buffer /\ buffer[i] = Len(reported) + i
    PROVE  /\ reported \o Told(total) = Numbers(0, Len(reported) + total)
           /\ reported \o Told(total) \in Seq(Nat)
           /\ Len(reported \o Told(total)) = Len(reported) + total
<1> DEFINE R == Len(reported)
<1>0. R \in Nat /\ total \in Nat /\ 0 + R = R /\ R + total \in Nat
  BY SoundTypes
<1>1. Told(total) = Numbers(R, total)
  BY DEF Told, At, Numbers
<1>2. reported = Numbers(0, R)
  BY DEF RecvTruthful
<1> HIDE DEF R
<1>3. Numbers(0, R) \o Numbers(0 + R, total) = Numbers(0, R + total)
  BY <1>0, NumbersConcat
<1>4. reported \o Told(total) = Numbers(0, R + total)
  BY <1>0, <1>1, <1>2, <1>3
<1>5. Numbers(0, R + total) \in Seq(Nat) /\ Len(Numbers(0, R + total)) = R + total
  BY <1>0, NumbersType
<1> QED
  BY <1>4, <1>5 DEF R

\* Recv returns what it has, at its minimum or at the end of the connection, or fails.
LEMMA SoundRecvEnd ==
    ASSUME "lua" \notin Callers, Sound, RecvReturn \/ RecvResult
    PROVE  Sound'
<1> USE SoundTypes DEF Sound, call, events, kernel
<1>0. /\ pc # "closed" /\ ReadKept /\ BytesAccounted /\ WriteKept /\ Reading
      /\ c \in {"once", "again"} /\ kwrite = {}
      /\ UNCHANGED <<c, calls, arg, home, misused, os, read_event, write_event, kread, kwrite, taken, buffer, sent>>
  BY DEF RecvReturn, RecvResult, Kept, Reading, WriteKept
<1>1. \A i \in 1 .. total + Landed : i \in DOMAIN buffer /\ buffer[i] = Len(reported) + i
  BY <1>0 DEF BytesAccounted
<1>2. Landed \in Nat
  BY DEF Landed
<1>3. /\ reported \o Told(total) = Numbers(0, Len(reported) + total)
      /\ reported \o Told(total) \in Seq(Nat)
      /\ Len(reported \o Told(total)) = Len(reported) + total
  <2>1. \A i \in 1 .. total : i \in 1 .. total + Landed
    BY <1>2
  <2> QED
    BY <1>1, <2>1, ReportContinues
\* The two ways out with a result.
<1>4. ASSUME result' = total, reported' = reported \o Told(total), pc' = "idle",
             RecvInitiated' = FALSE, kread = {}, UNCHANGED total, Landed = 0
      PROVE  Sound'
  <2>1. result' \in Int
    BY <1>4
  <2>2. TypeOK'
    BY <1>0, <1>3, <1>4, <2>1 DEF TypeOK
  <2>3. RecvTruthful' /\ ~misused'
    BY <1>0, <1>3, <1>4 DEF RecvTruthful
  <2>4. ReadKept'
    BY <1>0, <1>4 DEF ReadKept, Reading
  <2>5. BytesAccounted'
    BY <1>0, <1>3, <1>4 DEF BytesAccounted, Reading
  <2>6. WriteKept'
    BY <1>0, <1>4 DEF WriteKept, SendExact
  <2> QED
    BY <2>2, <2>3, <2>4, <2>5, <2>6 DEF Kept
<1>5. CASE RecvReturn
  <2>1. /\ pc = "recv" /\ total >= arg.min /\ UNCHANGED <<total, RecvInitiated>>
        /\ result' = total /\ reported' = reported \o Told(total) /\ pc' = "idle"
    BY <1>5 DEF RecvReturn
  <2>2. RecvInitiated = FALSE
    BY <1>0, <2>1 DEF ReadKept, Reading, TypeOK
  <2>3. kread = {} /\ Landed = 0
    BY <1>0, <2>2 DEF ReadKept, Landed
  <2> QED
    BY <1>4, <2>1, <2>2, <2>3
<1>6. CASE RecvResult
  <2>0. /\ pc = "rget" /\ RecvInitiated /\ RecvInitiated' = FALSE /\ ActiveRead
        /\ os.status # "pending" /\ kread = {} /\ total < arg.min
    BY <1>0, <1>6 DEF RecvResult, ReadKept, ActiveRead
  <2>1. CASE os.status = "done" /\ os.bytes > 0
    <3>1. /\ total' = total + os.bytes /\ pc' = "recv" /\ UNCHANGED <<result, reported>>
      BY <1>6, <2>1 DEF RecvResult
    <3>2. os.bytes <= arg.len - total /\ Landed = os.bytes
      BY <2>0, <2>1 DEF ActiveRead, Landed
    <3>3. total' \in 0 .. arg.len /\ total' \in Nat
      BY <3>1, <3>2
    <3>4. ~misused' /\ TypeOK' /\ RecvTruthful'
      <4>1. total' <= arg'.len /\ ~misused' /\ RecvTruthful'
        BY <1>0, <3>1, <3>3 DEF RecvTruthful
      <4>2. pc' = "recv" /\ RecvInitiated' = FALSE /\ total' \in Nat
        BY <2>0, <3>1, <3>3
      <4> QED
        BY <1>0, <3>1, <4>1, <4>2 DEF TypeOK
    <3>5. ReadKept'
      BY <1>0, <2>0, <3>1 DEF ReadKept, Reading
    <3>6. BytesAccounted'
      <4>1. Reading' /\ Landed' = 0 /\ total' = total + Landed
        BY <2>0, <3>1, <3>2 DEF Reading, Landed
      <4>2. taken = Len(reported) + total + Landed
        BY <1>0, <1>2 DEF BytesAccounted
      <4> HIDE DEF Landed
      <4> QED
        BY <1>0, <1>1, <1>2, <3>1, <4>1, <4>2 DEF BytesAccounted
    <3>7. WriteKept'
      BY <1>0, <3>1 DEF WriteKept, SendExact
    <3> QED
      BY <3>4, <3>5, <3>6, <3>7 DEF Kept
  <2>2. CASE os.status = "done" /\ os.bytes = 0
    <3>1. result' = total /\ reported' = reported \o Told(total) /\ pc' = "idle" /\ UNCHANGED total
      BY <1>6, <2>2 DEF RecvResult
    <3>2. Landed = 0
      BY <2>2 DEF Landed
    <3> QED
      BY <1>4, <2>0, <3>1, <3>2
  <2>3. CASE os.status = "error"
    <3>1. /\ result' = None /\ pc' = (IF c = "once" THEN "closed" ELSE "idle")
          /\ UNCHANGED <<total, reported>>
      BY <1>6, <2>3 DEF RecvResult, ReturnError
    <3>2. result' \in Int /\ pc' \in {"closed", "idle"}
      BY <3>1 DEF None
    <3>3. ~misused' /\ TypeOK' /\ RecvTruthful'
      BY <1>0, <2>0, <3>1, <3>2 DEF TypeOK, RecvTruthful
    <3>4. ASSUME c = "again" PROVE ReadKept' /\ BytesAccounted' /\ WriteKept'
      <4>1. total = 0 /\ Landed = 0 /\ taken = Len(reported)
        BY <1>0, <2>0, <2>3, <3>4 DEF ReadKept, BytesAccounted, Landed
      <4> QED
        BY <1>0, <2>0, <3>1, <3>4, <4>1
           DEF ReadKept, BytesAccounted, WriteKept, SendExact, Reading
    <3> QED
      BY <1>0, <3>1, <3>3, <3>4 DEF Kept
  <2>4. os.status \in {"done", "error"} /\ (os.bytes = 0 \/ os.bytes > 0)
    <3>1. os.bytes \in Nat
      BY SoundTypes
    <3> QED
      BY <2>0, <3>1 DEF ActiveRead
  <2> QED
    BY <2>1, <2>2, <2>3, <2>4
<1> QED
  BY <1>5, <1>6

\* k fresh bytes behind the ones the buffer holds.
LEMMA FilledContinues ==
    ASSUME TypeOK, ~misused, "lua" \notin Callers, NEW k \in Nat, taken = Len(reported) + total,
           \A i \in 1 .. total : i \in DOMAIN buffer /\ buffer[i] = Len(reported) + i
    PROVE  /\ DOMAIN Filled(total, k) \subseteq Nat
           /\ \A i \in DOMAIN Filled(total, k) : Filled(total, k)[i] \in Nat
           /\ \A i \in 1 .. total + k :
                 i \in DOMAIN Filled(total, k) /\ Filled(total, k)[i] = Len(reported) + i
<1>0. total \in Nat /\ Len(reported) \in Nat
  BY SoundTypes
<1>1. DOMAIN Filled(total, k) = DOMAIN buffer \cup ((total + 1) .. (total + k))
  BY DEF Filled
<1>2. ASSUME NEW i \in 1 .. total + k
      PROVE  i \in DOMAIN Filled(total, k) /\ Filled(total, k)[i] = Len(reported) + i
  <2>1. CASE i \in 1 .. total
    <3>1. i \in DOMAIN buffer /\ buffer[i] = Len(reported) + i /\ i \notin (total + 1) .. (total + k)
      BY <1>0, <2>1
    <3> QED
      BY <1>1, <3>1 DEF Filled
  <2>2. CASE i \in (total + 1) .. (total + k)
    <3>1. Filled(total, k)[i] = taken + (i - total)
      BY <1>1, <2>2 DEF Filled
    <3> QED
      BY <1>0, <1>1, <2>2, <3>1
  <2> QED
    BY <1>0, <2>1, <2>2
<1>3. ASSUME NEW i \in DOMAIN Filled(total, k) PROVE Filled(total, k)[i] \in Nat
  <2>1. CASE i \in (total + 1) .. (total + k)
    BY <1>0, <1>2, <2>1
  <2>2. CASE i \notin (total + 1) .. (total + k)
    BY <1>1, <2>2 DEF Filled, TypeOK
  <2> QED
    BY <2>1, <2>2
<1> QED
  BY <1>0, <1>1, <1>2, <1>3 DEF TypeOK

\* A read is started only when none is active, behind what the buffer holds.
LEMMA SoundRecvStart ==
    ASSUME "lua" \notin Callers, Sound, RecvStart
    PROVE  Sound'
<1> USE SoundTypes DEF Sound, call, Offset, Room, EventAtStart, LeftActive
<1>0. /\ pc = "recv" /\ ReadKept /\ BytesAccounted /\ WriteKept /\ Reading
      /\ c \in {"once", "again"} /\ kwrite = {} /\ kread = {} /\ total < arg.min
      /\ RecvInitiated = FALSE /\ RecvInitiated' = TRUE /\ Landed = 0
      /\ UNCHANGED <<c, calls, arg, home, misused, total, write_event, kwrite, reported, sent>>
  BY DEF RecvStart, Kept, Reading, WriteKept, ReadKept, TypeOK, Landed
<1>1. /\ taken = Len(reported) + total
      /\ \A i \in 1 .. total : i \in DOMAIN buffer /\ buffer[i] = Len(reported) + i
  BY <1>0 DEF BytesAccounted
<1>a. c = "again" => total = 0 /\ arg.min = 1
  BY <1>0 DEF ReadKept
<1>2. CASE /\ kread' = {[mine |-> TRUE, by |-> calls, at |-> total, room |-> arg.len - total]}
           /\ os' = Pending("read") /\ read_event' = FALSE /\ pc' = "rwait"
           /\ UNCHANGED <<result, taken, buffer>>
  <2>1. /\ os'.status = "pending" /\ os'.bytes = 0 /\ os'.event = "read"
        /\ os' \in [status : {"zero", "pending", "done", "error"}, bytes : Nat,
                    event : {"none", "read", "write"}]
    BY <1>2 DEF Pending
  <2>2. arg.len - total \in Nat /\ calls \in 0 .. MaxCalls /\ calls \in Nat
    BY BaseSockAssumption DEF TypeOK
  <2>3. TypeOK'
    <3>1. kread' \subseteq [mine : BOOLEAN, by : Nat, at : Nat, room : Nat]
      BY <1>2, <2>2
    <3> QED
      BY <1>0, <1>2, <2>1, <3>1 DEF TypeOK
  <2>4. ActiveRead'
    BY <1>0, <1>2, <2>1, <2>2 DEF ActiveRead
  <2>5. ReadKept'
    BY <1>0, <1>a, <1>2, <2>1, <2>4 DEF ReadKept
  <2>6. BytesAccounted'
    BY <1>0, <1>1, <1>2, <2>1 DEF BytesAccounted, Reading, Landed
  <2>7. WriteKept' /\ RecvTruthful' /\ ~misused'
    BY <1>0, <1>2 DEF WriteKept, SendExact, RecvTruthful
  <2> QED
    BY <2>3, <2>5, <2>6, <2>7 DEF Kept
<1>3. ASSUME NEW k \in {0} \cup Arrivals(arg.len - total),
             buffer' = Filled(total, k), taken' = taken + k, os' = Done(k, "read"),
             read_event' = TRUE, pc' = "rget", UNCHANGED <<result, kread>>
      PROVE  Sound'
  <2>1. k \in Nat /\ k <= arg.len - total /\ taken' \in 0 .. Total
    BY <1>3 DEF Arrivals
  <2>2. /\ os'.status = "done" /\ os'.bytes = k /\ os'.event = "read"
        /\ os' \in [status : {"zero", "pending", "done", "error"}, bytes : Nat,
                    event : {"none", "read", "write"}]
    BY <1>3, <2>1 DEF Done
  <2>3. /\ DOMAIN buffer' \subseteq Nat /\ (\A i \in DOMAIN buffer' : buffer'[i] \in Nat)
        /\ \A i \in 1 .. total + k : i \in DOMAIN buffer' /\ buffer'[i] = Len(reported) + i
    BY <1>1, <1>3, <2>1, FilledContinues
  <2>4. TypeOK'
    BY <1>0, <1>3, <2>1, <2>2, <2>3 DEF TypeOK
  <2>5. ReadKept'
    BY <1>0, <1>a, <1>3, <2>1, <2>2 DEF ReadKept, ActiveRead
  <2>6. BytesAccounted'
    <3>1. Landed' = k /\ Reading'
      BY <1>0, <2>2 DEF Landed, Reading
    <3> QED
      BY <1>0, <1>1, <1>3, <2>1, <2>3, <3>1 DEF BytesAccounted
  <2>7. WriteKept' /\ RecvTruthful' /\ ~misused'
    BY <1>0, <1>3 DEF WriteKept, SendExact, RecvTruthful
  <2> QED
    BY <2>4, <2>5, <2>6, <2>7 DEF Kept
<1>4. CASE /\ os' = Error("read") /\ read_event' = FALSE /\ ReturnError
           /\ UNCHANGED <<kread, taken, buffer>>
  <2>1. /\ os'.status = "error" /\ os'.event = "read"
        /\ os' \in [status : {"zero", "pending", "done", "error"}, bytes : Nat,
                    event : {"none", "read", "write"}]
    BY <1>4 DEF Error
  <2>2. result' \in Int /\ pc' = (IF c = "once" THEN "closed" ELSE "idle")
    BY <1>4 DEF ReturnError, None
  <2>3. ~misused' /\ TypeOK' /\ RecvTruthful'
    BY <1>0, <1>4, <2>1, <2>2 DEF TypeOK, RecvTruthful
  <2>4. ASSUME c = "again" PROVE ReadKept' /\ BytesAccounted' /\ WriteKept'
    <3>1. ReadKept'
      BY <1>0, <1>a, <1>4, <2>1, <2>2, <2>4 DEF ReadKept, ActiveRead
    <3>2. BytesAccounted'
      BY <1>0, <1>1, <1>4, <2>1 DEF BytesAccounted, Reading, Landed
    <3>3. WriteKept'
      BY <1>0, <2>2, <2>4 DEF WriteKept, SendExact
    <3> QED
      BY <3>1, <3>2, <3>3
  <2> QED
    BY <1>0, <2>2, <2>3, <2>4 DEF Kept
<1> QED
  BY <1>0, <1>2, <1>3, <1>4 DEF RecvStart

\* A read completes into the rest of the buffer it was started for.
LEMMA SoundReadCompletes ==
    ASSUME "lua" \notin Callers, Sound, NEW r \in kread, ReadCompletes(r)
    PROVE  Sound'
<1> USE SoundTypes DEF Sound, call
<1>0. /\ pc # "closed" /\ ReadKept /\ BytesAccounted /\ WriteKept
      /\ UNCHANGED <<c, pc, calls, arg, home, misused, total, result, RecvInitiated, write_event, kwrite,
                     reported, sent>>
      /\ read_event' = TRUE
  BY DEF ReadCompletes, Kept
<1>1. /\ RecvInitiated /\ os.status = "pending" /\ os.event = "read" /\ Landed = 0 /\ Reading
      /\ r.mine = TRUE /\ r.at = total /\ r.room = arg.len - total /\ kread' = {}
      /\ pc \in {"idle", "recv", "rwait"}
  <2>1. RecvInitiated /\ ActiveRead /\ os.event = "read"
    BY <1>0 DEF ReadKept
  <2>2. PICK b \in 0 .. MaxCalls :
           kread = {[mine |-> TRUE, by |-> b, at |-> total, room |-> arg.len - total]}
    BY <2>1 DEF ActiveRead
  <2>3. os.status = "pending" /\ Landed = 0 /\ Reading
    BY <2>1 DEF ActiveRead, Landed, Reading
  <2>4. r = [mine |-> TRUE, by |-> b, at |-> total, room |-> arg.len - total] /\ kread' = {}
    BY <2>2 DEF ReadCompletes
  <2>5. pc \in {"idle", "recv", "rwait"}
    BY <1>0, <2>1, <2>3 DEF ReadKept
  <2> QED
    BY <2>1, <2>3, <2>4, <2>5
<1>2. /\ taken = Len(reported) + total
      /\ \A i \in 1 .. total : i \in DOMAIN buffer /\ buffer[i] = Len(reported) + i
  BY <1>0, <1>1 DEF BytesAccounted
<1>w. WriteKept' /\ RecvTruthful' /\ ~misused'
  <2>1. ~misused' /\ RecvTruthful'
    BY <1>0 DEF RecvTruthful
  <2>2. kwrite = {}
    BY <1>0, <1>1 DEF WriteKept, WriteUnderWay, ActiveWrite
  <2>3. WriteKept'
    BY <1>0, <1>1, <2>2 DEF WriteKept, SendExact
  <2> QED
    BY <2>1, <2>3
<1>3. ASSUME NEW k \in {0} \cup Arrivals(arg.len - total),
             os' = Done(k, "read"), buffer' = Filled(total, k), taken' = taken + k
      PROVE  Sound'
  <2>1. k \in Nat /\ k <= arg.len - total /\ taken' \in 0 .. Total
    BY <1>3 DEF Arrivals
  <2>2. /\ os'.status = "done" /\ os'.bytes = k /\ os'.event = "read"
        /\ os' \in [status : {"zero", "pending", "done", "error"}, bytes : Nat,
                    event : {"none", "read", "write"}]
    BY <1>3, <2>1 DEF Done
  <2>3. /\ DOMAIN buffer' \subseteq Nat /\ (\A i \in DOMAIN buffer' : buffer'[i] \in Nat)
        /\ \A i \in 1 .. total + k : i \in DOMAIN buffer' /\ buffer'[i] = Len(reported) + i
    BY <1>2, <1>3, <2>1, FilledContinues
  <2>4. TypeOK'
    BY <1>0, <1>1, <1>3, <2>1, <2>2, <2>3 DEF TypeOK
  <2>5. ReadKept'
    <3>1. ActiveRead'
      BY <1>0, <1>1, <2>1, <2>2 DEF ActiveRead
    <3> QED
      BY <1>0, <1>1, <2>2, <3>1 DEF ReadKept, Reading
  <2>6. BytesAccounted'
    <3>1. Landed' = k /\ Reading'
      BY <1>0, <1>1, <2>2 DEF Landed, Reading
    <3> QED
      BY <1>0, <1>2, <1>3, <2>1, <2>3, <3>1 DEF BytesAccounted
  <2> QED
    BY <1>w, <2>4, <2>5, <2>6 DEF Kept
<1>4. CASE os' = Error("read") /\ UNCHANGED <<buffer, taken>>
  <2>1. /\ os'.status = "error" /\ os'.event = "read"
        /\ os' \in [status : {"zero", "pending", "done", "error"}, bytes : Nat,
                    event : {"none", "read", "write"}]
    BY <1>4 DEF Error
  <2>2. TypeOK'
    BY <1>0, <1>1, <1>4, <2>1 DEF TypeOK
  <2>3. ReadKept'
    BY <1>0, <1>1, <2>1 DEF ReadKept, Reading, ActiveRead
  <2>4. BytesAccounted'
    BY <1>0, <1>1, <1>2, <1>4, <2>1 DEF BytesAccounted, Reading, Landed
  <2> QED
    BY <1>w, <2>2, <2>3, <2>4 DEF Kept
<1> QED
  BY <1>1, <1>3, <1>4 DEF ReadCompletes

\* The types of the OVERLAPPED, whoever sets it.
LEMMA OverlappedTypes ==
    ASSUME NEW n \in Nat, NEW e \in {"read", "write"}
    PROVE  \A o \in {Pending(e), Done(n, e), Error(e)} :
              o \in [status : {"zero", "pending", "done", "error"}, bytes : Nat,
                     event : {"none", "read", "write"}]
BY DEF Pending, Done, Error

\* While a Send runs nothing of a Recv is open, and the bytes are where they were.
LEMMA SendLeavesReads ==
    ASSUME Kept, ~misused, pc \in {"send", "swait", "sget"},
           pc' \in {"idle", "send", "swait", "sget"},
           UNCHANGED <<c, arg, home, RecvInitiated, kread, taken, buffer, reported>>
    PROVE  ReadKept' /\ BytesAccounted'
<1>1. ReadKept /\ BytesAccounted /\ ~RecvInitiated /\ kread = {}
  BY DEF Kept, ReadKept
<1>2. ~Reading /\ ~Reading'
  BY <1>1 DEF Reading
<1> QED
  BY <1>1, <1>2 DEF ReadKept, BytesAccounted

\* Behind a Send that failed, whether its write is under way or not.
LEMMA SendLeft ==
    ASSUME Kept, pc \in {"send", "swait", "sget"}, pc' = "idle",
           UNCHANGED <<c, arg, home, RecvInitiated, kread, taken, buffer, reported>>,
           kwrite' = {} \/ WriteUnderWay', misused' = misused
    PROVE  Kept'
<1>1. CASE ~misused
  <2>1. ReadKept' /\ BytesAccounted'
    BY <1>1, SendLeavesReads
  <2>2. WriteKept'
    BY DEF WriteKept, SendExact
  <2> QED
    BY <2>1, <2>2 DEF Kept
<1> QED
  BY <1>1 DEF Kept

\* A write is started with the rest of the caller's bytes; a failed one ends the call.
LEMMA SoundSendStart ==
    ASSUME "lua" \notin Callers, Sound, SendStart
    PROVE  Sound'
<1> USE SoundTypes DEF Sound, call, Part
<1>0. /\ pc = "send" /\ WriteKept /\ kwrite = {} /\ sent = Numbers(0, total) /\ total < arg.len
      /\ c \in {"once", "again"} /\ total \in Nat /\ arg.len \in Nat
      /\ UNCHANGED <<c, calls, arg, home, misused, total, RecvInitiated, read_event, kread, taken, buffer, reported>>
  BY DEF SendStart, Kept, WriteKept, SendExact
<1>1. arg.len - total \in Nat
  BY <1>0
<1>2. CASE /\ kwrite' = {Numbers(total, arg.len - total)} /\ os' = Pending("write")
           /\ write_event' = FALSE /\ UNCHANGED sent
           /\ \/ pc' = "swait" /\ UNCHANGED result
              \/ result' = None /\ pc' \in {"idle", "closed"}
  <2>1. Numbers(total, arg.len - total) \in Seq(Nat)
    BY <1>0, <1>1, NumbersType
  <2>2. /\ os' \in [status : {"zero", "pending", "done", "error"}, bytes : Nat,
                    event : {"none", "read", "write"}]
        /\ os'.status = "pending" /\ os'.event = "write"
    BY <1>2, OverlappedTypes DEF Pending
  <2>3. kwrite' \subseteq Seq(Nat) /\ result' \in Int
    BY <1>2, <2>1 DEF TypeOK, None
  <2>4. ~misused' /\ TypeOK' /\ RecvTruthful'
    BY <1>0, <1>2, <2>2, <2>3 DEF TypeOK, RecvTruthful
  <2>5. ASSUME pc' = "swait" PROVE ReadKept' /\ BytesAccounted' /\ WriteKept'
    <3>1. ReadKept' /\ BytesAccounted'
      BY <1>0, <2>5, SendLeavesReads
    <3>2. WriteKept'
      BY <1>0, <1>2, <2>2, <2>5 DEF WriteKept, ActiveWrite, WriteUnderWay, SendExact
    <3> QED
      BY <3>1, <3>2
  <2>6. ASSUME pc' = "idle" PROVE Kept'
    <3>1. WriteUnderWay'
      BY <1>0, <1>2, <2>2 DEF WriteUnderWay
    <3> QED
      BY <1>0, <2>6, <3>1, SendLeft
  <2> QED
    BY <1>0, <1>2, <2>4, <2>5, <2>6 DEF Kept
<1>3. ASSUME NEW k \in 1 .. (arg.len - total), sent' = sent \o Numbers(total, k),
             os' = Done(k, "write"), write_event' = TRUE, UNCHANGED kwrite,
             \/ pc' = "sget" /\ UNCHANGED result
             \/ result' = None /\ pc' \in {"idle", "closed"}
      PROVE  Sound'
  <2>1. k \in Nat /\ total + k \in Nat /\ 0 + total = total
    BY <1>0
  <2>2. sent' = Numbers(0, total + k)
    <3>1. Numbers(0, total) \o Numbers(total, k) = Numbers(0, total + k)
      BY <1>0, <2>1, NumbersFromStart
    <3> QED
      BY <1>0, <1>3, <3>1
  <2>3. sent' \in Seq(Nat)
    BY <2>1, <2>2, NumbersType
  <2>4. /\ os' \in [status : {"zero", "pending", "done", "error"}, bytes : Nat,
                    event : {"none", "read", "write"}]
        /\ os'.status = "done" /\ os'.bytes = k /\ os'.event = "write"
    BY <1>3, <2>1, OverlappedTypes DEF Done
  <2>5. result' \in Int
    BY <1>3 DEF TypeOK, None
  <2>6. ~misused' /\ TypeOK' /\ RecvTruthful'
    BY <1>0, <1>3, <2>3, <2>4, <2>5 DEF TypeOK, RecvTruthful
  <2>7. ASSUME pc' = "sget" PROVE ReadKept' /\ BytesAccounted' /\ WriteKept'
    <3>1. ReadKept' /\ BytesAccounted'
      BY <1>0, <2>7, SendLeavesReads
    <3>2. WriteKept'
      BY <1>0, <1>3, <2>2, <2>4, <2>7 DEF WriteKept, ActiveWrite, SendExact
    <3> QED
      BY <3>1, <3>2
  <2>8. ASSUME pc' = "idle" PROVE Kept'
    BY <1>0, <1>3, <2>8, SendLeft
  <2> QED
    BY <1>0, <1>3, <2>6, <2>7, <2>8 DEF Kept
<1>4. CASE /\ os' = Error("write") /\ write_event' = FALSE /\ result' = None
           /\ pc' \in {"idle", "closed"}
           /\ UNCHANGED <<sent, kwrite>>
  <2>1. /\ os' \in [status : {"zero", "pending", "done", "error"}, bytes : Nat,
                    event : {"none", "read", "write"}]
        /\ result' \in Int
    BY <1>4, OverlappedTypes DEF None
  <2>2. ~misused' /\ TypeOK' /\ RecvTruthful'
    BY <1>0, <1>4, <2>1 DEF TypeOK, RecvTruthful
  <2>3. Kept'
    BY <1>0, <1>4, SendLeft DEF Kept
  <2> QED
    BY <2>2, <2>3
<1> QED
  BY <1>0, <1>2, <1>3, <1>4 DEF SendStart, ReturnError

\* The result of a write: on to the rest, or the end of the call.
LEMMA SoundSendResult ==
    ASSUME "lua" \notin Callers, Sound, SendResult
    PROVE  Sound'
<1> USE SoundTypes DEF Sound, call, events, kernel
<1>0. /\ pc = "sget" /\ WriteKept /\ ActiveWrite /\ kwrite = {} /\ os.status \in {"done", "error"}
      /\ c \in {"once", "again"} /\ total \in Nat /\ arg.len \in Nat
      /\ UNCHANGED <<c, calls, arg, home, misused, RecvInitiated, os, read_event, write_event, kread, kwrite, taken,
                     buffer, reported, sent>>
  BY DEF SendResult, Kept, WriteKept, ActiveWrite
<1>1. CASE os.status = "done" /\ os.bytes > 0
  <2>1. /\ os.bytes \in 1 .. arg.len - total /\ sent = Numbers(0, total + os.bytes)
        /\ total' = total + os.bytes /\ pc' = "send" /\ UNCHANGED result
    BY <1>0, <1>1 DEF ActiveWrite, SendResult
  <2>2. total' \in 0 .. arg.len
    BY <1>0, <2>1
  <2>3. ~misused' /\ TypeOK' /\ RecvTruthful'
    BY <1>0, <2>1, <2>2 DEF TypeOK, RecvTruthful
  <2>4. ReadKept' /\ BytesAccounted'
    BY <1>0, <2>1, SendLeavesReads
  <2>5. WriteKept'
    BY <1>0, <2>1 DEF WriteKept, SendExact
  <2> QED
    BY <2>3, <2>4, <2>5 DEF Kept
<1>2. CASE ~(os.status = "done" /\ os.bytes > 0)
  <2>1. os.status = "error"
    BY <1>0, <1>2 DEF ActiveWrite
  <2>2. result' = None /\ pc' \in {"idle", "closed"} /\ UNCHANGED total
    BY <1>0, <1>2, <2>1 DEF SendResult, ReturnError
  <2>3. result' \in Int
    BY <2>2 DEF None
  <2>4. ~misused' /\ TypeOK' /\ RecvTruthful'
    BY <1>0, <2>2, <2>3 DEF TypeOK, RecvTruthful
  <2>5. Kept'
    BY <1>0, <2>2, SendLeft DEF Kept
  <2> QED
    BY <2>4, <2>5
<1> QED
  BY <1>1, <1>2

\* A write completes with all of its bytes, or fails.
LEMMA SoundWriteCompletes ==
    ASSUME "lua" \notin Callers, Sound, NEW w \in kwrite, WriteCompletes(w)
    PROVE  Sound'
<1> USE SoundTypes DEF Sound, call
<1>0. /\ pc # "closed" /\ WriteKept
      /\ UNCHANGED <<c, pc, calls, arg, home, misused, total, result, RecvInitiated, read_event, kread, taken,
                     buffer, reported>>
      /\ write_event' = TRUE /\ kwrite' = kwrite \ {w}
  BY DEF WriteCompletes, Kept
<1>1. os.event = "write" /\ WriteUnderWay /\ pc \in {"swait", "idle"}
      /\ (pc = "swait" => ActiveWrite /\ total < arg.len)
  BY <1>0 DEF WriteKept, ActiveWrite, WriteUnderWay
<1>2. /\ w = Numbers(total, arg.len - total) /\ kwrite' = {} /\ sent = Numbers(0, total)
      /\ total \in Nat /\ arg.len - total \in Nat
  BY <1>0, <1>1 DEF WriteUnderWay
<1>3. ReadKept' /\ BytesAccounted'
  <2>1. ~RecvInitiated /\ ~Reading
    BY <1>0, <1>1 DEF Kept, ReadKept, Reading
  <2> QED
    BY <1>0, <1>1, <2>1 DEF Kept, ReadKept, BytesAccounted, Reading
<1>4. Len(w) = arg.len - total /\ w \in Seq(Nat)
  BY <1>2, NumbersType
<1>5. CASE os' = Done(Len(w), "write") /\ sent' = sent \o w
  <2>1. total + Len(w) \in Nat /\ 0 + total = total
    BY <1>0, <1>1, <1>2, <1>4
  <2>2. sent' = Numbers(0, total + Len(w))
    <3>1. Numbers(0, total) \o Numbers(total, Len(w)) = Numbers(0, total + Len(w))
      BY <1>2, <1>4, NumbersFromStart
    <3> QED
      BY <1>2, <1>4, <1>5, <3>1
  <2>3. sent' \in Seq(Nat)
    BY <2>1, <2>2, NumbersType
  <2>4. /\ os' \in [status : {"zero", "pending", "done", "error"}, bytes : Nat,
                    event : {"none", "read", "write"}]
        /\ os'.status = "done" /\ os'.bytes = Len(w) /\ os'.event = "write"
        /\ (pc = "swait" => Len(w) \in 1 .. arg.len - total)
    BY <1>1, <1>2, <1>4, <1>5, <2>1, OverlappedTypes DEF Done
  <2>5. ~misused' /\ TypeOK' /\ RecvTruthful'
    BY <1>0, <1>2, <2>3, <2>4 DEF TypeOK, RecvTruthful
  <2>6. WriteKept'
    BY <1>0, <1>1, <1>2, <2>1, <2>2, <2>4 DEF WriteKept, ActiveWrite, WriteUnderWay, SendExact
  <2> QED
    BY <1>3, <2>5, <2>6 DEF Kept
<1>6. CASE os' = Error("write") /\ UNCHANGED sent
  <2>1. /\ os' \in [status : {"zero", "pending", "done", "error"}, bytes : Nat,
                    event : {"none", "read", "write"}]
        /\ os'.status = "error" /\ os'.event = "write"
    BY <1>6, OverlappedTypes DEF Error
  <2>2. ~misused' /\ TypeOK' /\ RecvTruthful'
    BY <1>0, <1>2, <1>6, <2>1 DEF TypeOK, RecvTruthful
  <2>3. WriteKept'
    BY <1>0, <1>1, <1>2, <2>1 DEF WriteKept, ActiveWrite, WriteUnderWay, SendExact
  <2> QED
    BY <1>3, <2>2, <2>3 DEF Kept
<1> QED
  BY <1>1, <1>5, <1>6 DEF WriteCompletes

\* The invariant is inductive, until a call is begun over an operation under way.
LEMMA SoundStep ==
    ASSUME "lua" \notin Callers, Sound, [Next]_vars, ~misused'
    PROVE  Sound'
<1>1. CASE Handler
  BY <1>1, SoundControl, SoundRecvEnd, SoundRecvStart, SoundSendStart, SoundSendResult DEF Handler
<1>2. CASE Kernel
  BY <1>2, SoundReadCompletes, SoundWriteCompletes DEF Kernel
<1>3. CASE Caller
  BY <1>3, SoundCall
<1>4. CASE UNCHANGED vars
  <2>1. UNCHANGED <<c, pc, calls, arg, home, misused, total, result, RecvInitiated, os, read_event, write_event,
                    kread, kwrite, taken, buffer, reported, sent>>
    BY <1>4 DEF vars, call, events, kernel
  <2>2. TypeOK' = TypeOK /\ RecvTruthful' = RecvTruthful
    BY <2>1 DEF TypeOK, RecvTruthful
  <2>3. ReadKept' = ReadKept
    BY <2>1 DEF ReadKept, ActiveRead, Reading
  <2>4. BytesAccounted' = BytesAccounted
    BY <2>1 DEF BytesAccounted, Reading, Landed
  <2>5. WriteKept' = WriteKept
    BY <2>1 DEF WriteKept, ActiveWrite, WriteUnderWay, SendExact
  <2> QED
    BY <2>1, <2>2, <2>3, <2>4, <2>5 DEF Sound, Kept
<1> QED
  BY <1>1, <1>2, <1>3, <1>4 DEF Next

LEMMA SoundInit ==
    ASSUME Init
    PROVE  Sound /\ OneRead
<1> USE DEF Init
<1>1. arg.len = 1 /\ arg.min = 1 /\ total = 0 /\ Len(reported) = 0 /\ Total \in Nat /\ MaxCalls \in Nat
  BY BaseSockAssumption
<1>2. /\ arg \in RecvArg /\ home \in RecvArg /\ total \in 0 .. arg.len /\ calls \in 0 .. MaxCalls
      /\ result \in Int /\ taken \in 0 .. Total /\ DOMAIN buffer = {}
  BY <1>1 DEF RecvArg, Empty
<1>a. /\ os \in [status : {"zero", "pending", "done", "error"}, bytes : Nat,
                 event : {"none", "read", "write"}]
      /\ reported \in Seq(Nat) /\ sent \in Seq(Nat)
  OBVIOUS
<1>b. kread \subseteq [mine : BOOLEAN, by : Nat, at : Nat, room : Nat] /\ kwrite \subseteq Seq(Nat)
  OBVIOUS
<1>c. c \in Callers /\ pc = "idle" /\ misused \in BOOLEAN /\ total \in Nat /\ total <= arg.len
  <2>1. 0 \in Nat /\ 0 <= 1
    OBVIOUS
  <2>2. misused \in BOOLEAN
    OBVIOUS
  <2> QED
    BY <1>1, <2>1, <2>2
<1>3. TypeOK
  BY <1>1, <1>2, <1>a, <1>b, <1>c DEF TypeOK
<1>4. RecvTruthful
  BY <1>1 DEF RecvTruthful, Numbers
<1>5. ReadKept /\ BytesAccounted /\ WriteKept /\ OneRead
  BY <1>1 DEF ReadKept, BytesAccounted, WriteKept, Reading, SendExact, OneRead
<1> QED
  BY <1>3, <1>4, <1>5 DEF Sound, Kept

\* Lengths are numbers.
LEMMA RecvArgNat ==
    ASSUME NEW a \in RecvArg
    PROVE  a.len \in Nat /\ a.min \in Nat
BY DEF RecvArg

\* A step of a call or of the kernel crosses no two operations.
LEMMA CrossedByCalls ==
    ASSUME Handler \/ Kernel
    PROVE  UNCHANGED <<calls, arg, home, misused>>
BY DEF Handler, Kernel, RecvReturn, RecvExpired, RecvResume, RecvStart, RecvWoken, RecvGivesUp,
   RecvResult, SendReturn, SendStart, SendWoken, SendGivesUp, SendResult, ReadCompletes,
   WriteCompletes, call

\* The buffer holds numbers of bytes, wherever a read puts fresh ones.
LEMMA FilledTypes ==
    ASSUME TypeOK, NEW at \in Nat, NEW k \in Nat
    PROVE  /\ DOMAIN Filled(at, k) \subseteq Nat
           /\ \A i \in DOMAIN Filled(at, k) : Filled(at, k)[i] \in Nat
<1>1. DOMAIN Filled(at, k) = DOMAIN buffer \cup ((at + 1) .. (at + k)) /\ taken \in Nat
  BY BaseSockAssumption DEF Filled, TypeOK
<1>2. ASSUME NEW i \in DOMAIN Filled(at, k) PROVE Filled(at, k)[i] \in Nat
  <2>1. CASE i \in (at + 1) .. (at + k)
    <3>1. Filled(at, k)[i] = taken + (i - at) /\ i - at \in Nat
      BY <1>1, <2>1 DEF Filled
    <3> QED
      BY <1>1, <3>1
  <2>2. CASE i \notin (at + 1) .. (at + k)
    BY <1>1, <2>2 DEF Filled, TypeOK
  <2> QED
    BY <2>1, <2>2
<1> QED
  BY <1>1, <1>2 DEF TypeOK

\* What a caller is told is numbers of bytes.
LEMMA ToldTypes ==
    ASSUME TypeOK
    PROVE  reported \o Told(total) \in Seq(Nat)
<1>1. ASSUME NEW i \in 1 .. total PROVE At(i) \in Nat
  BY DEF At, TypeOK
<1>2. Told(total) \in Seq(Nat)
  BY <1>1 DEF Told, TypeOK
<1> QED
  BY <1>2 DEF TypeOK

\* The variables keep to their ranges also when two operations share os.
LEMMA TypeStep ==
    ASSUME TypeOK, Next, misused'
    PROVE  TypeOK'
<1> USE DEF call, events, kernel
<1>0. /\ MaxCalls \in Nat /\ Total \in Nat /\ RecvArgs \subseteq RecvArg /\ SendLens \subseteq Nat \ {0}
      /\ calls \in Nat /\ total \in Nat /\ total \in Int /\ taken \in Nat /\ os.bytes \in Nat
      /\ kread \subseteq [mine : BOOLEAN, by : Nat, at : Nat, room : Nat]
      /\ kwrite \subseteq Seq(Nat) /\ sent \in Seq(Nat)
      /\ os.event \in {"none", "read", "write"} /\ None \in Int
  BY BaseSockAssumption DEF TypeOK, None
<1>a. arg.len \in Nat /\ arg.min \in Nat /\ arg.min <= arg.len
  BY DEF TypeOK, RecvArg
<1>b. \A n \in Nat, e \in {"none", "read", "write"} : \A o \in {Pending(e), Done(n, e), Error(e)} :
         o \in [status : {"zero", "pending", "done", "error"}, bytes : Nat,
                event : {"none", "read", "write"}]
  BY DEF Pending, Done, Error
<1>1. ASSUME NEW a \in RecvArgs, RecvCall(a) PROVE TypeOK'
  <2>1. /\ calls' \in 0 .. MaxCalls /\ arg' \in RecvArg /\ home' \in RecvArg /\ total' \in Nat
        /\ misused' \in BOOLEAN /\ pc' = "recv"
    BY <1>0, <1>1 DEF RecvCall
  <2>2. kread' \subseteq [mine : BOOLEAN, by : Nat, at : Nat, room : Nat]
    <3>1. ASSUME NEW r \in kread
          PROVE  [r EXCEPT !.mine = FALSE] \in [mine : BOOLEAN, by : Nat, at : Nat, room : Nat]
      BY <1>0
    <3>2. {[r EXCEPT !.mine = FALSE] : r \in kread} \subseteq [mine : BOOLEAN, by : Nat, at : Nat, room : Nat]
      BY <3>1
    <3> QED
      BY <1>0, <1>1, <3>2 DEF RecvCall
  <2>3. DOMAIN buffer' \subseteq Nat /\ \A i \in DOMAIN buffer' : buffer'[i] \in Nat
    BY <1>1 DEF RecvCall, Empty, TypeOK
  <2>4. UNCHANGED <<c, result, RecvInitiated, os, read_event, write_event, kwrite, taken, reported, sent>>
    BY <1>1 DEF RecvCall
  <2> QED
    BY <2>1, <2>2, <2>3, <2>4 DEF TypeOK
<1>2. ASSUME NEW len \in SendLens, SendCall(len) PROVE TypeOK'
  <2>1. [len |-> len, min |-> len] \in RecvArg
    BY <1>0 DEF RecvArg
  <2>2. calls' \in 0 .. MaxCalls /\ total' \in Nat /\ misused' \in BOOLEAN /\ sent' \in Seq(Nat)
    BY <1>0, <1>2 DEF SendCall
  <2>3. /\ UNCHANGED <<c, home, result, RecvInitiated, os, read_event, write_event, kread, kwrite,
                       taken, buffer, reported>>
        /\ arg' \in RecvArg /\ pc' = "send"
    BY <1>2, <2>1 DEF SendCall
  <2> QED
    BY <2>2, <2>3 DEF TypeOK
<1>3. CASE RecvReturn
  <2>1. /\ UNCHANGED <<c, calls, arg, home, misused, total, RecvInitiated, os, read_event,
                       write_event, kread, kwrite, taken, buffer, sent>>
        /\ pc' = "idle" /\ result' \in Int /\ reported' \in Seq(Nat)
    BY <1>0, <1>3, ToldTypes DEF RecvReturn
  <2> QED
    BY <2>1 DEF TypeOK
<1>4. CASE RecvExpired \/ RecvGivesUp \/ SendGivesUp \/ RecvResume \/ RecvWoken \/ SendWoken
           \/ SendReturn
  <2>1. /\ UNCHANGED <<c, calls, arg, home, misused, total, RecvInitiated, os, read_event,
                       write_event, kread, kwrite, taken, buffer, reported, sent>>
        /\ pc' \in {"idle", "rwait", "rget", "sget", "closed"} /\ (UNCHANGED result \/ result' \in Int)
    BY <1>0, <1>4 DEF RecvExpired, RecvGivesUp, SendGivesUp, RecvResume, RecvWoken, SendWoken,
       SendReturn, ReturnError
  <2> QED
    BY <2>1 DEF TypeOK
<1>5. CASE RecvStart
  <2>0. /\ UNCHANGED <<c, calls, arg, home, misused, total, write_event, kwrite, reported, sent>>
        /\ RecvInitiated' = TRUE /\ total < arg.min
    BY <1>5 DEF RecvStart
  <2>a. arg.len - total \in Nat
    BY <1>0, <1>a, <2>0
  <2>1. CASE /\ kread' = kread \cup {[mine |-> TRUE, by |-> calls, at |-> total,
                                      room |-> arg.len - total]}
             /\ os' = Pending("read") /\ read_event' = FALSE
             /\ pc' = "rwait" /\ UNCHANGED <<result, taken, buffer>>
    <3>1. [mine |-> TRUE, by |-> calls, at |-> total, room |-> arg.len - total]
             \in [mine : BOOLEAN, by : Nat, at : Nat, room : Nat]
      BY <1>0, <2>a
    <3>2. kread' \subseteq [mine : BOOLEAN, by : Nat, at : Nat, room : Nat]
      BY <1>0, <2>1, <3>1
    <3> QED
      BY <1>b, <2>0, <2>1, <3>2 DEF TypeOK
  <2>2. ASSUME NEW k \in {0} \cup Arrivals(arg.len - total),
               buffer' = Filled(total, k), taken' = taken + k, os' = Done(k, "read"),
               read_event' = TRUE, pc' = "rget", UNCHANGED <<result, kread>>
        PROVE  TypeOK'
    <3>1. k \in Nat /\ taken' \in 0 .. Total
      BY <1>0, <2>a, <2>2 DEF Arrivals, TypeOK
    <3>2. DOMAIN buffer' \subseteq Nat /\ \A i \in DOMAIN buffer' : buffer'[i] \in Nat
      BY <1>0, <2>2, <3>1, FilledTypes
    <3> QED
      BY <1>b, <2>0, <2>2, <3>1, <3>2 DEF TypeOK
  <2>3. CASE os' = Error("read") /\ read_event' = FALSE /\ ReturnError /\ UNCHANGED <<kread, taken, buffer>>
    <3>1. result' \in Int /\ pc' \in {"closed", "idle"}
      BY <1>0, <2>3 DEF ReturnError
    <3> QED
      BY <1>b, <2>0, <2>3, <3>1 DEF TypeOK
  <2> QED
    BY <1>5, <2>1, <2>2, <2>3 DEF RecvStart, Offset, Room, EventAtStart
<1>6. CASE RecvResult
  <2>1. /\ UNCHANGED <<c, calls, arg, home, misused, os, read_event, write_event, kread, kwrite,
                       taken, buffer, sent>>
        /\ RecvInitiated' = FALSE
    BY <1>6 DEF RecvResult
  <2>2. /\ pc' \in {"recv", "idle", "closed"}
        /\ total' = total \/ total' = total + os.bytes
        /\ result' = result \/ result' = total \/ result' = None
        /\ reported' = reported \/ reported' = reported \o Told(total)
    BY <1>6 DEF RecvResult, ReturnError
  <2>3. /\ total' \in Nat /\ (result' = result \/ result' \in Int)
        /\ reported' = reported \/ reported' \in Seq(Nat)
    <3>1. reported \o Told(total) \in Seq(Nat)
      BY ToldTypes
    <3>2. total \in Nat /\ total \in Int /\ os.bytes \in Nat /\ None \in Int
      BY <1>0
    <3>3. total' \in Nat
      BY <2>2, <3>2
    <3> QED
      BY <2>2, <3>1, <3>2, <3>3
  <2> QED
    BY <2>1, <2>2, <2>3 DEF TypeOK
<1>7. CASE SendStart
  <2>0. /\ UNCHANGED <<c, calls, arg, home, misused, total, RecvInitiated, read_event, kread, taken,
                       buffer, reported>>
        /\ total < arg.len
    BY <1>7 DEF SendStart
  <2>a. arg.len - total \in Nat
    BY <1>0, <1>a, <2>0
  <2>1. ASSUME NEW n \in Nat PROVE Part(n) \in Seq(Nat)
    BY <1>0, <2>1, NumbersType DEF Part
  <2>2. /\ pc' \in {"swait", "sget", "idle", "closed"} /\ (result' = result \/ result' \in Int)
        /\ write_event' \in BOOLEAN
    BY <1>0, <1>7 DEF SendStart, ReturnError
  <2>3. CASE /\ kwrite' = kwrite \cup {Part(arg.len - total)} /\ os' = Pending("write")
             /\ UNCHANGED sent
    <3>1. kwrite' \subseteq Seq(Nat)
      BY <1>0, <2>a, <2>1, <2>3
    <3> QED
      BY <1>b, <2>0, <2>2, <2>3, <3>1 DEF TypeOK
  <2>4. ASSUME NEW k \in 1 .. (arg.len - total), sent' = sent \o Part(k), os' = Done(k, "write"),
               UNCHANGED kwrite
        PROVE  TypeOK'
    <3>1. sent' \in Seq(Nat) /\ k \in Nat
      BY <1>0, <2>a, <2>1, <2>4
    <3> QED
      BY <1>b, <2>0, <2>2, <2>4, <3>1 DEF TypeOK
  <2>5. CASE os' = Error("write") /\ UNCHANGED <<sent, kwrite>>
    BY <1>b, <2>0, <2>2, <2>5 DEF TypeOK
  <2> QED
    BY <1>7, <2>3, <2>4, <2>5 DEF SendStart
<1>8. CASE SendResult
  <2>1. /\ UNCHANGED <<c, calls, arg, home, misused, RecvInitiated, os, read_event, write_event,
                       kread, kwrite, taken, buffer, reported, sent>>
        /\ total' = total \/ total' = total + os.bytes
        /\ result' = result \/ result' = total \/ result' = None
        /\ pc' \in {"send", "idle", "closed"}
    BY <1>8 DEF SendResult, ReturnError
  <2>2. total' \in Nat /\ (result' = result \/ result' \in Int)
    BY <1>0, <2>1
  <2> QED
    BY <2>1, <2>2 DEF TypeOK
<1>9. ASSUME NEW r \in kread, ReadCompletes(r) PROVE TypeOK'
  <2>0. /\ UNCHANGED <<c, pc, calls, arg, home, misused, total, result, RecvInitiated, write_event,
                       kwrite, reported, sent>>
        /\ read_event' = TRUE /\ kread' \subseteq kread /\ r.at \in Nat
    BY <1>0, <1>9 DEF ReadCompletes
  <2>1. ASSUME NEW k \in {0} \cup Arrivals(r.room), os' = Done(k, os.event), taken' = taken + k,
               buffer' = IF r.mine THEN Filled(r.at, k) ELSE buffer
        PROVE  TypeOK'
    <3>1. k \in Nat /\ taken' \in 0 .. Total
      BY <1>0, <2>1 DEF Arrivals, TypeOK
    <3>2. DOMAIN buffer' \subseteq Nat /\ \A i \in DOMAIN buffer' : buffer'[i] \in Nat
      BY <2>0, <2>1, <3>1, FilledTypes DEF TypeOK
    <3> QED
      BY <1>0, <1>b, <2>0, <2>1, <3>1, <3>2 DEF TypeOK
  <2>2. CASE os' = Error(os.event) /\ UNCHANGED <<buffer, taken>>
    BY <1>0, <1>b, <2>0, <2>2 DEF TypeOK
  <2> QED
    BY <1>9, <2>1, <2>2 DEF ReadCompletes
<1>10. ASSUME NEW w \in kwrite, WriteCompletes(w) PROVE TypeOK'
  <2>0. /\ UNCHANGED <<c, pc, calls, arg, home, misused, total, result, RecvInitiated, read_event,
                       kread, taken, buffer, reported>>
        /\ write_event' = TRUE /\ kwrite' \subseteq kwrite
        /\ sent' = sent \o w \/ sent' = sent
        /\ os' = Done(Len(w), os.event) \/ os' = Error(os.event)
    BY <1>10 DEF WriteCompletes
  <2>1. w \in Seq(Nat) /\ Len(w) \in Nat
    BY <1>0, <1>10
  <2>2. sent' \in Seq(Nat)
    <3>1. sent \in Seq(Nat) /\ (sent' = sent \o w \/ sent' = sent)
      BY <1>0, <2>0
    <3>2. sent \o w \in Seq(Nat)
      BY <2>1, <3>1, ConcatProperties
    <3> QED
      BY <3>1, <3>2
  <2>3. os' \in [status : {"zero", "pending", "done", "error"}, bytes : Nat,
                 event : {"none", "read", "write"}]
    <3>1. CASE os' = Done(Len(w), os.event)
      BY <1>0, <1>b, <2>1, <3>1
    <3>2. CASE os' = Error(os.event)
      BY <1>0, <1>b, <2>1, <3>2
    <3> QED
      BY <2>0, <3>1, <3>2
  <2> QED
    BY <2>0, <2>2, <2>3 DEF TypeOK
<1> QED
  BY <1>1, <1>2, <1>3, <1>4, <1>5, <1>6, <1>7, <1>8, <1>9, <1>10 DEF Next, Handler, Kernel, Caller

\* There is one read at most, of the buffer the call that waits for it looks at, also
\* when another call takes os.
LEMMA OneReadStep ==
    ASSUME "lua" \notin Callers, TypeOK, OneRead, [Next]_vars
    PROVE  OneRead'
<1> USE DEF OneRead, call, events, kernel
<1>0. c \in {"once", "again"} /\ c' = c
  <2>1. c \in {"once", "again"}
    BY BaseSockAssumption DEF TypeOK
  <2>2. CASE UNCHANGED vars
    BY <2>1, <2>2 DEF vars
  <2> QED
    BY <2>1, <2>2 DEF Next, Handler, Kernel, Caller, RecvReturn, RecvExpired, RecvResume, RecvStart,
       RecvWoken, RecvGivesUp, RecvResult, SendReturn, SendStart, SendWoken, SendGivesUp, SendResult,
       ReadCompletes, WriteCompletes, RecvCall, SendCall
<1>1. ASSUME NEW a \in RecvArgs, RecvCall(a) PROVE OneRead'
  <2>1. /\ UNCHANGED <<RecvInitiated, read_event>> /\ pc = "idle" /\ pc' = "recv"
        /\ (kread' = kread \/ (~(RecvInitiated /\ c = "again") /\ kread' = {[r EXCEPT !.mine = FALSE] : r \in kread}))
    BY <1>1 DEF RecvCall
  <2>2. CASE kread = {}
    BY <1>0, <2>1, <2>2
  <2>3. CASE kread # {}
    BY <1>0, <2>1, <2>3
  <2> QED
    BY <2>2, <2>3
<1>2. ASSUME NEW len \in SendLens, SendCall(len) PROVE OneRead'
  BY <1>0, <1>2 DEF SendCall
<1>3. CASE RecvReturn \/ RecvResume \/ RecvWoken \/ SendReturn \/ SendWoken
  BY <1>0, <1>3 DEF RecvReturn, RecvResume, RecvWoken, SendReturn, SendWoken
<1>4. CASE RecvExpired \/ RecvGivesUp \/ SendGivesUp
  BY <1>0, <1>4 DEF RecvExpired, RecvGivesUp, SendGivesUp, ReturnError
<1>5. CASE RecvStart
  <2>1. kread = {} /\ RecvInitiated' = TRUE
    BY <1>5 DEF RecvStart, LeftActive
  <2>2. ASSUME kread' = {[mine |-> TRUE, by |-> calls, at |-> Offset, room |-> Room]},
               read_event' = FALSE, pc' = "rwait"
        PROVE  OneRead'
    BY <2>1, <2>2
  <2>3. ASSUME kread' = {}, c = "once" => pc' \in {"rget", "closed"} PROVE OneRead'
    BY <1>0, <2>1, <2>3
  <2> QED
    BY <1>0, <1>5, <2>1, <2>2, <2>3 DEF RecvStart, ReturnError, EventAtStart
<1>6. CASE RecvResult
  BY <1>0, <1>6 DEF RecvResult
<1>7. CASE SendStart \/ SendResult
  BY <1>0, <1>7 DEF SendStart, SendResult, ReturnError
<1>8. ASSUME NEW r \in kread, ReadCompletes(r) PROVE OneRead'
  <2>1. kread' = {} /\ UNCHANGED <<pc, RecvInitiated>>
    BY <1>8 DEF ReadCompletes
  <2> QED
    BY <1>0, <2>1
<1>9. ASSUME NEW w \in kwrite, WriteCompletes(w) PROVE OneRead'
  BY <1>0, <1>9 DEF WriteCompletes
<1>10. CASE UNCHANGED vars
  BY <1>0, <1>10 DEF vars
<1> QED
  BY <1>1, <1>2, <1>3, <1>4, <1>5, <1>6, <1>7, <1>8, <1>9, <1>10 DEF Next, Handler, Kernel, Caller

\* Once operations were crossed, they stay so.
LEMMA CrossedForGood ==
    ASSUME [Next]_vars, misused
    PROVE  misused'
<1>1. CASE Handler \/ Kernel
  BY <1>1, CrossedByCalls
<1>2. CASE Caller
  BY <1>2 DEF Caller, RecvCall, SendCall
<1>3. CASE UNCHANGED vars
  BY <1>3 DEF vars, call
<1> QED
  BY <1>1, <1>2, <1>3 DEF Next

\* The invariant of the callers that keep to a read they left active.
Whole == TypeOK /\ OneRead /\ (misused \/ Sound)

LEMMA SoundAlways ==
    ASSUME "lua" \notin Callers
    PROVE  Spec => []Whole
<1>1. Init => Whole
  BY SoundInit DEF Whole, Sound
<1>2. Whole /\ [Next]_vars => Whole'
  <2> SUFFICES ASSUME Whole, [Next]_vars PROVE Whole'
    OBVIOUS
  <2>0. TypeOK /\ OneRead /\ OneRead' /\ misused \in BOOLEAN
    BY OneReadStep DEF Whole, TypeOK
  <2>1. CASE ~misused'
    <3>1. Sound
      BY <2>1, CrossedForGood DEF Whole
    <3> QED
      BY <2>0, <2>1, <3>1, SoundStep DEF Whole, Sound
  <2>2. CASE misused'
    <3>1. CASE Next
      BY <2>0, <2>2, <3>1, TypeStep DEF Whole
    <3>2. CASE UNCHANGED vars
      <4>1. TypeOK' = TypeOK
        BY <3>2 DEF TypeOK, vars, call, events, kernel
      <4> QED
        BY <2>0, <2>2, <4>1 DEF Whole
    <3> QED
      BY <3>1, <3>2
  <2> QED
    BY <2>1, <2>2
<1> QED
  BY <1>1, <1>2, PTL DEF Spec

\* Recv and Send keep to the ranges of their variables, for callers that give up
\* the connection or come back with the same buffer.
THEOREM OverlappedTypeCorrect ==
    ASSUME "lua" \notin Callers
    PROVE  Spec => []TypeOK
<1>1. Whole => TypeOK
  BY DEF Whole
<1> QED
  BY <1>1, SoundAlways, PTL

\* Such callers are told the peer's bytes, each once and in order, however the
\* reads are split, time out and are taken up again, up to the first call begun over
\* an operation that is still under way.
THEOREM RecvTellsTheStream ==
    ASSUME "lua" \notin Callers
    PROVE  Spec => [](~misused => RecvTruthful)
<1>1. Whole => (~misused => RecvTruthful)
  BY DEF Whole, Sound
<1> QED
  BY <1>1, SoundAlways, PTL

\* A read that was left active writes to the buffer of the call that waits for it,
\* even when a Send has taken the OVERLAPPED it was started with.
THEOREM ActiveReadsLandHome ==
    ASSUME "lua" \notin Callers
    PROVE  Spec => []ReadsLandHome
<1>1. Whole => ReadsLandHome
  BY DEF Whole, OneRead, ReadsLandHome
<1> QED
  BY <1>1, SoundAlways, PTL

\* The one OVERLAPPED of reads and writes does not hold the other's result when a
\* wait has ended, nor one that is not there yet, as long as no call was begun over
\* an operation under way.
THEOREM EventsSpeakTheTruth ==
    ASSUME "lua" \notin Callers
    PROVE  Spec => []WokenMeansDone
<1>1. Whole => WokenMeansDone
  BY DEF Whole, Sound, Kept, ReadKept, WriteKept, ActiveWrite, WokenMeansDone
<1> QED
  BY <1>1, SoundAlways, PTL

\* A Send in several writes sends the caller's bytes once and in order.
THEOREM SendIsExact ==
    ASSUME "lua" \notin Callers
    PROVE  Spec => []SendExact
<1>1. Whole => SendExact
  BY DEF Whole, Sound, Kept, WriteKept, SendExact
<1> QED
  BY <1>1, SoundAlways, PTL

\* A step inside a call.
LEMMA SocketQuiet ==
    ASSUME Calling' = Calling, UNCHANGED <<arg, reported, sent, result, misused>>
    PROVE  UNCHANGED Stream!svars
BY DEF Stream!svars

\* A call that fails. A Send may have got a part of its bytes out before.
LEMMA SocketFails ==
    ASSUME Sound, "lua" \notin Callers, pc \in {"recv", "rwait", "rget", "send", "swait", "sget"},
           pc' \in {"idle", "closed"}, result' = None, UNCHANGED <<arg, reported>>,
           sent' = sent \/ (Calling = "send" /\ Stream!SendsMore),
           Calling = "send" \/ kwrite' = {}
    PROVE  Stream!Fails
<1>1. /\ Calling \in {"recv", "send"} /\ arg.len \in Nat
      /\ Calling' \in {"none"} \cup (IF Calling = "send" THEN {"late"} ELSE {})
  BY SoundTypes DEF Calling, Sound
<1>2. arg'.len \in Stream!Lengths
  BY <1>1 DEF Stream!Lengths
<1> QED
  BY <1>1, <1>2 DEF Stream!Fails, None

\* Recv returns what it has.
LEMMA SocketRecv ==
    ASSUME Sound, Sound', "lua" \notin Callers, pc \in {"recv", "rget"}, pc' = "idle",
           result' = total, reported' = reported \o Told(total), UNCHANGED <<arg, kwrite, sent>>
    PROVE  Stream!RecvReturns
<1>1. /\ ~misused /\ TypeOK /\ RecvTruthful /\ RecvTruthful' /\ BytesAccounted /\ Reading
      /\ kwrite = {}
  BY DEF Sound, Kept, Reading, WriteKept
<1>2. /\ total \in Nat /\ total <= arg.len /\ Landed \in Nat /\ Len(reported) \in Nat
      /\ taken <= Total /\ taken \in Nat /\ Total \in Nat /\ arg.len \in Nat
  BY <1>1, SoundTypes DEF Landed
<1> HIDE DEF Landed
<1>3. taken = Len(reported) + total + Landed
  BY <1>1, <1>2 DEF BytesAccounted
<1>4. Len(reported) + total <= Total
  BY <1>2, <1>3
<1>5. \A i \in 1 .. total : i \in DOMAIN buffer /\ buffer[i] = Len(reported) + i
  <2>1. \A i \in 1 .. total : i \in 1 .. total + Landed
    BY <1>2
  <2> QED
    BY <1>1, <2>1 DEF BytesAccounted
<1>6. reported' = Stream!FromStart(Len(reported) + total)
  <2>1. reported' = Numbers(0, Len(reported) + total)
    BY <1>1, <1>5, ReportContinues
  <2> QED
    BY <1>2, <2>1 DEF Numbers, Stream!FromStart
<1>7. Calling = "recv" /\ Calling' = "none" /\ arg'.len \in Stream!Lengths /\ total \in 0 .. arg'.len
  BY <1>1, <1>2 DEF Calling, Stream!Lengths
<1> QED
  BY <1>4, <1>6, <1>7 DEF Stream!RecvReturns

\* The write that begins: what the peer gets at once belongs to the Send, however it ends.
LEMMA SocketSendStart ==
    ASSUME Sound, "lua" \notin Callers, SendStart, misused' = misused
    PROVE  [Stream!SNext]_(Stream!svars)
<1>1. /\ TypeOK /\ pc = "send" /\ sent = Numbers(0, total) /\ c \in {"once", "again"}
      /\ UNCHANGED <<arg, reported>> /\ Calling = "send"
      /\ total \in Nat /\ arg.len \in Nat /\ total < arg.len
  BY SoundTypes DEF Sound, Kept, WriteKept, SendExact, SendStart, call, Calling
<1>2. sent' = sent \/ Stream!SendsMore
  <2>1. ASSUME NEW k \in 1 .. (arg.len - total), sent' = sent \o Part(k) PROVE Stream!SendsMore
    <3>1. k \in Nat /\ total + k \in Nat /\ total + k \in total .. arg.len
      BY <1>1
    <3>2. sent' = Numbers(0, total + k) /\ Len(sent) = total
      BY <1>1, <2>1, <3>1, NumbersFromStart, NumbersType DEF Part
    <3>3. sent' = Stream!FromStart(total + k)
      BY <3>1, <3>2 DEF Numbers, Stream!FromStart
    <3> QED
      BY <3>1, <3>2, <3>3 DEF Stream!SendsMore
  <2> QED
    BY <2>1 DEF SendStart
<1>3. \/ pc' \in {"idle", "closed"} /\ result' = None
      \/ pc' \in {"swait", "sget"} /\ UNCHANGED result
  BY <1>1 DEF SendStart, ReturnError
<1>4. CASE pc' \in {"idle", "closed"} /\ result' = None
  BY <1>1, <1>2, <1>4, SocketFails DEF Sound, Stream!SNext, Stream!Promised
<1>5. CASE pc' \in {"swait", "sget"} /\ UNCHANGED result
  <2>1. Calling' = Calling
    BY <1>1, <1>5 DEF Calling
  <2>2. CASE sent' = sent
    BY <1>1, <1>5, <2>1, <2>2, SocketQuiet
  <2>3. CASE Stream!SendsMore
    <3>1. Stream!Sends
      BY <1>1, <1>5, <2>1, <2>3 DEF Stream!Sends
    <3> QED
      BY <3>1 DEF Sound, Stream!SNext, Stream!Promised
  <2> QED
    BY <1>2, <2>2, <2>3
<1> QED
  BY <1>3, <1>4, <1>5

\* The bytes of a write that completes later, in its Send or behind it.
LEMMA SocketWrites ==
    ASSUME Sound, "lua" \notin Callers, NEW w \in kwrite, WriteCompletes(w)
    PROVE  [Stream!SNext]_(Stream!svars)
<1>1. /\ TypeOK /\ pc \in {"swait", "idle"} /\ w = Numbers(total, arg.len - total)
      /\ sent = Numbers(0, total) /\ kwrite' = {}
      /\ UNCHANGED <<pc, arg, misused, reported, result>> /\ ~misused
  BY DEF Sound, Kept, WriteKept, ActiveWrite, WriteUnderWay, WriteCompletes, call
<1>2. /\ total \in Nat /\ arg.len \in Nat /\ total <= arg.len /\ arg.len - total \in Nat
      /\ \/ Calling = "send" /\ Calling' = "send"
         \/ Calling = "late" /\ Calling' = "none"
  BY <1>1, SoundTypes DEF Calling
<1>3. sent' = sent \/ Stream!SendsMore
  <2>1. CASE sent' = sent \o w
    <3>1. Numbers(0, total) \o Numbers(total, arg.len - total) = Numbers(0, total + (arg.len - total))
      BY <1>2, NumbersFromStart
    <3>2. total + (arg.len - total) = arg.len /\ Len(Numbers(0, total)) = total
      BY <1>2, NumbersType
    <3>3. sent' = Numbers(0, arg.len) /\ Len(sent) = total
      BY <1>1, <2>1, <3>1, <3>2
    <3>4. sent' = Stream!FromStart(arg.len) /\ arg.len \in Len(sent) .. arg.len
      BY <1>2, <3>3 DEF Numbers, Stream!FromStart
    <3> QED
      BY <3>4 DEF Stream!SendsMore
  <2> QED
    BY <2>1 DEF WriteCompletes
<1>4. CASE Calling = "send" /\ Calling' = "send"
  <2>1. CASE sent' = sent
    BY <1>1, <1>4, <2>1, SocketQuiet
  <2>2. CASE Stream!SendsMore
    BY <1>1, <1>4, <2>2 DEF Stream!Sends, Stream!SNext, Stream!Promised
  <2> QED
    BY <1>3, <2>1, <2>2
<1>5. CASE Calling = "late" /\ Calling' = "none"
  BY <1>1, <1>3, <1>5 DEF Stream!SendsLate, Stream!SNext, Stream!Promised
<1> QED
  BY <1>2, <1>4, <1>5

\* Every step of the socket is a step of the stream.
LEMMA SocketStep ==
    ASSUME "lua" \notin Callers, Sound, Sound', [Next]_vars
    PROVE  [Stream!SNext]_(Stream!svars)
<1> USE DEF call, events, kernel
<1>0. TypeOK /\ c \in {"once", "again"} /\ ~misused
  BY SoundTypes DEF Sound
<1>m. misused' = misused
  BY DEF Sound, TypeOK
<1>w. kwrite = {} \/ pc \in {"idle", "swait", "closed"}
  BY DEF Sound, Kept, WriteKept
<1>1. CASE RecvReturn
  <2>1. /\ pc = "recv" /\ pc' = "idle" /\ result' = total /\ reported' = reported \o Told(total)
        /\ UNCHANGED <<arg, kwrite, sent>>
    BY <1>1 DEF RecvReturn
  <2> QED
    BY <1>0, <1>m, <2>1, SocketRecv DEF Stream!SNext, Stream!Promised
<1>2. CASE RecvExpired \/ RecvGivesUp \/ SendGivesUp
  <2>1. /\ pc' \in {"idle", "closed"} /\ result' = None /\ UNCHANGED <<arg, reported, sent>>
        /\ pc \in {"recv", "rwait", "swait"} /\ (pc = "swait" \/ kwrite' = kwrite)
    BY <1>2 DEF RecvExpired, RecvGivesUp, SendGivesUp, ReturnError
  <2>2. Calling = "send" \/ kwrite' = {}
    <3>1. CASE pc = "swait"
      BY <3>1 DEF Calling
    <3>2. CASE pc \in {"recv", "rwait"}
      BY <1>w, <2>1, <3>2
    <3> QED
      BY <2>1, <3>1, <3>2
  <2> QED
    BY <1>0, <1>m, <2>1, <2>2, SocketFails DEF Stream!SNext, Stream!Promised
<1>3. CASE RecvResume \/ RecvWoken \/ SendWoken
  <2>1. UNCHANGED <<arg, reported, sent, result>>
    BY <1>3 DEF RecvResume, RecvWoken, SendWoken
  <2>2. Calling' = Calling
    BY <1>3 DEF RecvResume, RecvWoken, SendWoken, Calling
  <2> QED
    BY <1>m, <2>1, <2>2, SocketQuiet
<1>4. CASE RecvStart
  <2>1. UNCHANGED <<arg, reported, sent>> /\ pc = "recv" /\ kwrite' = {}
    BY <1>4, <1>w DEF RecvStart
  <2>2. \/ pc' \in {"rwait", "rget"} /\ UNCHANGED result
        \/ pc' \in {"idle", "closed"} /\ result' = None
    BY <1>4 DEF RecvStart, ReturnError
  <2>3. CASE pc' \in {"rwait", "rget"} /\ UNCHANGED result
    <3>1. Calling' = Calling
      BY <2>1, <2>3 DEF Calling
    <3> QED
      BY <1>m, <2>1, <2>3, <3>1, SocketQuiet
  <2>4. CASE pc' \in {"idle", "closed"} /\ result' = None
    BY <1>0, <1>m, <2>1, <2>4, SocketFails DEF Stream!SNext, Stream!Promised
  <2> QED
    BY <2>2, <2>3, <2>4
<1>5. CASE RecvResult
  <2>1. UNCHANGED <<arg, kwrite, sent>> /\ pc = "rget" /\ kwrite' = {}
    BY <1>5, <1>w DEF RecvResult
  <2>2. \/ pc' = "recv" /\ UNCHANGED <<result, reported>>
        \/ pc' = "idle" /\ result' = total /\ reported' = reported \o Told(total)
        \/ pc' \in {"idle", "closed"} /\ result' = None /\ UNCHANGED reported
    BY <1>5 DEF RecvResult, ReturnError
  <2>3. CASE pc' = "recv" /\ UNCHANGED <<result, reported>>
    <3>1. Calling' = Calling
      BY <2>1, <2>3 DEF Calling
    <3> QED
      BY <1>m, <2>1, <2>3, <3>1, SocketQuiet
  <2>4. CASE pc' = "idle" /\ result' = total /\ reported' = reported \o Told(total)
    BY <1>0, <1>m, <2>1, <2>4, SocketRecv DEF Stream!SNext, Stream!Promised
  <2>5. CASE pc' \in {"idle", "closed"} /\ result' = None /\ UNCHANGED reported
    BY <1>0, <1>m, <2>1, <2>5, SocketFails DEF Stream!SNext, Stream!Promised
  <2> QED
    BY <2>2, <2>3, <2>4, <2>5
<1>6. CASE SendReturn
  <2>1. /\ pc = "send" /\ pc' = "idle" /\ total >= arg.len /\ result' = total
        /\ UNCHANGED <<arg, kwrite, reported, sent>> /\ sent = Numbers(0, total) /\ kwrite' = {}
    BY <1>6, <1>w DEF SendReturn, Sound, Kept, WriteKept, SendExact
  <2>2. total = arg.len /\ arg.len \in Nat
    BY <1>0, <2>1, SoundTypes
  <2>3. sent' = Stream!FromStart(arg.len)
    BY <2>1, <2>2 DEF Numbers, Stream!FromStart
  <2>4. Stream!SendReturns
    BY <2>1, <2>2, <2>3 DEF Stream!SendReturns, Calling
  <2> QED
    BY <1>0, <1>m, <2>4 DEF Stream!SNext, Stream!Promised
<1>7. CASE SendResult
  <2>1. UNCHANGED <<arg, reported, sent>> /\ pc = "sget" /\ ActiveWrite
    BY <1>7 DEF SendResult, Sound, Kept, WriteKept
  <2>2. CASE os.status = "done" /\ os.bytes > 0
    <3>1. pc' = "send" /\ UNCHANGED result
      BY <1>7, <2>2 DEF SendResult
    <3>2. Calling' = Calling
      BY <2>1, <3>1 DEF Calling
    <3> QED
      BY <1>m, <2>1, <3>1, <3>2, SocketQuiet
  <2>3. CASE ~(os.status = "done" /\ os.bytes > 0)
    <3>1. os.status # "done"
      BY <2>1, <2>3 DEF ActiveWrite
    <3>2. result' = None /\ pc' \in {"idle", "closed"} /\ Calling = "send"
      BY <1>7, <2>1, <2>3, <3>1 DEF SendResult, ReturnError, Calling
    <3> QED
      BY <1>0, <1>m, <2>1, <3>2, SocketFails DEF Stream!SNext, Stream!Promised
  <2> QED
    BY <2>2, <2>3
<1>8. CASE SendStart
  BY <1>8, <1>m, SocketSendStart
<1>9. ASSUME NEW r \in kread, ReadCompletes(r) PROVE [Stream!SNext]_(Stream!svars)
  <2>1. UNCHANGED <<pc, arg, kwrite, reported, sent, result>>
    BY <1>9 DEF ReadCompletes
  <2>2. Calling' = Calling
    BY <2>1 DEF Calling
  <2> QED
    BY <1>m, <2>1, <2>2, SocketQuiet
<1>10. ASSUME NEW w \in kwrite, WriteCompletes(w) PROVE [Stream!SNext]_(Stream!svars)
  BY <1>10, SocketWrites
<1>k. ASSUME Caller PROVE kwrite = {}
  BY <1>0, <1>m, <1>k DEF Caller, RecvCall, SendCall
<1>11. ASSUME NEW a \in RecvArgs, RecvCall(a) PROVE Stream!Begins
  <2>0. kwrite = {}
    BY <1>11, <1>k DEF Caller
  <2>1. /\ pc = "idle" /\ pc' = "recv" /\ arg' = a /\ a.len \in Nat
        /\ UNCHANGED <<reported, sent, result>> /\ kwrite = {}
    BY <1>11, <2>0, BaseSockAssumption DEF RecvCall, RecvArg
  <2> QED
    BY <2>1 DEF Stream!Begins, Calling
<1>12. ASSUME NEW len \in SendLens, SendCall(len) PROVE Stream!Begins
  <2>0. kwrite = {}
    BY <1>12, <1>k DEF Caller
  <2>1. /\ pc = "idle" /\ pc' = "send" /\ arg'.len = len /\ len \in Nat /\ sent' = <<>>
        /\ UNCHANGED <<reported, result>> /\ kwrite = {}
    BY <1>12, <2>0, BaseSockAssumption DEF SendCall
  <2> QED
    BY <2>1 DEF Stream!Begins, Calling
<1>13. CASE UNCHANGED vars
  <2>1. UNCHANGED <<pc, arg, kwrite, reported, sent, result>>
    BY <1>13 DEF vars
  <2>2. Calling' = Calling
    BY <2>1 DEF Calling
  <2> QED
    BY <1>m, <2>1, <2>2, SocketQuiet
<1>14. Stream!Begins => Stream!SNext
  BY <1>0, <1>m DEF Stream!SNext, Stream!Promised
<1> QED
  BY <1>1, <1>2, <1>3, <1>4, <1>5, <1>6, <1>7, <1>8, <1>9, <1>10, <1>11, <1>12, <1>13, <1>14
     DEF Next, Handler, Kernel, Caller

\* A socket implements ByteStream for callers that close after a failed call or
\* come back with the same buffer: a read that timed out and is completed by the
\* kernel later is the next part of the stream for the Recv after it. The promise
\* ends with the first call begun over an operation that is still under way.
THEOREM SocketIsStream ==
    ASSUME "lua" \notin Callers
    PROVE  Spec => GivesStream
<1>1. Init => Stream!SInit
  <2> SUFFICES ASSUME Init PROVE Stream!SInit
    OBVIOUS
  <2>1. Total \in Nat /\ arg.len = 1 /\ Calling = "none"
    BY BaseSockAssumption DEF Init, Calling
  <2> QED
    BY <2>1 DEF Init, Stream!SInit
<1>2. Whole /\ Whole' /\ [Next]_vars => [Stream!SNext]_(Stream!svars)
  <2> SUFFICES ASSUME Whole, Whole', [Next]_vars PROVE [Stream!SNext]_(Stream!svars)
    OBVIOUS
  <2>1. CASE ~misused'
    <3>1. Sound /\ Sound'
      BY <2>1, CrossedForGood DEF Whole
    <3> QED
      BY <3>1, SocketStep
  <2>2. CASE misused'
    BY <2>2 DEF Stream!SNext, Stream!Misused
  <2> QED
    BY <2>1, <2>2
<1>3. Spec => Stream!SSpec
  BY <1>1, <1>2, SoundAlways, PTL DEF Spec, Stream!SSpec
<1> QED
  BY <1>3 DEF GivesStream

-----------------------------------------------------------------------------
(* The sockets of the process. *)

Ats == {"none", "building", "live", "dying", "gone"}

\* What a step makes of a thread, and of the object it holds.
ThreadGoes(t, l) ==
    /\ l \in Local /\ (l.at = "idle" \/ l.id = Holding(t))
    /\ thread' = [thread EXCEPT ![t] = l]

ObjectBecomes(i, o) ==
    /\ o \in Object /\ o.kind = obj[i].kind
    /\ obj' = [obj EXCEPT ![i] = o]

\* A constructor, a destructor or a ping moves its thread and changes its own object.
Acts(t, l, o) ==
    /\ ThreadGoes(t, l) /\ ObjectBecomes(Holding(t), o) /\ UNCHANGED <<overlapped, bases>>

\* Inside one of the functions, a thread holds an object.
LEMMA BusyHolds ==
    ASSUME LifeTypeOK, NEW t \in Threads, ~IsAt(t, "idle")
    PROVE  Holding(t) \in Ids /\ obj[Holding(t)] \in Object /\ thread[t] \in Local
BY DEF LifeTypeOK

\* The forms in which the actions move a thread.
LEMMA ThreadForms ==
    ASSUME LifeTypeOK, NEW t \in Threads, ~IsAt(t, "idle")
    PROVE  /\ Leaves(t) => ThreadGoes(t, [at |-> "idle", id |-> Nobody, reg |-> 0])
           /\ \A a \in Places : Goes(t, a) => ThreadGoes(t, [thread[t] EXCEPT !.at = a])
           /\ \A a \in Places, n \in Int : thread' = [thread EXCEPT ![t].at = a, ![t].reg = n]
                                 => ThreadGoes(t, [thread[t] EXCEPT !.at = a, !.reg = n])
<1>1. thread[t] \in Local
  BY BusyHolds
<1>2. ASSUME NEW a \in Places, NEW n \in Int
      PROVE  /\ [thread[t] EXCEPT !.at = a] \in Local /\ [thread[t] EXCEPT !.at = a].id = Holding(t)
             /\ [thread[t] EXCEPT !.at = a, !.reg = n] \in Local
             /\ [thread[t] EXCEPT !.at = a, !.reg = n].id = Holding(t)
  BY <1>1 DEF Local, Holding
<1>3. [at |-> "idle", id |-> Nobody, reg |-> 0] \in Local
  BY DEF Local, Places
<1>4. Leaves(t) => ThreadGoes(t, [at |-> "idle", id |-> Nobody, reg |-> 0])
  BY <1>3 DEF Leaves, ThreadGoes
<1>5. ASSUME NEW a \in Places, Goes(t, a) PROVE ThreadGoes(t, [thread[t] EXCEPT !.at = a])
  <2>1. 0 \in Int
    OBVIOUS
  <2> QED
    BY <1>2, <1>5, <2>1 DEF Goes, ThreadGoes
<1>6. ASSUME NEW a \in Places, NEW n \in Int, thread' = [thread EXCEPT ![t].at = a, ![t].reg = n]
      PROVE  ThreadGoes(t, [thread[t] EXCEPT !.at = a, !.reg = n])
  <2>1. thread' = [thread EXCEPT ![t] = [thread[t] EXCEPT !.at = a, !.reg = n]]
    BY <1>6 DEF LifeTypeOK, Local
  <2> QED
    BY <1>2, <2>1 DEF ThreadGoes
<1> QED
  BY <1>4, <1>5, <1>6

\* The forms in which they change an object.
LEMMA ObjectForms ==
    ASSUME LifeTypeOK, NEW i \in Ids
    PROVE  /\ UNCHANGED obj => ObjectBecomes(i, obj[i])
           /\ \A a \in Ats : obj' = [obj EXCEPT ![i].at = a] => ObjectBecomes(i, [obj[i] EXCEPT !.at = a])
           /\ \A h \in Handles \cup {Nobody} :
                 obj' = [obj EXCEPT ![i].handle = h] => ObjectBecomes(i, [obj[i] EXCEPT !.handle = h])
           /\ \A a \in Ats, h \in Handles \cup {Nobody} : obj' = [obj EXCEPT ![i].handle = h, ![i].at = a]
                 => ObjectBecomes(i, [obj[i] EXCEPT !.handle = h, !.at = a])
           /\ obj' = [obj EXCEPT ![i].closed = TRUE] => ObjectBecomes(i, [obj[i] EXCEPT !.closed = TRUE])
<1>1. obj[i] \in Object
  BY DEF LifeTypeOK
<1>2. UNCHANGED obj => ObjectBecomes(i, obj[i])
  <2>1. obj = [obj EXCEPT ![i] = obj[i]]
    BY DEF LifeTypeOK
  <2> QED
    BY <1>1, <2>1 DEF ObjectBecomes
<1>3. ASSUME NEW a \in Ats, obj' = [obj EXCEPT ![i].at = a]
      PROVE  ObjectBecomes(i, [obj[i] EXCEPT !.at = a])
  <2>1. [obj[i] EXCEPT !.at = a] \in Object /\ [obj[i] EXCEPT !.at = a].kind = obj[i].kind
    BY <1>1 DEF Object, Ats
  <2> QED
    BY <1>3, <2>1 DEF ObjectBecomes
<1>4. ASSUME NEW h \in Handles \cup {Nobody}, obj' = [obj EXCEPT ![i].handle = h]
      PROVE  ObjectBecomes(i, [obj[i] EXCEPT !.handle = h])
  <2>1. [obj[i] EXCEPT !.handle = h] \in Object /\ [obj[i] EXCEPT !.handle = h].kind = obj[i].kind
    BY <1>1 DEF Object
  <2> QED
    BY <1>4, <2>1 DEF ObjectBecomes
<1>5. ASSUME NEW a \in Ats, NEW h \in Handles \cup {Nobody}, obj' = [obj EXCEPT ![i].handle = h, ![i].at = a]
      PROVE  ObjectBecomes(i, [obj[i] EXCEPT !.handle = h, !.at = a])
  <2>1. /\ [obj[i] EXCEPT !.handle = h, !.at = a] \in Object
        /\ [obj[i] EXCEPT !.handle = h, !.at = a].kind = obj[i].kind
    BY <1>1 DEF Object, Ats
  <2>2. obj' = [obj EXCEPT ![i] = [obj[i] EXCEPT !.handle = h, !.at = a]]
    BY <1>5 DEF LifeTypeOK, Object
  <2> QED
    BY <2>1, <2>2 DEF ObjectBecomes
<1>6. ASSUME obj' = [obj EXCEPT ![i].closed = TRUE]
      PROVE  ObjectBecomes(i, [obj[i] EXCEPT !.closed = TRUE])
  <2>1. [obj[i] EXCEPT !.closed = TRUE] \in Object /\ [obj[i] EXCEPT !.closed = TRUE].kind = obj[i].kind
    BY <1>1 DEF Object
  <2> QED
    BY <1>6, <2>1 DEF ObjectBecomes
<1> QED
  BY <1>2, <1>3, <1>4, <1>5, <1>6

\* The threads and the objects after a step of a thread.
LEMMA ActsTypes ==
    ASSUME LifeTypeOK, NEW t \in Threads, Holding(t) \in Ids, NEW l, NEW o, Acts(t, l, o)
    PROVE  /\ thread' \in [Threads -> Local] /\ obj' \in [Ids -> Object]
           /\ thread'[t] = l /\ \A u \in Threads \ {t} : thread'[u] = thread[u]
           /\ obj'[Holding(t)] = o /\ \A j \in Ids \ {Holding(t)} : obj'[j] = obj[j]
           /\ \A u \in Threads : IsAt(u, "idle")' \/ Holding(u)' \in Ids
           /\ UNCHANGED <<overlapped, bases>> /\ o.kind = obj[Holding(t)].kind
<1>1. /\ thread' = [thread EXCEPT ![t] = l] /\ l \in Local /\ thread \in [Threads -> Local]
      /\ l.at = "idle" \/ l.id = Holding(t)
  BY DEF Acts, ThreadGoes, LifeTypeOK
<1>2. thread' \in [Threads -> Local] /\ thread'[t] = l /\ \A u \in Threads \ {t} : thread'[u] = thread[u]
  BY <1>1
<1>3. obj' = [obj EXCEPT ![Holding(t)] = o] /\ o \in Object /\ obj \in [Ids -> Object]
  BY DEF Acts, ObjectBecomes, LifeTypeOK
<1>4. /\ obj' \in [Ids -> Object] /\ obj'[Holding(t)] = o
      /\ \A j \in Ids \ {Holding(t)} : obj'[j] = obj[j]
  BY <1>3
<1>5. ASSUME NEW u \in Threads PROVE IsAt(u, "idle")' \/ Holding(u)' \in Ids
  BY <1>1, <1>2 DEF LifeTypeOK, IsAt, Holding
<1> QED
  BY <1>2, <1>4, <1>5 DEF Acts, ObjectBecomes

\* As long as no two threads overlap, a step of one thread leaves the others idle
\* and every other object where it was.
LEMMA ActsFrame ==
    ASSUME LifeTypeOK, LifeKept, ~overlapped, NEW t \in Threads, ~IsAt(t, "idle"),
           NEW l, NEW o, Acts(t, l, o)
    PROVE  /\ Alone' /\ (Placed(t)' => \A u \in Threads : Placed(u)')
           /\ \A j \in Ids : Counter(j)' = Counter(j)
           /\ \A j \in Ids \ {Holding(t)}, k \in Counters : Member(j, k)' = Member(j, k)
           /\ Pings' = Pings /\ NotYet'
           /\ (o.kind = "ping" /\ o.at = "live" => l.id = Holding(t) /\ l.at \in {"send", "wait", "sleep"}) => PingsHeld'
           /\ \A j \in Ids \ {Holding(t)} : InUse(j)' = InUse(j)
<1> DEFINE i == Holding(t)
<1>0. /\ i \in Ids /\ thread'[t] = l /\ obj'[i] = o /\ o.kind = obj[i].kind
      /\ \A u \in Threads \ {t} : thread'[u] = thread[u]
      /\ \A j \in Ids \ {i} : obj'[j] = obj[j]
      /\ l.at = "idle" \/ l.id = i
  BY BusyHolds, ActsTypes DEF Acts, ThreadGoes
<1>1. /\ Alone /\ PingsHeld /\ \A u \in Threads : Placed(u)
  BY DEF LifeKept
<1>2. \A u \in Threads \ {t} : thread[u].at = "idle" /\ thread'[u].at = "idle"
  BY <1>0, <1>1 DEF Alone, IsAt
<1>3. Alone'
  BY <1>2 DEF Alone, IsAt
<1>4. \A u \in Threads \ {t} : Placed(u)'
  BY <1>2 DEF Placed
<1>5. \A j \in Ids : obj'[j].kind = obj[j].kind
  BY <1>0
<1>6. \A j \in Ids : Counter(j)' = Counter(j)
  BY <1>5 DEF Counter
<1>7. Pings' = Pings
  BY <1>5 DEF Pings
<1>n. NotYet'
  <2>1. obj[i].kind # "none"
    <3>1. Placed(t) /\ thread[t].at \in Places /\ thread[t].at # "idle"
      BY <1>1 DEF LifeTypeOK, Local, IsAt
    <3> QED
      BY <3>1 DEF Placed, Places, Kinds
  <2>2. NotYet
    BY DEF LifeKept
  <2> QED
    BY <1>0, <1>5, <2>1, <2>2 DEF NotYet, Unborn
<1>8. ASSUME NEW j \in Ids \ {i}, NEW k \in Counters PROVE Member(j, k)' = Member(j, k)
  <2>1. \A u \in Threads : /\ Holding(u)' = j => thread'[u].at = "idle"
                           /\ Holding(u) = j => thread[u].at = "idle"
    BY <1>0, <1>2 DEF Holding
  <2>2. /\ \A u \in Threads : Holding(u)' = j => thread'[u].at \notin {"start", "load", "increment", "end"}
        /\ \A u \in Threads : Holding(u) = j => thread[u].at \notin {"start", "load", "increment", "end"}
    BY <2>1
  <2>3. obj'[j] = obj[j] /\ Counter(j)' = Counter(j)
    BY <1>0, <1>6
  <2> QED
    BY <2>2, <2>3 DEF Member
<1>9. ASSUME NEW j \in Ids \ {i} PROVE InUse(j)' = InUse(j)
  BY <1>0 DEF InUse
<1>10. ASSUME o.kind = "ping" /\ o.at = "live" => l.id = i /\ l.at \in {"send", "wait", "sleep"}
       PROVE  PingsHeld'
  <2> SUFFICES ASSUME NEW j \in Pings', Alive(j)'
               PROVE  \E u \in Threads : Holding(u)' = j /\ thread'[u].at \in {"send", "wait", "sleep"}
    BY DEF PingsHeld
  <2>0. j \in Ids /\ obj'[j].kind = "ping" /\ obj'[j].at = "live"
    BY DEF Pings, Alive
  <2>1. CASE j = i
    BY <1>0, <1>10, <2>0, <2>1 DEF Holding
  <2>2. CASE j # i
    <3>1. j \in Pings /\ Alive(j)
      BY <1>0, <2>0, <2>2 DEF Pings, Alive
    <3>2. PICK u \in Threads : Holding(u) = j /\ thread[u].at \in {"send", "wait", "sleep"}
      BY <1>1, <3>1 DEF PingsHeld
    <3>3. u # t
      BY <2>2, <3>2
    <3> QED
      BY <1>2, <3>2, <3>3
  <2> QED
    BY <2>1, <2>2
<1> QED
  BY <1>3, <1>4, <1>6, <1>7, <1>n, <1>8, <1>9, <1>10

\* Members form a finite set, and fewer of them weigh no more.
LEMMA MembersFinite ==
    ASSUME NEW k \in Counters
    PROVE  /\ IsFiniteSet(Members(k)) /\ Cardinality(Members(k)) \in Nat
           /\ \A S : S \subseteq Members(k) => Cardinality(S) <= Cardinality(Members(k))
<1>1. IsFiniteSet(Members(k))
  BY FS_Subset, SocketLifeAssumption DEF Members
<1> QED
  BY <1>1, FS_CardinalityType, FS_Subset

\* A member or an accepted connection under construction gives its class a positive count,
\* so a class without a count has no object with an open handle.
LEMMA InUseCounts ==
    ASSUME LifeTypeOK, LifeKept, ~overlapped, NEW i \in Ids, InUse(i), obj[i].kind \in Kinds
    PROVE  count[Counter(i)] > 0
<1> DEFINE k == Counter(i)
<1>0. k \in Counters /\ obj[i].at \in {"building", "live"} /\ obj[i].handle # Nobody
  BY DEF Counter, Counters, InUse
<1>1. CASE Member(i, k)
  <2>1. {i} \subseteq Members(k) /\ Cardinality({i}) = 1
    BY <1>1, FS_Singleton DEF Members
  <2>2. Cardinality(Members(k)) \in Nat /\ 1 <= Cardinality(Members(k))
    BY <1>0, <2>1, MembersFinite
  <2>3. Cardinality(Members(k)) <= count[k] /\ count[k] \in Int
    BY <1>0 DEF LifeKept, LifeTypeOK
  <2> QED
    BY <2>2, <2>3
<1>2. CASE ~Member(i, k)
  <2>1. PICK t \in Threads : Holding(t) = i /\ thread[t].at \in {"start", "load", "increment", "end"}
    BY <1>0, <1>2 DEF Member
  <2>2. Placed(t)
    BY DEF LifeKept
  <2>3. thread[t].at \in {"start", "load", "increment"} /\ obj[i].kind \in {"accepted", "worker"} /\ count["Socket"] > 0
    BY <1>0, <2>1, <2>2 DEF Placed
  <2> QED
    BY <2>3 DEF Counter
<1> QED
  BY <1>1, <1>2

\* Who has its reference to Winsock, when one thread is inside.
LEMMA HeldBy ==
    ASSUME LifeTypeOK, LifeKept, ~overlapped, NEW t \in Threads, ~IsAt(t, "idle"),
           NEW l, NEW o, Acts(t, l, o), NEW k \in Counters
    PROVE  /\ Held(k) <=> count[k] > 0 \/ (thread[t].at \in {"load", "increment", "end"} /\ Counter(Holding(t)) = k)
           /\ Held(k)' <=> count'[k] > 0 \/ (l.at \in {"load", "increment", "end"} /\ Counter(Holding(t)) = k)
<1>0. /\ Holding(t) \in Ids /\ thread'[t] = l /\ (l.at = "idle" \/ l.id = Holding(t))
      /\ \A u \in Threads \ {t} : thread'[u] = thread[u]
      /\ \A j \in Ids : Counter(j)' = Counter(j)
  BY BusyHolds, ActsTypes, ActsFrame DEF Acts, ThreadGoes
<1>1. \A u \in Threads \ {t} : thread[u].at = "idle" /\ thread'[u].at = "idle"
  BY <1>0 DEF LifeKept, Alone, IsAt
<1>2. Held(k) <=> count[k] > 0 \/ (thread[t].at \in {"load", "increment", "end"} /\ Counter(Holding(t)) = k)
  BY <1>1 DEF Held
<1>3. ASSUME l.at \in {"load", "increment", "end"} PROVE Counter(Holding(t))' = Counter(Holding(t))
  <2>1. l.id = Holding(t)
    BY <1>0, <1>3
  <2>2. Holding(t)' = Holding(t)
    BY <1>0, <2>1 DEF Holding
  <2> QED
    BY <1>0, <2>2 DEF Counter
<1>4. Held(k)' <=> count'[k] > 0 \/ (l.at \in {"load", "increment", "end"} /\ Counter(Holding(t))' = k)
  BY <1>0, <1>1 DEF Held
<1> QED
  BY <1>2, <1>3, <1>4

\* Whether its counter has counted the object of the thread inside.
LEMMA MemberBy ==
    ASSUME LifeTypeOK, LifeKept, ~overlapped, NEW t \in Threads, ~IsAt(t, "idle"),
           NEW l, NEW o, Acts(t, l, o), NEW k \in Counters, NEW i \in Ids, i = Holding(t)
    PROVE  /\ Member(i, k) <=>
                 /\ o.kind \in Kinds /\ Counter(i) = k /\ obj[i].at # "gone"
                 /\ thread[t].at \notin {"start", "load", "increment", "end"}
           /\ Member(i, k)' <=>
                 /\ o.kind \in Kinds /\ Counter(i) = k /\ o.at # "gone"
                 /\ l.at \notin {"start", "load", "increment", "end"}
<1>0. /\ i \in Ids /\ thread'[t] = l /\ obj'[i] = o /\ o.kind = obj[i].kind
      /\ (l.at = "idle" \/ l.id = i) /\ Counter(i)' = (IF o.kind = "async" THEN "Async" ELSE "Socket")
      /\ \A u \in Threads \ {t} : thread'[u] = thread[u]
  <2>1. thread'[t] = l /\ obj'[i] = o /\ o.kind = obj[i].kind /\ \A u \in Threads \ {t} : thread'[u] = thread[u]
    BY ActsTypes
  <2> QED
    BY <2>1 DEF Acts, ThreadGoes, Counter
<1>1. \A u \in Threads \ {t} : thread[u].at = "idle" /\ thread'[u].at = "idle"
  BY <1>0 DEF LifeKept, Alone, IsAt
<1>2. (\A u \in Threads : Holding(u) = i => thread[u].at \notin {"start", "load", "increment", "end"})
      <=> thread[t].at \notin {"start", "load", "increment", "end"}
  BY <1>1
<1>3. (\A u \in Threads : thread'[u].id = i => thread'[u].at \notin {"start", "load", "increment", "end"})
      <=> l.at \notin {"start", "load", "increment", "end"}
  BY <1>0, <1>1
<1>4. Member(i, k) <=> /\ o.kind \in Kinds /\ Counter(i) = k /\ obj[i].at # "gone"
                       /\ thread[t].at \notin {"start", "load", "increment", "end"}
  BY <1>0, <1>2 DEF Member
<1> QED
  <2>1. Counter(i) = (IF o.kind = "async" THEN "Async" ELSE "Socket")
    BY <1>0 DEF Counter
  <2>2. Member(i, k)' <=> /\ o.kind \in Kinds /\ (IF o.kind = "async" THEN "Async" ELSE "Socket") = k /\ o.at # "gone"
                          /\ l.at \notin {"start", "load", "increment", "end"}
    BY <1>0, <1>3 DEF Member, Counter, Holding
  <2> QED
    BY <1>4, <2>1, <2>2

\* What is left to show of a step of one thread.
LEMMA ActsKeep ==
    ASSUME LifeTypeOK, LifeKept, ~overlapped, NEW t \in Threads, ~IsAt(t, "idle"),
           NEW l, NEW o, Acts(t, l, o),
           Placed(t)', Referenced',
           \A k \in Counters : Cardinality(Members(k)') <= count'[k],
           o.kind = "ping" /\ o.at = "live" => l.id = Holding(t) /\ l.at \in {"send", "wait", "sleep"},
           \A j \in Ids : InUse(j)' => holder'[obj'[j].handle] = j
    PROVE  LifeKept'
<1>1. Alone' /\ NotYet' /\ PingsHeld' /\ \A u \in Threads : Placed(u)'
  BY ActsFrame
<1>2. HandlesValid'
  BY DEF HandlesValid
<1> QED
  BY <1>1, <1>2 DEF LifeKept

\* The same where neither the counters nor Winsock change.
LEMMA PlainKeep ==
    ASSUME LifeTypeOK, LifeKept, ~overlapped, NEW t \in Threads, ~IsAt(t, "idle"),
           NEW l, NEW o, Acts(t, l, o), NEW i \in Ids, i = Holding(t),
           Placed(t)', UNCHANGED <<count, winsock>>,
           \A k \in Counters : Member(i, k)' => Member(i, k),
           l.at \in {"load", "increment", "end"} <=> thread[t].at \in {"load", "increment", "end"},
           o.kind = "ping" /\ o.at = "live" => l.id = Holding(t) /\ l.at \in {"send", "wait", "sleep"},
           \A j \in Ids : InUse(j)' => holder'[obj'[j].handle] = j
    PROVE  LifeKept'
<1>1. ASSUME NEW k \in Counters PROVE Cardinality(Members(k)') <= count'[k]
  <2>1. Members(k)' \subseteq Members(k)
    <3> SUFFICES ASSUME NEW j \in Ids, Member(j, k)' PROVE Member(j, k)
      BY DEF Members
    <3>1. CASE j = i
      BY <3>1
    <3>2. CASE j # i
      BY <3>2, ActsFrame
    <3> QED
      BY <3>1, <3>2
  <2>2. Cardinality(Members(k)') <= Cardinality(Members(k))
    BY <2>1, MembersFinite
  <2>3. Cardinality(Members(k)) <= count[k] /\ Cardinality(Members(k)) \in Nat /\ count[k] \in Int
    BY MembersFinite DEF LifeKept, LifeTypeOK
  <2>4. Cardinality(Members(k)') \in Nat
    BY <2>1, MembersFinite, FS_Subset, FS_CardinalityType
  <2> QED
    BY <2>2, <2>3, <2>4
<1>2. \A k \in Counters : Held(k)' = Held(k)
  <2> SUFFICES ASSUME NEW k \in Counters PROVE Held(k)' = Held(k)
    OBVIOUS
  <2>1. Held(k) \in BOOLEAN /\ Held(k)' \in BOOLEAN
    BY DEF Held
  <2> QED
    BY <2>1, HeldBy
<1>3. Referenced'
  <2>1. Pings' = Pings /\ UNCHANGED <<winsock, bases>> /\ Held("Socket")' = Held("Socket") /\ Held("Async")' = Held("Async")
    BY <1>2, ActsFrame DEF Acts, Counters
  <2>2. Referenced
    BY DEF LifeKept
  <2> QED
    BY <2>1, <2>2 DEF Referenced
<1> QED
  BY <1>1, <1>3, ActsKeep

\* The load of ++ and of -- takes the counter as it is.
LEMMA LifeLoad ==
    ASSUME LifeTypeOK, LifeKept, NEW t \in Threads, Load(t)
    PROVE  LifeTypeOK' /\ LifeKept'
<1>0. ~IsAt(t, "idle") /\ thread[t].at \in {"load", "unload"}
  BY DEF Load, IsAt
<1>i. PICK i \in Ids : i = Holding(t)
  BY <1>0, BusyHolds
<1>1. i = Holding(t) /\ obj[i] \in Object /\ thread[t] \in Local /\ count[Counter(i)] \in Int
  BY <1>0, <1>i, BusyHolds DEF LifeTypeOK, Counter, Counters
<1>2. PICK a \in {"increment", "decrement"} :
         /\ a = "increment" <=> thread[t].at = "load"
         /\ thread' = [thread EXCEPT ![t].at = a, ![t].reg = count[Counter(i)]]
  BY <1>i DEF Load, IsAt
<1> DEFINE l == [thread[t] EXCEPT !.at = a, !.reg = count[Counter(i)]]
<1>3. Acts(t, l, obj[i]) /\ UNCHANGED <<count, winsock, holder, obj, bases, overlapped>>
  <2>1. a \in Places
    BY DEF Places
  <2> QED
    BY <1>0, <1>1, <1>2, <2>1, ThreadForms, ObjectForms DEF Load, Acts
<1>4. l.at = a /\ l.id = i /\ l.reg = count[Counter(i)]
  BY <1>1 DEF Local, Holding
<1> HIDE DEF l
<1>5. LifeTypeOK'
  BY <1>0, <1>1, <1>3, ActsTypes DEF LifeTypeOK
<1>6. ASSUME ~overlapped PROVE LifeKept'
  <2>1. thread'[t] = l /\ Holding(t)' = i /\ Counter(i)' = Counter(i) /\ Placed(t)
    BY <1>0, <1>1, <1>3, <1>4, <1>6, ActsTypes DEF Holding, Counter, LifeKept
  <2>2. Placed(t)'
    BY <1>0, <1>1, <1>2, <1>3, <1>4, <2>1 DEF Placed
  <2>3. \A k \in Counters : Member(i, k)' => Member(i, k)
    BY <1>0, <1>1, <1>2, <1>3, <1>4, <1>6, MemberBy
  <2>4. obj[i].kind = "ping" /\ obj[i].at = "live" => l.id = i /\ l.at \in {"send", "wait", "sleep"}
    BY <1>0, <1>1, <2>1 DEF Placed, Kinds
  <2>5. \A j \in Ids : InUse(j)' => holder'[obj'[j].handle] = j
    BY <1>3, <1>6 DEF LifeKept, HandlesValid, InUse
  <2> QED
    BY <1>0, <1>1, <1>2, <1>3, <1>4, <1>6, <2>2, <2>3, <2>4, <2>5, PlainKeep
<1>7. overlapped => LifeKept'
  BY <1>3 DEF LifeKept
<1> QED
  BY <1>5, <1>6, <1>7

\* A handle that is not open belongs to nobody, and one that is taken from the free
\* ones was no object's.
LEMMA FreeHandles ==
    ASSUME LifeTypeOK, LifeKept, ~overlapped, NEW h \in Free
    PROVE  /\ h \in Handles /\ holder[h] = Nobody
           /\ \A j \in Ids : InUse(j) => /\ obj[j].handle \in Handles /\ holder[obj[j].handle] = j
                                         /\ obj[j].handle # h
<1>1. h \in Handles /\ holder[h] = Nobody
  BY DEF Free
<1>2. ASSUME NEW j \in Ids, InUse(j)
      PROVE  obj[j].handle \in Handles /\ holder[obj[j].handle] = j /\ obj[j].handle # h
  <2>1. obj[j].handle \in Handles
    BY <1>2 DEF InUse, LifeTypeOK, Object
  <2>2. holder[obj[j].handle] = j
    BY <1>2 DEF LifeKept, HandlesValid
  <2> QED
    BY <1>1, <2>1, <2>2, SocketLifeAssumption
<1> QED
  BY <1>1, <1>2

\* socket() fails.
LEMMA LifeOpenFails ==
    ASSUME LifeTypeOK, LifeKept, NEW t \in Threads, OpenFails(t)
    PROVE  LifeTypeOK' /\ LifeKept'
<1>0. ~IsAt(t, "idle") /\ thread[t].at = "open"
  BY DEF OpenFails, IsAt
<1>1. PICK i \in Ids : i = Holding(t) /\ obj[i] \in Object /\ thread[t] \in Local
  BY <1>0, BusyHolds
<1> DEFINE l == [at |-> "idle", id |-> Nobody, reg |-> 0]
           o == [obj[i] EXCEPT !.at = IF obj[i].kind = "server" THEN "gone" ELSE "live"]
<1>3. Acts(t, l, o) /\ UNCHANGED <<count, winsock, holder, bases, overlapped>>
  <2>1. (IF obj[i].kind = "server" THEN "gone" ELSE "live") \in Ats
    BY DEF Ats
  <2> QED
    BY <1>0, <1>1, <2>1, ThreadForms, ObjectForms DEF OpenFails, Acts
<1>4. /\ l.at = "idle" /\ o.at \in {"gone", "live"} /\ o.kind = obj[i].kind /\ o.handle = obj[i].handle
      /\ o.closed = obj[i].closed
  BY <1>1 DEF Object
<1> HIDE DEF l, o
<1>a. thread'[t] = l /\ obj'[i] = o /\ \A j \in Ids \ {i} : obj'[j] = obj[j]
  BY <1>1, <1>3, ActsTypes
<1>5. LifeTypeOK'
  BY <1>1, <1>3, ActsTypes DEF LifeTypeOK
<1>6. ASSUME ~overlapped PROVE LifeKept'
  <2>1. Placed(t) /\ obj[i].kind \in {"server", "async"} /\ obj[i].at = "building"
    BY <1>0, <1>1, <1>6 DEF LifeKept, Placed
  <2>2. Placed(t)'
    BY <1>4, <1>a DEF Placed
  <2>3. \A k \in Counters : Member(i, k)' => Member(i, k)
    BY <1>0, <1>1, <1>3, <1>4, <1>6, <2>1, MemberBy
  <2>4. \A j \in Ids : InUse(j)' => holder'[obj'[j].handle] = j
    BY <1>3, <1>4, <1>6, <1>a, <2>1 DEF LifeKept, HandlesValid, InUse
  <2> QED
    BY <1>0, <1>1, <1>3, <1>4, <1>6, <2>1, <2>2, <2>3, <2>4, PlainKeep
<1>7. overlapped => LifeKept'
  BY <1>3 DEF LifeKept
<1> QED
  BY <1>5, <1>6, <1>7

\* A handle is opened: the first of a server, its second, or an asynchronous connection's.
LEMMA LifeOpens ==
    ASSUME LifeTypeOK, LifeKept, NEW t \in Threads, Open(t) \/ Listen(t)
    PROVE  LifeTypeOK' /\ LifeKept'
<1>0. ~IsAt(t, "idle") /\ thread[t].at \in {"open", "listen"}
  BY DEF Open, Listen, IsAt
<1>1. PICK i \in Ids : i = Holding(t) /\ obj[i] \in Object /\ thread[t] \in Local
  BY <1>0, BusyHolds
<1>2. PICK h \in Free :
         /\ holder' = [holder EXCEPT ![h] = i] /\ UNCHANGED <<count, winsock, bases, overlapped>>
         /\ \/ /\ obj' = [obj EXCEPT ![i].handle = h, ![i].at = "live"] /\ Leaves(t)
               /\ thread[t].at = "open" => obj[i].kind # "server"
            \/ /\ obj' = [obj EXCEPT ![i].handle = h] /\ Goes(t, "listen")
               /\ thread[t].at = "open" /\ obj[i].kind = "server"
  BY <1>1 DEF Open, Listen, IsAt
<1>h. h \in Handles
  BY DEF Free
<1>3. \E l, o : /\ Acts(t, l, o)
                /\ o.kind = obj[i].kind /\ o.closed = obj[i].closed /\ o.handle = h
                /\ \/ l.at = "idle" /\ o.at = "live" /\ (thread[t].at = "open" => obj[i].kind # "server")
                   \/ l.at = "listen" /\ l.id = i /\ o.at = obj[i].at /\ obj[i].kind = "server"
  <2>1. CASE /\ obj' = [obj EXCEPT ![i].handle = h, ![i].at = "live"] /\ Leaves(t)
             /\ thread[t].at = "open" => obj[i].kind # "server"
    <3> DEFINE l == [at |-> "idle", id |-> Nobody, reg |-> 0]
               o == [obj[i] EXCEPT !.handle = h, !.at = "live"]
    <3>1. Acts(t, l, o)
      <4>1. "live" \in Ats
        BY DEF Ats
      <4> QED
        BY <1>0, <1>1, <1>2, <1>h, <2>1, <4>1, ThreadForms, ObjectForms DEF Acts
    <3>2. /\ l.at = "idle" /\ o.at = "live" /\ o.kind = obj[i].kind /\ o.handle = h
          /\ o.closed = obj[i].closed
      BY <1>1 DEF Object
    <3> QED
      BY <2>1, <3>1, <3>2
  <2>2. CASE /\ obj' = [obj EXCEPT ![i].handle = h] /\ Goes(t, "listen")
             /\ thread[t].at = "open" /\ obj[i].kind = "server"
    <3> DEFINE l == [thread[t] EXCEPT !.at = "listen"]
               o == [obj[i] EXCEPT !.handle = h]
    <3>1. Acts(t, l, o)
      <4>1. "listen" \in Places
        BY DEF Places
      <4> QED
        BY <1>0, <1>1, <1>2, <1>h, <2>2, <4>1, ThreadForms, ObjectForms DEF Acts
    <3>2. /\ l.at = "listen" /\ l.id = i /\ o.at = obj[i].at /\ o.kind = obj[i].kind /\ o.handle = h
          /\ o.closed = obj[i].closed
      BY <1>1 DEF Object, Local, Holding
    <3> QED
      BY <2>2, <3>1, <3>2
  <2> QED
    BY <1>2, <2>1, <2>2
<1>4. PICK l, o : /\ Acts(t, l, o)
                  /\ o.kind = obj[i].kind /\ o.closed = obj[i].closed /\ o.handle = h
                  /\ \/ l.at = "idle" /\ o.at = "live" /\ (thread[t].at = "open" => obj[i].kind # "server")
                     \/ l.at = "listen" /\ l.id = i /\ o.at = obj[i].at /\ obj[i].kind = "server"
  BY <1>3
<1>a. thread'[t] = l /\ obj'[i] = o /\ \A j \in Ids \ {i} : obj'[j] = obj[j]
  BY <1>1, <1>4, ActsTypes
<1>5. LifeTypeOK'
  <2>1. holder' \in [Handles -> Ids \cup {Nobody}]
    BY <1>2 DEF LifeTypeOK
  <2> QED
    BY <1>1, <1>2, <1>4, <2>1, ActsTypes DEF LifeTypeOK
<1>6. ASSUME ~overlapped PROVE LifeKept'
  <2>1. Placed(t) /\ obj[i].kind \in {"server", "async"} /\ obj[i].at = "building"
    BY <1>0, <1>1, <1>6 DEF LifeKept, Placed
  <2>2. Placed(t)'
    BY <1>4, <1>a, <2>1 DEF Placed, Holding, Kinds
  <2>3. \A k \in Counters : Member(i, k)' => Member(i, k)
    BY <1>0, <1>1, <1>4, <1>6, <2>1, MemberBy
  <2>4. ASSUME NEW j \in Ids, InUse(j)' PROVE holder'[obj'[j].handle] = j
    <3>1. CASE j = i
      BY <1>2, <1>4, <1>a, <1>h, <3>1 DEF LifeTypeOK
    <3>2. CASE j # i
      <4>1. InUse(j) /\ obj'[j] = obj[j]
        BY <1>a, <2>4, <3>2 DEF InUse
      <4>2. obj[j].handle \in Handles /\ holder[obj[j].handle] = j /\ obj[j].handle # h
        BY <1>6, <4>1, FreeHandles
      <4> QED
        BY <1>2, <4>1, <4>2 DEF LifeTypeOK
    <3> QED
      BY <3>1, <3>2
  <2> QED
    BY <1>0, <1>1, <1>2, <1>4, <1>6, <2>1, <2>2, <2>3, <2>4, PlainKeep
<1>7. overlapped => LifeKept'
  BY <1>2 DEF LifeKept
<1> QED
  BY <1>5, <1>6, <1>7

\* The constructor of a server fails behind its base.
LEMMA LifeListenFails ==
    ASSUME LifeTypeOK, LifeKept, NEW t \in Threads, ListenFails(t)
    PROVE  LifeTypeOK' /\ LifeKept'
<1>0. ~IsAt(t, "idle") /\ thread[t].at = "listen"
  BY DEF ListenFails, IsAt
<1>1. PICK i \in Ids : i = Holding(t) /\ obj[i] \in Object /\ thread[t] \in Local
  BY <1>0, BusyHolds
<1>2. PICK h \in Free \cup {Nobody} : obj' = [obj EXCEPT ![i].handle = h, ![i].at = "dying"]
  BY <1>1 DEF ListenFails
<1>h. h \in Handles \cup {Nobody} /\ (h # Nobody => holder[h] = Nobody)
  BY DEF Free
<1> DEFINE l == [thread[t] EXCEPT !.at = "close"]
           o == [obj[i] EXCEPT !.handle = h, !.at = "dying"]
<1>3. Acts(t, l, o) /\ UNCHANGED <<count, winsock, holder, bases, overlapped>>
  <2>1. "dying" \in Ats /\ "close" \in Places
    BY DEF Ats, Places
  <2> QED
    BY <1>0, <1>1, <1>2, <1>h, <2>1, ThreadForms, ObjectForms DEF ListenFails, Acts
<1>4. l.at = "close" /\ l.id = i /\ o.at = "dying" /\ o.kind = obj[i].kind /\ o.handle = h
  BY <1>1 DEF Object, Local, Holding
<1> HIDE DEF l, o
<1>a. thread'[t] = l /\ obj'[i] = o /\ \A j \in Ids \ {i} : obj'[j] = obj[j]
  BY <1>1, <1>3, ActsTypes
<1>5. LifeTypeOK'
  BY <1>1, <1>3, ActsTypes DEF LifeTypeOK
<1>6. ASSUME ~overlapped PROVE LifeKept'
  <2>1. Placed(t) /\ obj[i].kind = "server" /\ obj[i].at = "building"
    BY <1>0, <1>1, <1>6 DEF LifeKept, Placed
  <2>2. Placed(t)'
    BY <1>3, <1>4, <1>a, <1>h, <2>1 DEF Placed, Holding, Kinds
  <2>3. \A k \in Counters : Member(i, k)' => Member(i, k)
    BY <1>0, <1>1, <1>3, <1>4, <1>6, <2>1, MemberBy
  <2>4. \A j \in Ids : InUse(j)' => holder'[obj'[j].handle] = j
    BY <1>3, <1>4, <1>6, <1>a, <2>1 DEF LifeKept, HandlesValid, InUse
  <2> QED
    BY <1>0, <1>1, <1>3, <1>4, <1>6, <2>1, <2>2, <2>3, <2>4, PlainKeep
<1>7. overlapped => LifeKept'
  BY <1>3 DEF LifeKept
<1> QED
  BY <1>5, <1>6, <1>7

\* Closing a handle that is an object's own, or nobody's, leaves the others' alone.
LEMMA ReleaseKeeps ==
    ASSUME LifeTypeOK, LifeKept, ~overlapped, NEW i \in Ids, NEW h \in Handles \cup {Nobody},
           h # Nobody => holder[h] \in {i, Nobody},
           NEW j \in Ids \ {i}, InUse(j)
    PROVE  Released(h)[obj[j].handle] = j
<1>1. obj[j].handle \in Handles
  BY DEF InUse, LifeTypeOK, Object
<1>2. holder[obj[j].handle] = j
  BY DEF LifeKept, HandlesValid
<1>3. obj[j].handle # h
  BY <1>1, <1>2, SocketLifeAssumption
<1> QED
  BY <1>1, <1>2, <1>3 DEF Released, LifeTypeOK

LEMMA ReleaseType ==
    ASSUME LifeTypeOK, NEW h
    PROVE  Released(h) \in [Handles -> Ids \cup {Nobody}]
BY DEF Released, LifeTypeOK

\* A destructor closes the handle it was not told to be closed.
LEMMA LifeCloseHandle ==
    ASSUME LifeTypeOK, LifeKept, NEW t \in Threads, CloseHandle(t)
    PROVE  LifeTypeOK' /\ LifeKept'
<1>0. ~IsAt(t, "idle") /\ thread[t].at = "close"
  BY DEF CloseHandle, IsAt
<1>1. PICK i \in Ids : i = Holding(t) /\ obj[i] \in Object /\ thread[t] \in Local
  BY <1>0, BusyHolds
<1> DEFINE l == [thread[t] EXCEPT !.at = "unload"]
           o == [obj[i] EXCEPT !.closed = TRUE]
<1>3. /\ Acts(t, l, o) /\ UNCHANGED <<count, winsock, bases, overlapped>>
      /\ holder' = IF obj[i].closed THEN holder ELSE Released(obj[i].handle)
  <2>1. "unload" \in Places
    BY DEF Places
  <2> QED
    BY <1>0, <1>1, <2>1, ThreadForms, ObjectForms DEF CloseHandle, Acts
<1>4. l.at = "unload" /\ l.id = i /\ o.at = obj[i].at /\ o.kind = obj[i].kind
  BY <1>1 DEF Object, Local, Holding
<1> HIDE DEF l, o
<1>a. thread'[t] = l /\ obj'[i] = o /\ \A j \in Ids \ {i} : obj'[j] = obj[j]
  BY <1>1, <1>3, ActsTypes
<1>5. LifeTypeOK'
  BY <1>1, <1>3, ActsTypes, ReleaseType DEF LifeTypeOK
<1>6. ASSUME ~overlapped PROVE LifeKept'
  <2>1. Placed(t) /\ obj[i].kind \in Kinds /\ obj[i].at = "dying"
    BY <1>0, <1>1, <1>6 DEF LifeKept, Placed
  <2>2. Placed(t)'
    BY <1>4, <1>a, <2>1 DEF Placed, Holding
  <2>3. \A k \in Counters : Member(i, k)' => Member(i, k)
    BY <1>0, <1>1, <1>3, <1>4, <1>6, <2>1, MemberBy
  <2>4. ASSUME NEW j \in Ids, InUse(j)' PROVE holder'[obj'[j].handle] = j
    <3>1. j # i
      BY <1>4, <1>a, <2>1, <2>4 DEF InUse
    <3>2. InUse(j) /\ obj'[j] = obj[j]
      BY <1>a, <2>4, <3>1 DEF InUse
    <3>3. CASE obj[i].closed
      BY <1>3, <1>6, <3>2, <3>3 DEF LifeKept, HandlesValid
    <3>4. CASE ~obj[i].closed
      <4>1. obj[i].handle \in Handles \cup {Nobody} /\ (obj[i].handle # Nobody => holder[obj[i].handle] \in {i, Nobody})
        BY <1>0, <1>1, <2>1, <3>4 DEF Placed, Object
      <4>2. Released(obj[i].handle)[obj[j].handle] = j
        BY <1>6, <3>1, <3>2, <4>1, ReleaseKeeps
      <4> QED
        BY <1>3, <3>2, <3>4, <4>2
    <3> QED
      BY <3>3, <3>4
  <2>5. ~(o.kind = "ping")
    BY <1>4, <2>1 DEF Kinds
  <2> QED
    BY <1>0, <1>1, <1>3, <1>4, <1>6, <2>1, <2>2, <2>3, <2>4, <2>5, PlainKeep
<1>7. overlapped => LifeKept'
  BY <1>3 DEF LifeKept
<1> QED
  BY <1>5, <1>6, <1>7

\* A counter that weighs at least its members is no negative number.
LEMMA CountNotNegative ==
    ASSUME LifeTypeOK, LifeKept, ~overlapped, NEW k \in Counters
    PROVE  count[k] \in Nat /\ Cardinality(Members(k)) <= count[k]
BY MembersFinite DEF LifeKept, LifeTypeOK

\* Winsock stays referenced when only class k gains or loses its reference with it.
LEMMA ReferenceMoves ==
    ASSUME LifeTypeOK, LifeTypeOK', Referenced, UNCHANGED bases, Pings' = Pings, NEW k \in Counters,
           \A m \in Counters \ {k} : Held(m)' <=> Held(m),
           winsock' - One(Held(k)') >= winsock - One(Held(k))
    PROVE  Referenced'
<1>1. winsock \in Nat /\ winsock' \in Nat /\ bases \in Nat
  BY DEF LifeTypeOK
<1>2. \A m \in Counters \ {k} : One(Held(m)') = One(Held(m))
  BY DEF One
<1>3. \A b : One(b) \in {0, 1}
  BY DEF One
<1>4. winsock >= bases + One(Held("Socket")) + One(Held("Async")) + One(Pings # {})
  BY DEF Referenced
<1> HIDE DEF One
<1>5. CASE k = "Socket"
  <2>1. One(Held("Async")') = One(Held("Async"))
    BY <1>2, <1>5 DEF Counters
  <2>2. winsock' >= bases + One(Held("Socket")') + One(Held("Async")') + One(Pings # {})
    BY <1>1, <1>3, <1>4, <1>5, <2>1
  <2> QED
    BY <2>2 DEF Referenced
<1>6. CASE k = "Async"
  <2>1. One(Held("Socket")') = One(Held("Socket"))
    BY <1>2, <1>6 DEF Counters
  <2>2. winsock' >= bases + One(Held("Socket")') + One(Held("Async")') + One(Pings # {})
    BY <1>1, <1>3, <1>4, <1>6, <2>1
  <2> QED
    BY <2>2 DEF Referenced
<1> QED
  BY <1>5, <1>6 DEF Counters

\* The first object of its class starts Winsock before it is counted.
LEMMA LifeStart ==
    ASSUME LifeTypeOK, LifeKept, NEW t \in Threads, Start(t)
    PROVE  LifeTypeOK' /\ LifeKept'
<1>0. ~IsAt(t, "idle") /\ thread[t].at = "start"
  BY DEF Start, IsAt
<1>1. PICK i \in Ids : i = Holding(t) /\ obj[i] \in Object /\ thread[t] \in Local
  BY <1>0, BusyHolds
<1> DEFINE l == [thread[t] EXCEPT !.at = "load"]
<1>3. /\ Acts(t, l, obj[i]) /\ UNCHANGED <<count, holder, obj, bases, overlapped>>
      /\ winsock' = IF count[Counter(i)] = 0 THEN winsock + 1 ELSE winsock
  <2>1. "load" \in Places
    BY DEF Places
  <2> QED
    BY <1>0, <1>1, <2>1, ThreadForms, ObjectForms DEF Start, Acts
<1>4. l.at = "load" /\ l.id = i
  BY <1>1 DEF Local, Holding
<1> HIDE DEF l
<1>a. thread'[t] = l /\ Counter(i)' = Counter(i) /\ Counter(i) \in Counters
  BY <1>1, <1>3, ActsTypes DEF Counter, Counters
<1>5. LifeTypeOK'
  <2>1. winsock' \in Nat
    BY <1>3 DEF LifeTypeOK
  <2> QED
    BY <1>1, <1>3, <2>1, ActsTypes DEF LifeTypeOK
<1>6. ASSUME ~overlapped PROVE LifeKept'
  <2>1. Placed(t) /\ obj[i].kind \in Kinds /\ obj[i].at = "building"
    BY <1>0, <1>1, <1>6 DEF LifeKept, Placed
  <2>2. Placed(t)'
    BY <1>0, <1>1, <1>3, <1>4, <1>a, <2>1 DEF Placed, Holding
  <2>3. ASSUME NEW k \in Counters PROVE Cardinality(Members(k)') <= count'[k]
    <3>1. Member(i, k)' = FALSE /\ Member(i, k) = FALSE
      <4>1. Member(i, k)' \in BOOLEAN /\ Member(i, k) \in BOOLEAN
        BY DEF Member
      <4> QED
        BY <1>0, <1>1, <1>3, <1>4, <1>6, <4>1, MemberBy
    <3>2. \A j \in Ids : Member(j, k)' = Member(j, k)
      BY <1>0, <1>1, <1>3, <1>6, <3>1, ActsFrame
    <3>3. Members(k)' = Members(k)
      BY <3>2 DEF Members
    <3> QED
      BY <1>3, <1>6, <3>3 DEF LifeKept
  <2>4. Referenced'
    <3>1. \A k \in Counters : /\ Held(k) <=> count[k] > 0
                              /\ Held(k)' <=> count[k] > 0 \/ Counter(i) = k
      BY <1>0, <1>1, <1>3, <1>4, <1>6, HeldBy
    <3>2. count[Counter(i)] \in Nat /\ winsock \in Nat
      BY <1>6, <1>a, CountNotNegative DEF LifeTypeOK
    <3>3. winsock' - One(Held(Counter(i))') >= winsock - One(Held(Counter(i)))
      BY <1>3, <1>a, <3>1, <3>2 DEF One
    <3>4. Pings' = Pings /\ Referenced
      BY <1>0, <1>3, <1>1, <1>6, ActsFrame DEF LifeKept
    <3>5. PICK k \in Counters : k = Counter(i)
      BY <1>a
    <3> QED
      BY <1>3, <1>5, <1>a, <3>1, <3>3, <3>4, <3>5, ReferenceMoves
  <2>5. \A j \in Ids : InUse(j)' => holder'[obj'[j].handle] = j
    BY <1>3, <1>6 DEF LifeKept, HandlesValid, InUse
  <2>6. ~(obj[i].kind = "ping")
    BY <2>1 DEF Kinds
  <2> QED
    BY <1>0, <1>1, <1>3, <1>6, <2>2, <2>3, <2>4, <2>5, <2>6, ActsKeep
<1>7. overlapped => LifeKept'
  BY <1>3 DEF LifeKept
<1> QED
  BY <1>5, <1>6, <1>7

\* The store of ++ counts the object, exactly once.
LEMMA LifeIncrement ==
    ASSUME LifeTypeOK, LifeKept, NEW t \in Threads, Increment(t)
    PROVE  LifeTypeOK' /\ LifeKept'
<1>0. ~IsAt(t, "idle") /\ thread[t].at = "increment"
  BY DEF Increment, IsAt
<1>1. PICK i \in Ids : i = Holding(t) /\ obj[i] \in Object /\ thread[t] \in Local
  BY <1>0, BusyHolds
<1>2. PICK k \in Counters : k = Counter(i)
  BY DEF Counter, Counters
<1>b. /\ count' = [count EXCEPT ![k] = thread[t].reg + 1] /\ thread[t].reg \in Int
      /\ UNCHANGED <<winsock, holder, bases, overlapped>>
  BY <1>1, <1>2 DEF Increment, Local
<1>3. \E l, o : /\ Acts(t, l, o) /\ o.kind = obj[i].kind /\ o.handle = obj[i].handle /\ o.closed = obj[i].closed
                /\ \/ l.at = "idle" /\ o.at = "live" /\ obj[i].kind \in {"accepted", "worker"}
                   \/ /\ l.at = "open" /\ l.id = i /\ o.at = obj[i].at
                      /\ obj[i].kind \notin {"accepted", "worker"}
  <2>1. CASE obj[i].kind \in {"accepted", "worker"}
    <3> DEFINE l == [at |-> "idle", id |-> Nobody, reg |-> 0]
               o == [obj[i] EXCEPT !.at = "live"]
    <3>1. Acts(t, l, o)
      <4>1. "live" \in Ats
        BY DEF Ats
      <4> QED
        BY <1>0, <1>1, <1>b, <2>1, <4>1, ThreadForms, ObjectForms DEF Acts, Increment
    <3>2. /\ l.at = "idle" /\ o.at = "live" /\ o.kind = obj[i].kind /\ o.handle = obj[i].handle
          /\ o.closed = obj[i].closed
      BY <1>1 DEF Object
    <3> QED
      BY <2>1, <3>1, <3>2
  <2>2. CASE obj[i].kind \notin {"accepted", "worker"}
    <3> DEFINE l == [thread[t] EXCEPT !.at = "open"]
    <3>1. Acts(t, l, obj[i])
      <4>1. "open" \in Places
        BY DEF Places
      <4> QED
        BY <1>0, <1>1, <1>b, <2>2, <4>1, ThreadForms, ObjectForms DEF Acts, Increment
    <3>2. l.at = "open" /\ l.id = i
      BY <1>1 DEF Local, Holding
    <3> QED
      BY <2>2, <3>1, <3>2
  <2> QED
    BY <2>1, <2>2
<1>4. PICK l, o : /\ Acts(t, l, o) /\ o.kind = obj[i].kind /\ o.handle = obj[i].handle /\ o.closed = obj[i].closed
                  /\ \/ l.at = "idle" /\ o.at = "live" /\ obj[i].kind \in {"accepted", "worker"}
                     \/ /\ l.at = "open" /\ l.id = i /\ o.at = obj[i].at
                        /\ obj[i].kind \notin {"accepted", "worker"}
  BY <1>3
<1>a. thread'[t] = l /\ obj'[i] = o /\ \A j \in Ids \ {i} : obj'[j] = obj[j]
  BY <1>1, <1>4, ActsTypes
<1>5. LifeTypeOK'
  <2>1. count' \in [Counters -> Int]
    BY <1>b DEF LifeTypeOK
  <2> QED
    BY <1>1, <1>b, <1>4, <2>1, ActsTypes DEF LifeTypeOK
<1>6. ASSUME ~overlapped PROVE LifeKept'
  <2>1. Placed(t) /\ obj[i].kind \in Kinds /\ obj[i].at = "building" /\ thread[t].reg = count[k]
    BY <1>0, <1>1, <1>2, <1>6 DEF LifeKept, Placed
  <2>2. Placed(t)'
    BY <1>4, <1>a, <2>1 DEF Placed, Holding, Kinds
  <2>c. count[k] \in Nat /\ count'[k] = count[k] + 1 /\ \A m \in Counters \ {k} : count'[m] = count[m]
    BY <1>6, <1>b, <2>1, CountNotNegative DEF LifeTypeOK
  <2>3. ASSUME NEW m \in Counters PROVE Cardinality(Members(m)') <= count'[m]
    <3>0. ~Member(i, m) /\ (Member(i, m)' <=> m = k)
      BY <1>0, <1>1, <1>2, <1>4, <1>6, <2>1, MemberBy
    <3>1. \A j \in Ids \ {i} : Member(j, m)' = Member(j, m)
      BY <1>0, <1>1, <1>4, <1>6, ActsFrame
    <3>2. CASE m = k
      <4>1. Members(m)' = Members(m) \cup {i} /\ i \notin Members(m)
        BY <3>0, <3>1, <3>2 DEF Members
      <4>2. IsFiniteSet(Members(m)) /\ Cardinality(Members(m)) \in Nat /\ Cardinality(Members(m)) <= count[m]
        BY <1>6, MembersFinite, CountNotNegative
      <4>3. Cardinality(Members(m) \cup {i}) = Cardinality(Members(m)) + 1
        BY <4>1, <4>2, FS_AddElement
      <4> QED
        BY <2>c, <3>2, <4>1, <4>2, <4>3
    <3>3. CASE m # k
      <4>1. Members(m)' = Members(m)
        BY <3>0, <3>1, <3>3 DEF Members
      <4> QED
        BY <1>6, <2>c, <3>3, <4>1 DEF LifeKept
    <3> QED
      BY <3>2, <3>3
  <2>4. Referenced'
    <3>1. \A m \in Counters : /\ Held(m) <=> count[m] > 0 \/ k = m
                              /\ Held(m)' <=> count'[m] > 0
      BY <1>0, <1>1, <1>2, <1>4, <1>6, HeldBy
    <3>2. Held(k) /\ Held(k)' /\ \A m \in Counters \ {k} : Held(m)' <=> Held(m)
      BY <2>c, <3>1
    <3>3. winsock' - One(Held(k)') >= winsock - One(Held(k))
      BY <1>b, <3>2 DEF One, LifeTypeOK
    <3>4. Pings' = Pings /\ Referenced
      BY <1>0, <1>4, <1>6, ActsFrame DEF LifeKept
    <3> QED
      BY <1>b, <1>5, <3>2, <3>3, <3>4, ReferenceMoves
  <2>5. \A j \in Ids : InUse(j)' => holder'[obj'[j].handle] = j
    BY <1>b, <1>4, <1>6, <1>a, <2>1 DEF LifeKept, HandlesValid, InUse
  <2>6. ~(o.kind = "ping")
    BY <1>4, <2>1 DEF Kinds
  <2> QED
    BY <1>0, <1>4, <1>6, <2>2, <2>3, <2>4, <2>5, <2>6, ActsKeep
<1>7. overlapped => LifeKept'
  BY <1>b DEF LifeKept
<1> QED
  BY <1>5, <1>6, <1>7

\* The store of -- takes an object away that was counted.
LEMMA LifeDecrement ==
    ASSUME LifeTypeOK, LifeKept, NEW t \in Threads, Decrement(t)
    PROVE  LifeTypeOK' /\ LifeKept'
<1>0. ~IsAt(t, "idle") /\ thread[t].at = "decrement"
  BY DEF Decrement, IsAt
<1>1. PICK i \in Ids : i = Holding(t) /\ obj[i] \in Object /\ thread[t] \in Local /\ thread[t].reg \in Int
  BY <1>0, BusyHolds DEF Local
<1>2. PICK k \in Counters : k = Counter(i)
  BY DEF Counter, Counters
<1>b. /\ count' = [count EXCEPT ![k] = thread[t].reg - 1]
      /\ UNCHANGED <<winsock, holder, bases, overlapped, obj>>
  BY <1>1, <1>2 DEF Decrement
<1> DEFINE n == thread[t].reg - 1
           l == [thread[t] EXCEPT !.at = "end", !.reg = n]
<1>3. Acts(t, l, obj[i])
  <2>1. "end" \in Places /\ n \in Int
    BY <1>1 DEF Places
  <2>2. thread' = [thread EXCEPT ![t].at = "end", ![t].reg = n]
    BY <1>1 DEF Decrement, LifeTypeOK, Local
  <2> QED
    BY <1>0, <1>1, <1>b, <2>1, <2>2, ThreadForms, ObjectForms DEF Acts
<1>4. l.at = "end" /\ l.id = i /\ l.reg = thread[t].reg - 1
  BY <1>1 DEF Local, Holding
<1> HIDE DEF l
<1>a. thread'[t] = l /\ Counter(i)' = k
  BY <1>1, <1>2, <1>3, <1>b, ActsTypes DEF Counter
<1>5. LifeTypeOK'
  <2>1. count' \in [Counters -> Int]
    BY <1>1, <1>b DEF LifeTypeOK
  <2> QED
    BY <1>1, <1>b, <1>3, <2>1, ActsTypes DEF LifeTypeOK
<1>6. ASSUME ~overlapped PROVE LifeKept'
  <2>1. Placed(t) /\ obj[i].kind \in Kinds /\ obj[i].at = "dying" /\ thread[t].reg = count[k]
    BY <1>0, <1>1, <1>2, <1>6 DEF LifeKept, Placed
  <2>c. count[k] \in Nat /\ count'[k] = count[k] - 1 /\ \A m \in Counters \ {k} : count'[m] = count[m]
    BY <1>6, <1>b, <2>1, CountNotNegative DEF LifeTypeOK
  <2>2. Placed(t)'
    <3>1. Holding(t)' = i /\ obj'[i] = obj[i] /\ Counter(Holding(t))' = k
      BY <1>4, <1>a, <1>b DEF Holding, Counter
    <3> QED
      BY <1>4, <1>a, <2>1, <2>c, <3>1 DEF Placed
  <2>m. \A m \in Counters : (Member(i, m) <=> m = k) /\ ~Member(i, m)'
    BY <1>0, <1>1, <1>2, <1>3, <1>4, <1>6, <2>1, MemberBy
  <2>3. ASSUME NEW m \in Counters PROVE Cardinality(Members(m)') <= count'[m]
    <3>1. \A j \in Ids \ {i} : Member(j, m)' = Member(j, m)
      BY <1>0, <1>1, <1>3, <1>6, ActsFrame
    <3>2. CASE m = k
      <4>1. Members(m)' = Members(m) \ {i} /\ i \in Members(m)
        BY <2>m, <3>1, <3>2 DEF Members
      <4>2. IsFiniteSet(Members(m)) /\ Cardinality(Members(m)) \in Nat /\ Cardinality(Members(m)) <= count[m]
        BY <1>6, MembersFinite, CountNotNegative
      <4>3. Cardinality(Members(m) \ {i}) = Cardinality(Members(m)) - 1
        BY <4>1, <4>2, FS_RemoveElement
      <4> QED
        BY <2>c, <3>2, <4>1, <4>2, <4>3
    <3>3. CASE m # k
      <4>1. Members(m)' = Members(m)
        BY <2>m, <3>1, <3>3 DEF Members
      <4> QED
        BY <1>6, <2>c, <3>3, <4>1 DEF LifeKept
    <3> QED
      BY <3>2, <3>3
  <2>4. Referenced'
    <3>0. count[k] > 0
      <4>1. i \in Members(k) /\ {i} \subseteq Members(k) /\ Cardinality({i}) = 1
        BY <2>m, FS_Singleton DEF Members
      <4> QED
        BY <1>6, <2>c, <4>1, MembersFinite, CountNotNegative
    <3>1. \A m \in Counters : /\ Held(m) <=> count[m] > 0
                              /\ Held(m)' <=> count'[m] > 0 \/ k = m
      BY <1>0, <1>1, <1>2, <1>3, <1>4, <1>6, HeldBy
    <3>2. Held(k) /\ Held(k)' /\ \A m \in Counters \ {k} : Held(m)' <=> Held(m)
      BY <2>c, <3>0, <3>1
    <3>3. winsock' - One(Held(k)') >= winsock - One(Held(k))
      BY <1>b, <3>2 DEF One, LifeTypeOK
    <3>4. Pings' = Pings /\ Referenced
      BY <1>0, <1>1, <1>3, <1>6, ActsFrame DEF LifeKept
    <3> QED
      BY <1>b, <1>5, <3>2, <3>3, <3>4, ReferenceMoves
  <2>5. \A j \in Ids : InUse(j)' => holder'[obj'[j].handle] = j
    BY <1>b, <1>6 DEF LifeKept, HandlesValid, InUse
  <2>6. ~(obj[i].kind = "ping")
    BY <2>1 DEF Kinds
  <2> QED
    BY <1>0, <1>1, <1>3, <1>6, <2>2, <2>3, <2>4, <2>5, <2>6, ActsKeep
<1>7. overlapped => LifeKept'
  BY <1>b DEF LifeKept
<1> QED
  BY <1>5, <1>6, <1>7

\* When Winsock has no reference but that of class k or of a base, nobody but class k
\* has an open handle.
LEMMA LastReference ==
    ASSUME LifeTypeOK, LifeKept, ~overlapped, winsock = 1, NEW j \in Ids, InUse(j)
    PROVE  /\ bases = 0
           /\ \A k \in Counters : Held(k) => Counter(j) = k /\ count[k] > 0
<1>1. bases \in Nat /\ 1 >= bases + One(Held("Socket")) + One(Held("Async")) + One(Pings # {})
  BY DEF LifeKept, Referenced, LifeTypeOK
<1>2. CASE obj[j].kind = "ping"
  <2>1. Pings # {}
    BY <1>2 DEF Pings
  <2> QED
    BY <1>1, <2>1 DEF One, Counters
<1>3. CASE obj[j].kind \in Kinds
  <2>1. count[Counter(j)] > 0 /\ Counter(j) \in Counters
    BY <1>3, InUseCounts DEF Counter, Counters
  <2>2. Held(Counter(j))
    BY <2>1 DEF Held
  <2>3. CASE Counter(j) = "Socket"
    BY <1>1, <2>1, <2>2, <2>3 DEF One, Counters
  <2>4. CASE Counter(j) = "Async"
    BY <1>1, <2>1, <2>2, <2>4 DEF One, Counters
  <2> QED
    BY <2>1, <2>3, <2>4 DEF Counters
<1>4. CASE obj[j].kind = "none"
  BY <1>4 DEF LifeKept, NotYet, Unborn, InUse
<1> QED
  BY <1>2, <1>3, <1>4 DEF LifeTypeOK, Object

\* The last object of a class cleans Winsock up, and closes no handle in use.
LEMMA LifeEnd ==
    ASSUME LifeTypeOK, LifeKept, NEW t \in Threads, End(t)
    PROVE  LifeTypeOK' /\ LifeKept'
<1>0. ~IsAt(t, "idle") /\ thread[t].at = "end"
  BY DEF End, IsAt
<1>1. PICK i \in Ids : i = Holding(t) /\ obj[i] \in Object /\ thread[t] \in Local
  BY <1>0, BusyHolds
<1>2. PICK k \in Counters : k = Counter(i)
  BY DEF Counter, Counters
<1>b. PICK left \in {thread[t].reg, count[k]} :
         IF left = 0 THEN winsock' = Cleaned(winsock) /\ holder' = HandlesAfter(winsock)
         ELSE UNCHANGED <<winsock, holder>>
  BY <1>1, <1>2 DEF End
<1> DEFINE l == [at |-> "idle", id |-> Nobody, reg |-> 0]
           o == [obj[i] EXCEPT !.at = "gone"]
<1>3. Acts(t, l, o) /\ UNCHANGED <<count, bases, overlapped>>
  <2>1. "gone" \in Ats
    BY DEF Ats
  <2> QED
    BY <1>0, <1>1, <2>1, ThreadForms, ObjectForms DEF End, Acts
<1>4. l.at = "idle" /\ o.at = "gone" /\ o.kind = obj[i].kind
  BY <1>1 DEF Object
<1> HIDE DEF l, o
<1>a. thread'[t] = l /\ obj'[i] = o /\ \A j \in Ids \ {i} : obj'[j] = obj[j]
  BY <1>1, <1>3, ActsTypes
<1>5. LifeTypeOK'
  <2>1. winsock' \in Nat /\ holder' \in [Handles -> Ids \cup {Nobody}]
    BY <1>b DEF LifeTypeOK, Cleaned, HandlesAfter
  <2> QED
    BY <1>1, <1>3, <2>1, ActsTypes DEF LifeTypeOK
<1>6. ASSUME ~overlapped PROVE LifeKept'
  <2>1. Placed(t) /\ obj[i].kind \in Kinds /\ obj[i].at = "dying" /\ thread[t].reg = count[k]
    BY <1>0, <1>1, <1>2, <1>6 DEF LifeKept, Placed
  <2>l. left = count[k] /\ count[k] \in Nat /\ winsock \in Nat
    BY <1>6, <2>1, CountNotNegative DEF LifeTypeOK
  <2>2. Placed(t)'
    BY <1>4, <1>a DEF Placed
  <2>3. ASSUME NEW m \in Counters PROVE Cardinality(Members(m)') <= count'[m]
    <3>1. Member(i, m)' = FALSE /\ Member(i, m) = FALSE
      <4>1. Member(i, m)' \in BOOLEAN /\ Member(i, m) \in BOOLEAN
        BY DEF Member
      <4> QED
        BY <1>0, <1>1, <1>3, <1>4, <1>6, <4>1, MemberBy
    <3>2. \A j \in Ids : Member(j, m)' = Member(j, m)
      BY <1>0, <1>1, <1>3, <1>6, <3>1, ActsFrame
    <3>3. Members(m)' = Members(m)
      BY <3>2 DEF Members
    <3> QED
      BY <1>3, <1>6, <3>3 DEF LifeKept
  <2>h. \A m \in Counters : /\ Held(m) <=> count[m] > 0 \/ k = m
                            /\ Held(m)' <=> count[m] > 0
    BY <1>0, <1>1, <1>2, <1>3, <1>4, <1>6, HeldBy
  <2>4. Referenced'
    <3>0. winsock >= 1
      <4>1. winsock >= bases + One(Held("Socket")) + One(Held("Async")) + One(Pings # {}) /\ bases \in Nat
        BY <1>6 DEF LifeKept, Referenced, LifeTypeOK
      <4>2. Held("Socket") \/ Held("Async")
        BY <2>h DEF Counters
      <4> QED
        BY <2>l, <4>1, <4>2 DEF One
    <3>3. winsock' - One(Held(k)') >= winsock - One(Held(k))
      <4>1. CASE count[k] = 0
        <5>1. winsock' = winsock - 1
          BY <1>b, <2>l, <3>0, <4>1 DEF Cleaned
        <5> QED
          BY <2>h, <2>l, <4>1, <5>1 DEF One
      <4>2. CASE count[k] # 0
        BY <1>b, <2>h, <2>l, <4>2 DEF One
      <4> QED
        BY <4>1, <4>2
    <3>4. Pings' = Pings /\ Referenced
      BY <1>0, <1>1, <1>3, <1>6, ActsFrame DEF LifeKept
    <3> QED
      BY <1>3, <1>5, <2>h, <3>3, <3>4, ReferenceMoves
  <2>5. ASSUME NEW j \in Ids, InUse(j)' PROVE holder'[obj'[j].handle] = j
    <3>1. j # i
      BY <1>4, <1>a, <2>5 DEF InUse
    <3>2. InUse(j) /\ obj'[j] = obj[j] /\ holder[obj[j].handle] = j
      BY <1>6, <1>a, <2>5, <3>1 DEF InUse, LifeKept, HandlesValid
    <3>3. holder' = holder
      <4>1. CASE left = 0 /\ winsock = 1
        <5>1. Held(k)
          BY <2>h
        <5>2. count[k] > 0
          BY <1>6, <3>2, <4>1, <5>1, LastReference
        <5> QED
          BY <2>l, <4>1, <5>2
      <4>2. CASE ~(left = 0 /\ winsock = 1)
        BY <1>b, <4>2 DEF HandlesAfter
      <4> QED
        BY <4>1, <4>2
    <3> QED
      BY <3>2, <3>3
  <2>6. ~(o.kind = "ping")
    BY <1>4, <2>1 DEF Kinds
  <2> QED
    BY <1>0, <1>1, <1>3, <1>6, <2>2, <2>3, <2>4, <2>5, <2>6, ActsKeep
<1>7. overlapped => LifeKept'
  BY <1>3 DEF LifeKept
<1> QED
  BY <1>5, <1>6, <1>7

\* A thread enters when all are idle, or overlaps.
LEMMA EntersFrame ==
    ASSUME LifeTypeOK, NEW t \in Threads, NEW i \in Ids, NEW where \in {"start", "close", "ping"},
           Enters(t, where, i)
    PROVE  /\ thread' \in [Threads -> Local] /\ ~overlapped /\ overlapped' \in BOOLEAN
           /\ \A u \in Threads : IsAt(u, "idle")' \/ Holding(u)' \in Ids
           /\ thread'[t].at = where /\ thread'[t].id = i
           /\ ~overlapped' => \A u \in Threads : /\ thread[u].at = "idle"
                                                 /\ u # t => thread'[u].at = "idle"
<1>1. /\ thread' = [thread EXCEPT ![t] = [at |-> where, id |-> i, reg |-> 0]]
      /\ thread \in [Threads -> Local] /\ ~overlapped
      /\ overlapped' = (\E u \in Threads : ~IsAt(u, "idle"))
  BY DEF Enters, LifeTypeOK
<1>2. [at |-> where, id |-> i, reg |-> 0] \in Local
  BY DEF Local, Places
<1>3. /\ thread' \in [Threads -> Local] /\ thread'[t] = [at |-> where, id |-> i, reg |-> 0]
      /\ \A u \in Threads \ {t} : thread'[u] = thread[u]
  BY <1>1, <1>2
<1>4. \A u \in Threads : IsAt(u, "idle")' \/ Holding(u)' \in Ids
  BY <1>3 DEF LifeTypeOK, IsAt, Holding
<1>5. ~overlapped' => \A u \in Threads : thread[u].at = "idle"
  BY <1>1 DEF IsAt
<1> QED
  BY <1>1, <1>3, <1>4, <1>5

\* What is left to show of a thread that enters alone.
LEMMA EntersKeep ==
    ASSUME LifeTypeOK, LifeKept, NEW t \in Threads, NEW i \in Ids, NEW where \in {"start", "close", "ping"},
           Enters(t, where, i), LifeTypeOK', ~overlapped', UNCHANGED <<count, bases>>,
           NEW o, obj'[i] = o, \A j \in Ids \ {i} : obj'[j] = obj[j],
           o.kind # "none", o.at # "live",
           where # "close" => obj[i].kind = "none",
           where = "start" <=> o.at = "building" /\ o.kind \in Kinds,
           where = "close" => o.kind = obj[i].kind /\ obj[i].at # "gone",
           winsock' >= winsock + One(where = "ping"), o.kind = "ping" => where = "ping",
           Placed(t)',
           \A j \in Ids : InUse(j)' => holder'[obj'[j].handle] = j
    PROVE  LifeKept'
<1>0. /\ \A u \in Threads : thread[u].at = "idle" /\ (u # t => thread'[u].at = "idle")
      /\ thread'[t].at = where /\ thread'[t].id = i /\ ~overlapped
  BY EntersFrame
<1>1. Alone' /\ \A u \in Threads : Placed(u)'
  BY <1>0 DEF Alone, IsAt, Placed
<1>2. NotYet'
  BY <1>0 DEF LifeKept, NotYet, Unborn
<1>3. \A j \in Pings : ~Alive(j)
  BY <1>0 DEF LifeKept, PingsHeld
<1>4. PingsHeld'
  <2> SUFFICES ASSUME NEW j \in Pings', Alive(j)' PROVE FALSE
    BY DEF PingsHeld
  <2> QED
    BY <1>3 DEF Pings, Alive
<1>5. HandlesValid'
  BY DEF HandlesValid
<1>6. ASSUME NEW k \in Counters PROVE Cardinality(Members(k)') <= count'[k]
  <2>1. \A j \in Ids \ {i} : Member(j, k)' <=> Member(j, k)
    <3> SUFFICES ASSUME NEW j \in Ids \ {i} PROVE Member(j, k)' <=> Member(j, k)
      OBVIOUS
    <3>1. /\ \A u \in Threads : thread'[u].id = j => thread'[u].at \notin {"start", "load", "increment", "end"}
          /\ \A u \in Threads : thread[u].id = j => thread[u].at \notin {"start", "load", "increment", "end"}
      BY <1>0
    <3> QED
      BY <3>1 DEF Member, Counter, Holding
  <2>2. Member(i, k)' => Member(i, k)
    <3>1. CASE where = "start"
      BY <1>0, <3>1 DEF Member, Holding
    <3>2. CASE where = "ping"
      <4>1. o.kind \notin Kinds \/ o.at # "building"
        BY <3>2
      <4>2. o.kind \notin Kinds
        BY <1>1, <1>0, <3>2 DEF Placed, Holding, Kinds
      <4> QED
        BY <4>2 DEF Member
    <3>3. CASE where = "close"
      BY <1>0, <3>3 DEF Member, Holding, Counter
    <3> QED
      BY <3>1, <3>2, <3>3
  <2>3. Members(k)' \subseteq Members(k)
    <3> SUFFICES ASSUME NEW j \in Ids, Member(j, k)' PROVE Member(j, k)
      BY DEF Members
    <3> QED
      BY <2>1, <2>2
  <2>4. Cardinality(Members(k)') <= Cardinality(Members(k)) /\ Cardinality(Members(k)') \in Nat
    BY <2>3, MembersFinite, FS_Subset, FS_CardinalityType
  <2>5. Cardinality(Members(k)) \in Nat /\ Cardinality(Members(k)) <= count[k] /\ count[k] \in Nat
    BY <1>0, MembersFinite, CountNotNegative
  <2> QED
    BY <2>4, <2>5
<1>7. Referenced'
  <2>1. \A k \in Counters : One(Held(k)') = One(Held(k))
    BY <1>0 DEF Held, One
  <2>2. One(Pings' # {}) <= One(Pings # {}) + One(where = "ping")
    <3>1. CASE where = "ping"
      BY <3>1 DEF One
    <3>2. CASE where # "ping"
      <4>1. Pings' \subseteq Pings
        BY <3>2 DEF Pings
      <4> QED
        BY <4>1 DEF One
    <3> QED
      BY <3>1, <3>2
  <2>3. One(Held("Socket")') = One(Held("Socket")) /\ One(Held("Async")') = One(Held("Async"))
    BY <2>1 DEF Counters
  <2>4. winsock >= bases + One(Held("Socket")) + One(Held("Async")) + One(Pings # {})
    BY <1>0 DEF LifeKept, Referenced
  <2>5. winsock \in Nat /\ winsock' \in Nat /\ bases \in Nat /\ \A b : One(b) \in {0, 1}
    BY DEF LifeTypeOK, One
  <2>6. winsock' >= bases + One(Held("Socket")') + One(Held("Async")') + One(Pings' # {})
    <3> HIDE DEF One
    <3> QED
      BY <2>2, <2>3, <2>4, <2>5
  <2> QED
    BY <2>6 DEF Referenced
<1> QED
  BY <1>1, <1>2, <1>4, <1>5, <1>6, <1>7 DEF LifeKept

\* An object is made of one that was not there.
LEMMA MadeOf ==
    ASSUME LifeTypeOK, NEW i \in Ids, NEW kind \in Kinds \cup {"ping"}, NEW h \in Handles \cup {Nobody},
           obj' = Made(i, kind, h)
    PROVE  /\ obj' \in [Ids -> Object] /\ \A j \in Ids \ {i} : obj'[j] = obj[j]
           /\ obj'[i] = [kind |-> kind, at |-> "building", handle |-> h, closed |-> FALSE]
<1>1. [kind |-> kind, at |-> "building", handle |-> h, closed |-> FALSE] \in Object
  BY DEF Object
<1> QED
  BY <1>1 DEF Made, LifeTypeOK

\* network.listen and network.async begin.
LEMMA LifeCreate ==
    ASSUME LifeTypeOK, LifeKept, NEW t \in Threads, NEW i \in Ids, NEW kind \in {"server", "async"},
           Create(t, i, kind)
    PROVE  LifeTypeOK' /\ LifeKept'
<1>0. /\ obj[i].kind = "none" /\ Enters(t, "start", i) /\ obj' = Made(i, kind, Nobody)
      /\ UNCHANGED <<count, winsock, holder, bases>>
  BY DEF Create, Unborn
<1> DEFINE o == [kind |-> kind, at |-> "building", handle |-> Nobody, closed |-> FALSE]
<1>1. obj' \in [Ids -> Object] /\ obj'[i] = o /\ \A j \in Ids \ {i} : obj'[j] = obj[j]
  BY <1>0, MadeOf DEF Kinds
<1>2. LifeTypeOK'
  BY <1>0, <1>1, EntersFrame DEF LifeTypeOK
<1>3. ASSUME ~overlapped' PROVE LifeKept'
  <2>0. thread'[t].at = "start" /\ thread'[t].id = i /\ ~overlapped
    BY <1>0, EntersFrame
  <2>1. Placed(t)'
    BY <1>1, <2>0 DEF Placed, Holding, Kinds
  <2>2. \A j \in Ids : InUse(j)' => holder'[obj'[j].handle] = j
    BY <1>0, <1>1, <2>0 DEF InUse, LifeKept, HandlesValid
  <2>3. winsock' >= winsock + One("start" = "ping") /\ o.kind \in Kinds
    BY <1>0 DEF One, LifeTypeOK, Kinds
  <2> QED
    BY <1>0, <1>1, <1>2, <1>3, <2>1, <2>2, <2>3, EntersKeep
<1> QED
  BY <1>2, <1>3 DEF LifeKept

\* A connection is accepted: Winsock is held by the listener.
LEMMA LifeAccept ==
    ASSUME LifeTypeOK, LifeKept, NEW t \in Threads, NEW i \in Ids, NEW kind \in {"accepted", "worker"},
           Accept(t, i, kind)
    PROVE  LifeTypeOK' /\ LifeKept'
<1>0. /\ obj[i].kind = "none" /\ Enters(t, "start", i) /\ UNCHANGED <<count, winsock, bases>>
  BY DEF Accept, Unborn
<1>h. PICK h \in Free : obj' = Made(i, kind, h) /\ holder' = [holder EXCEPT ![h] = i]
  BY DEF Accept
<1>s. PICK s \in Ids : obj[s].kind = "server" /\ Alive(s)
  BY DEF Accept
<1> DEFINE o == [kind |-> kind, at |-> "building", handle |-> h, closed |-> FALSE]
<1>1. obj' \in [Ids -> Object] /\ obj'[i] = o /\ \A j \in Ids \ {i} : obj'[j] = obj[j]
  BY <1>h, MadeOf DEF Kinds, Free
<1>2. LifeTypeOK'
  <2>1. holder' \in [Handles -> Ids \cup {Nobody}]
    BY <1>h DEF LifeTypeOK
  <2> QED
    BY <1>0, <1>1, <2>1, EntersFrame DEF LifeTypeOK
<1>3. ASSUME ~overlapped' PROVE LifeKept'
  <2>0. thread'[t].at = "start" /\ thread'[t].id = i /\ ~overlapped /\ \A u \in Threads : thread[u].at = "idle"
    BY <1>0, <1>3, EntersFrame
  <2>c. count["Socket"] > 0
    <3>1. "Socket" \in Counters /\ s \in Members("Socket")
      BY <1>s, <2>0 DEF Counters, Members, Member, Counter, Kinds, Alive
    <3>2. {s} \subseteq Members("Socket") /\ Cardinality({s}) = 1
      BY <3>1, FS_Singleton
    <3> QED
      BY <2>0, <3>1, <3>2, MembersFinite, CountNotNegative
  <2>1. Placed(t)'
    BY <1>0, <1>1, <2>0, <2>c DEF Placed, Holding, Kinds
  <2>2. ASSUME NEW j \in Ids, InUse(j)' PROVE holder'[obj'[j].handle] = j
    <3>1. CASE j = i
      BY <1>1, <1>h, <3>1 DEF LifeTypeOK, Free
    <3>2. CASE j # i
      <4>1. InUse(j) /\ obj'[j] = obj[j]
        BY <1>1, <2>2, <3>2 DEF InUse
      <4>2. obj[j].handle \in Handles /\ holder[obj[j].handle] = j /\ obj[j].handle # h
        BY <2>0, <4>1, FreeHandles
      <4> QED
        BY <1>h, <4>1, <4>2 DEF LifeTypeOK
    <3> QED
      BY <3>1, <3>2
  <2>3. winsock' >= winsock + One("start" = "ping") /\ o.kind \in Kinds
    BY <1>0 DEF One, LifeTypeOK, Kinds
  <2> QED
    BY <1>0, <1>1, <1>2, <1>3, <2>1, <2>2, <2>3, EntersKeep
<1> QED
  BY <1>2, <1>3 DEF LifeKept

\* A worker ends or an asynchronous connection is collected.
LEMMA LifeDestroy ==
    ASSUME LifeTypeOK, LifeKept, NEW t \in Threads, NEW i \in Ids, Destroy(t, i)
    PROVE  LifeTypeOK' /\ LifeKept'
<1>0. /\ obj[i].kind \in {"worker", "async"} /\ obj[i].at = "live" /\ Enters(t, "close", i)
      /\ obj' = [obj EXCEPT ![i].at = "dying"] /\ UNCHANGED <<count, winsock, holder, bases>>
  BY DEF Destroy, Alive
<1> DEFINE o == [obj[i] EXCEPT !.at = "dying"]
<1>1. obj' \in [Ids -> Object] /\ obj'[i] = o /\ \A j \in Ids \ {i} : obj'[j] = obj[j]
  <2>1. "dying" \in Ats
    BY DEF Ats
  <2>2. ObjectBecomes(i, o)
    BY <1>0, <2>1, ObjectForms
  <2> QED
    BY <2>2 DEF ObjectBecomes, LifeTypeOK
<1>4. /\ o.at = "dying" /\ o.kind = obj[i].kind /\ o.handle = obj[i].handle /\ o.closed = obj[i].closed
      /\ obj[i].handle \in Handles \cup {Nobody}
  BY DEF Object, LifeTypeOK
<1> HIDE DEF o
<1>2. LifeTypeOK'
  BY <1>0, <1>1, EntersFrame DEF LifeTypeOK
<1>3. ASSUME ~overlapped' PROVE LifeKept'
  <2>0. thread'[t].at = "close" /\ thread'[t].id = i /\ ~overlapped
    BY <1>0, EntersFrame
  <2>1. Placed(t)'
    <3>1. ~o.closed /\ o.handle # Nobody => holder[o.handle] = i
      BY <1>0, <1>4, <2>0 DEF LifeKept, HandlesValid, InUse
    <3> QED
      BY <1>0, <1>1, <1>4, <2>0, <3>1 DEF Placed, Holding, Kinds
  <2>2. \A j \in Ids : InUse(j)' => holder'[obj'[j].handle] = j
    BY <1>0, <1>1, <1>4, <2>0 DEF InUse, LifeKept, HandlesValid
  <2>3. winsock' >= winsock + One("close" = "ping") /\ o.kind \in Kinds /\ o.kind # "ping" /\ o.kind # "none"
    BY <1>0, <1>4 DEF One, LifeTypeOK, Kinds
  <2> QED
    BY <1>0, <1>1, <1>2, <1>3, <1>4, <2>1, <2>2, <2>3, EntersKeep
<1> QED
  BY <1>2, <1>3 DEF LifeKept

LEMMA DifferenceKept ==
    \A w, v, b, d, x, y, z \in Int : v - d >= w - b /\ w >= b + x + y + z => v >= d + x + y + z
OBVIOUS

\* What is left to show of a step of nobody's constructor or destructor.
LEMMA AsideKeeps ==
    ASSUME LifeTypeOK, LifeKept, ~overlapped, LifeTypeOK', UNCHANGED <<thread, overlapped, count>>,
           \A j \in Ids : /\ obj'[j].kind = obj[j].kind /\ obj'[j].at = obj[j].at
                          /\ obj'[j].handle = obj[j].handle /\ (obj[j].closed => obj'[j].closed)
                          /\ obj[j].kind = "ping" => obj'[j].closed = obj[j].closed,
           \A h \in Handles : holder'[h] \in {holder[h], Nobody},
           winsock' - bases' >= winsock - bases,
           \A j \in Ids : InUse(j)' => holder'[obj'[j].handle] = j
    PROVE  LifeKept'
<1>1. Alone' /\ NotYet' /\ PingsHeld'
  <2>1. Alone'
    BY DEF LifeKept, Alone, IsAt
  <2>2. NotYet'
    BY DEF LifeKept, NotYet, Unborn
  <2>3. PingsHeld'
    BY DEF LifeKept, PingsHeld, Pings, Alive, Holding
  <2> QED
    BY <2>1, <2>2, <2>3
<1>c. \A j \in Ids : Counter(j)' = Counter(j)
  BY DEF Counter
<1>2. ASSUME NEW t \in Threads PROVE Placed(t)'
  <2>1. CASE IsAt(t, "idle")
    BY <2>1 DEF Placed, IsAt
  <2>2. CASE ~IsAt(t, "idle")
    <3>1. PICK i \in Ids : i = Holding(t)
      BY <2>2, BusyHolds
    <3>2. Holding(t)' = i /\ Counter(Holding(t))' = Counter(i) /\ thread'[t] = thread[t]
      BY <1>c, <3>1 DEF Holding, Counter
    <3>3. obj[i].handle \in Handles \cup {Nobody} /\ Placed(t)
      BY DEF LifeTypeOK, Object, LifeKept
    <3> QED
      BY <3>1, <3>2, <3>3 DEF Placed
  <2> QED
    BY <2>1, <2>2
<1>3. ASSUME NEW k \in Counters PROVE Cardinality(Members(k)') <= count'[k]
  <2>1. \A j \in Ids : Member(j, k)' <=> Member(j, k)
    BY <1>c DEF Member, Holding
  <2>2. Members(k)' = Members(k)
    BY <2>1 DEF Members
  <2> QED
    BY <2>2 DEF LifeKept
<1>4. Referenced'
  <2>1. \A k \in Counters : One(Held(k)') = One(Held(k))
    <3> SUFFICES ASSUME NEW k \in Counters PROVE Held(k)' <=> Held(k)
      BY DEF One
    <3>1. \A t \in Threads : thread[t].at \in {"load", "increment", "end"} => Counter(Holding(t))' = Counter(Holding(t))
      BY BusyHolds, <1>c DEF IsAt, Counter, Holding
    <3> QED
      BY <3>1 DEF Held
  <2>2. Pings' = Pings
    BY DEF Pings
  <2>3. One(Held("Socket")') = One(Held("Socket")) /\ One(Held("Async")') = One(Held("Async"))
    BY <2>1 DEF Counters
  <2>4. winsock >= bases + One(Held("Socket")) + One(Held("Async")) + One(Pings # {})
    BY DEF LifeKept, Referenced
  <2>5. winsock \in Nat /\ winsock' \in Nat /\ bases \in Nat /\ bases' \in Nat /\ \A b : One(b) \in {0, 1}
    BY DEF LifeTypeOK, One
  <2>6. winsock' >= bases' + One(Held("Socket")') + One(Held("Async")') + One(Pings' # {})
    <3>1. PICK s \in {0, 1}, a \in {0, 1}, p \in {0, 1} :
             s = One(Held("Socket")) /\ a = One(Held("Async")) /\ p = One(Pings # {})
      BY <2>5
    <3>2. winsock >= bases + s + a + p
      BY <2>4, <3>1
    <3>3. winsock \in Int /\ winsock' \in Int /\ bases \in Int /\ bases' \in Int
      BY <2>5
    <3>4. s \in Int /\ a \in Int /\ p \in Int
      OBVIOUS
    <3>5. winsock' - bases' >= winsock - bases
      OBVIOUS
    <3>6. winsock' >= bases' + s + a + p
      BY <3>2, <3>3, <3>4, <3>5, DifferenceKept
    <3> QED
      BY <2>2, <2>3, <3>1, <3>6
  <2> QED
    BY <2>6 DEF Referenced
<1>5. HandlesValid'
  BY DEF HandlesValid
<1> QED
  BY <1>1, <1>2, <1>3, <1>4, <1>5 DEF LifeKept

\* close(), and a connection that is found closed.
LEMMA LifeClosed ==
    ASSUME LifeTypeOK, LifeKept, NEW i \in Ids, Close(i) \/ MarkClosed(i)
    PROVE  LifeTypeOK' /\ LifeKept'
<1>0. /\ obj[i].at = "live" /\ ~obj[i].closed /\ obj[i].kind \in {"accepted", "worker"}
      /\ obj' = [obj EXCEPT ![i].closed = TRUE]
      /\ holder' \in {holder, Released(obj[i].handle)}
      /\ UNCHANGED <<count, winsock, thread, bases, overlapped>>
  BY DEF Close, MarkClosed, Alive
<1> DEFINE o == [obj[i] EXCEPT !.closed = TRUE]
<1>1. obj' \in [Ids -> Object] /\ obj'[i] = o /\ \A j \in Ids \ {i} : obj'[j] = obj[j]
  <2>1. ObjectBecomes(i, o)
    BY <1>0, ObjectForms
  <2> QED
    BY <2>1 DEF ObjectBecomes, LifeTypeOK
<1>2. o.at = obj[i].at /\ o.kind = obj[i].kind /\ o.handle = obj[i].handle /\ o.closed = TRUE
  BY DEF Object, LifeTypeOK
<1> HIDE DEF o
<1>3. LifeTypeOK'
  <2>1. \A u \in Threads : IsAt(u, "idle")' \/ Holding(u)' \in Ids
    BY <1>0 DEF LifeTypeOK, IsAt, Holding
  <2> QED
    BY <1>0, <1>1, <2>1, ReleaseType DEF LifeTypeOK
<1>4. ASSUME ~overlapped PROVE LifeKept'
  <2>1. \A h \in Handles : holder'[h] \in {holder[h], Nobody}
    BY <1>0 DEF Released, LifeTypeOK
  <2>2. ASSUME NEW j \in Ids, InUse(j)' PROVE holder'[obj'[j].handle] = j
    <3>1. j # i
      BY <1>1, <1>2, <2>2 DEF InUse
    <3>2. InUse(j) /\ obj'[j] = obj[j]
      BY <1>1, <2>2, <3>1 DEF InUse
    <3>3. obj[i].handle \in Handles \cup {Nobody} /\ (obj[i].handle # Nobody => holder[obj[i].handle] \in {i, Nobody})
      BY <1>0, <1>4 DEF LifeTypeOK, Object, LifeKept, HandlesValid, InUse
    <3>4. Released(obj[i].handle)[obj[j].handle] = j
      BY <1>4, <3>1, <3>2, <3>3, ReleaseKeeps
    <3>5. holder[obj[j].handle] = j
      BY <1>4, <3>2 DEF LifeKept, HandlesValid
    <3> QED
      BY <1>0, <3>2, <3>4, <3>5
  <2>3. \A j \in Ids : /\ obj'[j].kind = obj[j].kind /\ obj'[j].at = obj[j].at
                       /\ obj'[j].handle = obj[j].handle /\ (obj[j].closed => obj'[j].closed)
                       /\ obj[j].kind = "ping" => obj'[j].closed = obj[j].closed
    BY <1>0, <1>1, <1>2
  <2>4. winsock' - bases' >= winsock - bases
    BY <1>0 DEF LifeTypeOK
  <2> QED
    BY <1>0, <1>3, <1>4, <2>1, <2>2, <2>3, <2>4, AsideKeeps
<1> QED
  BY <1>0, <1>3, <1>4 DEF LifeKept

\* A CBaseSock is made, or ends without closing the handles of the others.
LEMMA LifeBases ==
    ASSUME LifeTypeOK, LifeKept, BaseStart \/ BaseEnd
    PROVE  LifeTypeOK' /\ LifeKept'
<1>0. /\ UNCHANGED <<count, obj, thread, overlapped>> /\ holder' \in {holder, HandlesAfter(winsock)}
      /\ winsock \in Nat /\ bases \in Nat
  BY DEF BaseStart, BaseEnd, LifeTypeOK
<1>1. LifeTypeOK'
  <2>1. \A u \in Threads : IsAt(u, "idle")' \/ Holding(u)' \in Ids
    BY <1>0 DEF LifeTypeOK, IsAt, Holding
  <2>2. winsock' \in Nat /\ bases' \in Nat
    BY <1>0 DEF BaseStart, BaseEnd, Cleaned
  <2>3. holder' \in [Handles -> Ids \cup {Nobody}]
    BY <1>0 DEF HandlesAfter, LifeTypeOK
  <2> QED
    BY <1>0, <2>1, <2>2, <2>3 DEF LifeTypeOK
<1>2. ASSUME ~overlapped PROVE LifeKept'
  <2>1. \A h \in Handles : holder'[h] \in {holder[h], Nobody}
    BY <1>0 DEF HandlesAfter
  <2>2. BaseEnd => winsock >= 1
    <3>1. winsock >= bases + One(Held("Socket")) + One(Held("Async")) + One(Pings # {}) /\ \A b : One(b) \in {0, 1}
      BY <1>2 DEF LifeKept, Referenced, One
    <3> QED
      BY <1>0, <3>1 DEF BaseEnd
  <2>3. winsock' - bases' >= winsock - bases
    BY <1>0, <2>2 DEF BaseStart, BaseEnd, Cleaned
  <2>4. ASSUME NEW j \in Ids, InUse(j)' PROVE holder'[obj'[j].handle] = j
    <3>1. InUse(j) /\ holder[obj[j].handle] = j /\ obj'[j] = obj[j]
      BY <1>0, <1>2, <2>4 DEF InUse, LifeKept, HandlesValid
    <3>2. holder' = holder
      <4>1. CASE BaseStart
        BY <4>1 DEF BaseStart
      <4>2. CASE BaseEnd
        <5>1. bases > 0
          BY <4>2 DEF BaseEnd
        <5>2. winsock # 1
          BY <1>2, <3>1, <5>1, LastReference
        <5> QED
          BY <4>2, <5>2 DEF BaseEnd, HandlesAfter
      <4> QED
        BY <4>1, <4>2
    <3> QED
      BY <3>1, <3>2
  <2> QED
    BY <1>0, <1>1, <1>2, <2>1, <2>3, <2>4, AsideKeeps
<1> QED
  BY <1>0, <1>1, <1>2 DEF LifeKept

LEMMA LifeStep ==
    ASSUME LifeTypeOK, LifeKept, LifeNext
    PROVE  LifeTypeOK' /\ LifeKept'
BY LifeCreate, LifeAccept, LifeDestroy, LifeStart, LifeLoad, LifeIncrement, LifeOpenFails, LifeOpens,
   LifeListenFails, LifeCloseHandle, LifeDecrement, LifeEnd, LifeClosed, LifeBases DEF LifeNext

\* A ping begins: it starts Winsock for itself.
LEMMA LifePing ==
    ASSUME LifeTypeOK, LifeKept, NEW t \in Threads, NEW i \in Ids, NEW n \in Retries, Ping(t, i, n)
    PROVE  LifeTypeOK' /\ LifeKept'
<1>0. /\ obj[i].kind = "none" /\ Enters(t, "ping", i) /\ obj' = Made(i, "ping", Nobody)
      /\ winsock' = winsock + 1 /\ UNCHANGED <<count, holder, bases>>
  BY DEF Ping, Unborn
<1> DEFINE o == [kind |-> "ping", at |-> "building", handle |-> Nobody, closed |-> FALSE]
<1>1. obj' \in [Ids -> Object] /\ obj'[i] = o /\ \A j \in Ids \ {i} : obj'[j] = obj[j]
  BY <1>0, MadeOf
<1>2. LifeTypeOK'
  <2>1. winsock' \in Nat
    BY <1>0 DEF LifeTypeOK
  <2> QED
    BY <1>0, <1>1, <2>1, EntersFrame DEF LifeTypeOK
<1>3. ASSUME ~overlapped' PROVE LifeKept'
  <2>0. thread'[t].at = "ping" /\ thread'[t].id = i /\ ~overlapped
    BY <1>0, EntersFrame
  <2>1. Placed(t)'
    BY <1>1, <2>0 DEF Placed, Holding, Kinds
  <2>2. \A j \in Ids : InUse(j)' => holder'[obj'[j].handle] = j
    BY <1>0, <1>1, <2>0 DEF InUse, LifeKept, HandlesValid
  <2>3. winsock' >= winsock + One("ping" = "ping") /\ o.kind \notin Kinds
    BY <1>0 DEF One, LifeTypeOK, Kinds
  <2> QED
    BY <1>0, <1>1, <1>2, <1>3, <2>1, <2>2, <2>3, EntersKeep
<1> QED
  BY <1>2, <1>3 DEF LifeKept

\* A ping ends: refused, perhaps with its raw socket left open, or closing it.
LEMMA LifePingEnds ==
    ASSUME LifeTypeOK, LifeKept, NEW t \in Threads, PingRefused(t) \/ PingReturn(t)
    PROVE  LifeTypeOK' /\ LifeKept'
<1>0. ~IsAt(t, "idle") /\ thread[t].at \in {"ping", "send"}
  BY DEF PingRefused, PingReturn, IsAt
<1>1. PICK i \in Ids : i = Holding(t) /\ obj[i] \in Object /\ thread[t] \in Local
  BY <1>0, BusyHolds
<1> DEFINE l == [at |-> "idle", id |-> Nobody, reg |-> 0]
           o == [obj[i] EXCEPT !.at = "gone"]
<1>3. Acts(t, l, o) /\ UNCHANGED <<count, winsock, bases, overlapped>>
  <2>1. "gone" \in Ats
    BY DEF Ats
  <2> QED
    BY <1>0, <1>1, <2>1, ThreadForms, ObjectForms DEF PingRefused, PingReturn, Acts
<1>4. l.at = "idle" /\ o.at = "gone" /\ o.kind = obj[i].kind
  BY <1>1 DEF Object
<1> HIDE DEF l, o
<1>a. thread'[t] = l /\ obj'[i] = o /\ \A j \in Ids \ {i} : obj'[j] = obj[j]
  BY <1>1, <1>3, ActsTypes
<1>h. \/ holder' = holder
      \/ \E h \in Free : holder' = [holder EXCEPT ![h] = i]
      \/ holder' = Released(obj[i].handle) /\ thread[t].at = "send"
  BY <1>1 DEF PingRefused, PingReturn, IsAt
<1>5. LifeTypeOK'
  <2>1. holder' \in [Handles -> Ids \cup {Nobody}]
    BY <1>h, ReleaseType DEF LifeTypeOK
  <2> QED
    BY <1>1, <1>3, <2>1, ActsTypes DEF LifeTypeOK
<1>6. ASSUME ~overlapped PROVE LifeKept'
  <2>1. Placed(t) /\ obj[i].kind = "ping" /\ (thread[t].at = "send" => obj[i].at = "live")
    BY <1>0, <1>1, <1>6 DEF LifeKept, Placed
  <2>2. Placed(t)'
    BY <1>4, <1>a DEF Placed
  <2>3. \A k \in Counters : Member(i, k)' => Member(i, k)
    BY <1>0, <1>1, <1>3, <1>4, <1>6, MemberBy
  <2>4. ASSUME NEW j \in Ids, InUse(j)' PROVE holder'[obj'[j].handle] = j
    <3>1. j # i
      BY <1>4, <1>a, <2>4 DEF InUse
    <3>2. InUse(j) /\ obj'[j] = obj[j] /\ holder[obj[j].handle] = j
      BY <1>6, <1>a, <2>4, <3>1 DEF InUse, LifeKept, HandlesValid
    <3>3. CASE holder' = holder
      BY <3>2, <3>3
    <3>4. ASSUME NEW h \in Free, holder' = [holder EXCEPT ![h] = i] PROVE holder'[obj'[j].handle] = j
      <4>1. obj[j].handle \in Handles /\ obj[j].handle # h
        BY <1>6, <3>2, FreeHandles
      <4> QED
        BY <3>2, <3>4, <4>1 DEF LifeTypeOK
    <3>5. CASE holder' = Released(obj[i].handle) /\ thread[t].at = "send"
      <4>1. obj[i].handle \in Handles \cup {Nobody}
        BY <1>1 DEF Object
      <4>2. obj[i].handle # Nobody => holder[obj[i].handle] = i
        BY <1>0, <1>1, <1>6, <2>1, <3>5 DEF LifeKept, HandlesValid, InUse, Placed
      <4>3. Released(obj[i].handle)[obj[j].handle] = j
        BY <1>6, <3>1, <3>2, <4>1, <4>2, ReleaseKeeps
      <4> QED
        BY <3>2, <3>5, <4>3
    <3> QED
      BY <1>h, <3>3, <3>4, <3>5
  <2> QED
    BY <1>0, <1>1, <1>3, <1>4, <1>6, <2>1, <2>2, <2>3, <2>4, PlainKeep
<1>7. overlapped => LifeKept'
  BY <1>3 DEF LifeKept
<1> QED
  BY <1>5, <1>6, <1>7

\* A ping has its raw socket.
LEMMA LifePingSocket ==
    ASSUME LifeTypeOK, LifeKept, NEW t \in Threads, PingSocket(t)
    PROVE  LifeTypeOK' /\ LifeKept'
<1>0. ~IsAt(t, "idle") /\ thread[t].at = "ping"
  BY DEF PingSocket, IsAt
<1>1. PICK i \in Ids : i = Holding(t) /\ obj[i] \in Object /\ thread[t] \in Local
  BY <1>0, BusyHolds
<1>2. PICK h \in Free : /\ holder' = [holder EXCEPT ![h] = i]
                        /\ obj' = [obj EXCEPT ![i].handle = h, ![i].at = "live"]
  BY <1>1 DEF PingSocket
<1> DEFINE l == [thread[t] EXCEPT !.at = "send"]
           o == [obj[i] EXCEPT !.handle = h, !.at = "live"]
<1>3. Acts(t, l, o) /\ UNCHANGED <<count, winsock, bases, overlapped>>
  <2>1. "live" \in Ats /\ "send" \in Places /\ h \in Handles \cup {Nobody}
    BY DEF Ats, Places, Free
  <2> QED
    BY <1>0, <1>1, <1>2, <2>1, ThreadForms, ObjectForms DEF PingSocket, Acts
<1>4. /\ l.at = "send" /\ l.id = i /\ o.at = "live" /\ o.kind = obj[i].kind /\ o.handle = h
      /\ o.closed = obj[i].closed
  BY <1>1 DEF Object, Local, Holding
<1> HIDE DEF l, o
<1>a. thread'[t] = l /\ obj'[i] = o /\ \A j \in Ids \ {i} : obj'[j] = obj[j]
  BY <1>1, <1>3, ActsTypes
<1>5. LifeTypeOK'
  <2>1. holder' \in [Handles -> Ids \cup {Nobody}]
    BY <1>2 DEF LifeTypeOK
  <2> QED
    BY <1>1, <1>3, <2>1, ActsTypes DEF LifeTypeOK
<1>6. ASSUME ~overlapped PROVE LifeKept'
  <2>1. Placed(t) /\ obj[i].kind = "ping" /\ ~obj[i].closed
    BY <1>0, <1>1, <1>6 DEF LifeKept, Placed
  <2>2. Placed(t)'
    BY <1>4, <1>a, <2>1 DEF Placed, Holding
  <2>3. \A k \in Counters : Member(i, k)' => Member(i, k)
    BY <1>0, <1>1, <1>3, <1>4, <1>6, <2>1, MemberBy DEF Kinds
  <2>4. ASSUME NEW j \in Ids, InUse(j)' PROVE holder'[obj'[j].handle] = j
    <3>1. CASE j = i
      BY <1>2, <1>4, <1>a, <3>1 DEF LifeTypeOK, Free
    <3>2. CASE j # i
      <4>1. InUse(j) /\ obj'[j] = obj[j]
        BY <1>a, <2>4, <3>2 DEF InUse
      <4>2. obj[j].handle \in Handles /\ holder[obj[j].handle] = j /\ obj[j].handle # h
        BY <1>6, <4>1, FreeHandles
      <4> QED
        BY <1>2, <4>1, <4>2 DEF LifeTypeOK
    <3> QED
      BY <3>1, <3>2
  <2> QED
    BY <1>0, <1>1, <1>3, <1>4, <1>6, <2>1, <2>2, <2>3, <2>4, PlainKeep
<1>7. overlapped => LifeKept'
  BY <1>3 DEF LifeKept
<1> QED
  BY <1>5, <1>6, <1>7

\* Sending, waiting and sleeping, a ping only moves its thread.
LEMMA LifePingMoves ==
    ASSUME LifeTypeOK, LifeKept, NEW t \in Threads, thread[t].at \in {"send", "wait", "sleep"},
           NEW a \in {"send", "wait", "sleep"}, Goes(t, a), UNCHANGED lifeButThread
    PROVE  LifeTypeOK' /\ LifeKept'
<1>0. ~IsAt(t, "idle") /\ UNCHANGED <<count, winsock, holder, obj, bases, overlapped>>
  BY DEF IsAt, lifeButThread
<1>1. PICK i \in Ids : i = Holding(t) /\ obj[i] \in Object /\ thread[t] \in Local
  BY <1>0, BusyHolds
<1> DEFINE l == [thread[t] EXCEPT !.at = a]
<1>3. Acts(t, l, obj[i])
  <2>1. a \in Places
    BY DEF Places
  <2> QED
    BY <1>0, <1>1, <2>1, ThreadForms, ObjectForms DEF Acts
<1>4. l.at = a /\ l.id = i
  BY <1>1 DEF Local, Holding
<1> HIDE DEF l
<1>a. thread'[t] = l
  BY <1>1, <1>3, ActsTypes
<1>5. LifeTypeOK'
  BY <1>0, <1>1, <1>3, ActsTypes DEF LifeTypeOK
<1>6. ASSUME ~overlapped PROVE LifeKept'
  <2>1. Placed(t) /\ obj[i].kind = "ping" /\ obj[i].at = "live" /\ ~obj[i].closed
    BY <1>0, <1>1, <1>6 DEF LifeKept, Placed
  <2>2. Placed(t)'
    BY <1>0, <1>4, <1>a, <2>1 DEF Placed, Holding
  <2>3. \A k \in Counters : Member(i, k)' => Member(i, k)
    BY <1>0, <1>1, <1>3, <1>4, <1>6, <2>1, MemberBy DEF Kinds
  <2>4. \A j \in Ids : InUse(j)' => holder'[obj'[j].handle] = j
    BY <1>0, <1>6 DEF InUse, LifeKept, HandlesValid
  <2> QED
    BY <1>0, <1>1, <1>3, <1>4, <1>6, <2>1, <2>2, <2>3, <2>4, PlainKeep
<1>7. overlapped => LifeKept'
  BY <1>0 DEF LifeKept
<1> QED
  BY <1>5, <1>6, <1>7

LEMMA LifeUnchanged ==
    ASSUME LifeTypeOK, LifeKept, UNCHANGED lifeVars
    PROVE  LifeTypeOK' /\ LifeKept'
<1>0. UNCHANGED <<count, winsock, holder, obj, thread, bases, overlapped>>
  BY DEF lifeVars
<1>1. LifeTypeOK'
  BY <1>0 DEF LifeTypeOK, IsAt, Holding
<1>2. ASSUME ~overlapped PROVE LifeKept'
  <2>1. winsock' - bases' >= winsock - bases
    BY <1>0 DEF LifeTypeOK
  <2>2. \A j \in Ids : InUse(j)' => holder'[obj'[j].handle] = j
    BY <1>0, <1>2 DEF InUse, LifeKept, HandlesValid
  <2> QED
    BY <1>0, <1>1, <1>2, <2>1, <2>2, AsideKeeps
<1> QED
  BY <1>0, <1>1, <1>2 DEF LifeKept

LEMMA LifePingStep ==
    ASSUME LifeTypeOK, LifeKept, PingNext
    PROVE  LifeTypeOK' /\ LifeKept'
<1>1. ASSUME NEW t \in Threads,
             SendEchoRequest(t) \/ WaitEnds(t) \/ RecvEchoReply(t) \/ RecvStranger(t) \/ Sleep(t)
      PROVE  LifeTypeOK' /\ LifeKept'
  <2>1. /\ thread[t].at \in {"send", "wait", "sleep"} /\ UNCHANGED lifeButThread
        /\ \E a \in {"send", "wait", "sleep"} : Goes(t, a)
    BY <1>1 DEF SendEchoRequest, WaitEnds, RecvEchoReply, RecvStranger, Result, Sleep, IsAt
  <2> QED
    BY <2>1, LifePingMoves
<1>2. ASSUME (\E e \in flying : Arrive(e)) \/ Tick PROVE UNCHANGED lifeVars
  BY <1>2 DEF Arrive, Tick
<1> QED
  BY <1>1, <1>2, LifePing, LifePingEnds, LifePingSocket, LifeUnchanged DEF PingNext

-----------------------------------------------------------------------------
(* Pings. *)

\* The forms in which the actions change an object leave its kind.
KindsKept(i) ==
    \/ UNCHANGED obj
    \/ \E a \in Ats : obj' = [obj EXCEPT ![i].at = a]
    \/ \E h \in Handles \cup {Nobody} : obj' = [obj EXCEPT ![i].handle = h]
    \/ \E a \in Ats, h \in Handles \cup {Nobody} : obj' = [obj EXCEPT ![i].handle = h, ![i].at = a]
    \/ obj' = [obj EXCEPT ![i].closed = TRUE]

LEMMA KindsStay ==
    ASSUME LifeTypeOK, NEW i \in Ids, KindsKept(i)
    PROVE  Pings' = Pings
<1>1. \E o : ObjectBecomes(i, o)
  BY ObjectForms DEF KindsKept
<1>2. \A j \in Ids : obj'[j].kind = obj[j].kind
  BY <1>1 DEF ObjectBecomes, LifeTypeOK
<1> QED
  BY <1>2 DEF Pings

\* Nothing turns a ping into something else, nor undoes an overlap.
LEMMA PingsStay ==
    ASSUME LifeTypeOK, ProcessNext
    PROVE  Pings \subseteq Pings' /\ (overlapped => overlapped')
<1>1. ASSUME NEW t \in Threads, NEW i \in Ids, NEW kind \in Kinds \cup {"ping"}, NEW h \in Handles \cup {Nobody},
             obj[i].kind = "none", obj' = Made(i, kind, h)
      PROVE  Pings \subseteq Pings'
  <2>1. \A j \in Ids \ {i} : obj'[j] = obj[j]
    BY <1>1, MadeOf
  <2> QED
    BY <1>1, <2>1 DEF Pings
<1>2. ASSUME NEW t \in Threads, NEW i \in Ids,
             \/ \E kind \in {"server", "async"} : Create(t, i, kind)
             \/ \E kind \in {"accepted", "worker"} : Accept(t, i, kind)
             \/ \E n \in Retries : Ping(t, i, n)
      PROVE  Pings \subseteq Pings' /\ (overlapped => overlapped')
  <2>1. obj[i].kind = "none" /\ ~overlapped
    BY <1>2 DEF Create, Accept, Ping, Unborn, Enters
  <2>2. \E kind \in Kinds \cup {"ping"}, h \in Handles \cup {Nobody} : obj' = Made(i, kind, h)
    BY <1>2 DEF Create, Accept, Ping, Free, Kinds
  <2> QED
    BY <1>1, <2>1, <2>2
<1>3. ASSUME NEW t \in Threads, NEW i \in Ids, Destroy(t, i) PROVE KindsKept(i) /\ ~overlapped
  BY <1>3 DEF Destroy, KindsKept, Ats, Enters
<1>4. ASSUME NEW t \in Threads,
             \/ Start(t) \/ Load(t) \/ Increment(t) \/ OpenFails(t) \/ Open(t) \/ Listen(t) \/ ListenFails(t)
             \/ CloseHandle(t) \/ Decrement(t) \/ End(t) \/ PingRefused(t) \/ PingSocket(t)
             \/ SendEchoRequest(t) \/ WaitEnds(t) \/ RecvEchoReply(t) \/ RecvStranger(t) \/ Sleep(t)
             \/ PingReturn(t)
      PROVE  Holding(t) \in Ids /\ KindsKept(Holding(t)) /\ UNCHANGED overlapped
  <2>1. Holding(t) \in Ids /\ UNCHANGED overlapped
    <3>1. ~IsAt(t, "idle") /\ UNCHANGED overlapped
      BY <1>4 DEF Start, Load, Increment, OpenFails, Open, Listen, ListenFails, CloseHandle, Decrement, End,
         PingRefused, PingSocket, SendEchoRequest, WaitEnds, RecvEchoReply, RecvStranger, Sleep, PingReturn,
         IsAt, lifeButThread
    <3> QED
      BY <3>1, BusyHolds
  <2>2. CASE Start(t) \/ Load(t) \/ Decrement(t) \/ SendEchoRequest(t) \/ WaitEnds(t) \/ RecvEchoReply(t)
             \/ RecvStranger(t) \/ Sleep(t)
    BY <2>1, <2>2 DEF Start, Load, Decrement, SendEchoRequest, WaitEnds, RecvEchoReply, RecvStranger, Sleep,
       KindsKept, lifeButThread
  <2>3. CASE Increment(t) \/ OpenFails(t) \/ End(t) \/ PingRefused(t) \/ PingReturn(t)
    BY <2>1, <2>3 DEF Increment, OpenFails, End, PingRefused, PingReturn, KindsKept, Ats
  <2>4. CASE Open(t) \/ Listen(t) \/ ListenFails(t) \/ PingSocket(t)
    BY <2>1, <2>4 DEF Open, Listen, ListenFails, PingSocket, KindsKept, Ats, Free
  <2>5. CASE CloseHandle(t)
    BY <2>1, <2>5 DEF CloseHandle, KindsKept
  <2> QED
    BY <1>4, <2>2, <2>3, <2>4, <2>5
<1>5. ASSUME NEW i \in Ids, Close(i) \/ MarkClosed(i) PROVE KindsKept(i) /\ UNCHANGED overlapped
  BY <1>5 DEF Close, MarkClosed, KindsKept
<1>6. ASSUME BaseStart \/ BaseEnd \/ Tick \/ \E e \in flying : Arrive(e)
      PROVE  Pings' = Pings /\ UNCHANGED overlapped
  BY <1>6 DEF BaseStart, BaseEnd, Tick, Arrive, lifeVars, Pings
<1> QED
  BY <1>2, <1>3, <1>4, <1>5, <1>6, KindsStay DEF ProcessNext, PingNext, LifeNext

PingKept == PingTypeOK /\ EchoesKept /\ AnswersKept /\ RoundTripNotShort

\* The locals of one ping change.
LocalsBecome(i, p) == p \in PingLocal /\ ping' = [ping EXCEPT ![i] = p]

LEMMA LocalsChange ==
    ASSUME PingTypeOK, NEW i \in Ids, NEW p, LocalsBecome(i, p)
    PROVE  ping' \in [Ids -> PingLocal] /\ ping'[i] = p /\ \A j \in Ids \ {i} : ping'[j] = ping[j]
BY DEF LocalsBecome, PingTypeOK

\* Steps that touch no echo, and of a ping neither its result nor what it is from.
LEMMA QuietKeeps ==
    ASSUME PingKept, Pings \subseteq Pings', overlapped => overlapped',
           UNCHANGED <<clock, echoes, flying, queue, stranger, late>>,
           ping' \in [Ids -> PingLocal],
           \A j \in Ids : /\ ping'[j].first = ping[j].first /\ ping'[j].second = ping[j].second
                          /\ ping'[j].of = ping[j].of
    PROVE  PingKept'
<1>1. PingTypeOK'
  BY DEF PingKept, PingTypeOK
<1>2. EchoesKept'
  BY DEF PingKept, EchoesKept, Settled
<1>3. AnswersKept'
  BY DEF PingKept, AnswersKept
<1>4. RoundTripNotShort'
  BY DEF PingKept, RoundTripNotShort
<1> QED
  BY <1>1, <1>2, <1>3, <1>4 DEF PingKept

\* The start of a ping, and the end of a wait without an answer.
LEMMA PingQuiet ==
    ASSUME LifeTypeOK, PingKept, ProcessNext, NEW t \in Threads,
           (\E i \in Ids, n \in Retries : Ping(t, i, n)) \/ WaitEnds(t)
    PROVE  PingKept'
<1>0. UNCHANGED <<clock, echoes, flying, queue, stranger, late>>
  BY DEF Ping, WaitEnds
<1>1. \E i \in Ids, p \in PingLocal :
        /\ LocalsBecome(i, p)
        /\ p.first = ping[i].first /\ p.second = ping[i].second /\ p.of = ping[i].of
  <2>1. ASSUME NEW i \in Ids, NEW n \in Retries, Ping(t, i, n)
        PROVE  LocalsBecome(i, [ping[i] EXCEPT !.nRetries = n])
               /\ [ping[i] EXCEPT !.nRetries = n].first = ping[i].first
               /\ [ping[i] EXCEPT !.nRetries = n].second = ping[i].second
               /\ [ping[i] EXCEPT !.nRetries = n].of = ping[i].of
    <3>1. ping[i] \in PingLocal /\ n \in Nat
      BY PingAssumption DEF PingKept, PingTypeOK
    <3> QED
      BY <2>1, <3>1 DEF Ping, LocalsBecome, PingLocal
  <2>2. ASSUME WaitEnds(t)
        PROVE  \E i \in Ids, n \in Nat :
                 /\ LocalsBecome(i, [ping[i] EXCEPT !.nLoop = n])
                 /\ [ping[i] EXCEPT !.nLoop = n].first = ping[i].first
                 /\ [ping[i] EXCEPT !.nLoop = n].second = ping[i].second
                 /\ [ping[i] EXCEPT !.nLoop = n].of = ping[i].of
    <3>1. PICK i \in Ids : i = Holding(t)
      BY <2>2, BusyHolds DEF WaitEnds, IsAt
    <3>2. ping[i] \in PingLocal
      BY DEF PingKept, PingTypeOK
    <3>3. ping[i].nLoop + 1 \in Nat /\ ping[i].nRetries \in Nat
      BY <3>2 DEF PingLocal
    <3>4. \E n \in Nat : ping' = [ping EXCEPT ![i].nLoop = n]
      BY <2>2, <3>1, <3>3 DEF WaitEnds
    <3> QED
      BY <3>2, <3>4 DEF LocalsBecome, PingLocal
  <2>3. ASSUME NEW i \in Ids, NEW p, LocalsBecome(i, p)
        PROVE  p \in PingLocal
    BY <2>3 DEF LocalsBecome
  <2>4. CASE \E i \in Ids, n \in Retries : Ping(t, i, n)
    <3>1. PICK i \in Ids, n \in Retries : Ping(t, i, n)
      BY <2>4
    <3> DEFINE p == [ping[i] EXCEPT !.nRetries = n]
    <3>2. LocalsBecome(i, p) /\ p.first = ping[i].first /\ p.second = ping[i].second /\ p.of = ping[i].of
      BY <2>1, <3>1
    <3> HIDE DEF p
    <3> QED
      BY <2>3, <3>2
  <2>5. CASE WaitEnds(t)
    BY <2>2, <2>3, <2>5, Zenon
  <2> QED
    BY <2>4, <2>5
<1>2. PICK i \in Ids, p \in PingLocal :
        /\ LocalsBecome(i, p)
        /\ p.first = ping[i].first /\ p.second = ping[i].second /\ p.of = ping[i].of
  BY <1>1
<1>3. ping' \in [Ids -> PingLocal] /\ ping'[i] = p /\ \A j \in Ids \ {i} : ping'[j] = ping[j]
  BY <1>2, LocalsChange DEF PingKept
<1> QED
  BY <1>0, <1>2, <1>3, PingsStay, QuietKeeps

\* An echo is sent: the ones before it are what they were.
LEMMA PingSends ==
    ASSUME LifeTypeOK, LifeKept, PingKept, ProcessNext, NEW t \in Threads, SendEchoRequest(t)
    PROVE  PingKept'
<1>1. PICK i \in Ids : i = Holding(t)
  BY BusyHolds DEF SendEchoRequest, IsAt
<1> DEFINE n == Len(echoes)
           e0 == [by |-> i, sent |-> clock, back |-> 0]
           p == [ping[i] EXCEPT !.since = clock]
<1>t. PingTypeOK /\ EchoesKept /\ RoundTripNotShort /\ AnswersKept /\ ping[i] \in PingLocal /\ clock \in Nat
  BY DEF PingKept, PingTypeOK
<1>2. /\ echoes' = Append(echoes, e0) /\ flying' \in {flying, flying \cup {n + 1}}
      /\ UNCHANGED <<clock, queue, stranger, late, overlapped>> /\ LocalsBecome(i, p)
  <2>1. p \in PingLocal
    BY <1>t DEF PingLocal
  <2> QED
    BY <1>1, <2>1 DEF SendEchoRequest, LocalsBecome, lifeButThread
<1>3. p.first = ping[i].first /\ p.second = ping[i].second /\ p.of = ping[i].of
  BY <1>t DEF PingLocal
<1> HIDE DEF p
<1>4. /\ ping' \in [Ids -> PingLocal]
      /\ \A j \in Ids : /\ ping'[j].first = ping[j].first /\ ping'[j].second = ping[j].second
                        /\ ping'[j].of = ping[j].of
  BY <1>2, <1>3, <1>t, LocalsChange
<1>5. /\ e0 \in Echo /\ echoes \in Seq(Echo) /\ n \in Nat
  BY <1>t DEF Echo, PingTypeOK
<1>6. /\ echoes' \in Seq(Echo) /\ Len(echoes') = n + 1 /\ echoes'[n + 1] = e0
      /\ \A e \in 1 .. n : echoes'[e] = echoes[e]
  BY <1>2, <1>5
<1>7. e0.by = i /\ e0.sent = clock /\ e0.back = 0
  OBVIOUS
<1> HIDE DEF e0, n
<1>8. Settled \subseteq Settled' /\ Settled \subseteq 1 .. n
  BY <1>2, <1>5, <1>6 DEF Settled, n
<1>9. PingTypeOK'
  BY <1>2, <1>4, <1>6, <1>t DEF PingTypeOK
<1>10. EchoesKept'
  <2>1. \A e \in 1 .. Len(echoes') : echoes'[e].sent <= clock' /\ echoes'[e].back <= clock'
    <3> SUFFICES ASSUME NEW e \in 1 .. n + 1 PROVE echoes'[e].sent <= clock' /\ echoes'[e].back <= clock'
      BY <1>6
    <3>1. CASE e = n + 1
      BY <1>2, <1>6, <1>7, <1>t, <3>1
    <3>2. CASE e \in 1 .. n
      BY <1>2, <1>6, <1>t, <3>2 DEF EchoesKept, n
    <3> QED
      BY <1>5, <3>1, <3>2
  <2>2. flying' \subseteq 1 .. Len(echoes')
    <3>1. flying \subseteq 1 .. n
      BY <1>t DEF EchoesKept, n
    <3> QED
      BY <1>2, <1>5, <1>6, <3>1
  <2>3. \A j \in Ids : /\ \A m \in 1 .. Len(queue'[j]) : queue'[j][m] \in Settled'
                       /\ ping'[j].of \in {0} \cup Settled'
    BY <1>2, <1>4, <1>8, <1>t DEF EchoesKept
  <2> QED
    BY <2>1, <2>2, <2>3 DEF EchoesKept
<1>11. RoundTripNotShort'
  <2> SUFFICES ASSUME NEW j \in Ids, ping'[j].first, ping'[j].of # 0
               PROVE  ping'[j].second >= echoes'[ping'[j].of].back - echoes'[ping'[j].of].sent
    BY DEF RoundTripNotShort
  <2>1. ping[j].of \in 1 .. n
    BY <1>4, <1>8, <1>t DEF EchoesKept
  <2> QED
    BY <1>4, <1>6, <1>t, <2>1 DEF RoundTripNotShort
<1>12. AnswersKept'
  <2> SUFFICES ASSUME ~late, ~stranger, ~overlapped
               PROVE  /\ \A e \in 1 .. n + 1 : echoes'[e].by \in Pings'
                      /\ \A j \in Ids : /\ \A m \in 1 .. Len(queue[j]) : echoes'[queue[j][m]].by = j
                                        /\ ping'[j].first => ping'[j].of # 0 /\ echoes'[ping'[j].of].by = j
    BY <1>2, <1>6 DEF AnswersKept
  <2>1. Pings \subseteq Pings'
    BY PingsStay
  <2>2. i \in Pings
    <3>1. Placed(t) /\ thread[t].at = "send"
      BY DEF LifeKept, SendEchoRequest, IsAt
    <3> QED
      BY <1>1, <3>1 DEF Placed, Pings
  <2>3. \A e \in 1 .. n : echoes[e].by \in Pings
    BY <1>t DEF AnswersKept, n
  <2>4. ASSUME NEW e \in 1 .. n + 1 PROVE echoes'[e].by \in Pings'
    <3>1. CASE e = n + 1
      BY <1>6, <1>7, <2>1, <2>2, <3>1
    <3>2. CASE e \in 1 .. n
      BY <1>6, <2>1, <2>3, <3>2
    <3> QED
      BY <1>5, <3>1, <3>2
  <2>5. ASSUME NEW j \in Ids, NEW m \in 1 .. Len(queue[j]) PROVE echoes'[queue[j][m]].by = j
    <3>1. queue[j][m] \in 1 .. n
      BY <1>8, <1>t DEF EchoesKept
    <3> QED
      BY <1>6, <1>t, <3>1 DEF AnswersKept
  <2>6. ASSUME NEW j \in Ids, ping'[j].first PROVE ping'[j].of # 0 /\ echoes'[ping'[j].of].by = j
    <3>1. ping[j].of # 0 /\ echoes[ping[j].of].by = j
      BY <1>4, <1>t, <2>6 DEF AnswersKept
    <3>2. ping[j].of \in 1 .. n
      BY <1>8, <1>t, <3>1 DEF EchoesKept
    <3> QED
      BY <1>4, <1>6, <3>1, <3>2
  <2> QED
    BY <2>4, <2>5, <2>6
<1> QED
  BY <1>9, <1>10, <1>11, <1>12 DEF PingKept

\* A result: from an echo that was answered, timed from when it was sent; or from a stranger.
LEMMA ResultKeeps ==
    ASSUME LifeTypeOK, PingKept, NEW t \in Threads, NEW i \in Ids, i = Holding(t),
           NEW ms \in Int, NEW e \in {0} \cup Settled, Result(t, ms, e),
           e # 0 => ms >= echoes[e].back - echoes[e].sent,
           e = 0 => stranger',
           e # 0 /\ ~late /\ ~stranger /\ ~overlapped => echoes[e].by = i,
           UNCHANGED <<clock, echoes, flying, late, overlapped>>, stranger' \in BOOLEAN, stranger => stranger',
           Pings' = Pings,
           queue' \in [Ids -> Seq(Nat)],
           \A j \in Ids : \A m \in 1 .. Len(queue'[j]) : \E q \in 1 .. Len(queue[j]) : queue'[j][m] = queue[j][q]
    PROVE  PingKept'
<1>t. PingTypeOK /\ EchoesKept /\ RoundTripNotShort /\ AnswersKept /\ ping[i] \in PingLocal /\ clock \in Nat
  BY DEF PingKept, PingTypeOK
<1> DEFINE p == [ping[i] EXCEPT !.first = TRUE, !.second = ms, !.of = e, !.nLoop = ping[i].nLoop + 1,
                                !.since = clock]
<1>n. Settled \subseteq Nat /\ e \in Nat
  BY DEF Settled
<1>1. LocalsBecome(i, p)
  <2>0. ping[i].nLoop + 1 \in Nat
    BY <1>t DEF PingLocal
  <2>1. p \in PingLocal
    BY <1>t, <1>n, <2>0 DEF PingLocal
  <2>2. ping' = [ping EXCEPT ![i] = p]
    BY DEF Result
  <2> QED
    BY <2>1, <2>2 DEF LocalsBecome
<1>2. p.first = TRUE /\ p.second = ms /\ p.of = e
  BY <1>t DEF PingLocal
<1> HIDE DEF p
<1>3. ping' \in [Ids -> PingLocal] /\ ping'[i] = p /\ \A j \in Ids \ {i} : ping'[j] = ping[j]
  BY <1>1, <1>t, LocalsChange
<1>4. PingTypeOK'
  BY <1>3, <1>t DEF PingTypeOK
<1>5. EchoesKept'
  <2>1. Settled' = Settled
    BY DEF Settled
  <2>2. \A j \in Ids : ping'[j].of \in {0} \cup Settled
    BY <1>2, <1>3, <1>t DEF EchoesKept
  <2>3. \A j \in Ids : \A m \in 1 .. Len(queue'[j]) : queue'[j][m] \in Settled
    BY <1>t DEF EchoesKept
  <2>4. /\ \A d \in 1 .. Len(echoes') : echoes'[d].sent <= clock' /\ echoes'[d].back <= clock'
        /\ flying' \subseteq 1 .. Len(echoes')
    BY <1>t DEF EchoesKept
  <2> QED
    BY <2>1, <2>2, <2>3, <2>4 DEF EchoesKept
<1>6. RoundTripNotShort'
  <2> SUFFICES ASSUME NEW j \in Ids, ping'[j].first, ping'[j].of # 0
               PROVE  ping'[j].second >= echoes[ping'[j].of].back - echoes[ping'[j].of].sent
    BY DEF RoundTripNotShort
  <2>1. CASE j = i
    BY <1>2, <1>3, <2>1
  <2>2. CASE j # i
    BY <1>3, <1>t, <2>2 DEF RoundTripNotShort
  <2> QED
    BY <2>1, <2>2
<1>7. AnswersKept'
  <2> SUFFICES ASSUME ~late, ~stranger', ~overlapped
               PROVE  /\ \A d \in 1 .. Len(echoes) : echoes[d].by \in Pings
                      /\ \A j \in Ids : /\ \A m \in 1 .. Len(queue'[j]) : echoes[queue'[j][m]].by = j
                                        /\ ping'[j].first => ping'[j].of # 0 /\ echoes[ping'[j].of].by = j
    BY DEF AnswersKept
  <2>1. ~stranger /\ e # 0 /\ echoes[e].by = i
    OBVIOUS
  <2>2. \A d \in 1 .. Len(echoes) : echoes[d].by \in Pings
    BY <1>t, <2>1 DEF AnswersKept
  <2>3. ASSUME NEW j \in Ids, NEW m \in 1 .. Len(queue'[j]) PROVE echoes[queue'[j][m]].by = j
    <3>1. PICK q \in 1 .. Len(queue[j]) : queue'[j][m] = queue[j][q]
      OBVIOUS
    <3>2. echoes[queue[j][q]].by = j
      BY <1>t, <2>1 DEF AnswersKept
    <3> QED
      BY <3>1, <3>2
  <2>4. ASSUME NEW j \in Ids, ping'[j].first PROVE ping'[j].of # 0 /\ echoes[ping'[j].of].by = j
    <3>1. CASE j = i
      BY <1>2, <1>3, <2>1, <3>1
    <3>2. CASE j # i
      BY <1>3, <1>t, <2>1, <2>4, <3>2 DEF AnswersKept
    <3> QED
      BY <3>1, <3>2
  <2> QED
    BY <2>2, <2>3, <2>4
<1> QED
  BY <1>4, <1>5, <1>6, <1>7 DEF PingKept

\* An answer is read.
LEMMA PingReads ==
    ASSUME LifeTypeOK, PingKept, NEW t \in Threads, RecvEchoReply(t)
    PROVE  PingKept'
<1>1. PICK i \in Ids : i = Holding(t)
  BY BusyHolds DEF RecvEchoReply, IsAt
<1>t. PingTypeOK /\ EchoesKept /\ AnswersKept /\ queue[i] \in Seq(Nat) /\ queue[i] # <<>> /\ clock \in Nat
  BY <1>1 DEF PingKept, PingTypeOK, RecvEchoReply
<1> DEFINE e == Head(queue[i])
<1>2. Len(queue[i]) \in Nat \ {0} /\ 1 \in 1 .. Len(queue[i]) /\ e = queue[i][1]
  BY <1>t
<1>3. e \in Settled /\ (~late /\ ~stranger /\ ~overlapped => echoes[e].by = i)
  BY <1>2, <1>t DEF EchoesKept, AnswersKept
<1>4. /\ e \in 1 .. Len(echoes) /\ echoes[e].back <= clock /\ echoes[e].back \in Nat /\ echoes[e].sent \in Nat
      /\ e # 0
  <2>1. e \in 1 .. Len(echoes) /\ e # 0
    BY <1>3 DEF Settled
  <2>2. echoes[e] \in Echo
    BY <1>t, <2>1 DEF PingTypeOK
  <2> QED
    BY <1>t, <2>1, <2>2 DEF EchoesKept, Echo
<1>5. /\ Result(t, clock - echoes[e].sent, e)
      /\ queue' = [queue EXCEPT ![i] = Tail(queue[i])]
      /\ UNCHANGED <<clock, echoes, flying, late, overlapped, stranger, obj>>
  BY <1>1 DEF RecvEchoReply, Elapsed, lifeButThread
<1> HIDE DEF e
<1>6. /\ clock - echoes[e].sent \in Int
      /\ clock - echoes[e].sent >= echoes[e].back - echoes[e].sent
  BY <1>4, <1>t
<1>7. /\ Tail(queue[i]) \in Seq(Nat) /\ Len(Tail(queue[i])) = Len(queue[i]) - 1
      /\ \A m \in 1 .. Len(queue[i]) - 1 : Tail(queue[i])[m] = queue[i][m + 1]
  BY <1>t
<1>8. /\ queue' \in [Ids -> Seq(Nat)]
      /\ \A j \in Ids : \A m \in 1 .. Len(queue'[j]) : \E q \in 1 .. Len(queue[j]) : queue'[j][m] = queue[j][q]
  <2>1. /\ queue' \in [Ids -> Seq(Nat)] /\ queue'[i] = Tail(queue[i])
        /\ \A j \in Ids \ {i} : queue'[j] = queue[j]
    BY <1>5, <1>7, <1>t DEF PingTypeOK
  <2>2. ASSUME NEW j \in Ids, NEW m \in 1 .. Len(queue'[j])
        PROVE  \E q \in 1 .. Len(queue[j]) : queue'[j][m] = queue[j][q]
    <3>1. CASE j = i
      <4>1. m \in 1 .. Len(queue[i]) - 1 /\ m + 1 \in 1 .. Len(queue[i])
        <5>1. Len(queue[i]) \in Nat
          BY <1>t, LenProperties
        <5>2. m \in 1 .. Len(Tail(queue[i]))
          BY <2>1, <3>1
        <5>3. m \in 1 .. Len(queue[i]) - 1
          BY <1>7, <5>2
        <5> QED
          BY <5>1, <5>3
      <4>2. queue'[i][m] = queue[i][m + 1]
        BY <1>7, <2>1, <4>1
      <4> QED
        BY <3>1, <4>1, <4>2
    <3>2. CASE j # i
      BY <2>1, <3>2
    <3> QED
      BY <3>1, <3>2
  <2> QED
    BY <2>1, <2>2
<1>9. Pings' = Pings /\ stranger' \in BOOLEAN
  BY <1>5, <1>t DEF Pings, PingTypeOK
<1>10. PICK ms \in Int : ms = clock - echoes[e].sent
  BY <1>6
<1>11. PICK d \in {0} \cup Settled : d = e
  BY <1>3
<1>12. /\ Result(t, ms, d) /\ d # 0 /\ ms >= echoes[d].back - echoes[d].sent
       /\ ~late /\ ~stranger /\ ~overlapped => echoes[d].by = i
       /\ stranger => stranger'
  BY <1>3, <1>4, <1>5, <1>6, <1>10, <1>11
<1> QED
  BY <1>1, <1>5, <1>8, <1>9, <1>12, ResultKeeps

\* A message of somebody else is read.
LEMMA PingReadsStranger ==
    ASSUME LifeTypeOK, PingKept, NEW t \in Threads, RecvStranger(t)
    PROVE  PingKept'
<1>1. PICK i \in Ids : i = Holding(t)
  BY BusyHolds DEF RecvStranger, IsAt
<1>2. PICK ms \in {0, MaxClock} : Result(t, ms, 0)
  BY DEF RecvStranger
<1>3. ms \in Int
  BY PingAssumption
<1>4. stranger' = TRUE /\ UNCHANGED <<clock, echoes, flying, late, overlapped, obj, queue>>
  BY DEF RecvStranger, lifeButThread
<1>5. Pings' = Pings /\ queue' \in [Ids -> Seq(Nat)]
  BY <1>4 DEF Pings, PingKept, PingTypeOK
<1> QED
  BY <1>1, <1>2, <1>3, <1>4, <1>5, ResultKeeps

\* An answer comes: only its echo changes, which nobody has read.
LEMMA PingArrives ==
    ASSUME LifeTypeOK, LifeKept, PingKept, NEW e \in flying, Arrive(e)
    PROVE  PingKept'
<1>t. PingTypeOK /\ EchoesKept /\ RoundTripNotShort /\ AnswersKept /\ clock \in Nat /\ flying \subseteq 1 .. Len(echoes)
  BY DEF PingKept, PingTypeOK, EchoesKept
<1>0. /\ flying' = flying \ {e} /\ echoes' = [echoes EXCEPT ![e].back = clock]
      /\ queue' = [i \in Ids |-> IF i \in Pings /\ Alive(i) THEN Append(queue[i], e) ELSE queue[i]]
      /\ late' = (late \/ ~Alive(echoes[e].by))
      /\ UNCHANGED <<clock, ping, stranger, obj, overlapped>>
  BY DEF Arrive, lifeVars
<1>1. e \in 1 .. Len(echoes) /\ echoes[e] \in Echo /\ echoes \in Seq(Echo) /\ e \in Nat
  BY <1>t DEF PingTypeOK
<1>2. /\ echoes' \in Seq(Echo) /\ Len(echoes') = Len(echoes)
      /\ \A d \in 1 .. Len(echoes) : /\ d # e => echoes'[d] = echoes[d]
                                     /\ echoes'[d].by = echoes[d].by /\ echoes'[d].sent = echoes[d].sent
      /\ echoes'[e].back = clock
  <2> DEFINE n == [echoes[e] EXCEPT !.back = clock]
  <2>1. n \in Echo /\ n.by = echoes[e].by /\ n.sent = echoes[e].sent /\ n.back = clock
    BY <1>1, <1>t DEF Echo
  <2>2. echoes' = [echoes EXCEPT ![e] = n]
    BY <1>0
  <2> HIDE DEF n
  <2>3. /\ echoes' \in Seq(Echo) /\ Len(echoes') = Len(echoes) /\ echoes'[e] = n
        /\ \A d \in 1 .. Len(echoes) : d # e => echoes'[d] = echoes[d]
    BY <1>1, <2>1, <2>2
  <2> QED
    BY <2>1, <2>3
<1>3. Settled \subseteq Settled' /\ e \in Settled' /\ e \notin Settled /\ Settled \subseteq 1 .. Len(echoes)
  BY <1>0, <1>1, <1>2 DEF Settled
<1>4. ASSUME NEW i \in Ids
      PROVE  /\ queue[i] \in Seq(Nat) /\ queue'[i] \in Seq(Nat)
             /\ \/ queue'[i] = queue[i]
                \/ /\ queue'[i] = Append(queue[i], e) /\ i \in Pings /\ Alive(i)
                   /\ Len(queue'[i]) = Len(queue[i]) + 1 /\ queue'[i][Len(queue[i]) + 1] = e
                   /\ \A m \in 1 .. Len(queue[i]) : queue'[i][m] = queue[i][m]
  <2>1. queue[i] \in Seq(Nat)
    BY <1>t DEF PingTypeOK
  <2>2. queue'[i] = IF i \in Pings /\ Alive(i) THEN Append(queue[i], e) ELSE queue[i]
    BY <1>0
  <2> QED
    BY <1>1, <2>1, <2>2
<1>5. ASSUME NEW i \in Ids, NEW m \in 1 .. Len(queue'[i])
      PROVE  \/ m \in 1 .. Len(queue[i]) /\ queue'[i][m] = queue[i][m]
             \/ queue'[i][m] = e /\ i \in Pings /\ Alive(i)
  BY <1>4
<1>6. PingTypeOK'
  <2>1. queue' \in [Ids -> Seq(Nat)]
    <3>1. queue' = [i \in Ids |-> queue'[i]]
      BY <1>0
    <3> QED
      BY <1>4, <3>1
  <2>2. late' \in BOOLEAN
    BY <1>0, <1>t DEF PingTypeOK
  <2> QED
    BY <1>0, <1>2, <1>t, <2>1, <2>2 DEF PingTypeOK
<1>7. EchoesKept'
  <2>1. ASSUME NEW d \in 1 .. Len(echoes) PROVE echoes'[d].sent <= clock /\ echoes'[d].back <= clock
    BY <1>2, <1>t DEF EchoesKept
  <2>2. ASSUME NEW i \in Ids, NEW m \in 1 .. Len(queue'[i]) PROVE queue'[i][m] \in Settled'
    BY <1>3, <1>5, <1>t DEF EchoesKept
  <2>3. \A i \in Ids : ping'[i].of \in {0} \cup Settled'
    BY <1>0, <1>3, <1>t DEF EchoesKept
  <2>4. flying' \subseteq 1 .. Len(echoes')
    BY <1>0, <1>2, <1>t
  <2> QED
    BY <1>0, <1>2, <2>1, <2>2, <2>3, <2>4 DEF EchoesKept
<1>8. RoundTripNotShort'
  <2> SUFFICES ASSUME NEW i \in Ids, ping[i].first, ping[i].of # 0
               PROVE  ping[i].second >= echoes'[ping[i].of].back - echoes'[ping[i].of].sent
    BY <1>0 DEF RoundTripNotShort
  <2>1. ping[i].of \in 1 .. Len(echoes) /\ ping[i].of # e
    BY <1>3, <1>t DEF EchoesKept
  <2>2. echoes'[ping[i].of] = echoes[ping[i].of]
    BY <1>2, <2>1
  <2> QED
    BY <1>t, <2>2 DEF RoundTripNotShort
<1>9. AnswersKept'
  <2> SUFFICES ASSUME ~late', ~stranger, ~overlapped
               PROVE  /\ \A d \in 1 .. Len(echoes) : echoes'[d].by \in Pings
                      /\ \A i \in Ids : /\ \A m \in 1 .. Len(queue'[i]) : echoes'[queue'[i][m]].by = i
                                        /\ ping[i].first => ping[i].of # 0 /\ echoes'[ping[i].of].by = i
    <3>1. Pings' = Pings
      BY <1>0 DEF Pings
    <3> QED
      BY <1>0, <1>2, <3>1 DEF AnswersKept
  <2>1. ~late /\ Alive(echoes[e].by)
    BY <1>0, <1>t DEF PingTypeOK
  <2>2. /\ \A d \in 1 .. Len(echoes) : echoes[d].by \in Pings
        /\ \A i \in Ids : /\ \A m \in 1 .. Len(queue[i]) : echoes[queue[i][m]].by = i
                          /\ ping[i].first => ping[i].of # 0 /\ echoes[ping[i].of].by = i
    BY <1>t, <2>1 DEF AnswersKept
  <2>3. ASSUME NEW i \in Pings, Alive(i) PROVE i = echoes[e].by
    <3>1. echoes[e].by \in Pings
      BY <1>1, <2>2
    <3>2. PICK t \in Threads : Holding(t) = i /\ thread[t].at \in {"send", "wait", "sleep"}
      BY <2>3 DEF LifeKept, PingsHeld
    <3>3. PICK u \in Threads : Holding(u) = echoes[e].by /\ thread[u].at \in {"send", "wait", "sleep"}
      BY <2>1, <3>1 DEF LifeKept, PingsHeld
    <3>4. t = u
      BY <3>2, <3>3 DEF LifeKept, Alone, IsAt
    <3> QED
      BY <3>2, <3>3, <3>4
  <2>4. ASSUME NEW i \in Ids, NEW m \in 1 .. Len(queue'[i]) PROVE echoes'[queue'[i][m]].by = i
    <3>1. CASE m \in 1 .. Len(queue[i]) /\ queue'[i][m] = queue[i][m]
      <4>1. queue[i][m] \in 1 .. Len(echoes)
        BY <1>3, <1>t, <3>1 DEF EchoesKept
      <4> QED
        BY <1>2, <2>2, <3>1, <4>1
    <3>2. CASE queue'[i][m] = e /\ i \in Pings /\ Alive(i)
      BY <1>1, <1>2, <2>3, <3>2
    <3> QED
      BY <1>5, <3>1, <3>2
  <2>5. ASSUME NEW i \in Ids, ping[i].first PROVE ping[i].of # 0 /\ echoes'[ping[i].of].by = i
    <3>1. ping[i].of # 0 /\ echoes[ping[i].of].by = i
      BY <2>2, <2>5
    <3>2. ping[i].of \in 1 .. Len(echoes)
      BY <1>3, <1>t, <3>1 DEF EchoesKept
    <3> QED
      BY <1>2, <3>1, <3>2
  <2> QED
    BY <1>2, <2>2, <2>4, <2>5
<1> QED
  BY <1>6, <1>7, <1>8, <1>9 DEF PingKept

LEMMA PingTicks ==
    ASSUME PingKept, Tick
    PROVE  PingKept'
<1>0. clock' = clock + 1 /\ clock \in Nat /\ UNCHANGED <<obj, overlapped, echoes, flying, queue, ping, stranger, late>>
  BY DEF Tick, lifeVars, PingKept, PingTypeOK
<1>1. PingTypeOK'
  BY <1>0 DEF PingKept, PingTypeOK
<1>2. EchoesKept'
  <2>1. ASSUME NEW e \in 1 .. Len(echoes) PROVE echoes[e].sent <= clock' /\ echoes[e].back <= clock'
    <3>1. echoes[e] \in Echo /\ echoes[e].sent <= clock /\ echoes[e].back <= clock
      BY DEF PingKept, PingTypeOK, EchoesKept
    <3> QED
      BY <1>0, <3>1 DEF Echo
  <2> QED
    BY <1>0, <2>1 DEF PingKept, EchoesKept, Settled
<1>3. AnswersKept' /\ RoundTripNotShort'
  BY <1>0 DEF PingKept, AnswersKept, RoundTripNotShort, Pings
<1> QED
  BY <1>1, <1>2, <1>3 DEF PingKept

\* Steps without a ping's variables.
LEMMA PingUntouched ==
    ASSUME LifeTypeOK, PingKept, Pings \subseteq Pings', overlapped => overlapped', UNCHANGED pingVars
    PROVE  PingKept'
<1>1. UNCHANGED <<clock, echoes, flying, queue, ping, stranger, late>> /\ ping \in [Ids -> PingLocal]
  BY DEF pingVars, PingKept, PingTypeOK
<1> QED
  BY <1>1, QuietKeeps

ProcessKept == LifeTypeOK /\ LifeKept /\ PingKept

LEMMA ProcessStep ==
    ASSUME ProcessKept, [ProcessNext]_processVars
    PROVE  ProcessKept'
<1> USE DEF ProcessKept
<1>1. CASE LifeNext /\ UNCHANGED pingVars
  <2>1. ProcessNext
    BY <1>1 DEF ProcessNext
  <2> QED
    BY <1>1, <2>1, LifeStep, PingsStay, PingUntouched
<1>2. CASE PingNext
  <2>1. ProcessNext
    BY <1>2 DEF ProcessNext
  <2>2. LifeTypeOK' /\ LifeKept'
    BY <1>2, LifePingStep
  <2>3. ASSUME NEW t \in Threads, PingRefused(t) \/ PingSocket(t) \/ Sleep(t) \/ PingReturn(t) PROVE PingKept'
    BY <2>1, <2>3, PingsStay, PingUntouched DEF PingRefused, PingSocket, Sleep, PingReturn
  <2>4. PingKept'
    BY <1>2, <2>1, <2>3, PingQuiet, PingSends, PingReads, PingReadsStranger, PingArrives, PingTicks DEF PingNext
  <2> QED
    BY <2>2, <2>4
<1>3. CASE UNCHANGED processVars
  <2>1. UNCHANGED lifeVars /\ UNCHANGED pingVars
    BY <1>3 DEF processVars
  <2>2. Pings \subseteq Pings' /\ (overlapped => overlapped')
    BY <2>1 DEF lifeVars, Pings
  <2> QED
    BY <2>1, <2>2, LifeUnchanged, PingUntouched
<1> QED
  BY <1>1, <1>2, <1>3 DEF ProcessNext

LEMMA ProcessInit ==
    ASSUME PingInit
    PROVE  ProcessKept
<1> DEFINE o0 == [kind |-> "none", at |-> "none", handle |-> Nobody, closed |-> FALSE]
           l0 == [at |-> "idle", id |-> Nobody, reg |-> 0]
<1>0. /\ count = [k \in Counters |-> 0] /\ winsock = 0 /\ bases = 0 /\ overlapped = FALSE
      /\ holder = [h \in Handles |-> Nobody] /\ obj = [i \in Ids |-> o0] /\ thread = [t \in Threads |-> l0]
  BY DEF PingInit, LifeInit
<1>1. o0 \in Object /\ l0 \in Local /\ o0.kind = "none" /\ o0.at = "none" /\ l0.at = "idle" /\ NoPing \in PingLocal
      /\ NoPing.first = FALSE /\ NoPing.of = 0
  BY DEF Object, Local, Places, NoPing, PingLocal
<1> HIDE DEF o0, l0
<1>2. LifeTypeOK
  <2>1. obj \in [Ids -> Object] /\ thread \in [Threads -> Local] /\ holder \in [Handles -> Ids \cup {Nobody}]
    BY <1>0, <1>1
  <2>2. count \in [Counters -> Int] /\ winsock \in Nat /\ bases \in Nat /\ overlapped \in BOOLEAN
    <3>1. count \in [Counters -> Int]
      BY <1>0
    <3>2. winsock \in Nat /\ bases \in Nat
      BY <1>0
    <3>3. overlapped \in BOOLEAN
      BY <1>0
    <3> QED
      BY <3>1, <3>2, <3>3
  <2>3. \A t \in Threads : IsAt(t, "idle")
    BY <1>0, <1>1 DEF IsAt
  <2> QED
    BY <2>1, <2>2, <2>3 DEF LifeTypeOK
<1>3. LifeKept
  <2>1. \A t \in Threads : thread[t].at = "idle"
    BY <1>0, <1>1
  <2>2. \A i \in Ids : obj[i].kind = "none" /\ obj[i].at = "none"
    BY <1>0, <1>1
  <2>3. Alone /\ NotYet /\ PingsHeld /\ HandlesValid /\ \A t \in Threads : Placed(t)
    <3>1. Alone /\ \A t \in Threads : Placed(t)
      BY <2>1 DEF Alone, IsAt, Placed
    <3>2. NotYet /\ PingsHeld /\ HandlesValid
      BY <2>2 DEF NotYet, Unborn, PingsHeld, Pings, HandlesValid, InUse
    <3> QED
      BY <3>1, <3>2
  <2>4. ASSUME NEW k \in Counters PROVE Cardinality(Members(k)) <= count[k]
    <3>1. Members(k) = {}
      BY <2>2 DEF Members, Member, Kinds
    <3> QED
      BY <1>0, <3>1, FS_EmptySet
  <2>5. Referenced
    <3>1. ~Held("Socket") /\ ~Held("Async") /\ Pings = {}
      BY <1>0, <2>1, <2>2 DEF Held, Counters, Pings
    <3> QED
      BY <1>0, <3>1 DEF Referenced, One
  <2> QED
    BY <2>3, <2>4, <2>5 DEF LifeKept
<1>4. PingKept
  <2>0. /\ clock = 0 /\ echoes = <<>> /\ flying = {} /\ queue = [i \in Ids |-> <<>>]
        /\ ping = [i \in Ids |-> NoPing] /\ stranger = FALSE /\ late = FALSE
    BY DEF PingInit
  <2>1. PingTypeOK
    <3>1. echoes \in Seq(Echo) /\ <<>> \in Seq(Nat)
      BY <2>0
    <3>2. queue \in [Ids -> Seq(Nat)] /\ ping \in [Ids -> PingLocal]
      BY <1>1, <2>0, <3>1
    <3> QED
      BY <2>0, <3>1, <3>2 DEF PingTypeOK
  <2>2. \A i \in Ids : Len(queue[i]) = 0 /\ ping[i].first = FALSE /\ ping[i].of = 0
    BY <1>1, <2>0
  <2>3. Len(echoes) = 0
    BY <2>0
  <2>4. EchoesKept
    BY <2>0, <2>2, <2>3 DEF EchoesKept
  <2>5. AnswersKept /\ RoundTripNotShort
    BY <2>2, <2>3 DEF AnswersKept, RoundTripNotShort
  <2> QED
    BY <2>1, <2>4, <2>5 DEF PingKept
<1> QED
  BY <1>2, <1>3, <1>4 DEF ProcessKept

LEMMA ProcessAlways == ProcessSpec => []ProcessKept
<1>1. PingInit => ProcessKept
  BY ProcessInit
<1>2. ProcessKept /\ [ProcessNext]_processVars => ProcessKept'
  BY ProcessStep
<1> QED
  BY <1>1, <1>2, PTL DEF ProcessSpec

\* As long as constructors and destructors do not overlap, the two counters, the
\* references of the bases and those of pings together never clean Winsock up under a
\* socket in use, and no handle is closed twice: for any number of threads and objects.
THEOREM HandlesStayValid == ProcessSpec => []HandlesValid
<1>1. ProcessKept => HandlesValid
  BY DEF ProcessKept, LifeKept, HandlesValid
<1> QED
  BY <1>1, ProcessAlways, PTL

\* A reported time covers the round trip of the echo whose answer was read, in all
\* interleavings of pings, answers and strangers.
THEOREM RoundTripIsNotShort == ProcessSpec => []RoundTripNotShort
<1>1. ProcessKept => RoundTripNotShort
  BY DEF ProcessKept, PingKept
<1> QED
  BY <1>1, ProcessAlways, PTL

\* Without overlaps, late answers and strangers a ping reads its own host's answer.
THEOREM AnswerIsOfHost == ProcessSpec => []AnsweredByHost
<1>1. ProcessKept => AnsweredByHost
  BY DEF ProcessKept, PingKept, AnswersKept, AnsweredByHost, Pings
<1> QED
  BY <1>1, ProcessAlways, PTL
=============================================================================
