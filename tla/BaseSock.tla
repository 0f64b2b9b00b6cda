------------------------------ MODULE BaseSock ------------------------------
(***************************************************************************)
(* The overlapped socket of the network module: CBaseSock::Recv and Send   *)
(* in socket/BaseSock.cpp, with the operations the kernel completes        *)
(* whenever it likes.                                                      *)
(*                                                                         *)
(* One OVERLAPPED (os) serves reads and writes, each with an event of its  *)
(* own. A read that is not complete in time is left active: it keeps the   *)
(* buffer it was started with, and the next RecvPartial waits for it       *)
(* instead of starting another. What the kernel does with os, the events   *)
(* and the buffers is outside the repository. A Send takes os whether or   *)
(* not a read is active, and one that timed out leaves its write under way *)
(* when the next call takes os; `misused` remembers that it happened.      *)
(*                                                                         *)
(* Three kinds of callers: "once" gives up the connection after a call     *)
(* that failed (Dial and HTTP requests); "again" is CSSLClient, whose      *)
(* owner calls Recv and Send in any order: a Recv that finds a read active *)
(* has the buffer of that read; "lua" is receive and send of a Lua         *)
(* connection without TLS, with a buffer of its own for every call.        *)
(***************************************************************************)
EXTENDS Integers, Sequences

CONSTANTS
    Callers,        \* kinds of callers
    Total,          \* bytes the peer sends
    RecvArgs,       \* lengths and minimal lengths callers pass to Recv
    SendLens,       \* lengths callers pass to Send
    MaxCalls        \* bound on the calls of a behaviour

RecvArg == {a \in [len : Nat \ {0}, min : Nat \ {0}] : a.min <= a.len}

ASSUME BaseSockAssumption ==
    /\ Callers \subseteq {"once", "again", "lua"} /\ Total \in Nat
    /\ RecvArgs \subseteq RecvArg /\ SendLens \subseteq Nat \ {0}
    /\ MaxCalls \in Nat

None == -1

VARIABLES
    c,                  \* the caller (never changes)
    pc,
    calls,              \* calls begun
    arg,                \* lengths of the running call; those of Send are equal
    home,               \* lengths of the last Recv, whose buffer an active read has
    misused,            \* history: a call was begun over an operation still under way
    total,              \* total_bytes_received or total_bytes_sent
    result,             \* of the last call; None for SOCKET_ERROR
    RecvInitiated,
    os,                 \* the OVERLAPPED: status, bytes and event
    read_event,
    write_event,
    kread,              \* reads under way: whose buffer, which call, where, how much room
    kwrite,             \* writes under way: the part of the caller's bytes
    taken,              \* bytes of the peer the kernel has handed over
    buffer,             \* the running call's buffer: offset -> number of the byte
    reported,           \* history: what calls of Recv have returned
    sent                \* the bytes of this Send the peer was sent, by number

call   == <<calls, arg, home, misused>>
kernel == <<kread, kwrite>>
events == <<read_event, write_event>>
vars   == <<c, pc, call, total, result, RecvInitiated, os, events, kernel, taken, buffer,
            reported, sent>>

-----------------------------------------------------------------------------

Numbers(from, n) == [i \in 1..n |-> from + i]

Empty == [i \in {} |-> 0]

\* The byte at offset i of the buffer; 0 for one that nobody has written.
At(i) == IF i \in DOMAIN buffer THEN buffer[i] ELSE 0

\* What the caller reads from its buffer when it is told n bytes.
Told(n) == [i \in 1..n |-> At(i)]

\* The buffer after k fresh bytes at offset at.
Filled(at, k) ==
    [i \in DOMAIN buffer \cup ((at + 1)..(at + k)) |->
        IF i \in (at + 1)..(at + k) THEN taken + (i - at) ELSE buffer[i]]

Arrivals(room) == {k \in 1..room : taken + k <= Total}

Done(n, event) == [status |-> "done", bytes |-> n, event |-> event]
Pending(event) == [status |-> "pending", bytes |-> 0, event |-> event]
Error(event)   == [status |-> "error", bytes |-> 0, event |-> event]

Init ==
    /\ c \in Callers /\ pc = "idle" /\ calls = 0
    /\ arg = [len |-> 1, min |-> 1] /\ home = arg /\ total = 0 /\ result = 0
    /\ misused = FALSE
    /\ RecvInitiated = FALSE
    /\ os = [status |-> "zero", bytes |-> 0, event |-> "none"]
    /\ read_event = FALSE /\ write_event = FALSE /\ kread = {}
    /\ kwrite = {} /\ taken = 0 /\ buffer = Empty /\ reported = <<>>
    /\ sent = <<>>

\* A call returns SOCKET_ERROR. Callers of the first kind close the connection.
ReturnError ==
    /\ result' = None
    /\ pc' = IF c = "once" THEN "closed" ELSE "idle"

-----------------------------------------------------------------------------
(* Recv and RecvPartial *)

\* Recv is called. The buffer is the one of a read that was left active, or
\* another one: then what that read brings goes to memory that is not looked at.
RecvCall(a) ==
    /\ pc = "idle" /\ calls < MaxCalls
    /\ c = "again" => a.min = 1 /\ (RecvInitiated => a = home)
    /\ calls' = calls + 1 /\ arg' = a /\ home' = a /\ total' = 0
    /\ misused' = (misused \/ kwrite # {})
    /\ IF RecvInitiated /\ c = "again"
       THEN UNCHANGED <<buffer, kread>>
       ELSE /\ buffer' = Empty
            /\ kread' = {[r EXCEPT !.mine = FALSE] : r \in kread}
    /\ pc' = "recv"
    /\ UNCHANGED <<c, result, RecvInitiated, os, events, kwrite, taken, reported, sent>>

\* MinLen bytes are there.
RecvReturn ==
    /\ pc = "recv" /\ total >= arg.min /\ result' = total
    /\ reported' = reported \o Told(total) /\ pc' = "idle"
    /\ UNCHANGED <<c, call, total, RecvInitiated, os, events, kernel, taken, buffer, sent>>

\* No second is left.
RecvExpired ==
    /\ pc = "recv" /\ total < arg.min /\ ReturnError
    /\ UNCHANGED <<c, call, total, RecvInitiated, os, events, kernel, taken, buffer, reported, sent>>

\* "the previous read was left active so we are trying again".
LeftActive == RecvInitiated

RecvResume ==
    /\ pc = "recv" /\ total < arg.min /\ LeftActive /\ pc' = "rwait"
    /\ UNCHANGED <<c, call, total, result, RecvInitiated, os, events, kernel, taken, buffer,
                   reported, sent>>

\* Mutated forms of Offset, Room and EventAtStart: the read starts at lpBuf, is
\* as long as the whole buffer, and its event is not reset.
OffsetFirst == 0
RoomWhole == arg.len
EventAtStartKept == read_event

\* Where in the buffer the next read goes, and the state of its event.
Offset == total
Room == arg.len - total
EventAtStart == FALSE

\* Another read is started: it is pending, complete at once, at the end of the
\* connection, or refused.
RecvStart ==
    /\ pc = "recv" /\ total < arg.min
    /\ ~LeftActive
    /\ RecvInitiated' = TRUE
    /\ \/ /\ kread' = kread \cup {[mine |-> TRUE, by |-> calls, at |-> Offset, room |-> Room]}
          /\ os' = Pending("read") /\ read_event' = EventAtStart
          /\ pc' = "rwait" /\ UNCHANGED <<result, taken, buffer>>
       \/ \E k \in {0} \cup Arrivals(Room) :
          /\ buffer' = Filled(Offset, k) /\ taken' = taken + k
          /\ os' = Done(k, "read") /\ read_event' = TRUE /\ pc' = "rget"
          /\ UNCHANGED <<result, kread>>
       \/ /\ os' = Error("read")
          /\ read_event' = EventAtStart /\ ReturnError
          /\ UNCHANGED <<kread, taken, buffer>>
    /\ UNCHANGED <<c, call, total, write_event, kwrite, reported, sent>>

RecvWoken ==
    /\ pc = "rwait" /\ read_event /\ pc' = "rget"
    /\ UNCHANGED <<c, call, total, result, RecvInitiated, os, events, kernel, taken, buffer,
                   reported, sent>>

\* Mutated forms of RecvGivesUp: the active read is forgotten; the wait has no end.
RecvGivesUpForgets ==
    /\ pc = "rwait"
    /\ ~read_event
    /\ RecvInitiated' = FALSE /\ ReturnError
    /\ UNCHANGED <<c, call, total, os, events, kernel, taken, buffer, reported, sent>>

RecvGivesUpNever == pc = "rwait" /\ ~read_event /\ UNCHANGED vars

\* The time is up, or the module shuts down: the read stays active.
RecvGivesUp ==
    /\ pc = "rwait"
    /\ ~read_event
    /\ ReturnError
    /\ UNCHANGED <<c, call, total, RecvInitiated, os, events, kernel, taken, buffer, reported, sent>>

Event(e) == IF e = "read" THEN read_event ELSE write_event

\* WSAGetOverlappedResult waits for the operation os belongs to.
ResultReady == os.status = "pending" => Event(os.event)

\* The read is over: bytes, the end of the connection or an error.
RecvResult ==
    /\ pc = "rget" /\ ResultReady /\ RecvInitiated' = FALSE
    /\ \/ /\ os.status = "done" /\ os.bytes > 0
          /\ total' = total + os.bytes /\ pc' = "recv"
          /\ UNCHANGED <<result, reported>>
       \/ /\ os.status = "done" /\ os.bytes = 0
          /\ result' = total /\ reported' = reported \o Told(total)
          /\ pc' = "idle" /\ UNCHANGED total
       \/ /\ os.status # "done"
          /\ ReturnError /\ UNCHANGED <<total, reported>>
    /\ UNCHANGED <<c, call, os, events, kernel, taken, buffer, sent>>

-----------------------------------------------------------------------------
(* Send and SendPartial *)

\* Send is called, also while a read or a write is left active.
SendCall(len) ==
    /\ pc = "idle" /\ calls < MaxCalls
    /\ calls' = calls + 1 /\ arg' = [len |-> len, min |-> len] /\ total' = 0
    /\ misused' = (misused \/ RecvInitiated \/ kwrite # {})
    /\ sent' = <<>> /\ pc' = "send"
    /\ UNCHANGED <<c, home, result, RecvInitiated, os, events, kernel, taken, buffer, reported>>

SendReturn ==
    /\ pc = "send" /\ total >= arg.len /\ result' = total /\ pc' = "idle"
    /\ UNCHANGED <<c, call, total, RecvInitiated, os, events, kernel, taken, buffer, reported, sent>>

\* Mutated form of Part: every write starts at lpBuf.
PartFirst(k) == Numbers(0, k)

\* The bytes the next write takes of the caller's.
Part(k) == Numbers(total, k)

\* A write is started over the same os: it is pending, has taken some or all of
\* the bytes at once, or is refused. If no second is left then, its outcome is
\* not waited for. A connection reset closes the socket.
SendStart ==
    /\ pc = "send" /\ total < arg.len
    /\ \/ /\ kwrite' = kwrite \cup {Part(arg.len - total)}
          /\ os' = Pending("write") /\ write_event' = FALSE
          /\ \/ pc' = "swait" /\ UNCHANGED result
             \/ ReturnError
          /\ UNCHANGED sent
       \/ \E k \in 1..(arg.len - total) :
          /\ sent' = sent \o Part(k) /\ os' = Done(k, "write")
          /\ write_event' = TRUE
          /\ \/ pc' = "sget" /\ UNCHANGED result
             \/ ReturnError
          /\ UNCHANGED kwrite
       \/ /\ os' = Error("write")
          /\ write_event' = FALSE /\ result' = None
          /\ pc' \in {"closed"} \cup (IF c = "once" THEN {} ELSE {"idle"})
          /\ UNCHANGED <<sent, kwrite>>
    /\ UNCHANGED <<c, call, total, RecvInitiated, read_event, kread, taken, buffer, reported>>

SendWoken ==
    /\ pc = "swait" /\ write_event /\ pc' = "sget"
    /\ UNCHANGED <<c, call, total, result, RecvInitiated, os, events, kernel, taken, buffer,
                   reported, sent>>

SendGivesUp ==
    /\ pc = "swait"
    /\ ~write_event
    /\ ReturnError
    /\ UNCHANGED <<c, call, total, RecvInitiated, os, events, kernel, taken, buffer, reported, sent>>

\* The write is over. Nothing sent ends the call.
SendResult ==
    /\ pc = "sget" /\ ResultReady
    /\ IF os.status = "done" /\ os.bytes > 0
       THEN total' = total + os.bytes /\ pc' = "send" /\ UNCHANGED result
       ELSE /\ IF os.status = "done" /\ total > 0
               THEN result' = total /\ pc' = "idle"
               ELSE ReturnError
            /\ UNCHANGED total
    /\ UNCHANGED <<c, call, RecvInitiated, os, events, kernel, taken, buffer, reported, sent>>

-----------------------------------------------------------------------------
(* The kernel *)

\* A read completes: some bytes, none at the end of the connection, or an error.
ReadCompletes(r) ==
    /\ pc # "closed"
    /\ \/ \E k \in {0} \cup Arrivals(r.room) :
          /\ os' = Done(k, os.event)
          /\ buffer' = IF r.mine THEN Filled(r.at, k) ELSE buffer
          /\ taken' = taken + k
       \/ os' = Error(os.event) /\ UNCHANGED <<buffer, taken>>
    /\ kread' = kread \ {r} /\ read_event' = TRUE
    /\ UNCHANGED <<c, pc, call, total, result, RecvInitiated, write_event, kwrite, reported, sent>>

\* A write completes, or fails.
WriteCompletes(w) ==
    /\ pc # "closed"
    /\ \/ os' = Done(Len(w), os.event) /\ sent' = sent \o w
       \/ os' = Error(os.event) /\ UNCHANGED sent
    /\ kwrite' = kwrite \ {w} /\ write_event' = TRUE
    /\ UNCHANGED <<c, pc, call, total, result, RecvInitiated, read_event, kread, taken, buffer,
                   reported>>

-----------------------------------------------------------------------------

Handler ==
    \/ RecvReturn \/ RecvExpired \/ RecvResume \/ RecvStart \/ RecvWoken \/ RecvGivesUp
    \/ RecvResult
    \/ SendReturn \/ SendStart \/ SendWoken \/ SendGivesUp \/ SendResult

Kernel ==
    \/ \E r \in kread : ReadCompletes(r)
    \/ \E w \in kwrite : WriteCompletes(w)

Caller ==
    \/ \E a \in RecvArgs : RecvCall(a)
    \/ \E len \in SendLens : SendCall(len)

Next == Handler \/ Kernel \/ Caller

Spec == Init /\ [][Next]_vars

\* Waits end at their timeout. Nothing is assumed of the kernel.
FairSpec == Spec /\ WF_vars(Handler)

-----------------------------------------------------------------------------

TypeOK ==
    /\ c \in Callers
    /\ pc \in {"idle", "recv", "rwait", "rget", "send", "swait", "sget", "closed"}
    /\ calls \in 0..MaxCalls /\ arg \in RecvArg /\ home \in RecvArg /\ misused \in BOOLEAN
    /\ total \in Nat /\ (~misused => total <= arg.len)
    /\ result \in Int /\ RecvInitiated \in BOOLEAN
    /\ os \in [status : {"zero", "pending", "done", "error"}, bytes : Nat,
               event : {"none", "read", "write"}]
    /\ read_event \in BOOLEAN /\ write_event \in BOOLEAN
    /\ kread \subseteq [mine : BOOLEAN, by : Nat, at : Nat, room : Nat]
    /\ kwrite \subseteq Seq(Nat) /\ taken \in 0..Total
    /\ DOMAIN buffer \subseteq Nat /\ (\A i \in DOMAIN buffer : buffer[i] \in Nat)
    /\ reported \in Seq(Nat)
    /\ sent \in Seq(Nat)

\* "Receives no more than Len bytes of data and returns the amount received":
\* what callers find in their buffers, for the lengths they are told, is the
\* peer's bytes, each once and in order, across timeouts and retries.
RecvTruthful == reported = Numbers(0, Len(reported))

\* While the caller still looks at it, a read writes to the buffer of the call
\* that waits for it: none lands in memory that was given back.
ReadsLandHome == pc # "closed" => \A r \in kread : r.mine

\* A wait that ends with its event has its result: the call does not go on to
\* wait without a limit inside WSAGetOverlappedResult, nor reads the result of
\* another operation, as long as no call was begun over one under way.
WokenMeansDone == ~misused =>
    /\ pc = "rget" => os.status # "pending" /\ os.event = "read"
    /\ pc = "sget" => os.status # "pending" /\ os.event = "write"

\* Send goes through the caller's bytes once and in order, however many writes
\* it takes, and returns only when all of them are sent, unless another operation
\* is under way over the same OVERLAPPED.
SendExact == pc = "send" /\ ~misused => sent = Numbers(0, total)

\* The call that runs.
Calling ==
    CASE pc \in {"recv", "rwait", "rget"} -> "recv"
      [] pc \in {"send", "swait", "sget"} -> "send"
      [] pc = "idle" /\ kwrite # {} -> "late"
      [] OTHER -> "none"

Stream == INSTANCE ByteStream WITH
    limit <- Total, calling <- Calling, asked <- arg.len, got <- reported, put <- sent,
    answer <- result, misused <- misused

\* The socket is a stream, for callers that close after a failed call or come
\* back with the same buffer: a Recv continues where the last one ended, also
\* after one that timed out and left its read active, and Send is all or error,
\* up to the first call begun over an operation that is still under way.
GivesStream == Stream!SSpec

\* Every Recv and Send returns, whatever the kernel does. (A Recv over an os that a
\* write took may wait in WSAGetOverlappedResult as long as the write lasts.)
CallReturns == pc # "idle" ~> pc \in {"idle", "closed"} \/ misused

-----------------------------------------------------------------------------
(* What makes these inductive, for callers that keep to a read they left   *)
(* active ("once" and "again").                                            *)

\* One read at most, and its event is not set before it completes. This stays so
\* when another call takes os.
OneRead ==
    /\ kread # {} => /\ RecvInitiated /\ ~read_event /\ pc # "rget"
                     /\ \E r \in kread : kread = {r} /\ r.mine
    /\ c = "once" /\ RecvInitiated => pc \in {"rwait", "rget", "closed"}

\* A Recv runs, or a read was left active.
Reading == RecvInitiated \/ pc \in {"recv", "rwait", "rget"}

\* The bytes of a read that is over and not looked at yet.
Landed == IF RecvInitiated /\ os.status = "done" THEN os.bytes ELSE 0

\* The read of os: under way into the rest of the buffer, over, or failed.
ActiveRead ==
    \/ /\ os.status = "pending" /\ ~read_event
       /\ \E b \in 0 .. MaxCalls : kread = {[mine |-> TRUE, by |-> b, at |-> total, room |-> arg.len - total]}
    \/ kread = {} /\ os.status = "done" /\ os.bytes <= arg.len - total
    \/ kread = {} /\ os.status = "error"

\* os belongs to the one read there is, and only callers that come back with the
\* same buffer leave one active.
ReadKept ==
    /\ ~RecvInitiated => kread = {}
    /\ RecvInitiated => /\ os.event = "read" /\ ActiveRead
                        /\ pc \in {"rwait", "rget"} \/ (c = "again" /\ pc \in {"idle", "recv"})
    /\ Reading => arg = home
    /\ c = "again" /\ Reading => arg.min = 1
    /\ c = "again" /\ RecvInitiated => total = 0
    /\ pc \in {"rwait", "rget"} => RecvInitiated /\ total < arg.min
    /\ pc = "rget" => os.status # "pending"

\* Every byte the kernel handed over was reported or lies in its place of the buffer.
BytesAccounted ==
    /\ taken = Len(reported) + IF Reading THEN total + Landed ELSE 0
    /\ Reading => \A i \in 1 .. total + Landed :
                     i \in DOMAIN buffer /\ buffer[i] = Len(reported) + i

\* A write is under way with the rest of the caller's bytes.
WriteUnderWay ==
    /\ kwrite = {Numbers(total, arg.len - total)} /\ sent = Numbers(0, total)
    /\ os.event = "write"

\* The write of os: under way, over, or failed.
ActiveWrite ==
    \/ os.status = "pending" /\ ~write_event /\ pc = "swait" /\ WriteUnderWay
    \/ /\ kwrite = {} /\ os.status = "done" /\ os.bytes \in 1 .. arg.len - total
       /\ sent = Numbers(0, total + os.bytes)
    \/ kwrite = {} /\ os.status = "error"

\* Between calls a write is under way only behind a Send that failed.
WriteKept ==
    /\ pc \notin {"idle", "swait"} => kwrite = {}
    /\ pc = "idle" /\ kwrite # {} => WriteUnderWay
    /\ pc \in {"swait", "sget"} => os.event = "write" /\ ActiveWrite /\ total < arg.len
    /\ SendExact

\* A closed socket is never looked at again, and nothing is kept of one whose os two
\* operations share.
Kept == pc # "closed" /\ ~misused => ReadKept /\ BytesAccounted /\ WriteKept
=============================================================================
