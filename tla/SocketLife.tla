------------------------------ MODULE SocketLife ------------------------------
(***************************************************************************)
(* The sockets of the process and the life of Winsock: the counter that    *)
(* Socket (Socket.cpp) and the one that AsyncConnection (connection.cpp)   *)
(* keep to start Winsock with their first object and clean it up with      *)
(* their last, the references CBaseSock takes, and the handles. Neither    *)
(* counter is locked or atomic, and worker threads make and destroy        *)
(* sockets: each ++ and -- is a load and a store.                          *)
(*                                                                         *)
(* A handle is a small number the kernel uses again; closesocket(h) closes *)
(* whatever has that number by then.                                       *)
(***************************************************************************)
EXTENDS Integers, FiniteSets

CONSTANTS Threads,   \* Lua threads and workers
          Ids,       \* objects ever made, pings included: a bound on the operations
          Handles,   \* handles the kernel gives out
          MaxWork,   \* bound: two for every object made, three for a ping
          MaxBases,  \* bound: CBaseSocks alive at a time
          Nobody     \* no handle, no object

ASSUME SocketLifeAssumption ==
    IsFiniteSet(Ids) /\ MaxWork \in Nat /\ MaxBases \in Nat /\ Nobody \notin Handles \cup Ids

VARIABLES count,       \* nofSockets_ and s_active_connections
          winsock,     \* WSAStartups without their WSACleanup
          holder,      \* the object each handle was opened for, Nobody when it is not open
          obj,         \* the objects
          thread,      \* where each thread is, with which object, and its register
          bases,       \* CBaseSocks alive
          overlapped   \* history: two threads were in these functions at once

lifeVars == <<count, winsock, holder, obj, thread, bases, overlapped>>

Counters == {"Socket", "Async"}
Counter(i) == IF obj[i].kind = "async" THEN "Async" ELSE "Socket"

IsAt(t, where) == thread[t].at = where
Goes(t, where) == thread' = [thread EXCEPT ![t].at = where]
Holding(t) == thread[t].id
Pings == {i \in Ids : obj[i].kind = "ping"}
Unborn == {i \in Ids : obj[i].kind = "none"}
Work == 2 * Cardinality(Ids \ Unborn) + Cardinality(Pings)
Free == {h \in Handles : holder[h] = Nobody}
Alive(i) == obj[i].at = "live"

\* A thread enters one of the functions. Bound: nothing new is begun after the first overlap, which
\* ends what the counters promise.
Enters(t, where, i) ==
    /\ IsAt(t, "idle") /\ ~overlapped
    /\ thread' = [thread EXCEPT ![t] = [at |-> where, id |-> i, reg |-> 0]]
    /\ overlapped' = \E u \in Threads : ~IsAt(u, "idle")

Leaves(t) == thread' = [thread EXCEPT ![t] = [at |-> "idle", id |-> Nobody, reg |-> 0]]

-----------------------------------------------------------------------------
(* The kernel. *)

\* WSACleanup: the last one closes every socket of the process.
Cleaned(w) == IF w > 0 THEN w - 1 ELSE 0
HandlesAfter(w) == IF w = 1 THEN [h \in Handles |-> Nobody] ELSE holder

Released(h) == IF h \in Handles THEN [holder EXCEPT ![h] = Nobody] ELSE holder

-----------------------------------------------------------------------------
LifeInit ==
    /\ count = [c \in Counters |-> 0] /\ winsock = 0 /\ bases = 0
    /\ holder = [h \in Handles |-> Nobody]
    /\ obj = [i \in Ids |-> [kind |-> "none", at |-> "none", handle |-> Nobody, closed |-> FALSE]]
    /\ thread = [t \in Threads |-> [at |-> "idle", id |-> Nobody, reg |-> 0]]
    /\ overlapped = FALSE

Made(i, kind, h) == [obj EXCEPT ![i] = [kind |-> kind, at |-> "building", handle |-> h, closed |-> FALSE]]

\* network.listen and network.async.
Create(t, i, kind) ==
    /\ i \in Unborn /\ Work + 2 <= MaxWork /\ Enters(t, "start", i)
    /\ obj' = Made(i, kind, Nobody)
    /\ UNCHANGED <<count, winsock, holder, bases>>

\* SocketServer::Accept: the connection stays with Lua, or is handed to a worker.
Accept(t, i, kind) ==
    /\ i \in Unborn /\ Work + 2 <= MaxWork
    /\ \E s \in Ids : obj[s].kind = "server" /\ Alive(s) /\ holder[obj[s].handle] = s
    /\ Enters(t, "start", i)
    /\ \E h \in Free : obj' = Made(i, kind, h) /\ holder' = [holder EXCEPT ![h] = i]
    /\ UNCHANGED <<count, winsock, bases>>

\* The first object of its class starts Winsock.
Start(t) ==
    /\ IsAt(t, "start")
    /\ winsock' = IF count[Counter(Holding(t))] = 0 THEN winsock + 1 ELSE winsock
    /\ Goes(t, "load")
    /\ UNCHANGED <<count, holder, obj, bases, overlapped>>

\* The load of ++ or --.
Load(t) ==
    /\ \/ IsAt(t, "load") /\ thread' = [thread EXCEPT ![t].at = "increment", ![t].reg = count[Counter(Holding(t))]]
       \/ IsAt(t, "unload") /\ thread' = [thread EXCEPT ![t].at = "decrement", ![t].reg = count[Counter(Holding(t))]]
    /\ UNCHANGED <<count, winsock, holder, obj, bases, overlapped>>

\* The store of ++. An accepted Socket is complete; the others open their handle.
Increment(t) ==
    /\ IsAt(t, "increment")
    /\ count' = [count EXCEPT ![Counter(Holding(t))] = thread[t].reg + 1]
    /\ IF obj[Holding(t)].kind \in {"accepted", "worker"}
       THEN obj' = [obj EXCEPT ![Holding(t)].at = "live"] /\ Leaves(t)
       ELSE UNCHANGED obj /\ Goes(t, "open")
    /\ UNCHANGED <<winsock, holder, bases, overlapped>>

\* socket(): the base of a server throws when it fails, and stays counted; an asynchronous connection
\* is returned without a handle.
OpenFails(t) ==
    /\ IsAt(t, "open")
    /\ obj' = [obj EXCEPT ![Holding(t)].at = IF obj[Holding(t)].kind = "server" THEN "gone" ELSE "live"]
    /\ Leaves(t) /\ UNCHANGED <<count, winsock, holder, bases, overlapped>>

Open(t) ==
    /\ IsAt(t, "open") /\ winsock > 0
    /\ \E h \in Free : /\ holder' = [holder EXCEPT ![h] = Holding(t)]
                       /\ IF obj[Holding(t)].kind = "server"
                          THEN obj' = [obj EXCEPT ![Holding(t)].handle = h] /\ Goes(t, "listen")
                          ELSE obj' = [obj EXCEPT ![Holding(t)].handle = h, ![Holding(t)].at = "live"] /\ Leaves(t)
    /\ UNCHANGED <<count, winsock, bases, overlapped>>

\* SocketServer opens a second handle over the first, and listens with it.
Listen(t) ==
    /\ IsAt(t, "listen") /\ winsock > 0
    /\ \E h \in Free : /\ holder' = [holder EXCEPT ![h] = Holding(t)]
                       /\ obj' = [obj EXCEPT ![Holding(t)].handle = h, ![Holding(t)].at = "live"]
    /\ Leaves(t) /\ UNCHANGED <<count, winsock, bases, overlapped>>

\* The second handle is refused, or bind, listen or getsockname fails and the constructor closes it,
\* then throws: the base is destroyed with that handle in it.
ListenFails(t) ==
    /\ IsAt(t, "listen")
    /\ \E h \in Free \cup {Nobody} : obj' = [obj EXCEPT ![Holding(t)].handle = h, ![Holding(t)].at = "dying"]
    /\ Goes(t, "close")
    /\ UNCHANGED <<count, winsock, holder, bases, overlapped>>

\* A worker ends, or an asynchronous connection is collected. Nothing destroys a server or a
\* connection Lua has.
Destroy(t, i) ==
    /\ Alive(i) /\ obj[i].kind \in {"worker", "async"}
    /\ Enters(t, "close", i) /\ obj' = [obj EXCEPT ![i].at = "dying"]
    /\ UNCHANGED <<count, winsock, holder, bases>>

\* Mutated form of CloseHandle: the destructor closes a handle that was closed before.
CloseHandleAgain(t) ==
    /\ IsAt(t, "close") /\ holder' = Released(obj[Holding(t)].handle)
    /\ obj' = [obj EXCEPT ![Holding(t)].closed = TRUE] /\ Goes(t, "unload")
    /\ UNCHANGED <<count, winsock, bases, overlapped>>

CloseHandle(t) ==
    /\ IsAt(t, "close")
    /\ holder' = IF obj[Holding(t)].closed THEN holder ELSE Released(obj[Holding(t)].handle)
    /\ obj' = [obj EXCEPT ![Holding(t)].closed = TRUE] /\ Goes(t, "unload")
    /\ UNCHANGED <<count, winsock, bases, overlapped>>

Decrement(t) ==
    /\ IsAt(t, "decrement")
    /\ count' = [count EXCEPT ![Counter(Holding(t))] = thread[t].reg - 1]
    /\ thread' = [thread EXCEPT ![t].at = "end", ![t].reg = @ - 1]
    /\ UNCHANGED <<winsock, holder, obj, bases, overlapped>>

\* The last object cleans Winsock up. A build may test the register or read the counter again.
End(t) ==
    /\ IsAt(t, "end")
    /\ \E left \in {thread[t].reg, count[Counter(Holding(t))]} :
          IF left = 0 THEN winsock' = Cleaned(winsock) /\ holder' = HandlesAfter(winsock)
          ELSE UNCHANGED <<winsock, holder>>
    /\ obj' = [obj EXCEPT ![Holding(t)].at = "gone"] /\ Leaves(t)
    /\ UNCHANGED <<count, bases, overlapped>>

\* close() from Lua or a handler.
Close(i) ==
    /\ Alive(i) /\ obj[i].kind \in {"accepted", "worker"} /\ ~obj[i].closed
    /\ obj' = [obj EXCEPT ![i].closed = TRUE]
    /\ holder' = Released(obj[i].handle)
    /\ UNCHANGED <<count, winsock, thread, bases, overlapped>>

\* A receive or a send meets the end of the connection and marks it closed; the handle stays open.
MarkClosed(i) ==
    /\ Alive(i) /\ obj[i].kind \in {"accepted", "worker"} /\ ~obj[i].closed
    /\ obj' = [obj EXCEPT ![i].closed = TRUE]
    /\ UNCHANGED <<count, winsock, holder, thread, bases, overlapped>>

\* A CBaseSock takes a reference of its own and gives it back.
BaseStart == /\ bases < MaxBases /\ bases' = bases + 1 /\ winsock' = winsock + 1
             /\ UNCHANGED <<count, holder, obj, thread, overlapped>>

BaseEnd == /\ bases > 0 /\ bases' = bases - 1
           /\ winsock' = Cleaned(winsock) /\ holder' = HandlesAfter(winsock)
           /\ UNCHANGED <<count, obj, thread, overlapped>>

LifeNext ==
    \/ \E t \in Threads, i \in Ids :
          \/ \E kind \in {"server", "async"} : Create(t, i, kind)
          \/ \E kind \in {"accepted", "worker"} : Accept(t, i, kind)
          \/ Destroy(t, i)
    \/ \E t \in Threads :
          \/ Start(t) \/ Load(t) \/ Increment(t) \/ OpenFails(t) \/ Open(t) \/ Listen(t) \/ ListenFails(t)
          \/ CloseHandle(t) \/ Decrement(t) \/ End(t)
    \/ \E i \in Ids : Close(i) \/ MarkClosed(i)
    \/ BaseStart \/ BaseEnd

-----------------------------------------------------------------------------
InUse(i) == obj[i].at \in {"building", "live"} /\ obj[i].handle # Nobody /\ ~obj[i].closed

(* As long as the constructors and destructors of two threads did not     *)
(* overlap, the handle of every socket in use is open and its own: Winsock *)
(* is not cleaned up under it by the last object of the other class, a     *)
(* CBaseSock or a listener that failed, and no one closes it twice         *)
(* (Socket.cpp 15-79, connection.cpp 54-107).                              *)
HandlesValid == ~overlapped => \A i \in Ids : InUse(i) => holder[obj[i].handle] = i

-----------------------------------------------------------------------------
(* What makes it inductive. *)

Kinds  == {"server", "async", "accepted", "worker"}
Places == {"idle", "start", "load", "increment", "open", "listen", "close", "unload", "decrement", "end",
           "ping", "send", "wait", "sleep"}

Object == [kind : Kinds \cup {"none", "ping"}, at : {"none", "building", "live", "dying", "gone"},
           handle : Handles \cup {Nobody}, closed : BOOLEAN]
Local  == [at : Places, id : Ids \cup {Nobody}, reg : Int]

LifeTypeOK ==
    /\ count \in [Counters -> Int] /\ winsock \in Nat /\ bases \in Nat /\ overlapped \in BOOLEAN
    /\ holder \in [Handles -> Ids \cup {Nobody}]
    /\ obj \in [Ids -> Object] /\ thread \in [Threads -> Local]
    /\ \A t \in Threads : IsAt(t, "idle") \/ Holding(t) \in Ids

Alone == \A t, u \in Threads : IsAt(t, "idle") \/ IsAt(u, "idle") \/ t = u

\* The object of a thread, at each place.
Placed(t) ==
    LET o == obj[Holding(t)] at == thread[t].at IN
    /\ at \in {"start", "load", "increment", "open", "listen"} => o.kind \in Kinds /\ o.at = "building"
    /\ at \in {"start", "load", "increment"} =>
          IF o.kind \in {"accepted", "worker"} THEN count["Socket"] > 0 ELSE o.handle = Nobody
    /\ at \in {"open", "listen"} => o.kind \in {"server", "async"}
    /\ at = "listen" => o.kind = "server"
    /\ at \in {"close", "unload", "decrement", "end"} => o.kind \in Kinds /\ o.at = "dying"
    /\ at = "close" /\ ~o.closed /\ o.handle # Nobody => holder[o.handle] \in {Holding(t), Nobody}
    /\ at \in {"increment", "decrement", "end"} => thread[t].reg = count[Counter(Holding(t))]
    /\ at = "ping" => o.kind = "ping" /\ o.at = "building" /\ o.handle = Nobody /\ ~o.closed
    /\ at \in {"send", "wait", "sleep"} => o.kind = "ping" /\ o.at = "live" /\ ~o.closed

\* The objects counter k has counted and not given back.
Member(i, k) ==
    /\ obj[i].kind \in Kinds /\ Counter(i) = k /\ obj[i].at # "gone"
    /\ \A t \in Threads : Holding(t) = i => thread[t].at \notin {"start", "load", "increment", "end"}
Members(k) == {i \in Ids : Member(i, k)}

\* Class k has its reference to Winsock: from before its first ++ until after its last --.
Held(k) == \/ count[k] > 0
           \/ \E t \in Threads : thread[t].at \in {"load", "increment", "end"} /\ Counter(Holding(t)) = k

\* Winsock is started for every base, for either class, and for the pings.
One(b) == IF b THEN 1 ELSE 0
Referenced == winsock >= bases + One(Held("Socket")) + One(Held("Async")) + One(Pings # {})

PingsHeld == \A i \in Pings : Alive(i) => \E t \in Threads : Holding(t) = i /\ thread[t].at \in {"send", "wait", "sleep"}

NotYet == \A i \in Unborn : obj[i].at = "none"

LifeKept ==
    ~overlapped => /\ Alone /\ NotYet /\ (\A t \in Threads : Placed(t))
                   /\ \A k \in Counters : Cardinality(Members(k)) <= count[k]
                   /\ Referenced /\ PingsHeld /\ HandlesValid
=============================================================================
