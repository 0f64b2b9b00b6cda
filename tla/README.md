# LuaXE network module: specification, model checking and proofs

This directory is the verification project of the `network` module: a Lua C module for Windows
(Winsock and SChannel) with an HTTP(S) client, a SOCKS5 proxy client, plain and TLS connections, and
a small listener for HTTP servers written in Lua, polled connections and pings. The TLA+ modules are
translated from the sources (`main.cpp`, `connection.cpp`, `socket/`, `misc/ping.cpp`), TLC checks
them on small instances, and TLAPS proves the safety properties for every value of the constants.

Run a check with `tlc -config <cfg> <module>` and a proof with `tlapm <module>Proofs.tla`.
`PROJECT.json` lists the runs, maps every definition to the lines it models, and gives for every
property of a passing run a mutated definition (kept beside the original, "Mutated form of ...")
that breaks it.

## 1. Inventory

| Component | State | Operations | Interacts with |
|---|---|---|---|
| HTTP request (`ResolveHttpRequest`, `HttpChunkDecoder`, `WebRequestImpl`) | bytes before the header's end, decoder buffer and open chunk, body, flags | send, receive loop, header parse, three framings, callbacks | Dial for its connection; Lua callbacks `should_cancel`, `on_headers`, `on_chunk` |
| Dial (`socket/Dial.cpp`) | place in the conversation, proxy bytes read, what was sent | connect, SOCKS5 greeting / credentials / request, TLS handshake | CBaseSock for bytes and timers, CSSLClient, CertificateVerifier |
| Dial deadlines (`Remaining`, `StepBudget`, CBaseSock timers) | total deadline (ms), armed seconds, end time (s) | arm, start timer, receive a piece, time out | the peer's pace |
| Listener (`Listener_Accept`, `SocketServer::Accept`) | backlog of the kernel, registered function | accept in its call forms, wait, handler, worker thread | clients, Lua handler, detached workers |
| Accepted connection (`ListenerContext`, `Socket`) | kernel bytes, `recv_buffer`, `closed`, the handle | `request`, `receive(n)`, `send`, `close` | the peer, who sends, closes or resets at any time |
| CBaseSock | one OVERLAPPED, `RecvInitiated`, timers | Recv, RecvPartial, Send, SendPartial | kernel completions |
| TLS client (`CSSLClient`) | encrypted and plaintext left-overs, context | negotiate, Recv, Send, shutdown | CBaseSock, SChannel |
| Certificate verification (`CertificateVerifier`) | roots, exclusive or not, checked, failed, the first reason | load roots, judge chain, status and policy, read the names out of the DER, match | asked on every round of the handshake; Windows' chain engine |
| AsyncConnection (`connection.cpp`) | state 0-3, request buffer, one OVERLAPPED, response, start time | start, poll (connect, send, receive, reconnect), finalizer | the kernel's completions, the peer |
| Winsock life time (`Socket`, `SocketServer`, AsyncConnection, CBaseSock) | two unlocked counters, handles, Winsock's own count | constructors, destructors, accept, close | Lua thread and detached workers |
| Ping (`misc/ping.cpp`) | a raw socket, retries left, the result | echo, wait, read, sleep | every ICMP message of the host; Winsock's count |
| Outgoing connection (`ConnectionContext`), options and builders, digests, certificate stores | see `components` in `PROJECT.json` | | |

What is hard in this code: TCP cuts every stream anywhere; every step of a dial and of a request can
fail, time out or be answered with nonsense; timers of whole seconds are armed from budgets in
milliseconds; the socket layer asks the kernel how much there is and acts on the answer later;
clients connect and give up between a wait and the accept behind it; a failed call leaves state
behind that the next call finds; operations of the kernel outlive the call that began them, and
worker threads share counters without a lock. `hazards` in `PROJECT.json` lists each place with the
properties that watch it.

What makes the parts correct:

* **HTTP request**: the caller gets the server's body, whole or with an error, however it was cut;
  memory stays bounded; a good answer is not refused; the streaming and the buffering caller see the
  same bytes; the call ends.
* **Dial**: nothing is told to a proxy before it may be told; no byte of the tunnel is taken by the
  conversation; no unverified peer when verification was asked for;
  the error names what happened.
* **Deadlines**: a message and a conversation end within a bound the options give.
* **Listener**: what `accept` answers is true; it waits only for what it can serve, as long as it
  was told and no longer.
* **Accepted connection**: no byte lost or repeated across failed and repeated calls; the body is
  exact; waits end.
* **TLS client**: the plaintext is the server's, whatever the cuts and retries; no call waits for
  what is already in the buffer; nothing is answered to a refused certificate; Send is all or error.
* **CBaseSock**: a length is told only with its bytes; no buffer is written to after its call gave
  it back; a completed wait has its own operation's result.
* **Certificate verification**: what is accepted is trusted by the right roots and names the host;
  what is good is accepted; the reader takes the names that are there and looks at nothing else.
* **AsyncConnection**: "finished" means the whole answer; a request is not repeated by surprise; the
  kernel reads from live memory; polling comes to an end.
* **Winsock life time, Ping**: no socket in use loses its handle to somebody else; a ping reports an
  answer of the host it asked, and no round trip shorter than it was.

## 2. Modules

    ResponseDelivery   abstract: what a request promises its caller
          ^ refined by
    HttpRequest  -----EXTENDS----> Bytes <----EXTENDS---- ListenerContext
    Dial        DialDeadline                              Listener
    AsyncConnection
    ByteStream         abstract: what Recv and Send of a connection promise
          ^ refined by
    TlsClient   BaseSock
    CertVerify --EXTENDS--> DerNames          Ping --EXTENDS--> SocketLife
    <X>Proofs     EXTENDS <X>, TLAPS        MC<X>  EXTENDS <X> with the instances for TLC
    DialProofs    EXTENDS Dial and CertVerify, SocketProofs EXTENDS BaseSock and Ping

A request starts where `Dial` ends with `"ok"`; `ListenerContext` starts where `Listener` hands a
client to its handler. They share no state (a dial is over before the request begins, a connection
belongs to one handler), so each is checked under the most general environment instead of the other
module: HttpRequest under any recv behaviour, ListenerContext under any peer. `Dial` and
`DialDeadline` are two views of one function, split because what is said and when it is said do not
influence each other except through "the deadline passed", which in `Dial` is an outcome possible at
every step that consults the budget. `TlsClient` sits on `BaseSock`: of it, it uses that a read
left active by a timeout keeps its buffer (`left`), that the write of a Send that failed may still be
under way (`writing`), and that the result of one may be taken for the other's once a call is begun
over them (`mixed`, `RecvMistaken`); `BaseSock`'s `"again"` caller is TlsClient's way of calling. To
those above them both give the same thing, `ByteStream`. `CertVerify` is what
`Dial` takes as the verdict on a certificate. `Ping` composes with `SocketLife`: a ping is one more
user of Winsock's count and of the handles, and its steps interleave with the constructors and
destructors of the other sockets.

### HttpRequest (main.cpp 145-165, 376-428, 443-615)

Variables are the locals of `ResolveHttpRequest` and the members of `HttpChunkDecoder`, by their
names; `pc` is the place in the receive loop. A byte is a cell `[b, v]`: `b` what the decoder can
tell apart (CR, LF, hex digit, junk, text), `v` the size a hex digit stands for or the byte's place
in the body, so that a lost or repeated byte shows. The text of a size line is one cell per number,
because the decoder hands the whole line to one conversion. Header contents are fields of the
scenario (`te`, `cl`, `status`), read when the empty line was found, as in the code. Actions: `Send`,
`LoopTop` (cancel and total timeout), `Receive*`, `Headers*`, `Body*`, `Feed*` (one per turn of the
decoder's loop), `Append*` and `Finish`. A recv returns any non-empty part of the rest up to
`BufferSize`. Exceptions leave through `Leave`: locals die, what callbacks saw stays.

What an answer means is read off the wire as a whole, next to the code's way of reading it piece by
piece. `frames` lists where each chunk of an answer begins on the wire and its data in the payload;
`Framed` says that the list is right (each frame follows from the one before it, the last one is where
no whole chunk begins) and `Counted` says what the payload is without chunks. Both are an assumption on
`Scenarios` that every answer satisfies in one way, so it excludes none. `WellFormed` is an answer
that is whole, `Fits` one within the limits.

Not modelled: `bytes_received` and timing fields of the result, header text, trailing junk that
`stoull` accepts after a number, and 1xx answers (the code takes one for the final answer, and so
would the model: it is a scenario like any other).

### ResponseDelivery

The promise without sockets: the caller holds a growing prefix of the payload, a normal return means
all of it (or what arrived before the close, if only the close ends the body), and a malformed answer
never returns normally. `HttpRequest!Delivers` is the refinement, with `delivered` mapped to what
`on_chunk` saw for a streaming caller and to `body` for the others.

### Dial (socket/Dial.cpp 176-507, TlsVerify.cpp 431-442, SSLClient.cpp 686-710)

`c` is the dial: options, the bytes the proxy will send (its replies and then the tunnel), and the
peer's certificate. `pos` counts the bytes taken, `wrote` the messages sent, `checked` and `failed`
are the verifier's state. One action per message written or read; every read can fail and every
write can fail. `Honest` reads off the bytes whether the proxy follows RFC 1928/1929; the others
break off or break the rules.
Names, credentials and addresses are abstracted to the lengths and kinds the code branches on.

### DialDeadline (socket/Dial.cpp 18-57, 107-163, 435-507; BaseSock.cpp 105-272)

The clock is in milliseconds; a message is a number of bytes that come in pieces after waits from
`Waits`. The timer is started in whole seconds of the system clock, each piece sees the whole seconds
left, and a peer that says nothing costs all of them. `Resolve` is the lookup of the target, which
`ConnectRequest` makes for socks5:// with a host name before the CONNECT message is armed: it takes any
time from `Lookups`, no timer is running, and it may fail. `lookup` is what it took until the next
arming has seen it. That `WSAConnectByNameW` keeps the seconds it was given for the connect is taken
of Windows. The steady clock of `Remaining` and the system
clock of CBaseSock are assumed to run in step (a clock that is set during a dial is not modelled).

### Listener (main.cpp 1172-1373, Socket.cpp 92-133, 300-323)

A Lua state calls `accept` again and again with any arguments, on a blocking or non-blocking
listener with or without a registered function. Clients connect and give up at any time; Winsock may
report one that gave up as an error of the next `accept()`. `excuse` is a history variable: during
this call somebody gave up or the kernel failed. Which pending client the kernel returns is left
open. An `accept()` error other than "would block" and "interrupted" throws through Lua, and an error
in a worker thread has no handler: both are known limitations of the repository's README and lead to
`"crashed"`.

### ListenerContext (main.cpp 735-939, Socket.cpp 75-238)

The peer's bytes are numbered; `arrived` of them reached the kernel and `read` were taken. The two
system calls of `ReceiveBytes` that ask and take, and the peek between them, are separate actions, so
the answer of FIONREAD can be stale. A handler calls `request`, `receive(n)`, `send` and `close` in
any order and any number of times; `recv_buffer` survives every call. Userdata destructors do not
run (repository README, known limitations), so nothing happens when a context is collected. The
clock counts ticks of a wait and stands still elsewhere.

### TlsClient (socket/SSLClient.cpp 38-91, 150-480, 484-876)

A session is the script of the server's records (handshake messages, data, close notify, a damaged
one) and whether its certificate is accepted. Wire and plaintext bytes are numbered: `readBuffer`
maps each cell to the number of the byte in it, so a move to, or a read into, the wrong cell is seen.
`Hello` to `Token*` are Initialize and SSPINegotiateLoop with their flags (`scRet`, `fDoRead`), `Recv*`
and `Decrypt*` are Recv and RecvPartialEncrypted with the cache `plainText`, `Send*` is Send, one
record per step. Schannel is external: it takes whole records in order, asks for more, or fails on
bytes that are not the next ones. A server waits for the client's answer where a record has `reply`.
The owner (Lua, or a request) calls Recv and Send in any order, also a Send while a read that timed
out is active, and anything after a Send that failed. Read and write then share one OVERLAPPED
(BaseSock.cpp:307): `mixed` counts from the first such call, and from then on a Recv may be told the
length of a record of the client's own (`OwnRecords`) or its error, whatever the read has brought
(`RecvMistaken`). A told length that reaches behind `readBuffer` is undefined behaviour and not
followed (`"lost"`). What a Send is told then is not modelled, because nothing is promised of it.
Every call over a write under way counts as mixing, also one that is served from the cache or refused
and does not touch the OVERLAPPED. `DecryptMessage` is taken to fail on, or to ask for more behind,
bytes that are not the next ones of the stream (`Authentic`): records carry a MAC over their number.
Not modelled: the preload of Initialize (no caller passes one, and the loop would overwrite it),
Disconnect (never called), sizes of record headers and trailers.

### ByteStream

The promise of a connection without records, buffers or timeouts: a Recv returns at most what it was
asked for and the bytes that follow the ones returned before, also behind a call that failed; the peer
is sent the caller's bytes from the first on; a Send that returns a length has sent all of them. The
promise ends with the first call that is begun over an operation still under way: a Send over a read
that timed out, or any call over a write that did (`misused`). Nothing in the code prevents such a
call, and it breaks the promise (section 5); an owner that closes after a failed call never makes one.
`GivesStream` is the refinement, in `TlsClient` for any order of Recv and Send, and in `BaseSock` for
callers that close after a failed call or come back with the same buffer. What a read left active
brings later, what Schannel keeps back and what the plaintext cache holds are stutters of it.

### DerNames and CertVerify (socket/TlsVerify.cpp 63-108, 172-330, 369-573)

`DerNames` is the DER reader as operators over bytes: `ReadTlv` with its length forms, the three loops
that walk values, and the way from the certificate to its subjectAltName, next to the comparison of
names and the wildcard. Memory behind the certificate is part of its input, so a read past the end
shows. `CertVerify` has the verifier's fields and `Check`, called once per round with any certificate:
`CheckOff`, `CheckFailed` and `Judge`. Windows gives the chains (each with its end and errors; the
status of the whole is their union) and any answer of the SSL policy. The reference definitions
(`Names`, `Covers`, `Trusts`) say what a certificate means without looking at bytes: it carries the
names it was encoded from, and `plan`, which says where each value of the encoding begins, how many
bytes its length takes and how many its content. `Encodes` is what DER asks of memory for such a plan:
the tag and the length stand where they should, values fill the one around them without a gap, the
names are the contents of the tags 130 and 135. `EncodingsAssumption` asks it of every certificate
that is there; `Uncut` says that all of it is. The plan of a run is made together with its bytes in
`MCCertVerify`, and TLC evaluates the assumption for every certificate. The common name is UTF-16, as
`CertGetNameStringW` gives it, and is cut to bytes where `LowerAscii` cuts it. That makes a hole:
`NamesWhenCut` is a certificate without a DNS name whose common name does not name the host but
spells it by its low bytes, and `AcceptedNamed` names it as the one way in. The asked host is compared
with characters of one byte: the check for a `.` in its rest (TlsVerify.cpp:85) differs from the one
after the cut only for wide characters, which the properties leave out (`AsciiHost`). Not modelled:
messages, `SniName`, a common name of 256 characters or more (it does not fit the code's array, and
the outcome is Windows'), and lengths of four bytes beyond TLC's 32-bit integers.

### AsyncConnection (connection.cpp 36-257)

`connection_state` and `response` are the code's; `link`, `under_way` and `overlapped` are the kernel's
side: what it knows of the connection, the sends it has (each with whether its buffer is still the
connection's) and what it wrote last into the one OVERLAPPED. WSASend and WSAGetOverlappedResult are
two actions, a completion may come between them; so are the test of the 30 s and the read behind it. The peer's bytes are counted. `Delete` is the
finalizer. `expired` becomes true once: the start time is set by the constructor only.

### SocketLife (Socket.cpp 13-79, 226-323; connection.cpp 54-107; BaseSock.cpp 17-35)

Objects of five kinds (listener, connection of Lua, connection of a worker, asynchronous connection,
ping) with the steps of their constructors and destructors: start Winsock if the counter is 0, load,
store, open, listen, close, load, store, clean up if 0. `++` and `--` are a load and a store because
the counters are plain integers and workers are threads. The kernel gives a free number as a handle,
`closesocket` closes whatever has the number, the last WSACleanup closes everything. WSAStartup is
taken to succeed. `overlapped` is a history variable: two threads were inside these functions at once.

### Ping (misc/ping.cpp 11-186)

The locals of `CPing::Ping`, a queue of answers per raw socket, and the echoes under way. Every raw
socket gets every answer; the code reads the first message it gets, without comparing identifier or
sequence number. `stranger` and `late` are history variables for messages of other programs and for
answers that come when their ping has returned.

### BaseSock (socket/BaseSock.cpp 42-70, 164-379; main.cpp 1075-1114)

`os` is the one OVERLAPPED: its status, its byte count and the event it names. `kread` and `kwrite`
are operations the kernel has under way, each with the buffer it was given; they complete at any
moment, also after their call gave up. Callers: `"once"` closes after an error (Dial, HTTP);
`"again"` is CSSLClient, whose owner goes on after any failure with Recv and Send in any order, a Recv
that finds a read active having that read's buffer; `"lua"` is `receive`/`send` of a Lua connection
without TLS, with a new buffer per call. A Send clears and takes `os` also while a read is active, and
whatever completes then writes into `os` as it is (`ReadCompletes`, `WriteCompletes`). The timers are in DialDeadline: here any wait may end with a timeout.

## 3. Runs

| Run | Shows |
|---|---|
| `http_request` | Five properties over some 70 answers (length, chunked, until close, no body, malformed, too large), each cut in every way: callbacks, framing, no good answer refused, refinement of ResponseDelivery, termination. |
| `dial` | Direct dials and proxies that grant, refuse, break off or break the rules, with every failure: conversation, tunnel, certificate, error codes. |
| `dial_deadline` | Messages are bounded, and the conversation but for its lookup of the target, for dials started anywhere in a second, peers that drip and lookups that take seconds. |
| `listener_request` | Reading a request while the peer sends, stops, closes or resets: every byte once, the request exact, no giving up without a reason, and an end. |
| `accept` | What accept answers, when it may say false, and that it returns. |
| `tls_client` | Handshakes and records cut and merged in every way, with timeouts, retries and sends at any time: exact plaintext, also when operations are mixed; until then an intact buffer, no wait for what is there, refinement of ByteStream, calls return. |
| `base_sock` | The callers that close or go on with the same buffer, sending whenever they like: reads land in live buffers; until operations are mixed, refinement of ByteStream, a woken call has its result, calls return. |
| `stray_read` (violation) | A Lua `receive()` after a timed-out one is told the length of bytes that went to the buffer of the call before, which is gone. |
| `cert_verify` | Encoded certificates, whole and cut at every byte, chains and policies of every kind, hosts near every name: accepted is trusted and named, good is accepted, the names read are those encoded. |
| `critical_san` (violation) | The names of a certificate whose subjectAltName is critical are not read. |
| `async_connection` | What finished means, when a request is sent twice, whose memory a send reads, that a late connection never finishes, and that one in time does. |
| `process` | Listeners, connections, workers, asynchronous connections and pings of two threads: valid handles, and what a ping reports. |

Each violation is a line of the repository's documentation or comments that the code does not keep;
`findings` quotes it.

### Bounds, and why they are enough

* `http_request`: bodies of up to 4 bytes, `BufferSize` 5, `Slack` 7, `HeaderMax` 12. Every part of
  the framing (separator, size line, data, CRLF, last chunk) is shorter than the sum of two reads and
  longer than the shortest, so each is cut in every place; body limits are met exactly, missed by one
  and exceeded. `Slack > BufferSize` as for the default options (section 5 has the case in which they
  are equal). `Fits` adds one read to the header because the
  1 MiB check (main.cpp:518) counts body bytes that came with the header's end.
* `dial`: all three address types, names of 1, 5 and 255 bytes, every reply code and one unknown,
  both methods, and a tunnel whose bytes look like replies.
* `dial_deadline`: starts at 0, 250 and 999 ms of a second, budgets on and off a whole second, waits
  at both ends of a second; two messages of up to three pieces are enough for timers that start anew and for roundings that add up;
  a lookup of no time and one of 5 s, longer than every budget.
* `listener_request`: header of 4 or 5 cells, up to 5 more, `Timeout` 2 ticks, `HeaderMax` 6 (between
  the shortest header and the longest); calls are repeated without bound. `accept`: two clients (one
  gives up, another comes), waits of -1, 0 and 2 ticks; calls are repeated without bound.
* `tls_client`: `BufSize` 7 against a largest record of 4 and scripts of up to 14 bytes, so the buffer
  fills up behind a record and has to be moved, as 32100 bytes against 18437 do; records of no, less
  and more text than a Recv asks for (`RecvLens` 1 and 3); Sends of none and of two records
  (`MaxChunk` 2, `SendLens` 0, 3). A record of the client's own is 3 bytes long (`OwnRecords`), so that
  a mistaken length may be too long, too short or right, and may reach behind the buffer. Calls are
  repeated without bound up to the first that mixes two operations; of the calls begun and results
  mistaken from it on, `MaxMixed` 4 are followed.
* `base_sock`: a peer of `Total` 4 bytes, `MaxCalls` 4: a failed read, a send over it, a retry that
  takes the other's result and one more call fit.
* `cert_verify`: every host against every pattern of up to four characters out of a letter, a dot and
  a star, both cases, a wide character, common names with and without a comma; encodings with lengths
  in all forms (0 to 4 bytes, and contents over 127), other extensions before and behind, cut at every
  byte; one or two chains with every end and six sets of errors, three policies, three ca_files; pairs
  of certificates asked about one after the other. A certificate is judged on its own and the
  verifier's fields only grow, so two are enough.
* `async_connection`: `Total` 3 bytes read by `RecvMax` 2, so an answer takes one, two or no reads;
  two starts, two sends under way (one replaced by the next).
* `process`: two threads, three objects and handles, a CBaseSock, `MaxWork` 6 (an object counts two, a
  ping three: three objects, or an object and a ping, or two pings). Pings of one and two echoes, an
  echo answered in its second, later or never (`MaxClock` 2, `Second` 1). Nothing new is begun after
  the first overlap of two threads, where the properties end. Threads, objects and handles are
  symmetric.

### Fairness

* `http_request`: weak fairness of the call's own thread. A receive ends because every socket
  operation carries a timeout (`Terminates` does not need the server).
* `listener_request`: weak fairness of the thread inside `ReceiveBytes` and `lua_Request`; nothing of
  the peer or of the handler. The waits end by the kernel's timeout.
* `accept`: weak fairness of the running call and of each worker. Clients need not come.
* `tls_client`: weak fairness of the thread inside Initialize, Recv and Send. Schannel answers, and a
  socket call ends with bytes or by its timeout; nothing is assumed of the server.
* `base_sock`: weak fairness of the thread inside a call; nothing of the kernel. A wait ends by its
  timeout. Behind a mixed call `CallReturns` promises nothing, in both: a Recv that was woken for a
  read whose OVERLAPPED a write has taken waits in WSAGetOverlappedResult as long as the write lasts.
* `async_connection`: weak fairness of polling (Lua polls as long as it wants the answer), of the
  kernel's work (completing a send, connecting) and of the peer's close, which is what ends an answer.
  `Finishes` asks for an established connection, time, and sends that are completed at once.

CHECK_DEADLOCK is off in `tls_client`, where a failed handshake stops; in `base_sock` and
`stray_read`, which stop when the connection is closed or `MaxCalls` calls are made; in `cert_verify`
and `critical_san`, which end with the last certificate; in `async_connection`, where a collected
connection stops; and in `process`, which ends when all objects were used.

## 4. Proofs

All theorems hold for every value of the constants that satisfies the modules' assumptions: any set
of answers, proxies, budgets, clients and timeouts, of any size.

| Theorem | Statement | Argument |
|---|---|---|
| `HttpRequestProofs!TypeCorrect` | `Spec => []TypeOK` | Includes that an open chunk is between 1 and `max_response_bytes`. Rests on lemmas about `Find` (least position, by the well-foundedness of <) and slices. |
| `HttpRequestProofs!LimitsRespected` | `Spec => []LimitsHold` | From TypeOK: each append is guarded by the sum it makes. |
| `HttpRequestProofs!BodyIsWhatFollows` | `Spec => []BodyFollowsHeaders` | Not inductive alone. `Accounting` says where each byte received so far is: in `pending_headers`, held in `incoming`, or in the body, and which flags go with which place. `FindPrefix`: the first separator of a prefix is that of the stream. |
| `HttpRequestProofs!CallbackSeesBody` | `Spec => []CallbackSawBody` | Every piece goes to both, also the one whose callback raises. |
| `HttpRequestProofs!GoodIsNotBlamed` | `BufferSize < Slack` implies `Spec => []GoodAnswerAccepted` | Rests on `Progress`, below. Each error has its own lemma: a header block is refused only behind its separator (`SeparatorAhead`), an unfinished size line holds no line end (`BeforeLineEnd`), an open chunk leaves less than its size and two bytes in the buffer (`Drained`), and what is found is the frame on the wire (`SizeLineFound`, `FrameSized`). |
| `HttpRequestProofs!RequestDelivers` | `Spec => Delivers` | The refinement of ResponseDelivery. `StepDelivers`: the body only grows, and a normal return is `Finish`; `PrefixHeld`: it is a prefix of what is owed; `ReturnsWhole`: a normal return needs the last chunk or the length, and so a well-formed answer. |
| `DialProofs!TypeCorrect` | `Spec => []TypeOK` | No read runs past the proxy's bytes; every reply code has an error. |
| `DialProofs!ConversationIsLegal` | `Spec => []ConversationLegal` | `Progress` relates each place to the number of bytes read and what they said. |
| `DialProofs!PeerAuthenticated` | `Spec => []Authenticated` | `Vetting` relates the verifier's flags to the certificate and the place. |
| `DialProofs!TunnelIsUntouched` | `Spec => []TunnelUntouched` | `Framed`: how much of the reply to CONNECT is left at each place within it, for every kind of address. |
| `DialProofs!BlameIsTrue` | `Spec => []ErrorsAreTrue` | From `Progress` and `Framed`: at each place the bytes read so far were legal ones. |
| `DialDeadlineProofs!TypeCorrect` | `Spec => []TypeOK` | `Seconds` is monotone and what is left never exceeds `connect_timeout_ms`. |
| `DialDeadlineProofs!MessagesBounded` | `Spec => []MessageBounded` | `Timers`: the end time is the second of the start plus the armed seconds, and no piece comes after it. A lookup between two messages is counted to neither. |
| `DialDeadlineProofs!DeadlineRespected` | `Spec => []DeadlineHolds` | `Timers`: a message is begun within the budget and armed with what is left, rounded up (999 ms), and seen in whole seconds (999 ms). What the lookup of socks5:// took is added, and it has no bound: the theorem says that nothing else comes on top and that no message is begun behind a spent budget, not that such a dial ends in time. |
| `ListenerProofs!TypeCorrect` | `Spec => []TypeOK` | Includes that a wait never outlasts its timeout. |
| `ListenerProofs!AnswersAreTruthful`, `FalseIsNotEarly`, `WaitsAreServed` | `Spec => []AnswerTruthful`, `[]FalseNotEarly`, `[]WaitsOnlyToServe` | Proved together: `Phases` (one accept per call, the answer last) and `WokenForSomebody` (a wait that ended early ended for a client who is there or gave up). |
| `TlsClientProofs!TypeCorrect`, `BufferStaysIntact`, `StreamIsExact`, `StrangersUnanswered` | `Spec => []TypeOK`, `[]BufferIntact`, `[]StreamExact`, `[]NoAnswerToStranger` | Proved together with `Phases`: what the handshake leaves untouched (`Untouched`), what a Send has handed over and left behind (`SendPhase`), and that a read is left active only for an incomplete record, so the buffer is not moved or cut under it (`RecvPhase`). `BufferIntact` ends with the first mixed call, `StreamExact` does not: bytes a mistaken length puts before Schannel are not the next ones. `WireEndGrows` and `TextEndStays` carry facts over several records at once, by the least record that would break them. |
| `TlsClientProofs!WaitsForMissing`, `AlwaysRoom` | `Spec => []WaitsOnlyForMissing`, `[]RoomForMore` | From the same invariant: a record fits into the buffer and nothing comes after the last one. Both end with the first mixed call. |
| `TlsClientProofs!SessionIsStream` | `Spec => GivesStream` | The refinement of ByteStream. What callers have is a beginning of the plaintext (`BeginningHeld`, from StreamExact, before and behind a step), so a Recv that returns k bytes returns the next k; what is written is a prefix of the caller's bytes, and records that join make a longer one. Ends with the first mixed call, as ByteStream does. |
| `ListenerContextProofs!TypeCorrect`, `BytesKeptOnce`, `ReceivesAreBounded`, `GivesUpOnlyForReason`, `RequestIsExact` | `Spec => []TypeOK`, `[]EachByteOnce`, `[]ReceiveBounded`, `[]GivesUpForReason`, `[]RequestExact` | Proved together. `Supply`: what FIONREAD said is still there unless the peer reset; `Timers`, `Phases`: where a request is and what it was armed with; `Stream`: without `receive(n)` the buffer is the stream; `SameRequest`: the request once returned is still the first in the buffer, because a found header is found at the same place in every longer buffer (`HeaderStays`); `NoWait`: a request that was there when asked for costs no tick. TLC has checked this invariant too. |
| `DialProofs!VerifierTypeCorrect` | `VerifierSpec => []VerifierTypeOK` | The verifier's fields agree with the dial's options. |
| `DialProofs!AcceptedIsTrusted` | `VerifierSpec => []AcceptedTrusted` | From VerifyChain: the union of the errors has no hard one, so no chain has, and one ends in the file. |
| `DialProofs!ReasonStands` | `VerifierSpec => []FirstReasonStands` | `Fail` keeps the first reason, and what is wrong with a certificate does not depend on the fields Check changes. |
| `DialProofs!MatchingIsCovering` | the code's comparison and wildcard are `Covers`, for all names and hosts of bytes | Both are spelled out by positions: the cut is the first dot. |
| `DialProofs!NamesAreReadBack` | `VerifierSpec => []NamesReadBack` | A length is read as it is spelt (`LengthIsRead`, for the four loops of ReadTlv), so a value that stands in memory is read whole and one that ends behind the limit is not read (`StandingIsRead`, `CutIsUnreadable`). The walk over a row of values is a function of the place it is at: at the start of each value it takes that value and goes on at the next (`EntriesWalk`, `RowIsRead`), by least counter-example instead of induction. Bytes behind the limit are never looked at (`SameContent`). |
| `DialProofs!AcceptedIsNamed`, `GoodIsAccepted` | `VerifierSpec => []AcceptedNamed`, `VerifierSpec => []GoodAccepted` | The names come from `NamesAreReadBack`; the rest is VerifyName's choice between the names and the common name, `MatchingIsCovering`, and that the verdict on a certificate does not depend on the ones before it. `AcceptedNamed` has the common name cut to low bytes as its second alternative. |
| `AsyncConnectionProofs!TypeCorrect`, `RequestSentOnce`, `FinishedIsWhole`, `BuffersStayLive` | `Spec => []TypeOK`, `[]SentOnce`, `[]FinishedWhole`, `[]BuffersLive` | `Handed` (nothing is sent before start, and no state behind the send is reached without one), `Once` and `Calm` (no way back to connecting or sending while time lasts). |
| `AsyncConnectionProofs!LateIsNever` | `Spec => LateNeverFinishes` | `Missed` is stable: no step ends a late connection. |
| `SocketProofs!OverlappedTypeCorrect`, `RecvTellsTheStream`, `ActiveReadsLandHome`, `EventsSpeakTheTruth`, `SendIsExact` | `"lua" \notin Callers` implies `Spec => []TypeOK`, `[](~misused => RecvTruthful)`, `[]ReadsLandHome`, `[]WokenMeansDone`, `[]SendExact` | Proved together, with `Kept`: the one OVERLAPPED belongs to the one operation there is (`ReadKept`, `WriteKept`), a read left active is into the buffer its caller comes back with, and every byte the kernel handed over was reported or lies in its place of the buffer (`BytesAccounted`). `Kept` and all but `ReadsLandHome` end with the first call begun over an operation under way (`misused`); `OneRead`, on which `ReadsLandHome` rests, does not. |
| `SocketProofs!SocketIsStream` | `"lua" \notin Callers` implies `Spec => GivesStream` | The refinement of ByteStream, from the same invariant: `BytesAccounted` says that the bytes a Recv is told are the next ones, and `ActiveWrite` that a write which completes later is the rest of the caller's bytes. |
| `SocketProofs!HandlesStayValid` | `ProcessSpec => []HandlesValid` | `LifeKept`: while constructors and destructors do not overlap, each counter is at least the number of its objects that are between their `++` and `--` (`Members`), and Winsock's own count is at least the bases, one for each class whose counter is not 0 or is being raised or lowered, and one for the pings (`Referenced`). So the last cleanup comes when nothing is in use. Cardinality lemmas carry the counting. |
| `SocketProofs!RoundTripIsNotShort`, `AnswerIsOfHost` | `ProcessSpec => []RoundTripNotShort`, `[]AnsweredByHost` | `EchoesKept`: what was read was answered, and no clock reading lies ahead; `AnswersKept`: without overlaps, late answers and strangers each queue holds its own ping's answers. |

`HttpRequest`'s `Progress` is the invariant that the request's theorems need beside `Accounting`. It
says which chunk the decoder is at: `ChunksKept` has a frame `k` such that the body and the decoded
chunks are the data of the frames before it (`Decoded`), and the buffer is the wire from its size line
or from its data on (`ReadUpTo`). The frames are needed because the decoder consumes what it reads: without
them its state does not say which bytes of the wire are gone. The other parts are what the code knows of the headers
(`HeadersRead`), that no separator is overlooked (`ReadsBounded`), how long a body is (`LengthKept`),
that Feed stops only where it has to (`Drained`), and that the body is a prefix of the one owed
(`PrefixHeld`). TLC has checked each part on the instance of `http_request`, with reads of 5 and 6.

Hypotheses of theorems beside the modules' assumptions:

* `GoodIsNotBlamed` takes a read to be smaller than the decoder's slack. The code allows them to be
  equal (main.cpp:225 and 391, both 1 MiB); then the statement is false, and TLC shows it with
  `BufferSize = Slack = 7` (section 5).
* BaseSock's theorems leave out the `"lua"` caller, for which `stray_read` shows the opposite.
* BaseSock's and TlsClient's promises, where marked in the table, hold up to the first call begun over an
  operation still under way. This is part of the properties (`misused`, `mixed`), not of the calls the
  models allow.

What `EncodingsAssumption` asks of certificates, beyond DER itself: at most one field [3] in a
certificate's body and at most one extension whose OID begins as that of a subjectAltName (X.509 allows
no second one); the content of a true BOOLEAN is 255; addresses have 4 or 16 bytes. A subjectAltName
that is critical is part of it and not readable by the code (`critical_san`). Common names are in UTF-16, without a
condition on their characters. The hosts of the properties are ASCII (`AsciiHost`, section 5).

`LimitsHold`, `WaitsOnlyToServe`, `RoomForMore`, `NoAnswerToStranger`, `ReceiveBounded`,
`FirstReasonStands`, BaseSock's `SendExact` and the type invariants other than BaseSock's are proved
and not in a run. `RecvTruthful` follows from `GivesStream` as long as that promises something, and is in `stray_read`
only, where it fails.

Only model-checked: liveness (`Terminates`, `RequestReturns`, `CallReturns`, `Finishes`), which is out
of the prover's reach under fairness. Every invariant and every other property of a passing run is
proved. The two violations are found by TLC alone.

## 5. Seen while modelling

Disagreements without a run of their own: a failed send to a proxy is reported as
`proxy_protocol_error` (Dial.cpp:169; README: "answered something that is not SOCKS5"); the deadline
holds to within two seconds rather than the one of the comment at Dial.cpp:154-156 (`DeadlineHolds`
has the 1998 ms that are true); each piece of a request has 1000 ms of its own (main.cpp:850, 901;
README: "bounded by the same 1000 ms"); a third argument of `accept` is checked only behind a handler
(main.cpp:1268-1278; README: "a non-number third argument ... refused"). A second pipelined request is never returned,
because `recv_buffer` is not cut (`RequestExact` is the other side of this).

* Dial.cpp:452: a proxy that cannot be reached is reported with the codes of a direct connection;
  README:98-99 lists `proxy_connect_refused` and `proxy_connect_failed` for it.
* Socket.cpp:147: on a blocking listener the peek waits for a silent peer before any deadline is
  looked at, so `client.request` never gives up; README:210 says it does. The connections of
  `listener_request` are those of a non-blocking listener.
* main.cpp:1327: an accept that is interrupted after its wait raises on a blocking listener; the
  comment at 1297-1299 says a timeout is reported.
* SSLClient.cpp:788-790: when no client credentials can be made the comment says "we will attempt to
  connect anonymously", the code leaves the loop with the error.
* SSLClient.cpp:377: an empty data record makes Recv return 0, which callers take for the end.
* SSLClient.cpp:427: `MaxExtraSize` (50) is not checked against the header and trailer sizes of the
  cipher suite.
* BaseSock.cpp:224: `RecvInitiated` stays true when WSARecv fails at once, so a retry waits for a read
  that does not exist and reports a timeout instead of the error.
* BaseSock.cpp:307: SendPartial clears the OVERLAPPED of a read that is still active, and a send that
  timed out leaves its completion to a later call. A Lua connection gets there with `receive`, a
  timeout and `send` (main.cpp:1075-1114), with TLS or without: the next receive may be told the length
  of the write, lose bytes, or make readBuffer's count reach behind the buffer. `tls_client` and
  `base_sock` have these calls; what survives them is that no wrong plaintext is returned
  (`StreamExact`) and that reads land in live buffers (`ReadsLandHome`).
* Dial.cpp:324: for socks5:// with a host name the target is looked up (GetAddrInfoW, 123) in the middle
  of the conversation and without a timeout, so the dial may last any time beyond `total_timeout_ms`;
  README:91-93 has "one budget" (`DeadlineHolds` has the lookup on top).
* BaseSock.cpp:171: a Recv with a minimum drops the part it has when it times out.
* main.cpp:550-551: a complete answer to HEAD, or a 204 or 304, that names `chunked` raises
  "connection closed before the chunked response completed"; the Content-Length check below it
  (552-553) makes the exception for such answers.
* main.cpp:225, 391: `buffer_size` may be 1 MiB, which is all the slack of the decoder: a chunk of
  exactly `max_response_bytes` whose last bytes arrive with the next MiB of the answer is refused for
  "buffering" (`GoodIsNotBlamed` has the bound that is needed).
* Dial.cpp:476: the TLS handshake is armed once with what is left of the budget and then reads and
  writes several messages under it, each with all of that time; README:91-93 says "one budget for the
  connect, the whole SOCKS5 conversation and the TLS handshake together".
* Socket.cpp:158: `receive(n)` looks for the end of the connection only while nothing is buffered, so
  it never ends when the peer closed behind fewer than `n` bytes; README:212-213 says "the peer has to
  send them or close".
* Socket.cpp:148, 233: a socket marked closed by a receive or a send is skipped by `Close()` and the
  destructor, and its handle leaks; the comment at 125-127 explains why another place must not do it.
* TlsVerify.cpp:63-75: characters are cut to a byte before they are compared, so U+0161 is an "a", in a
  host name (`AcceptedNamed` is about hosts of ASCII) and in a common name: a certificate without DNS
  names whose common name has U+0161 is accepted for the host with an "a" in its place
  (`NamesWhenCut`), which the comment at 562-563, "only an EXACT match there", denies.
* TlsVerify.cpp:562-570: the common name is cut at its first comma and compared then ("only an EXACT
  match"); it is also used when the certificate has only IP addresses, or a subjectAltName that could
  not be read.
* TlsVerify.cpp:506-508: the comment says that VerifyName "has already refused", but Check asks
  VerifyChain first.
* TlsVerify.cpp:274: the byte looked at lies behind an empty value, which may be behind the extension.
* connection.cpp:181: if the kernel leaves every send under way, poll sends for ever, since each
  WSASend overwrites the completion of the one before it; 247: after 30 s every poll begins anew;
  116: the finalizer frees buffers the kernel reads from; a connection that was reset is polled
  without end and without an error.
* Socket.cpp:254-298: a listener opens a second handle over the first, which leaks; when bind or listen
  fails the second is closed twice (by then it may be another thread's). A base that throws stays
  counted.
* Socket.cpp:15-22, 52: constructors and destructors that overlap in two threads can lose a count or
  start Winsock twice, and clean up under sockets in use (`HandlesValid` is about the time before).
* misc/ping.cpp: no WSACleanup; the raw socket leaks without an address; answers of other pings, late
  answers and other ICMP messages are taken for the answer (`AnsweredByHost` names the luck needed); a
  failed sendto is ignored; a success stays the result when later echoes time out.
* main.cpp:1362: a `send()` that takes only part of a response is cut off by the close that follows.

## 6. Not modelled, and the plan

Left out for good:

* option and URL reading, request and response text, MD5/Base64/time helpers: straight-line
  transformations of text and bytes without state or interleaving, where a bounded check would repeat
  a unit test;
* the certificate-store helpers (`CertHelper.cpp`, `CertRAII.cpp`): calls of Windows dialogs and
  stores, taken over from a sample;
* `ConnectionContext`'s `poll` and argument reading, `CBaseSock::ReceiveBytes`;
* vendored code: nlohmann's `json.hpp` and `websocketpp` are third-party libraries and six sevenths of
  the repository's lines. Nothing in the module uses a state of theirs (`main.cpp` includes `json.hpp`,
  no source includes `websocketpp`), so a model of them would say nothing about this program. The
  share of all lines that the map covers stays small for this reason; of the module's own sources it
  covers the parts that keep state.

What could come next: `request` and `receive` of an accepted connection as a caller's promise of
their own, refined by ListenerContext as TlsClient refines ByteStream; action properties of `accept`
and of a poll; the reader over memory that holds no encoding at all, of which only the independence of
what lies behind the certificate is checked today.
