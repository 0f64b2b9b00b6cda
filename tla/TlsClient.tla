----------------------------- MODULE TlsClient -----------------------------
(***************************************************************************)
(* A TLS session of the network module: CSSLClient in                      *)
(* socket/SSLClient.cpp, from Initialize (the handshake) to the Recv and   *)
(* Send calls of its owner.                                                *)
(*                                                                         *)
(* The server's ciphertext is a script of records that TCP cuts and merges *)
(* as it likes. Its bytes are numbered, so the read buffer is a function   *)
(* from its cells to the numbers of the bytes in them, and a move or a     *)
(* read to the wrong cell is visible. The plaintext is numbered as well.   *)
(* Schannel is outside the repository: it takes whole records in order,    *)
(* asks for more when the next one is not complete, and never decrypts     *)
(* bytes that are not the next ones of the stream.                         *)
(*                                                                         *)
(* The socket below is BaseSock's: its reads and writes share an           *)
(* OVERLAPPED. An owner that sends while a read that timed out is active,  *)
(* or calls while the record of a Send that timed out is still under way,  *)
(* mixes their results; from then on a Recv may be told another length     *)
(* than the socket wrote to readBuffer.                                    *)
(***************************************************************************)
EXTENDS Integers, Sequences

CONSTANTS
    BufSize,        \* sizeof(readBuffer)
    MaxChunk,       \* the plaintext of one outgoing record
    RecvLens,       \* the lengths callers pass to Recv
    SendLens,       \* the lengths callers pass to Send
    OwnRecords,     \* the lengths the records of the client have on the wire
    MaxMixed,       \* bound on the calls begun and the results mistaken from the first
                    \* call that mixes two operations on
    Sessions        \* what the server sends, and whether its certificate is accepted

\* A record of the server: its place on the wire, its place in the plaintext,
\* whether the client answers it with a token of its own.
Record ==
    [kind : {"hs", "cert", "ask", "fin", "alert", "data", "close", "bad"},
     at : Nat, size : Nat \ {0}, text : Nat, len : Nat, reply : BOOLEAN]

Handshake == {"hs", "cert", "ask"}

Session == [records : Seq(Record), accept : BOOLEAN]

\* Where record i ends on the wire and in the plaintext.
WireEnd(records, i) == IF i = 0 THEN 0 ELSE records[i].at + records[i].size
TextEnd(records, i) == IF i = 0 THEN 0 ELSE records[i].text + records[i].len

\* Records follow each other without a gap, only data carries plaintext, none
\* is larger than the read buffer (TLS 1.2 stops at 18437 bytes, readBuffer has
\* 32100), and the certificate comes before the first message the client answers.
WellFormed(records) ==
    \A i \in 1..Len(records) :
        /\ records[i].at = WireEnd(records, i - 1)
        /\ records[i].text = TextEnd(records, i - 1)
        /\ records[i].size <= BufSize
        /\ records[i].kind # "data" => records[i].len = 0
        /\ records[i].kind = "fin" \/ records[i].reply =>
            \E j \in 1..i : records[j].kind = "cert"

ASSUME TlsAssumption ==
    /\ BufSize \in Nat \ {0} /\ MaxChunk \in Nat \ {0}
    /\ OwnRecords \subseteq Nat \ {0} /\ MaxMixed \in Nat
    /\ RecvLens \subseteq Nat \ {0} /\ SendLens \subseteq Nat
    /\ Sessions \subseteq Session
    /\ \A x \in Sessions : WellFormed(x.records)

None == -1

VARIABLES
    s,                  \* the session (never changes)
    pc,                 \* where the object is
    taken,              \* bytes the socket has handed over
    seen,               \* records Schannel has taken
    readBuffer,         \* cell -> the number of the byte in it, or None
    readPtr,
    readBufferBytes,
    left,               \* the cell of a read that was left active by a timeout
    writing,            \* the record of a Send that failed may still leave
    mixed,              \* calls begun and results mistaken since one was begun over a
                        \* read or a write under way
    cbIoBuffer,         \* the negotiate loop's own count, and its flags
    scRet,
    fDoRead,
    newCreds,           \* GetNewClientCredentials has been through
    tokens,             \* handshake messages the client has sent
    m_encrypting,
    plainText,          \* decrypted, not yet asked for
    received,           \* history: everything Recv has returned
    want,               \* Len of the call
    written,            \* the part of this Send that was handed to the socket
    result              \* of the last call; None for SOCKET_ERROR

loop  == <<cbIoBuffer, scRet, fDoRead, newCreds, tokens>>
text  == <<plainText, received>>
cross == <<writing, mixed>>
vars  == <<s, pc, taken, seen, readBuffer, readPtr, readBufferBytes, left, cross, loop,
           m_encrypting, text, want, written, result>>

-----------------------------------------------------------------------------

rs == s.records

Smaller(a, b) == IF a < b THEN a ELSE b

Positions(from, n) == [i \in 1..n |-> from + i]

\* The n cells from p on hold the bytes Schannel needs next.
Intact(p, n) == \A k \in 0..(n - 1) : readBuffer[p + k] = WireEnd(rs, seen) + k

\* n bytes do not make the next record.
Incomplete(n) == seen < Len(rs) => n < rs[seen + 1].size

\* The socket writes k fresh bytes to the cells from p on.
Filled(p, k) ==
    [i \in DOMAIN readBuffer |-> IF i \in p..(p + k - 1) THEN taken + (i - p) ELSE readBuffer[i]]

\* Mutated form of MovedDown: the data is not moved.
MovedDownNot(p, n) == readBuffer

\* MoveMemory and memmove_s of n bytes from cell p to the start of the buffer.
MovedDown(p, n) ==
    [i \in DOMAIN readBuffer |-> IF i < n THEN readBuffer[p + i] ELSE readBuffer[i]]

\* How many bytes one read may bring: the server says no more until it has the
\* client's answer to a record that wants one.
Arrivals(room) ==
    {k \in 1..room :
        /\ taken + k <= WireEnd(rs, Len(rs))
        /\ \A i \in (seen + 1)..Len(rs) : rs[i].reply => taken + k <= WireEnd(rs, i)}

Init ==
    /\ s \in Sessions /\ pc = "start" /\ taken = 0 /\ seen = 0
    /\ readBuffer = [i \in 0..(BufSize - 1) |-> None] /\ readPtr = 0
    /\ readBufferBytes = 0 /\ left = None /\ cbIoBuffer = 0
    /\ writing = FALSE /\ mixed = 0
    /\ scRet = "continue" /\ fDoRead = TRUE /\ newCreds = FALSE
    /\ tokens = 0 /\ m_encrypting = FALSE /\ plainText = <<>>
    /\ received = <<>> /\ want = 0 /\ written = <<>> /\ result = 0

-----------------------------------------------------------------------------
(* Initialize and SSPINegotiateLoop *)

\* Credentials, the first InitializeSecurityContext and the ClientHello. Each
\* may fail.
Hello ==
    /\ pc = "start"
    /\ \/ pc' = "negotiate" /\ tokens' = 1
       \/ pc' = "failed" /\ UNCHANGED tokens
    /\ UNCHANGED <<s, taken, seen, readBuffer, readPtr, readBufferBytes, left, cross, cbIoBuffer,
                   scRet, fDoRead, newCreds, m_encrypting, text, want, written, result>>

NeedsRead == cbIoBuffer = 0 \/ scRet = "incomplete"

\* The loop reads behind what it has.
HandshakeRead ==
    /\ pc = "negotiate" /\ NeedsRead /\ fDoRead
    /\ \E k \in Arrivals(BufSize - cbIoBuffer) :
        /\ readBuffer' = Filled(cbIoBuffer, k)
        /\ cbIoBuffer' = cbIoBuffer + k /\ taken' = taken + k
    /\ pc' = "token"
    /\ UNCHANGED <<s, seen, readPtr, readBufferBytes, left, cross, scRet, fDoRead, newCreds, tokens,
                   m_encrypting, text, want, written, result>>

\* An error, a timeout or the end of the connection ends the handshake.
HandshakeReadFails ==
    /\ pc = "negotiate" /\ NeedsRead /\ fDoRead /\ pc' = "failed"
    /\ UNCHANGED <<s, taken, seen, readBuffer, readPtr, readBufferBytes, left, cross, loop,
                   m_encrypting, text, want, written, result>>

\* Mutated form of HandshakeNoRead: fDoRead is not set back.
HandshakeNoReadAgain ==
    /\ pc = "negotiate"
    /\ ~(NeedsRead /\ fDoRead)
    /\ pc' = "token"
    /\ UNCHANGED <<s, taken, seen, readBuffer, readPtr, readBufferBytes, left, cross, loop,
                   m_encrypting, text, want, written, result>>

\* What is there is offered first; after new credentials one read is left out.
HandshakeNoRead ==
    /\ pc = "negotiate"
    /\ ~(NeedsRead /\ fDoRead)
    /\ fDoRead' = (fDoRead \/ NeedsRead)
    /\ pc' = "token"
    /\ UNCHANGED <<s, taken, seen, readBuffer, readPtr, readBufferBytes, left, cross, cbIoBuffer,
                   scRet, newCreds, tokens, m_encrypting, text, want, written, result>>

\* SEC_E_INCOMPLETE_MESSAGE.
TokenIncomplete ==
    /\ pc = "token" /\ Intact(0, cbIoBuffer) /\ Incomplete(cbIoBuffer)
    /\ scRet' = "incomplete" /\ pc' = "negotiate"
    /\ UNCHANGED <<s, taken, seen, readBuffer, readPtr, readBufferBytes, left, cross, cbIoBuffer,
                   fDoRead, newCreds, tokens, m_encrypting, text, want, written, result>>

\* The server wants a certificate the credentials do not have (SEC_I_INCOMPLETE_-
\* CREDENTIALS): nothing is taken and the loop goes around with new ones, or
\* fails for want of a client certificate.
TokenAsks ==
    /\ pc = "token" /\ Intact(0, cbIoBuffer)
    /\ ~Incomplete(cbIoBuffer)
    /\ seen < Len(rs) /\ rs[seen + 1].kind = "ask" /\ ~newCreds
    /\ \/ pc' = "negotiate" /\ newCreds' = TRUE /\ fDoRead' = FALSE /\ scRet' = "continue"
       \/ pc' = "failed" /\ UNCHANGED <<newCreds, fDoRead, scRet>>
    /\ UNCHANGED <<s, taken, seen, readBuffer, readPtr, readBufferBytes, left, cross, cbIoBuffer,
                   tokens, m_encrypting, text, want, written, result>>

\* Schannel may take several records of a flight in one call: m of them, the
\* last of which may be the last of the handshake or want an answer.
Takes(m) ==
    /\ Intact(0, cbIoBuffer) /\ seen + m <= Len(rs)
    /\ WireEnd(rs, seen + m) - WireEnd(rs, seen) <= cbIoBuffer
    /\ \A i \in (seen + 1)..(seen + m) :
        /\ rs[i].kind \in Handshake \cup {"fin"}
        /\ rs[i].kind = "ask" => newCreds
        /\ rs[i].kind = "fin" \/ rs[i].reply => i = seen + m

\* The certificate is looked at on every round that has one, before the answer
\* leaves.
Refused(m) == (\E i \in 1..(seen + m) : rs[i].kind = "cert") /\ ~s.accept

\* What Schannel did not take of n bytes (SECBUFFER_EXTRA).
Extra(m, n) == n - (WireEnd(rs, seen + m) - WireEnd(rs, seen))

\* SEC_I_CONTINUE_NEEDED: the answer is sent, the rest is moved to the front.
TokenContinue ==
    /\ pc = "token"
    /\ \E m \in 1..Len(rs) :
        /\ Takes(m) /\ rs[seen + m].kind # "fin"
        /\ ~Refused(m)
        /\ LET extra == Extra(m, cbIoBuffer) IN
            /\ readBuffer' = MovedDown(cbIoBuffer - extra, extra)
            /\ cbIoBuffer' = extra
        /\ tokens' = tokens + (IF rs[seen + m].reply THEN 1 ELSE 0)
        /\ seen' = seen + m
    /\ scRet' = "continue" /\ pc' = "negotiate"
    /\ UNCHANGED <<s, taken, readPtr, readBufferBytes, left, cross, fDoRead, newCreds, m_encrypting,
                   text, want, written, result>>

\* SEC_E_OK: what is left over is application data and stays in the buffer.
\* Asking for the stream sizes may still fail Initialize.
TokenDone ==
    /\ pc = "token"
    /\ \E m \in 1..Len(rs) :
        /\ Takes(m) /\ rs[seen + m].kind = "fin"
        /\ ~Refused(m)
        /\ LET extra == Extra(m, cbIoBuffer) IN
            /\ readBuffer' = MovedDown(cbIoBuffer - extra, extra)
            /\ readBufferBytes' = extra
        /\ tokens' = tokens + (IF rs[seen + m].reply THEN 1 ELSE 0)
        /\ seen' = seen + m
    /\ m_encrypting' = TRUE /\ pc' \in {"idle", "failed"}
    /\ UNCHANGED <<s, taken, readPtr, left, cross, cbIoBuffer, scRet, fDoRead, newCreds, text,
                   want, written, result>>

\* A refused certificate, an alert, a record that has no place in a handshake,
\* or the answer cannot be sent.
TokenFails ==
    /\ pc = "token"
    /\ \/ \E m \in 1..Len(rs) : Takes(m) /\ (Refused(m) \/ rs[seen + m].reply)
       \/ ~Intact(0, cbIoBuffer)
       \/ /\ seen < Len(rs) /\ ~Incomplete(cbIoBuffer)
          /\ rs[seen + 1].kind \notin Handshake \cup {"fin"}
    /\ pc' = "failed"
    /\ UNCHANGED <<s, taken, seen, readBuffer, readPtr, readBufferBytes, left, cross, loop,
                   m_encrypting, text, want, written, result>>

-----------------------------------------------------------------------------
(* Recv and RecvPartialEncrypted *)

\* A call begins: over a write that is under way, or over a read if it is a Send.
Crosses(read) ==
    /\ mixed' = IF mixed > 0 \/ writing \/ read THEN mixed + 1 ELSE 0
    /\ mixed < MaxMixed /\ UNCHANGED writing

\* Mutated form of RecvCached: plainTextPtr is not advanced.
RecvCachedAgain(len) ==
    /\ pc = "idle" /\ plainText # <<>>
    /\ LET n == Smaller(len, Len(plainText)) IN
        /\ received' = received \o SubSeq(plainText, 1, n)
        /\ plainText' = SubSeq(plainText, 1, Len(plainText) - n)
        /\ result' = n
    /\ want' = len
    /\ Crosses(FALSE)
    /\ UNCHANGED <<s, pc, taken, seen, readBuffer, readPtr, readBufferBytes, left, loop,
                   m_encrypting, written>>

\* Cached plaintext is returned before anything else.
RecvCached(len) ==
    /\ pc = "idle" /\ plainText # <<>>
    /\ LET n == Smaller(len, Len(plainText)) IN
        /\ received' = received \o SubSeq(plainText, 1, n)
        /\ plainText' = SubSeq(plainText, n + 1, Len(plainText))
        /\ result' = n
    /\ want' = len
    /\ Crosses(FALSE)
    /\ UNCHANGED <<s, pc, taken, seen, readBuffer, readPtr, readBufferBytes, left, loop,
                   m_encrypting, written>>

\* Recv after the end of the session.
RecvRefused ==
    /\ pc = "idle" /\ plainText = <<>>
    /\ ~m_encrypting
    /\ result' = None
    /\ Crosses(FALSE)
    /\ UNCHANGED <<s, pc, taken, seen, readBuffer, readPtr, readBufferBytes, left, loop,
                   m_encrypting, text, want, written>>

FreeAtEnd == BufSize - readBufferBytes - readPtr

\* "Recv Buffer inexplicably full".
Full == FreeAtEnd = 0 /\ readPtr = 0

\* The data is moved down when there is no room behind it.
MakeRoom ==
    /\ readBuffer' = IF FreeAtEnd = 0 THEN MovedDown(readPtr, BufSize - readPtr) ELSE readBuffer
    /\ readPtr' = IF FreeAtEnd = 0 THEN 0 ELSE readPtr
    /\ pc' = IF Full THEN "idle" ELSE "waiting"
    /\ result' = IF Full THEN None ELSE result

\* Mutated form of RecvBegin: the saved bytes are not tried first.
RecvBeginAtSocket(len) ==
    /\ pc = "idle" /\ plainText = <<>> /\ m_encrypting /\ want' = len
    /\ MakeRoom
    /\ Crosses(FALSE)
    /\ UNCHANGED <<s, taken, seen, readBufferBytes, left, loop, m_encrypting, text, written>>

\* Nothing is cached: bytes in the buffer are tried before the socket is read.
RecvBegin(len) ==
    /\ pc = "idle" /\ plainText = <<>> /\ m_encrypting /\ want' = len
    /\ IF readBufferBytes = 0 THEN MakeRoom
       ELSE pc' = "decrypt" /\ UNCHANGED <<readBuffer, readPtr, result>>
    /\ Crosses(FALSE)
    /\ UNCHANGED <<s, taken, seen, readBufferBytes, left, loop, m_encrypting, text, written>>

\* Where the bytes of the next read go: a read that was left active keeps the
\* buffer it was started with (CBaseSock::RecvPartial).
Target == IF left = None THEN readPtr + readBufferBytes ELSE left

\* The socket returns some bytes.
RecvRead ==
    /\ pc = "waiting"
    /\ \E k \in Arrivals(BufSize - Target) :
        /\ readBuffer' = Filled(Target, k)
        /\ readBufferBytes' = readBufferBytes + k /\ taken' = taken + k
    /\ left' = None /\ pc' = "decrypt"
    /\ UNCHANGED <<s, seen, readPtr, cross, loop, m_encrypting, text, want, written, result>>

\* The socket reports a timeout, and the read stays active, or an error.
RecvReadFails ==
    /\ pc = "waiting" /\ left' \in {Target, None} /\ pc' = "idle"
    /\ result' = None
    /\ UNCHANGED <<s, taken, seen, readBuffer, readPtr, readBufferBytes, cross, loop, m_encrypting,
                   text, want, written>>

\* The read is over, but os holds the result of the write it was mixed with: Recv is
\* told that length, whatever the socket wrote to readBuffer, or that write's
\* error. A length that reaches behind readBuffer is undefined and not followed.
RecvMistaken ==
    /\ pc = "waiting" /\ mixed \in 1..(MaxMixed - 1) /\ mixed' = mixed + 1 /\ left' = None
    /\ \E k \in {0} \cup Arrivals(BufSize - Target) :
        readBuffer' = Filled(Target, k) /\ taken' = taken + k
    /\ \/ /\ \E n \in OwnRecords :
                IF readPtr + readBufferBytes + n <= BufSize
                THEN pc' = "decrypt" /\ readBufferBytes' = readBufferBytes + n
                ELSE pc' = "lost" /\ UNCHANGED readBufferBytes
          /\ UNCHANGED result
       \/ pc' = "idle" /\ result' = None /\ UNCHANGED readBufferBytes
    /\ UNCHANGED <<s, seen, readPtr, writing, loop, m_encrypting, text, want, written>>

\* The connection ended, with or without a close notify.
RecvEnds ==
    /\ pc = "waiting" /\ m_encrypting' = FALSE /\ result' = 0
    /\ pc' = "idle" /\ left' = None
    /\ UNCHANGED <<s, taken, seen, readBuffer, readPtr, readBufferBytes, cross, loop, text,
                   want, written>>

\* The bytes DecryptMessage looks at, of the n it is given, are the next ones of the
\* stream: the next record, or as much of it as there is. Behind a length that was
\* mistaken they may be anything.
Authentic(n) == Intact(readPtr, IF Incomplete(n) THEN n ELSE rs[seen + 1].size)

\* SEC_E_INCOMPLETE_MESSAGE.
DecryptIncomplete ==
    /\ pc = "decrypt"
    /\ Incomplete(readBufferBytes) \/ ~Authentic(readBufferBytes)
    /\ MakeRoom
    /\ UNCHANGED <<s, taken, seen, readBufferBytes, left, cross, loop, m_encrypting, text, want, written>>

\* SEC_E_OK: the caller gets what it asked for, the cache the rest, and the
\* bytes behind the record are remembered where they are.
DecryptData ==
    /\ pc = "decrypt" /\ Authentic(readBufferBytes)
    /\ ~Incomplete(readBufferBytes)
    /\ seen < Len(rs) /\ rs[seen + 1].kind = "data"
    /\ LET r == rs[seen + 1]
           n == Smaller(want, r.len) IN
        /\ received' = received \o Positions(r.text, n)
        /\ plainText' = Positions(r.text + n, r.len - n) /\ result' = n
        /\ readBufferBytes' = Extra(1, readBufferBytes)
        /\ readPtr' = IF Extra(1, readBufferBytes) = 0 THEN 0 ELSE readPtr + r.size
    /\ seen' = seen + 1 /\ pc' = "idle"
    /\ UNCHANGED <<s, taken, readBuffer, left, cross, loop, m_encrypting, want, written>>

\* SEC_I_CONTEXT_EXPIRED: a close notify.
DecryptClose ==
    /\ pc = "decrypt" /\ Authentic(readBufferBytes)
    /\ ~Incomplete(readBufferBytes)
    /\ seen < Len(rs) /\ rs[seen + 1].kind = "close" /\ seen' = seen + 1
    /\ m_encrypting' = FALSE /\ result' = 0 /\ pc' = "idle"
    /\ UNCHANGED <<s, taken, readBuffer, readPtr, readBufferBytes, left, cross, loop, text, want, written>>

\* Anything else: a record that does not decrypt, a renegotiation, no data.
DecryptFails ==
    /\ pc = "decrypt"
    /\ \/ ~Authentic(readBufferBytes)
       \/ /\ seen < Len(rs) /\ ~Incomplete(readBufferBytes)
          /\ rs[seen + 1].kind \notin {"data", "close"}
    /\ result' = None /\ pc' = "idle"
    /\ UNCHANGED <<s, taken, seen, readBuffer, readPtr, readBufferBytes, left, cross, loop,
                   m_encrypting, text, want, written>>

-----------------------------------------------------------------------------
(* Send *)

SendRefused ==
    /\ pc = "idle"
    /\ ~m_encrypting
    /\ result' = None
    /\ Crosses(FALSE)
    /\ UNCHANGED <<s, pc, taken, seen, readBuffer, readPtr, readBufferBytes, left, loop,
                   m_encrypting, text, want, written>>

SendBegin(len) ==
    /\ pc = "idle" /\ m_encrypting /\ want' = len /\ written' = <<>>
    /\ pc' = "sending"
    /\ Crosses(left # None)
    /\ UNCHANGED <<s, taken, seen, readBuffer, readPtr, readBufferBytes, left, loop,
                   m_encrypting, text, result>>

\* Mutated form of Chunk: the last record is as long as the others.
ChunkWhole == MaxChunk

\* The plaintext of the next record.
Chunk == Smaller(MaxChunk, want - Len(written))

\* One record is encrypted and sent as a whole.
SendChunk ==
    /\ pc = "sending"
    /\ written' = written \o Positions(Len(written), Chunk)
    /\ IF Len(written) + Chunk < want
       THEN UNCHANGED <<pc, result>>
       ELSE pc' = "idle" /\ result' = Len(written) + Chunk
    /\ UNCHANGED <<s, taken, seen, readBuffer, readPtr, readBufferBytes, left, cross, loop,
                   m_encrypting, text, want>>

\* EncryptMessage or the socket fails: the record has left, or may still leave.
SendFails ==
    /\ pc = "sending" /\ result' = None /\ pc' = "idle"
    /\ \/ written' = written \o Positions(Len(written), Chunk) /\ UNCHANGED writing
       \/ UNCHANGED written /\ writing' \in {writing, TRUE}
    /\ UNCHANGED <<s, taken, seen, readBuffer, readPtr, readBufferBytes, left, mixed, loop,
                   m_encrypting, text, want>>

\* The write such a Send has left is over, before another call is begun over it.
WriteEnds ==
    /\ writing
    /\ mixed = 0
    /\ writing' = FALSE
    /\ UNCHANGED written \/ written' = written \o Positions(Len(written), Chunk)
    /\ UNCHANGED <<s, pc, taken, seen, readBuffer, readPtr, readBufferBytes, left, mixed, loop,
                   m_encrypting, text, want, result>>

-----------------------------------------------------------------------------

\* The steps of a call that is running.
Handler ==
    \/ Hello
    \/ HandshakeRead \/ HandshakeReadFails \/ HandshakeNoRead
    \/ TokenIncomplete \/ TokenAsks \/ TokenContinue \/ TokenDone \/ TokenFails
    \/ RecvRead \/ RecvReadFails \/ RecvMistaken \/ RecvEnds
    \/ DecryptIncomplete \/ DecryptData \/ DecryptClose \/ DecryptFails
    \/ SendChunk \/ SendFails

\* The owner calls Recv and Send in any order, and stops after a failed dial.
Caller ==
    \/ RecvRefused \/ SendRefused
    \/ \E len \in RecvLens : RecvCached(len) \/ RecvBegin(len)
    \/ \E len \in SendLens : SendBegin(len)

Next == Handler \/ Caller \/ WriteEnds

Spec == Init /\ [][Next]_vars

\* Schannel answers, and every socket call ends within its timeout.
FairSpec == Spec /\ WF_vars(Handler)

-----------------------------------------------------------------------------

TypeOK ==
    /\ s \in Sessions
    /\ pc \in {"start", "negotiate", "token", "idle", "decrypt", "waiting", "sending", "failed",
              "lost"}
    /\ writing \in BOOLEAN /\ mixed \in 0..MaxMixed /\ taken \in Nat /\ seen \in 0..Len(rs)
    /\ readBuffer \in [0..(BufSize - 1) -> Int]
    /\ readPtr \in 0..(BufSize - 1)
    /\ readBufferBytes \in 0..(BufSize - readPtr)
    /\ left \in {None} \cup 0..(BufSize - 1) /\ cbIoBuffer \in 0..BufSize
    /\ scRet \in {"continue", "incomplete"} /\ fDoRead \in BOOLEAN
    /\ newCreds \in BOOLEAN /\ tokens \in Nat /\ m_encrypting \in BOOLEAN
    /\ plainText \in Seq(Nat) /\ received \in Seq(Nat) /\ want \in Nat
    /\ written \in Seq(Nat) /\ result \in Int

\* What callers of Recv have got, followed by what is cached, is the plaintext of
\* the records taken so far: every byte, once and in order, however TCP cut or
\* merged the records, whatever lengths were asked for, across timeouts and
\* retries, and with data that came along with the handshake. It stays so when
\* operations are mixed: what is then wrong in the buffer does not decrypt.
StreamExact == received \o plainText = Positions(0, TextEnd(rs, seen))

\* Only an undecryptable record is reported as one: as long as the session
\* lives and no call was begun over an operation under way, the bytes Schannel is
\* given are the next ones of the stream, and a read that a timeout left active
\* writes behind them. A move of the buffer or a read that lands in the wrong cell
\* would break this.
BufferIntact ==
    /\ pc \in {"negotiate", "token"} =>
        /\ Intact(0, cbIoBuffer) /\ taken = WireEnd(rs, seen) + cbIoBuffer
    /\ pc \in {"idle", "decrypt", "waiting", "sending"} /\ m_encrypting /\ mixed = 0 =>
        /\ Intact(readPtr, readBufferBytes)
        /\ taken = WireEnd(rs, seen) + readBufferBytes
        /\ left # None => left = readPtr + readBufferBytes

\* The socket is waited for only when the next record is not complete in the
\* buffer: no record sits there while the caller waits for the server, as long as no
\* call was begun over an operation under way.
WaitsOnlyForMissing ==
    /\ pc = "waiting" /\ mixed = 0 => Incomplete(readBufferBytes)
    /\ pc = "negotiate" /\ NeedsRead /\ fDoRead => Incomplete(cbIoBuffer)

\* "which ought to always be true at this point": when a record is incomplete
\* there is room to read more of it, in the handshake and, until a call is begun over
\* an operation under way, after it.
RoomForMore ==
    /\ pc = "decrypt" /\ Incomplete(readBufferBytes) /\ mixed = 0 => ~Full
    /\ pc = "negotiate" /\ NeedsRead /\ fDoRead => cbIoBuffer < BufSize

\* Nothing is encrypted for a server, and no answer to its certificate leaves,
\* unless the certificate was accepted.
NoAnswerToStranger == tokens > 1 \/ m_encrypting => s.accept

\* The call that runs. The handshake is over before there are calls.
Calling ==
    CASE pc \in {"decrypt", "waiting"} -> "recv"
      [] pc = "sending" -> "send"
      [] pc = "idle" /\ writing -> "late"
      [] OTHER -> "none"

Stream == INSTANCE ByteStream WITH
    limit <- TextEnd(rs, Len(rs)), calling <- Calling, asked <- want, got <- received,
    put <- written, answer <- result, misused <- mixed > 0

\* A session is the same stream to its owner as a plain socket is: no Recv
\* returns more than it was asked for, each continues where the last one ended,
\* whatever records, caches, timeouts and failures lie between them, and Send is
\* all or error, up to the first call begun over an operation still under way.
GivesStream == Stream!SSpec

\* What makes these inductive: what is still untouched during the handshake,
Untouched ==
    /\ pc \in {"start", "negotiate", "token"} =>
        /\ ~m_encrypting /\ ~writing /\ mixed = 0
        /\ readPtr = 0 /\ readBufferBytes = 0 /\ left = None
        /\ plainText = <<>> /\ received = <<>>
    /\ pc = "start" => taken = 0 /\ seen = 0 /\ cbIoBuffer = 0 /\ scRet = "continue"
    /\ pc = "negotiate" /\ scRet = "incomplete" => Incomplete(cbIoBuffer)

\* what a Send has handed over, and what may still leave behind one that failed,
SendPhase ==
    /\ pc = "sending" \/ (writing /\ mixed = 0) =>
        written = Positions(0, Len(written)) /\ Len(written) <= want
    /\ writing /\ mixed = 0 => pc = "idle"

\* and what holds at each place of Recv. The socket is read, and a read left active,
\* only when the buffer does not give a record, so that nothing is taken out of it
\* meanwhile.
RecvPhase ==
    /\ pc \in {"decrypt", "waiting", "sending"} => m_encrypting
    /\ pc \in {"decrypt", "waiting"} => plainText = <<>>
    /\ pc = "waiting" => readPtr + readBufferBytes < BufSize
    /\ m_encrypting /\ left # None => left = readPtr + readBufferBytes
    /\ pc = "waiting" \/ (m_encrypting /\ left # None) =>
        Incomplete(readBufferBytes) \/ ~Authentic(readBufferBytes)
    /\ taken <= WireEnd(rs, Len(rs))

Phases == Untouched /\ SendPhase /\ RecvPhase

\* A handshake ends and every Recv and Send returns. (A Recv whose os a write took may
\* wait for that write as long as it lasts.)
CallReturns == pc # "idle" ~> pc \in {"idle", "failed"} \/ mixed > 0
=============================================================================
