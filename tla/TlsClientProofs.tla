-------------------------- MODULE TlsClientProofs --------------------------
(***************************************************************************)
(* Theorems about TlsClient, for every buffer that holds a record, every   *)
(* script of records and every way TCP cuts them.                          *)
(***************************************************************************)
EXTENDS TlsClient, WellFoundedInduction, SequenceTheorems, TLAPS

\* Every non-empty set of naturals has a least element.
LEMMA LeastElement ==
    ASSUME NEW S \in SUBSET Nat, S # {}
    PROVE  \E i \in S : \A j \in S : i <= j
<1> DEFINE Less == OpToRel(<, Nat)
<1>1. PICK i \in S : \A j \in S : ~(<<j, i>> \in Less)
  BY NatLessThanWellFounded, WFMin
<1>2. \A j \in S : ~(j < i)
  BY <1>1, Zenon DEF OpToRel
<1> QED
  BY <1>2

-----------------------------------------------------------------------------
(* The script of a session *)

LEMMA SessionFields ==
    ASSUME NEW x \in Sessions
    PROVE  /\ x.records \in Seq(Record)
           /\ Len(x.records) \in Nat
           /\ x.accept \in BOOLEAN
           /\ WellFormed(x.records)
<1>1. x \in Session
  BY TlsAssumption
<1> QED
  BY <1>1, TlsAssumption DEF Session

LEMMA RecordFields ==
    ASSUME NEW x \in Sessions, NEW i \in 1..Len(x.records)
    PROVE  /\ x.records[i] \in Record
           /\ x.records[i].at \in Nat /\ x.records[i].text \in Nat
           /\ x.records[i].size \in Nat /\ x.records[i].size > 0
           /\ x.records[i].size <= BufSize
           /\ x.records[i].len \in Nat
           /\ x.records[i].reply \in BOOLEAN
           /\ x.records[i].kind # "data" => x.records[i].len = 0
<1>1. x.records[i] \in Record
  BY SessionFields
<1>2. x.records[i].size <= BufSize /\ (x.records[i].kind # "data" => x.records[i].len = 0)
  BY SessionFields DEF WellFormed
<1>3. x.records[i].size \in Nat /\ x.records[i].size > 0
  BY <1>1 DEF Record
<1> QED
  BY <1>1, <1>2, <1>3 DEF Record

\* Record i ends where record i - 1 ended, and its own size.
LEMMA EndOfRecord ==
    ASSUME NEW x \in Sessions, NEW i \in 1..Len(x.records)
    PROVE  /\ WireEnd(x.records, i) = WireEnd(x.records, i - 1) + x.records[i].size
           /\ TextEnd(x.records, i) = TextEnd(x.records, i - 1) + x.records[i].len
<1>1. /\ x.records[i].at = WireEnd(x.records, i - 1)
      /\ x.records[i].text = TextEnd(x.records, i - 1)
  BY SessionFields DEF WellFormed
<1> QED
  BY <1>1 DEF WireEnd, TextEnd

LEMMA EndsAreNumbers ==
    ASSUME NEW x \in Sessions, NEW i \in 0..Len(x.records)
    PROVE  WireEnd(x.records, i) \in Nat /\ TextEnd(x.records, i) \in Nat
<1>1. CASE i = 0
  BY <1>1 DEF WireEnd, TextEnd
<1>2. CASE i # 0
  <2>1. i \in 1..Len(x.records)
    BY <1>2, SessionFields
  <2> QED
    BY <1>2, <2>1, RecordFields DEF WireEnd, TextEnd
<1> QED
  BY <1>1, <1>2

\* A later record ends later on the wire. The least one that does not would end
\* before its predecessor.
LEMMA WireEndGrows ==
    ASSUME NEW x \in Sessions, NEW i \in 0..Len(x.records), NEW j \in i..Len(x.records)
    PROVE  WireEnd(x.records, i) <= WireEnd(x.records, j)
<1> DEFINE S == {k \in i..Len(x.records) : ~(WireEnd(x.records, i) <= WireEnd(x.records, k))}
<1>0. i \in Nat /\ Len(x.records) \in Nat
  BY SessionFields
<1>1. SUFFICES ASSUME S # {} PROVE FALSE
  BY <1>0
<1>2. S \in SUBSET Nat
  BY <1>0
<1> HIDE DEF S
<1>3. PICK k \in S : \A l \in S : k <= l
  BY <1>1, <1>2, LeastElement
<1> USE DEF S
<1>4. k \in i..Len(x.records) /\ k # i
  <2>1. WireEnd(x.records, i) \in Nat
    BY EndsAreNumbers
  <2> QED
    BY <1>3, <2>1
<1>5. k - 1 \in i..Len(x.records) /\ k \in 1..Len(x.records) /\ k - 1 \in 0..Len(x.records)
  BY <1>0, <1>4
<1>6. k - 1 \notin S
  BY <1>0, <1>3, <1>4
<1>7. WireEnd(x.records, i) <= WireEnd(x.records, k - 1)
  BY <1>5, <1>6
<1>8. WireEnd(x.records, k) = WireEnd(x.records, k - 1) + x.records[k].size
  BY <1>5, EndOfRecord
<1>9. /\ WireEnd(x.records, i) \in Nat /\ WireEnd(x.records, k - 1) \in Nat
      /\ x.records[k].size \in Nat
  BY <1>5, EndsAreNumbers, RecordFields
<1> QED
  BY <1>3, <1>7, <1>8, <1>9

\* Records without plaintext leave the plaintext where it was.
LEMMA TextEndStays ==
    ASSUME NEW x \in Sessions, NEW i \in 0..Len(x.records), NEW j \in i..Len(x.records),
           \A k \in (i + 1)..j : x.records[k].kind # "data"
    PROVE  TextEnd(x.records, j) = TextEnd(x.records, i)
<1> DEFINE S == {k \in i..j : TextEnd(x.records, k) # TextEnd(x.records, i)}
<1>0. i \in Nat /\ j \in Nat /\ Len(x.records) \in Nat
  BY SessionFields
<1>1. SUFFICES ASSUME S # {} PROVE FALSE
  BY <1>0
<1>2. S \in SUBSET Nat
  BY <1>0
<1> HIDE DEF S
<1>3. PICK k \in S : \A l \in S : k <= l
  BY <1>1, <1>2, LeastElement
<1> USE DEF S
<1>4. k \in i..j /\ k # i
  BY <1>3
<1>5. k - 1 \in i..j /\ k \in 1..Len(x.records) /\ k - 1 \in 0..Len(x.records) /\ k \in (i + 1)..j
  BY <1>0, <1>4
<1>6. TextEnd(x.records, k - 1) = TextEnd(x.records, i)
  <2>1. k - 1 \notin S
    BY <1>0, <1>3, <1>4
  <2> QED
    BY <2>1, <1>5
<1>7. TextEnd(x.records, k) = TextEnd(x.records, k - 1) + x.records[k].len
  BY <1>5, EndOfRecord
<1>8. x.records[k].len = 0
  BY <1>5, RecordFields
<1>9. TextEnd(x.records, k - 1) \in Nat
  BY <1>5, EndsAreNumbers
<1> QED
  BY <1>3, <1>6, <1>7, <1>8, <1>9

\* A later record ends no earlier in the plaintext, by the same argument.
LEMMA TextEndGrows ==
    ASSUME NEW x \in Sessions, NEW i \in 0..Len(x.records), NEW j \in i..Len(x.records)
    PROVE  TextEnd(x.records, i) <= TextEnd(x.records, j)
<1> DEFINE S == {k \in i..Len(x.records) : ~(TextEnd(x.records, i) <= TextEnd(x.records, k))}
<1>0. i \in Nat /\ Len(x.records) \in Nat
  BY SessionFields
<1>1. SUFFICES ASSUME S # {} PROVE FALSE
  BY <1>0
<1>2. S \in SUBSET Nat
  BY <1>0
<1> HIDE DEF S
<1>3. PICK k \in S : \A l \in S : k <= l
  BY <1>1, <1>2, LeastElement
<1> USE DEF S
<1>4. k \in i..Len(x.records) /\ k # i
  <2>1. TextEnd(x.records, i) \in Nat
    BY EndsAreNumbers
  <2> QED
    BY <1>3, <2>1
<1>5. k - 1 \in i..Len(x.records) /\ k \in 1..Len(x.records) /\ k - 1 \in 0..Len(x.records)
  BY <1>0, <1>4
<1>6. TextEnd(x.records, i) <= TextEnd(x.records, k - 1)
  <2>1. k - 1 \notin S
    BY <1>0, <1>3, <1>4
  <2> QED
    BY <1>5, <2>1
<1>7. TextEnd(x.records, k) = TextEnd(x.records, k - 1) + x.records[k].len
  BY <1>5, EndOfRecord
<1>8. /\ TextEnd(x.records, i) \in Nat /\ TextEnd(x.records, k - 1) \in Nat
      /\ x.records[k].len \in Nat
  BY <1>5, EndsAreNumbers, RecordFields
<1> QED
  BY <1>3, <1>6, <1>7, <1>8

-----------------------------------------------------------------------------
(* The read buffer *)

LEMMA Basics ==
    ASSUME TypeOK
    PROVE  /\ rs = s.records /\ s \in Sessions
           /\ Len(rs) \in Nat /\ seen \in 0..Len(rs) /\ Len(rs) \in 0..Len(rs)
           /\ WireEnd(rs, seen) \in Nat /\ WireEnd(rs, Len(rs)) \in Nat
           /\ BufSize \in Nat /\ BufSize > 0
           /\ taken \in Nat
           /\ readPtr \in Nat /\ readPtr < BufSize
           /\ readBufferBytes \in Nat /\ readPtr + readBufferBytes <= BufSize
           /\ cbIoBuffer \in Nat /\ cbIoBuffer <= BufSize
           /\ None = -1
<1>1. s \in Sessions /\ Len(s.records) \in Nat
  BY SessionFields DEF TypeOK
<1>2. seen \in 0..Len(rs) /\ Len(rs) \in 0..Len(rs)
  BY <1>1 DEF TypeOK, rs
<1>3. WireEnd(rs, seen) \in Nat /\ WireEnd(rs, Len(rs)) \in Nat
  BY <1>1, <1>2, EndsAreNumbers DEF rs
<1>4. BufSize \in Nat /\ BufSize > 0
  BY TlsAssumption
<1> QED
  BY <1>1, <1>2, <1>3, <1>4 DEF TypeOK, rs, None

\* The numbers of the read buffer.
LEMMA Bounds ==
    ASSUME TypeOK
    PROVE  /\ BufSize \in Nat /\ BufSize > 0 /\ taken \in Nat
           /\ readPtr \in Nat /\ readPtr < BufSize
           /\ readBufferBytes \in Nat /\ readPtr + readBufferBytes <= BufSize
           /\ cbIoBuffer \in Nat /\ cbIoBuffer <= BufSize
BY Basics

\* What the handshake's Schannel did not take is a part of what it was given.
LEMMA TakesRest ==
    ASSUME TypeOK, NEW m \in 1..Len(rs), Takes(m)
    PROVE  /\ seen + m \in 0..Len(rs)
           /\ WireEnd(rs, seen + m) \in Nat
           /\ Extra(m, cbIoBuffer) \in 0..cbIoBuffer
           /\ WireEnd(rs, seen + m) = WireEnd(rs, seen) + (cbIoBuffer - Extra(m, cbIoBuffer))
<1>1. seen + m \in 0..Len(rs) /\ seen + m \in seen..Len(rs) /\ seen \in 0..Len(rs)
  BY Basics DEF Takes
<1>2. WireEnd(rs, seen + m) \in Nat
  BY <1>1, Basics, EndsAreNumbers
<1>3. WireEnd(rs, seen) <= WireEnd(rs, seen + m)
  BY <1>1, Basics, WireEndGrows
<1>4. WireEnd(rs, seen + m) - WireEnd(rs, seen) <= cbIoBuffer
  BY DEF Takes
<1> QED
  BY <1>1, <1>2, <1>3, <1>4, Basics DEF Extra

\* n bytes that are complete hold the next record.
LEMMA NextRecord ==
    ASSUME TypeOK, NEW n \in Nat, ~Incomplete(n)
    PROVE  /\ seen + 1 \in 1..Len(rs)
           /\ rs[seen + 1].size \in 1..n
           /\ rs[seen + 1].len \in Nat
           /\ rs[seen + 1].text = TextEnd(rs, seen)
           /\ WireEnd(rs, seen + 1) = WireEnd(rs, seen) + rs[seen + 1].size
           /\ TextEnd(rs, seen + 1) = TextEnd(rs, seen) + rs[seen + 1].len
           /\ Extra(1, n) = n - rs[seen + 1].size
<1>0. seen \in Nat /\ Len(rs) \in Nat /\ WireEnd(rs, seen) \in Nat
  BY Basics
<1>a. seen < Len(rs) /\ ~(n < rs[seen + 1].size)
  BY Zenon DEF Incomplete
<1>1. seen + 1 \in 1..Len(rs) /\ (seen + 1) - 1 = seen
  BY <1>0, <1>a
<1>2. /\ rs[seen + 1].size \in Nat /\ rs[seen + 1].size > 0
      /\ rs[seen + 1].len \in Nat
  BY <1>1, Basics, RecordFields
<1>3. /\ WireEnd(rs, seen + 1) = WireEnd(rs, seen) + rs[seen + 1].size
      /\ TextEnd(rs, seen + 1) = TextEnd(rs, seen) + rs[seen + 1].len
  BY <1>1, Basics, EndOfRecord
<1>4. rs[seen + 1].text = TextEnd(rs, seen)
  BY <1>1, Basics, SessionFields DEF WellFormed
<1>5. rs[seen + 1].size \in 1..n
  BY <1>a, <1>2
<1>6. Extra(1, n) = n - rs[seen + 1].size
  BY <1>0, <1>2, <1>3 DEF Extra
<1> QED
  BY <1>1, <1>2, <1>3, <1>4, <1>5, <1>6

\* A move takes n bytes to the start of the buffer.
LEMMA MovedDownCells ==
    ASSUME TypeOK, NEW p \in Nat, NEW n \in Nat, p + n <= BufSize
    PROVE  /\ MovedDown(p, n) \in [0..(BufSize - 1) -> Int]
           /\ \A k \in 0..(n - 1) : MovedDown(p, n)[k] = readBuffer[p + k]
<1>1. readBuffer \in [0..(BufSize - 1) -> Int] /\ BufSize \in Nat
  BY Basics DEF TypeOK
<1>2. DOMAIN readBuffer = 0..(BufSize - 1)
  BY <1>1
<1>3. \A i \in 0..(BufSize - 1) : i < n => p + i \in 0..(BufSize - 1)
  BY <1>1
<1>4. MovedDown(p, n) = [i \in 0..(BufSize - 1) |-> IF i < n THEN readBuffer[p + i] ELSE readBuffer[i]]
  BY <1>2 DEF MovedDown
<1>5. MovedDown(p, n) \in [0..(BufSize - 1) -> Int]
  BY <1>1, <1>3, <1>4
<1>6. \A k \in 0..(n - 1) : k \in 0..(BufSize - 1) /\ k < n
  BY <1>1
<1> QED
  BY <1>4, <1>5, <1>6

\* A read writes the next bytes of the stream behind p and nothing else.
LEMMA FilledCells ==
    ASSUME TypeOK, NEW p \in Nat, NEW k \in Nat, p + k <= BufSize
    PROVE  /\ Filled(p, k) \in [0..(BufSize - 1) -> Int]
           /\ \A i \in 0..(k - 1) : Filled(p, k)[p + i] = taken + i
           /\ \A i \in 0..(p - 1) : Filled(p, k)[i] = readBuffer[i]
<1>1. readBuffer \in [0..(BufSize - 1) -> Int] /\ BufSize \in Nat /\ taken \in Nat
  BY Basics DEF TypeOK
<1>2. DOMAIN readBuffer = 0..(BufSize - 1)
  BY <1>1
<1>3. Filled(p, k) =
        [i \in 0..(BufSize - 1) |->
            IF i \in p..(p + k - 1) THEN taken + (i - p) ELSE readBuffer[i]]
  BY <1>2 DEF Filled
<1>4. Filled(p, k) \in [0..(BufSize - 1) -> Int]
  BY <1>1, <1>3
<1>5. ASSUME NEW i \in 0..(k - 1) PROVE Filled(p, k)[p + i] = taken + i
  <2>1. /\ p + i \in 0..(BufSize - 1) /\ p + i \in p..(p + k - 1)
        /\ (p + i) - p = i
    BY <1>1
  <2> QED
    BY <1>3, <2>1
<1>6. ASSUME NEW i \in 0..(p - 1) PROVE Filled(p, k)[i] = readBuffer[i]
  <2>1. i \in 0..(BufSize - 1) /\ i \notin p..(p + k - 1)
    BY <1>1
  <2> QED
    BY <1>3, <2>1
<1> QED
  BY <1>4, <1>5, <1>6

\* Bytes read behind n intact ones make n + k intact ones.
LEMMA FilledIntact ==
    ASSUME TypeOK, NEW p \in Nat, NEW n \in Nat, NEW k \in Nat, p + n + k <= BufSize,
           Intact(p, n), taken = WireEnd(rs, seen) + n,
           readBuffer' = Filled(p + n, k)
    PROVE  \A i \in 0..((n + k) - 1) : readBuffer'[p + i] = WireEnd(rs, seen) + i
<1>1. /\ \A i \in 0..(k - 1) : readBuffer'[(p + n) + i] = taken + i
      /\ \A i \in 0..((p + n) - 1) : readBuffer'[i] = readBuffer[i]
  <2>1. p + n \in Nat /\ (p + n) + k <= BufSize
    OBVIOUS
  <2> QED
    BY <2>1, FilledCells
<1>2. \A i \in 0..(n - 1) : readBuffer[p + i] = WireEnd(rs, seen) + i
  BY DEF Intact
<1>3. ASSUME NEW i \in 0..((n + k) - 1) PROVE readBuffer'[p + i] = WireEnd(rs, seen) + i
  <2>1. CASE i < n
    BY <2>1, <1>1, <1>2
  <2>2. CASE i >= n
    <3>1. i - n \in 0..(k - 1) /\ (p + n) + (i - n) = p + i
      BY <2>2
    <3>2. readBuffer'[p + i] = taken + (i - n)
      BY <1>1, <3>1
    <3>3. WireEnd(rs, seen) \in Nat
      BY Basics
    <3> QED
      BY <3>2, <3>3
  <2> QED
    BY <2>1, <2>2
<1> QED
  BY <1>3

\* The last n of intact bytes, moved to the front, are intact for the next record.
LEMMA MovedIntact ==
    ASSUME TypeOK, NEW p \in Nat, NEW d \in Nat, NEW n \in Nat, p + d + n <= BufSize,
           Intact(p, d + n), readBuffer' = MovedDown(p + d, n)
    PROVE  \A k \in 0..(n - 1) : readBuffer'[k] = WireEnd(rs, seen) + (d + k)
<1>1. \A k \in 0..(n - 1) : readBuffer'[k] = readBuffer[(p + d) + k]
  BY MovedDownCells
<1>2. \A k \in 0..((d + n) - 1) : readBuffer[p + k] = WireEnd(rs, seen) + k
  BY DEF Intact
<1>3. ASSUME NEW k \in 0..(n - 1) PROVE readBuffer'[k] = WireEnd(rs, seen) + (d + k)
  <2>1. d + k \in 0..((d + n) - 1) /\ p + (d + k) = (p + d) + k
    OBVIOUS
  <2>2. readBuffer[(p + d) + k] = WireEnd(rs, seen) + (d + k)
    BY <1>2, <2>1
  <2> QED
    BY <1>1, <2>2
<1> QED
  BY <1>3

-----------------------------------------------------------------------------
(* One step *)

\* The buffer is moved only when it must be, and then there is room.
LEMMA RoomMade ==
    ASSUME TypeOK, MakeRoom
    PROVE  /\ readBuffer' \in [0..(BufSize - 1) -> Int]
           /\ readPtr' \in 0..readPtr
           /\ FreeAtEnd # 0 => readPtr' = readPtr /\ readBuffer' = readBuffer
           /\ FreeAtEnd = 0 => readPtr' = 0 /\ readBufferBytes = BufSize - readPtr
           /\ pc' = "waiting" => readPtr' + readBufferBytes < BufSize
           /\ pc' \in {"idle", "waiting"}
           /\ result' \in Int
<1>1. /\ BufSize \in Nat /\ readPtr \in Nat /\ readPtr < BufSize
      /\ readBufferBytes \in Nat /\ readPtr + readBufferBytes <= BufSize
  BY Basics
<1>2. MovedDown(readPtr, BufSize - readPtr) \in [0..(BufSize - 1) -> Int]
  <2>1. BufSize - readPtr \in Nat /\ readPtr + (BufSize - readPtr) <= BufSize
    BY <1>1
  <2> QED
    BY <2>1, <1>1, MovedDownCells
<1>3. readBuffer \in [0..(BufSize - 1) -> Int] /\ result \in Int /\ None \in Int
  BY DEF TypeOK, None
<1>4. CASE FreeAtEnd = 0
  <2>1. readBufferBytes = BufSize - readPtr
    BY <1>1, <1>4 DEF FreeAtEnd
  <2>2. readPtr' = 0 /\ readBuffer' = MovedDown(readPtr, BufSize - readPtr)
    BY <1>4 DEF MakeRoom
  <2>3. readPtr = 0 => pc' = "idle"
    BY <1>4 DEF MakeRoom, Full
  <2>4. pc' \in {"idle", "waiting"} /\ result' \in Int
    BY <1>3 DEF MakeRoom
  <2> QED
    BY <1>1, <1>2, <1>4, <2>1, <2>2, <2>3, <2>4
<1>5. CASE FreeAtEnd # 0
  <2>1. readPtr' = readPtr /\ readBuffer' = readBuffer
    BY <1>5 DEF MakeRoom
  <2>2. readPtr + readBufferBytes < BufSize
    BY <1>1, <1>5 DEF FreeAtEnd
  <2>3. pc' \in {"idle", "waiting"} /\ result' \in Int
    BY <1>3 DEF MakeRoom
  <2> QED
    BY <1>1, <1>3, <1>5, <2>1, <2>2, <2>3
<1> QED
  BY <1>4, <1>5

\* A read of the handshake, and of Recv, stays inside the buffer.
LEMMA ReadInside ==
    ASSUME TypeOK, NEW p \in Nat, NEW room \in Int, p + room <= BufSize, NEW k \in Arrivals(room)
    PROVE  /\ k \in Nat /\ k > 0 /\ p + k <= BufSize
           /\ taken + k <= WireEnd(rs, Len(rs))
           /\ Filled(p, k) \in [0..(BufSize - 1) -> Int]
<1>1. k \in 1..room /\ taken + k <= WireEnd(rs, Len(rs))
  BY DEF Arrivals
<1>2. k \in Nat /\ k > 0 /\ p + k <= BufSize
  BY <1>1, Basics
<1> QED
  BY <1>1, <1>2, FilledCells

\* Where the next read of Recv goes.
LEMMA TargetIsNext ==
    ASSUME TypeOK, Phases, pc = "waiting"
    PROVE  /\ Target = readPtr + readBufferBytes
           /\ Target \in 0..(BufSize - 1)
           /\ m_encrypting
<1>1. m_encrypting /\ readPtr + readBufferBytes < BufSize
  BY DEF Phases, Untouched, SendPhase, RecvPhase
<1>2. left # None => left = readPtr + readBufferBytes
  BY <1>1 DEF Phases, Untouched, SendPhase, RecvPhase
<1>3. Target = readPtr + readBufferBytes
  BY <1>2 DEF Target
<1> QED
  BY <1>1, <1>3, Basics

\* Schannel is given the next bytes of the stream as long as the buffer has them.
LEMMA IntactIsAuthentic ==
    ASSUME TypeOK, Intact(readPtr, readBufferBytes)
    PROVE  Authentic(readBufferBytes)
<1> DEFINE n == IF Incomplete(readBufferBytes) THEN readBufferBytes ELSE rs[seen + 1].size
<1>1. readBufferBytes \in Nat
  BY Bounds
<1>2. n \in 0..readBufferBytes
  <2>1. CASE Incomplete(readBufferBytes)
    BY <1>1, <2>1
  <2>2. CASE ~Incomplete(readBufferBytes)
    <3>1. rs[seen + 1].size \in 1..readBufferBytes
      BY <1>1, <2>2, NextRecord
    <3> QED
      BY <1>1, <2>2, <3>1
  <2> QED
    BY <2>1, <2>2
<1> HIDE DEF n
<1>3. \A k \in 0..(n - 1) : k \in 0..(readBufferBytes - 1)
  BY <1>1, <1>2
<1>4. Intact(readPtr, n)
  BY <1>3 DEF Intact
<1> QED
  BY <1>4 DEF n, Authentic

\* A move of the buffer makes no record of bytes that were none.
LEMMA AuthenticMoved ==
    ASSUME TypeOK, MakeRoom, UNCHANGED <<s, seen, readBufferBytes>>,
           Authentic(readBufferBytes)'
    PROVE  Authentic(readBufferBytes)
<1> DEFINE n == IF Incomplete(readBufferBytes) THEN readBufferBytes ELSE rs[seen + 1].size
<1>1. readBufferBytes \in Nat /\ readPtr \in Nat /\ BufSize \in Nat
  BY Bounds
<1>2. n \in 0..readBufferBytes
  <2>1. CASE Incomplete(readBufferBytes)
    BY <1>1, <2>1
  <2>2. CASE ~Incomplete(readBufferBytes)
    <3>1. rs[seen + 1].size \in 1..readBufferBytes
      BY <1>1, <2>2, NextRecord
    <3> QED
      BY <1>1, <2>2, <3>1
  <2> QED
    BY <2>1, <2>2
<1>3. rs' = rs /\ n' = n
  BY DEF rs, Incomplete
<1>4. Intact(readPtr, n)'
  BY <1>3, Zenon DEF Authentic
<1> HIDE DEF n
<1>5. \A k \in 0..(n - 1) : readBuffer'[readPtr' + k] = WireEnd(rs, seen) + k
  BY <1>3, <1>4 DEF Intact
<1>6. \A k \in 0..(n - 1) : readBuffer[readPtr + k] = readBuffer'[readPtr' + k]
  <2>1. CASE FreeAtEnd # 0
    BY <2>1, RoomMade
  <2>2. CASE FreeAtEnd = 0
    <3>1. readPtr' = 0 /\ readBufferBytes = BufSize - readPtr
      BY <2>2, RoomMade
    <3>2. readBuffer' = MovedDown(readPtr, readBufferBytes)
      BY <2>2, <3>1 DEF MakeRoom
    <3>3. readPtr + readBufferBytes <= BufSize
      BY Bounds
    <3>4. \A k \in 0..(readBufferBytes - 1) : readBuffer'[k] = readBuffer[readPtr + k]
      BY <1>1, <3>2, <3>3, MovedDownCells
    <3>5. \A k \in 0..(n - 1) : k \in 0..(readBufferBytes - 1) /\ readPtr' + k = k
      BY <1>1, <1>2, <3>1
    <3> QED
      BY <3>4, <3>5
  <2> QED
    BY <2>1, <2>2
<1>7. Intact(readPtr, n)
  BY <1>5, <1>6 DEF Intact
<1> QED
  BY <1>7 DEF n, Authentic

\* What is mixed stays mixed.
LEMMA MixedStays ==
    ASSUME TypeOK, [Next]_vars
    PROVE  /\ mixed' \in 0..MaxMixed /\ mixed \in Nat
           /\ mixed' = 0 => mixed = 0
<1>1. mixed \in 0..MaxMixed /\ MaxMixed \in Nat
  BY TlsAssumption DEF TypeOK
<1>2. CASE UNCHANGED mixed
  BY <1>1, <1>2
<1>3. CASE \E read \in BOOLEAN : Crosses(read)
  BY <1>1, <1>3 DEF Crosses
<1>4. CASE RecvMistaken
  BY <1>1, <1>4 DEF RecvMistaken
<1>5. CASE Hello \/ HandshakeRead \/ HandshakeReadFails \/ HandshakeNoRead \/ TokenIncomplete
            \/ TokenAsks \/ TokenContinue \/ TokenDone \/ TokenFails
  BY <1>2, <1>5 DEF Hello, HandshakeRead, HandshakeReadFails, HandshakeNoRead, TokenIncomplete,
                    TokenAsks, TokenContinue, TokenDone, TokenFails, cross
<1>6. CASE RecvRead \/ RecvReadFails \/ RecvEnds \/ DecryptIncomplete \/ DecryptData \/ DecryptClose
            \/ DecryptFails \/ SendChunk \/ SendFails \/ WriteEnds
  BY <1>2, <1>6 DEF RecvRead, RecvReadFails, RecvEnds, DecryptIncomplete, DecryptData, DecryptClose,
                    DecryptFails, SendChunk, SendFails, WriteEnds, cross
<1>7. CASE Caller
  <2>1. \E read \in BOOLEAN : Crosses(read)
    BY <1>7 DEF Caller, RecvRefused, SendRefused, RecvCached, RecvBegin, SendBegin
  <2> QED
    BY <1>3, <2>1
<1>8. CASE UNCHANGED vars
  BY <1>2, <1>8 DEF vars, cross
<1> QED
  BY <1>4, <1>5, <1>6, <1>7, <1>8 DEF Next, Handler

\* The flag of the write that a failed Send has left.
LEMMA WritingTyped ==
    ASSUME TypeOK, [Next]_vars
    PROVE  writing' \in BOOLEAN
<1>1. writing \in BOOLEAN
  BY DEF TypeOK
<1>2. CASE UNCHANGED writing
  BY <1>1, <1>2
<1>3. CASE SendFails \/ WriteEnds
  BY <1>1, <1>3, Zenon DEF SendFails, WriteEnds
<1>4. CASE Hello \/ HandshakeRead \/ HandshakeReadFails \/ HandshakeNoRead \/ TokenIncomplete
            \/ TokenAsks \/ TokenContinue \/ TokenDone \/ TokenFails
  BY <1>2, <1>4 DEF Hello, HandshakeRead, HandshakeReadFails, HandshakeNoRead, TokenIncomplete,
                    TokenAsks, TokenContinue, TokenDone, TokenFails, cross
<1>5. CASE RecvRead \/ RecvReadFails \/ RecvMistaken \/ RecvEnds \/ DecryptIncomplete
            \/ DecryptData \/ DecryptClose \/ DecryptFails \/ SendChunk
  BY <1>2, <1>5 DEF RecvRead, RecvReadFails, RecvMistaken, RecvEnds, DecryptIncomplete,
                    DecryptData, DecryptClose, DecryptFails, SendChunk, cross
<1>6. CASE Caller
  BY <1>2, <1>6 DEF Caller, RecvRefused, SendRefused, RecvCached, RecvBegin, SendBegin, Crosses
<1>7. CASE UNCHANGED vars
  BY <1>2, <1>7 DEF vars, cross
<1> QED
  BY <1>3, <1>4, <1>5, <1>6, <1>7 DEF Next, Handler

\* Positions are a sequence of numbers.
LEMMA PositionsType ==
    ASSUME NEW a \in Nat, NEW n \in Nat
    PROVE  Positions(a, n) \in Seq(Nat) /\ Len(Positions(a, n)) = n
BY DEF Positions

\* Positions that follow each other.
LEMMA PositionsJoin ==
    ASSUME NEW a \in Nat, NEW n \in Nat, NEW m \in Nat
    PROVE  Positions(a, n) \o Positions(a + n, m) = Positions(a, n + m)
<1> DEFINE p == Positions(a, n)
           q == Positions(a + n, m)
           t == Positions(a, n + m)
<1>1. /\ p \in Seq(Nat) /\ Len(p) = n /\ q \in Seq(Nat) /\ Len(q) = m
      /\ t \in Seq(Nat) /\ Len(t) = n + m
  <2>1. a + n \in Nat /\ n + m \in Nat
    OBVIOUS
  <2> QED
    BY <2>1, PositionsType
<1>2. /\ \A i \in 1..n : p[i] = a + i
      /\ \A i \in 1..m : q[i] = (a + n) + i
      /\ \A i \in 1..(n + m) : t[i] = a + i
  BY DEF Positions
<1> HIDE DEF p, q, t
<1>3. /\ p \o q \in Seq(Nat) /\ Len(p \o q) = n + m
      /\ \A i \in 1..(n + m) : (p \o q)[i] = IF i <= n THEN p[i] ELSE q[i - n]
  BY <1>1, ConcatProperties
<1>4. ASSUME NEW i \in 1..(n + m) PROVE (p \o q)[i] = t[i]
  <2>1. CASE i <= n
    BY <1>2, <1>3, <2>1
  <2>2. CASE ~(i <= n)
    <3>1. i - n \in 1..m
      BY <2>2
    <3> QED
      BY <1>2, <1>3, <2>2, <3>1
  <2> QED
    BY <2>1, <2>2
<1>5. p \o q = t
  BY <1>1, <1>3, <1>4, SeqEqual
<1> QED
  BY <1>5 DEF p, q, t

\* A slice of a sequence of numbers that begins and ends inside it.
LEMMA NumbersSlice ==
    ASSUME NEW q \in Seq(Nat), NEW a \in 1..(Len(q) + 1), NEW b \in 0..Len(q)
    PROVE  SubSeq(q, a, b) \in Seq(Nat)
<1>1. \A i \in a..b : q[i] \in Nat
  BY LenProperties
<1> QED
  BY <1>1, SubSeqProperties

\* A sequence of numbers cut in two.
LEMMA NumbersCut ==
    ASSUME NEW q \in Seq(Nat), NEW n \in 0..Len(q)
    PROVE  /\ SubSeq(q, 1, n) \in Seq(Nat) /\ SubSeq(q, n + 1, Len(q)) \in Seq(Nat)
           /\ SubSeq(q, 1, n) \o SubSeq(q, n + 1, Len(q)) = q
<1> DEFINE a == SubSeq(q, 1, n)
           b == SubSeq(q, n + 1, Len(q))
           L == Len(q)
<1>0. L \in Nat /\ n \in Nat /\ n <= L
  OBVIOUS
<1>1. a \in Seq(Nat) /\ b \in Seq(Nat)
  <2>1. 1 \in 1..(Len(q) + 1) /\ n + 1 \in 1..(Len(q) + 1) /\ Len(q) \in 0..Len(q)
    BY <1>0
  <2> QED
    BY <2>1, NumbersSlice
<1>2. /\ Len(a) = n /\ \A i \in 1..n : a[i] = q[i]
      /\ Len(b) = L - n /\ \A i \in 1..(L - n) : b[i] = q[n + i]
  BY <1>0
<1> HIDE DEF a, b
<1>3. /\ a \o b \in Seq(Nat) /\ Len(a \o b) = Len(a) + Len(b)
      /\ \A i \in 1..(Len(a) + Len(b)) : (a \o b)[i] = IF i <= Len(a) THEN a[i] ELSE b[i - Len(a)]
  BY <1>1, ConcatProperties
<1>4. Len(a \o b) = L
  BY <1>0, <1>2, <1>3
<1>5. ASSUME NEW i \in 1..L PROVE (a \o b)[i] = q[i]
  <2>0. (a \o b)[i] = IF i <= n THEN a[i] ELSE b[i - n]
    BY <1>0, <1>2, <1>3
  <2>1. CASE i <= n
    BY <1>2, <2>0, <2>1
  <2>2. CASE ~(i <= n)
    <3>1. i - n \in 1..(L - n) /\ n + (i - n) = i
      BY <1>0, <2>2
    <3>2. b[i - n] = q[n + (i - n)]
      BY <1>2, <3>1
    <3> QED
      BY <2>0, <2>2, <3>1, <3>2
  <2> QED
    BY <2>1, <2>2
<1>6. a \o b = q
  BY <1>3, <1>4, <1>5, SeqEqual
<1> QED
  BY <1>1, <1>6 DEF a, b

\* The caller's bytes with those of the next record of a Send that runs, or of one
\* whose last record is still under way.
LEMMA NextChunk ==
    ASSUME TypeOK, Phases, pc = "sending" \/ (writing /\ mixed = 0)
    PROVE  /\ Len(written) \in Nat /\ want \in Nat /\ Chunk \in Nat
           /\ written = Positions(0, Len(written)) /\ Len(written) + Chunk <= want
           /\ written \o Positions(Len(written), Chunk) = Positions(0, Len(written) + Chunk)
           /\ Len(Positions(0, Len(written) + Chunk)) = Len(written) + Chunk
           /\ written \o Positions(Len(written), Chunk) \in Seq(Nat)
           /\ Chunk = 0 => Len(written) = want
<1>1. /\ written \in Seq(Nat) /\ Len(written) \in Nat /\ want \in Nat
      /\ MaxChunk \in Nat /\ MaxChunk > 0
  BY TlsAssumption DEF TypeOK
<1>2. written = Positions(0, Len(written)) /\ Len(written) <= want
  BY DEF Phases, Untouched, SendPhase, RecvPhase
<1>3. Chunk \in Nat /\ Len(written) + Chunk <= want /\ (Chunk = 0 => Len(written) = want)
  BY <1>1, <1>2 DEF Chunk, Smaller
<1>4. written \o Positions(Len(written), Chunk) = Positions(0, Len(written) + Chunk)
  <2>1. Positions(0, Len(written)) \o Positions(0 + Len(written), Chunk)
          = Positions(0, Len(written) + Chunk)
    BY <1>1, <1>3, PositionsJoin
  <2>2. 0 + Len(written) = Len(written)
    BY <1>1
  <2> QED
    BY <1>2, <2>1, <2>2
<1>5. Positions(0, Len(written) + Chunk) \in Seq(Nat)
      /\ Len(Positions(0, Len(written) + Chunk)) = Len(written) + Chunk
  BY <1>1, <1>3, PositionsType
<1> QED
  BY <1>1, <1>2, <1>3, <1>4, <1>5

\* Every variable keeps its type.
LEMMA TypeStep ==
    ASSUME TypeOK, BufferIntact, Phases, [Next]_vars
    PROVE  TypeOK'
<1> USE DEF loop, text, cross
<1>0. writing' \in BOOLEAN /\ mixed' \in 0..MaxMixed
  BY MixedStays, WritingTyped
<1>1. CASE UNCHANGED vars
  BY <1>0, <1>1 DEF TypeOK, vars, rs
<1>2. CASE Hello
  BY <1>0, <1>2 DEF TypeOK, Hello, rs
<1>3. CASE HandshakeRead
  <2>1. PICK k \in Arrivals(BufSize - cbIoBuffer) :
            /\ readBuffer' = Filled(cbIoBuffer, k)
            /\ cbIoBuffer' = cbIoBuffer + k
            /\ taken' = taken + k
    BY <1>3 DEF HandshakeRead
  <2>2. /\ cbIoBuffer \in Nat /\ BufSize - cbIoBuffer \in Int
        /\ cbIoBuffer + (BufSize - cbIoBuffer) <= BufSize
        /\ taken \in Nat
    BY Basics
  <2>3. /\ k \in Nat /\ cbIoBuffer + k <= BufSize
        /\ readBuffer' \in [0..(BufSize - 1) -> Int]
    BY <2>1, <2>2, ReadInside
  <2>4. cbIoBuffer' \in 0..BufSize /\ taken' \in Nat
    BY <2>1, <2>2, <2>3
  <2> QED
    BY <1>0, <1>3, <2>3, <2>4 DEF TypeOK, HandshakeRead, rs
<1>4. CASE HandshakeReadFails
  BY <1>0, <1>4 DEF TypeOK, HandshakeReadFails, rs
<1>5. CASE HandshakeNoRead
  BY <1>0, <1>5 DEF TypeOK, HandshakeNoRead, rs
<1>6. CASE TokenIncomplete
  BY <1>0, <1>6 DEF TypeOK, TokenIncomplete, rs
<1>7. CASE TokenAsks
  BY <1>0, <1>7 DEF TypeOK, TokenAsks, rs
<1>8. CASE TokenContinue
  <2>1. PICK m \in 1..Len(rs) :
            /\ Takes(m)
            /\ readBuffer' = MovedDown(cbIoBuffer - Extra(m, cbIoBuffer), Extra(m, cbIoBuffer))
            /\ cbIoBuffer' = Extra(m, cbIoBuffer)
            /\ tokens' = tokens + (IF rs[seen + m].reply THEN 1 ELSE 0)
            /\ seen' = seen + m
    BY <1>8 DEF TokenContinue
  <2>2. Extra(m, cbIoBuffer) \in 0..cbIoBuffer /\ seen' \in 0..Len(rs)
    BY <2>1, TakesRest
  <2>3. readBuffer' \in [0..(BufSize - 1) -> Int] /\ cbIoBuffer' \in 0..BufSize
    <3> DEFINE e == Extra(m, cbIoBuffer)
    <3>0. e \in 0..cbIoBuffer /\ cbIoBuffer \in 0..BufSize /\ BufSize \in Nat
      BY <2>2, Bounds
    <3> HIDE DEF e
    <3>1. /\ cbIoBuffer - e \in Nat /\ e \in Nat
          /\ (cbIoBuffer - e) + e <= BufSize
          /\ e \in 0..BufSize
      BY <3>0
    <3>2. MovedDown(cbIoBuffer - e, e) \in [0..(BufSize - 1) -> Int]
      BY <3>1, MovedDownCells
    <3> QED
      BY <2>1, <3>1, <3>2 DEF e
  <2>4. tokens' \in Nat
    BY <2>1 DEF TypeOK
  <2> QED
    BY <1>0, <1>8, <2>2, <2>3, <2>4 DEF TypeOK, TokenContinue, rs
<1>9. CASE TokenDone
  <2>1. PICK m \in 1..Len(rs) :
            /\ Takes(m)
            /\ readBuffer' = MovedDown(cbIoBuffer - Extra(m, cbIoBuffer), Extra(m, cbIoBuffer))
            /\ readBufferBytes' = Extra(m, cbIoBuffer)
            /\ tokens' = tokens + (IF rs[seen + m].reply THEN 1 ELSE 0)
            /\ seen' = seen + m
    BY <1>9 DEF TokenDone
  <2>2. Extra(m, cbIoBuffer) \in 0..cbIoBuffer /\ seen' \in 0..Len(rs)
    BY <2>1, TakesRest
  <2>3. readBuffer' \in [0..(BufSize - 1) -> Int] /\ readBufferBytes' \in 0..BufSize
    <3> DEFINE e == Extra(m, cbIoBuffer)
    <3>0. e \in 0..cbIoBuffer /\ cbIoBuffer \in 0..BufSize /\ BufSize \in Nat
      BY <2>2, Bounds
    <3> HIDE DEF e
    <3>1. /\ cbIoBuffer - e \in Nat /\ e \in Nat
          /\ (cbIoBuffer - e) + e <= BufSize
          /\ e \in 0..BufSize
      BY <3>0
    <3>2. MovedDown(cbIoBuffer - e, e) \in [0..(BufSize - 1) -> Int]
      BY <3>1, MovedDownCells
    <3> QED
      BY <2>1, <3>1, <3>2 DEF e
  <2>4. tokens' \in Nat
    BY <2>1 DEF TypeOK
  <2>5. readPtr' = 0 /\ readPtr = 0 /\ BufSize \in Nat
    BY <1>9, Basics DEF Phases, Untouched, SendPhase, RecvPhase, TokenDone
  <2>6. readBufferBytes' \in 0..(BufSize - readPtr')
    BY <2>3, <2>5
  <2> QED
    BY <1>0, <1>9, <2>2, <2>3, <2>4, <2>5, <2>6 DEF TypeOK, TokenDone, rs
<1>10. CASE TokenFails
  BY <1>0, <1>10 DEF TypeOK, TokenFails, rs
<1>11. CASE RecvRead
  <2>0. Target = readPtr + readBufferBytes /\ Target \in 0..(BufSize - 1)
    BY <1>11, TargetIsNext DEF RecvRead
  <2>1. PICK k \in Arrivals(BufSize - Target) :
            /\ readBuffer' = Filled(Target, k)
            /\ readBufferBytes' = readBufferBytes + k
            /\ taken' = taken + k
    BY <1>11 DEF RecvRead
  <2>2. Target \in Nat /\ BufSize - Target \in Int /\ Target + (BufSize - Target) <= BufSize
    BY <2>0, Bounds
  <2>3. /\ k \in Nat /\ Target + k <= BufSize
        /\ readBuffer' \in [0..(BufSize - 1) -> Int]
    BY <2>1, <2>2, ReadInside
  <2>4. readBufferBytes' \in 0..(BufSize - readPtr) /\ taken' \in Nat
    <3>1. readBufferBytes' = readBufferBytes + k /\ taken' = taken + k
      BY <2>1
    <3>2. k \in Nat /\ (readPtr + readBufferBytes) + k <= BufSize
      BY <2>0, <2>3
    <3> QED
      BY <3>1, <3>2, Bounds
  <2> QED
    BY <1>0, <1>11, <2>3, <2>4 DEF TypeOK, RecvRead, rs
<1>12. CASE RecvReadFails
  <2>1. Target \in 0..(BufSize - 1)
    BY <1>12, TargetIsNext DEF RecvReadFails
  <2> QED
    BY <1>0, <1>12, <2>1 DEF TypeOK, RecvReadFails, rs, None
<1>m. CASE RecvMistaken
  <2>0. Target = readPtr + readBufferBytes /\ Target \in 0..(BufSize - 1)
    BY <1>m, TargetIsNext DEF RecvMistaken
  <2>1. PICK k \in {0} \cup Arrivals(BufSize - Target) :
            readBuffer' = Filled(Target, k) /\ taken' = taken + k
    BY <1>m DEF RecvMistaken
  <2>2. readBuffer' \in [0..(BufSize - 1) -> Int] /\ taken' \in Nat
    <3>1. Target \in Nat /\ BufSize - Target \in Int /\ Target + (BufSize - Target) <= BufSize
          /\ Target + 0 <= BufSize /\ taken \in Nat
      BY <2>0, Bounds
    <3>2. CASE k = 0
      BY <2>1, <3>1, <3>2, FilledCells
    <3>3. CASE k \in Arrivals(BufSize - Target)
      BY <2>1, <3>1, <3>3, ReadInside
    <3> QED
      BY <2>1, <3>2, <3>3
  <2>3. readBufferBytes' \in 0..(BufSize - readPtr)
    <3>1. CASE UNCHANGED readBufferBytes
      BY <3>1, Bounds
    <3>2. ASSUME NEW n \in OwnRecords, readPtr + readBufferBytes + n <= BufSize,
                 readBufferBytes' = readBufferBytes + n
          PROVE  readBufferBytes' \in 0..(BufSize - readPtr)
      <4>1. n \in Nat
        BY TlsAssumption
      <4> QED
        BY <3>2, <4>1, Bounds
    <3> QED
      BY <1>m, <3>1, <3>2 DEF RecvMistaken
  <2>4. pc' \in {"decrypt", "idle", "lost"} /\ result' \in Int /\ left' = None
    BY <1>m DEF RecvMistaken, TypeOK, None
  <2> QED
    BY <1>0, <1>m, <2>2, <2>3, <2>4 DEF TypeOK, RecvMistaken, rs
<1>13. CASE RecvEnds
  <2>a. m_encrypting' \in BOOLEAN
    BY <1>13, Zenon DEF RecvEnds
  <2>b. result' \in Int
    BY <1>13 DEF RecvEnds
  <2>1. m_encrypting' \in BOOLEAN /\ result' \in Int
    BY <2>a, <2>b
  <2> QED
    BY <1>0, <1>13, <2>1 DEF TypeOK, RecvEnds, rs
<1>14. CASE DecryptIncomplete
  <2>1. MakeRoom
    BY <1>14 DEF DecryptIncomplete
  <2>2. /\ readBuffer' \in [0..(BufSize - 1) -> Int]
        /\ readPtr' \in 0..readPtr
        /\ pc' \in {"idle", "waiting"} /\ result' \in Int
    BY <2>1, RoomMade
  <2>3. readPtr' \in 0..(BufSize - 1) /\ readBufferBytes \in 0..(BufSize - readPtr')
    BY <2>2, Basics
  <2> QED
    BY <1>0, <1>14, <2>2, <2>3 DEF TypeOK, DecryptIncomplete, rs
<1>15. CASE DecryptData
  <2>0. ~Incomplete(readBufferBytes) /\ readBufferBytes \in Nat
    BY <1>15, Basics DEF DecryptData
  <2> DEFINE r == rs[seen + 1]
  <2>1. /\ seen + 1 \in 1..Len(rs) /\ r.size \in 1..readBufferBytes /\ r.len \in Nat
        /\ r.text = TextEnd(rs, seen)
        /\ Extra(1, readBufferBytes) = readBufferBytes - r.size
    BY <2>0, NextRecord
  <2>2. r.text \in Nat /\ want \in Nat
    BY <2>1, Basics, EndsAreNumbers DEF TypeOK
  <2> DEFINE n == Smaller(want, r.len)
  <2>3. n \in Nat /\ r.len - n \in Nat /\ r.text + n \in Nat
    BY <2>1, <2>2 DEF Smaller
  <2>4. /\ received' = received \o Positions(r.text, n)
        /\ plainText' = Positions(r.text + n, r.len - n)
        /\ result' = n
        /\ readBufferBytes' = Extra(1, readBufferBytes)
        /\ readPtr' = IF Extra(1, readBufferBytes) = 0 THEN 0 ELSE readPtr + r.size
    BY <1>15 DEF DecryptData
  <2> HIDE DEF r, n
  <2>5. readPtr' \in 0..(BufSize - 1) /\ readBufferBytes' \in 0..(BufSize - readPtr')
    <3>1. CASE readBufferBytes = r.size
      <4>1. readPtr' = 0 /\ readBufferBytes' = 0
        BY <2>1, <2>4, <3>1, Bounds
      <4> QED
        BY <4>1, Bounds
    <3>2. CASE readBufferBytes # r.size
      <4>1. readPtr' = readPtr + r.size /\ readBufferBytes' = readBufferBytes - r.size
        BY <2>1, <2>4, <3>2, Bounds
      <4>2. r.size \in 1..readBufferBytes
        BY <2>1
      <4> QED
        BY <3>2, <4>1, <4>2, Bounds
    <3> QED
      BY <3>1, <3>2
  <2>6. received' \in Seq(Nat) /\ plainText' \in Seq(Nat) /\ result' \in Int
    <3>1. Positions(r.text, n) \in Seq(Nat) /\ Positions(r.text + n, r.len - n) \in Seq(Nat)
      BY <2>2, <2>3, PositionsType
    <3>2. received \in Seq(Nat)
      BY DEF TypeOK
    <3> QED
      BY <2>3, <2>4, <3>1, <3>2
  <2>7. seen' \in 0..Len(rs)
    BY <1>15, <2>1 DEF DecryptData
  <2> QED
    BY <1>0, <1>15, <2>5, <2>6, <2>7 DEF TypeOK, DecryptData, rs
<1>16. CASE DecryptClose
  <2>1. seen + 1 \in 0..Len(rs)
    BY <1>16, Basics DEF DecryptClose
  <2>a. m_encrypting' \in BOOLEAN
    BY <1>16, Zenon DEF DecryptClose
  <2>b. result' \in Int
    BY <1>16 DEF DecryptClose
  <2>2. m_encrypting' \in BOOLEAN /\ result' \in Int
    BY <2>a, <2>b
  <2> QED
    BY <1>0, <1>16, <2>1, <2>2 DEF TypeOK, DecryptClose, rs
<1>17. CASE DecryptFails
  BY <1>0, <1>17 DEF TypeOK, DecryptFails, rs, None
<1>18. CASE SendChunk
  <2>1. pc = "sending"
    BY <1>18 DEF SendChunk
  <2>2. /\ written \o Positions(Len(written), Chunk) \in Seq(Nat)
        /\ Len(written) \in Nat /\ Chunk \in Nat
    BY <2>1, NextChunk
  <2>5. written' \in Seq(Nat)
    BY <1>18, <2>2 DEF SendChunk
  <2>6. result' \in Int /\ pc' \in {"idle", "sending"}
    BY <1>18, <2>2 DEF SendChunk, TypeOK
  <2> QED
    BY <1>0, <1>18, <2>5, <2>6 DEF TypeOK, SendChunk, rs
<1>19. CASE SendFails
  <2>1. written' \in Seq(Nat)
    <3>1. pc = "sending"
      BY <1>19 DEF SendFails
    <3>2. written \o Positions(Len(written), Chunk) \in Seq(Nat)
      BY <3>1, NextChunk
    <3> QED
      BY <1>19, <3>2 DEF SendFails, TypeOK
  <2> QED
    BY <1>0, <1>19, <2>1 DEF TypeOK, SendFails, rs, None
<1>w. CASE WriteEnds
  <2>1. written' \in Seq(Nat)
    <3>1. writing /\ mixed = 0
      BY <1>w DEF WriteEnds
    <3>2. written \o Positions(Len(written), Chunk) \in Seq(Nat)
      BY <3>1, NextChunk
    <3> QED
      BY <1>w, <3>2 DEF WriteEnds, TypeOK
  <2> QED
    BY <1>0, <1>w, <2>1 DEF TypeOK, WriteEnds, rs
<1>20. CASE RecvRefused
  BY <1>0, <1>20 DEF TypeOK, RecvRefused, rs, None
<1>21. CASE SendRefused
  BY <1>0, <1>21 DEF TypeOK, SendRefused, rs, None
<1>22. ASSUME NEW len \in RecvLens, RecvCached(len) PROVE TypeOK'
  <2> DEFINE n == Smaller(len, Len(plainText))
  <2>1. len \in Nat /\ plainText \in Seq(Nat) /\ received \in Seq(Nat) /\ Len(plainText) \in Nat
    BY TlsAssumption DEF TypeOK
  <2>2. n \in 0..Len(plainText)
    BY <2>1 DEF Smaller
  <2>3. /\ received' = received \o SubSeq(plainText, 1, n)
        /\ plainText' = SubSeq(plainText, n + 1, Len(plainText))
        /\ result' = n
    BY <1>22 DEF RecvCached
  <2> HIDE DEF n
  <2>4. SubSeq(plainText, 1, n) \in Seq(Nat) /\ SubSeq(plainText, n + 1, Len(plainText)) \in Seq(Nat)
    <3>1. 1 \in 1..(Len(plainText) + 1) /\ n + 1 \in 1..(Len(plainText) + 1)
          /\ Len(plainText) \in 0..Len(plainText)
      BY <2>1, <2>2
    <3> QED
      BY <2>1, <2>2, <3>1, NumbersSlice
  <2>5. received' \in Seq(Nat) /\ plainText' \in Seq(Nat) /\ result' \in Int
    BY <2>1, <2>2, <2>3, <2>4
  <2> QED
    BY <1>0, <1>22, <2>1, <2>5 DEF TypeOK, RecvCached, rs
<1>23. ASSUME NEW len \in RecvLens, RecvBegin(len) PROVE TypeOK'
  <2>0. len \in Nat
    BY TlsAssumption
  <2>1. CASE readBufferBytes = 0
    <3>1. MakeRoom
      BY <1>23, <2>1 DEF RecvBegin
    <3>2. /\ readBuffer' \in [0..(BufSize - 1) -> Int]
          /\ readPtr' \in 0..readPtr
          /\ pc' \in {"idle", "waiting"} /\ result' \in Int
      BY <3>1, RoomMade
    <3>3. readPtr' \in 0..(BufSize - 1) /\ readBufferBytes \in 0..(BufSize - readPtr')
      BY <3>2, Basics
    <3> QED
      BY <1>0, <1>23, <2>0, <3>2, <3>3 DEF TypeOK, RecvBegin, rs
  <2>2. CASE readBufferBytes # 0
    BY <1>0, <1>23, <2>0, <2>2 DEF TypeOK, RecvBegin, rs
  <2> QED
    BY <2>1, <2>2
<1>24. ASSUME NEW len \in SendLens, SendBegin(len) PROVE TypeOK'
  <2>0. len \in Nat
    BY TlsAssumption
  <2> QED
    BY <1>0, <1>24, <2>0 DEF TypeOK, SendBegin, rs
<1> QED
  BY <1>1, <1>2, <1>3, <1>4, <1>5, <1>6, <1>7, <1>8, <1>9, <1>10, <1>11, <1>12, <1>13, <1>14,
     <1>15, <1>16, <1>17, <1>18, <1>19, <1>20, <1>21, <1>22, <1>23, <1>24, <1>m, <1>w
     DEF Next, Handler, Caller

\* The buffer as it was holds what it held.
LEMMA AuthenticSame ==
    ASSUME UNCHANGED <<s, seen, readBuffer, readPtr, readBufferBytes>>
    PROVE  /\ Incomplete(readBufferBytes)' <=> Incomplete(readBufferBytes)
           /\ Authentic(readBufferBytes)' <=> Authentic(readBufferBytes)
<1>1. rs' = rs
  BY DEF rs
<1>2. Incomplete(readBufferBytes)' <=> Incomplete(readBufferBytes)
  BY <1>1 DEF Incomplete
<1> QED
  BY <1>1, <1>2 DEF Authentic, Intact, Incomplete

\* A handshake leaves everything else as it is.
LEMMA UntouchedStep ==
    ASSUME TypeOK, Phases, [Next]_vars
    PROVE  Untouched'
<1> USE DEF loop, text, cross
<1>0. Untouched
  BY DEF Phases
<1>1. CASE pc' \notin {"start", "negotiate", "token"}
  BY <1>1 DEF Untouched
<1>2. CASE UNCHANGED vars
  BY <1>0, <1>2 DEF Untouched, Incomplete, vars, rs
<1>3. CASE Hello
  BY <1>0, <1>3, Basics DEF Untouched, Incomplete, Hello, rs
<1>4. CASE HandshakeRead \/ HandshakeNoRead \/ TokenIncomplete \/ TokenAsks \/ TokenContinue
  BY <1>0, <1>4 DEF Untouched, Incomplete, HandshakeRead, HandshakeNoRead, TokenIncomplete,
                    TokenAsks, TokenContinue, rs
<1>5. CASE HandshakeReadFails \/ TokenDone \/ TokenFails
  BY <1>1, <1>5 DEF HandshakeReadFails, TokenDone, TokenFails
<1>6. CASE RecvRead \/ RecvReadFails \/ RecvMistaken \/ RecvEnds
  BY <1>1, <1>6 DEF RecvRead, RecvReadFails, RecvMistaken, RecvEnds
<1>7. CASE DecryptIncomplete \/ DecryptData \/ DecryptClose \/ DecryptFails
  BY <1>1, <1>7 DEF DecryptIncomplete, DecryptData, DecryptClose, DecryptFails, MakeRoom
<1>8. CASE SendChunk \/ SendFails
  BY <1>1, <1>8 DEF SendChunk, SendFails
<1>9. CASE WriteEnds
  <2>1. pc = "idle" /\ pc' = pc
    BY <1>9 DEF WriteEnds, Phases, SendPhase
  <2> QED
    BY <1>1, <2>1
<1>10. CASE Caller
  BY <1>1, <1>10 DEF Caller, RecvRefused, SendRefused, RecvCached, RecvBegin, SendBegin, MakeRoom
<1> QED
  BY <1>2, <1>3, <1>4, <1>5, <1>6, <1>7, <1>8, <1>9, <1>10 DEF Next, Handler

\* A Send hands over the caller's bytes from the first on.
LEMMA SendPhaseStep ==
    ASSUME TypeOK, Phases, [Next]_vars
    PROVE  SendPhase'
<1> USE DEF loop, text, cross
<1>0. SendPhase /\ Untouched
  BY DEF Phases
<1>1. CASE UNCHANGED <<pc, want, writing, mixed, written>>
  BY <1>0, <1>1 DEF SendPhase
<1>2. CASE pc' # "sending" /\ ~(writing' /\ mixed' = 0)
  BY <1>2 DEF SendPhase
<1>3. CASE Hello \/ HandshakeRead \/ HandshakeReadFails \/ HandshakeNoRead
           \/ TokenIncomplete \/ TokenAsks \/ TokenContinue \/ TokenDone \/ TokenFails
  <2>1. pc \in {"start", "negotiate", "token"} /\ pc' # "sending" /\ UNCHANGED writing
    BY <1>3 DEF Hello, HandshakeRead, HandshakeReadFails, HandshakeNoRead, TokenIncomplete,
                TokenAsks, TokenContinue, TokenDone, TokenFails
  <2> QED
    BY <1>0, <1>2, <2>1 DEF Untouched
<1>4. CASE RecvRead \/ RecvReadFails \/ RecvMistaken \/ RecvEnds \/ DecryptIncomplete
            \/ DecryptData \/ DecryptClose \/ DecryptFails
  <2>1. pc \in {"waiting", "decrypt"} /\ pc' # "sending" /\ UNCHANGED writing
    BY <1>4 DEF RecvRead, RecvReadFails, RecvMistaken, RecvEnds, DecryptIncomplete,
                DecryptData, DecryptClose, DecryptFails, MakeRoom
  <2>2. mixed' = 0 => mixed = 0
    BY MixedStays
  <2> QED
    BY <1>0, <1>2, <2>1, <2>2 DEF SendPhase
<1>5. CASE SendChunk
  <2>1. pc = "sending" /\ UNCHANGED <<want, writing, mixed>>
        /\ written' = written \o Positions(Len(written), Chunk)
    BY <1>5 DEF SendChunk
  <2>2. written' = Positions(0, Len(written')) /\ Len(written') <= want'
    BY <2>1, NextChunk
  <2>3. ~(writing' /\ mixed' = 0)
    BY <1>0, <2>1 DEF SendPhase
  <2> QED
    BY <2>2, <2>3 DEF SendPhase
<1>6. CASE SendFails
  <2>1. pc = "sending" /\ pc' = "idle" /\ UNCHANGED <<want, mixed>>
        /\ (UNCHANGED writing \/ UNCHANGED written)
    BY <1>6 DEF SendFails
  <2>2. written = Positions(0, Len(written)) /\ Len(written) <= want /\ ~(writing /\ mixed = 0)
    BY <1>0, <2>1 DEF SendPhase
  <2>3. CASE UNCHANGED writing
    BY <1>2, <2>1, <2>2, <2>3
  <2>4. CASE UNCHANGED written
    BY <2>1, <2>2, <2>4 DEF SendPhase
  <2> QED
    BY <2>1, <2>3, <2>4
<1>7. CASE WriteEnds
  <2>1. writing /\ mixed = 0 /\ ~writing' /\ UNCHANGED pc
    BY <1>7, Zenon DEF WriteEnds
  <2> QED
    BY <1>0, <1>2, <2>1 DEF SendPhase
<1>8. CASE RecvRefused \/ SendRefused \/ \E len \in RecvLens : RecvCached(len) \/ RecvBegin(len)
  <2>1. pc' # "sending" /\ Crosses(FALSE)
    BY <1>8 DEF RecvRefused, SendRefused, RecvCached, RecvBegin, MakeRoom
  <2>2. mixed \in Nat
    BY MixedStays
  <2>3. ~(writing' /\ mixed' = 0)
    BY <2>1, <2>2 DEF Crosses
  <2> QED
    BY <1>2, <2>1, <2>3
<1>9. ASSUME NEW len \in SendLens, SendBegin(len) PROVE SendPhase'
  <2>1. Crosses(left # None) /\ written' = <<>> /\ want' \in Nat
    BY <1>9, TlsAssumption DEF SendBegin
  <2>2. mixed \in Nat
    BY MixedStays
  <2>3. ~(writing' /\ mixed' = 0)
    BY <2>1, <2>2 DEF Crosses
  <2>4. written' = Positions(0, Len(written')) /\ Len(written') <= want'
    BY <2>1 DEF Positions
  <2> QED
    BY <2>3, <2>4 DEF SendPhase
<1>10. CASE UNCHANGED vars
  BY <1>1, <1>10 DEF vars
<1> QED
  BY <1>3, <1>4, <1>5, <1>6, <1>7, <1>8, <1>9, <1>10 DEF Next, Handler, Caller

\* A read that begins, or is left active, finds no record in the buffer, and room
\* behind what is there.
LEMMA MakeRoomKeeps ==
    ASSUME TypeOK, RecvPhase, MakeRoom, m_encrypting, plainText = <<>>,
           Incomplete(readBufferBytes) \/ ~Authentic(readBufferBytes),
           UNCHANGED <<s, taken, seen, readBufferBytes, left, plainText, m_encrypting>>
    PROVE  RecvPhase'
<1>1. /\ pc' \in {"idle", "waiting"}
      /\ pc' = "waiting" => readPtr' + readBufferBytes < BufSize
      /\ FreeAtEnd # 0 => readPtr' = readPtr
      /\ FreeAtEnd = 0 => readBufferBytes = BufSize - readPtr
  BY RoomMade
<1>2. left # None => left = readPtr + readBufferBytes
  BY DEF RecvPhase
<1>3. left # None => FreeAtEnd # 0
  <2>1. left # BufSize
    BY Bounds DEF TypeOK, None
  <2>2. FreeAtEnd = 0 => readPtr + readBufferBytes = BufSize
    BY <1>1, Bounds
  <2> QED
    BY <1>2, <2>1, <2>2
<1>4. rs' = rs /\ (Incomplete(readBufferBytes)' <=> Incomplete(readBufferBytes))
  BY DEF rs, Incomplete
<1>5. Incomplete(readBufferBytes)' \/ ~Authentic(readBufferBytes)'
  BY <1>4, AuthenticMoved
<1>6. taken' <= WireEnd(rs', Len(rs'))
  BY <1>4 DEF RecvPhase
<1> QED
  BY <1>1, <1>2, <1>3, <1>5, <1>6 DEF RecvPhase

\* What holds at each place of Recv is kept.
LEMMA RecvPhaseStep ==
    ASSUME TypeOK, Phases, [Next]_vars
    PROVE  RecvPhase'
<1> USE DEF loop, text, cross
<1>0. RecvPhase /\ Untouched
  BY DEF Phases
<1>1. CASE UNCHANGED vars
  <2>1. UNCHANGED <<s, seen, readBuffer, readPtr, readBufferBytes, pc, m_encrypting, plainText,
                    left, taken>> /\ rs' = rs
    BY <1>1 DEF vars, rs
  <2> QED
    BY <1>0, <2>1, AuthenticSame DEF RecvPhase
<1>2. CASE HandshakeRead
  <2>1. PICK k \in Arrivals(BufSize - cbIoBuffer) : taken' = taken + k
    BY <1>2 DEF HandshakeRead
  <2>2. taken' <= WireEnd(rs, Len(rs)) /\ rs' = rs
    BY <1>2, <2>1 DEF Arrivals, HandshakeRead, rs
  <2> QED
    BY <1>0, <1>2, <2>2 DEF RecvPhase, Untouched, HandshakeRead
<1>3. CASE Hello \/ HandshakeReadFails \/ HandshakeNoRead \/ TokenIncomplete \/ TokenAsks
           \/ TokenContinue \/ TokenDone \/ TokenFails
  <2>1. pc \in {"start", "negotiate", "token"} /\ UNCHANGED <<s, taken, left>>
        /\ pc' \notin {"decrypt", "waiting", "sending"}
    BY <1>3 DEF Hello, HandshakeReadFails, HandshakeNoRead, TokenIncomplete, TokenAsks,
                TokenContinue, TokenDone, TokenFails
  <2>2. rs' = rs
    BY <2>1 DEF rs
  <2> QED
    BY <1>0, <2>1, <2>2 DEF RecvPhase, Untouched
<1>4. CASE RecvRead \/ RecvMistaken
  <2>1. PICK k \in {0} \cup Arrivals(BufSize - Target) : taken' = taken + k
    BY <1>4 DEF RecvRead, RecvMistaken
  <2>2. taken' <= WireEnd(rs, Len(rs)) /\ rs' = rs
    BY <1>0, <1>4, <2>1, Basics DEF Arrivals, RecvRead, RecvMistaken, rs, RecvPhase
  <2>3. pc = "waiting" /\ pc' \in {"decrypt", "idle", "lost"} /\ left' = None
        /\ UNCHANGED <<plainText, m_encrypting>>
    BY <1>4 DEF RecvRead, RecvMistaken
  <2> QED
    BY <1>0, <2>2, <2>3 DEF RecvPhase
<1>5. CASE RecvReadFails
  <2>1. /\ pc = "waiting" /\ pc' = "idle" /\ left' \in {Target, None}
        /\ UNCHANGED <<s, seen, readBuffer, readPtr, readBufferBytes, taken, m_encrypting>>
    BY <1>5 DEF RecvReadFails
  <2>2. rs' = rs /\ Target = readPtr + readBufferBytes
    BY <2>1, TargetIsNext DEF rs
  <2> QED
    BY <1>0, <2>1, <2>2, AuthenticSame DEF RecvPhase
<1>6. CASE RecvEnds \/ DecryptClose
  <2>1. pc' = "idle" /\ ~m_encrypting' /\ UNCHANGED <<s, taken>>
    BY <1>6, Zenon DEF RecvEnds, DecryptClose
  <2>2. rs' = rs
    BY <2>1 DEF rs
  <2> QED
    BY <1>0, <2>1, <2>2 DEF RecvPhase
<1>7. CASE DecryptIncomplete
  <2>1. pc = "decrypt" /\ MakeRoom
        /\ UNCHANGED <<s, taken, seen, readBufferBytes, left, plainText, m_encrypting>>
        /\ (Incomplete(readBufferBytes) \/ ~Authentic(readBufferBytes))
    BY <1>7 DEF DecryptIncomplete
  <2> QED
    BY <1>0, <2>1, MakeRoomKeeps DEF RecvPhase
<1>8. CASE DecryptData
  <2>1. /\ pc = "decrypt" /\ pc' = "idle" /\ UNCHANGED <<s, taken, left, m_encrypting>>
        /\ ~Incomplete(readBufferBytes) /\ Authentic(readBufferBytes)
    BY <1>8 DEF DecryptData
  <2>2. left = None /\ rs' = rs
    BY <1>0, <2>1 DEF RecvPhase, rs
  <2> QED
    BY <1>0, <2>1, <2>2 DEF RecvPhase
<1>9. CASE DecryptFails \/ SendChunk \/ SendFails \/ RecvRefused \/ SendRefused \/ WriteEnds
           \/ (\E len \in RecvLens : RecvCached(len)) \/ \E len \in SendLens : SendBegin(len)
  <2>1. /\ UNCHANGED <<s, seen, readBuffer, readPtr, readBufferBytes, left, taken, m_encrypting>>
        /\ pc' \in {"idle", "sending"} \/ UNCHANGED <<pc, plainText>>
        /\ pc' = "sending" => m_encrypting
    BY <1>0, <1>9 DEF DecryptFails, SendChunk, SendFails, RecvRefused, SendRefused, WriteEnds,
                RecvCached, SendBegin, RecvPhase
  <2>2. rs' = rs
    BY <2>1 DEF rs
  <2> QED
    BY <1>0, <2>1, <2>2, AuthenticSame DEF RecvPhase
<1>10. ASSUME NEW len \in RecvLens, RecvBegin(len) PROVE RecvPhase'
  <2>1. /\ pc = "idle" /\ plainText = <<>> /\ m_encrypting
        /\ UNCHANGED <<s, taken, seen, readBufferBytes, left, plainText, m_encrypting>>
    BY <1>10 DEF RecvBegin
  <2>2. CASE readBufferBytes = 0
    <3>1. Incomplete(readBufferBytes)
      <4>1. seen < Len(rs) => seen + 1 \in 1..Len(rs)
        BY Basics
      <4>2. seen < Len(rs) => rs[seen + 1].size > 0
        BY <4>1, Basics, RecordFields
      <4> QED
        BY <2>2, <4>2 DEF Incomplete
    <3>2. MakeRoom
      BY <1>10, <2>2 DEF RecvBegin
    <3> QED
      BY <1>0, <2>1, <3>1, <3>2, MakeRoomKeeps
  <2>3. CASE readBufferBytes # 0
    <3>1. pc' = "decrypt" /\ UNCHANGED <<readBuffer, readPtr>>
      BY <1>10, <2>3 DEF RecvBegin
    <3>2. rs' = rs
      BY <2>1 DEF rs
    <3> QED
      BY <1>0, <2>1, <3>1, <3>2, AuthenticSame DEF RecvPhase
  <2> QED
    BY <2>2, <2>3
<1> QED
  BY <1>1, <1>2, <1>3, <1>4, <1>5, <1>6, <1>7, <1>8, <1>9, <1>10 DEF Next, Handler, Caller

LEMMA PhasesStep ==
    ASSUME TypeOK, Phases, [Next]_vars
    PROVE  Phases'
BY UntouchedStep, SendPhaseStep, RecvPhaseStep DEF Phases

\* The bytes in the buffer stay the next ones of the stream.
LEMMA IntactStep ==
    ASSUME TypeOK, BufferIntact, Phases, Phases', [Next]_vars
    PROVE  BufferIntact'
<1> USE DEF loop, text, cross
<1>z. CASE mixed' # 0
  BY <1>z DEF BufferIntact, Phases, Untouched
<1>y. SUFFICES ASSUME mixed' = 0 PROVE BufferIntact'
  BY <1>z
<1>0. mixed = 0 /\ mixed' = 0
  BY <1>y, MixedStays
<1>1. CASE UNCHANGED vars
  BY <1>0, <1>1 DEF BufferIntact, Intact, vars, rs
<1>2. CASE Hello
  BY <1>0, <1>2, Bounds DEF BufferIntact, Intact, Hello, rs, Phases, Untouched, SendPhase, RecvPhase, WireEnd
<1>3. CASE HandshakeRead
  <2>1. PICK k \in Arrivals(BufSize - cbIoBuffer) :
            /\ readBuffer' = Filled(cbIoBuffer, k)
            /\ cbIoBuffer' = cbIoBuffer + k
            /\ taken' = taken + k
    BY <1>3 DEF HandshakeRead
  <2>2. Intact(0, cbIoBuffer) /\ taken = WireEnd(rs, seen) + cbIoBuffer
    BY <1>0, <1>3 DEF BufferIntact, HandshakeRead
  <2>3. k \in Nat /\ cbIoBuffer + k <= BufSize
    <3>1. /\ cbIoBuffer \in Nat /\ BufSize - cbIoBuffer \in Int
          /\ cbIoBuffer + (BufSize - cbIoBuffer) <= BufSize
      BY Bounds
    <3> QED
      BY <2>1, <3>1, ReadInside
  <2>4. \A i \in 0..((cbIoBuffer + k) - 1) : readBuffer'[0 + i] = WireEnd(rs, seen) + i
    <3>1. cbIoBuffer \in Nat /\ 0 \in Nat /\ 0 + cbIoBuffer = cbIoBuffer
      BY Bounds
    <3>2. readBuffer' = Filled(0 + cbIoBuffer, k) /\ 0 + cbIoBuffer + k <= BufSize
      BY <2>1, <2>3, <3>1
    <3> QED
      BY <2>2, <2>3, <3>1, <3>2, FilledIntact
  <2>5. s' = s /\ seen' = seen /\ rs' = rs /\ pc' = "token"
    BY <1>3 DEF HandshakeRead, rs
  <2>6. Intact(0, cbIoBuffer)'
    BY <2>1, <2>4, <2>5 DEF Intact
  <2>7. taken' = WireEnd(rs, seen)' + cbIoBuffer'
    BY <2>1, <2>2, <2>3, <2>5, Basics
  <2> QED
    BY <1>0, <2>5, <2>6, <2>7 DEF BufferIntact
<1>4. CASE HandshakeReadFails
  BY <1>0, <1>4 DEF BufferIntact, HandshakeReadFails
<1>5. CASE HandshakeNoRead
  BY <1>0, <1>5 DEF BufferIntact, Intact, HandshakeNoRead, rs
<1>6. CASE TokenIncomplete
  BY <1>0, <1>6 DEF BufferIntact, Intact, TokenIncomplete, rs
<1>7. CASE TokenAsks
  BY <1>0, <1>7 DEF BufferIntact, Intact, TokenAsks, rs
<1>8. CASE TokenContinue
  <2>1. PICK m \in 1..Len(rs) :
            /\ Takes(m)
            /\ readBuffer' = MovedDown(cbIoBuffer - Extra(m, cbIoBuffer), Extra(m, cbIoBuffer))
            /\ cbIoBuffer' = Extra(m, cbIoBuffer)
            /\ seen' = seen + m
    BY <1>8 DEF TokenContinue
  <2> DEFINE e == Extra(m, cbIoBuffer)
  <2>2. /\ e \in 0..cbIoBuffer
        /\ WireEnd(rs, seen + m) = WireEnd(rs, seen) + (cbIoBuffer - e)
    BY <2>1, TakesRest
  <2>3. Intact(0, cbIoBuffer) /\ taken = WireEnd(rs, seen) + cbIoBuffer
    BY <1>0, <1>8 DEF BufferIntact, TokenContinue
  <2>4. /\ cbIoBuffer \in Nat /\ BufSize \in Nat /\ cbIoBuffer <= BufSize
        /\ WireEnd(rs, seen) \in Nat
    BY Basics
  <2>5. readBuffer' = MovedDown(cbIoBuffer - e, e) /\ cbIoBuffer' = e /\ seen' = seen + m
    BY <2>1
  <2> HIDE DEF e
  <2>6. \A k \in 0..(e - 1) : readBuffer'[k] = WireEnd(rs, seen) + ((cbIoBuffer - e) + k)
    <3> DEFINE d == cbIoBuffer - e
    <3>1. d \in Nat /\ e \in Nat /\ 0 \in Nat /\ d + e = cbIoBuffer /\ 0 + d = d
          /\ 0 + d + e <= BufSize
      BY <2>2, <2>4
    <3>2. readBuffer' = MovedDown(0 + d, e) /\ Intact(0, d + e)
      BY <2>3, <2>5, <3>1
    <3> HIDE DEF d
    <3>3. \A k \in 0..(e - 1) : readBuffer'[k] = WireEnd(rs, seen) + (d + k)
      BY <3>1, <3>2, MovedIntact
    <3> QED
      BY <3>3 DEF d
  <2>7. rs' = rs
    BY <1>8 DEF TokenContinue, rs
  <2>8. \A k \in 0..(e - 1) : readBuffer'[0 + k] = WireEnd(rs, seen + m) + k
    BY <2>2, <2>4, <2>6
  <2>9. Intact(0, cbIoBuffer)'
    BY <2>5, <2>7, <2>8 DEF Intact
  <2>10. taken' = WireEnd(rs, seen)' + cbIoBuffer'
    <3>1. taken' = taken
      BY <1>8 DEF TokenContinue
    <3> QED
      BY <2>2, <2>3, <2>4, <2>5, <2>7, <3>1
  <2>11. pc' = "negotiate"
    BY <1>8 DEF TokenContinue
  <2> QED
    BY <1>0, <2>9, <2>10, <2>11 DEF BufferIntact
<1>9. CASE TokenDone
  <2>1. PICK m \in 1..Len(rs) :
            /\ Takes(m)
            /\ readBuffer' = MovedDown(cbIoBuffer - Extra(m, cbIoBuffer), Extra(m, cbIoBuffer))
            /\ readBufferBytes' = Extra(m, cbIoBuffer)
            /\ seen' = seen + m
    BY <1>9 DEF TokenDone
  <2> DEFINE e == Extra(m, cbIoBuffer)
  <2>2. /\ e \in 0..cbIoBuffer
        /\ WireEnd(rs, seen + m) = WireEnd(rs, seen) + (cbIoBuffer - e)
    BY <2>1, TakesRest
  <2>3. Intact(0, cbIoBuffer) /\ taken = WireEnd(rs, seen) + cbIoBuffer
    BY <1>0, <1>9 DEF BufferIntact, TokenDone
  <2>4. /\ cbIoBuffer \in Nat /\ BufSize \in Nat /\ cbIoBuffer <= BufSize
        /\ WireEnd(rs, seen) \in Nat
    BY Basics
  <2>5. readBuffer' = MovedDown(cbIoBuffer - e, e) /\ readBufferBytes' = e /\ seen' = seen + m
    BY <2>1
  <2> HIDE DEF e
  <2>6. \A k \in 0..(e - 1) : readBuffer'[k] = WireEnd(rs, seen) + ((cbIoBuffer - e) + k)
    <3> DEFINE d == cbIoBuffer - e
    <3>1. d \in Nat /\ e \in Nat /\ 0 \in Nat /\ d + e = cbIoBuffer /\ 0 + d = d
          /\ 0 + d + e <= BufSize
      BY <2>2, <2>4
    <3>2. readBuffer' = MovedDown(0 + d, e) /\ Intact(0, d + e)
      BY <2>3, <2>5, <3>1
    <3> HIDE DEF d
    <3>3. \A k \in 0..(e - 1) : readBuffer'[k] = WireEnd(rs, seen) + (d + k)
      BY <3>1, <3>2, MovedIntact
    <3> QED
      BY <3>3 DEF d
  <2>7. rs' = rs
    BY <1>9 DEF TokenDone, rs
  <2>8. \A k \in 0..(e - 1) : readBuffer'[0 + k] = WireEnd(rs, seen + m) + k
    BY <2>2, <2>4, <2>6
  <2>a. readPtr' = 0 /\ left' = None
    BY <1>9 DEF TokenDone, Phases, Untouched, SendPhase, RecvPhase
  <2>9. Intact(readPtr, readBufferBytes)'
    BY <2>a, <2>5, <2>7, <2>8 DEF Intact
  <2>10. taken' = WireEnd(rs, seen)' + readBufferBytes'
    <3>1. taken' = taken
      BY <1>9 DEF TokenDone
    <3> QED
      BY <2>2, <2>3, <2>4, <2>5, <2>7, <3>1
  <2>11. pc' \in {"idle", "failed"}
    BY <1>9 DEF TokenDone
  <2> QED
    BY <1>0, <2>a, <2>9, <2>10, <2>11 DEF BufferIntact
<1>10. CASE TokenFails
  BY <1>0, <1>10 DEF BufferIntact, TokenFails
<1>11. CASE RecvRead
  <2>0. Target = readPtr + readBufferBytes /\ Target \in 0..(BufSize - 1) /\ m_encrypting
    BY <1>11, TargetIsNext DEF RecvRead
  <2>1. PICK k \in Arrivals(BufSize - Target) :
            /\ readBuffer' = Filled(Target, k)
            /\ readBufferBytes' = readBufferBytes + k
            /\ taken' = taken + k
    BY <1>11 DEF RecvRead
  <2>2. Intact(readPtr, readBufferBytes) /\ taken = WireEnd(rs, seen) + readBufferBytes
    BY <1>0, <1>11, <2>0 DEF BufferIntact, RecvRead
  <2>3. k \in Nat /\ Target + k <= BufSize
    <3>1. Target \in Nat /\ BufSize - Target \in Int /\ Target + (BufSize - Target) <= BufSize
      BY <2>0, Bounds
    <3> QED
      BY <2>1, <3>1, ReadInside
  <2>4. \A i \in 0..((readBufferBytes + k) - 1) : readBuffer'[readPtr + i] = WireEnd(rs, seen) + i
    <3>1. readPtr \in Nat /\ readBufferBytes \in Nat
      BY Bounds
    <3>2. readBuffer' = Filled(readPtr + readBufferBytes, k) /\ readPtr + readBufferBytes + k <= BufSize
      BY <2>0, <2>1, <2>3
    <3> QED
      BY <2>2, <2>3, <3>1, <3>2, FilledIntact
  <2>5. rs' = rs /\ seen' = seen /\ readPtr' = readPtr /\ left' = None /\ pc' = "decrypt"
    BY <1>11 DEF RecvRead, rs
  <2>6. Intact(readPtr, readBufferBytes)'
    BY <2>1, <2>4, <2>5 DEF Intact
  <2>7. taken' = WireEnd(rs, seen)' + readBufferBytes'
    <3>1. taken' = taken + k /\ readBufferBytes' = readBufferBytes + k
      BY <2>1
    <3> QED
      BY <3>1, <2>2, <2>3, <2>5, Basics
  <2> QED
    BY <1>0, <2>5, <2>6, <2>7 DEF BufferIntact
<1>12. CASE RecvReadFails
  <2>1. Target = readPtr + readBufferBytes
    BY <1>12, TargetIsNext DEF RecvReadFails
  <2> QED
    BY <1>0, <1>12, <2>1 DEF BufferIntact, Intact, RecvReadFails, rs
<1>m. CASE RecvMistaken
  BY <1>0, <1>m DEF RecvMistaken
<1>13. CASE RecvEnds
  BY <1>0, <1>13 DEF BufferIntact, RecvEnds
<1>14. CASE DecryptIncomplete
  <2>0. MakeRoom
    BY <1>14 DEF DecryptIncomplete
  <2>1. /\ FreeAtEnd # 0 => readPtr' = readPtr /\ readBuffer' = readBuffer
        /\ FreeAtEnd = 0 => readBufferBytes = BufSize - readPtr
        /\ MakeRoom
    BY <2>0, RoomMade
  <2>2. /\ Intact(readPtr, readBufferBytes) /\ taken = WireEnd(rs, seen) + readBufferBytes
        /\ left # None => left = readPtr + readBufferBytes
        /\ rs' = rs /\ seen' = seen /\ readBufferBytes' = readBufferBytes /\ taken' = taken
        /\ left' = left
    BY <1>0, <1>14 DEF BufferIntact, Phases, Untouched, SendPhase, RecvPhase, DecryptIncomplete, rs
  <2>3. Intact(readPtr, readBufferBytes)'
    <3>1. CASE FreeAtEnd # 0
      BY <2>1, <2>2, <3>1 DEF Intact
    <3>2. CASE FreeAtEnd = 0
      <4>1. readPtr' = 0 /\ readBuffer' = MovedDown(readPtr, readBufferBytes)
        BY <2>1, <3>2 DEF MakeRoom
      <4>2. readPtr \in Nat /\ readBufferBytes \in Nat /\ 0 \in Nat
            /\ readPtr + 0 = readPtr /\ 0 + readBufferBytes = readBufferBytes
            /\ readPtr + 0 + readBufferBytes <= BufSize
        BY Bounds
      <4>3. \A k \in 0..(readBufferBytes - 1) : readBuffer'[k] = WireEnd(rs, seen) + (0 + k)
        BY <2>2, <4>1, <4>2, MovedIntact
      <4> QED
        BY <2>2, <4>1, <4>3 DEF Intact
    <3> QED
      BY <3>1, <3>2
  <2>4. left' # None => left' = readPtr' + readBufferBytes'
    <3>1. CASE FreeAtEnd # 0
      BY <2>1, <2>2, <3>1
    <3>2. CASE FreeAtEnd = 0
      <4>1. left # BufSize
        BY Bounds DEF TypeOK, None
      <4>2. readPtr + readBufferBytes = BufSize
        BY <2>1, <3>2, Bounds
      <4> QED
        BY <2>2, <4>1, <4>2
    <3> QED
      BY <3>1, <3>2
  <2>5. pc' \in {"idle", "waiting"}
    BY <2>0, RoomMade
  <2> QED
    BY <1>0, <2>2, <2>3, <2>4, <2>5 DEF BufferIntact
<1>15. CASE DecryptData
  <2>0. /\ ~Incomplete(readBufferBytes) /\ readBufferBytes \in Nat
        /\ m_encrypting
    BY <1>15, Bounds DEF DecryptData, Phases, Untouched, SendPhase, RecvPhase
  <2>1. /\ Intact(readPtr, readBufferBytes) /\ taken = WireEnd(rs, seen) + readBufferBytes
        /\ left = None
    BY <1>0, <1>15, <2>0 DEF BufferIntact, Phases, Untouched, SendPhase, RecvPhase, DecryptData
  <2> DEFINE size == rs[seen + 1].size
  <2>2. /\ size \in 1..readBufferBytes
        /\ WireEnd(rs, seen + 1) = WireEnd(rs, seen) + size
        /\ Extra(1, readBufferBytes) = readBufferBytes - size
    BY <2>0, NextRecord
  <2>3. /\ readBufferBytes' = Extra(1, readBufferBytes)
        /\ readPtr' = IF Extra(1, readBufferBytes) = 0 THEN 0 ELSE readPtr + size
        /\ rs' = rs /\ seen' = seen + 1 /\ taken' = taken /\ readBuffer' = readBuffer
        /\ left' = left /\ pc' = "idle"
    BY <1>15 DEF DecryptData, rs
  <2> HIDE DEF size
  <2>4. WireEnd(rs, seen) \in Nat /\ readPtr \in Nat
    BY Basics
  <2>5. taken' = WireEnd(rs, seen)' + readBufferBytes'
    BY <2>0, <2>1, <2>2, <2>3, <2>4
  <2>6. ASSUME NEW k \in 0..((readBufferBytes - size) - 1)
        PROVE  readBuffer'[readPtr' + k] = WireEnd(rs, seen + 1) + k
    <3>1. readPtr' = readPtr + size /\ readBuffer' = readBuffer
      BY <2>0, <2>2, <2>3
    <3>2. size + k \in 0..(readBufferBytes - 1) /\ (readPtr + size) + k = readPtr + (size + k)
      BY <2>0, <2>2, <2>4
    <3>3. readBuffer[readPtr + (size + k)] = WireEnd(rs, seen) + (size + k)
      BY <2>1, <3>2 DEF Intact
    <3> QED
      BY <2>2, <2>4, <3>1, <3>2, <3>3
  <2>7. Intact(readPtr, readBufferBytes)'
    BY <2>2, <2>3, <2>6 DEF Intact
  <2> QED
    BY <1>0, <2>1, <2>3, <2>5, <2>7 DEF BufferIntact
<1>16. CASE DecryptClose
  BY <1>0, <1>16 DEF BufferIntact, DecryptClose
<1>17. CASE DecryptFails
  BY <1>0, <1>17 DEF BufferIntact, Intact, DecryptFails, rs
<1>18. CASE SendChunk
  BY <1>0, <1>18 DEF BufferIntact, Intact, SendChunk, rs
<1>19. CASE SendFails
  BY <1>0, <1>19 DEF BufferIntact, Intact, SendFails, rs
<1>w. CASE WriteEnds
  BY <1>0, <1>w DEF BufferIntact, Intact, WriteEnds, rs
<1>20. CASE RecvRefused
  BY <1>0, <1>20 DEF BufferIntact, RecvRefused
<1>21. CASE SendRefused
  BY <1>0, <1>21 DEF BufferIntact, SendRefused
<1>22. ASSUME NEW len \in RecvLens, RecvCached(len) PROVE BufferIntact'
  BY <1>0, <1>22 DEF BufferIntact, Intact, RecvCached, rs
<1>23. ASSUME NEW len \in RecvLens, RecvBegin(len) PROVE BufferIntact'
  <2>a. CASE readBufferBytes = 0
    <3>0. MakeRoom
      BY <1>23, <2>a DEF RecvBegin
    <3>1. /\ FreeAtEnd # 0 => readPtr' = readPtr /\ readBuffer' = readBuffer
          /\ FreeAtEnd = 0 => readBufferBytes = BufSize - readPtr
          /\ MakeRoom
      BY <3>0, RoomMade
    <3>2. /\ Intact(readPtr, readBufferBytes) /\ taken = WireEnd(rs, seen) + readBufferBytes
          /\ left # None => left = readPtr + readBufferBytes
          /\ rs' = rs /\ seen' = seen /\ readBufferBytes' = readBufferBytes /\ taken' = taken
          /\ left' = left
      BY <1>0, <1>23 DEF BufferIntact, Phases, Untouched, SendPhase, RecvPhase, RecvBegin, rs
    <3>3. Intact(readPtr, readBufferBytes)'
      <4>1. CASE FreeAtEnd # 0
        BY <3>1, <3>2, <4>1 DEF Intact
      <4>2. CASE FreeAtEnd = 0
        <5>1. readPtr' = 0 /\ readBuffer' = MovedDown(readPtr, readBufferBytes)
          BY <3>1, <4>2 DEF MakeRoom
        <5>2. readPtr \in Nat /\ readBufferBytes \in Nat /\ 0 \in Nat
              /\ readPtr + 0 = readPtr /\ 0 + readBufferBytes = readBufferBytes
              /\ readPtr + 0 + readBufferBytes <= BufSize
          BY Bounds
        <5>3. \A k \in 0..(readBufferBytes - 1) : readBuffer'[k] = WireEnd(rs, seen) + (0 + k)
          BY <3>2, <5>1, <5>2, MovedIntact
        <5> QED
          BY <3>2, <5>1, <5>3 DEF Intact
      <4> QED
        BY <4>1, <4>2
    <3>4. left' # None => left' = readPtr' + readBufferBytes'
      <4>1. CASE FreeAtEnd # 0
        BY <3>1, <3>2, <4>1
      <4>2. CASE FreeAtEnd = 0
        <5>1. left # BufSize
          BY Bounds DEF TypeOK, None
        <5>2. readPtr + readBufferBytes = BufSize
          BY <3>1, <4>2, Bounds
        <5> QED
          BY <3>2, <5>1, <5>2
      <4> QED
        BY <4>1, <4>2
    <3>5. pc' \in {"idle", "waiting"}
      BY <3>0, RoomMade
    <3> QED
      BY <1>0, <3>2, <3>3, <3>4, <3>5 DEF BufferIntact
  <2>b. CASE readBufferBytes # 0
    BY <1>0, <1>23, <2>b DEF BufferIntact, Intact, RecvBegin, rs
  <2> QED
    BY <2>a, <2>b
<1>24. ASSUME NEW len \in SendLens, SendBegin(len) PROVE BufferIntact'
  BY <1>0, <1>24 DEF BufferIntact, Intact, SendBegin, rs
<1> QED
  BY <1>1, <1>2, <1>3, <1>4, <1>5, <1>6, <1>7, <1>8, <1>9, <1>10, <1>11, <1>12, <1>13, <1>14,
     <1>15, <1>16, <1>17, <1>18, <1>19, <1>20, <1>21, <1>22, <1>23, <1>24, <1>m, <1>w
     DEF Next, Handler, Caller

\* Handshake records bring no plaintext.
LEMMA HandshakeText ==
    ASSUME TypeOK, NEW m \in 1..Len(rs), Takes(m)
    PROVE  TextEnd(rs, seen + m) = TextEnd(rs, seen)
<1>1. seen \in 0..Len(rs) /\ seen + m \in seen..Len(rs)
  BY TakesRest, Basics
<1>2. \A i \in (seen + 1)..(seen + m) : rs[i].kind # "data"
  BY DEF Takes, Handshake
<1> QED
  BY <1>1, <1>2, Basics, TextEndStays

\* A step that leaves the plaintext alone.
LEMMA StreamKept ==
    ASSUME StreamExact, UNCHANGED <<s, plainText, received>>,
           TextEnd(rs, seen') = TextEnd(rs, seen)
    PROVE  StreamExact'
<1>1. rs' = rs
  BY DEF rs
<1>2. received' \o plainText' = received \o plainText
  OBVIOUS
<1>3. Positions(0, TextEnd(rs', seen')) = Positions(0, TextEnd(rs, seen))
  BY <1>1
<1> QED
  BY <1>2, <1>3, Zenon DEF StreamExact

\* What callers have and what is cached stays the plaintext of the records taken.
LEMMA StreamStep ==
    ASSUME TypeOK, BufferIntact, Phases, StreamExact, [Next]_vars
    PROVE  StreamExact'
<1> USE DEF loop, text, cross
<1>1. CASE UNCHANGED <<s, plainText, received, seen>>
  BY <1>1, StreamKept
<1>2. CASE TokenContinue \/ TokenDone
  <2>1. PICK m \in 1..Len(rs) : Takes(m) /\ seen' = seen + m
    BY <1>2 DEF TokenContinue, TokenDone
  <2>2. TextEnd(rs, seen') = TextEnd(rs, seen)
    BY <2>1, HandshakeText
  <2> QED
    BY <1>2, <2>2, StreamKept DEF TokenContinue, TokenDone
<1>3. CASE DecryptClose
  <2>0. ~Incomplete(readBufferBytes) /\ readBufferBytes \in Nat
    BY <1>3, Bounds DEF DecryptClose
  <2>1. /\ seen + 1 \in 1..Len(rs) /\ rs[seen + 1].kind # "data"
        /\ TextEnd(rs, seen + 1) = TextEnd(rs, seen) + rs[seen + 1].len
    BY <1>3, <2>0, NextRecord DEF DecryptClose
  <2>2. rs[seen + 1].len = 0 /\ TextEnd(rs, seen) \in Nat
    BY <2>1, Basics, RecordFields, EndsAreNumbers
  <2>3. TextEnd(rs, seen') = TextEnd(rs, seen)
    BY <1>3, <2>1, <2>2 DEF DecryptClose
  <2> QED
    BY <1>3, <2>3, StreamKept DEF DecryptClose
<1>4. CASE DecryptData
  <2>0. ~Incomplete(readBufferBytes) /\ readBufferBytes \in Nat
    BY <1>4, Bounds DEF DecryptData
  <2> DEFINE r == rs[seen + 1]
             T == TextEnd(rs, seen)
             n == Smaller(want, r.len)
  <2>1. r.len \in Nat /\ r.text = T /\ TextEnd(rs, seen + 1) = T + r.len
    BY <2>0, NextRecord
  <2>2. T \in Nat /\ want \in Nat
    BY Basics, EndsAreNumbers DEF TypeOK
  <2>3. n \in Nat /\ r.len - n \in Nat
    BY <2>1, <2>2 DEF Smaller
  <2>4. /\ received' = received \o Positions(T, n)
        /\ plainText' = Positions(T + n, r.len - n)
        /\ rs' = rs /\ seen' = seen + 1
    BY <1>4, <2>1 DEF DecryptData, rs
  <2>5. received = Positions(0, T)
    <3>1. plainText = <<>> /\ received \in Seq(Nat)
      BY <1>4 DEF Phases, Untouched, SendPhase, RecvPhase, DecryptData, TypeOK
    <3>2. received \o <<>> = received
      BY <3>1, ConcatEmptySeq
    <3> QED
      BY <3>1, <3>2, Zenon DEF StreamExact
  <2> HIDE DEF r, T, n
  <2>6. Positions(0, T) \o Positions(T, n) = Positions(0, T + n)
    <3>1. Positions(0, T) \o Positions(0 + T, n) = Positions(0, T + n)
      BY <2>2, <2>3, PositionsJoin
    <3> QED
      BY <2>2, <3>1
  <2>7. Positions(0, T + n) \o Positions(T + n, r.len - n) = Positions(0, T + r.len)
    <3>1. T + n \in Nat /\ 0 + (T + n) = T + n /\ (T + n) + (r.len - n) = T + r.len
      BY <2>1, <2>2, <2>3
    <3>2. Positions(0, T + n) \o Positions(0 + (T + n), r.len - n) = Positions(0, (T + n) + (r.len - n))
      BY <2>3, <3>1, PositionsJoin
    <3> QED
      BY <3>1, <3>2
  <2>8. received' \o plainText' = Positions(0, T + r.len)
    BY <2>4, <2>5, <2>6, <2>7, Zenon
  <2>9. TextEnd(rs', seen') = T + r.len
    BY <2>1, <2>4 DEF r, T
  <2> QED
    BY <2>8, <2>9, Zenon DEF StreamExact
<1>5. ASSUME NEW len \in RecvLens, RecvCached(len) PROVE StreamExact'
  <2> DEFINE n == Smaller(len, Len(plainText))
             a == SubSeq(plainText, 1, n)
             b == SubSeq(plainText, n + 1, Len(plainText))
  <2>1. len \in Nat /\ plainText \in Seq(Nat) /\ received \in Seq(Nat) /\ Len(plainText) \in Nat
    BY TlsAssumption DEF TypeOK
  <2>2. n \in 0..Len(plainText)
    BY <2>1 DEF Smaller
  <2>3. received' = received \o a /\ plainText' = b /\ rs' = rs /\ seen' = seen
    BY <1>5 DEF RecvCached, rs
  <2>4. a \in Seq(Nat) /\ b \in Seq(Nat) /\ a \o b = plainText
    BY <2>1, <2>2, NumbersCut
  <2> HIDE DEF a, b, n
  <2>5. (received \o a) \o b = received \o (a \o b)
    <3>1. received \in Seq(Nat) /\ a \in Seq(Nat) /\ b \in Seq(Nat)
      BY <2>1, <2>4
    <3> QED
      BY <3>1, ConcatAssociative
  <2>6. received' \o plainText' = received \o plainText
    BY <2>3, <2>4, <2>5, Zenon
  <2> QED
    BY <2>3, <2>6, Zenon DEF StreamExact
<1>6. CASE UNCHANGED vars
  BY <1>6, <1>1 DEF vars
<1>7. ASSUME NEW len \in RecvLens, RecvBegin(len) PROVE StreamExact'
  BY <1>7, <1>1 DEF RecvBegin
<1>8. ASSUME NEW len \in SendLens, SendBegin(len) PROVE StreamExact'
  BY <1>8, <1>1 DEF SendBegin
<1>9. CASE Hello \/ HandshakeRead \/ HandshakeReadFails \/ HandshakeNoRead \/ TokenIncomplete
            \/ TokenAsks \/ TokenFails
  BY <1>9, <1>1 DEF Hello, HandshakeRead, HandshakeReadFails, HandshakeNoRead, TokenIncomplete,
                    TokenAsks, TokenFails
<1>10. CASE RecvRead \/ RecvReadFails \/ RecvMistaken \/ RecvEnds \/ DecryptIncomplete
            \/ DecryptFails \/ SendChunk \/ SendFails \/ WriteEnds \/ RecvRefused \/ SendRefused
  BY <1>10, <1>1 DEF RecvRead, RecvReadFails, RecvMistaken, RecvEnds, WriteEnds, DecryptIncomplete, DecryptFails,
                     SendChunk, SendFails, RecvRefused, SendRefused
<1> QED
  BY <1>2, <1>3, <1>4, <1>5, <1>6, <1>7, <1>8, <1>9, <1>10 DEF Next, Handler, Caller

\* The server's certificate is accepted before anything is answered to it.
LEMMA StrangerStep ==
    ASSUME TypeOK, Phases, NoAnswerToStranger, [Next]_vars
    PROVE  NoAnswerToStranger'
<1> USE DEF loop, text, cross
<1>1. CASE UNCHANGED <<s, tokens, m_encrypting>>
  BY <1>1 DEF NoAnswerToStranger
<1>2. CASE Hello
  BY <1>2 DEF NoAnswerToStranger, Hello, Phases, Untouched, SendPhase, RecvPhase
<1>3. CASE TokenContinue \/ TokenDone
  <2>1. PICK m \in 1..Len(rs) :
            /\ Takes(m) /\ ~Refused(m)
            /\ tokens' = tokens + (IF rs[seen + m].reply THEN 1 ELSE 0)
            /\ rs[seen + m].kind = "fin" \/ m_encrypting' = m_encrypting
    BY <1>3 DEF TokenContinue, TokenDone
  <2>2. seen + m \in 1..Len(rs)
    <3>1. seen \in Nat /\ Len(rs) \in Nat
      BY Basics
    <3>2. seen + m \in 0..Len(rs)
      BY <2>1, TakesRest
    <3> QED
      BY <3>1, <3>2
  <2>3. rs[seen + m].kind = "fin" \/ rs[seen + m].reply => s.accept
    <3>1. SUFFICES ASSUME rs[seen + m].kind = "fin" \/ rs[seen + m].reply PROVE s.accept
      OBVIOUS
    <3>2. \E j \in 1..(seen + m) : rs[j].kind = "cert"
      BY <2>2, <3>1, Basics, SessionFields DEF WellFormed
    <3> QED
      BY <2>1, <3>2 DEF Refused
  <2>4. ~rs[seen + m].reply => tokens' = tokens
    BY <2>1 DEF TypeOK
  <2>5. s' = s
    BY <1>3 DEF TokenContinue, TokenDone
  <2> QED
    BY <2>1, <2>3, <2>4, <2>5 DEF NoAnswerToStranger
<1>4. CASE RecvEnds \/ DecryptClose
  BY <1>4 DEF NoAnswerToStranger, RecvEnds, DecryptClose
<1>5. CASE UNCHANGED vars
  BY <1>5, <1>1 DEF vars
<1>6. ASSUME NEW len \in RecvLens, RecvCached(len) \/ RecvBegin(len) PROVE NoAnswerToStranger'
  BY <1>6, <1>1 DEF RecvBegin, RecvCached
<1>7. ASSUME NEW len \in SendLens, SendBegin(len) PROVE NoAnswerToStranger'
  BY <1>7, <1>1 DEF SendBegin
<1>8. CASE HandshakeRead \/ HandshakeReadFails \/ HandshakeNoRead \/ TokenIncomplete
            \/ TokenAsks \/ TokenFails
  BY <1>8, <1>1 DEF HandshakeRead, HandshakeReadFails, HandshakeNoRead, TokenIncomplete,
                    TokenAsks, TokenFails
<1>9. CASE RecvRead \/ RecvReadFails \/ RecvMistaken \/ DecryptIncomplete \/ DecryptData
            \/ DecryptFails \/ SendChunk \/ SendFails \/ WriteEnds \/ RecvRefused \/ SendRefused
  BY <1>9, <1>1 DEF RecvRead, RecvReadFails, RecvMistaken, WriteEnds, DecryptIncomplete, DecryptData, DecryptFails,
                    SendChunk, SendFails, RecvRefused, SendRefused
<1> QED
  BY <1>2, <1>3, <1>4, <1>5, <1>6, <1>7, <1>8, <1>9 DEF Next, Handler, Caller

-----------------------------------------------------------------------------
(* Theorems *)

Inv == TypeOK /\ BufferIntact /\ Phases /\ StreamExact /\ NoAnswerToStranger

LEMMA InvInit == Init => Inv
<1> SUFFICES ASSUME Init PROVE Inv
  OBVIOUS
<1>1. s \in Sessions /\ Len(s.records) \in Nat /\ Len(s.records) \in 0..Len(s.records)
  BY SessionFields DEF Init
<1>2. BufSize \in Nat /\ BufSize > 0
  BY TlsAssumption
<1>3. TypeOK
  <2>1. s \in Sessions /\ seen \in 0..Len(rs) /\ taken \in Nat
    BY <1>1 DEF Init, rs
  <2>2. readBuffer \in [0..(BufSize - 1) -> Int]
    BY DEF Init, None
  <2>3. /\ readPtr \in 0..(BufSize - 1) /\ readBufferBytes \in 0..(BufSize - readPtr)
        /\ cbIoBuffer \in 0..BufSize
    BY <1>2 DEF Init
  <2>4. left \in {None} \cup 0..(BufSize - 1)
    BY DEF Init
  <2>5. fDoRead \in BOOLEAN /\ newCreds \in BOOLEAN /\ m_encrypting \in BOOLEAN
    BY Zenon DEF Init
  <2>6. tokens \in Nat /\ want \in Nat /\ result \in Int
    BY DEF Init
  <2>7. plainText \in Seq(Nat) /\ received \in Seq(Nat) /\ written \in Seq(Nat)
    BY DEF Init
  <2>8. /\ scRet \in {"continue", "incomplete"}
        /\ pc \in {"start", "negotiate", "token", "idle", "decrypt", "waiting", "sending", "failed",
                   "lost"}
    BY DEF Init
  <2>9. writing \in BOOLEAN
    BY Zenon DEF Init
  <2>10. mixed \in 0..MaxMixed
    BY TlsAssumption DEF Init
  <2> QED
    BY <2>1, <2>2, <2>3, <2>4, <2>5, <2>6, <2>7, <2>8, <2>9, <2>10, Zenon DEF TypeOK
<1>4. BufferIntact /\ NoAnswerToStranger
  BY DEF Init, BufferIntact, NoAnswerToStranger
<1>5. Phases
  <2>1. WireEnd(rs, Len(rs)) \in Nat
    BY <1>3, Basics
  <2> QED
    BY <2>1 DEF Init, Phases, Untouched, SendPhase, RecvPhase
<1>6. StreamExact
  <2>1. TextEnd(rs, seen) = 0
    BY DEF Init, TextEnd
  <2>2. Positions(0, 0) = <<>>
    BY DEF Positions
  <2>3. received \o plainText = <<>>
    BY DEF Init
  <2> QED
    BY <2>1, <2>2, <2>3 DEF StreamExact
<1> QED
  BY <1>3, <1>4, <1>5, <1>6 DEF Inv

LEMMA InvHolds == Spec => []Inv
<1>1. Inv /\ [Next]_vars => Inv'
  BY TypeStep, IntactStep, PhasesStep, StreamStep, StrangerStep DEF Inv
<1> QED
  BY <1>1, InvInit, PTL DEF Spec

\* Every variable keeps its type, and with it every read and move stays inside
\* the buffer of CSSLClient, for every buffer size and every script of records.
THEOREM TypeCorrect == Spec => []TypeOK
BY InvHolds, PTL DEF Inv

\* Until a call is begun over an operation still under way, the bytes Schannel is given
\* are the next ones of the stream, and a read left active by a timeout writes behind
\* them.
THEOREM BufferStaysIntact == Spec => []BufferIntact
BY InvHolds, PTL DEF Inv

\* Callers of Recv get the server's plaintext: every byte, once and in order, also
\* when a Recv was told the length of a write.
THEOREM StreamIsExact == Spec => []StreamExact
BY InvHolds, PTL DEF Inv

\* No token after the first, and no record, leaves for a server whose certificate
\* was not accepted.
THEOREM StrangersUnanswered == Spec => []NoAnswerToStranger
BY InvHolds, PTL DEF Inv

\* The socket is waited for only when the next record is not complete, until a call
\* is begun over an operation still under way.
THEOREM WaitsForMissing == Spec => []WaitsOnlyForMissing
<1>1. Inv => WaitsOnlyForMissing
  <2> SUFFICES ASSUME Inv PROVE WaitsOnlyForMissing
    OBVIOUS
  <2>1. seen < Len(rs) => rs[seen + 1].size > 0
    <3>1. seen < Len(rs) => seen + 1 \in 1..Len(rs)
      BY Basics DEF Inv
    <3> QED
      BY <3>1, Basics, RecordFields DEF Inv
  <2>2. cbIoBuffer = 0 => Incomplete(cbIoBuffer)
    BY <2>1 DEF Incomplete
  <2>3. pc = "waiting" /\ mixed = 0 => Incomplete(readBufferBytes)
    <3>1. SUFFICES ASSUME pc = "waiting", mixed = 0 PROVE Incomplete(readBufferBytes)
      OBVIOUS
    <3>2. Intact(readPtr, readBufferBytes)
      BY <3>1 DEF Inv, Phases, RecvPhase, BufferIntact
    <3>3. Incomplete(readBufferBytes) \/ ~Authentic(readBufferBytes)
      BY <3>1 DEF Inv, Phases, RecvPhase
    <3> QED
      BY <3>2, <3>3, IntactIsAuthentic DEF Inv
  <2> QED
    BY <2>2, <2>3 DEF Inv, Phases, Untouched, WaitsOnlyForMissing, NeedsRead
<1> QED
  BY <1>1, InvHolds, PTL

\* The read buffer is never full with a record that is not complete: "Recv Buffer
\* inexplicably full" cannot happen, until a call is begun over an operation still
\* under way, and the negotiate loop never reads into no room.
THEOREM AlwaysRoom == Spec => []RoomForMore
<1>1. Inv => RoomForMore
  <2> SUFFICES ASSUME Inv PROVE RoomForMore
    OBVIOUS
  <2>0. TypeOK
    BY DEF Inv
  <2>1. ASSUME NEW n \in Nat, Incomplete(n), taken = WireEnd(rs, seen) + n PROVE n < BufSize
    <3>1. CASE seen < Len(rs)
      <4>1. seen + 1 \in 1..Len(rs)
        BY <2>0, <3>1, Basics
      <4>2. rs[seen + 1].size \in Nat /\ rs[seen + 1].size <= BufSize
        BY <2>0, <4>1, Basics, RecordFields
      <4>3. n < rs[seen + 1].size
        BY <2>1, <3>1 DEF Incomplete
      <4> QED
        BY <2>0, <4>2, <4>3, Bounds
    <3>2. CASE ~(seen < Len(rs))
      <4>1. seen = Len(rs)
        BY <2>0, <3>2, Basics
      <4>2. taken <= WireEnd(rs, seen) /\ WireEnd(rs, seen) \in Nat
        BY <2>0, <4>1, Basics DEF Inv, Phases, Untouched, SendPhase, RecvPhase
      <4> QED
        BY <2>0, <2>1, <4>2, Bounds
    <3> QED
      BY <3>1, <3>2
  <2>2. ASSUME pc = "decrypt", Incomplete(readBufferBytes), mixed = 0 PROVE ~Full
    <3>1. taken = WireEnd(rs, seen) + readBufferBytes
      BY <2>2 DEF Inv, Phases, RecvPhase, BufferIntact
    <3>2. readBufferBytes < BufSize
      BY <2>0, <2>1, <2>2, <3>1, Bounds
    <3> QED
      BY <2>0, <3>2, Bounds DEF Full, FreeAtEnd
  <2>3. ASSUME pc = "negotiate", NeedsRead PROVE cbIoBuffer < BufSize
    <3>1. CASE cbIoBuffer = 0
      BY <2>0, <3>1, Bounds
    <3>2. CASE cbIoBuffer # 0
      <4>1. Incomplete(cbIoBuffer) /\ taken = WireEnd(rs, seen) + cbIoBuffer
        BY <2>3, <3>2 DEF Inv, Phases, Untouched, SendPhase, RecvPhase, BufferIntact, NeedsRead
      <4> QED
        BY <2>0, <2>1, <4>1, Bounds
    <3> QED
      BY <3>1, <3>2
  <2> QED
    BY <2>2, <2>3 DEF RoomForMore
<1> QED
  BY <1>1, InvHolds, PTL

-----------------------------------------------------------------------------
(* The session is a stream *)

\* Callers of Recv have a beginning of the server's plaintext.
HasBeginning ==
    /\ received = Stream!FromStart(Len(received))
    /\ Len(received) <= TextEnd(rs, Len(rs))

LEMMA FromStartIs ==
    ASSUME NEW n \in Nat
    PROVE  /\ Stream!FromStart(n) = Positions(0, n)
           /\ Stream!FromStart(n) \in Seq(Nat) /\ Len(Stream!FromStart(n)) = n
BY DEF Stream!FromStart, Positions

LEMMA BeginningHeld ==
    ASSUME TypeOK, StreamExact
    PROVE  HasBeginning
<1> DEFINE T == TextEnd(rs, seen)
           n == Len(received)
<1>1. /\ T \in Nat /\ TextEnd(rs, Len(rs)) \in Nat /\ T <= TextEnd(rs, Len(rs))
  <2>1. seen \in 0..Len(rs) /\ Len(rs) \in seen..Len(rs) /\ Len(rs) \in 0..Len(rs)
    BY Basics
  <2> QED
    BY <2>1, Basics, EndsAreNumbers, TextEndGrows
<1>2. received \in Seq(Nat) /\ plainText \in Seq(Nat) /\ n \in Nat /\ Len(plainText) \in Nat
  BY DEF TypeOK
<1>3. received \o plainText = Positions(0, T)
  BY DEF StreamExact
<1> HIDE DEF T
<1>4. /\ Len(received \o plainText) = n + Len(plainText)
      /\ \A i \in 1..n : (received \o plainText)[i] = received[i]
  BY <1>2
<1>5. Len(Positions(0, T)) = T /\ \A i \in 1..T : Positions(0, T)[i] = i
  BY <1>1 DEF Positions
<1>6. n <= T
  BY <1>2, <1>3, <1>4, <1>5
<1>7. ASSUME NEW i \in 1..n PROVE received[i] = i
  <2>1. i \in 1..T
    BY <1>1, <1>2, <1>6
  <2>2. received[i] = (received \o plainText)[i]
    BY <1>4
  <2> QED
    BY <1>3, <1>5, <2>1, <2>2
<1>8. received = Stream!FromStart(n)
  <2>1. Stream!FromStart(n) \in Seq(Nat) /\ Len(Stream!FromStart(n)) = n
    BY <1>2, FromStartIs
  <2>2. \A i \in 1..n : Stream!FromStart(n)[i] = received[i]
    BY <1>7 DEF Stream!FromStart
  <2> HIDE DEF n
  <2>3. n = Len(received)
    BY DEF n
  <2> QED
    BY <1>2, <2>1, <2>2, <2>3, SeqEqual
<1> QED
  BY <1>1, <1>6, <1>8 DEF HasBeginning

\* Nothing was mixed, and nothing is by this step.
Unmixed == mixed = 0 /\ mixed' = 0

\* A Recv that returns k bytes.
LEMMA RecvIsRecv ==
    ASSUME TypeOK, TypeOK', HasBeginning', NEW k \in Nat, NEW q \in Seq(Nat), Len(q) = k,
           pc \in {"idle", "decrypt", "waiting"}, pc' = "idle", result' = k, received' = received \o q,
           pc = "idle" \/ want' = want, k <= want', UNCHANGED <<s, written>>,
           ~writing, ~writing', Unmixed
    PROVE  Stream!Promised
<1>1. Len(received') = Len(received) + k /\ rs' = rs /\ want' \in Nat
  <2>1. received \in Seq(Nat) /\ want' \in Nat
    BY DEF TypeOK
  <2>2. Len(received \o q) = Len(received) + k
    BY <2>1, ConcatProperties
  <2> QED
    BY <2>1, <2>2 DEF rs
<1>2. /\ received' = Stream!FromStart(Len(received) + k)
      /\ Len(received) + k <= TextEnd(rs, Len(rs))
  BY <1>1 DEF HasBeginning
<1>3. Calling \in {"none", "recv"} /\ Calling' = "none" /\ (pc # "idle" => Calling # "none")
  BY DEF Calling
<1>4. want' \in Stream!Lengths
  BY <1>1, <1>3 DEF Stream!Lengths, Calling
<1>5. k \in 0..want'
  BY <1>1
<1>6. Stream!RecvReturns
  BY <1>1, <1>2, <1>3, <1>4, <1>5 DEF Stream!RecvReturns
<1> QED
  BY <1>6 DEF Stream!Promised, Unmixed

\* A call that fails, at once or later. The record of a Send may have left, or still
\* be under way.
LEMMA FailIsFail ==
    ASSUME TypeOK', pc \in {"idle", "decrypt", "waiting", "sending"}, pc' = "idle", result' = None,
           pc = "idle" \/ want' = want, UNCHANGED <<s, received>>, ~writing, Unmixed,
           ~writing' \/ pc = "sending", UNCHANGED written \/ (pc = "sending" /\ Stream!SendsMore)
    PROVE  Stream!Promised
<1>1. rs' = rs /\ want' \in Nat
  BY DEF rs, TypeOK
<1>2. Calling \in {"none", "recv", "send"} /\ (Calling = "send" <=> pc = "sending")
      /\ Calling' \in {"none"} \cup (IF Calling = "send" THEN {"late"} ELSE {})
  BY DEF Calling
<1>3. want' \in Stream!Lengths
  BY <1>1 DEF Stream!Lengths, Calling
<1>4. Stream!Fails
  BY <1>1, <1>2, <1>3 DEF Stream!Fails, None
<1> QED
  BY <1>4 DEF Stream!Promised, Unmixed

\* A call that begins and does not return at once.
LEMMA BeginIsBegin ==
    ASSUME pc = "idle", pc' \in {"decrypt", "waiting", "sending"}, ~writing, Unmixed, want' \in Nat,
           written' = IF pc' = "sending" THEN <<>> ELSE written,
           UNCHANGED <<s, received, result>>
    PROVE  Stream!Promised
<1>1. rs' = rs /\ Calling = "none" /\ Calling' \in {"recv", "send"}
      /\ (Calling' = "send" <=> pc' = "sending")
  BY DEF rs, Calling
<1>2. Stream!Begins
  BY <1>1 DEF Stream!Begins
<1> QED
  BY <1>2 DEF Stream!Promised, Unmixed

\* A step inside a call, or before there are calls.
LEMMA QuietIsQuiet ==
    ASSUME Calling' = Calling, UNCHANGED <<s, want, received, written, result, mixed>>
    PROVE  UNCHANGED Stream!svars
<1>1. rs' = rs
  BY DEF rs
<1> QED
  BY <1>1 DEF Stream!svars

\* The peer is sent one more record of the caller's bytes.
LEMMA MoreIsSent ==
    ASSUME TypeOK, Phases, pc = "sending" \/ (writing /\ mixed = 0), UNCHANGED want,
           written' = written \o Positions(Len(written), Chunk)
    PROVE  Stream!SendsMore
<1> DEFINE n == Len(written) + Chunk
<1>1. n \in Len(written)..want /\ n \in Nat /\ written' = Positions(0, n)
  BY NextChunk
<1> HIDE DEF n
<1>2. written' = Stream!FromStart(n)
  BY <1>1, FromStartIs
<1> QED
  BY <1>1, <1>2 DEF Stream!SendsMore

\* Where a step takes place without anything mixed.
LEMMA CrossesNone ==
    ASSUME TypeOK, NEW read \in BOOLEAN, Crosses(read), mixed' = 0
    PROVE  ~writing /\ ~writing' /\ ~read /\ Unmixed
<1>1. mixed \in Nat
  BY TlsAssumption DEF TypeOK
<1> QED
  BY <1>1 DEF Crosses, Unmixed

\* Every step of the session is a step of the stream.
LEMMA SessionStep ==
    ASSUME Inv, TypeOK', HasBeginning', [Next]_vars
    PROVE  [Stream!SNext]_(Stream!svars)
<1> USE DEF loop, text, cross
<1>0. TypeOK /\ Phases
  BY DEF Inv
<1>z. CASE mixed' # 0
  <2>1. mixed' > 0
    BY <1>0, <1>z, MixedStays
  <2> QED
    BY <2>1 DEF Stream!SNext, Stream!Misused
<1>y. SUFFICES ASSUME mixed' = 0 PROVE [Stream!SNext]_(Stream!svars)
  BY <1>z
<1>x. Unmixed
  BY <1>0, <1>y, MixedStays DEF Unmixed
<1>v. SUFFICES ASSUME ~(UNCHANGED Stream!svars) PROVE Stream!Promised
  BY DEF Stream!SNext
<1>u. pc # "idle" => ~writing
  BY <1>0, <1>x DEF Phases, SendPhase, Unmixed
<1>1. CASE Hello \/ HandshakeRead \/ HandshakeReadFails \/ HandshakeNoRead \/ TokenIncomplete
           \/ TokenAsks \/ TokenContinue \/ TokenDone \/ TokenFails \/ RecvRead
  <2>1. UNCHANGED <<s, want, received, written, result, mixed, writing>> /\ pc # "idle"
    BY <1>1 DEF Hello, HandshakeRead, HandshakeReadFails, HandshakeNoRead, TokenIncomplete,
                TokenAsks, TokenContinue, TokenDone, TokenFails, RecvRead
  <2>2. Calling' = Calling
    BY <1>1, <1>u, <2>1
       DEF Hello, HandshakeRead, HandshakeReadFails, HandshakeNoRead, TokenIncomplete,
           TokenAsks, TokenContinue, TokenDone, TokenFails, RecvRead, Calling
  <2> QED
    BY <1>v, <2>1, <2>2, QuietIsQuiet
<1>2. CASE RecvReadFails \/ DecryptFails
  <2>1. /\ pc \in {"decrypt", "waiting"} /\ pc' = "idle" /\ result' = None
        /\ UNCHANGED <<s, want, received, written, writing>>
    BY <1>2 DEF RecvReadFails, DecryptFails
  <2> QED
    BY <1>u, <1>x, <2>1, FailIsFail
<1>r. CASE RecvRefused \/ SendRefused
  <2>1. /\ pc = "idle" /\ pc' = "idle" /\ result' = None /\ Crosses(FALSE)
        /\ UNCHANGED <<s, want, received, written>>
    BY <1>r DEF RecvRefused, SendRefused
  <2>2. ~writing /\ ~writing'
    BY <1>0, <1>y, <2>1, CrossesNone
  <2> QED
    BY <1>x, <2>1, <2>2, FailIsFail
<1>f. CASE SendFails
  <2>1. /\ pc = "sending" /\ pc' = "idle" /\ result' = None
        /\ UNCHANGED <<s, want, received>>
        /\ \/ UNCHANGED written
           \/ written' = written \o Positions(Len(written), Chunk)
    BY <1>f DEF SendFails
  <2>2. UNCHANGED written \/ Stream!SendsMore
    BY <1>0, <2>1, MoreIsSent
  <2> QED
    BY <1>u, <1>x, <2>1, <2>2, FailIsFail
<1>w. CASE WriteEnds
  <2>1. /\ writing /\ ~writing' /\ UNCHANGED <<s, pc, want, received, result>>
        /\ \/ UNCHANGED written
           \/ written' = written \o Positions(Len(written), Chunk)
    BY <1>w, Zenon DEF WriteEnds
  <2>2. UNCHANGED written \/ Stream!SendsMore
    BY <1>0, <1>x, <2>1, MoreIsSent DEF Unmixed
  <2>3. rs' = rs /\ Calling = "late" /\ Calling' = "none"
    BY <1>u, <2>1 DEF rs, Calling
  <2>4. Stream!SendsLate
    BY <2>1, <2>2, <2>3 DEF Stream!SendsLate
  <2> QED
    BY <1>x, <2>4 DEF Stream!Promised, Unmixed
<1>m. CASE RecvMistaken
  BY <1>m, <1>x DEF RecvMistaken, Unmixed
<1>3. CASE RecvEnds \/ DecryptClose
  <2>1. received \in Seq(Nat) /\ want \in Nat
    BY <1>0 DEF TypeOK
  <2>2. received = received \o <<>>
    BY <2>1, ConcatEmptySeq
  <2>3. pc \in {"decrypt", "waiting"} /\ pc' = "idle" /\ result' = 0
        /\ UNCHANGED <<s, want, received, written, writing>>
    BY <1>3 DEF RecvEnds, DecryptClose
  <2>4. <<>> \in Seq(Nat) /\ Len(<<>>) = 0 /\ 0 \in Nat /\ 0 <= want'
    BY <2>1, <2>3
  <2>5. received' = received \o <<>>
    BY <2>2, <2>3
  <2>6. ~writing /\ ~writing'
    BY <1>u, <2>3
  <2> QED
    BY <1>0, <1>x, <2>3, <2>4, <2>5, <2>6, RecvIsRecv
<1>4. CASE DecryptIncomplete
  <2>1. UNCHANGED <<s, want, received, written, mixed, writing>> /\ pc = "decrypt"
    BY <1>4 DEF DecryptIncomplete
  <2>2. CASE Full
    <3>1. pc' = "idle" /\ result' = None
      BY <1>4, <2>2 DEF DecryptIncomplete, MakeRoom
    <3> QED
      BY <1>u, <1>x, <2>1, <3>1, FailIsFail
  <2>3. CASE ~Full
    <3>1. pc' = "waiting" /\ result' = result
      BY <1>4, <2>3 DEF DecryptIncomplete, MakeRoom
    <3> QED
      BY <1>v, <2>1, <3>1, QuietIsQuiet DEF Calling
  <2> QED
    BY <2>2, <2>3
<1>5. CASE DecryptData
  <2> DEFINE r == rs[seen + 1]
             n == Smaller(want, r.len)
  <2>0. ~Incomplete(readBufferBytes) /\ readBufferBytes \in Nat
    BY <1>0, <1>5, Bounds DEF DecryptData
  <2>1. r.len \in Nat /\ r.text \in Nat /\ want \in Nat
    BY <1>0, <2>0, NextRecord, Basics, RecordFields DEF TypeOK
  <2>2. n \in Nat /\ n <= want
    BY <2>1 DEF Smaller
  <2>3. /\ received' = received \o Positions(r.text, n) /\ result' = n /\ pc = "decrypt"
        /\ pc' = "idle" /\ UNCHANGED <<s, want, written, writing>>
    BY <1>5 DEF DecryptData
  <2> HIDE DEF r, n
  <2>4. Positions(r.text, n) \in Seq(Nat) /\ Len(Positions(r.text, n)) = n
    BY <2>1, <2>2, PositionsType
  <2>5. n <= want' /\ ~writing /\ ~writing'
    BY <1>u, <2>2, <2>3
  <2> QED
    BY <1>0, <1>x, <2>2, <2>3, <2>4, <2>5, RecvIsRecv
<1>6. CASE SendChunk
  <2>1. /\ pc = "sending" /\ UNCHANGED <<s, want, received, mixed, writing>>
        /\ written' = written \o Positions(Len(written), Chunk)
    BY <1>6 DEF SendChunk
  <2>2. Stream!SendsMore
    BY <1>0, <2>1, MoreIsSent
  <2>3. rs' = rs /\ Calling = "send" /\ ~writing'
    BY <1>u, <2>1 DEF rs, Calling
  <2> DEFINE n == Len(written) + Chunk
  <2>4. n \in Nat /\ n <= want /\ want \in Nat /\ written' = Positions(0, n)
    BY <1>0, <2>1, NextChunk
  <2>5. CASE n < want
    <3>1. UNCHANGED <<pc, result>>
      BY <1>6, <2>5 DEF SendChunk
    <3>2. Calling' = Calling
      BY <2>3, <2>1, <3>1 DEF Calling
    <3>4. Stream!Sends
      BY <2>1, <2>2, <2>3, <3>1, <3>2 DEF Stream!Sends
    <3> QED
      BY <1>x, <3>4 DEF Stream!Promised, Unmixed
  <2>6. CASE ~(n < want)
    <3>1. pc' = "idle" /\ result' = n /\ n = want
      BY <1>6, <2>4, <2>6 DEF SendChunk
    <3> HIDE DEF n
    <3>2. written' = Stream!FromStart(want)
      BY <2>4, <3>1, FromStartIs
    <3>3. Calling' = "none"
      BY <2>3, <3>1 DEF Calling
    <3>4. Stream!SendReturns
      BY <2>1, <2>3, <3>1, <3>2, <3>3 DEF Stream!SendReturns
    <3> QED
      BY <1>x, <3>4 DEF Stream!Promised, Unmixed
  <2> QED
    BY <2>5, <2>6
<1>7. ASSUME NEW len \in RecvLens, RecvCached(len) PROVE Stream!Promised
  <2> DEFINE n == Smaller(len, Len(plainText))
             q == SubSeq(plainText, 1, n)
  <2>1. len \in Nat /\ plainText \in Seq(Nat) /\ Len(plainText) \in Nat
    <3>1. plainText \in Seq(Nat)
      BY <1>0 DEF TypeOK
    <3>2. len \in Nat
      BY TlsAssumption
    <3> QED
      BY <3>1, <3>2
  <2>2. n \in Nat /\ n <= len /\ n <= Len(plainText)
    BY <2>1 DEF Smaller
  <2>3. /\ received' = received \o q /\ result' = n /\ want' = len /\ pc = "idle" /\ pc' = "idle"
        /\ UNCHANGED <<s, written>> /\ Crosses(FALSE)
    BY <1>7 DEF RecvCached
  <2>4. q \in Seq(Nat) /\ Len(q) = n
    BY <2>1, <2>2
  <2>5. ~writing /\ ~writing'
    BY <1>0, <1>y, <2>3, CrossesNone
  <2> HIDE DEF q, n
  <2> QED
    BY <1>0, <1>x, <2>2, <2>3, <2>4, <2>5, RecvIsRecv
<1>8. ASSUME NEW len \in RecvLens, RecvBegin(len) PROVE Stream!Promised
  <2>1. /\ pc = "idle" /\ UNCHANGED <<s, received, written>> /\ want' = len /\ len \in Nat
        /\ Crosses(FALSE)
        /\ \/ pc' = "idle" /\ result' = None
           \/ pc' \in {"decrypt", "waiting"} /\ UNCHANGED result
    BY <1>8, TlsAssumption DEF RecvBegin, MakeRoom
  <2>2. ~writing /\ ~writing'
    BY <1>0, <1>y, <2>1, CrossesNone
  <2>3. CASE pc' = "idle" /\ result' = None
    BY <1>x, <2>1, <2>2, <2>3, FailIsFail
  <2>4. CASE pc' \in {"decrypt", "waiting"} /\ UNCHANGED result
    BY <1>x, <2>1, <2>2, <2>4, BeginIsBegin
  <2> QED
    BY <2>1, <2>3, <2>4
<1>9. ASSUME NEW len \in SendLens, SendBegin(len) PROVE Stream!Promised
  <2>1. /\ pc = "idle" /\ pc' = "sending" /\ want' = len /\ written' = <<>> /\ len \in Nat
        /\ UNCHANGED <<s, received, result>> /\ Crosses(left # None)
    BY <1>9, TlsAssumption DEF SendBegin
  <2>2. ~writing
    BY <1>0, <1>y, <2>1, CrossesNone
  <2> QED
    BY <1>x, <2>1, <2>2, BeginIsBegin
<1>10. CASE UNCHANGED vars
  <2>1. UNCHANGED <<s, pc, want, received, written, result, mixed, writing>>
    BY <1>10 DEF vars
  <2> QED
    BY <1>v, <2>1, QuietIsQuiet DEF Calling
<1> QED
  BY <1>1, <1>2, <1>3, <1>4, <1>5, <1>6, <1>7, <1>8, <1>9, <1>10, <1>r, <1>f, <1>w, <1>m
     DEF Next, Handler, Caller

\* A TLS session implements ByteStream: each Recv continues where the last one
\* ended and returns no more than it was asked for, whatever lies between them,
\* and a Send that returns a length has sent exactly the caller's bytes, until a call
\* is begun over an operation still under way.
THEOREM SessionIsStream == Spec => GivesStream
<1>1. Init => Stream!SInit
  <2> SUFFICES ASSUME Init PROVE Stream!SInit
    OBVIOUS
  <2>1. TypeOK
    BY InvInit DEF Inv
  <2>2. TextEnd(rs, Len(rs)) \in Nat
    BY <2>1, Basics, EndsAreNumbers
  <2> QED
    BY <2>2 DEF Init, Stream!SInit, Calling
<1>2. Inv => HasBeginning /\ TypeOK
  BY BeginningHeld DEF Inv
<1>3. Inv /\ TypeOK' /\ HasBeginning' /\ [Next]_vars => [Stream!SNext]_(Stream!svars)
  BY SessionStep
<1>4. Spec => Stream!SSpec
  BY <1>1, <1>2, <1>3, InvHolds, PTL DEF Spec, Stream!SSpec
<1> QED
  BY <1>4 DEF GivesStream
=============================================================================
