-------------------------- MODULE HttpRequestProofs --------------------------
(***************************************************************************)
(* Theorems about HttpRequest, for every set of scenarios, every buffer    *)
(* size and every limit that satisfies the module's assumptions.           *)
(***************************************************************************)
EXTENDS HttpRequest, WellFoundedInduction, SequenceTheorems, TLAPS

\* What a scenario's fields are; the only use of the assumption on Scenarios.
LEMMA ScenarioFields ==
    ASSUME NEW s \in Scenarios
    PROVE  /\ s.max \in Nat \ {0}
           /\ s.on_chunk \in BOOLEAN
           /\ s.te \in BOOLEAN
           /\ s.cl \in Nat \cup {None}
           /\ s.wire \in Seq(Cells)
           /\ s.head \in BOOLEAN
           /\ s.clBad \in BOOLEAN
           /\ s.payload \in Seq(Cells)
           /\ s.frames \in Seq([at : Nat \ {0}, off : Nat])
  BY ScenariosAssumption DEF Scenario

\* Every non-empty set of naturals has a least element.
LEMMA LeastElement ==
    \A S \in SUBSET Nat : S # {} => \E i \in S : \A j \in S : i <= j
  <1> SUFFICES ASSUME NEW S \in SUBSET Nat, S # {}
               PROVE  \E i \in S : \A j \in S : i <= j
    OBVIOUS
  <1> DEFINE Less == OpToRel(<, Nat)
  <1>1. PICK i \in S : \A j \in S : ~(<<j, i>> \in Less)
    BY NatLessThanWellFounded, WFMin
  <1>2. \A j \in S : ~(j < i)
    BY <1>1, Zenon DEF OpToRel
  <1> QED BY <1>2

\* A search returns 0 or a position of the searched string at which the whole
\* pattern fits.
LEMMA FindPosition ==
    ASSUME NEW s \in Seq(Cells), NEW pat
    PROVE  /\ Find(s, pat) \in Nat
           /\ Find(s, pat) # 0 => /\ Find(s, pat) \in 1 .. Len(s)
                                  /\ Matches(s, pat, Find(s, pat))
                                  /\ \A j \in 1 .. Len(s) :
                                        Matches(s, pat, j) => Find(s, pat) <= j
           /\ Find(s, pat) = 0 => \A j \in 1 .. Len(s) : ~Matches(s, pat, j)
  <1> DEFINE hits == {i \in 1 .. Len(s) : Matches(s, pat, i)}
  <1>1. hits \in SUBSET Nat
    OBVIOUS
  <1>2. Find(s, pat) = IF hits = {} THEN 0 ELSE CHOOSE i \in hits : \A j \in hits : i <= j
    BY DEF Find
  <1>3. CASE hits = {}
    BY <1>2, <1>3
  <1>4. CASE hits # {}
    <2> HIDE DEF hits
    <2>1. \E i \in hits : \A j \in hits : i <= j
      BY <1>1, <1>4, LeastElement
    <2>2. Find(s, pat) \in hits /\ \A j \in hits : Find(s, pat) <= j
      BY <1>2, <1>4, <2>1
    <2> QED BY <2>2 DEF hits
  <1> QED BY <1>3, <1>4

\* The two patterns the code searches for.
LEMMA Patterns ==
    /\ Len(CRLF) = 2
    /\ Len(CRLFCRLF) = 4
  BY DEF CRLF, CRLFCRLF

-----------------------------------------------------------------------------

\* A slice that ends inside a sequence of cells is a sequence of cells.
LEMMA SliceType ==
    ASSUME NEW s \in Seq(Cells), NEW m \in Nat \ {0}, NEW n \in Int, n <= Len(s)
    PROVE  /\ SubSeq(s, m, n) \in Seq(Cells)
           /\ Len(SubSeq(s, m, n)) = IF m <= n THEN n - m + 1 ELSE 0
  <1>1. \A i \in m .. n : s[i] \in Cells
    BY LenProperties
  <1> QED BY <1>1, SubSeqProperties

\* Drop removes a prefix.
LEMMA DropType ==
    ASSUME NEW s \in Seq(Cells), NEW n \in Nat
    PROVE  /\ Drop(s, n) \in Seq(Cells)
           /\ Len(Drop(s, n)) <= Len(s)
  BY SliceType DEF Drop

\* A list of chunks stays one when a chunk is added or the first is taken.
LEMMA ChunkList ==
    /\ \A cs \in Seq(Seq(Cells)), c \in Seq(Cells) : Append(cs, c) \in Seq(Seq(Cells))
    /\ \A cs \in Seq(Seq(Cells)) : cs # <<>> => /\ Head(cs) \in Seq(Cells)
                                               /\ Tail(cs) \in Seq(Seq(Cells))
  <1> DEFINE T == Seq(Cells)
  <1> HIDE DEF T
  <1>1. \A cs \in Seq(T), c \in T : Append(cs, c) \in Seq(T)
    BY AppendProperties
  <1>2. \A cs \in Seq(T) : cs # <<>> => Head(cs) \in T /\ Tail(cs) \in Seq(T)
    BY HeadTailProperties
  <1> QED BY <1>1, <1>2 DEF T

\* append_body keeps the types of what it changes and the limit on the body.
LEMMA AppendBodyType ==
    ASSUME TypeOK, NEW piece \in Seq(Cells), NEW next \in Places, AppendBody(piece, next)
    PROVE  /\ body' \in Seq(Cells)
           /\ seen' \in Seq(Cells)
           /\ pc' \in Places
           /\ outcome' \in Outcomes
           /\ Len(body') <= sc.max \/ body' = body
  <1> USE DEF TypeOK
  <1>1. sc.max \in Nat
    BY ScenarioFields
  <1>2. CASE ~BodyFits(piece)
    BY <1>2 DEF AppendBody, Leave, Places, Outcomes, Blame
  <1>3. CASE BodyFits(piece)
    <2>1. body' = body \o piece /\ (seen' = seen \o piece \/ seen' = seen)
      BY <1>3 DEF AppendBody, Emitted
    <2>2. body' \in Seq(Cells) /\ seen' \in Seq(Cells) /\ Len(body') = Len(body) + Len(piece)
      BY <2>1, ConcatProperties
    <2>3. pc' \in Places /\ outcome' \in Outcomes
      BY <1>3 DEF AppendBody, Leave, Places, Outcomes
    <2>4. Len(body') <= sc.max
      BY <1>3, <2>2 DEF BodyFits
    <2> QED BY <2>2, <2>3, <2>4
  <1> QED BY <1>2, <1>3

\* No step of a request leaves the ranges TypeOK names.
LEMMA TypeStep == TypeOK /\ [Next]_vars => TypeOK'
  <1> SUFFICES ASSUME TypeOK, [Next]_vars PROVE TypeOK'
    OBVIOUS
  <1> USE ScenarioFields, Patterns DEF TypeOK, headers, decoder
  <1>1. CASE Send
    BY <1>1 DEF Send, Leave, Places, Outcomes
  <1>2. CASE LoopTop
    BY <1>2 DEF LoopTop, Leave, Places, Outcomes
  <1>3. ASSUME NEW n \in 1 .. BufferSize, Receive(n) PROVE TypeOK'
    <2>1. incoming' \in Seq(Cells)
      BY <1>3, SliceType, ConstantsAssumption DEF Receive
    <2>2. got' \in 0 .. Len(sc.wire)
      BY <1>3, ConstantsAssumption DEF Receive
    <2> QED BY <1>3, <2>1, <2>2 DEF Receive, Places
  <1>4. CASE ReceiveEnd
    BY <1>4 DEF ReceiveEnd, Places
  <1>5. CASE ReceiveError
    BY <1>5 DEF ReceiveError, Leave, Places, Outcomes
  <1>6. CASE HeadersWait
    BY <1>6 DEF HeadersWait, Places
  <1>7. CASE HeadersParse
    <2> DEFINE pending == pending_headers \o incoming
    <2>1. pending \in Seq(Cells)
      BY ConcatProperties
    <2>2. incoming' = Drop(pending, Find(pending, CRLFCRLF) + 3)
      BY <1>7 DEF HeadersParse, AfterSeparator
    <2>3. Find(pending, CRLFCRLF) + 3 \in Nat
      <3> HIDE DEF pending
      <3> QED BY <2>1, FindPosition
    <2>4. incoming' \in Seq(Cells)
      <3> HIDE DEF pending
      <3> QED BY <2>1, <2>2, <2>3, DropType
    <2>5. pending_headers' \in Seq(Cells)
      BY <1>7, EmptySeq DEF HeadersParse
    <2> QED BY <1>7, <2>4, <2>5 DEF HeadersParse, Leave, NoBody, HasNoBody, Places, Outcomes, Blame
  <1>8. CASE HeadersReject
    BY <1>8 DEF HeadersReject, Leave, Places, Outcomes, Blame
  <1>9. CASE BodyLength
    <2> DEFINE needed == IF content_length > Len(body) THEN content_length - Len(body) ELSE 0
               take == IF needed < Len(incoming) THEN needed ELSE Len(incoming)
    <2>1. SubSeq(incoming, 1, take) \in Seq(Cells)
      BY <1>9, SliceType, LenProperties DEF BodyLength, None
    <2>2. AppendBody(SubSeq(incoming, 1, take), "top")
      BY <1>9 DEF BodyLength
    <2>3. /\ body' \in Seq(Cells) /\ seen' \in Seq(Cells)
          /\ pc' \in Places /\ outcome' \in Outcomes
      BY <2>1, <2>2, AppendBodyType DEF Places
    <2> QED BY <1>9, <2>3, EmptySeq DEF BodyLength
  <1>10. CASE BodyUntilClose
    <2>1. /\ body' \in Seq(Cells) /\ seen' \in Seq(Cells)
          /\ pc' \in Places /\ outcome' \in Outcomes
      BY <1>10, AppendBodyType DEF BodyUntilClose, Places
    <2> QED BY <1>10, <2>1, EmptySeq DEF BodyUntilClose
  <1>11. CASE FeedStart
    BY <1>11 DEF FeedStart, Leave, Places, Outcomes, Blame
  <1>12. CASE FeedSize
    <2>1. buffer' \in Seq(Cells)
      BY <1>12, FindPosition, DropType DEF FeedSize
    <2>2. remaining' \in 1 .. sc.max \cup {None} /\ complete' \in BOOLEAN
      BY <1>12 DEF FeedSize, SizeLimit
    <2>3. pc' \in Places /\ outcome' \in Outcomes
      BY <1>12 DEF FeedSize, Leave, Places, Outcomes, Blame
    <2> QED BY <1>12, <2>1, <2>2, <2>3 DEF FeedSize
  <1>13. CASE FeedChunk
    <2>1. SubSeq(buffer, 1, remaining) \in Seq(Cells)
      BY <1>13, SliceType DEF FeedChunk
    <2>2. buffer' \in Seq(Cells)
      BY <1>13, DropType DEF FeedChunk
    <2>3. chunks' \in Seq(Seq(Cells))
      <3> DEFINE chunk == SubSeq(buffer, 1, remaining)
      <3>1. chunks' = Append(chunks, chunk) \/ chunks' = chunks
        BY <1>13 DEF FeedChunk
      <3> HIDE DEF chunk
      <3>2. chunk \in Seq(Cells)
        BY <2>1 DEF chunk
      <3> QED BY <3>1, <3>2, ChunkList
    <2>4. /\ remaining' \in 1 .. sc.max \cup {None}
          /\ pc' \in Places /\ outcome' \in Outcomes
      BY <1>13 DEF FeedChunk, Leave, Places, Outcomes, Blame
    <2> QED BY <1>13, <2>2, <2>3, <2>4 DEF FeedChunk
  <1>14. CASE FeedReturn
    BY <1>14 DEF FeedReturn, Places
  <1>15. CASE AppendChunk
    BY <1>15, AppendBodyType DEF AppendChunk
  <1>16. CASE AppendDone
    BY <1>16 DEF AppendDone, Places
  <1>17. CASE Finish
    BY <1>17 DEF Finish, Leave, Places, Outcomes, CutShort
  <1>18. CASE UNCHANGED vars
    BY <1>18 DEF vars
  <1> QED
    BY <1>1, <1>2, <1>3, <1>4, <1>5, <1>6, <1>7, <1>8, <1>9, <1>10, <1>11, <1>12,
       <1>13, <1>14, <1>15, <1>16, <1>17, <1>18 DEF Next, Done

\* The type invariant, with a chunk size that the limit has bounded.
THEOREM TypeCorrect == Spec => []TypeOK
  <1>1. Init => TypeOK
    <2> SUFFICES ASSUME Init PROVE TypeOK
      OBVIOUS
    <2>1. Len(sc.wire) \in Nat
      BY ScenarioFields, LenProperties DEF Init
    <2>2. <<>> \in Seq(Cells) /\ <<>> \in Seq(Seq(Cells))
      BY EmptySeq
    <2>3. got \in 0 .. Len(sc.wire) /\ sc \in Scenarios
      BY <2>1 DEF Init
    <2>4. pc \in Places /\ outcome \in Outcomes
      BY DEF Init, Places, Outcomes
    <2> QED BY <2>2, <2>3, <2>4 DEF Init, TypeOK
  <1> QED BY <1>1, TypeStep, PTL DEF Spec

-----------------------------------------------------------------------------

\* The limits hold, whatever the server sends and however it is split.
THEOREM LimitsRespected == Spec => []LimitsHold
  <1>1. Init => LimitsHold
    BY ScenarioFields, EmptySeq, ConstantsAssumption DEF Init, LimitsHold
  <1>2. TypeOK /\ LimitsHold /\ [Next]_vars => LimitsHold'
    <2> SUFFICES ASSUME TypeOK, LimitsHold, [Next]_vars PROVE LimitsHold'
      OBVIOUS
    <2> USE ScenarioFields, ConstantsAssumption DEF TypeOK, LimitsHold, headers, decoder
    <2>1. CASE Send
      BY <2>1 DEF Send, Leave
    <2>2. CASE LoopTop
      BY <2>2 DEF LoopTop, Leave
    <2>3. ASSUME NEW n \in 1 .. BufferSize, Receive(n) PROVE LimitsHold'
      BY <2>3 DEF Receive
    <2>4. CASE ReceiveEnd
      BY <2>4 DEF ReceiveEnd
    <2>5. CASE ReceiveError
      BY <2>5 DEF ReceiveError, Leave
    <2>6. CASE HeadersWait
      BY <2>6 DEF HeadersWait
    <2>7. CASE HeadersParse
      BY <2>7, EmptySeq DEF HeadersParse
    <2>8. CASE HeadersReject
      BY <2>8 DEF HeadersReject, Leave
    <2>9. CASE BodyLength
      <3> DEFINE needed == IF content_length > Len(body) THEN content_length - Len(body) ELSE 0
                 take == IF needed < Len(incoming) THEN needed ELSE Len(incoming)
      <3>1. SubSeq(incoming, 1, take) \in Seq(Cells)
        BY <2>9, SliceType, LenProperties DEF BodyLength, None
      <3>2. AppendBody(SubSeq(incoming, 1, take), "top")
        BY <2>9 DEF BodyLength
      <3>3. Len(body') <= sc.max
        BY <3>1, <3>2, AppendBodyType DEF Places
      <3> QED BY <2>9, <3>3 DEF BodyLength
    <2>10. CASE BodyUntilClose
      <3>1. Len(body') <= sc.max
        BY <2>10, AppendBodyType DEF BodyUntilClose, Places
      <3> QED BY <2>10, <3>1 DEF BodyUntilClose
    <2>11. CASE FeedStart
      BY <2>11 DEF FeedStart, Leave, DecoderLimit
    <2>12. CASE FeedSize
      <3>1. Len(buffer') <= Len(buffer)
        BY <2>12, FindPosition, DropType DEF FeedSize
      <3> QED BY <2>12, <3>1, FindPosition, DropType, LenProperties DEF FeedSize
    <2>13. CASE FeedChunk
      <3>1. buffer' \in Seq(Cells) /\ Len(buffer') <= Len(buffer)
        BY <2>13, DropType DEF FeedChunk
      <3> QED BY <2>13, <3>1, LenProperties DEF FeedChunk
    <2>14. CASE FeedReturn
      BY <2>14 DEF FeedReturn
    <2>15. CASE AppendChunk
      <3>1. Len(body') <= sc.max
        BY <2>15, AppendBodyType, ChunkList DEF AppendChunk, Places
      <3> QED BY <2>15, <3>1 DEF AppendChunk
    <2>16. CASE AppendDone
      BY <2>16 DEF AppendDone
    <2>17. CASE Finish
      BY <2>17 DEF Finish, Leave
    <2>18. CASE UNCHANGED vars
      BY <2>18 DEF vars
    <2> QED
      BY <2>1, <2>2, <2>3, <2>4, <2>5, <2>6, <2>7, <2>8, <2>9, <2>10, <2>11, <2>12,
         <2>13, <2>14, <2>15, <2>16, <2>17, <2>18 DEF Next, Done
  <1> QED BY <1>1, <1>2, TypeCorrect, PTL DEF Spec

-----------------------------------------------------------------------------

\* A pattern that ends before a cut matches before the cut exactly where it
\* matches in the whole.
LEMMA MatchesPrefix ==
    ASSUME NEW w \in Seq(Cells), NEW n \in 0 .. Len(w), NEW pat, Len(pat) \in Nat,
           NEW i \in Nat \ {0}, i + Len(pat) - 1 <= n
    PROVE  Matches(SubSeq(w, 1, n), pat, i) <=> Matches(w, pat, i)
  <1>1. \A k \in 1 .. n : w[k] \in Cells
    BY LenProperties
  <1>2. Len(SubSeq(w, 1, n)) = n /\ \A k \in 1 .. n : SubSeq(w, 1, n)[k] = w[k]
    BY <1>1, SubSeqProperties
  <1>3. \A j \in 1 .. Len(pat) : SubSeq(w, 1, n)[i + j - 1] = w[i + j - 1]
    BY <1>2
  <1> QED BY <1>2, <1>3 DEF Matches

\* The separator found in what has arrived is the first one of the whole answer:
\* what arrives later never moves it.
LEMMA FindPrefix ==
    ASSUME NEW w \in Seq(Cells), NEW n \in 0 .. Len(w), NEW pat, Len(pat) \in Nat \ {0},
           Find(SubSeq(w, 1, n), pat) # 0
    PROVE  /\ Find(w, pat) = Find(SubSeq(w, 1, n), pat)
           /\ Find(w, pat) # 0
           /\ Find(w, pat) + Len(pat) - 1 <= n
  <1> DEFINE p == SubSeq(w, 1, n)
             f == Find(p, pat)
             g == Find(w, pat)
  <1>1. p \in Seq(Cells) /\ Len(p) = n
    BY SliceType
  <1>2. f \in 1 .. n /\ Matches(p, pat, f) /\ \A j \in 1 .. n : Matches(p, pat, j) => f <= j
    <2> HIDE DEF p
    <2> QED BY <1>1, FindPosition DEF p
  <1>3. f + Len(pat) - 1 <= n
    BY <1>1, <1>2 DEF Matches
  <1>4. Matches(w, pat, f)
    BY <1>2, <1>3, MatchesPrefix
  <1>5. g \in 1 .. Len(w) /\ Matches(w, pat, g) /\ g <= f
    BY <1>2, <1>4, FindPosition
  <1>6. Matches(p, pat, g)
    BY <1>2, <1>3, <1>5, MatchesPrefix
  <1>7. f <= g
    BY <1>2, <1>5, <1>6
  <1> QED BY <1>2, <1>3, <1>5, <1>7

\* x is the part of w after position h, up to position g.
SliceOf(x, w, h, g) == x = SubSeq(w, h + 1, g)

\* If a followed by b is the slice of w after position h, then a with the first
\* t bytes of b is the slice of that length.
LEMMA SliceGrows ==
    ASSUME NEW w \in Seq(Cells), NEW a \in Seq(Cells), NEW b \in Seq(Cells),
           NEW h \in Nat, NEW g \in 0 .. Len(w), h <= g,
           SliceOf(a \o b, w, h, g), NEW t \in 0 .. Len(b)
    PROVE  /\ SliceOf(a \o SubSeq(b, 1, t), w, h, h + Len(a) + t)
           /\ Len(a \o SubSeq(b, 1, t)) = Len(a) + t
           /\ t = Len(b) => SliceOf(a \o SubSeq(b, 1, t), w, h, g)
  <1> DEFINE c == SubSeq(b, 1, t)
             d == a \o c
             e == a \o b
             m == h + Len(a) + t
             r == SubSeq(w, h + 1, m)
  <1>1. c \in Seq(Cells) /\ Len(c) = t /\ \A i \in 1 .. t : c[i] = b[i]
    BY SliceType, SubSeqProperties, LenProperties
  <1>2. Len(a) \in Nat /\ Len(b) \in Nat
    BY LenProperties
  <1> HIDE DEF c
  <1>3. /\ d \in Seq(Cells) /\ Len(d) = Len(a) + t
        /\ \A i \in 1 .. Len(a) + t : d[i] = IF i <= Len(a) THEN a[i] ELSE c[i - Len(a)]
    BY <1>1, ConcatProperties
  <1>4. /\ Len(e) = Len(a) + Len(b)
        /\ \A i \in 1 .. Len(a) + Len(b) : e[i] = IF i <= Len(a) THEN a[i] ELSE b[i - Len(a)]
    BY ConcatProperties
  <1>5. e = SubSeq(w, h + 1, g)
    BY DEF SliceOf
  <1> HIDE DEF d, e
  <1>6. Len(e) = g - h /\ \A i \in 1 .. g - h : e[i] = w[h + i]
    BY <1>5, SubSeqProperties, LenProperties
  <1>7. \A i \in 1 .. Len(a) + t : d[i] = e[i]
    <2> TAKE i \in 1 .. Len(a) + t
    <2>1. i \in 1 .. Len(a) + Len(b)
      BY <1>2
    <2>2. i > Len(a) => i - Len(a) \in 1 .. t
      BY <1>2
    <2>3. d[i] = IF i <= Len(a) THEN a[i] ELSE c[i - Len(a)]
      BY <1>3
    <2>4. e[i] = IF i <= Len(a) THEN a[i] ELSE b[i - Len(a)]
      BY <1>4, <2>1
    <2>5. i > Len(a) => c[i - Len(a)] = b[i - Len(a)]
      BY <1>1, <2>2
    <2> QED BY <1>2, <2>3, <2>4, <2>5
  <1>8. m \in Nat /\ m <= g /\ m - h = Len(a) + t
    BY <1>2, <1>4, <1>6
  <1>9. \A i \in 1 .. Len(a) + t : d[i] = w[h + i]
    BY <1>2, <1>4, <1>6, <1>7
  <1> HIDE DEF m
  <1>10. \A i \in h + 1 .. m : w[i] \in Cells
    BY <1>8, LenProperties
  <1>11. /\ r \in Seq(Cells)
         /\ Len(r) = Len(a) + t
         /\ \A i \in 1 .. Len(a) + t : r[i] = w[h + i]
    <2>1. h + 1 \in Int /\ m \in Int
      BY <1>8
    <2> DEFINE p == h + 1
    <2> HIDE DEF p
    <2>a. \A i \in p .. m : w[i] \in Cells
      BY <1>10 DEF p
    <2>b. p \in Int /\ m \in Int
      BY <2>1 DEF p
    <2>c. /\ SubSeq(w, p, m) \in Seq(Cells)
          /\ Len(SubSeq(w, p, m)) = IF p <= m THEN m - p + 1 ELSE 0
          /\ \A i \in 1 .. m - p + 1 : SubSeq(w, p, m)[i] = w[p + i - 1]
      BY <2>a, <2>b, SubSeqProperties
    <2>2. /\ r \in Seq(Cells)
          /\ Len(r) = IF h + 1 <= m THEN m - (h + 1) + 1 ELSE 0
          /\ \A i \in 1 .. m - (h + 1) + 1 : r[i] = w[h + 1 + i - 1]
      BY <2>c DEF p, r
    <2> HIDE DEF r
    <2>3. Len(r) = Len(a) + t
      BY <1>2, <1>8, <2>2
    <2>4. ASSUME NEW i \in 1 .. Len(a) + t PROVE r[i] = w[h + i]
      <3>1. i \in 1 .. m - (h + 1) + 1 /\ h + 1 + i - 1 = h + i
        BY <1>2, <1>8
      <3> QED BY <2>2, <3>1
    <2> QED BY <2>2, <2>3, <2>4
  <1> HIDE DEF r
  <1>12. d = r
    BY <1>3, <1>9, <1>11, SeqEqual
  <1>13. t = Len(b) => m = g
    BY <1>4, <1>6, <1>8
  <1> QED BY <1>3, <1>12, <1>13 DEF c, d, m, r, SliceOf

-----------------------------------------------------------------------------

\* A read extends the slice of the wire that ends at got.
LEMMA ReceiveExtends ==
    ASSUME TypeOK, NEW n \in 1 .. BufferSize, Receive(n), NEW h \in 0 .. got
    PROVE  SubSeq(sc.wire, h + 1, got) \o incoming' = SubSeq(sc.wire, h + 1, got')
  <1>1. sc.wire \in Seq(Cells) /\ got \in 0 .. Len(sc.wire)
    BY ScenarioFields DEF TypeOK
  <1>2. h + 1 \in 1 .. Len(sc.wire) + 1 /\ got \in (h + 1) - 1 .. Len(sc.wire)
    BY <1>1
  <1>3. got + n \in got .. Len(sc.wire)
    BY <1>1, ConstantsAssumption DEF Receive
  <1>4. SubSeq(sc.wire, h + 1, got) \o SubSeq(sc.wire, got + 1, got + n)
           = SubSeq(sc.wire, h + 1, got + n)
    BY <1>1, <1>2, <1>3, ConcatAdjacentSubSeq
  <1> QED BY <1>4 DEF Receive

\* When the separator has arrived, what HeadersParse leaves in incoming is the
\* part of the answer that follows the header block.
LEMMA HeadersSplit ==
    ASSUME TypeOK, HeadersKept, ~got_headers, HeadersParse
    PROVE  /\ Find(sc.wire, CRLFCRLF) # 0
           /\ HeaderEnd \in Nat /\ HeaderEnd <= got
           /\ incoming' = SubSeq(sc.wire, HeaderEnd + 1, got)
  <1> DEFINE pending == pending_headers \o incoming
             w == sc.wire
             sep == Find(pending, CRLFCRLF)
  <1>1. w \in Seq(Cells) /\ got \in 0 .. Len(w)
    BY ScenarioFields DEF TypeOK
  <1>2. pending = SubSeq(w, 1, got)
    BY DEF HeadersKept, HeldBack, HeadersParse
  <1>3. sep # 0 /\ incoming' = SubSeq(pending, sep + 4, Len(pending))
    <2>1. sep # 0 /\ incoming' = Drop(pending, sep + 3)
      BY DEF HeadersParse, AfterSeparator
    <2>2. sep \in Nat
      <3>1. pending \in Seq(Cells)
        BY ConcatProperties DEF TypeOK
      <3> HIDE DEF pending
      <3> QED BY <3>1, FindPosition
    <2>3. sep + 3 + 1 = sep + 4
      BY <2>2
    <2> HIDE DEF sep, pending
    <2> QED BY <2>1, <2>3 DEF Drop
  <1> HIDE DEF pending, w
  <1>4. /\ Find(w, CRLFCRLF) = sep /\ Find(w, CRLFCRLF) + 3 <= got /\ sep \in Nat \ {0}
    <2>1. Len(CRLFCRLF) = 4
      BY Patterns
    <2>2. Find(w, CRLFCRLF) = sep /\ Find(w, CRLFCRLF) + 4 - 1 <= got
      <3>1. Find(SubSeq(w, 1, got), CRLFCRLF) # 0 /\ Find(SubSeq(w, 1, got), CRLFCRLF) = sep
        BY <1>2, <1>3
      <3>2. Len(CRLFCRLF) \in Nat \ {0}
        BY <2>1
      <3>3. /\ Find(w, CRLFCRLF) = Find(SubSeq(w, 1, got), CRLFCRLF)
            /\ Find(w, CRLFCRLF) + Len(CRLFCRLF) - 1 <= got
        BY <1>1, <3>1, <3>2, FindPrefix
      <3> HIDE DEF sep
      <3> QED BY <2>1, <3>1, <3>3
    <2>3. Find(w, CRLFCRLF) \in Nat
      BY <1>1, FindPosition
    <2> HIDE DEF sep
    <2> QED BY <1>3, <2>2, <2>3
  <1> HIDE DEF sep
  <1>5. Len(pending) = got
    BY <1>1, <1>2, SliceType
  <1>6. SubSeq(pending, sep + 4, got) = SubSeq(w, sep + 4, got)
    <2>1. CASE sep + 4 > got
      BY <1>1, <1>4, <2>1, SubSeqEmpty
    <2>2. CASE sep + 4 <= got
      <3>1. /\ 1 \in 1 .. Len(w) /\ got \in 1 .. Len(w)
            /\ sep + 4 \in 1 .. got - 1 + 1 /\ got \in 1 .. got - 1 + 1
        BY <1>1, <1>4, <2>2
      <3>2. SubSeq(SubSeq(w, 1, got), sep + 4, got) = SubSeq(w, 1 + (sep + 4) - 1, 1 + got - 1)
        BY <1>1, <3>1, SubSeqOfSubSeq
      <3>3. 1 + (sep + 4) - 1 = sep + 4 /\ 1 + got - 1 = got
        BY <1>1, <1>4
      <3> QED BY <1>2, <3>2, <3>3
    <2> QED BY <1>1, <1>4, <2>1, <2>2
  <1>7. incoming' = SubSeq(w, sep + 4, got)
    BY <1>3, <1>5, <1>6
  <1>8. HeaderEnd = sep + 3 /\ HeaderEnd + 1 = sep + 4
    BY <1>4 DEF HeaderEnd, w
  <1> QED BY <1>4, <1>7, <1>8 DEF w

\* The step of the body branches: append_body adds a prefix of incoming to a body
\* that is still contiguous on the wire.
LEMMA AppendContiguous ==
    ASSUME TypeOK, NEW h \in 0 .. got, NEW t \in 0 .. Len(incoming),
           body \o incoming = SubSeq(sc.wire, h + 1, got),
           body = SubSeq(sc.wire, h + 1, h + Len(body)),
           AppendBody(SubSeq(incoming, 1, t), "top")
    PROVE  /\ body' = SubSeq(sc.wire, h + 1, h + Len(body'))
           /\ \/ pc' = "done"
              \/ /\ pc' = "top" /\ Len(body') = Len(body) + t
                 /\ t = Len(incoming) => body' = SubSeq(sc.wire, h + 1, got)
  <1>1. /\ sc.wire \in Seq(Cells) /\ body \in Seq(Cells) /\ incoming \in Seq(Cells)
        /\ got \in 0 .. Len(sc.wire)
    BY ScenarioFields DEF TypeOK
  <1>2. CASE body' = body /\ pc' = "done"
    BY <1>2
  <1>3. CASE /\ body' = body \o SubSeq(incoming, 1, t)
             /\ pc' \in {"top", "done"}
    <2>1. /\ body' = SubSeq(sc.wire, h + 1, h + Len(body) + t)
          /\ Len(body') = Len(body) + t
          /\ t = Len(incoming) => body' = SubSeq(sc.wire, h + 1, got)
      <3>1. h \in Nat /\ h <= got
        BY <1>1
      <3>2. SliceOf(body \o incoming, sc.wire, h, got)
        BY DEF SliceOf
      <3>3. /\ SliceOf(body \o SubSeq(incoming, 1, t), sc.wire, h, h + Len(body) + t)
            /\ Len(body \o SubSeq(incoming, 1, t)) = Len(body) + t
            /\ t = Len(incoming) => SliceOf(body \o SubSeq(incoming, 1, t), sc.wire, h, got)
        BY <1>1, <3>1, <3>2, SliceGrows
      <3> QED BY <1>3, <3>3, Zenon DEF SliceOf
    <2>2. h + Len(body) + t = h + Len(body')
      BY <1>1, <2>1, LenProperties
    <2> QED BY <1>3, <2>1, <2>2
  <1> QED BY <1>2, <1>3 DEF AppendBody, Leave

\* What the bytes received so far are kept in, and that the body is a slice of
\* the wire, is preserved by every step.
LEMMA AccountingStep == TypeOK /\ Accounting /\ [Next]_vars => Accounting'
  <1> SUFFICES ASSUME TypeOK, Accounting, [Next]_vars PROVE Accounting'
    OBVIOUS
  <1> USE DEF Accounting, Placement, HeadersKept, HeadersFound, BodyKept, NoBodyYet,
              BodyFollowsHeaders, HeldBack, HeaderEnd, headers, decoder
  <1>0. /\ sc.wire \in Seq(Cells) /\ got \in 0 .. Len(sc.wire) /\ body \in Seq(Cells)
        /\ Find(sc.wire, CRLFCRLF) \in Nat
    BY ScenarioFields, FindPosition DEF TypeOK
  <1>20. body' \in Seq(Cells)
    BY TypeStep DEF TypeOK
  <1>1. CASE Send
    BY <1>1 DEF Send, Leave
  <1>2. CASE LoopTop
    BY <1>2 DEF LoopTop, Leave
  <1>3. ASSUME NEW n \in 1 .. BufferSize, Receive(n) PROVE Accounting'
    <2>1. CASE ~got_headers
      <3>1. pending_headers = SubSeq(sc.wire, 0 + 1, got)
        BY <1>3, <2>1, ConcatEmptySeq DEF Receive, TypeOK
      <3>2. SubSeq(sc.wire, 0 + 1, got) \o incoming' = SubSeq(sc.wire, 0 + 1, got')
        <4>1. 0 \in 0 .. got
          BY <1>0
        <4> QED BY <1>3, <4>1, ReceiveExtends
      <3>3. 0 + 1 = 1
        OBVIOUS
      <3>4. pending_headers \o incoming' = SubSeq(sc.wire, 1, got')
        BY <3>1, <3>2, <3>3
      <3> QED BY <1>3, <2>1, <3>4 DEF Receive
    <2>2. CASE got_headers
      <3>1. HeaderEnd \in 0 .. got
        BY <1>0, <2>2
      <3>2. SubSeq(sc.wire, HeaderEnd + 1, got) \o incoming' = SubSeq(sc.wire, HeaderEnd + 1, got')
        BY <1>3, <3>1, ReceiveExtends
      <3>3. ~chunked => body = SubSeq(sc.wire, HeaderEnd + 1, got)
        BY <1>3, <2>2, ConcatEmptySeq DEF Receive, TypeOK
      <3>4. HeaderEnd <= got'
        BY <1>0, <1>3, <3>1, ConstantsAssumption DEF Receive
      <3> QED BY <1>3, <2>2, <3>2, <3>3, <3>4 DEF Receive
    <2> QED BY <2>1, <2>2
  <1>4. CASE ReceiveEnd
    BY <1>4 DEF ReceiveEnd
  <1>5. CASE ReceiveError
    BY <1>5 DEF ReceiveError, Leave
  <1>6. CASE HeadersWait
    <2>1. pending_headers' \in Seq(Cells)
      BY <1>6, ConcatProperties DEF HeadersWait, TypeOK
    <2> QED BY <1>6, <2>1, ConcatEmptySeq DEF HeadersWait
  <1>7. CASE HeadersParse
    <2>1. /\ Find(sc.wire, CRLFCRLF) # 0 /\ HeaderEnd \in Nat /\ HeaderEnd <= got
          /\ incoming' = SubSeq(sc.wire, HeaderEnd + 1, got)
      BY <1>7, HeadersSplit DEF HeadersParse
    <2>2. body = <<>> /\ body' = <<>>
      BY <1>7 DEF HeadersParse
    <2>3. <<>> \o incoming' = incoming'
      BY <2>1, <1>0, SliceType, ConcatEmptySeq
    <2>4. Len(<<>>) = 0 /\ SubSeq(sc.wire, HeaderEnd + 1, HeaderEnd + 0) = <<>>
      BY <2>1, SubSeqEmpty, EmptySeq
    <2> QED BY <1>7, <2>1, <2>2, <2>3, <2>4 DEF HeadersParse, Leave, NoBody
  <1>8. CASE HeadersReject
    BY <1>8 DEF HeadersReject, Leave
  <1>9. CASE BodyLength
    <2> DEFINE needed == IF content_length > Len(body) THEN content_length - Len(body) ELSE 0
               take == IF needed < Len(incoming) THEN needed ELSE Len(incoming)
    <2>1. take \in 0 .. Len(incoming) /\ content_length \in Nat
      BY <1>9, LenProperties DEF BodyLength, TypeOK, None
    <2>2. HeaderEnd \in 0 .. got
      BY <1>0, <1>9 DEF BodyLength
    <2>3. /\ body' = SubSeq(sc.wire, HeaderEnd + 1, HeaderEnd + Len(body'))
          /\ \/ pc' = "done"
             \/ /\ pc' = "top" /\ Len(body') = Len(body) + take
                /\ take = Len(incoming) => body' = SubSeq(sc.wire, HeaderEnd + 1, got)
      BY <1>9, <2>1, <2>2, AppendContiguous DEF BodyLength
    <2>4. pc' = "top" /\ ~finished' => take = Len(incoming)
      <3>1. ~finished' => Len(body') < content_length
        <4>1. finished' = (Len(body') >= content_length)
          BY <1>9 DEF BodyLength
        <4>2. Len(body') \in Nat
          BY <1>20, LenProperties
        <4>3. content_length \in Nat
          BY <2>1
        <4>4. ~finished' => ~(Len(body') >= content_length)
          BY <4>1, Zenon
        <4> QED BY <4>2, <4>3, <4>4
      <3>2. Len(body) \in Nat /\ Len(incoming) \in Nat
        BY LenProperties DEF TypeOK
      <3> QED BY <2>1, <2>3, <3>1, <3>2
    <2>5. body' \in Seq(Cells)
      BY <1>20
    <2>6. body' \o <<>> = body'
      BY <2>5, ConcatEmptySeq
    <2> QED BY <1>9, <2>3, <2>4, <2>6 DEF BodyLength
  <1>10. CASE BodyUntilClose
    <2>1. SubSeq(incoming, 1, Len(incoming)) = incoming /\ Len(incoming) \in 0 .. Len(incoming)
      BY SubSeqFull, LenProperties DEF TypeOK
    <2>2. HeaderEnd \in 0 .. got
      BY <1>0, <1>10 DEF BodyUntilClose
    <2>3. /\ body' = SubSeq(sc.wire, HeaderEnd + 1, HeaderEnd + Len(body'))
          /\ pc' = "done" \/ (pc' = "top" /\ body' = SubSeq(sc.wire, HeaderEnd + 1, got))
      <3>1. AppendBody(SubSeq(incoming, 1, Len(incoming)), "top")
        BY <1>10, <2>1 DEF BodyUntilClose
      <3>2. /\ body \o incoming = SubSeq(sc.wire, HeaderEnd + 1, got)
            /\ body = SubSeq(sc.wire, HeaderEnd + 1, HeaderEnd + Len(body))
        BY <1>10 DEF BodyUntilClose
      <3>3. /\ body' = SubSeq(sc.wire, HeaderEnd + 1, HeaderEnd + Len(body'))
            /\ \/ pc' = "done"
               \/ /\ pc' = "top"
                  /\ Len(incoming) = Len(incoming) =>
                        body' = SubSeq(sc.wire, HeaderEnd + 1, got)
        <4> HIDE DEF HeaderEnd
        <4> QED BY <2>1, <2>2, <3>1, <3>2, AppendContiguous, Zenon
      <3> QED BY <3>3
    <2>4. body' \in Seq(Cells)
      BY <1>20
    <2>5. body' \o <<>> = body'
      BY <2>4, ConcatEmptySeq
    <2> QED BY <1>10, <2>3, <2>5 DEF BodyUntilClose
  <1>11. CASE FeedStart
    BY <1>11 DEF FeedStart, Leave
  <1>12. CASE FeedSize
    BY <1>12 DEF FeedSize, Leave
  <1>13. CASE FeedChunk
    BY <1>13 DEF FeedChunk, Leave
  <1>14. CASE FeedReturn
    BY <1>14 DEF FeedReturn
  <1>15. CASE AppendChunk
    BY <1>15 DEF AppendChunk, AppendBody, Leave
  <1>16. CASE AppendDone
    BY <1>16 DEF AppendDone
  <1>17. CASE Finish
    BY <1>17 DEF Finish, Leave
  <1>18. CASE UNCHANGED vars
    BY <1>18 DEF vars
  <1> QED
    BY <1>1, <1>2, <1>3, <1>4, <1>5, <1>6, <1>7, <1>8, <1>9, <1>10, <1>11, <1>12,
       <1>13, <1>14, <1>15, <1>16, <1>17, <1>18 DEF Next, Done

LEMMA AccountingHolds == Spec => []Accounting
  <1>1. Init => Accounting
    <2>1. ASSUME Init PROVE <<>> \o <<>> = SubSeq(sc.wire, 1, 0)
      BY SubSeqEmpty, ConcatEmptySeq, EmptySeq
    <2> QED BY <2>1 DEF Init, Accounting, Placement, HeadersKept, HeadersFound, BodyKept,
                        NoBodyYet, BodyFollowsHeaders, HeldBack
  <1> QED BY <1>1, AccountingStep, TypeCorrect, PTL DEF Spec

\* For every answer and every way of splitting it, the body of a response that is
\* not chunked is the run of bytes after the first empty line.
THEOREM BodyIsWhatFollows == Spec => []BodyFollowsHeaders
  <1>1. Accounting => BodyFollowsHeaders
    BY DEF Accounting
  <1> QED BY <1>1, AccountingHolds, PTL

-----------------------------------------------------------------------------

\* A slice of a slice is a slice of the whole.
LEMMA SliceOfSlice ==
    ASSUME NEW w \in Seq(Cells), NEW p \in Nat \ {0}, NEW g \in Nat, p <= g + 1, g <= Len(w),
           NEW a \in Nat \ {0}, NEW b \in Nat, b <= g - p + 1
    PROVE  SubSeq(SubSeq(w, p, g), a, b) = SubSeq(w, p + a - 1, p + b - 1)
  <1>1. CASE b < a
    BY <1>1, SubSeqEmpty
  <1>2. CASE a <= b
    <2>1. /\ p \in 1 .. Len(w) /\ g \in 1 .. Len(w)
          /\ a \in 1 .. g - p + 1 /\ b \in 1 .. g - p + 1
      BY <1>2, LenProperties
    <2> QED BY <2>1, SubSeqOfSubSeq
  <1> QED BY <1>1, <1>2

\* The bytes of a slice.
LEMMA SliceBytes ==
    ASSUME NEW w \in Seq(Cells), NEW p \in Nat \ {0}, NEW g \in Nat, p <= g + 1, g <= Len(w)
    PROVE  /\ SubSeq(w, p, g) \in Seq(Cells)
           /\ Len(SubSeq(w, p, g)) = g - p + 1
           /\ \A i \in 1 .. g - p + 1 : SubSeq(w, p, g)[i] = w[p + i - 1]
  <1>1. \A i \in p .. g : w[i] \in Cells
    BY LenProperties
  <1> QED BY <1>1, SubSeqProperties

\* What is left of a slice when a prefix is dropped.
LEMMA SliceDrop ==
    ASSUME NEW w \in Seq(Cells), NEW p \in Nat \ {0}, NEW g \in Nat, p <= g + 1, g <= Len(w),
           NEW m \in Nat, p + m <= g + 1
    PROVE  Drop(SubSeq(w, p, g), m) = SubSeq(w, p + m, g)
  <1>1. Len(SubSeq(w, p, g)) = g - p + 1
    BY SliceBytes
  <1>2. Drop(SubSeq(w, p, g), m) = SubSeq(SubSeq(w, p, g), m + 1, g - p + 1)
    BY <1>1 DEF Drop
  <1>3. m + 1 \in Nat \ {0} /\ g - p + 1 \in Nat
    OBVIOUS
  <1>4. SubSeq(SubSeq(w, p, g), m + 1, g - p + 1) = SubSeq(w, p + (m + 1) - 1, p + (g - p + 1) - 1)
    BY <1>3, SliceOfSlice
  <1>5. p + (m + 1) - 1 = p + m /\ p + (g - p + 1) - 1 = g
    OBVIOUS
  <1> QED BY <1>2, <1>4, <1>5

\* A slice is the beginning of what follows its first byte.
LEMMA SliceIsPrefix ==
    ASSUME NEW w \in Seq(Cells), NEW p \in Nat \ {0}, NEW g \in Nat, p <= g + 1, g <= Len(w)
    PROVE  /\ Drop(w, p - 1) \in Seq(Cells)
           /\ Len(Drop(w, p - 1)) = Len(w) - p + 1
           /\ \A i \in 1 .. Len(w) - p + 1 : Drop(w, p - 1)[i] = w[p + i - 1]
           /\ g - p + 1 \in 0 .. Len(Drop(w, p - 1))
           /\ SubSeq(w, p, g) = SubSeq(Drop(w, p - 1), 1, g - p + 1)
  <1>1. Len(w) \in Nat
    BY LenProperties
  <1>2. Drop(w, p - 1) = SubSeq(w, p, Len(w))
    <2>1. (p - 1) + 1 = p
      OBVIOUS
    <2> QED BY <2>1 DEF Drop
  <1>3. /\ SubSeq(w, p, Len(w)) \in Seq(Cells)
        /\ Len(SubSeq(w, p, Len(w))) = Len(w) - p + 1
        /\ \A i \in 1 .. Len(w) - p + 1 : SubSeq(w, p, Len(w))[i] = w[p + i - 1]
    BY <1>1, SliceBytes
  <1>4. g - p + 1 \in Nat /\ g - p + 1 <= Len(w) - p + 1
    BY <1>1
  <1>5. SubSeq(SubSeq(w, p, Len(w)), 1, g - p + 1) = SubSeq(w, p + 1 - 1, p + (g - p + 1) - 1)
    BY <1>1, <1>4, SliceOfSlice
  <1>6. p + 1 - 1 = p /\ p + (g - p + 1) - 1 = g
    OBVIOUS
  <1>7. g - p + 1 \in 0 .. Len(w) - p + 1
    BY <1>1, <1>4
  <1>8. SubSeq(w, p, g) = SubSeq(SubSeq(w, p, Len(w)), 1, g - p + 1)
    BY <1>5, <1>6
  <1> QED BY <1>2, <1>3, <1>7, <1>8

\* A pattern that lies inside a slice is at the same place of the whole.
LEMMA MatchesSlice ==
    ASSUME NEW w \in Seq(Cells), NEW p \in Nat \ {0}, NEW g \in Nat, p <= g + 1, g <= Len(w),
           NEW pat, Len(pat) \in Nat, NEW i \in Nat \ {0}, i + Len(pat) - 1 <= g - p + 1
    PROVE  Matches(SubSeq(w, p, g), pat, i) <=> Matches(w, pat, p + i - 1)
  <1>1. /\ Len(SubSeq(w, p, g)) = g - p + 1 /\ Len(w) \in Nat
        /\ \A k \in 1 .. g - p + 1 : SubSeq(w, p, g)[k] = w[p + k - 1]
    BY SliceBytes, LenProperties
  <1>2. ASSUME NEW j \in 1 .. Len(pat)
        PROVE  SubSeq(w, p, g)[i + j - 1] = w[(p + i - 1) + j - 1]
    <2>1. i + j - 1 \in 1 .. g - p + 1 /\ p + (i + j - 1) - 1 = (p + i - 1) + j - 1
      OBVIOUS
    <2> QED BY <1>1, <2>1
  <1>3. (p + i - 1) + Len(pat) - 1 <= Len(w) /\ i + Len(pat) - 1 <= Len(SubSeq(w, p, g))
    BY <1>1
  <1> QED BY <1>2, <1>3 DEF Matches

\* A size line that has arrived is read the same however much has arrived behind it.
LEMMA SizePrefix ==
    ASSUME NEW r \in Seq(Cells), NEW n \in 0 .. Len(r), Find(SubSeq(r, 1, n), CRLF) # 0
    PROVE  /\ Find(r, CRLF) = Find(SubSeq(r, 1, n), CRLF)
           /\ Find(r, CRLF) \in Nat \ {0} /\ Find(r, CRLF) + 1 <= n
           /\ IsSize(SubSeq(r, 1, n)) <=> IsSize(r)
           /\ IsSize(r) => Size(SubSeq(r, 1, n)) = Size(r)
  <1> DEFINE q == SubSeq(r, 1, n)
             e == Find(r, CRLF)
  <1>1. Len(CRLF) = 2
    BY Patterns
  <1>2. e = Find(q, CRLF) /\ e # 0 /\ e + 2 - 1 <= n
    <2>1. Len(CRLF) \in Nat \ {0}
      BY <1>1
    <2>2. Find(r, CRLF) = Find(SubSeq(r, 1, n), CRLF) /\ Find(r, CRLF) # 0 /\ Find(r, CRLF) + Len(CRLF) - 1 <= n
      BY <2>1, FindPrefix
    <2> QED BY <1>1, <2>2
  <1>3. e \in Nat
    BY FindPosition
  <1> HIDE DEF e
  <1>4. n \in Nat /\ 1 <= n + 1 /\ n <= Len(r)
    BY LenProperties
  <1>5. \A i \in 1 .. n : q[i] = r[i]
    <2>1. \A i \in 1 .. n - 1 + 1 : SubSeq(r, 1, n)[i] = r[1 + i - 1]
      BY <1>4, SliceBytes
    <2> QED BY <1>4, <2>1
  <1> HIDE DEF q
  <1>6. SizeText(q) = SizeText(r)
    <2>1. \A i \in 1 .. e - 1 : q[i] = r[i]
      BY <1>2, <1>3, <1>4, <1>5
    <2>2. SizeText(q) = {i \in 1 .. e - 1 : q[i].b \notin {"cr", "lf"}}
      BY <1>2 DEF SizeText
    <2>3. SizeText(r) = {i \in 1 .. e - 1 : r[i].b \notin {"cr", "lf"}}
      BY DEF SizeText, e
    <2> QED BY <2>1, <2>2, <2>3
  <1>7. \A i \in SizeText(r) : q[i] = r[i]
    <2>1. \A i \in SizeText(r) : i \in 1 .. e - 1
      BY DEF SizeText, e
    <2> QED BY <1>2, <1>3, <1>4, <1>5, <2>1
  <1>8. IsSize(q) <=> IsSize(r)
    BY <1>6, <1>7 DEF IsSize
  <1>9. ASSUME IsSize(r) PROVE Size(q) = Size(r)
    <2>1. (CHOOSE i \in SizeText(r) : TRUE) \in SizeText(r)
      BY <1>9 DEF IsSize
    <2> QED BY <1>6, <1>7, <2>1 DEF Size
  <1> QED BY <1>2, <1>3, <1>8, <1>9 DEF q, e

\* The number on a size line.
LEMMA SizeType ==
    ASSUME NEW r \in Seq(Cells), IsSize(r)
    PROVE  Size(r) \in Nat
  <1>1. (CHOOSE i \in SizeText(r) : TRUE) \in SizeText(r)
    BY DEF IsSize
  <1>2. SizeText(r) \subseteq 1 .. Len(r)
    <2>1. Find(r, CRLF) \in Nat /\ (Find(r, CRLF) # 0 => Find(r, CRLF) \in 1 .. Len(r)) /\ Len(r) \in Nat
      BY FindPosition, LenProperties
    <2> QED BY <2>1 DEF SizeText
  <1>3. \A i \in 1 .. Len(r) : r[i] \in Cells
    BY LenProperties
  <1> QED BY <1>1, <1>2, <1>3 DEF Size, Cells

\* A size line on the wire, and where the data behind it begins.
LEMMA SizeLineFacts ==
    ASSUME NEW s \in Scenarios, NEW p \in Nat \ {0}, p <= Len(s.wire) + 1
    PROVE  /\ From(s, p) \in Seq(Cells)
           /\ Find(From(s, p), CRLF) \in Nat
           /\ SizeAt(s, p) => /\ Size(From(s, p)) \in Nat
                              /\ DataAt(s, p) \in Nat \ {0}
                              /\ DataAt(s, p) <= Len(s.wire) + 1
  <1>1. s.wire \in Seq(Cells) /\ Len(s.wire) \in Nat
    BY ScenarioFields, LenProperties
  <1>2. From(s, p) \in Seq(Cells) /\ Len(From(s, p)) = Len(s.wire) - p + 1
    BY <1>1, SliceIsPrefix DEF From
  <1>3. Find(From(s, p), CRLF) \in Nat
    BY <1>2, FindPosition
  <1>4. ASSUME SizeAt(s, p)
        PROVE  Size(From(s, p)) \in Nat /\ DataAt(s, p) \in Nat \ {0} /\ DataAt(s, p) <= Len(s.wire) + 1
    <2>1. Size(From(s, p)) \in Nat
      BY <1>2, <1>4, SizeType DEF SizeAt
    <2>2. Find(From(s, p), CRLF) + 1 <= Len(From(s, p))
      <3>1. Matches(From(s, p), CRLF, Find(From(s, p), CRLF))
        BY <1>2, <1>4, FindPosition DEF SizeAt
      <3> QED BY <1>2, <1>3, <3>1, Patterns DEF Matches
    <2> QED BY <1>1, <1>2, <1>3, <2>1, <2>2 DEF DataAt
  <1> QED BY <1>2, <1>3, <1>4

\* What Follows says of two frames.
LEMMA FollowsFacts ==
    ASSUME NEW s, NEW f, NEW next, Follows(s, f, next)
    PROVE  /\ ChunkAt(s, f.at)
           /\ next.at = DataAt(s, f.at) + Size(From(s, f.at)) + 2
           /\ next.off = f.off + Size(From(s, f.at))
           /\ next.off <= Len(s.payload)
           /\ SubSeq(s.payload, f.off + 1, next.off)
                 = SubSeq(s.wire, DataAt(s, f.at), DataAt(s, f.at) + Size(From(s, f.at)) - 1)
  <1> DEFINE data == DataAt(s, f.at)
             size == Size(From(s, f.at))
  <1>1. /\ ChunkAt(s, f.at)
        /\ next = [at |-> data + size + 2, off |-> f.off + size]
        /\ next.off <= Len(s.payload)
        /\ SubSeq(s.payload, f.off + 1, next.off) = SubSeq(s.wire, data, data + size - 1)
    BY Zenon DEF Follows
  <1> HIDE DEF data, size
  <1>2. next.at = data + size + 2 /\ next.off = f.off + size
    BY <1>1
  <1> QED BY <1>1, <1>2 DEF data, size

\* The frames of a chunked answer lie on the wire, and their data in the payload.
LEMMA FrameFacts ==
    ASSUME NEW s \in Scenarios, Find(s.wire, CRLFCRLF) # 0, ~HasNoBody(s), s.te
    PROVE  /\ Framed(s)
           /\ Len(s.frames) \in Nat \ {0}
           /\ \A k \in 1 .. Len(s.frames) :
                 /\ s.frames[k].at \in Nat \ {0} /\ s.frames[k].at <= Len(s.wire) + 1
                 /\ s.frames[k].off \in Nat /\ s.frames[k].off <= Len(s.payload)
  <1>1. Framed(s)
    BY ScenariosAssumption
  <1>2. /\ s.frames \in Seq([at : Nat \ {0}, off : Nat]) /\ s.payload \in Seq(Cells)
        /\ s.wire \in Seq(Cells) /\ Len(s.wire) \in Nat /\ Len(s.payload) \in Nat
    BY ScenarioFields, LenProperties
  <1>3. Len(s.frames) \in Nat \ {0}
    BY <1>1, <1>2, EmptySeq, LenProperties DEF Framed
  <1>4. \A k \in 1 .. Len(s.frames) : s.frames[k].at \in Nat \ {0} /\ s.frames[k].off \in Nat
    <2>1. \A k \in 1 .. Len(s.frames) : s.frames[k] \in [at : Nat \ {0}, off : Nat]
      BY <1>2, LenProperties
    <2> QED BY <2>1
  <1>5. s.frames[1].at <= Len(s.wire) + 1 /\ s.frames[1].off <= Len(s.payload)
    <2>1. Find(s.wire, CRLFCRLF) \in Nat /\ Matches(s.wire, CRLFCRLF, Find(s.wire, CRLFCRLF))
      BY <1>2, FindPosition
    <2>2. Find(s.wire, CRLFCRLF) + 4 - 1 <= Len(s.wire)
      BY <2>1, Patterns DEF Matches
    <2>3. s.frames[1].at = Find(s.wire, CRLFCRLF) + 4 /\ s.frames[1].off = 0
      BY <1>1 DEF Framed, BodyAt
    <2> QED BY <1>2, <2>1, <2>2, <2>3
  <1>6. ASSUME NEW k \in 1 .. Len(s.frames) - 1
        PROVE  s.frames[k + 1].at <= Len(s.wire) + 1 /\ s.frames[k + 1].off <= Len(s.payload)
    <2> DEFINE data == DataAt(s, s.frames[k].at)
               size == Size(From(s, s.frames[k].at))
               rest == From(s, s.frames[k].at)
    <2>1. Follows(s, s.frames[k], s.frames[k + 1])
      BY <1>1 DEF Framed
    <2>2. /\ ChunkAt(s, s.frames[k].at)
          /\ s.frames[k + 1].at = data + size + 2
          /\ s.frames[k + 1].off <= Len(s.payload)
      BY <2>1 DEF Follows
    <2>3. /\ Find(rest, CRLF) # 0 /\ IsSize(rest)
          /\ Matches(s.wire, CRLF, data + size)
      BY <2>2 DEF ChunkAt, SizeAt
    <2>4. s.frames[k].at \in Nat \ {0} /\ rest = SubSeq(s.wire, s.frames[k].at, Len(s.wire))
      <3>1. k \in 1 .. Len(s.frames)
        BY <1>3
      <3>2. s.frames[k].at \in Nat \ {0}
        BY <1>4, <3>1
      <3>3. (s.frames[k].at - 1) + 1 = s.frames[k].at
        BY <3>2
      <3> QED BY <3>2, <3>3 DEF From, Drop
    <2> HIDE DEF rest
    <2>5. rest \in Seq(Cells)
      <3> DEFINE w == s.wire
                 p == s.frames[k].at
      <3>1. w \in Seq(Cells) /\ p \in Nat \ {0} /\ Len(w) \in Int /\ Len(w) <= Len(w) /\ rest = SubSeq(w, p, Len(w))
        BY <1>2, <2>4
      <3> HIDE DEF w, p
      <3> QED BY <3>1, SliceType
    <2>6. Find(rest, CRLF) \in Nat /\ Size(rest) \in Nat
      BY <2>3, <2>5, FindPosition, SizeType
    <2>7. data \in Int /\ size \in Int
      BY <2>4, <2>6 DEF DataAt, rest
    <2> HIDE DEF data, size
    <2>8. data + size + 2 - 1 <= Len(s.wire)
      BY <2>3, Patterns DEF Matches
    <2> QED BY <1>2, <2>2, <2>7, <2>8
  <1>7. \A k \in 1 .. Len(s.frames) : k # 1 => k - 1 \in 1 .. Len(s.frames) - 1 /\ (k - 1) + 1 = k
    BY <1>3
  <1>8. ASSUME NEW k \in 1 .. Len(s.frames)
        PROVE  s.frames[k].at <= Len(s.wire) + 1 /\ s.frames[k].off <= Len(s.payload)
    BY <1>5, <1>6, <1>7
  <1> QED BY <1>1, <1>3, <1>4, <1>8

-----------------------------------------------------------------------------

\* The callback is given every piece the body is given.
LEMMA CallbackStep == TypeOK /\ CallbackSawBody /\ [Next]_vars => CallbackSawBody'
  <1> SUFFICES ASSUME TypeOK, CallbackSawBody, [Next]_vars PROVE CallbackSawBody'
    OBVIOUS
  <1> USE DEF CallbackSawBody
  <1>1. sc' = sc
    BY DEF Next, vars, Send, LoopTop, Receive, ReceiveEnd, ReceiveError, HeadersWait, HeadersParse,
           HeadersReject, BodyLength, BodyUntilClose, FeedStart, FeedSize, FeedChunk, FeedReturn,
           AppendChunk, AppendDone, Finish, Done
  <1>2. ASSUME NEW piece, NEW next, AppendBody(piece, next)
        PROVE  sc.on_chunk => seen' = body'
    BY <1>2 DEF AppendBody, Emitted
  <1>3. CASE BodyLength
    BY <1>1, <1>2, <1>3 DEF BodyLength
  <1>4. CASE BodyUntilClose
    BY <1>1, <1>2, <1>4 DEF BodyUntilClose
  <1>5. CASE AppendChunk
    BY <1>1, <1>2, <1>5 DEF AppendChunk
  <1>6. CASE ~(BodyLength \/ BodyUntilClose \/ AppendChunk)
    <2>1. UNCHANGED <<body, seen>>
      BY <1>6 DEF Next, vars, Send, LoopTop, Receive, ReceiveEnd, ReceiveError, HeadersWait,
           HeadersParse, HeadersReject, FeedStart, FeedSize, FeedChunk, FeedReturn, AppendDone,
           Finish, Done
    <2> QED BY <1>1, <2>1
  <1> QED BY <1>3, <1>4, <1>5, <1>6

\* A streaming caller and a buffering caller get the same body, for every answer.
THEOREM CallbackSeesBody == Spec => []CallbackSawBody
  <1>1. Init => CallbackSawBody
    BY DEF Init, CallbackSawBody
  <1> QED BY <1>1, CallbackStep, TypeCorrect, PTL DEF Spec

-----------------------------------------------------------------------------

\* The call runs until it has a result, and knows the headers it has read.
LEMMA HeadersReadStep ==
    ASSUME TypeOK, Placement, HeadersRead, [Next]_vars
    PROVE  HeadersRead'
  <1> USE DEF HeadersRead, NoBody, Leave, headers, decoder
  <1>1. CASE Send
    BY <1>1 DEF Send
  <1>2. CASE LoopTop
    BY <1>2 DEF LoopTop
  <1>3. ASSUME NEW n \in 1 .. BufferSize, Receive(n) PROVE HeadersRead'
    BY <1>3 DEF Receive
  <1>4. CASE ReceiveEnd
    BY <1>4 DEF ReceiveEnd
  <1>5. CASE ReceiveError
    BY <1>5 DEF ReceiveError
  <1>6. CASE HeadersWait
    BY <1>6 DEF HeadersWait
  <1>7. CASE HeadersParse
    BY <1>7 DEF HeadersParse
  <1>8. CASE HeadersReject
    BY <1>8 DEF HeadersReject
  <1>9. ASSUME NEW piece, NEW next, AppendBody(piece, next), pc \in {"body", "append"},
               next \in {"top", "append"}, UNCHANGED <<sc, headers>>
        PROVE  HeadersRead'
    <2>1. ~NoBody /\ UNCHANGED <<got_headers, chunked, content_length>>
      BY <1>9 DEF Placement
    <2> QED BY <1>9, <2>1 DEF AppendBody
  <1>10. CASE BodyLength
    BY <1>9, <1>10 DEF BodyLength
  <1>11. CASE BodyUntilClose
    BY <1>9, <1>11 DEF BodyUntilClose
  <1>12. CASE FeedStart
    BY <1>12 DEF FeedStart
  <1>13. CASE FeedSize
    BY <1>13 DEF FeedSize
  <1>14. CASE FeedChunk
    BY <1>14 DEF FeedChunk
  <1>15. CASE FeedReturn
    BY <1>15 DEF FeedReturn
  <1>16. CASE AppendChunk
    BY <1>9, <1>16 DEF AppendChunk
  <1>17. CASE AppendDone
    <2>1. ~NoBody
      BY <1>17 DEF AppendDone, Placement
    <2> QED BY <1>17, <2>1 DEF AppendDone
  <1>18. CASE Finish
    BY <1>18 DEF Finish
  <1>19. CASE UNCHANGED vars
    BY <1>19 DEF vars
  <1> QED
    BY <1>1, <1>2, <1>3, <1>4, <1>5, <1>6, <1>7, <1>8, <1>10, <1>11, <1>12, <1>13, <1>14,
       <1>15, <1>16, <1>17, <1>18, <1>19 DEF Next, Done

\* While the separator has not arrived, what is kept is the beginning of the wire
\* and the separator ends behind it.
LEMMA SeparatorAhead ==
    ASSUME TypeOK, HeadersKept, ReadsBounded, pc = "headers", ~got_headers
    PROVE  /\ Len(pending_headers) \in Nat /\ Len(incoming) \in Nat
           /\ Len(pending_headers) + Len(incoming) = got
           /\ Find(sc.wire, CRLFCRLF) # 0 => Len(pending_headers) < HeaderEnd
  <1> DEFINE w == sc.wire
             q == Len(pending_headers)
             f == Find(w, CRLFCRLF)
  <1>1. /\ w \in Seq(Cells) /\ got \in 0 .. Len(w) /\ pending_headers \in Seq(Cells)
        /\ incoming \in Seq(Cells) /\ q \in Nat /\ Len(incoming) \in Nat /\ Len(w) \in Nat
    BY ScenarioFields, LenProperties DEF TypeOK
  <1>2. pending_headers \o incoming = SubSeq(w, 1, got)
    BY DEF HeadersKept, HeldBack
  <1>3. Len(pending_headers \o incoming) = q + Len(incoming)
        /\ \A i \in 1 .. q : (pending_headers \o incoming)[i] = pending_headers[i]
    BY <1>1, ConcatProperties
  <1>4. got \in Nat /\ 1 <= got + 1 /\ got <= Len(w)
    BY <1>1
  <1>5. Len(SubSeq(w, 1, got)) = got /\ \A i \in 1 .. got : SubSeq(w, 1, got)[i] = w[i]
    <2>1. /\ Len(SubSeq(w, 1, got)) = got - 1 + 1
          /\ \A i \in 1 .. got - 1 + 1 : SubSeq(w, 1, got)[i] = w[1 + i - 1]
      BY <1>1, <1>4, SliceBytes
    <2> QED BY <1>4, <2>1
  <1>6. q + Len(incoming) = got
    BY <1>2, <1>3, <1>5
  <1> HIDE DEF w, q
  <1>7. q <= got /\ \A i \in 1 .. q : pending_headers[i] = w[i]
    BY <1>1, <1>2, <1>3, <1>5, <1>6
  <1>8. pending_headers = SubSeq(w, 1, q)
    <2>1. q <= Len(w) /\ 1 <= q + 1
      BY <1>1, <1>4, <1>7
    <2>2. /\ SubSeq(w, 1, q) \in Seq(Cells) /\ Len(SubSeq(w, 1, q)) = q - 1 + 1
          /\ \A i \in 1 .. q - 1 + 1 : SubSeq(w, 1, q)[i] = w[1 + i - 1]
      BY <1>1, <2>1, SliceBytes
    <2>3. Len(SubSeq(w, 1, q)) = q /\ \A i \in 1 .. q : SubSeq(w, 1, q)[i] = w[i]
      BY <1>1, <2>2
    <2>4. Len(pending_headers) = q
      BY DEF q
    <2> QED BY <1>1, <1>7, <2>2, <2>3, <2>4, SeqEqual
  <1>9. ASSUME f # 0, f + 3 <= q PROVE FALSE
    <2>1. f \in 1 .. Len(w) /\ Matches(w, CRLFCRLF, f)
      BY <1>1, <1>9, FindPosition
    <2>2. q \in 0 .. Len(w) /\ f \in Nat \ {0} /\ f + Len(CRLFCRLF) - 1 <= q /\ Len(CRLFCRLF) \in Nat
      <3>1. Len(CRLFCRLF) = 4
        BY Patterns
      <3>2. q \in 0 .. Len(w) /\ f \in Nat \ {0} /\ f + 4 - 1 <= q
        BY <1>1, <1>4, <1>7, <1>9, <2>1
      <3> QED BY <3>1, <3>2
    <2>3. Matches(pending_headers, CRLFCRLF, f)
      BY <1>1, <1>8, <2>1, <2>2, MatchesPrefix
    <2>4. f \in 1 .. Len(pending_headers)
      BY <1>1, <1>9, <2>1 DEF q
    <2>5. Find(pending_headers, CRLFCRLF) = 0
      BY DEF ReadsBounded
    <2> QED BY <1>1, <2>3, <2>4, <2>5, FindPosition
  <1>10. f \in Nat
    BY <1>1, FindPosition
  <1> QED BY <1>1, <1>6, <1>9, <1>10 DEF q, w, HeaderEnd

\* The separator is never overlooked, and no read is larger than it was asked for.
LEMMA ReadsBoundedStep ==
    ASSUME TypeOK, Placement, HeadersKept, ReadsBounded, [Next]_vars
    PROVE  ReadsBounded'
  <1> USE DEF ReadsBounded, Leave, headers, decoder
  <1>1. CASE Send
    BY <1>1 DEF Send
  <1>2. CASE LoopTop
    BY <1>2 DEF LoopTop
  <1>3. ASSUME NEW n \in 1 .. BufferSize, Receive(n) PROVE ReadsBounded'
    <2>1. sc.wire \in Seq(Cells) /\ got \in 0 .. Len(sc.wire) /\ Len(sc.wire) \in Nat
      BY ScenarioFields, LenProperties DEF TypeOK
    <2>2. n \in Nat /\ n <= BufferSize /\ got + n <= Len(sc.wire)
      BY <1>3, <2>1, ConstantsAssumption DEF Receive
    <2>3. Len(SubSeq(sc.wire, got + 1, got + n)) = n
      <3>1. got + 1 \in Nat \ {0} /\ got + n \in Nat /\ got + 1 <= (got + n) + 1 /\ (got + n) - (got + 1) + 1 = n
        BY <2>1, <2>2
      <3> QED BY <2>1, <2>2, <3>1, SliceBytes
    <2> QED BY <1>3, <2>2, <2>3 DEF Receive
  <1>4. CASE ReceiveEnd
    BY <1>4 DEF ReceiveEnd
  <1>5. CASE ReceiveError
    BY <1>5 DEF ReceiveError
  <1>6. CASE HeadersWait
    BY <1>6 DEF HeadersWait
  <1>7. CASE HeadersParse
    <2>1. ~got_headers /\ pc = "headers"
      BY <1>7 DEF HeadersParse, Placement
    <2>2. /\ Find(sc.wire, CRLFCRLF) # 0 /\ HeaderEnd \in Nat /\ HeaderEnd <= got
          /\ incoming' = SubSeq(sc.wire, HeaderEnd + 1, got)
      BY <1>7, <2>1, HeadersSplit
    <2>3. /\ Len(pending_headers) \in Nat /\ Len(incoming) \in Nat
          /\ Len(pending_headers) + Len(incoming) = got
          /\ Len(pending_headers) < HeaderEnd
      BY <2>1, <2>2, SeparatorAhead
    <2>4. Len(incoming') = got - HeaderEnd
      <3>1. sc.wire \in Seq(Cells) /\ got \in Nat /\ got <= Len(sc.wire)
        BY ScenarioFields, LenProperties DEF TypeOK
      <3>2. HeaderEnd + 1 \in Nat \ {0} /\ HeaderEnd + 1 <= got + 1 /\ got - (HeaderEnd + 1) + 1 = got - HeaderEnd
        BY <2>2, <3>1
      <3> QED BY <2>2, <3>1, <3>2, SliceBytes
    <2>5. Len(incoming) <= BufferSize
      BY <2>1
    <2>6. Len(incoming') <= BufferSize
      BY <2>2, <2>3, <2>4, <2>5, ConstantsAssumption
    <2>7. got_headers'
      BY <1>7 DEF HeadersParse
    <2> QED BY <2>6, <2>7
  <1>8. CASE HeadersReject
    BY <1>8 DEF HeadersReject
  <1>9. CASE BodyLength
    BY <1>9 DEF BodyLength, AppendBody, Placement
  <1>10. CASE BodyUntilClose
    BY <1>10 DEF BodyUntilClose, AppendBody, Placement
  <1>11. CASE FeedStart
    BY <1>11 DEF FeedStart, Placement
  <1>12. CASE FeedSize
    BY <1>12 DEF FeedSize, Placement
  <1>13. CASE FeedChunk
    BY <1>13 DEF FeedChunk, Placement
  <1>14. CASE FeedReturn
    BY <1>14 DEF FeedReturn, Placement
  <1>15. CASE AppendChunk
    BY <1>15 DEF AppendChunk, AppendBody, Placement
  <1>16. CASE AppendDone
    BY <1>16 DEF AppendDone, Placement
  <1>17. CASE Finish
    BY <1>17 DEF Finish
  <1>18. CASE UNCHANGED vars
    BY <1>18 DEF vars
  <1> QED
    BY <1>1, <1>2, <1>3, <1>4, <1>5, <1>6, <1>7, <1>8, <1>9, <1>10, <1>11, <1>12, <1>13, <1>14,
       <1>15, <1>16, <1>17, <1>18 DEF Next, Done

\* The decoder is untouched before the headers say that the body is chunked.
LEMMA NotFedStep ==
    ASSUME TypeOK, Placement, NotFed, [Next]_vars
    PROVE  NotFed'
  <1> USE DEF NotFed, Leave, headers, decoder
  <1>1. CASE Send
    BY <1>1 DEF Send
  <1>2. CASE LoopTop
    BY <1>2 DEF LoopTop
  <1>3. ASSUME NEW n \in 1 .. BufferSize, Receive(n) PROVE NotFed'
    BY <1>3 DEF Receive
  <1>4. CASE ReceiveEnd
    BY <1>4 DEF ReceiveEnd
  <1>5. CASE ReceiveError
    BY <1>5 DEF ReceiveError
  <1>6. CASE HeadersWait
    BY <1>6 DEF HeadersWait
  <1>7. CASE HeadersParse
    BY <1>7 DEF HeadersParse, Placement
  <1>8. CASE HeadersReject
    BY <1>8 DEF HeadersReject
  <1>9. CASE BodyLength
    BY <1>9 DEF BodyLength
  <1>10. CASE BodyUntilClose
    BY <1>10 DEF BodyUntilClose
  <1>11. CASE FeedStart
    BY <1>11 DEF FeedStart, Placement
  <1>12. CASE FeedSize \/ FeedChunk \/ FeedReturn \/ AppendChunk \/ AppendDone
    <2>1. got_headers /\ chunked /\ UNCHANGED <<got_headers, chunked>>
      BY <1>12 DEF FeedSize, FeedChunk, FeedReturn, AppendChunk, AppendDone, Placement
    <2> QED BY <2>1
  <1>17. CASE Finish
    BY <1>17 DEF Finish
  <1>18. CASE UNCHANGED vars
    BY <1>18 DEF vars
  <1> QED
    BY <1>1, <1>2, <1>3, <1>4, <1>5, <1>6, <1>7, <1>8, <1>9, <1>10, <1>11, <1>12,
       <1>17, <1>18 DEF Next, Done

\* Feed returns only when it cannot go on, and all it decoded is appended before
\* the next read.
LEMMA DrainedStep ==
    ASSUME TypeOK, Placement, Drained, NotFed, [Next]_vars
    PROVE  Drained'
  <1> USE DEF Drained, Leave, headers, decoder
  <1>1. CASE Send
    BY <1>1 DEF Send
  <1>2. CASE LoopTop
    BY <1>2 DEF LoopTop
  <1>3. ASSUME NEW n \in 1 .. BufferSize, Receive(n) PROVE Drained'
    BY <1>3 DEF Receive
  <1>4. CASE ReceiveEnd
    BY <1>4 DEF ReceiveEnd
  <1>5. CASE ReceiveError
    BY <1>5 DEF ReceiveError
  <1>6. CASE HeadersWait
    BY <1>6 DEF HeadersWait
  <1>7. CASE HeadersParse
    BY <1>7 DEF HeadersParse, Placement, NotFed
  <1>8. CASE HeadersReject
    BY <1>8 DEF HeadersReject
  <1>9. CASE BodyLength
    BY <1>9 DEF BodyLength, AppendBody, NotFed
  <1>10. CASE BodyUntilClose
    BY <1>10 DEF BodyUntilClose, AppendBody
  <1>11. CASE FeedStart
    BY <1>11 DEF FeedStart
  <1>12. CASE FeedSize
    BY <1>12 DEF FeedSize
  <1>13. CASE FeedChunk
    BY <1>13 DEF FeedChunk
  <1>14. CASE FeedReturn
    BY <1>14 DEF FeedReturn
  <1>15. CASE AppendChunk
    BY <1>15 DEF AppendChunk, AppendBody
  <1>16. CASE AppendDone
    BY <1>16 DEF AppendDone
  <1>17. CASE Finish
    BY <1>17 DEF Finish
  <1>18. CASE UNCHANGED vars
    BY <1>18 DEF vars
  <1> QED
    BY <1>1, <1>2, <1>3, <1>4, <1>5, <1>6, <1>7, <1>8, <1>9, <1>10, <1>11, <1>12, <1>13, <1>14,
       <1>15, <1>16, <1>17, <1>18 DEF Next, Done

\* What append_body does to the length of the body.
LEMMA AppendLength ==
    ASSUME TypeOK, NEW piece \in Seq(Cells), NEW next, AppendBody(piece, next)
    PROVE  /\ Len(body') \in Nat
           /\ \/ body' = body /\ pc' = "done"
              \/ body' = body \o piece /\ Len(body') = Len(body) + Len(piece) /\ pc' \in {next, "done"}
  <1>1. body \in Seq(Cells) /\ Len(body) \in Nat /\ Len(piece) \in Nat
    BY LenProperties DEF TypeOK
  <1>2. Len(body \o piece) = Len(body) + Len(piece)
    BY <1>1, ConcatProperties
  <1> QED BY <1>1, <1>2 DEF AppendBody, Leave

\* A body is never longer than its length, nor than what arrived.
LEMMA LengthKeptStep ==
    ASSUME TypeOK, Accounting, HeadersRead, LengthKept, [Next]_vars
    PROVE  LengthKept'
  <1> USE DEF LengthKept, Leave, headers, decoder, HeldBack, HeaderEnd, NoBody
  <1>0. /\ Placement /\ HeadersFound /\ BodyKept
        /\ sc.wire \in Seq(Cells) /\ got \in Nat /\ got <= Len(sc.wire) /\ Len(sc.wire) \in Nat
        /\ body \in Seq(Cells) /\ Len(body) \in Nat /\ incoming \in Seq(Cells) /\ Len(incoming) \in Nat
        /\ Find(sc.wire, CRLFCRLF) \in Nat /\ content_length \in Nat \cup {None}
    BY ScenarioFields, LenProperties, FindPosition DEF TypeOK, Accounting
  <1>e. Len(<<>>) = 0
    BY EmptySeq
  <1>1. CASE Send
    BY <1>1 DEF Send
  <1>2. CASE LoopTop
    BY <1>2 DEF LoopTop
  <1>3. ASSUME NEW n \in 1 .. BufferSize, Receive(n) PROVE LengthKept'
    <2>1. n \in Nat /\ got + n <= Len(sc.wire)
      BY <1>0, <1>3, ConstantsAssumption DEF Receive
    <2>2. Len(SubSeq(sc.wire, got + 1, got + n)) = n
      <3>1. got + 1 \in Nat \ {0} /\ got + n \in Nat /\ got + 1 <= (got + n) + 1 /\ (got + n) - (got + 1) + 1 = n
        BY <1>0, <2>1
      <3> QED BY <1>0, <2>1, <3>1, SliceBytes
    <2>3. got' = got + n /\ Len(incoming') = n /\ pc = "recv" /\ pc' \in {"headers", "body"}
          /\ (got_headers => pc' = "body")
          /\ UNCHANGED <<sc, got_headers, chunked, content_length, body>>
      BY <1>3, <2>2 DEF Receive
    <2> QED BY <1>0, <1>e, <2>1, <2>3
  <1>4. CASE ReceiveEnd
    BY <1>4 DEF ReceiveEnd
  <1>5. CASE ReceiveError
    BY <1>5 DEF ReceiveError
  <1>6. CASE HeadersWait
    BY <1>6, <1>0 DEF HeadersWait, Placement
  <1>7. CASE HeadersParse
    <2>1. ~got_headers /\ body = <<>> /\ body' = <<>> /\ UNCHANGED <<sc, got>>
      BY <1>7, <1>0 DEF HeadersParse, Placement, Accounting, NoBodyYet
    <2>2. HeaderEnd \in Nat /\ HeaderEnd <= got /\ incoming' = SubSeq(sc.wire, HeaderEnd + 1, got)
      BY <1>7, <2>1, HeadersSplit DEF Accounting
    <2>3. Len(incoming') = got - HeaderEnd
      <3> HIDE DEF HeaderEnd
      <3>1. HeaderEnd + 1 \in Nat \ {0} /\ HeaderEnd + 1 <= got + 1 /\ got - (HeaderEnd + 1) + 1 = got - HeaderEnd
        BY <1>0, <2>2
      <3> QED BY <1>0, <2>2, <3>1, SliceBytes
    <2>4. pc' = "done" \/ pc' = "body" \/ NoBody
      BY <1>7 DEF HeadersParse
    <2>5. content_length' \in Nat \cup {None}
      BY TypeStep DEF TypeOK
    <2>6. Len(body') = 0
      BY <2>1, <1>e
    <2>7. content_length' # None => Len(body') <= content_length'
      BY <2>5, <2>6
    <2>8. HeaderEnd' = HeaderEnd /\ NoBody' = NoBody
      BY <2>1
    <2> QED
      <3>1. HeaderEnd' + Len(body') <= got'
        BY <1>0, <2>1, <2>2, <2>6, <2>8
      <3>2. pc' = "body" => HeaderEnd' + Len(body') + Len(incoming') = got'
        BY <1>0, <2>1, <2>2, <2>3, <2>6, <2>8
      <3> QED BY <2>4, <2>7, <2>8, <3>1, <3>2
  <1>8. CASE HeadersReject
    BY <1>8 DEF HeadersReject
  <1>9. CASE BodyLength
    <2> DEFINE needed == IF content_length > Len(body) THEN content_length - Len(body) ELSE 0
               take == IF needed < Len(incoming) THEN needed ELSE Len(incoming)
               piece == SubSeq(incoming, 1, take)
    <2>1. content_length # None /\ content_length \in Nat /\ got_headers /\ ~chunked /\ pc = "body" /\ ~NoBody
      BY <1>9, <1>0 DEF BodyLength, Placement, HeadersRead
    <2>7. Len(body) = content_length \/ HeaderEnd + Len(body) + Len(incoming) = got
      BY <2>1
    <2>8. HeaderEnd + Len(body) <= got /\ Len(body) <= content_length
      BY <2>1
    <2>2. take \in Nat /\ take <= Len(incoming) /\ take <= content_length - Len(body)
          /\ (take < content_length - Len(body) => take = Len(incoming))
      <3> HIDE DEF HeaderEnd
      <3> QED BY <1>0, <2>1, <2>8
    <2>3. AppendBody(piece, "top") /\ UNCHANGED <<sc, got, got_headers, chunked, content_length>>
      BY <1>9 DEF BodyLength
    <2> HIDE DEF take
    <2>4. piece \in Seq(Cells) /\ Len(piece) = take
      <3>1. Len(piece) = take - 1 + 1 /\ piece \in Seq(Cells)
        BY <1>0, <2>2, SliceBytes
      <3> QED BY <2>2, <3>1
    <2> HIDE DEF piece
    <2>5. /\ Len(body') \in Nat
          /\ \/ Len(body') = Len(body) /\ pc' = "done"
             \/ Len(body') = Len(body) + take /\ pc' \in {"top", "done"}
      BY <2>3, <2>4, AppendLength
    <2>6. HeaderEnd' = HeaderEnd /\ HeaderEnd \in Nat /\ NoBody' = NoBody
      BY <1>0, <2>3
    <2> HIDE DEF HeaderEnd, NoBody
    <2>9. HeaderEnd + Len(body') <= got /\ Len(body') <= content_length
      BY <1>0, <2>1, <2>2, <2>5, <2>6, <2>7, <2>8
    <2>10. pc' # "done" => Len(body') = content_length \/ HeaderEnd + Len(body') = got
      <3>1. SUFFICES ASSUME pc' # "done", Len(body') # content_length PROVE HeaderEnd + Len(body') = got
        OBVIOUS
      <3>2. Len(body') = Len(body) + take
        BY <2>5, <3>1
      <3>3. take < content_length - Len(body)
        BY <1>0, <2>1, <2>2, <3>1, <3>2
      <3>4. take = Len(incoming) /\ Len(incoming) >= 0 /\ Len(body) # content_length
        BY <1>0, <2>1, <2>2, <3>3
      <3> QED BY <1>0, <2>6, <2>7, <3>2, <3>4
    <2>11. pc' # "done" => Len(HeldBack("body")') = 0
      BY <2>5, <1>e
    <2>12. HeaderEnd' + Len(body') <= got' /\ Len(body') <= content_length'
      BY <2>3, <2>6, <2>9
    <2>13. pc' # "done" => Len(body') = content_length' \/ HeaderEnd' + Len(body') + Len(HeldBack("body")') = got'
      <3>1. SUFFICES ASSUME pc' # "done", Len(body') # content_length
                     PROVE  HeaderEnd' + Len(body') + Len(HeldBack("body")') = got'
        BY <2>3
      <3>2. HeaderEnd + Len(body') = got /\ Len(HeldBack("body")') = 0 /\ got' = got
        BY <2>3, <2>10, <2>11, <3>1
      <3>3. HeaderEnd' = HeaderEnd /\ HeaderEnd \in Nat /\ Len(body') \in Nat
        BY <2>5, <2>6
      <3> HIDE DEF HeldBack
      <3> QED BY ONLY <3>2, <3>3
    <2> QED BY <2>12, <2>13
  <1>10. CASE BodyUntilClose
    <2>1. content_length = None /\ got_headers /\ ~chunked /\ pc = "body" /\ ~finished
      BY <1>10, <1>0 DEF BodyUntilClose, Placement
    <2>2. body \o incoming = SubSeq(sc.wire, HeaderEnd + 1, got) /\ HeaderEnd <= got /\ HeaderEnd \in Nat
      <3>1. body \o incoming = SubSeq(sc.wire, HeaderEnd + 1, got)
        BY <1>0, <2>1 DEF BodyKept
      <3>2. HeaderEnd <= got /\ HeaderEnd \in Nat
        BY <1>0, <2>1 DEF HeadersFound
      <3> QED BY <3>1, <3>2
    <2>3. Len(body) + Len(incoming) = got - HeaderEnd
      <3>1. Len(body \o incoming) = Len(body) + Len(incoming)
        BY <1>0, ConcatProperties
      <3> HIDE DEF HeaderEnd
      <3>2. HeaderEnd + 1 \in Nat \ {0} /\ HeaderEnd + 1 <= got + 1 /\ got - (HeaderEnd + 1) + 1 = got - HeaderEnd
        BY <1>0, <2>2
      <3>3. Len(SubSeq(sc.wire, HeaderEnd + 1, got)) = got - HeaderEnd
        BY <1>0, <3>2, SliceBytes
      <3> QED BY <2>2, <3>1, <3>3
    <2>4. AppendBody(incoming, "top") /\ UNCHANGED <<sc, got, got_headers, chunked, content_length>>
      BY <1>10 DEF BodyUntilClose
    <2>5. Len(body') \in Nat /\ (Len(body') = Len(body) \/ Len(body') = Len(body) + Len(incoming))
      BY <1>0, <2>4, AppendLength
    <2>6. HeaderEnd' = HeaderEnd
      BY <2>4
    <2> HIDE DEF HeaderEnd
    <2>7. HeaderEnd' + Len(body') <= got'
      BY <1>0, <2>2, <2>3, <2>4, <2>5, <2>6
    <2> QED BY <2>1, <2>4, <2>7
  <1>11. CASE FeedStart \/ FeedSize \/ FeedChunk \/ FeedReturn \/ AppendChunk \/ AppendDone
    <2>1. chunked'
      BY <1>0, <1>11 DEF FeedStart, FeedSize, FeedChunk, FeedReturn, AppendChunk, AppendDone, Placement
    <2> QED BY <2>1
  <1>17. CASE Finish
    BY <1>17 DEF Finish
  <1>18. CASE UNCHANGED vars
    BY <1>18 DEF vars
  <1> QED
    BY <1>1, <1>2, <1>3, <1>4, <1>5, <1>6, <1>7, <1>8, <1>9, <1>10, <1>11, <1>17, <1>18 DEF Next, Done

-----------------------------------------------------------------------------

\* While a chunked body is read, the scenario has frames.
LEMMA ChunkedScenario ==
    ASSUME TypeOK, HeadersFound, HeadersRead, pc # "done", got_headers, chunked, ~NoBody
    PROVE  /\ sc \in Scenarios /\ Find(sc.wire, CRLFCRLF) # 0 /\ ~HasNoBody(sc) /\ sc.te
           /\ sc.wire \in Seq(Cells) /\ sc.payload \in Seq(Cells)
           /\ Len(sc.wire) \in Nat /\ Len(sc.payload) \in Nat
           /\ got \in Nat /\ got <= Len(sc.wire)
           /\ buffer \in Seq(Cells) /\ incoming \in Seq(Cells)
           /\ chunks \in Seq(Seq(Cells)) /\ Len(chunks) \in Nat
  <1>1. sc \in Scenarios
    BY DEF TypeOK
  <1>2. sc.te /\ Find(sc.wire, CRLFCRLF) # 0 /\ ~HasNoBody(sc)
    BY DEF HeadersRead, HeadersFound, NoBody
  <1>3. sc.wire \in Seq(Cells) /\ sc.payload \in Seq(Cells) /\ Len(sc.wire) \in Nat /\ Len(sc.payload) \in Nat
    BY <1>1, ScenarioFields, LenProperties
  <1>4. got \in Nat /\ got <= Len(sc.wire)
    BY <1>3 DEF TypeOK
  <1>5. chunks \in Seq(Seq(Cells)) /\ Len(chunks) \in Nat /\ buffer \in Seq(Cells) /\ incoming \in Seq(Cells)
    BY LenProperties DEF TypeOK
  <1> QED BY <1>1, <1>2, <1>3, <1>4, <1>5

\* A step that leaves the decoder and the bytes it is to be fed.
LEMMA ChunksStill ==
    ASSUME ChunksKept, pc # "done", HeldBack("body")' = HeldBack("body"),
           UNCHANGED <<sc, got, got_headers, chunked, buffer, remaining, complete, chunks, body>>
    PROVE  ChunksKept'
  <1>1. SUFFICES ASSUME got_headers, chunked, ~NoBody
                 PROVE  (\E k \in 1 .. Len(sc.frames) : Decoded(k) /\ ReadUpTo(k))'
    BY DEF ChunksKept, NoBody
  <1>2. PICK k \in 1 .. Len(sc.frames) : Decoded(k) /\ ReadUpTo(k)
    BY <1>1 DEF ChunksKept
  <1>3. Decoded(k)'
    BY <1>2 DEF Decoded
  <1>4. ReadUpTo(k)'
    <2> HIDE DEF HeldBack
    <2> QED BY <1>2 DEF ReadUpTo
  <1>5. k \in 1 .. Len(sc.frames')
    OBVIOUS
  <1> QED BY <1>3, <1>4, <1>5

\* A read goes behind the bytes that are held.
LEMMA ChunksReceive ==
    ASSUME TypeOK, HeadersFound, HeadersRead, Drained, ChunksKept, NEW n \in 1 .. BufferSize, Receive(n)
    PROVE  ChunksKept'
  <1>0. /\ pc = "recv" /\ incoming' = SubSeq(sc.wire, got + 1, got + n) /\ got' = got + n
        /\ UNCHANGED <<sc, got_headers, chunked, content_length, buffer, remaining, complete, chunks, body>>
        /\ (got_headers => pc' = "body")
    BY DEF Receive, headers, decoder
  <1>1. SUFFICES ASSUME got_headers, chunked, ~NoBody
                 PROVE  (\E k \in 1 .. Len(sc.frames) : Decoded(k) /\ ReadUpTo(k))'
    BY <1>0 DEF ChunksKept, NoBody
  <1>2. PICK k \in 1 .. Len(sc.frames) : Decoded(k) /\ ReadUpTo(k)
    BY <1>0, <1>1 DEF ChunksKept
  <1>3. /\ sc \in Scenarios /\ Find(sc.wire, CRLFCRLF) # 0 /\ ~HasNoBody(sc) /\ sc.te
        /\ sc.wire \in Seq(Cells) /\ Len(sc.wire) \in Nat /\ got \in Nat /\ got <= Len(sc.wire)
        /\ buffer \in Seq(Cells)
    BY <1>0, <1>1, ChunkedScenario
  <1>4. sc.frames[k].at \in Nat \ {0} /\ sc.frames[k].at <= Len(sc.wire) + 1
    BY <1>2, <1>3, FrameFacts
  <1>5. n \in Nat /\ got + n <= Len(sc.wire)
    BY <1>0, <1>3, ConstantsAssumption DEF Receive
  <1>6. Decoded(k)'
    BY <1>0, <1>2 DEF Decoded
  <1>7. HeldBack("body") = <<>> /\ HeldBack("body")' = incoming' /\ buffer \o <<>> = buffer
    BY <1>0, <1>1, <1>3, ConcatEmptySeq DEF HeldBack
  <1>8. ASSUME NEW p \in Nat \ {0}, p <= got + 1, buffer = SubSeq(sc.wire, p, got)
        PROVE  p <= got' + 1 /\ buffer \o incoming' = SubSeq(sc.wire, p, got')
    <2>1. /\ p \in 1 .. Len(sc.wire) + 1 /\ got \in p - 1 .. Len(sc.wire)
          /\ got + n \in got .. Len(sc.wire) /\ p <= got + n + 1
      BY <1>3, <1>5, <1>8
    <2> DEFINE w == sc.wire
    <2>2. w \in Seq(Cells)
      BY <1>3
    <2> HIDE DEF w
    <2>3. p \in 1 .. Len(w) + 1 /\ got \in p - 1 .. Len(w) /\ got + n \in got .. Len(w)
      BY <2>1 DEF w
    <2>4. SubSeq(w, p, got) \o SubSeq(w, got + 1, got + n) = SubSeq(w, p, got + n)
      BY <2>2, <2>3, ConcatAdjacentSubSeq
    <2> QED BY <1>0, <1>8, <2>1, <2>4 DEF w
  <1>9. ReadUpTo(k)'
    <2>1. CASE complete
      BY <1>0, <1>2, <2>1 DEF ReadUpTo
    <2>2. CASE ~complete /\ remaining = None
      <3> DEFINE p == sc.frames[k].at
      <3>1. p <= got + 1 /\ buffer = SubSeq(sc.wire, p, got)
        BY <1>2, <1>7, <2>2 DEF ReadUpTo
      <3>2. p <= got' + 1 /\ buffer \o incoming' = SubSeq(sc.wire, p, got')
        BY <1>4, <1>8, <3>1
      <3> QED BY <1>0, <1>7, <2>2, <3>2 DEF ReadUpTo
    <2>3. CASE ~complete /\ remaining # None
      <3> DEFINE p == DataAt(sc, sc.frames[k].at)
      <3>1. /\ SizeAt(sc, sc.frames[k].at) /\ remaining = Size(From(sc, sc.frames[k].at))
            /\ p <= got + 1 /\ buffer = SubSeq(sc.wire, p, got)
        BY <1>2, <1>7, <2>3 DEF ReadUpTo
      <3>2. p \in Nat \ {0}
        BY <1>3, <1>4, <3>1, SizeLineFacts
      <3> HIDE DEF p
      <3>3. p <= got' + 1 /\ buffer \o incoming' = SubSeq(sc.wire, p, got')
        BY <1>8, <3>1, <3>2
      <3> QED BY <1>0, <1>7, <2>3, <3>1, <3>3 DEF ReadUpTo, p
    <2> QED BY <2>1, <2>2, <2>3
  <1> QED BY <1>0, <1>6, <1>9

\* With the headers the decoder is at the first frame.
LEMMA ChunksBegin ==
    ASSUME TypeOK, Accounting, NotFed, HeadersParse, TypeOK', HeadersRead', HeadersFound'
    PROVE  ChunksKept'
  <1>0. ~got_headers /\ UNCHANGED <<sc, got, buffer, remaining, complete, chunks, body>>
    BY DEF HeadersParse, Accounting, Placement, decoder
  <1>1. SUFFICES ASSUME pc' # "done", got_headers', chunked', ~NoBody'
                 PROVE  (\E k \in 1 .. Len(sc.frames) : Decoded(k) /\ ReadUpTo(k))'
    BY DEF ChunksKept
  <1>2. sc \in Scenarios /\ Find(sc.wire, CRLFCRLF) # 0 /\ ~HasNoBody(sc) /\ sc.te
    BY <1>0, <1>1 DEF TypeOK, HeadersRead, HeadersFound, NoBody
  <1>3. pc' = "body"
    BY <1>0, <1>1 DEF HeadersParse, Leave, NoBody
  <1>4. HeaderEnd \in Nat /\ HeaderEnd <= got /\ incoming' = SubSeq(sc.wire, HeaderEnd + 1, got)
    BY <1>0, HeadersSplit DEF Accounting
  <1>5. body = <<>> /\ buffer = <<>> /\ remaining = None /\ ~complete /\ chunks = <<>>
    BY <1>0 DEF NotFed, Accounting, NoBodyYet
  <1>6. 1 \in 1 .. Len(sc.frames) /\ sc.frames[1].off = 0 /\ sc.frames[1].at = HeaderEnd + 1
    <2>1. Framed(sc) /\ Len(sc.frames) \in Nat \ {0}
      BY <1>2, FrameFacts
    <2>2. Find(sc.wire, CRLFCRLF) \in Nat
      BY <1>2, ScenarioFields, FindPosition
    <2>3. sc.frames[1].off = 0 /\ sc.frames[1].at = Find(sc.wire, CRLFCRLF) + 4
      BY <2>1 DEF Framed, BodyAt
    <2> QED BY <2>1, <2>2, <2>3 DEF HeaderEnd
  <1>7. Decoded(1)'
    <2>1. SubSeq(sc.payload, 1, 0) = <<>> /\ Len(<<>>) = 0
      BY SubSeqEmpty, EmptySeq
    <2>2. sc'.frames[1 - Len(chunks')].off = 0 /\ 1 - Len(chunks') >= 1 /\ Len(chunks') = 0
      BY <1>0, <1>5, <1>6, <2>1
    <2> QED BY <1>0, <1>5, <2>1, <2>2 DEF Decoded
  <1>8. ReadUpTo(1)'
    <2>1. incoming' \in Seq(Cells)
      BY DEF TypeOK
    <2>2. buffer' \o HeldBack("body")' = incoming'
      BY <1>0, <1>3, <1>5, <2>1, ConcatEmptySeq DEF HeldBack
    <2>3. got \in Nat
      BY <1>2, ScenarioFields, LenProperties DEF TypeOK
    <2>4. HeaderEnd + 1 <= got + 1
      BY <1>4, <2>3
    <2> QED BY <1>0, <1>4, <1>5, <1>6, <2>2, <2>4 DEF ReadUpTo
  <1> QED BY <1>0, <1>6, <1>7, <1>8

\* Feed takes over the bytes that were held for it.
LEMMA ChunksFed ==
    ASSUME TypeOK, HeadersFound, HeadersRead, ChunksKept, got_headers, FeedStart, pc' # "done"
    PROVE  ChunksKept'
  <1>0. /\ pc = "body" /\ pc' = "feed" /\ buffer' = buffer \o incoming
        /\ UNCHANGED <<sc, got, got_headers, chunked, remaining, complete, chunks, body>>
    BY DEF FeedStart, Leave, headers
  <1>1. SUFFICES ASSUME chunked, ~NoBody
                 PROVE  (\E k \in 1 .. Len(sc.frames) : Decoded(k) /\ ReadUpTo(k))'
    BY <1>0 DEF ChunksKept, NoBody
  <1>2. PICK k \in 1 .. Len(sc.frames) : Decoded(k) /\ ReadUpTo(k)
    BY <1>0, <1>1 DEF ChunksKept
  <1>3. buffer' \o HeldBack("body")' = buffer \o HeldBack("body")
    <2>1. buffer \in Seq(Cells) /\ incoming \in Seq(Cells)
      BY DEF TypeOK
    <2>2. buffer \o incoming \in Seq(Cells)
      BY <2>1, ConcatProperties
    <2>3. HeldBack("body") = incoming /\ HeldBack("body")' = <<>>
      BY <1>0 DEF HeldBack
    <2> QED BY <1>0, <2>2, <2>3, ConcatEmptySeq
  <1>4. Decoded(k)'
    BY <1>0, <1>2 DEF Decoded
  <1>5. ReadUpTo(k)'
    BY <1>0, <1>2, <1>3 DEF ReadUpTo
  <1> QED BY <1>0, <1>4, <1>5

\* Where Feed stands between two of its steps.
LEMMA FeedStands ==
    ASSUME TypeOK, HeadersFound, HeadersRead, got_headers, chunked, ~NoBody,
           pc = "feed", ~complete, NEW k \in 1 .. Len(sc.frames), ReadUpTo(k)
    PROVE  LET p == sc.frames[k].at
               q == IF remaining = None THEN p ELSE DataAt(sc, p)
           IN  /\ p \in Nat \ {0} /\ p <= Len(sc.wire) + 1
               /\ q \in Nat \ {0} /\ q <= got + 1
               /\ buffer = SubSeq(sc.wire, q, got) /\ Len(buffer) = got - q + 1
               /\ remaining # None => SizeAt(sc, p) /\ remaining = Size(From(sc, p)) /\ remaining \in Nat \ {0}
  <1> DEFINE p == sc.frames[k].at
             q == IF remaining = None THEN p ELSE DataAt(sc, p)
  <1>1. /\ sc \in Scenarios /\ Find(sc.wire, CRLFCRLF) # 0 /\ ~HasNoBody(sc) /\ sc.te
        /\ sc.wire \in Seq(Cells) /\ Len(sc.wire) \in Nat /\ got \in Nat /\ got <= Len(sc.wire)
        /\ buffer \in Seq(Cells)
    BY ChunkedScenario
  <1>2. p \in Nat \ {0} /\ p <= Len(sc.wire) + 1
    BY <1>1, FrameFacts
  <1>3. buffer \o HeldBack("body") = buffer
    BY <1>1, ConcatEmptySeq DEF HeldBack
  <1>4. q <= got + 1 /\ buffer = SubSeq(sc.wire, q, got)
        /\ (remaining # None => SizeAt(sc, p) /\ remaining = Size(From(sc, p)))
    BY <1>3 DEF ReadUpTo
  <1>5. q \in Nat \ {0}
    BY <1>1, <1>2, <1>4, SizeLineFacts
  <1>6. remaining # None => remaining \in Nat \ {0}
    <2>1. sc.max \in Nat /\ remaining \in 1 .. sc.max \cup {None}
      BY <1>1, ScenarioFields DEF TypeOK
    <2> QED BY <2>1
  <1> HIDE DEF p, q
  <1>7. Len(buffer) = got - q + 1
    BY <1>1, <1>4, <1>5, SliceBytes
  <1> QED BY <1>2, <1>4, <1>5, <1>6, <1>7 DEF p, q

\* A size line that Feed finds in its buffer is the one of the frame it stands at.
LEMMA SizeLineFound ==
    ASSUME NEW s \in Scenarios, NEW p \in Nat \ {0}, NEW g \in Nat, p <= g + 1, g <= Len(s.wire),
           Find(SubSeq(s.wire, p, g), CRLF) # 0
    PROVE  /\ Find(SubSeq(s.wire, p, g), CRLF) = Find(From(s, p), CRLF)
           /\ Find(SubSeq(s.wire, p, g), CRLF) \in Nat \ {0}
           /\ DataAt(s, p) = p + (Find(SubSeq(s.wire, p, g), CRLF) + 1) /\ DataAt(s, p) <= g + 1
           /\ IsSize(SubSeq(s.wire, p, g)) <=> SizeAt(s, p)
           /\ IsSize(SubSeq(s.wire, p, g)) => Size(SubSeq(s.wire, p, g)) = Size(From(s, p)) /\ Size(SubSeq(s.wire, p, g)) \in Nat
           /\ Drop(SubSeq(s.wire, p, g), Find(SubSeq(s.wire, p, g), CRLF) + 1) = SubSeq(s.wire, DataAt(s, p), g)
  <1> DEFINE b == SubSeq(s.wire, p, g)
             r == From(s, p)
             m == g - p + 1
  <1>1. s.wire \in Seq(Cells) /\ Len(s.wire) \in Nat
    BY ScenarioFields, LenProperties
  <1>2. r \in Seq(Cells) /\ m \in 0 .. Len(r) /\ b = SubSeq(r, 1, m)
    BY <1>1, SliceIsPrefix DEF From
  <1>0. b = SubSeq(s.wire, p, g) /\ Find(b, CRLF) # 0
    OBVIOUS
  <1> HIDE DEF b, r, m
  <1>3. /\ Find(r, CRLF) = Find(b, CRLF)
        /\ Find(r, CRLF) \in Nat \ {0} /\ Find(r, CRLF) + 1 <= m
        /\ IsSize(b) <=> IsSize(r)
        /\ IsSize(r) => Size(b) = Size(r)
    BY <1>0, <1>2, SizePrefix
  <1>4. IsSize(r) => Size(r) \in Nat
    BY <1>2, SizeType
  <1>5. DataAt(s, p) = p + (Find(b, CRLF) + 1) /\ DataAt(s, p) <= g + 1
    <2> DEFINE e == Find(b, CRLF)
    <2>1. DataAt(s, p) = p + Find(r, CRLF) + 1
      BY DEF DataAt, r
    <2>2. DataAt(s, p) = p + e + 1 /\ e \in Nat /\ e + 1 <= g - p + 1
      BY <1>3, <2>1 DEF m
    <2> HIDE DEF e
    <2>3. DataAt(s, p) = p + (e + 1) /\ DataAt(s, p) <= g + 1
      BY <2>2
    <2> QED BY <2>3 DEF e
  <1>6. Drop(b, Find(b, CRLF) + 1) = SubSeq(s.wire, p + (Find(b, CRLF) + 1), g)
    <2> DEFINE e == Find(b, CRLF) + 1
    <2>1. e \in Nat /\ p + e <= g + 1
      BY <1>3, <1>5
    <2> HIDE DEF e
    <2>2. Drop(SubSeq(s.wire, p, g), e) = SubSeq(s.wire, p + e, g)
      BY <1>1, <2>1, SliceDrop
    <2> QED BY <1>0, <2>2 DEF e
  <1>7. IsSize(b) <=> SizeAt(s, p)
    BY <1>3 DEF SizeAt, r
  <1> QED BY <1>3, <1>4, <1>5, <1>6, <1>7 DEF b, r

\* A size line is read: the decoder is at the data of the frame, or it is done.
LEMMA ChunksSized ==
    ASSUME TypeOK, HeadersFound, HeadersRead, ChunksKept, got_headers, FeedSize, pc' # "done", chunked
    PROVE  ChunksKept'
  <1>0. /\ pc = "feed" /\ pc' = "feed" /\ ~complete /\ remaining = None /\ Find(buffer, CRLF) # 0
        /\ buffer' = Drop(buffer, Find(buffer, CRLF) + 1)
        /\ IsSize(buffer)
        /\ \/ Size(buffer) = 0 /\ complete' /\ remaining' = remaining
           \/ Size(buffer) \in 1 .. SizeLimit /\ remaining' = Size(buffer) /\ complete' = complete
        /\ UNCHANGED <<sc, got, got_headers, chunked, chunks, body>>
    BY DEF FeedSize, Leave, headers
  <1>1. SUFFICES ASSUME ~NoBody
                 PROVE  (\E k \in 1 .. Len(sc.frames) : Decoded(k) /\ ReadUpTo(k))'
    BY <1>0 DEF ChunksKept, NoBody
  <1>2. PICK k \in 1 .. Len(sc.frames) : Decoded(k) /\ ReadUpTo(k)
    BY <1>0, <1>1 DEF ChunksKept
  <1> DEFINE p == sc.frames[k].at
  <1>3. /\ sc \in Scenarios /\ Find(sc.wire, CRLFCRLF) # 0 /\ ~HasNoBody(sc) /\ sc.te
        /\ got \in Nat /\ got <= Len(sc.wire)
    BY <1>0, <1>1, ChunkedScenario
  <1>4. /\ p \in Nat \ {0} /\ p <= got + 1 /\ buffer = SubSeq(sc.wire, p, got)
    BY <1>0, <1>1, <1>2, FeedStands
  <1>5. /\ DataAt(sc, p) <= got + 1
        /\ SizeAt(sc, p) /\ Size(buffer) = Size(From(sc, p)) /\ Size(buffer) \in Nat
        /\ buffer' = SubSeq(sc.wire, DataAt(sc, p), got)
    <2> HIDE DEF p
    <2>1. /\ DataAt(sc, p) <= got + 1
          /\ IsSize(buffer) <=> SizeAt(sc, p)
          /\ IsSize(buffer) => Size(buffer) = Size(From(sc, p)) /\ Size(buffer) \in Nat
          /\ Drop(buffer, Find(buffer, CRLF) + 1) = SubSeq(sc.wire, DataAt(sc, p), got)
      <3> DEFINE s == sc
                 g == got
                 b == SubSeq(s.wire, p, g)
      <3>1. /\ s \in Scenarios /\ g \in Nat /\ p \in Nat \ {0} /\ p <= g + 1 /\ g <= Len(s.wire)
            /\ Find(SubSeq(s.wire, p, g), CRLF) # 0
        BY <1>0, <1>3, <1>4
      <3> HIDE DEF s, g
      <3>2. /\ DataAt(s, p) <= g + 1
            /\ IsSize(b) <=> SizeAt(s, p)
            /\ IsSize(b) => Size(b) = Size(From(s, p)) /\ Size(b) \in Nat
            /\ Drop(b, Find(b, CRLF) + 1) = SubSeq(s.wire, DataAt(s, p), g)
        BY <3>1, SizeLineFound
      <3> QED BY <1>4, <3>2 DEF s, g
    <2> QED BY <1>0, <2>1
  <1>6. Decoded(k)'
    BY <1>0, <1>2 DEF Decoded
  <1>7. CASE Size(buffer) = 0 /\ complete'
    <2>1. k = Len(sc.frames)
      <3>1. Framed(sc) /\ Len(sc.frames) \in Nat \ {0}
        BY <1>3, FrameFacts
      <3>2. ~ChunkAt(sc, p)
        BY <1>5, <1>7 DEF ChunkAt
      <3>3. k \in 1 .. Len(sc.frames) - 1 => Follows(sc, sc.frames[k], sc.frames[k + 1])
        BY <3>1 DEF Framed
      <3>4. k \notin 1 .. Len(sc.frames) - 1
        BY <3>2, <3>3 DEF Follows
      <3> QED BY <3>1, <3>4
    <2>2. LastChunkAt(sc, p)
      BY <1>5, <1>7 DEF LastChunkAt
    <2>3. ReadUpTo(k)'
      BY <1>0, <1>7, <2>1, <2>2 DEF ReadUpTo
    <2> QED BY <1>0, <1>6, <2>3
  <1>8. CASE Size(buffer) \in 1 .. SizeLimit /\ remaining' = Size(buffer) /\ complete' = complete
    <2>1. buffer' \in Seq(Cells)
      BY TypeStep DEF TypeOK, Next
    <2>2. buffer' \o HeldBack("body")' = buffer'
      BY <1>0, <2>1, ConcatEmptySeq DEF HeldBack
    <2>3. remaining' # None
      BY <1>8, <1>5 DEF None
    <2>4. ReadUpTo(k)'
      BY <1>0, <1>5, <1>8, <2>2, <2>3 DEF ReadUpTo
    <2> QED BY <1>0, <1>6, <2>4
  <1> QED BY <1>0, <1>7, <1>8

\* A chunk that Feed takes from its buffer is the one of the frame it stands at, and
\* the decoder is at the next frame then.
LEMMA ChunksTaken ==
    ASSUME TypeOK, HeadersFound, HeadersRead, ChunksKept, got_headers, FeedChunk, pc' # "done", chunked
    PROVE  ChunksKept'
  <1>0. /\ pc = "feed" /\ pc' = "feed" /\ ~complete /\ ~complete' /\ remaining # None /\ remaining' = None
        /\ Len(buffer) >= remaining + 2 /\ Matches(buffer, CRLF, remaining + 1)
        /\ buffer' = Drop(buffer, remaining + 2)
        /\ chunks' = Append(chunks, SubSeq(buffer, 1, remaining))
        /\ UNCHANGED <<sc, got, got_headers, chunked, body>>
    BY DEF FeedChunk, Leave, headers
  <1>1. SUFFICES ASSUME ~NoBody
                 PROVE  (\E k \in 1 .. Len(sc.frames) : Decoded(k) /\ ReadUpTo(k))'
    BY <1>0 DEF ChunksKept, NoBody
  <1>2. PICK k \in 1 .. Len(sc.frames) : Decoded(k) /\ ReadUpTo(k)
    BY <1>0, <1>1 DEF ChunksKept
  <1> DEFINE p == sc.frames[k].at
             d == DataAt(sc, p)
             w == sc.wire
             v == remaining
             piece == SubSeq(buffer, 1, v)
  <1>3. /\ sc \in Scenarios /\ Find(sc.wire, CRLFCRLF) # 0 /\ ~HasNoBody(sc) /\ sc.te
        /\ w \in Seq(Cells) /\ Len(w) \in Nat /\ got \in Nat /\ got <= Len(w)
        /\ buffer \in Seq(Cells) /\ chunks \in Seq(Seq(Cells)) /\ Len(chunks) \in Nat
    BY <1>0, <1>1, ChunkedScenario
  <1>4. /\ d \in Nat \ {0} /\ d <= got + 1 /\ buffer = SubSeq(w, d, got) /\ Len(buffer) = got - d + 1
        /\ SizeAt(sc, p) /\ v = Size(From(sc, p)) /\ v \in Nat \ {0}
    BY <1>0, <1>1, <1>2, FeedStands
  <1>5. Framed(sc) /\ Len(sc.frames) \in Nat \ {0}
    BY <1>3, FrameFacts
  <1>6. Matches(w, CRLF, d + v)
    <2> HIDE DEF d, w, v
    <2>1. v + 2 <= got - d + 1
      BY <1>0, <1>4 DEF v
    <2>2. Len(CRLF) \in Nat /\ v + 1 \in Nat \ {0} /\ (v + 1) + Len(CRLF) - 1 <= got - d + 1
      <3>1. Len(CRLF) = 2
        BY Patterns
      <3>2. v + 1 \in Nat \ {0} /\ (v + 1) + 2 - 1 <= got - d + 1
        BY <1>3, <1>4, <2>1
      <3> QED BY <3>1, <3>2
    <2>3. Matches(SubSeq(w, d, got), CRLF, v + 1)
      BY <1>0, <1>4 DEF v
    <2>4. Matches(w, CRLF, d + (v + 1) - 1)
      BY <1>3, <1>4, <2>2, <2>3, MatchesSlice
    <2>5. d + (v + 1) - 1 = d + v
      BY <1>4
    <2> QED BY <2>4, <2>5
  <1>7. ChunkAt(sc, p)
    <2>1. Size(From(sc, p)) # 0
      BY <1>4
    <2> QED BY <1>4, <1>6, <2>1 DEF ChunkAt
  <1>8. k \in 1 .. Len(sc.frames) - 1 /\ Follows(sc, sc.frames[k], sc.frames[k + 1])
    <2>1. k # Len(sc.frames)
      BY <1>5, <1>7 DEF Framed
    <2>2. k \in 1 .. Len(sc.frames) - 1
      BY <1>5, <2>1
    <2> QED BY <1>5, <2>2 DEF Framed
  <1>9. /\ sc.frames[k + 1].at = d + v + 2
        /\ SubSeq(sc.payload, sc.frames[k].off + 1, sc.frames[k + 1].off) = SubSeq(w, d, d + v - 1)
    <2> DEFINE z == Size(From(sc, p))
    <2>1. /\ sc.frames[k + 1].at = d + z + 2 /\ sc.frames[k + 1].off = sc.frames[k].off + z
          /\ SubSeq(sc.payload, sc.frames[k].off + 1, sc.frames[k + 1].off) = SubSeq(w, d, d + z - 1)
      <3> DEFINE f == sc.frames[k]
                 g == sc.frames[k + 1]
      <3>1. Follows(sc, f, g)
        BY <1>8
      <3> HIDE DEF f, g
      <3>2. /\ g.at = DataAt(sc, f.at) + Size(From(sc, f.at)) + 2 /\ g.off = f.off + Size(From(sc, f.at))
            /\ SubSeq(sc.payload, f.off + 1, g.off)
                  = SubSeq(sc.wire, DataAt(sc, f.at), DataAt(sc, f.at) + Size(From(sc, f.at)) - 1)
        BY <3>1, FollowsFacts, Zenon
      <3> QED BY <3>2 DEF f, g
    <2>2. z = v
      BY <1>4
    <2> HIDE DEF z, v, d, w
    <2> QED BY <2>1, <2>2
  <1>a. /\ w \in Seq(Cells) /\ got \in Nat /\ got <= Len(w) /\ Len(w) \in Nat
        /\ d \in Nat \ {0} /\ d <= got + 1 /\ v \in Nat \ {0} /\ v + 2 <= got - d + 1
    <2>1. Len(buffer) = got - d + 1 /\ Len(buffer) >= v + 2
      BY <1>0, <1>4
    <2> HIDE DEF d, v
    <2> QED BY <1>3, <1>4, <2>1
  <1>10. piece = SubSeq(w, d, d + v - 1) /\ piece \in Seq(Cells)
    <2> HIDE DEF d, w, v
    <2>1. v <= got - d + 1 /\ v <= Len(buffer) /\ v \in Int
      BY <1>a, <1>4
    <2>2. SubSeq(SubSeq(w, d, got), 1, v) = SubSeq(w, d + 1 - 1, d + v - 1)
      <3>1. 1 \in Nat \ {0} /\ v \in Nat
        BY <1>a
      <3> QED BY <1>a, <2>1, <3>1, SliceOfSlice
    <2>3. d + 1 - 1 = d
      BY <1>4
    <2>4. piece \in Seq(Cells)
      BY <1>3, <2>1, SliceType
    <2> QED BY <1>4, <2>2, <2>3, <2>4
  <1>11. buffer' = SubSeq(w, d + v + 2, got) /\ d + v + 2 <= got + 1
    <2> HIDE DEF d, w, v
    <2>1. v + 2 \in Nat /\ d + (v + 2) <= got + 1 /\ d + (v + 2) = d + v + 2
      BY <1>a
    <2>2. Drop(SubSeq(w, d, got), v + 2) = SubSeq(w, d + (v + 2), got)
      BY <1>a, <2>1, SliceDrop
    <2> QED BY <1>0, <1>4, <2>1, <2>2 DEF v
  <1>12. ReadUpTo(k + 1)'
    <2>1. buffer' \in Seq(Cells)
      BY TypeStep DEF TypeOK, Next
    <2>2. buffer' \o HeldBack("body")' = buffer'
      BY <1>0, <2>1, ConcatEmptySeq DEF HeldBack
    <2> HIDE DEF d, v, p
    <2> QED BY <1>0, <1>9, <1>11, <2>2 DEF ReadUpTo
  <1>13. Decoded(k + 1)'
    <2> HIDE DEF piece, d, v, p
    <2> DEFINE m == Len(chunks)
               fr == sc.frames
               t == k - m
    <2>1. /\ Len(chunks') = m + 1 /\ chunks'[m + 1] = piece
          /\ \A j \in 1 .. m : chunks'[j] = chunks[j]
      <3> DEFINE T == Seq(Cells)
      <3>1. chunks \in Seq(T) /\ piece \in T /\ chunks' = Append(chunks, piece)
        BY <1>0, <1>3, <1>10 DEF piece, v
      <3> HIDE DEF T
      <3> QED BY <3>1, AppendProperties
    <2>2. /\ t >= 1 /\ body = SubSeq(sc.payload, 1, fr[t].off)
          /\ \A j \in 1 .. m : chunks[j] = SubSeq(sc.payload, fr[t + j - 1].off + 1, fr[t + j].off)
      BY <1>2 DEF Decoded
    <2>3. m \in Nat /\ k \in Nat /\ (k + 1) - (m + 1) = t /\ t + (m + 1) - 1 = k /\ t + (m + 1) = k + 1
      BY <1>3, <1>8
    <2>4. piece = SubSeq(sc.payload, fr[t + (m + 1) - 1].off + 1, fr[t + (m + 1)].off)
      BY <1>9, <1>10, <2>3
    <2> HIDE DEF m, t
    <2>5. ASSUME NEW j \in 1 .. m + 1
          PROVE  chunks'[j] = SubSeq(sc.payload, fr[t + j - 1].off + 1, fr[t + j].off)
      <3>1. CASE j = m + 1
        BY <2>1, <2>4, <3>1
      <3>2. CASE j # m + 1
        <4>1. j \in 1 .. m
          BY <2>3, <3>2
        <4> QED BY <2>1, <2>2, <4>1
      <3> QED BY <3>1, <3>2
    <2>6. (k + 1) - Len(chunks') = t /\ sc' = sc /\ body' = body
      BY <1>0, <2>1, <2>3
    <2>7. /\ t >= 1 /\ body' = SubSeq(sc'.payload, 1, sc'.frames[t].off)
          /\ \A j \in 1 .. Len(chunks') :
                chunks'[j] = SubSeq(sc'.payload, sc'.frames[t + j - 1].off + 1, sc'.frames[t + j].off)
      BY <2>1, <2>2, <2>5, <2>6
    <2> QED BY <2>6, <2>7 DEF Decoded
  <1>14. k + 1 \in 1 .. Len(sc.frames)
    BY <1>5, <1>8
  <1> QED BY <1>0, <1>12, <1>13, <1>14

\* The first decoded chunk goes behind the body.
LEMMA ChunkGoesBehind ==
    ASSUME TypeOK, HeadersFound, HeadersRead, pc # "done", got_headers, chunked, ~NoBody,
           NEW k \in 1 .. Len(sc.frames), Decoded(k), chunks # <<>>
    PROVE  LET t == k - Len(chunks) IN
           /\ t \in 1 .. Len(sc.frames) /\ t + 1 \in 1 .. Len(sc.frames)
           /\ Head(chunks) \in Seq(Cells)
           /\ body \o Head(chunks) = SubSeq(sc.payload, 1, sc.frames[t + 1].off)
  <1> DEFINE t == k - Len(chunks)
             fr == sc.frames
             pl == sc.payload
  <1>1. /\ sc \in Scenarios /\ Find(sc.wire, CRLFCRLF) # 0 /\ ~HasNoBody(sc) /\ sc.te
        /\ pl \in Seq(Cells) /\ Len(pl) \in Nat /\ chunks \in Seq(Seq(Cells)) /\ Len(chunks) \in Nat
    BY ChunkedScenario
  <1>2. /\ t >= 1 /\ body = SubSeq(pl, 1, fr[t].off)
        /\ \A j \in 1 .. Len(chunks) : chunks[j] = SubSeq(pl, fr[t + j - 1].off + 1, fr[t + j].off)
    BY DEF Decoded
  <1>3. Framed(sc) /\ Len(fr) \in Nat \ {0}
        /\ \A i \in 1 .. Len(fr) : /\ fr[i].at \in Nat \ {0} /\ fr[i].at <= Len(sc.wire) + 1
                                   /\ fr[i].off \in Nat /\ fr[i].off <= Len(pl)
    BY <1>1, FrameFacts
  <1>4. Len(chunks) # 0 /\ Head(chunks) = chunks[1] /\ Head(chunks) \in Seq(Cells)
    <2>1. Len(chunks) # 0 /\ Head(chunks) = chunks[1]
      BY <1>1, EmptySeq
    <2> QED BY <1>1, <2>1, ChunkList
  <1>5. t \in 1 .. Len(fr) - 1 /\ t \in 1 .. Len(fr) /\ t + 1 \in 1 .. Len(fr) /\ 1 \in 1 .. Len(chunks)
        /\ t + 1 - 1 = t
    BY <1>1, <1>2, <1>3, <1>4
  <1>6. chunks[1] = SubSeq(pl, fr[t].off + 1, fr[t + 1].off)
    BY <1>2, <1>5
  <1>7. fr[t].off \in Nat /\ fr[t + 1].off \in Nat /\ fr[t].off <= fr[t + 1].off /\ fr[t + 1].off <= Len(pl)
    <2>1. Follows(sc, fr[t], fr[t + 1])
      BY <1>3, <1>5 DEF Framed
    <2>2. fr[t + 1].off = fr[t].off + Size(From(sc, fr[t].at)) /\ SizeAt(sc, fr[t].at)
      BY <2>1 DEF Follows, ChunkAt
    <2>3. fr[t].at \in Nat \ {0} /\ fr[t].at <= Len(sc.wire) + 1
      BY <1>3, <1>5
    <2>4. Size(From(sc, fr[t].at)) \in Nat
      BY <1>1, <2>2, <2>3, SizeLineFacts
    <2>5. fr[t].off \in Nat /\ fr[t + 1].off \in Nat /\ fr[t + 1].off <= Len(pl)
      BY <1>3, <1>5
    <2> HIDE DEF fr, t, pl
    <2> QED BY <2>2, <2>4, <2>5
  <1> DEFINE a == fr[t].off
             b == fr[t + 1].off
  <1>8. SubSeq(pl, 1, a) \o SubSeq(pl, a + 1, b) = SubSeq(pl, 1, b)
    <2>1. 1 \in 1 .. Len(pl) + 1 /\ a \in 1 - 1 .. Len(pl) /\ b \in a .. Len(pl)
      <3> HIDE DEF a, b, pl
      <3>1. a \in Nat /\ b \in Nat /\ a <= b /\ b <= Len(pl)
        BY <1>7 DEF a, b
      <3> QED BY <1>1, <3>1
    <2> HIDE DEF a, b, pl
    <2> QED BY <1>1, <2>1, ConcatAdjacentSubSeq
  <1> QED BY <1>2, <1>4, <1>5, <1>6, <1>8

\* append_body takes the first decoded chunk.
LEMMA ChunksAppended ==
    ASSUME TypeOK, HeadersFound, HeadersRead, ChunksKept, got_headers, AppendChunk, pc' # "done", chunked
    PROVE  ChunksKept'
  <1>0. /\ pc = "append" /\ chunks # <<>> /\ chunks' = Tail(chunks) /\ AppendBody(Head(chunks), "append")
        /\ UNCHANGED <<sc, got, got_headers, chunked, buffer, remaining, complete, incoming>>
    BY DEF AppendChunk, headers
  <1>1. SUFFICES ASSUME ~NoBody
                 PROVE  (\E k \in 1 .. Len(sc.frames) : Decoded(k) /\ ReadUpTo(k))'
    BY <1>0 DEF ChunksKept, NoBody
  <1>2. PICK k \in 1 .. Len(sc.frames) : Decoded(k) /\ ReadUpTo(k)
    BY <1>0, <1>1 DEF ChunksKept
  <1> DEFINE m == Len(chunks)
             t == k - m
             fr == sc.frames
             pl == sc.payload
  <1>3. /\ t \in 1 .. Len(fr) /\ Head(chunks) \in Seq(Cells)
        /\ body \o Head(chunks) = SubSeq(pl, 1, fr[t + 1].off)
    BY <1>0, <1>1, <1>2, ChunkGoesBehind
  <1>4. body' = body \o Head(chunks) /\ pc' = "append"
    BY <1>0, <1>3, AppendLength
  <1>5. m \in Nat \ {0} /\ Len(chunks') = m - 1 /\ \A j \in 1 .. m - 1 : chunks'[j] = chunks[j + 1]
    <2> DEFINE T == Seq(Cells)
    <2>1. chunks \in Seq(T)
      BY DEF TypeOK
    <2> HIDE DEF T
    <2>2. /\ Len(Tail(chunks)) = m - 1
          /\ \A j \in 1 .. Len(Tail(chunks)) : Tail(chunks)[j] = chunks[j + 1]
      BY <1>0, <2>1, HeadTailProperties
    <2>3. m \in Nat \ {0}
      BY <1>0, <2>1, EmptySeq, LenProperties
    <2> QED BY <1>0, <2>2, <2>3
  <1>6. /\ t >= 1
        /\ \A j \in 1 .. m : chunks[j] = SubSeq(pl, fr[t + j - 1].off + 1, fr[t + j].off)
    BY <1>2 DEF Decoded
  <1>7. k \in Nat /\ k - Len(chunks') = t + 1 /\ t \in Nat
    BY <1>3, <1>5
  <1> HIDE DEF t, m
  <1>8. ASSUME NEW j \in 1 .. m - 1
        PROVE  chunks'[j] = SubSeq(pl, fr[(t + 1) + j - 1].off + 1, fr[(t + 1) + j].off)
    <2>1. j + 1 \in 1 .. m /\ t + (j + 1) - 1 = (t + 1) + j - 1 /\ t + (j + 1) = (t + 1) + j
      BY <1>5, <1>7
    <2>2. chunks'[j] = chunks[j + 1]
      BY <1>5
    <2>3. chunks[j + 1] = SubSeq(pl, fr[t + (j + 1) - 1].off + 1, fr[t + (j + 1)].off)
      BY <1>6, <2>1
    <2> QED BY <2>1, <2>2, <2>3
  <1>9. Decoded(k)'
    <2>1. /\ t + 1 >= 1 /\ body' = SubSeq(sc'.payload, 1, sc'.frames[t + 1].off)
          /\ \A j \in 1 .. Len(chunks') :
                chunks'[j] = SubSeq(sc'.payload, sc'.frames[(t + 1) + j - 1].off + 1, sc'.frames[(t + 1) + j].off)
      <3>1. t + 1 >= 1
        BY <1>7
      <3>2. sc' = sc /\ Len(chunks') = m - 1
        BY <1>0, <1>5
      <3>3. body' = SubSeq(sc'.payload, 1, sc'.frames[t + 1].off)
        BY <1>3, <1>4, <3>2
      <3>4. ASSUME NEW j \in 1 .. Len(chunks')
            PROVE  chunks'[j] = SubSeq(sc'.payload, sc'.frames[(t + 1) + j - 1].off + 1, sc'.frames[(t + 1) + j].off)
        BY <1>8, <3>2
      <3> QED BY <3>1, <3>3, <3>4
    <2> QED BY <1>7, <2>1 DEF Decoded
  <1>10. ReadUpTo(k)'
    <2>1. HeldBack("body")' = HeldBack("body")
      BY <1>0, <1>4 DEF HeldBack
    <2> QED BY <1>0, <1>2, <2>1 DEF ReadUpTo
  <1> QED BY <1>0, <1>9, <1>10

\* The decoder always knows which chunk it is at, whatever the reads were.
LEMMA ChunksKeptStep ==
    ASSUME TypeOK, Accounting, HeadersRead, Drained, NotFed, ChunksKept, [Next]_vars
    PROVE  ChunksKept'
  <1> USE DEF Leave, headers, decoder
  <1>0. Placement /\ HeadersFound /\ TypeOK' /\ HeadersRead' /\ HeadersFound'
    BY TypeStep, HeadersReadStep, AccountingStep DEF Accounting
  <1>1. CASE Send
    BY <1>1, ChunksStill DEF Send, HeldBack, ChunksKept
  <1>2. CASE LoopTop
    BY <1>2, ChunksStill DEF LoopTop, HeldBack, ChunksKept
  <1>3. ASSUME NEW n \in 1 .. BufferSize, Receive(n) PROVE ChunksKept'
    BY <1>0, <1>3, ChunksReceive
  <1>4. CASE ReceiveEnd
    BY <1>4, ChunksStill DEF ReceiveEnd, HeldBack
  <1>5. CASE ReceiveError
    BY <1>5 DEF ReceiveError, ChunksKept
  <1>6. CASE HeadersWait
    BY <1>6, ChunksStill DEF HeadersWait, HeldBack
  <1>7. CASE HeadersParse
    BY <1>0, <1>7, ChunksBegin
  <1>8. CASE HeadersReject
    BY <1>8 DEF HeadersReject, ChunksKept
  <1>9. CASE BodyLength \/ BodyUntilClose
    BY <1>9 DEF BodyLength, BodyUntilClose, ChunksKept
  <1>11. CASE FeedStart
    <2>1. got_headers
      BY <1>0, <1>11 DEF FeedStart, Placement
    <2> QED BY <1>0, <1>11, <2>1, ChunksFed DEF ChunksKept
  <1>12. CASE FeedSize
    <2>1. got_headers /\ chunked
      BY <1>0, <1>12 DEF FeedSize, Placement
    <2> QED BY <1>0, <1>12, <2>1, ChunksSized DEF ChunksKept
  <1>13. CASE FeedChunk
    <2>1. got_headers /\ chunked
      BY <1>0, <1>13 DEF FeedChunk, Placement
    <2> QED BY <1>0, <1>13, <2>1, ChunksTaken DEF ChunksKept
  <1>14. CASE FeedReturn
    BY <1>14, ChunksStill DEF FeedReturn, HeldBack
  <1>15. CASE AppendChunk
    <2>1. got_headers /\ chunked
      BY <1>0, <1>15 DEF AppendChunk, Placement
    <2> QED BY <1>0, <1>15, <2>1, ChunksAppended DEF ChunksKept
  <1>16. CASE AppendDone
    BY <1>16, ChunksStill DEF AppendDone, HeldBack
  <1>17. CASE Finish
    BY <1>17 DEF Finish, ChunksKept
  <1>18. CASE UNCHANGED vars
    <2>1. CASE pc = "done"
      BY <1>18, <2>1 DEF vars, ChunksKept
    <2>2. CASE pc # "done"
      BY <1>18, <2>2, ChunksStill DEF vars, HeldBack
    <2> QED BY <2>1, <2>2
  <1> QED
    BY <1>1, <1>2, <1>3, <1>4, <1>5, <1>6, <1>7, <1>8, <1>9, <1>11, <1>12, <1>13, <1>14,
       <1>15, <1>16, <1>17, <1>18 DEF Next, Done

-----------------------------------------------------------------------------

\* A prefix of a sequence, cut from a longer slice of another.
LEMMA PrefixOfPayload ==
    ASSUME NEW w \in Seq(Cells), NEW h \in Nat, NEW e \in Nat, h <= e, e <= Len(w),
           NEW n \in Nat, h + n <= e
    PROVE  /\ SubSeq(SubSeq(w, h + 1, e), 1, n) = SubSeq(w, h + 1, h + n)
           /\ n <= Len(SubSeq(w, h + 1, e))
           /\ Len(SubSeq(w, h + 1, e)) = e - h
  <1>1. h + 1 \in Nat \ {0} /\ h + 1 <= e + 1 /\ n <= e - (h + 1) + 1 /\ 1 \in Nat \ {0}
    OBVIOUS
  <1>2. SubSeq(SubSeq(w, h + 1, e), 1, n) = SubSeq(w, (h + 1) + 1 - 1, (h + 1) + n - 1)
    BY <1>1, SliceOfSlice
  <1>3. (h + 1) + 1 - 1 = h + 1 /\ (h + 1) + n - 1 = h + n /\ e - (h + 1) + 1 = e - h
    OBVIOUS
  <1>4. Len(SubSeq(w, h + 1, e)) = e - (h + 1) + 1
    BY <1>1, SliceBytes
  <1> QED BY <1>2, <1>3, <1>4

\* The bytes b behind the headers of an answer that is not chunked are a prefix of
\* its payload.
LEMMA PlainFacts ==
    ASSUME NEW s \in Scenarios, NEW b \in Seq(Cells), NEW h \in Nat,
           h = Find(s.wire, CRLFCRLF) + 3, Find(s.wire, CRLFCRLF) # 0,
           ~HasNoBody(s), ~s.te, b = SubSeq(s.wire, h + 1, h + Len(b)),
           h + Len(b) <= Len(s.wire), s.cl # None => Len(b) <= s.cl
    PROVE  /\ Len(b) <= Len(s.payload)
           /\ b = SubSeq(s.payload, 1, Len(b))
           /\ Len(b) = s.cl => Len(s.payload) = s.cl
           /\ h + Len(b) = Len(s.wire) => Len(s.payload) = Len(b)
           /\ s.cl # None /\ h + s.cl <= Len(s.wire) => Len(s.payload) = s.cl
  <1> DEFINE e == IF s.cl = None \/ h + s.cl > Len(s.wire) THEN Len(s.wire) ELSE h + s.cl
  <1>1. s.wire \in Seq(Cells) /\ Len(b) \in Nat /\ s.cl \in Nat \cup {None}
    BY ScenarioFields, LenProperties
  <1>2. BodyAt(s) = h + 1 /\ BodyAt(s) - 1 = h
    <2>1. Find(s.wire, CRLFCRLF) \in Nat
      BY <1>1, FindPosition
    <2> DEFINE x == Find(s.wire, CRLFCRLF)
    <2>2. x \in Nat /\ h = x + 3 /\ BodyAt(s) = x + 4
      BY <2>1 DEF BodyAt
    <2> HIDE DEF x
    <2> QED BY <2>2
  <1>3. s.payload = SubSeq(s.wire, h + 1, e)
    <2>1. Counted(s)
      BY ScenariosAssumption
    <2> QED BY <1>2, <2>1 DEF Counted
  <1> DEFINE n == Len(b)
             w == s.wire
             c == s.cl
             l == Len(s.wire)
             p == s.payload
  <1>4. /\ w \in Seq(Cells) /\ l \in Nat /\ h \in Nat /\ n \in Nat /\ c \in Nat \cup {None}
        /\ h + n <= l /\ l = Len(w) /\ (c # None => n <= c)
        /\ b = SubSeq(w, h + 1, h + n) /\ p = SubSeq(w, h + 1, e)
        /\ e = IF c = None \/ h + c > l THEN l ELSE h + c
    BY <1>1, <1>3, LenProperties
  <1>5. c # None => c \in Nat
    BY <1>1
  <1> HIDE DEF e, n, w, c, l, p
  <1>6. /\ e \in Nat /\ h <= e /\ e <= l /\ h + n <= e
        /\ n = c => e = h + c
        /\ h + n = l => e = h + n
        /\ c # None /\ h + c <= l => e = h + c
    <2>1. CASE c = None
      BY ONLY <1>4, <2>1 DEF None
    <2>2. CASE c # None
      BY ONLY <1>4, <1>5, <2>2
    <2> QED BY ONLY <2>1, <2>2
  <1>7. SubSeq(p, 1, n) = SubSeq(w, h + 1, h + n) /\ n <= Len(p) /\ Len(p) = e - h
    BY ONLY <1>4, <1>6, PrefixOfPayload
  <1>8. /\ n = c => Len(p) = c
        /\ h + n = l => Len(p) = n
        /\ c # None /\ h + c <= l => Len(p) = c
    BY ONLY <1>4, <1>5, <1>6, <1>7
  <1> QED BY <1>4, <1>7, <1>8 DEF n, w, c, l, p

\* The body is always a prefix of the body that is owed.
LEMMA PrefixStep ==
    ASSUME TypeOK, Accounting, HeadersRead, LengthKept, ChunksKept, PrefixHeld, [Next]_vars
    PROVE  PrefixHeld'
  <1>0. /\ TypeOK' /\ Accounting' /\ HeadersRead' /\ LengthKept' /\ CallbackSawBody'
        /\ Placement /\ HeadersFound
    BY TypeStep, AccountingStep, HeadersReadStep, LengthKeptStep, CallbackStep DEF Accounting, PrefixHeld
  <1>1. sc' = sc /\ Expected' = Expected
    BY DEF Next, vars, Send, LoopTop, Receive, ReceiveEnd, ReceiveError, HeadersWait, HeadersParse,
           HeadersReject, BodyLength, BodyUntilClose, FeedStart, FeedSize, FeedChunk, FeedReturn,
           AppendChunk, AppendDone, Finish, Done, Expected, NoBody
  <1>2. CASE body' = body
    BY <1>0, <1>1, <1>2 DEF PrefixHeld
  <1>3. CASE BodyLength \/ BodyUntilClose
    <2>1. got_headers /\ ~NoBody /\ ~chunked /\ ~sc.te /\ content_length = sc.cl /\ pc # "done"
          /\ UNCHANGED <<got_headers, chunked, content_length>>
      BY <1>0, <1>3 DEF BodyLength, BodyUntilClose, Placement, HeadersRead, headers
    <2>2. got_headers' /\ ~chunked' /\ ~NoBody' /\ ~sc'.te /\ content_length' = sc'.cl
      BY <1>1, <2>1 DEF NoBody
    <2>3. Len(body') <= Len(sc'.payload) /\ body' = SubSeq(sc'.payload, 1, Len(body'))
      <3> DEFINE h == HeaderEnd
      <3>1. /\ sc \in Scenarios /\ body' \in Seq(Cells) /\ got' \in Nat /\ got' <= Len(sc.wire)
            /\ sc.wire \in Seq(Cells) /\ Len(sc.wire) \in Nat /\ Len(body') \in Nat
        BY <1>0, <1>1, ScenarioFields, LenProperties DEF TypeOK
      <3>2. /\ Find(sc.wire, CRLFCRLF) # 0 /\ Find(sc.wire, CRLFCRLF) \in Nat
            /\ h = Find(sc.wire, CRLFCRLF) + 3 /\ HeaderEnd' = h
        BY <1>0, <1>1, <2>1, <3>1, FindPosition DEF HeadersFound, HeaderEnd
      <3>3. h \in Nat
        BY <3>2
      <3>4. BodyFollowsHeaders' /\ LengthKept'
        BY <1>0 DEF Accounting
      <3>5. body' = SubSeq(sc.wire, h + 1, h + Len(body'))
        BY <1>1, <2>2, <3>2, <3>4 DEF BodyFollowsHeaders
      <3>6. h + Len(body') <= got' /\ (sc.cl # None => Len(body') <= sc.cl)
        BY <1>1, <2>2, <3>2, <3>4 DEF LengthKept
      <3> HIDE DEF h
      <3>7. h + Len(body') <= Len(sc.wire)
        BY <3>1, <3>3, <3>6
      <3>8. ~HasNoBody(sc) /\ ~sc.te
        BY <2>1 DEF NoBody
      <3> QED BY <1>1, <3>1, <3>2, <3>3, <3>5, <3>6, <3>7, <3>8, PlainFacts
    <2>4. Expected' = sc'.payload
      BY <2>2 DEF Expected
    <2> QED BY <1>0, <2>3, <2>4 DEF PrefixHeld
  <1>4. CASE AppendChunk /\ body' # body
    <2>1. got_headers /\ ~NoBody /\ chunked /\ pc = "append" /\ chunks # <<>>
      BY <1>0, <1>4 DEF AppendChunk, Placement, HeadersRead
    <2>2. PICK k \in 1 .. Len(sc.frames) : Decoded(k) /\ ReadUpTo(k)
      BY <2>1 DEF ChunksKept
    <2> DEFINE t == k - Len(chunks)
    <2>3. /\ t + 1 \in 1 .. Len(sc.frames) /\ Head(chunks) \in Seq(Cells)
          /\ body \o Head(chunks) = SubSeq(sc.payload, 1, sc.frames[t + 1].off)
      BY <1>0, <2>1, <2>2, ChunkGoesBehind
    <2>4. body' = body \o Head(chunks)
      BY <1>4, <2>3, AppendLength DEF AppendChunk
    <2>5. /\ sc \in Scenarios /\ Find(sc.wire, CRLFCRLF) # 0 /\ ~HasNoBody(sc) /\ sc.te
          /\ sc.payload \in Seq(Cells) /\ Len(sc.payload) \in Nat
      BY <1>0, <2>1, ChunkedScenario
    <2> DEFINE z == sc.frames[t + 1].off
               pl == sc.payload
    <2>6. z \in Nat /\ z <= Len(pl)
      BY <2>3, <2>5, FrameFacts
    <2>7. pl \in Seq(Cells) /\ body' = SubSeq(pl, 1, z)
      BY <2>3, <2>4, <2>5
    <2>8. Expected' = pl
      BY <1>1, <2>1 DEF Expected
    <2> HIDE DEF z, pl
    <2>9. Len(SubSeq(pl, 1, z)) = z
      <3>1. Len(SubSeq(pl, 1, z)) = z - 1 + 1
        BY <2>6, <2>7, SliceBytes
      <3> QED BY <2>6, <3>1
    <2> QED BY <1>0, <2>6, <2>7, <2>8, <2>9 DEF PrefixHeld
  <1>5. ~(BodyLength \/ BodyUntilClose \/ AppendChunk) => body' = body
    BY DEF Next, vars, Send, LoopTop, Receive, ReceiveEnd, ReceiveError, HeadersWait,
           HeadersParse, HeadersReject, FeedStart, FeedSize, FeedChunk, FeedReturn, AppendDone,
           Finish, Done
  <1> QED BY <1>2, <1>3, <1>4, <1>5

\* Every step of a request preserves what is known of its progress.
LEMMA ProgressStep == TypeOK /\ Accounting /\ Progress /\ [Next]_vars => Progress'
  <1> SUFFICES ASSUME TypeOK, Accounting, Progress, [Next]_vars
               PROVE  Progress'
    OBVIOUS
  <1>1. /\ HeadersRead /\ ReadsBounded /\ LengthKept /\ ChunksKept /\ Drained /\ NotFed
        /\ PrefixHeld /\ Placement /\ HeadersKept
    BY DEF Progress, Accounting
  <1>2. HeadersRead'
    BY <1>1, HeadersReadStep
  <1>3. ReadsBounded'
    BY <1>1, ReadsBoundedStep
  <1>4. LengthKept'
    BY <1>1, LengthKeptStep
  <1>5. ChunksKept'
    BY <1>1, ChunksKeptStep
  <1>6. Drained' /\ NotFed'
    BY <1>1, DrainedStep, NotFedStep
  <1>7. PrefixHeld'
    BY <1>1, PrefixStep
  <1> QED BY <1>2, <1>3, <1>4, <1>5, <1>6, <1>7 DEF Progress

\* It is known of every request before its first step.
LEMMA ProgressInit == Init => Progress
  <1> SUFFICES ASSUME Init PROVE Progress
    OBVIOUS
  <1>1. HeadersRead /\ LengthKept /\ ChunksKept
    BY DEF Init, HeadersRead, LengthKept, ChunksKept
  <1>2. Find(<<>>, CRLFCRLF) = 0 /\ Find(<<>>, CRLF) = 0
    BY DEF Find
  <1>3. ReadsBounded /\ Drained /\ NotFed
    BY <1>2 DEF Init, ReadsBounded, Drained, NotFed
  <1>4. PrefixHeld
    <2>1. Expected \in Seq(Cells) /\ Len(Expected) \in Nat
      BY ScenarioFields, LenProperties DEF Expected, Init
    <2>2. SubSeq(Expected, 1, 0) = <<>>
      BY <2>1
    <2> QED BY <2>1, <2>2 DEF Init, PrefixHeld, CallbackSawBody
  <1> QED BY <1>1, <1>3, <1>4 DEF Progress

LEMMA ProgressHolds == Spec => []Progress
  BY ProgressInit, ProgressStep, TypeCorrect, AccountingHolds, PTL DEF Spec

-----------------------------------------------------------------------------

\* The n bytes behind the headers of an answer that is not chunked are of its payload.
LEMMA PlainRoom ==
    ASSUME NEW s \in Scenarios, NEW n \in Nat, NEW h \in Nat,
           h = Find(s.wire, CRLFCRLF) + 3, Find(s.wire, CRLFCRLF) # 0,
           ~HasNoBody(s), ~s.te, h + n <= Len(s.wire), s.cl # None => n <= s.cl
    PROVE  n <= Len(s.payload)
  <1> DEFINE b == SubSeq(s.wire, h + 1, h + n)
  <1>1. s.wire \in Seq(Cells) /\ h + 1 \in Nat \ {0} /\ h + n \in Nat /\ h + 1 <= (h + n) + 1
    BY ScenarioFields
  <1>2. b \in Seq(Cells) /\ Len(b) = (h + n) - (h + 1) + 1
    BY <1>1, SliceBytes
  <1>3. Len(b) = n
    BY <1>2
  <1>4. b = SubSeq(s.wire, h + 1, h + Len(b))
    BY <1>3
  <1> HIDE DEF b
  <1> QED BY <1>2, <1>3, <1>4, PlainFacts

\* In a whole chunked answer every frame has a size line, its data are of the payload
\* and, unless it is the last one, a line end is behind them.
LEMMA FrameSized ==
    ASSUME NEW s \in Scenarios, Find(s.wire, CRLFCRLF) # 0, ~HasNoBody(s), s.te, WellFormed(s),
           NEW k \in 1 .. Len(s.frames)
    PROVE  LET p == s.frames[k].at IN
           /\ p \in Nat \ {0} /\ p <= Len(s.wire) + 1
           /\ SizeAt(s, p) /\ Find(From(s, p), CRLF) # 0
           /\ Size(From(s, p)) \in Nat /\ Size(From(s, p)) <= Len(s.payload)
           /\ DataAt(s, p) \in Nat \ {0}
           /\ Size(From(s, p)) # 0 => Matches(s.wire, CRLF, DataAt(s, p) + Size(From(s, p)))
  <1> DEFINE p == s.frames[k].at
             last == Len(s.frames)
  <1>1. /\ Framed(s) /\ last \in Nat \ {0} /\ p \in Nat \ {0} /\ p <= Len(s.wire) + 1
        /\ s.frames[k].off \in Nat /\ s.payload \in Seq(Cells) /\ Len(s.payload) \in Nat
    BY FrameFacts, ScenarioFields, LenProperties
  <1>2. CASE k = last
    <2>1. LastChunkAt(s, p)
      BY <1>2 DEF WellFormed
    <2>2. SizeAt(s, p) /\ Size(From(s, p)) = 0
      BY <2>1 DEF LastChunkAt
    <2>3. DataAt(s, p) \in Nat \ {0}
      BY <1>1, <2>2, SizeLineFacts
    <2> QED BY <1>1, <2>2, <2>3 DEF SizeAt
  <1>3. CASE k # last
    <2>1. k \in 1 .. last - 1 /\ k + 1 \in 1 .. last
      BY <1>1, <1>3
    <2>2. Follows(s, s.frames[k], s.frames[k + 1])
      BY <1>1, <2>1 DEF Framed
    <2>3. /\ ChunkAt(s, p) /\ s.frames[k + 1].off = s.frames[k].off + Size(From(s, p))
          /\ s.frames[k + 1].off <= Len(s.payload)
      BY <2>2, FollowsFacts
    <2>4. SizeAt(s, p) /\ Matches(s.wire, CRLF, DataAt(s, p) + Size(From(s, p)))
      BY <2>3 DEF ChunkAt
    <2>5. Size(From(s, p)) \in Nat /\ DataAt(s, p) \in Nat \ {0}
      BY <1>1, <2>4, SizeLineFacts
    <2>6. Size(From(s, p)) <= Len(s.payload)
      BY <1>1, <2>3, <2>5
    <2> QED BY <1>1, <2>4, <2>5, <2>6 DEF SizeAt
  <1> QED BY <1>2, <1>3

\* A good answer is not blamed for its headers.
LEMMA HeadersNotBlamed ==
    ASSUME TypeOK, Accounting, Progress, GoodAnswer, HeadersReject
    PROVE  FALSE
  <1> DEFINE a == Len(pending_headers)
             i == Len(incoming)
  <1>1. sc.status # "bad" /\ Find(sc.wire, CRLFCRLF) # 0 /\ BodyAt(sc) - 1 + BufferSize <= HeaderMax
    BY DEF GoodAnswer, WellFormed, Fits
  <1>2. pc = "headers" /\ ~got_headers /\ HeadersKept /\ ReadsBounded
    BY DEF HeadersReject, Accounting, Placement, Progress
  <1>3. a \in Nat /\ i \in Nat /\ a < HeaderEnd /\ i <= BufferSize
    BY <1>1, <1>2, SeparatorAhead DEF ReadsBounded
  <1>4. Len(pending_headers \o incoming) = a + i
    BY ConcatProperties DEF TypeOK
  <1>5. Find(sc.wire, CRLFCRLF) \in Nat
    BY ScenarioFields, FindPosition DEF TypeOK
  <1>6. HeaderEnd \in Nat /\ BodyAt(sc) - 1 = HeaderEnd
    BY <1>5 DEF HeaderEnd, BodyAt
  <1>7. a + i > HeaderMax
    BY <1>1, <1>4 DEF HeadersReject
  <1> HIDE DEF a, i
  <1> QED BY <1>1, <1>3, <1>6, <1>7, ConstantsAssumption

\* A good answer without chunks is not too big.
LEMMA PlainNotBlamed ==
    ASSUME TypeOK, Accounting, Progress, GoodAnswer, BodyLength \/ BodyUntilClose
    PROVE  outcome' # "too_big"
  <1> DEFINE w == sc.wire
             h == HeaderEnd
             n == Len(body)
             i == Len(incoming)
             c == sc.cl
             needed == IF c > n THEN c - n ELSE 0
  <1>1. /\ pc = "body" /\ ~chunked /\ got_headers /\ ~finished /\ outcome = "none"
        /\ content_length = c /\ ~sc.te /\ ~NoBody /\ Find(w, CRLFCRLF) # 0 /\ h <= got
        /\ body \o incoming = SubSeq(w, h + 1, got)
    BY DEF BodyLength, BodyUntilClose, Accounting, Placement, Progress, HeadersRead, HeadersFound,
           BodyKept, HeldBack
  <1>2. /\ sc \in Scenarios /\ w \in Seq(Cells) /\ Len(w) \in Nat /\ c \in Nat \cup {None}
        /\ got \in Nat /\ got <= Len(w) /\ n \in Nat /\ i \in Nat /\ sc.payload \in Seq(Cells)
        /\ Len(sc.payload) \in Nat /\ sc.max \in Nat
    BY ScenarioFields, LenProperties DEF TypeOK
  <1>3. Find(w, CRLFCRLF) \in Nat /\ h = Find(w, CRLFCRLF) + 3
    BY <1>2, FindPosition DEF HeaderEnd
  <1>4. h \in Nat
    BY <1>3
  <1>5. Len(body \o incoming) = n + i
    BY ConcatProperties DEF TypeOK
  <1>6. h + n + i = got
    <2> HIDE DEF h, w, n, i
    <2>1. Len(SubSeq(w, h + 1, got)) = got - (h + 1) + 1
      BY <1>1, <1>2, <1>4, SliceBytes
    <2> QED BY <1>1, <1>2, <1>4, <1>5, <2>1
  <1>7. Len(sc.payload) <= sc.max
    BY <1>1 DEF GoodAnswer, Fits, Expected
  <1>8. ASSUME NEW t \in 0 .. i, c # None => n + t <= c
        PROVE  BodyFits(SubSeq(incoming, 1, t))
    <2>1. Len(SubSeq(incoming, 1, t)) = t
      BY <1>2 DEF TypeOK
    <2>2. n + t \in Nat /\ h + (n + t) <= Len(w)
      <3> HIDE DEF h, w, n, i
      <3> QED BY <1>2, <1>4, <1>6
    <2>3. n + t <= Len(sc.payload)
      BY <1>1, <1>2, <1>3, <1>4, <1>8, <2>2, PlainRoom DEF NoBody
    <2>4. n + t <= sc.max
      <3> HIDE DEF n
      <3> QED BY <1>2, <1>7, <2>2, <2>3
    <2> QED BY <2>1, <2>4 DEF BodyFits
  <1>9. CASE BodyLength
    <2> DEFINE t == IF needed < i THEN needed ELSE i
    <2>1. t \in 0 .. i /\ (c # None => n + t <= c)
      <3>1. c \in Nat /\ (BodyLength => c # None)
        BY <1>1, <1>2, <1>9 DEF BodyLength
      <3>2. n <= c
        BY <1>1, <3>1, <1>9 DEF Progress, LengthKept
      <3> HIDE DEF c, n, i
      <3> QED BY <1>2, <3>1, <3>2
    <2>2. BodyFits(SubSeq(incoming, 1, t))
      BY <1>8, <2>1
    <2>3. AppendBody(SubSeq(incoming, 1, t), "top")
      BY <1>1, <1>9 DEF BodyLength
    <2> QED BY <1>1, <2>2, <2>3 DEF AppendBody, Leave
  <1>10. CASE BodyUntilClose
    <2>1. c = None /\ SubSeq(incoming, 1, i) = incoming /\ i \in 0 .. i
      BY <1>1, <1>2, <1>10 DEF BodyUntilClose, TypeOK
    <2>2. BodyFits(incoming)
      BY <1>8, <2>1
    <2> QED BY <1>1, <1>10, <2>2 DEF BodyUntilClose, AppendBody, Leave
  <1> QED BY <1>9, <1>10

\* What is held before the line end of a size line is shorter than the line.
LEMMA BeforeLineEnd ==
    ASSUME NEW r \in Seq(Cells), NEW n \in 0 .. Len(r), NEW m \in 0 .. n,
           Find(r, CRLF) # 0, Find(SubSeq(SubSeq(r, 1, n), 1, m), CRLF) = 0
    PROVE  m <= Find(r, CRLF)
  <1> DEFINE f == Find(r, CRLF)
             b == SubSeq(r, 1, m)
  <1>1. f \in 1 .. Len(r) /\ Matches(r, CRLF, f) /\ Len(r) \in Nat /\ f # 0
    BY FindPosition, LenProperties
  <1>2. SubSeq(SubSeq(r, 1, n), 1, m) = b
    <2>1. SubSeq(SubSeq(r, 1, n), 1, m) = SubSeq(r, 1 + 1 - 1, 1 + m - 1)
      BY <1>1, SliceOfSlice
    <2> QED BY <2>1
  <1>3. b \in Seq(Cells) /\ Len(b) = m /\ Find(b, CRLF) = 0
    <2>1. 1 \in Nat \ {0} /\ m \in Nat /\ 1 <= m + 1 /\ m <= Len(r)
      BY <1>1
    <2>2. b \in Seq(Cells) /\ Len(b) = m - 1 + 1
      BY <2>1, SliceBytes
    <2>3. Len(b) = m
      BY <2>1, <2>2
    <2>4. Find(b, CRLF) = 0
      BY <1>2
    <2> QED BY <2>2, <2>3, <2>4
  <1>4. \A j \in 1 .. m : ~Matches(b, CRLF, j)
    BY <1>3, FindPosition
  <1> HIDE DEF f
  <1>5. ASSUME f + 1 <= m
        PROVE  FALSE
    <2>1. f + Len(CRLF) - 1 <= m /\ Len(CRLF) \in Nat /\ f \in Nat \ {0} /\ f \in 1 .. m /\ m \in 0 .. Len(r)
      BY <1>1, <1>5, Patterns
    <2>2. Matches(b, CRLF, f)
      BY <1>1, <2>1, MatchesPrefix
    <2> QED BY <1>4, <2>1, <2>2
  <1> QED BY <1>1, <1>5 DEF f

\* A good chunked answer never overfills the decoder. A read is smaller than the slack
\* here: the code lets the two be equal.
LEMMA BufferNotBlamed ==
    ASSUME TypeOK, Accounting, Progress, GoodAnswer, FeedStart, BufferSize < Slack
    PROVE  outcome' # "buffering"
  <1> DEFINE w == sc.wire
             m == Len(buffer)
             i == Len(incoming)
             x == sc.max
  <1>1. /\ pc = "body" /\ chunked /\ got_headers /\ ~finished /\ outcome = "none" /\ ~NoBody
        /\ HeadersFound /\ HeadersRead /\ i <= BufferSize /\ ChunksKept
        /\ remaining = None /\ ~complete => Find(buffer, CRLF) = 0
        /\ remaining # None => m < remaining + 2
        /\ ~complete
    BY DEF FeedStart, Accounting, Placement, Progress, HeadersRead, ReadsBounded, Drained
  <1>2. /\ sc \in Scenarios /\ Find(w, CRLFCRLF) # 0 /\ ~HasNoBody(sc) /\ sc.te /\ w \in Seq(Cells)
        /\ Len(w) \in Nat /\ got \in Nat /\ got <= Len(w) /\ buffer \in Seq(Cells) /\ incoming \in Seq(Cells)
        /\ m \in Nat /\ i \in Nat /\ x \in Nat
    BY <1>1, ChunkedScenario, ScenarioFields, LenProperties
  <1>3. Len(buffer \o incoming) = m + i
    BY <1>2, ConcatProperties
  <1>4. m + i <= x + Slack
    <2>1. CASE remaining # None
      <3>1. remaining \in Nat /\ remaining <= x
        BY <1>2, <2>1 DEF TypeOK
      <3> HIDE DEF m, i, x
      <3> QED BY <1>1, <1>2, <2>1, <3>1, ConstantsAssumption
    <2>2. CASE remaining = None
      <3>1. PICK k \in 1 .. Len(sc.frames) : Decoded(k) /\ ReadUpTo(k)
        BY <1>1 DEF ChunksKept
      <3> DEFINE p == sc.frames[k].at
                 r == From(sc, p)
                 n == got - p + 1
      <3>2. p <= got + 1 /\ buffer \o incoming = SubSeq(w, p, got)
        BY <1>1, <2>2, <3>1 DEF ReadUpTo, HeldBack
      <3>3. p \in Nat \ {0} /\ p <= Len(w) + 1 /\ Find(r, CRLF) # 0
        BY <1>2, FrameSized DEF GoodAnswer
      <3>4. Find(r, CRLF) + BufferSize <= x + Slack
        BY <1>2 DEF GoodAnswer, Fits
      <3>5. r = Drop(w, p - 1) /\ r \in Seq(Cells) /\ n \in 0 .. Len(r) /\ SubSeq(w, p, got) = SubSeq(r, 1, n)
        BY <1>2, <3>2, <3>3, SliceIsPrefix DEF From
      <3>6. Len(SubSeq(w, p, got)) = n
        BY <1>2, <3>2, <3>3, SliceBytes
      <3>7. buffer = SubSeq(buffer \o incoming, 1, m)
        BY <1>2
      <3> HIDE DEF p, r, n, m, i, x, w
      <3>8. n = m + i /\ m \in 0 .. n
        BY <1>2, <1>3, <3>2, <3>5, <3>6
      <3>9. Find(SubSeq(SubSeq(r, 1, n), 1, m), CRLF) = 0
        BY <1>1, <2>2, <3>2, <3>5, <3>7
      <3>10. m <= Find(r, CRLF)
        BY <3>3, <3>5, <3>8, <3>9, BeforeLineEnd
      <3>11. Find(r, CRLF) \in Nat
        BY <3>5, FindPosition
      <3> QED BY <1>1, <1>2, <3>4, <3>10, <3>11, ConstantsAssumption
    <2> QED BY <2>1, <2>2
  <1>5. ~(Len(buffer') > DecoderLimit)
    <2>1. Len(buffer') = m + i /\ DecoderLimit = x + Slack
      BY <1>3 DEF FeedStart, DecoderLimit
    <2> HIDE DEF m, i, x
    <2> QED BY <1>2, <1>4, <2>1, ConstantsAssumption
  <1> QED BY <1>1, <1>5 DEF FeedStart

\* Nor is it blamed for a size line.
LEMMA SizeNotBlamed ==
    ASSUME TypeOK, Accounting, Progress, GoodAnswer, FeedSize
    PROVE  outcome' = "none"
  <1>1. /\ pc = "feed" /\ chunked /\ got_headers /\ ~complete /\ remaining = None /\ outcome = "none"
        /\ ~NoBody /\ HeadersFound /\ HeadersRead /\ ChunksKept /\ Find(buffer, CRLF) # 0
    BY DEF FeedSize, Accounting, Placement, Progress, HeadersRead
  <1>2. /\ sc \in Scenarios /\ Find(sc.wire, CRLFCRLF) # 0 /\ ~HasNoBody(sc) /\ sc.te
        /\ got \in Nat /\ got <= Len(sc.wire) /\ sc.max \in Nat /\ Len(sc.payload) \in Nat
    BY <1>1, ChunkedScenario, ScenarioFields
  <1>3. PICK k \in 1 .. Len(sc.frames) : Decoded(k) /\ ReadUpTo(k)
    BY <1>1 DEF ChunksKept
  <1> DEFINE p == sc.frames[k].at
  <1>4. p \in Nat \ {0} /\ p <= got + 1 /\ buffer = SubSeq(sc.wire, p, got)
    BY <1>1, <1>3, FeedStands
  <1>5. SizeAt(sc, p) /\ Size(From(sc, p)) \in Nat /\ Size(From(sc, p)) <= Len(sc.payload)
    BY <1>2, FrameSized DEF GoodAnswer
  <1>6. IsSize(buffer) /\ Size(buffer) = Size(From(sc, p))
    BY <1>1, <1>2, <1>4, <1>5, SizeLineFound
  <1>7. Len(sc.payload) <= sc.max
    BY <1>1 DEF GoodAnswer, Fits, Expected
  <1>8. ~(Size(buffer) > SizeLimit)
    BY <1>2, <1>5, <1>6, <1>7 DEF SizeLimit
  <1> QED BY <1>1, <1>6, <1>8 DEF FeedSize

\* Nor for the end of a chunk.
LEMMA TerminatorNotBlamed ==
    ASSUME TypeOK, Accounting, Progress, GoodAnswer, FeedChunk
    PROVE  outcome' = "none"
  <1>1. /\ pc = "feed" /\ chunked /\ got_headers /\ ~complete /\ remaining # None /\ outcome = "none"
        /\ ~NoBody /\ HeadersFound /\ HeadersRead /\ ChunksKept /\ Len(buffer) >= remaining + 2
    BY DEF FeedChunk, Accounting, Placement, Progress, HeadersRead
  <1>2. /\ sc \in Scenarios /\ Find(sc.wire, CRLFCRLF) # 0 /\ ~HasNoBody(sc) /\ sc.te
        /\ sc.wire \in Seq(Cells) /\ got \in Nat /\ got <= Len(sc.wire)
    BY <1>1, ChunkedScenario
  <1>3. PICK k \in 1 .. Len(sc.frames) : Decoded(k) /\ ReadUpTo(k)
    BY <1>1 DEF ChunksKept
  <1> DEFINE p == sc.frames[k].at
             q == DataAt(sc, p)
             z == Size(From(sc, p))
  <1>4. /\ q \in Nat \ {0} /\ q <= got + 1 /\ buffer = SubSeq(sc.wire, q, got)
        /\ Len(buffer) = got - q + 1 /\ remaining = z /\ z \in Nat \ {0}
    BY <1>1, <1>3, FeedStands
  <1>5. Matches(sc.wire, CRLF, q + z)
    BY <1>2, <1>4, FrameSized DEF GoodAnswer
  <1> HIDE DEF q, z
  <1>6. /\ z + 1 \in Nat \ {0} /\ (z + 1) + Len(CRLF) - 1 <= got - q + 1 /\ Len(CRLF) \in Nat
        /\ q + (z + 1) - 1 = q + z
    BY <1>1, <1>2, <1>4, Patterns
  <1>7. Matches(SubSeq(sc.wire, q, got), CRLF, z + 1)
    BY <1>2, <1>4, <1>5, <1>6, MatchesSlice
  <1>8. Matches(buffer, CRLF, remaining + 1)
    BY <1>4, <1>7
  <1> QED BY <1>1, <1>8 DEF FeedChunk

\* Nor for what its chunks add up to.
LEMMA ChunksNotBlamed ==
    ASSUME TypeOK, Accounting, Progress, GoodAnswer, AppendChunk
    PROVE  outcome' # "too_big"
  <1>1. /\ pc = "append" /\ chunked /\ got_headers /\ outcome = "none" /\ chunks # <<>>
        /\ ~NoBody /\ HeadersFound /\ HeadersRead /\ ChunksKept
    BY DEF AppendChunk, Accounting, Placement, Progress, HeadersRead
  <1>2. /\ sc \in Scenarios /\ Find(sc.wire, CRLFCRLF) # 0 /\ ~HasNoBody(sc) /\ sc.te
        /\ sc.payload \in Seq(Cells) /\ Len(sc.payload) \in Nat /\ sc.max \in Nat
    BY <1>1, ChunkedScenario, ScenarioFields
  <1>3. PICK k \in 1 .. Len(sc.frames) : Decoded(k) /\ ReadUpTo(k)
    BY <1>1 DEF ChunksKept
  <1> DEFINE t == k - Len(chunks)
             z == sc.frames[t + 1].off
  <1>4. /\ t + 1 \in 1 .. Len(sc.frames) /\ Head(chunks) \in Seq(Cells)
        /\ body \o Head(chunks) = SubSeq(sc.payload, 1, z)
    BY <1>1, <1>3, ChunkGoesBehind
  <1>5. z \in Nat /\ z <= Len(sc.payload)
    BY <1>2, <1>4, FrameFacts
  <1> HIDE DEF z
  <1>6. Len(SubSeq(sc.payload, 1, z)) = z
    <2>1. Len(SubSeq(sc.payload, 1, z)) = z - 1 + 1
      BY <1>2, <1>5, SliceBytes
    <2> QED BY <1>5, <2>1
  <1>7. Len(body \o Head(chunks)) = Len(body) + Len(Head(chunks))
    BY <1>4, ConcatProperties DEF TypeOK
  <1>8. Len(sc.payload) <= sc.max
    BY <1>1 DEF GoodAnswer, Fits, Expected
  <1>9. BodyFits(Head(chunks))
    BY <1>2, <1>4, <1>5, <1>6, <1>7, <1>8 DEF BodyFits
  <1> QED BY <1>1, <1>9 DEF AppendChunk, AppendBody, Leave

\* A good answer is said to end within its headers only if it did not arrive.
LEMMA HeadersNotMissed ==
    ASSUME TypeOK, Accounting, Progress, GoodAnswer, pc = "finish", ~got_headers
    PROVE  got < Len(sc.wire)
  <1>1. sc.wire \in Seq(Cells) /\ Len(sc.wire) \in Nat /\ got \in Nat /\ got <= Len(sc.wire)
    BY ScenarioFields, LenProperties DEF TypeOK
  <1>2. Find(sc.wire, CRLFCRLF) # 0 /\ Find(pending_headers, CRLFCRLF) = 0
    BY DEF GoodAnswer, WellFormed, Progress, ReadsBounded
  <1>3. pending_headers = SubSeq(sc.wire, 1, got)
    <2>1. pending_headers \o <<>> = SubSeq(sc.wire, 1, got)
      BY DEF Accounting, HeadersKept, HeldBack
    <2> QED BY <2>1, ConcatEmptySeq DEF TypeOK
  <1>4. got # Len(sc.wire)
    <2>1. SubSeq(sc.wire, 1, Len(sc.wire)) = sc.wire
      BY <1>1
    <2> QED BY <1>2, <1>3, <2>1
  <1> QED BY <1>1, <1>4

\* Its chunks are missed only if they did not arrive.
LEMMA ChunksNotMissed ==
    ASSUME TypeOK, Accounting, Progress, GoodAnswer, pc = "finish", got_headers, chunked, ~complete
    PROVE  got < Len(sc.wire)
  <1> DEFINE w == sc.wire
  <1>1. /\ chunked = sc.te /\ HeadersFound /\ HeadersRead /\ ChunksKept
        /\ remaining = None => Find(buffer, CRLF) = 0
        /\ remaining # None => Len(buffer) < remaining + 2
    BY DEF Accounting, Progress, HeadersRead, Drained
  <1>2. ~NoBody
    BY <1>1 DEF GoodAnswer
  <1>3. /\ sc \in Scenarios /\ Find(w, CRLFCRLF) # 0 /\ ~HasNoBody(sc) /\ sc.te
        /\ w \in Seq(Cells) /\ Len(w) \in Nat /\ got \in Nat /\ got <= Len(w) /\ buffer \in Seq(Cells)
    BY <1>1, <1>2, ChunkedScenario
  <1>4. PICK k \in 1 .. Len(sc.frames) : Decoded(k) /\ ReadUpTo(k)
    BY <1>1, <1>2 DEF ChunksKept
  <1> DEFINE p == sc.frames[k].at
             q == DataAt(sc, p)
             z == Size(From(sc, p))
  <1>5. buffer \o HeldBack("body") = buffer
    BY <1>3, ConcatEmptySeq DEF HeldBack
  <1>6. /\ p \in Nat \ {0} /\ p <= Len(w) + 1 /\ Find(From(sc, p), CRLF) # 0 /\ z \in Nat
        /\ q \in Nat \ {0} /\ (z # 0 => Matches(w, CRLF, q + z))
    BY <1>3, FrameSized DEF GoodAnswer
  <1>7. SUFFICES ASSUME got = Len(w)
                 PROVE  FALSE
    BY <1>3
  <1>8. CASE remaining = None
    <2>1. buffer = SubSeq(w, p, got)
      BY <1>4, <1>5, <1>8 DEF ReadUpTo
    <2>2. p - 1 + 1 = p
      BY <1>6
    <2>3. From(sc, p) = SubSeq(w, p, Len(w))
      BY <2>2 DEF From, Drop
    <2> QED BY <1>1, <1>6, <1>7, <1>8, <2>1, <2>3
  <1>9. CASE remaining # None
    <2>1. remaining = z /\ q <= got + 1 /\ buffer = SubSeq(w, q, got)
      BY <1>4, <1>5, <1>9 DEF ReadUpTo
    <2>2. z # 0
      BY <1>9, <2>1 DEF TypeOK, None
    <2>3. q + z + 1 <= Len(w)
      <3>1. (q + z) + Len(CRLF) - 1 <= Len(w)
        BY <1>6, <2>2 DEF Matches
      <3> HIDE DEF w, q, z
      <3> QED BY <1>3, <1>6, <3>1, Patterns
    <2>4. Len(buffer) = got - q + 1
      BY <1>3, <1>6, <2>1, SliceBytes
    <2> HIDE DEF w, q, z
    <2> QED BY <1>1, <1>3, <1>6, <1>7, <1>9, <2>1, <2>3, <2>4
  <1> QED BY <1>8, <1>9

\* When the last size line has been read, the body is the whole payload.
LEMMA ChunksAreAll ==
    ASSUME TypeOK, Accounting, Progress, pc = "finish", got_headers, chunked, complete, ~NoBody
    PROVE  /\ body = sc.payload
           /\ sc.te /\ LastChunkAt(sc, sc.frames[Len(sc.frames)].at)
  <1>1. HeadersFound /\ HeadersRead /\ ChunksKept /\ chunks = <<>>
    BY DEF Accounting, Progress, Drained
  <1>2. /\ sc \in Scenarios /\ Find(sc.wire, CRLFCRLF) # 0 /\ ~HasNoBody(sc) /\ sc.te
        /\ sc.payload \in Seq(Cells)
    BY <1>1, ChunkedScenario
  <1>3. PICK k \in 1 .. Len(sc.frames) : Decoded(k) /\ ReadUpTo(k)
    BY <1>1 DEF ChunksKept
  <1>4. k = Len(sc.frames) /\ LastChunkAt(sc, sc.frames[k].at)
    BY <1>3 DEF ReadUpTo
  <1>5. Framed(sc) /\ Len(sc.frames) \in Nat
    BY <1>2, FrameFacts
  <1>6. k - Len(chunks) = k
    BY <1>1, <1>5
  <1>7. body = SubSeq(sc.payload, 1, sc.frames[k].off)
    BY <1>3, <1>6 DEF Decoded
  <1>8. sc.frames[k].off = Len(sc.payload)
    BY <1>4, <1>5 DEF Framed
  <1>9. body = sc.payload
    BY <1>2, <1>7, <1>8
  <1> QED BY <1>2, <1>4, <1>9

\* The length of a good answer is missed only if it did not arrive.
LEMMA LengthNotMissed ==
    ASSUME TypeOK, Accounting, Progress, GoodAnswer, pc = "finish", got_headers, ~ChunksMissing,
           content_length # None, ~NoBody, Len(body) # content_length
    PROVE  got < Len(sc.wire)
  <1> DEFINE w == sc.wire
             n == Len(body)
             c == sc.cl
             h == HeaderEnd
  <1>1. chunked = sc.te /\ content_length = c
    BY DEF Progress, HeadersRead
  <1>2. CASE chunked
    <2>1. complete /\ sc.te
      BY <1>1, <1>2 DEF ChunksMissing
    <2>2. body = sc.payload
      BY <1>2, <2>1, ChunksAreAll
    <2>3. c = Len(sc.payload)
      BY <1>1, <2>1 DEF GoodAnswer, WellFormed, NoBody
    <2> QED BY <1>1, <2>2, <2>3
  <1>3. CASE ~chunked
    <2>1. /\ n <= c /\ (n = c \/ h + n + Len(HeldBack("body")) = got)
      BY <1>1, <1>3 DEF Progress, LengthKept
    <2>2. Len(HeldBack("body")) = 0
      BY DEF HeldBack
    <2>3. /\ w \in Seq(Cells) /\ Len(w) \in Nat /\ got \in Nat /\ got <= Len(w) /\ c \in Nat /\ n \in Nat
          /\ Find(w, CRLFCRLF) \in Nat
      BY <1>1, ScenarioFields, LenProperties, FindPosition DEF TypeOK
    <2>4. h \in Nat /\ BodyAt(sc) - 1 = h
      BY <2>3 DEF BodyAt, HeaderEnd
    <2>5. h + c <= Len(w)
      BY <1>1, <1>3, <2>4 DEF GoodAnswer, WellFormed, NoBody
    <2>6. n # c
      BY <1>1
    <2> HIDE DEF n, c, h, w
    <2>7. got < Len(w)
      BY <2>1, <2>2, <2>3, <2>4, <2>5, <2>6
    <2> QED BY <2>7 DEF w
  <1> QED BY <1>2, <1>3

\* What a good answer is does not change while it is read.
LEMMA AnswerStands ==
    ASSUME [Next]_vars
    PROVE  sc' = sc /\ (GoodAnswer' <=> GoodAnswer) /\ Expected' = Expected /\ Ending' = Ending
  <1>1. sc' = sc
    BY DEF Next, vars, Send, LoopTop, Receive, ReceiveEnd, ReceiveError, HeadersWait, HeadersParse,
           HeadersReject, BodyLength, BodyUntilClose, FeedStart, FeedSize, FeedChunk, FeedReturn,
           AppendChunk, AppendDone, Finish, Done
  <1>2. NoBody' = NoBody /\ Expected' = Expected
    BY <1>1 DEF NoBody, Expected
  <1>3. Fits' <=> Fits
    BY <1>1, <1>2 DEF Fits
  <1>4. WellFormed(sc)' = WellFormed(sc)
    BY <1>1
  <1> QED BY <1>1, <1>2, <1>3, <1>4 DEF GoodAnswer, Ending

\* No step blames a good answer.
LEMMA GoodStep ==
    ASSUME TypeOK, Accounting, Progress, GoodAnswerAccepted, BufferSize < Slack, [Next]_vars
    PROVE  GoodAnswerAccepted'
  <1>0. sc' = sc /\ (GoodAnswer' <=> GoodAnswer) /\ HeadersRead
    BY AnswerStands DEF Progress
  <1> SUFFICES ASSUME GoodAnswer
               PROVE  outcome' \notin Blame /\ (outcome' \in CutShort => got' < Len(sc.wire))
    BY <1>0 DEF GoodAnswerAccepted
  <1>1. CASE outcome' = outcome /\ got' = got
    BY <1>1 DEF GoodAnswerAccepted
  <1>2. CASE outcome' \in {"none", "ok", "send", "receive", "cancelled", "callback", "total_timeout"}
    BY <1>2 DEF Blame, CutShort
  <1>3. CASE outcome' \in CutShort /\ got' < Len(sc.wire)
    BY <1>3 DEF Blame, CutShort
  <1>4. pc # "done" => outcome = "none"
    BY <1>0 DEF HeadersRead
  <1>5. CASE Send
    BY <1>2, <1>4, <1>5 DEF Send, Leave
  <1>6. CASE LoopTop
    BY <1>2, <1>4, <1>6 DEF LoopTop, Leave
  <1>7. ASSUME NEW n \in 1 .. BufferSize, Receive(n)
        PROVE  outcome' \notin Blame /\ (outcome' \in CutShort => got' < Len(sc.wire))
    BY <1>2, <1>4, <1>7 DEF Receive
  <1>8. CASE ReceiveEnd \/ ReceiveError
    BY <1>2, <1>4, <1>8 DEF ReceiveEnd, ReceiveError, Leave
  <1>9. CASE HeadersWait
    BY <1>2, <1>4, <1>9 DEF HeadersWait
  <1>10. CASE HeadersParse
    <2>1. ~(sc.clBad \/ sc.cl > sc.max)
      <3>1. ~sc.clBad /\ sc.cl <= sc.max
        BY DEF GoodAnswer, WellFormed, Fits
      <3>2. sc.cl \in Int /\ sc.max \in Int
        BY ScenarioFields DEF TypeOK, None
      <3> QED BY <3>1, <3>2
    <2> QED BY <1>2, <1>4, <1>10, <2>1 DEF HeadersParse, Leave
  <1>11. CASE HeadersReject
    BY <1>11, HeadersNotBlamed
  <1>12. CASE BodyLength \/ BodyUntilClose
    <2>1. outcome' # "too_big"
      BY <1>12, PlainNotBlamed
    <2>2. outcome' \in {"none", "too_big", "callback"}
      BY <1>4, <1>12 DEF BodyLength, BodyUntilClose, AppendBody, Leave
    <2> QED BY <1>2, <2>1, <2>2
  <1>13. CASE FeedStart
    <2>1. outcome' # "buffering"
      BY <1>13, BufferNotBlamed
    <2> QED BY <1>2, <1>4, <1>13, <2>1 DEF FeedStart, Leave
  <1>14. CASE FeedSize
    BY <1>2, <1>14, SizeNotBlamed
  <1>15. CASE FeedChunk
    BY <1>2, <1>15, TerminatorNotBlamed
  <1>16. CASE FeedReturn \/ AppendDone
    BY <1>2, <1>4, <1>16 DEF FeedReturn, AppendDone
  <1>17. CASE AppendChunk
    <2>1. outcome' # "too_big"
      BY <1>17, ChunksNotBlamed
    <2>2. outcome' \in {"none", "too_big", "callback"}
      BY <1>4, <1>17 DEF AppendChunk, AppendBody, Leave
    <2> QED BY <1>2, <2>1, <2>2
  <1>18. CASE Finish
    <2>0. pc = "finish" /\ got' = got
      BY <1>18 DEF Finish
    <2>1. CASE ~got_headers
      <3>1. got < Len(sc.wire)
        BY <2>0, <2>1, HeadersNotMissed
      <3> QED BY <1>3, <1>18, <2>0, <2>1, <3>1 DEF Finish, Leave, CutShort
    <2>2. CASE got_headers /\ ChunksMissing
      <3>1. got < Len(sc.wire)
        BY <2>0, <2>2, ChunksNotMissed DEF ChunksMissing
      <3> QED BY <1>3, <1>18, <2>0, <2>2, <3>1 DEF Finish, Leave, CutShort
    <2>3. CASE /\ got_headers /\ ~ChunksMissing
               /\ content_length # None /\ ~NoBody /\ Len(body) # content_length
      <3>1. got < Len(sc.wire)
        BY <2>0, <2>3, LengthNotMissed
      <3> QED BY <1>3, <1>18, <2>0, <2>3, <3>1 DEF Finish, Leave, CutShort
    <2>4. CASE outcome' = "ok"
      BY <1>2, <2>4
    <2> QED BY <1>18, <2>1, <2>2, <2>3, <2>4 DEF Finish, Leave
  <1>19. CASE UNCHANGED vars
    BY <1>1, <1>19 DEF vars
  <1> QED
    BY <1>5, <1>6, <1>7, <1>8, <1>9, <1>10, <1>11, <1>12, <1>13, <1>14, <1>15, <1>16, <1>17,
       <1>18, <1>19 DEF Next, Done

\* A well-formed answer within the limits is never blamed, and never said to be cut
\* short when it arrived whole, for every answer and every way TCP splits it. A read has
\* to be smaller than the decoder's slack: with a buffer_size of exactly 1 MiB a chunk of
\* max_response_bytes can be refused for the bytes that were read with its end.
THEOREM GoodIsNotBlamed ==
    ASSUME BufferSize < Slack
    PROVE  Spec => []GoodAnswerAccepted
  <1>1. Init => GoodAnswerAccepted
    BY DEF Init, GoodAnswerAccepted, Blame, CutShort
  <1>2. TypeOK /\ Accounting /\ Progress /\ GoodAnswerAccepted /\ [Next]_vars => GoodAnswerAccepted'
    BY GoodStep
  <1> QED BY <1>1, <1>2, TypeCorrect, AccountingHolds, ProgressHolds, PTL DEF Spec

-----------------------------------------------------------------------------

\* The call returns only with a whole answer and, unless the end of the connection is
\* the end of the body, with all of its body.
LEMMA ReturnsWhole ==
    ASSUME TypeOK, Accounting, Progress, Finish, outcome' = "ok"
    PROVE  Ending # "broken" /\ (Ending = "marked" => body = Expected)
  <1>1. /\ pc = "finish" /\ got_headers /\ ~ChunksMissing
        /\ content_length = None \/ NoBody \/ Len(body) = content_length
    BY DEF Finish, Leave
  <1>2. /\ sc.status # "bad" /\ ~sc.clBad /\ chunked = sc.te /\ content_length = sc.cl
        /\ Find(sc.wire, CRLFCRLF) # 0 /\ (NoBody => body = <<>>)
    BY <1>1 DEF Progress, HeadersRead, Accounting, HeadersFound
  <1>3. CASE NoBody
    <2>1. WellFormed(sc)
      BY <1>2, <1>3 DEF WellFormed, NoBody
    <2> QED BY <1>2, <1>3, <2>1 DEF Ending, Expected
  <1>4. CASE ~NoBody /\ sc.te
    <2>1. body = sc.payload /\ LastChunkAt(sc, sc.frames[Len(sc.frames)].at)
      BY <1>1, <1>2, <1>4, ChunksAreAll DEF ChunksMissing
    <2>2. sc.cl \in {None, Len(sc.payload)}
      BY <1>1, <1>2, <1>4, <2>1
    <2>3. WellFormed(sc)
      BY <1>2, <1>4, <2>1, <2>2 DEF WellFormed
    <2> QED BY <1>4, <2>1, <2>3 DEF Ending, Expected
  <1>5. CASE ~NoBody /\ ~sc.te /\ sc.cl = None
    <2>1. WellFormed(sc)
      BY <1>2, <1>5 DEF WellFormed
    <2> QED BY <1>5, <2>1 DEF Ending
  <1>6. CASE ~NoBody /\ ~sc.te /\ sc.cl # None
    <2> DEFINE w == sc.wire
               h == HeaderEnd
               n == Len(body)
    <2>1. /\ sc \in Scenarios /\ w \in Seq(Cells) /\ Len(w) \in Nat /\ n \in Nat /\ body \in Seq(Cells)
          /\ got \in Nat /\ got <= Len(w) /\ Find(w, CRLFCRLF) \in Nat /\ sc.payload \in Seq(Cells)
      BY ScenarioFields, LenProperties, FindPosition DEF TypeOK
    <2>2. h \in Nat /\ h = Find(w, CRLFCRLF) + 3 /\ BodyAt(sc) - 1 = h
      BY <2>1 DEF HeaderEnd, BodyAt
    <2>3. n = sc.cl /\ h + n <= got
      BY <1>1, <1>2, <1>6 DEF Progress, LengthKept
    <2>5. h + n <= Len(w)
      <3> HIDE DEF h, n, w
      <3> QED BY <2>1, <2>2, <2>3
    <2>6. body = SubSeq(w, h + 1, h + n)
      BY <1>1, <1>2, <1>6 DEF Accounting, BodyFollowsHeaders
    <2>7. n <= sc.cl
      <3> HIDE DEF n
      <3> QED BY <2>1, <2>3
    <2>8. body = SubSeq(sc.payload, 1, n) /\ Len(sc.payload) = n
      BY <1>2, <1>6, <2>1, <2>2, <2>3, <2>5, <2>6, <2>7, PlainFacts DEF NoBody
    <2>9. body = sc.payload
      BY <2>1, <2>8
    <2>10. WellFormed(sc)
      BY <1>2, <1>6, <2>2, <2>3, <2>5 DEF WellFormed
    <2> QED BY <1>6, <2>9, <2>10 DEF Ending, Expected
  <1> QED BY <1>3, <1>4, <1>5, <1>6

\* What a step does to the body and to the result.
LEMMA StepDelivers ==
    ASSUME TypeOK, Progress, Accounting, [Next]_vars
    PROVE  /\ Len(body) \in Nat /\ Len(body') \in Nat /\ Len(body) <= Len(body')
           /\ Len(body') = Len(body) => body' = body
           /\ pc = "done" => body' = body /\ outcome' = outcome
           /\ outcome' = "ok" /\ outcome # "ok" => Finish /\ body' = body
  <1>1. /\ body \in Seq(Cells) /\ Len(body) \in Nat /\ incoming \in Seq(Cells)
        /\ (pc # "done" => outcome = "none") /\ (chunks # <<>> => Head(chunks) \in Seq(Cells))
    BY LenProperties, ChunkList DEF TypeOK, Progress, HeadersRead
  <1>2. ASSUME NEW piece \in Seq(Cells), NEW next, AppendBody(piece, next)
        PROVE  /\ Len(body') \in Nat /\ Len(body) <= Len(body')
               /\ Len(body') = Len(body) => body' = body
    <2>1. Len(piece) \in Nat
      BY LenProperties
    <2>2. CASE body' = body
      BY <1>1, <2>2
    <2>3. CASE body' = body \o piece /\ Len(body') = Len(body) + Len(piece)
      <3>1. Len(piece) = 0 => piece = <<>>
        BY EmptySeq
      <3>2. Len(body') = Len(body) => piece = <<>>
        BY <1>1, <2>1, <2>3, <3>1
      <3>3. body \o <<>> = body
        BY <1>1, ConcatEmptySeq
      <3> QED BY <1>1, <2>1, <2>3, <3>2, <3>3
    <2> QED BY <1>2, <2>2, <2>3, AppendLength
  <1>3. CASE body' = body /\ (outcome' = "ok" /\ outcome # "ok" => Finish) /\ (pc = "done" => outcome' = outcome)
    BY <1>1, <1>3
  <1>4. CASE BodyLength
    <2> DEFINE needed == IF content_length > Len(body) THEN content_length - Len(body) ELSE 0
               t == IF needed < Len(incoming) THEN needed ELSE Len(incoming)
    <2>1. t \in Int /\ t <= Len(incoming)
      BY <1>1, LenProperties DEF TypeOK, None
    <2> HIDE DEF t
    <2>2. SubSeq(incoming, 1, t) \in Seq(Cells)
      BY <1>1, <2>1, SliceType
    <2>3. AppendBody(SubSeq(incoming, 1, t), "top") /\ pc = "body"
      BY <1>4 DEF BodyLength, t
    <2>4. outcome' # "ok"
      BY <1>1, <2>3 DEF AppendBody, Leave
    <2> QED BY <1>1, <1>2, <2>2, <2>3, <2>4
  <1>5. CASE BodyUntilClose
    <2>1. AppendBody(incoming, "top") /\ pc = "body"
      BY <1>5 DEF BodyUntilClose
    <2>2. outcome' # "ok"
      BY <1>1, <2>1 DEF AppendBody, Leave
    <2> QED BY <1>1, <1>2, <2>1, <2>2
  <1>6. CASE AppendChunk
    <2>1. AppendBody(Head(chunks), "append") /\ pc = "append" /\ Head(chunks) \in Seq(Cells)
      BY <1>1, <1>6 DEF AppendChunk
    <2>2. outcome' # "ok"
      BY <1>1, <2>1 DEF AppendBody, Leave
    <2> QED BY <1>1, <1>2, <2>1, <2>2
  <1>7. CASE Finish
    BY <1>3, <1>7 DEF Finish
  <1>8. CASE FeedStart \/ FeedSize \/ FeedChunk \/ FeedReturn \/ AppendDone
    BY <1>1, <1>3, <1>8 DEF FeedStart, FeedSize, FeedChunk, FeedReturn, AppendDone, Leave
  <1>9. CASE HeadersWait \/ HeadersParse \/ HeadersReject
    BY <1>1, <1>3, <1>9 DEF HeadersWait, HeadersParse, HeadersReject, Leave
  <1>10. CASE Send \/ LoopTop \/ (\E n \in 1 .. BufferSize : Receive(n)) \/ ReceiveEnd \/ ReceiveError
    BY <1>1, <1>3, <1>10 DEF Send, LoopTop, Receive, ReceiveEnd, ReceiveError, Leave
  <1>11. CASE UNCHANGED vars
    BY <1>3, <1>11 DEF vars
  <1> QED
    BY <1>4, <1>5, <1>6, <1>7, <1>8, <1>9, <1>10, <1>11 DEF Next, Done

\* Every step is a step of ResponseDelivery, or leaves it alone.
LEMMA DeliveryStep ==
    ASSUME TypeOK, Accounting, Progress, Progress', [Next]_vars
    PROVE  [Delivery!RNext]_(Delivery!rvars)
  <1> DEFINE held == IF sc.on_chunk THEN seen ELSE body
             status == IF outcome \in {"none", "ok"} THEN outcome ELSE "error"
  <1>1. held = body /\ held' = body'
    BY DEF Progress, PrefixHeld, CallbackSawBody
  <1>2. Expected' = Expected /\ Ending' = Ending
    BY AnswerStands
  <1>3. /\ body' = SubSeq(Expected, 1, Len(body')) /\ Len(body') <= Len(Expected)
        /\ Len(Expected) \in Nat
    BY <1>2, ScenarioFields, LenProperties DEF Progress, PrefixHeld, Expected, TypeOK
  <1>4. /\ Len(body) \in Nat /\ Len(body') \in Nat /\ Len(body) <= Len(body')
        /\ Len(body') = Len(body) => body' = body
        /\ pc = "done" => body' = body /\ outcome' = outcome
        /\ outcome' = "ok" /\ outcome # "ok" => Finish /\ body' = body
    BY StepDelivers
  <1>5. pc # "done" => status = "none" /\ outcome = "none"
    BY DEF Progress, HeadersRead
  <1> HIDE DEF held
  <1>6. CASE pc = "done" \/ (outcome' = outcome /\ body' = body)
    BY <1>1, <1>2, <1>4, <1>6 DEF Delivery!rvars, held
  <1>7. CASE pc # "done" /\ outcome' = "none" /\ body' # body
    <2>1. Len(body') \in Len(body) + 1 .. Len(Expected)
      BY <1>3, <1>4, <1>7
    <2>2. status' = status /\ status = "none"
      BY <1>5, <1>7
    <2>3. Delivery!Deliver
      BY <1>1, <1>2, <1>3, <2>1, <2>2 DEF Delivery!Deliver, held
    <2> QED BY <2>3 DEF Delivery!RNext
  <1>8. CASE pc # "done" /\ outcome' = "ok"
    <2>1. Finish /\ body' = body
      BY <1>4, <1>5, <1>8
    <2>2. Ending # "broken" /\ (Ending = "marked" => body = Expected)
      BY <1>8, <2>1, ReturnsWhole
    <2>3. status' = "ok" /\ status = "none"
      BY <1>5, <1>8
    <2>4. Delivery!Return
      BY <1>1, <1>2, <2>1, <2>2, <2>3 DEF Delivery!Return, held
    <2> QED BY <2>4 DEF Delivery!RNext
  <1>9. CASE pc # "done" /\ outcome' \notin {"none", "ok"}
    <2>1. Len(body') \in Len(body) .. Len(Expected)
      BY <1>3, <1>4
    <2>2. status' = "error" /\ status = "none"
      BY <1>5, <1>9
    <2>3. Delivery!Raise
      BY <1>1, <1>2, <1>3, <2>1, <2>2 DEF Delivery!Raise, held
    <2> QED BY <2>3 DEF Delivery!RNext
  <1> QED BY <1>5, <1>6, <1>7, <1>8, <1>9

\* The request implements ResponseDelivery: the caller holds a growing prefix of the
\* server's body, and the call returns normally only with all of a well-formed answer.
THEOREM RequestDelivers == Spec => Delivers
  <1>1. Init => Delivery!RInit
    <2> SUFFICES ASSUME Init PROVE Delivery!RInit
      OBVIOUS
    <2>1. Expected \in Seq(Cells)
      BY ScenarioFields, EmptySeq DEF Init, Expected
    <2>2. Ending \in {"marked", "close", "broken"}
      BY DEF Ending
    <2> QED BY <2>1, <2>2 DEF Init, Delivery!RInit
  <1>2. TypeOK /\ Accounting /\ Progress /\ Progress' /\ [Next]_vars => [Delivery!RNext]_(Delivery!rvars)
    BY DeliveryStep
  <1>3. Spec => Delivery!RSpec
    BY <1>1, <1>2, TypeCorrect, AccountingHolds, ProgressHolds, PTL DEF Spec, Delivery!RSpec
  <1> QED BY <1>3 DEF Delivers

=============================================================================
