---------------------------- MODULE RecordProofs ----------------------------
(***************************************************************************)
(* Proofs about the records of TCP connections, for any number of calls    *)
(* and of fragments, and wherever the streams are cut into reads: the      *)
(* requests that are served are the first ones that were sent, whole, and  *)
(* a client is presented the whole reply to its last request.              *)
(*                                                                         *)
(* The inductive invariant RecordsInv says what is under way between the   *)
(* two ends: nothing, a request, a request that has arrived, or a reply;   *)
(* and for a record how many of its halves have been sent and received,    *)
(* and what the fragment automaton has made of them.  RecordRead is the    *)
(* step of the automaton, the lemmas after it are the actions.             *)
(***************************************************************************)
EXTENDS TcpRecords, ListLemmas, TLAPS

-----------------------------------------------------------------------------
(* Words and their halves.                                                 *)

RecordWords ==
    [is : {"xid", "CALL", "arg", "junk", "REPLY", "result", "room"}, n : Nat] \cup
    [is : {"mark"}, n : {0}, len : Nat, last : BOOLEAN]
HalfWords == [word : RecordWords, half : {0, 1}]

\* The halves of words: two of each.
LEMMA HalvesOf ==
  ASSUME NEW ws \in Seq(RecordWords)
  PROVE  /\ Halves(ws) \in Seq(HalfWords) /\ Len(Halves(ws)) = 2 * Len(ws) /\ Len(ws) \in Nat
         /\ \A q \in 1 .. 2 * Len(ws) :
              Halves(ws)[q] = [word |-> ws[(q + 1) \div 2], half |-> (q + 1) % 2]
<1>1. PICK n, h : n = Len(ws) /\ h = Halves(ws)
  OBVIOUS
<1>2. n \in Nat /\ 2 * n \in Nat
  BY <1>1, LenProperties
<1>3. h = [q \in 1 .. 2 * n |-> [word |-> ws[(q + 1) \div 2], half |-> (q + 1) % 2]]
  BY <1>1 DEF Halves
<1>4. ASSUME NEW q \in 1 .. 2 * n PROVE [word |-> ws[(q + 1) \div 2], half |-> (q + 1) % 2] \in HalfWords
  <2>1. (q + 1) \div 2 \in 1 .. n /\ (q + 1) % 2 \in {0, 1}
    BY <1>2
  <2>2. ws[(q + 1) \div 2] \in RecordWords
    BY <1>1, <2>1, ElementOfSeq
  <2>. QED
    BY <2>1, <2>2 DEF HalfWords
<1>5. h \in [1 .. 2 * n -> HalfWords]
  BY <1>3, <1>4
<1>6. h \in Seq(HalfWords) /\ Len(h) = 2 * n
  BY <1>2, <1>5
<1>. QED
  BY <1>1, <1>2, <1>3, <1>6

\* The words come back from their halves.
LEMMA WordsOfHalves ==
  ASSUME NEW ws \in Seq(RecordWords)
  PROVE  WordsOf(Halves(ws)) = ws /\ Whole(Halves(ws))
<1>1. PICK n, h : n = Len(ws) /\ h = Halves(ws)
  OBVIOUS
<1>2. /\ h \in Seq(HalfWords) /\ Len(h) = 2 * n /\ n \in Nat
      /\ \A q \in 1 .. 2 * n : h[q] = [word |-> ws[(q + 1) \div 2], half |-> (q + 1) % 2]
  BY <1>1, HalvesOf
<1>3. (2 * n) \div 2 = n /\ (2 * n) % 2 = 0
  BY <1>2
<1>4. ASSUME NEW i \in 1 .. n
      PROVE  h[2 * i].word = ws[i] /\ h[2 * i - 1].word = ws[i]
  <2>1. PICK a, b : a = 2 * i /\ b = 2 * i - 1
    OBVIOUS
  <2>2. a \in 1 .. 2 * n /\ b \in 1 .. 2 * n /\ (a + 1) \div 2 = i /\ (b + 1) \div 2 = i
    BY <1>2, <2>1
  <2>3. h[a].word = ws[(a + 1) \div 2]
    <3>1. h[a] = [word |-> ws[(a + 1) \div 2], half |-> (a + 1) % 2]
      BY <1>2, <2>2
    <3>. QED
      BY <3>1
  <2>4. h[b].word = ws[(b + 1) \div 2]
    <3>1. h[b] = [word |-> ws[(b + 1) \div 2], half |-> (b + 1) % 2]
      BY <1>2, <2>2
    <3>. QED
      BY <3>1
  <2>. QED
    BY <2>1, <2>2, <2>3, <2>4, Zenon
<1>5. WordsOf(h) = [i \in 1 .. n |-> ws[i]]
  BY <1>2, <1>3, <1>4 DEF WordsOf
<1>6. ws = [i \in 1 .. n |-> ws[i]]
  BY <1>1, LenProperties
<1>7. Whole(h)
  BY <1>2, <1>3, <1>4 DEF Whole
<1>. QED
  BY <1>1, <1>5, <1>6, <1>7

\* The same for the halves of a stream.
LEMMA Resumed ==
  ASSUME NEW t \in Seq(HalfWords), NEW k \in Nat, NEW j \in Nat, k <= j, j <= Len(t)
  PROVE  \A p, q \in Nat : p <= q /\ q <= j - k =>
            Span(Span(t, k, j), p, q) = Span(t, k + p, k + q)
<1>1. ASSUME NEW p \in Nat, NEW q \in Nat, p <= q, q <= j - k
      PROVE  Span(Span(t, k, j), p, q) = Span(t, k + p, k + q)
  BY <1>1, SpanOfSpan
<1>. QED
  BY <1>1

-----------------------------------------------------------------------------
\* How a record is laid out.
Size(ws, cut) == 2 * (Len(ws) + Len(cut))
Start(cut, i) == 2 * (Before(cut, i) + i - 1)
Extent(cut, i) == cut[i] - Before(cut, i)
Sent(ws, cut) == Halves(Fragmented(ws, cut))

\* The cuts of a message into fragments.
LEMMA CutsType ==
  ASSUME NEW len \in Nat, NEW cut \in Cuts(len)
  PROVE  /\ Len(cut) \in Nat \ {0} /\ cut[Len(cut)] = len
         /\ \A i \in 1 .. Len(cut) : cut[i] \in 0 .. len
         /\ \A i, k \in 1 .. Len(cut) : i < k => cut[i] <= cut[k]
<1>1. PICK f \in 1 .. MaxFragments : cut \in [1 .. f -> 0 .. len]
  BY DEF Cuts
<1>2. f \in Nat \ {0} /\ Len(cut) = f
  BY <1>1, RecordsAssumption
<1>. QED
  BY <1>1, <1>2 DEF Cuts

\* Where fragment i begins and ends, in words of the message.
LEMMA FragmentBounds ==
  ASSUME NEW len \in Nat, NEW cut \in Cuts(len), NEW i \in 1 .. Len(cut)
  PROVE  /\ Before(cut, i) \in Nat /\ cut[i] \in Nat /\ Before(cut, i) <= cut[i] /\ cut[i] <= len
         /\ i = 1 => Before(cut, i) = 0
         /\ i = Len(cut) => cut[i] = len
         /\ i # Len(cut) => i + 1 \in 1 .. Len(cut) /\ Before(cut, i + 1) = cut[i]
         /\ \A k \in 1 .. Len(cut) : i < k => cut[i] <= Before(cut, k)
<1>1. /\ Len(cut) \in Nat \ {0} /\ cut[Len(cut)] = len /\ cut[i] \in 0 .. len
      /\ \A k \in 1 .. Len(cut) : cut[k] \in 0 .. len
      /\ \A j, k \in 1 .. Len(cut) : j < k => cut[j] <= cut[k]
  BY CutsType
<1>2. Before(cut, i) \in Nat /\ Before(cut, i) <= cut[i]
  <2>1. CASE i = 1
    BY <1>1, <2>1 DEF Before
  <2>2. CASE i # 1
    <3>1. i - 1 \in 1 .. Len(cut) /\ i - 1 < i
      BY <1>1, <2>2
    <3>. QED
      BY <1>1, <2>2, <3>1 DEF Before
  <2>. QED
    BY <2>1, <2>2
<1>3. i # Len(cut) => i + 1 \in 1 .. Len(cut) /\ Before(cut, i + 1) = cut[i]
  BY <1>1 DEF Before
<1>4. ASSUME NEW k \in 1 .. Len(cut), i < k PROVE cut[i] <= Before(cut, k)
  <2>1. k - 1 \in 1 .. Len(cut) /\ k # 1 /\ (i = k - 1 \/ i < k - 1)
    BY <1>1, <1>4
  <2>2. cut[i] <= cut[k - 1]
    BY <1>1, <2>1
  <2>. QED
    BY <2>1, <2>2 DEF Before
<1>5. i = 1 => Before(cut, i) = 0
  BY DEF Before
<1>. QED
  BY <1>1, <1>2, <1>3, <1>4, <1>5

\* The mark and the words of fragment i.
LEMMA FragmentAt ==
  ASSUME NEW ws \in Seq(RecordWords), NEW cut \in Cuts(Len(ws)), NEW i \in 1 .. Len(cut),
         NEW p \in Before(cut, i) + i .. cut[i] + i
  PROVE  /\ p \in 1 .. Len(ws) + Len(cut)
         /\ Fragmented(ws, cut)[p] =
              IF p = Before(cut, i) + i THEN Mark(Extent(cut, i), i = Len(cut)) ELSE ws[p - i]
<1>0. Len(ws) \in Nat
  BY LenProperties
<1>1. /\ Before(cut, i) \in Nat /\ cut[i] \in Nat /\ cut[i] <= Len(ws) /\ Len(cut) \in Nat
      /\ \A k \in 1 .. Len(cut) : i < k => cut[i] <= Before(cut, k)
  <2>1. Len(cut) \in Nat
    BY <1>0, CutsType
  <2>2. /\ Before(cut, i) \in Nat /\ cut[i] \in Nat /\ cut[i] <= Len(ws)
    BY <1>0, FragmentBounds
  <2>3. \A k \in 1 .. Len(cut) : i < k => cut[i] <= Before(cut, k)
    BY <1>0, FragmentBounds
  <2>. QED
    BY <2>1, <2>2, <2>3
<1>2. p \in 1 .. Len(ws) + Len(cut)
  BY <1>0, <1>1
<1>3. ASSUME NEW k \in 1 .. Len(cut), p \in Before(cut, k) + k .. cut[k] + k
      PROVE  k = i
  <2>1. /\ Before(cut, k) \in Nat /\ cut[k] \in Nat
        /\ \A j \in 1 .. Len(cut) : k < j => cut[k] <= Before(cut, j)
    BY <1>0, FragmentBounds
  <2>2. CASE k < i
    <3>1. cut[k] <= Before(cut, i)
      BY <2>1, <2>2
    <3>2. p \in Int /\ p <= cut[k] + k /\ Before(cut, i) + i <= p /\ k \in Int /\ i \in Int
      BY <1>1, <1>3, <2>1
    <3>4. cut[k] \in Int /\ Before(cut, i) \in Int
      BY <1>1, <2>1
    <3>3. FALSE
      BY <2>2, <3>1, <3>2, <3>4
    <3>. QED
      BY <3>3
  <2>3. CASE i < k
    <3>1. cut[i] <= Before(cut, k)
      BY <1>1, <2>3
    <3>2. p \in Int /\ p <= cut[i] + i /\ Before(cut, k) + k <= p /\ k \in Int /\ i \in Int
      <4>1. k \in Int /\ i \in Int
        BY <1>1
      <4>. QED
        BY <1>1, <1>3, <2>1, <4>1
    <3>4. cut[i] \in Int /\ Before(cut, k) \in Int
      BY <1>1, <2>1
    <3>3. FALSE
      BY <2>3, <3>1, <3>2, <3>4
    <3>. QED
      BY <3>3
  <2>. QED
    BY <1>1, <2>2, <2>3
<1>4. (CHOOSE k \in 1 .. Len(cut) : p \in Before(cut, k) + k .. cut[k] + k) = i
  BY <1>3
<1>5. Fragmented(ws, cut)[p] =
        LET k == i IN IF p = Before(cut, k) + k THEN Mark(cut[k] - Before(cut, k), k = Len(cut))
                      ELSE ws[p - k]
  BY <1>2, <1>4, Zenon DEF Fragmented
<1>. QED
  BY <1>2, <1>5 DEF Extent

\* The words of a record: those of the message, and a mark for each fragment.
LEMMA FragmentedType ==
  ASSUME NEW ws \in Seq(RecordWords), NEW cut \in Cuts(Len(ws))
  PROVE  /\ Fragmented(ws, cut) \in Seq(RecordWords)
         /\ Len(Fragmented(ws, cut)) = Len(ws) + Len(cut)
         /\ Len(ws) \in Nat /\ Len(cut) \in Nat
<1>1. PICK n, f, s : n = Len(ws) + Len(cut) /\ f = Len(cut) /\ s = Fragmented(ws, cut)
  OBVIOUS
<1>2. Len(ws) \in Nat
  BY LenProperties
<1>3. f \in Nat \ {0} /\ cut[f] = Len(ws) /\ \A i \in 1 .. f : cut[i] \in 0 .. Len(ws)
  BY <1>1, <1>2, CutsType
<1>4. n \in Nat /\ n = Len(ws) + f
  BY <1>1, <1>2, <1>3
<1>5. ASSUME NEW p \in 1 .. n PROVE s[p] \in RecordWords
  <2>1. PICK T : T = {i \in 1 .. f : p <= cut[i] + i}
    OBVIOUS
  <2>2. f \in T
    BY <1>3, <1>4, <2>1
  <2>3. T \subseteq Nat /\ T # {}
    BY <1>3, <2>1, <2>2
  <2>4. PICK i : i \in T /\ \A k \in T : i <= k
    BY <2>3, MinOfSet
  <2>5. i \in 1 .. f /\ p <= cut[i] + i
    BY <2>1, <2>4
  <2>6. Before(cut, i) + i <= p
    <3>1. CASE i = 1
      BY <3>1 DEF Before
    <3>2. CASE i # 1
      <4>1. i - 1 \in 1 .. f /\ i - 1 < i
        BY <1>3, <2>5, <3>2
      <4>2. ~ p <= cut[i - 1] + (i - 1)
        <5>1. PICK k : k = i - 1
          OBVIOUS
        <5>2. k \in Int /\ i \in Int /\ ~ i <= k
          <6>1. i \in Int
            BY <1>3, <2>5
          <6>. QED
            BY <5>1, <6>1
        <5>3. k \notin T
          BY <2>4, <5>2, Zenon
        <5>. QED
          BY <2>1, <4>1, <5>1, <5>3
      <4>3. cut[i - 1] \in Nat
        BY <1>2, <1>3, <4>1
      <4>4. cut[i - 1] + i <= p
        BY <2>5, <1>3, <4>2, <4>3
      <4>. QED
        BY <3>2, <4>4 DEF Before
    <3>. QED
      BY <3>1, <3>2
  <2>7. /\ Before(cut, i) \in Nat /\ cut[i] \in Nat /\ Before(cut, i) <= cut[i] /\ cut[i] <= Len(ws)
    BY <1>1, <1>2, <2>5, FragmentBounds
  <2>8. p \in Before(cut, i) + i .. cut[i] + i
    BY <2>5, <2>6, <2>7
  <2>9. s[p] = IF p = Before(cut, i) + i THEN Mark(Extent(cut, i), i = Len(cut)) ELSE ws[p - i]
    BY <1>1, <2>5, <2>8, FragmentAt
  <2>10. CASE p = Before(cut, i) + i
    <3>1. s[p] = Mark(Extent(cut, i), i = Len(cut))
      BY <2>9, <2>10
    <3>2. Extent(cut, i) \in Nat /\ (i = Len(cut)) \in BOOLEAN
      BY <2>7 DEF Extent
    <3>. QED
      BY <3>1, <3>2 DEF Mark, RecordWords
  <2>11. CASE p # Before(cut, i) + i
    <3>1. p - i \in 1 .. Len(ws)
      BY <1>2, <2>5, <2>7, <2>8, <2>11
    <3>2. s[p] = ws[p - i]
      BY <2>9, <2>11
    <3>. QED
      BY <3>1, <3>2, ElementOfSeq
  <2>. QED
    BY <2>10, <2>11
<1>6. s = [p \in 1 .. n |-> s[p]]
  BY <1>1 DEF Fragmented
<1>7. s \in [1 .. n -> RecordWords]
  BY <1>5, <1>6
<1>8. s \in Seq(RecordWords) /\ Len(s) = n
  BY <1>4, <1>7
<1>. QED
  BY <1>1, <1>2, <1>3, <1>8

\* The halves of a record.
LEMMA SentType ==
  ASSUME NEW ws \in Seq(RecordWords), NEW cut \in Cuts(Len(ws))
  PROVE  /\ Sent(ws, cut) \in Seq(HalfWords) /\ Len(Sent(ws, cut)) = Size(ws, cut)
         /\ Size(ws, cut) \in Nat
<1>1. /\ Fragmented(ws, cut) \in Seq(RecordWords)
      /\ Len(Fragmented(ws, cut)) = Len(ws) + Len(cut)
      /\ Len(ws) \in Nat /\ Len(cut) \in Nat
  BY FragmentedType
<1>. QED
  BY <1>1, HalvesOf DEF Sent, Size

\* The halves of a word.
LEMMA SentAt ==
  ASSUME NEW ws \in Seq(RecordWords), NEW cut \in Cuts(Len(ws)),
         NEW p \in 1 .. Len(ws) + Len(cut), NEW q \in {2 * p - 1, 2 * p}
  PROVE  /\ q \in 1 .. Size(ws, cut)
         /\ Sent(ws, cut)[q] = [word |-> Fragmented(ws, cut)[p], half |-> (q + 1) % 2]
<1>1. PICK s : s = Fragmented(ws, cut)
  OBVIOUS
<1>2. s \in Seq(RecordWords) /\ Len(s) = Len(ws) + Len(cut) /\ Len(ws) \in Nat /\ Len(cut) \in Nat
  BY <1>1, FragmentedType
<1>3. q \in 1 .. 2 * Len(s) /\ (q + 1) \div 2 = p
  BY <1>2
<1>4. Halves(s)[q] = [word |-> s[(q + 1) \div 2], half |-> (q + 1) % 2]
  BY <1>2, <1>3, HalvesOf
<1>. QED
  BY <1>1, <1>2, <1>3, <1>4 DEF Sent, Size

\* Where fragment i lies: its mark, and after that its words.
LEMMA MarkAt ==
  ASSUME NEW ws \in Seq(RecordWords), NEW cut \in Cuts(Len(ws)), NEW i \in 1 .. Len(cut)
  PROVE  /\ Sent(ws, cut)[Start(cut, i) + 1] =
              [word |-> Mark(Extent(cut, i), i = Len(cut)), half |-> 0]
         /\ Sent(ws, cut)[Start(cut, i) + 2] =
              [word |-> Mark(Extent(cut, i), i = Len(cut)), half |-> 1]
<1>0. i \in Nat \ {0}
  <2>1. Len(cut) \in Nat
    BY FragmentedType
  <2>. QED
    BY <2>1
<1>1. PICK b, c : b = Before(cut, i) /\ c = cut[i]
  OBVIOUS
<1>11. PICK p : p = b + i
  OBVIOUS
<1>2. b \in Nat /\ c \in Nat /\ b <= c
  <2>1. Len(ws) \in Nat
    BY LenProperties
  <2>. QED
    BY <1>1, <2>1, FragmentBounds
<1>3. p \in b + i .. c + i /\ p \in Nat \ {0}
  BY <1>0, <1>2, <1>11
<1>4. p \in 1 .. Len(ws) + Len(cut)
  BY <1>1, <1>3, FragmentAt
<1>5. Fragmented(ws, cut)[p] = Mark(Extent(cut, i), i = Len(cut))
  BY <1>1, <1>3, <1>11, FragmentAt
<1>6. PICK q, r : q = 2 * p - 1 /\ r = 2 * p
  OBVIOUS
<1>7. Sent(ws, cut)[q] = [word |-> Fragmented(ws, cut)[p], half |-> (q + 1) % 2]
  BY <1>4, <1>6, SentAt
<1>8. Sent(ws, cut)[r] = [word |-> Fragmented(ws, cut)[p], half |-> (r + 1) % 2]
  BY <1>4, <1>6, SentAt
<1>9. (q + 1) % 2 = 0 /\ (r + 1) % 2 = 1
  BY <1>3, <1>6
<1>10. Start(cut, i) + 1 = q /\ Start(cut, i) + 2 = r
  <2>1. Start(cut, i) = 2 * (b + i - 1)
    BY <1>1 DEF Start
  <2>2. 2 * (b + i - 1) + 1 = q /\ 2 * (b + i - 1) + 2 = r
    BY <1>0, <1>2, <1>6, <1>11
  <2>. QED
    BY <2>1, <2>2
<1>. QED
  BY <1>5, <1>7, <1>8, <1>9, <1>10

\* The halves of the words of fragment i are those of the message.
LEMMA WordsAt ==
  ASSUME NEW ws \in Seq(RecordWords), NEW cut \in Cuts(Len(ws)), NEW i \in 1 .. Len(cut),
         NEW a \in 1 .. 2 * Extent(cut, i)
  PROVE  Sent(ws, cut)[Start(cut, i) + 2 + a] = Halves(ws)[2 * Before(cut, i) + a]
<1>0. Len(ws) \in Nat /\ Len(cut) \in Nat
  BY FragmentedType
<1>1. i \in Nat \ {0}
  BY <1>0
<1>2. PICK b, c : b = Before(cut, i) /\ c = cut[i]
  OBVIOUS
<1>16. PICK e : e = c - b
  OBVIOUS
<1>3. b \in Nat /\ c \in Nat /\ b <= c /\ c <= Len(ws)
  BY <1>0, <1>2, FragmentBounds
<1>4. e \in Nat /\ b + e = c /\ Extent(cut, i) = e
  <2>1. e \in Nat /\ b + e = c
    BY <1>3, <1>16
  <2>2. Extent(cut, i) = c - b
    BY <1>2 DEF Extent
  <2>. QED
    BY <1>16, <2>1, <2>2
<1>5. a \in 1 .. 2 * e
  BY <1>4
<1>6. PICK w, q, r, p : w = (a + 1) \div 2 /\ q = 2 * (b + i) + a /\ r = 2 * b + a /\ p = b + i + w
  OBVIOUS
<1>7. w \in 1 .. e /\ (a = 2 * w - 1 \/ a = 2 * w)
  BY <1>4, <1>5, <1>6
<1>8. p \in b + i .. c + i /\ p # b + i /\ p - i = b + w
  BY <1>1, <1>3, <1>4, <1>6, <1>7
<1>9. p \in 1 .. Len(ws) + Len(cut)
  BY <1>2, <1>8, FragmentAt
<1>10. Fragmented(ws, cut)[p] = ws[p - i]
  BY <1>2, <1>8, FragmentAt
<1>11. q = 2 * p - 1 \/ q = 2 * p
  BY <1>1, <1>3, <1>4, <1>6, <1>7
<1>12. Sent(ws, cut)[q] = [word |-> Fragmented(ws, cut)[p], half |-> (q + 1) % 2]
  BY <1>9, <1>11, SentAt
<1>13. r \in 1 .. 2 * Len(ws) /\ (r + 1) \div 2 = b + w /\ (r + 1) % 2 = (q + 1) % 2
  <2>1. r \in 1 .. 2 * Len(ws)
    BY <1>0, <1>3, <1>4, <1>5, <1>6
  <2>2. (r + 1) \div 2 = b + w
    BY <1>3, <1>4, <1>5, <1>6, <1>7
  <2>3. q = r + 2 * i
    BY <1>1, <1>3, <1>5, <1>6
  <2>. QED
    BY <1>1, <2>1, <2>2, <2>3
<1>14. Halves(ws)[r] = [word |-> ws[(r + 1) \div 2], half |-> (r + 1) % 2]
  BY <1>13, HalvesOf
<1>15. Start(cut, i) + 2 + a = q
  <2>1. Start(cut, i) = 2 * (b + i - 1)
    BY <1>2 DEF Start
  <2>2. 2 * (b + i - 1) + 2 + a = q
    BY <1>1, <1>3, <1>5, <1>6
  <2>. QED
    BY <2>1, <2>2
<1>. QED
  BY <1>2, <1>6, <1>8, <1>10, <1>12, <1>13, <1>14, <1>15

\* The bounds of a fragment in the record, and where it is followed by another.
LEMMA FragmentPlace ==
  ASSUME NEW ws \in Seq(RecordWords), NEW cut \in Cuts(Len(ws)), NEW i \in 1 .. Len(cut)
  PROVE  /\ Start(cut, i) \in Nat /\ Extent(cut, i) \in Nat /\ i \in Nat \ {0}
         /\ Before(cut, i) \in Nat /\ Before(cut, i) + Extent(cut, i) <= Len(ws)
         /\ Start(cut, i) = 2 * (Before(cut, i) + i - 1)
         /\ Start(cut, i) + 2 + 2 * Extent(cut, i) <= Size(ws, cut)
         /\ i = Len(cut) => /\ Start(cut, i) + 2 + 2 * Extent(cut, i) = Size(ws, cut)
                            /\ Before(cut, i) + Extent(cut, i) = Len(ws)
         /\ i # Len(cut) =>
              /\ i + 1 \in 1 .. Len(cut)
              /\ Start(cut, i) + 2 + 2 * Extent(cut, i) = Start(cut, i + 1)
              /\ Before(cut, i + 1) = Before(cut, i) + Extent(cut, i)
<1>0. Len(ws) \in Nat /\ Len(cut) \in Nat
  BY FragmentedType
<1>1. PICK b, c, f : b = Before(cut, i) /\ c = cut[i] /\ f = Len(cut)
  OBVIOUS
<1>2. /\ b \in Nat /\ c \in Nat /\ b <= c /\ c <= Len(ws)
      /\ i = f => c = Len(ws)
      /\ i # f => i + 1 \in 1 .. f /\ Before(cut, i + 1) = c
  BY <1>0, <1>1, FragmentBounds
<1>3. Extent(cut, i) = c - b /\ Start(cut, i) = 2 * (b + i - 1) /\ Size(ws, cut) = 2 * (Len(ws) + f)
  BY <1>1 DEF Extent, Start, Size
<1>4. i # f => Start(cut, i + 1) = 2 * (c + (i + 1) - 1)
  BY <1>2 DEF Start
<1>5. i \in 1 .. f /\ f \in Nat /\ i \in Nat \ {0}
  BY <1>0, <1>1
<1>6. PICK e, s, z, l : /\ e = c - b /\ s = 2 * (b + i - 1) /\ z = 2 * (l + f) /\ l = Len(ws)
  OBVIOUS
<1>7. s \in Nat /\ e \in Nat /\ b + e = c /\ s + 2 + 2 * e = 2 * (c + i)
  BY <1>2, <1>5, <1>6
<1>8. 2 * (c + i) <= z /\ (i = f => 2 * (c + i) = z) /\ 2 * (c + (i + 1) - 1) = 2 * (c + i)
  BY <1>0, <1>2, <1>5, <1>6
<1>. QED
  BY <1>1, <1>2, <1>3, <1>4, <1>5, <1>6, <1>7, <1>8

-----------------------------------------------------------------------------
(* The fragment automaton.                                                 *)

ConStates ==
    {"CONNECTED", "IDLE", "SENDING", "WAITING", "RECEIVING", "READY", "READY_FAILED", "DEAD", "CLOSED"}

Connections ==
    [state : ConStates, fragment : {"HEADER", "BODY"}, remaining : Nat, header : Seq(HalfWords),
     last : BOOLEAN, xdrs : Seq(HalfWords), xid : Nat]

\* The connection x has read k halves, the last ones of a mark ...
InMark(x, ws, cut, i, k) ==
    /\ k \in Start(cut, i) .. Start(cut, i) + 1
    /\ x.fragment = "HEADER" /\ x.remaining = Start(cut, i) + 2 - k
    /\ x.header = Span(Sent(ws, cut), Start(cut, i), k)
    /\ x.xdrs = Span(Halves(ws), 0, 2 * Before(cut, i))

\* ... or of the words that follow.
InBody(x, ws, cut, i, k) ==
    /\ k \in Start(cut, i) + 2 .. Start(cut, i) + 1 + 2 * Extent(cut, i)
    /\ x.fragment = "BODY" /\ x.remaining = Start(cut, i) + 2 + 2 * Extent(cut, i) - k
    /\ x.last = (i = Len(cut))
    /\ x.xdrs = Span(Halves(ws), 0, k - 2 * i)

Reading(x, ws, cut, k) ==
    \E i \in 1 .. Len(cut) : InMark(x, ws, cut, i, k) \/ InBody(x, ws, cut, i, k)

Complete(x, ws) == x.last = TRUE /\ x.remaining = 0 /\ x.xdrs = Halves(ws)

\* The connection x is within the record, or at its end.
Read(x, ws, cut, k) ==
    /\ x \in Connections
    /\ \/ k < Size(ws, cut) /\ Reading(x, ws, cut, k)
       \/ k = Size(ws, cut) /\ Complete(x, ws)

\* A connection with another state.
LEMMA ConnectionStates ==
  ASSUME NEW x \in Connections, NEW s \in ConStates, NEW f \in {"HEADER", "BODY"}
  PROVE  [x EXCEPT !.state = s] \in Connections /\ [x EXCEPT !.fragment = f] \in Connections
<1>1. [x EXCEPT !.state = s] \in Connections
  BY DEF Connections
<1>2. [x EXCEPT !.fragment = f] \in Connections
  BY DEF Connections
<1>. QED
  BY <1>1, <1>2

\* The halves of the mark of fragment i are taken for it.
LEMMA MarkRead ==
  ASSUME NEW ws \in Seq(RecordWords), NEW cut \in Cuts(Len(ws)), NEW i \in 1 .. Len(cut)
  PROVE  MarksOf(Span(Sent(ws, cut), Start(cut, i), Start(cut, i) + 2)) =
           {Mark(Extent(cut, i), i = Len(cut))}
<1>1. PICK s, t, m : s = Start(cut, i) /\ t = Sent(ws, cut) /\ m = Mark(Extent(cut, i), i = Len(cut))
  OBVIOUS
<1>2. t \in Seq(HalfWords) /\ s \in Nat /\ s + 2 <= Len(t)
  <2>1. t \in Seq(HalfWords) /\ Len(t) = Size(ws, cut) /\ Size(ws, cut) \in Nat
    BY <1>1, SentType
  <2>2. s \in Nat /\ Extent(cut, i) \in Nat /\ s + 2 + 2 * Extent(cut, i) <= Size(ws, cut)
    BY <1>1, FragmentPlace
  <2>. QED
    BY <2>1, <2>2
<1>3. PICK e : e = s + 2
  OBVIOUS
<1>11. PICK hd : hd = Span(t, s, e)
  OBVIOUS
<1>4. e \in Nat /\ s <= e /\ e <= Len(t) /\ e - s = 2
  BY <1>2, <1>3
<1>5. Len(hd) = 2
  <2>1. Len(hd) = e - s
    BY <1>2, <1>4, <1>11, SpanLen
  <2>. QED
    BY <1>4, <2>1
<1>6. \A a \in 1 .. e - s : hd[a] = t[s + a]
  BY <1>2, <1>4, <1>11, SpanElements
<1>7. hd[1] = t[s + 1] /\ hd[2] = t[s + 2]
  BY <1>4, <1>6
<1>8. hd[1] = [word |-> m, half |-> 0] /\ hd[2] = [word |-> m, half |-> 1]
  BY <1>1, <1>7, MarkAt
<1>9. m.is = "mark"
  BY <1>1 DEF Mark
<1>10. Whole(hd)
  <2>1. Len(hd) % 2 = 0 /\ Len(hd) \div 2 = 1
    BY <1>5
  <2>2. hd[1].half = (1 + 1) % 2 /\ hd[2].half = (2 + 1) % 2
    BY <1>8
  <2>3. ASSUME NEW a \in 1 .. Len(hd) PROVE hd[a].half = (a + 1) % 2
    <3>1. a = 1 \/ a = 2
      BY <1>5
    <3>. QED
      BY <2>2, <3>1
  <2>4. ASSUME NEW a \in 1 .. Len(hd) \div 2 PROVE hd[2 * a - 1].word = hd[2 * a].word
    <3>1. a = 1 /\ 2 * a - 1 = 1 /\ 2 * a = 2
      BY <2>1
    <3>. QED
      BY <1>8, <3>1
  <2>. QED
    BY <2>1, <2>3, <2>4 DEF Whole
<1>. QED
  BY <1>1, <1>3, <1>8, <1>9, <1>10, <1>11 DEF MarksOf

\* The mark of fragment i is complete.
LEMMA MarkTaken ==
  ASSUME NEW ws \in Seq(RecordWords), NEW cut \in Cuts(Len(ws)), NEW i \in 1 .. Len(cut),
         NEW x \in Connections, x.fragment = "HEADER",
         x.xdrs = Span(Halves(ws), 0, 2 * Before(cut, i))
  PROVE  LET y == AfterHeader(x, Mark(Extent(cut, i), i = Len(cut)))
         IN  Read(y, ws, cut, Start(cut, i) + 2) /\ y.state = x.state /\ y.xid = x.xid
<1>11. PICK y : y = AfterHeader(x, Mark(Extent(cut, i), i = Len(cut)))
  OBVIOUS
<1>. SUFFICES Read(y, ws, cut, Start(cut, i) + 2) /\ y.state = x.state /\ y.xid = x.xid
  BY <1>11
<1>1. PICK b, e, s, z, f : /\ b = Before(cut, i) /\ e = Extent(cut, i) /\ s = Start(cut, i)
                           /\ z = Size(ws, cut) /\ f = Len(cut)
  OBVIOUS
<1>2. /\ s \in Nat /\ e \in Nat /\ b \in Nat /\ i \in Nat \ {0} /\ s = 2 * (b + i - 1)
      /\ z \in Nat /\ s + 2 + 2 * e <= z
      /\ i = f => s + 2 + 2 * e = z /\ b + e = Len(ws)
      /\ i # f => i + 1 \in 1 .. f /\ s + 2 + 2 * e = Start(cut, i + 1) /\ Before(cut, i + 1) = b + e
  <2>1. z \in Nat
    BY <1>1, SentType
  <2>. QED
    BY <1>1, <2>1, FragmentPlace
<1>3. PICK l : l = (i = f)
  OBVIOUS
<1>4. Mark(Extent(cut, i), i = Len(cut)).len = e /\ Mark(Extent(cut, i), i = Len(cut)).last = l
  BY <1>1, <1>3 DEF Mark
<1>5. PICK u : u = [x EXCEPT !.last = l, !.remaining = 2 * e]
  OBVIOUS
<1>6. /\ u \in Connections /\ u.last = l /\ u.remaining = 2 * e /\ u.state = x.state /\ u.xid = x.xid
      /\ u.fragment = "HEADER" /\ u.xdrs = x.xdrs /\ l \in BOOLEAN
  <2>1. l \in BOOLEAN /\ 2 * e \in Nat
    BY <1>2, <1>3
  <2>2. u \in Connections
    BY <1>5, <2>1 DEF Connections
  <2>3. u.last = l
    BY <1>5, <2>1 DEF Connections
  <2>4. /\ u.remaining = 2 * e /\ u.state = x.state /\ u.xid = x.xid /\ u.fragment = "HEADER"
        /\ u.xdrs = x.xdrs
    BY <1>5 DEF Connections
  <2>. QED
    BY <2>1, <2>2, <2>3, <2>4
<1>7. y = IF e > 0 THEN [u EXCEPT !.fragment = "BODY"] ELSE IF l THEN u ELSE HeaderNext(u)
  BY <1>4, <1>5, <1>11 DEF AfterHeader
<1>8. CASE e > 0
  <2>1. /\ y \in Connections /\ y.fragment = "BODY" /\ y.last = l /\ y.remaining = 2 * e
        /\ y.state = x.state /\ y.xid = x.xid /\ y.xdrs = x.xdrs
    <3>1. y = [u EXCEPT !.fragment = "BODY"]
      BY <1>7, <1>8
    <3>5. u \in Connections
      BY <1>6
    <3>2. y \in Connections
      BY <3>1, <3>5 DEF Connections
    <3>3. y.last = u.last
      BY <1>6, <3>1 DEF Connections
    <3>4. /\ y.fragment = "BODY" /\ y.remaining = u.remaining /\ y.state = u.state /\ y.xid = u.xid
          /\ y.xdrs = u.xdrs
      BY <1>6, <3>1 DEF Connections
    <3>. QED
      BY <1>6, <3>2, <3>3, <3>4
  <2>2. PICK k : k = s + 2
    OBVIOUS
  <2>3. k - 2 * i = 2 * b /\ k \in s + 2 .. s + 1 + 2 * e /\ s + 2 + 2 * e - k = 2 * e /\ k < z
    BY <1>2, <1>8, <2>2
  <2>4. InBody(y, ws, cut, i, k)
    BY <1>1, <1>3, <2>1, <2>3 DEF InBody
  <2>. QED
    BY <1>1, <2>1, <2>2, <2>3, <2>4 DEF Read, Reading
<1>9. CASE e = 0 /\ i = f
  <2>1. y = u /\ l = TRUE
    <3>1. l = TRUE
      BY <1>3, <1>9
    <3>2. ~ e > 0
      BY <1>9
    <3>. QED
      BY <1>7, <3>1, <3>2
  <2>2. b = Len(ws) /\ s + 2 = z /\ 2 * e = 0
    BY <1>2, <1>9
  <2>3. Span(Halves(ws), 0, 2 * b) = Halves(ws)
    <3>1. Halves(ws) \in Seq(HalfWords) /\ Len(Halves(ws)) = 2 * b
      BY <2>2, HalvesOf
    <3>. QED
      BY <3>1, SpanAll
  <2>4. Complete(y, ws)
    BY <1>1, <1>6, <2>1, <2>2, <2>3 DEF Complete
  <2>5. y \in Connections /\ y.state = x.state /\ y.xid = x.xid
    BY <1>6, <2>1
  <2>. QED
    BY <1>1, <2>2, <2>4, <2>5 DEF Read
<1>10. CASE e = 0 /\ i # f
  <2>1. y = HeaderNext(u)
    <3>1. ~ l
      BY <1>3, <1>10
    <3>2. ~ e > 0
      BY <1>10
    <3>. QED
      BY <1>7, <3>1, <3>2
  <2>2. /\ y \in Connections /\ y.fragment = "HEADER" /\ y.remaining = 2 /\ y.header = << >>
        /\ y.state = x.state /\ y.xid = x.xid /\ y.xdrs = x.xdrs
    <3>1. << >> \in Seq(HalfWords) /\ y = [u EXCEPT !.fragment = "HEADER", !.remaining = 2, !.header = << >>]
      BY <2>1 DEF HeaderNext
    <3>5. u \in Connections
      BY <1>6
    <3>2. y \in Connections
      BY <3>1, <3>5 DEF Connections
    <3>3. /\ y.fragment = "HEADER" /\ y.remaining = 2 /\ y.header = << >>
          /\ y.state = u.state /\ y.xid = u.xid /\ y.xdrs = u.xdrs
      BY <1>6, <3>1 DEF Connections
    <3>. QED
      BY <1>6, <3>2, <3>3
  <2>3. PICK j, k : j = i + 1 /\ k = s + 2
    OBVIOUS
  <2>4. j \in 1 .. f /\ k = Start(cut, j) /\ Before(cut, j) = b /\ k \in Nat
    BY <1>2, <1>10, <2>3
  <2>5. k < z
    <3>1. PICK d : d = Extent(cut, j)
      OBVIOUS
    <3>2. k + 2 + 2 * d <= z /\ d \in Nat
      <4>1. j \in 1 .. Len(cut)
        BY <1>1, <2>4
      <4>2. Start(cut, j) + 2 + 2 * Extent(cut, j) <= Size(ws, cut) /\ Extent(cut, j) \in Nat
        BY <4>1, FragmentPlace
      <4>. QED
        BY <1>1, <2>4, <3>1, <4>2
    <3>3. z \in Nat /\ k \in Nat
      BY <1>2, <2>4
    <3>. QED
      BY <3>2, <3>3
  <2>6. Span(Sent(ws, cut), k, k) = << >>
    <3>1. Sent(ws, cut) \in Seq(HalfWords)
      BY SentType
    <3>. QED
      BY <2>4, <3>1, SpanEmpty
  <2>7. k \in k .. k + 1 /\ 2 = k + 2 - k
    BY <2>4
  <2>8. InMark(y, ws, cut, j, k)
    BY <1>1, <2>2, <2>4, <2>6, <2>7 DEF InMark
  <2>. QED
    BY <1>1, <2>2, <2>3, <2>4, <2>5, <2>8 DEF Read, Reading
<1>. QED
  BY <1>2, <1>8, <1>9, <1>10

\* Reading within a mark.
LEMMA HeaderRead ==
  ASSUME NEW ws \in Seq(RecordWords), NEW cut \in Cuts(Len(ws)), NEW i \in 1 .. Len(cut),
         NEW x \in Connections, NEW k \in Nat, InMark(x, ws, cut, i, k), k < Size(ws, cut),
         NEW n \in 1 .. x.remaining,
         NEW y \in ReadHeader(x, Span(Sent(ws, cut), k, k + n))
  PROVE  Read(y, ws, cut, k + n) /\ y.state = x.state /\ y.xid = x.xid
<1>1. PICK b, s, t, z : b = Before(cut, i) /\ s = Start(cut, i) /\ t = Sent(ws, cut) /\ z = Size(ws, cut)
  OBVIOUS
<1>2. s \in Nat /\ z \in Nat /\ s + 2 <= z /\ t \in Seq(HalfWords) /\ Len(t) = z /\ k < z
  <2>1. t \in Seq(HalfWords) /\ Len(t) = z /\ z \in Nat
    BY <1>1, SentType
  <2>2. Start(cut, i) \in Nat /\ Extent(cut, i) \in Nat
        /\ Start(cut, i) + 2 + 2 * Extent(cut, i) <= Size(ws, cut)
    BY FragmentPlace
  <2>3. PICK e : e = Extent(cut, i)
    OBVIOUS
  <2>4. s \in Nat /\ e \in Nat /\ s + 2 + 2 * e <= z
    BY <1>1, <2>2, <2>3
  <2>5. s + 2 <= z
    BY <2>1, <2>4
  <2>. QED
    BY <1>1, <2>1, <2>4, <2>5
<1>3. /\ k \in s .. s + 1 /\ x.fragment = "HEADER" /\ x.remaining = s + 2 - k
      /\ x.header = Span(t, s, k) /\ x.xdrs = Span(Halves(ws), 0, 2 * b)
  BY <1>1 DEF InMark
<1>4. PICK j : j = k + n
  OBVIOUS
<1>5. n \in 1 .. s + 2 - k
  BY <1>3
<1>6. /\ j \in Nat /\ j = k + n /\ s <= k /\ k < j /\ j <= s + 2 /\ j - k = n /\ k <= Len(t) /\ j <= Len(t)
      /\ s + 2 - j = s + 2 - k - n /\ s + 2 - j \in Nat
  BY <1>2, <1>3, <1>4, <1>5
<1>17. t \in Seq(HalfWords) /\ s \in Nat /\ j \in Nat /\ s <= k /\ k <= j /\ j <= Len(t)
  BY <1>2, <1>6
<1>7. PICK hs : hs = Span(t, k, j)
  OBVIOUS
<1>8. Len(hs) = n
  <2>1. Len(hs) = j - k
    BY <1>7, <1>17, SpanLen
  <2>. QED
    BY <1>6, <2>1
<1>9. Span(t, s, k) \o hs = Span(t, s, j)
  <2>1. Span(t, s, k) \o Span(t, k, j) = Span(t, s, j)
    BY <1>17, SpanJoin
  <2>. QED
    BY <1>7, <2>1
<1>10. Span(t, s, j) \in Seq(HalfWords)
  BY <1>2, <1>6, SpanType
<1>11. PICK u : u = [x EXCEPT !.header = Span(t, s, j), !.remaining = s + 2 - j]
  OBVIOUS
<1>12. /\ u \in Connections /\ u.remaining = s + 2 - j /\ u.header = Span(t, s, j)
       /\ u.state = x.state /\ u.xid = x.xid /\ u.fragment = "HEADER" /\ u.xdrs = x.xdrs
  <2>1. u \in Connections
    BY <1>6, <1>10, <1>11 DEF Connections
  <2>. QED
    BY <1>3, <1>11, <2>1 DEF Connections
<1>13. [x EXCEPT !.header = @ \o hs, !.remaining = @ - Len(hs)] = u
  <2>1. x.header \o hs = Span(t, s, j) /\ x.remaining - Len(hs) = s + 2 - j
    <3>1. x.header \o hs = Span(t, s, j)
      BY <1>3, <1>9
    <3>2. PICK r : r = Len(hs)
      OBVIOUS
    <3>3. (s + 2 - k) - r = s + 2 - j
      <4>1. r = n /\ n \in Nat /\ s \in Nat /\ k \in Nat /\ j = k + n
        BY <1>2, <1>5, <1>6, <1>8, <3>2
      <4>. QED
        BY <4>1
    <3>4. x.remaining = s + 2 - k
      BY <1>3
    <3>5. x.remaining - Len(hs) = s + 2 - j
      BY <3>2, <3>3, <3>4, Zenon
    <3>. QED
      BY <3>1, <3>5
  <2>. QED
    BY <1>11, <2>1
<1>14. y \in IF u.remaining > 0 THEN {u} ELSE {AfterHeader(u, m) : m \in MarksOf(u.header)}
  <2>1. y \in ReadHeader(x, hs)
    BY <1>1, <1>4, <1>7
  <2>. QED
    BY <1>13, <2>1 DEF ReadHeader
<1>15. CASE j < s + 2
  <2>1. u.remaining > 0 /\ j \in s .. s + 1 /\ j < z
    <3>1. s + 2 - j > 0 /\ j \in s .. s + 1 /\ j < z
      BY <1>2, <1>6, <1>15
    <3>. QED
      BY <1>12, <3>1
  <2>2. y = u
    BY <1>14, <2>1
  <2>3. InMark(u, ws, cut, i, j)
    BY <1>1, <1>3, <1>12, <2>1 DEF InMark
  <2>. QED
    BY <1>1, <1>4, <1>12, <2>1, <2>2, <2>3 DEF Read, Reading
<1>16. CASE j = s + 2
  <2>1. ~ u.remaining > 0
    BY <1>2, <1>12, <1>16
  <2>2. MarksOf(u.header) = {Mark(Extent(cut, i), i = Len(cut))}
    BY <1>1, <1>12, <1>16, MarkRead
  <2>3. y = AfterHeader(u, Mark(Extent(cut, i), i = Len(cut)))
    BY <1>14, <2>1, <2>2
  <2>4. u.xdrs = Span(Halves(ws), 0, 2 * Before(cut, i))
    BY <1>1, <1>3, <1>12
  <2>5. Read(y, ws, cut, Start(cut, i) + 2) /\ y.state = u.state /\ y.xid = u.xid
    BY <1>12, <2>3, <2>4, MarkTaken
  <2>. QED
    BY <1>1, <1>4, <1>12, <1>16, <2>5
<1>. QED
  BY <1>2, <1>6, <1>15, <1>16

\* Reading within the words of a fragment.
LEMMA BodyRead ==
  ASSUME NEW ws \in Seq(RecordWords), NEW cut \in Cuts(Len(ws)), NEW i \in 1 .. Len(cut),
         NEW x \in Connections, NEW k \in Nat, InBody(x, ws, cut, i, k),
         NEW n \in 1 .. x.remaining
  PROVE  LET y == ReadBody(x, Span(Sent(ws, cut), k, k + n))
         IN  Read(y, ws, cut, k + n) /\ y.state = x.state /\ y.xid = x.xid
<1>1. PICK b, e, s, t, z, f : /\ b = Before(cut, i) /\ e = Extent(cut, i) /\ s = Start(cut, i)
                              /\ t = Sent(ws, cut) /\ z = Size(ws, cut) /\ f = Len(cut)
  OBVIOUS
<1>2. PICK h : h = Halves(ws)
  OBVIOUS
<1>3. h \in Seq(HalfWords) /\ Len(h) = 2 * Len(ws) /\ Len(ws) \in Nat
  BY <1>2, HalvesOf
<1>4. t \in Seq(HalfWords) /\ Len(t) = z /\ z \in Nat
  BY <1>1, SentType
<1>5. /\ s \in Nat /\ e \in Nat /\ b \in Nat /\ i \in Nat \ {0} /\ s = 2 * (b + i - 1)
      /\ s + 2 + 2 * e <= z /\ b + e <= Len(ws)
      /\ i = f => s + 2 + 2 * e = z /\ b + e = Len(ws)
      /\ i # f => i + 1 \in 1 .. f /\ s + 2 + 2 * e = Start(cut, i + 1) /\ Before(cut, i + 1) = b + e
  BY <1>1, FragmentPlace
<1>6. /\ k \in s + 2 .. s + 1 + 2 * e /\ x.fragment = "BODY" /\ x.remaining = s + 2 + 2 * e - k
      /\ x.last = (i = f) /\ x.xdrs = Span(h, 0, k - 2 * i)
  BY <1>1, <1>2 DEF InBody
<1>7. PICK j, c, d : j = k + n /\ c = k - 2 * i /\ d = j - 2 * i
  OBVIOUS
<1>8. n \in 1 .. s + 2 + 2 * e - k
  BY <1>6
<1>9. /\ j \in Nat /\ k <= j /\ k < j /\ j <= s + 2 + 2 * e /\ j - k = n /\ j <= z
      /\ c \in Nat /\ d \in Nat /\ c <= d /\ d - c = j - k /\ d <= 2 * (b + e)
      /\ (s + 2 + 2 * e - k) - n = s + 2 + 2 * e - j /\ s + 2 + 2 * e - j \in Nat
  BY <1>4, <1>5, <1>6, <1>7, <1>8
<1>10. j \in Nat /\ k <= j /\ j <= Len(t) /\ c \in Nat /\ d \in Nat /\ c <= d /\ d <= Len(h) /\ 0 <= c
  BY <1>3, <1>4, <1>5, <1>9
<1>11. PICK hs : hs = Span(t, k, j)
  OBVIOUS
<1>12. hs \in Seq(HalfWords)
  BY <1>4, <1>10, <1>11, SpanType
<1>13. Len(hs) = j - k
  BY <1>4, <1>10, <1>11, SpanLen
<1>14. \A a \in 1 .. j - k : hs[a] = t[k + a]
  BY <1>4, <1>10, <1>11, SpanElements
<1>15. ASSUME NEW a \in 1 .. j - k PROVE hs[a] = h[c + a]
  <2>1. PICK m : m = k - (s + 2) + a
    OBVIOUS
  <2>2. m \in 1 .. 2 * e /\ s + 2 + m = k + a /\ 2 * b + m = c + a
    BY <1>5, <1>6, <1>7, <1>9, <2>1
  <2>3. t[s + 2 + m] = h[2 * b + m]
    BY <1>1, <1>2, <2>2, WordsAt
  <2>. QED
    BY <1>14, <2>2, <2>3
<1>16. hs = Span(h, c, d)
  <2>1. Len(hs) = d - c /\ \A a \in 1 .. Len(hs) : hs[a] = h[c + a]
    BY <1>9, <1>13, <1>15
  <2>. QED
    BY <1>3, <1>10, <1>12, <2>1, IsSpan
<1>17. Span(h, 0, c) \o hs = Span(h, 0, d)
  <2>1. Span(h, 0, c) \o Span(h, c, d) = Span(h, 0, d)
    BY <1>3, <1>10, SpanJoin
  <2>. QED
    BY <1>16, <2>1
<1>18. Span(h, 0, d) \in Seq(HalfWords)
  <2>1. 0 <= d
    BY <1>10
  <2>. QED
    BY <1>3, <1>10, <2>1, SpanType
<1>19. PICK r, o : r = s + 2 + 2 * e - j /\ o = Span(h, 0, d)
  OBVIOUS
<1>20. r \in Nat /\ o \in Seq(HalfWords)
  BY <1>9, <1>18, <1>19
<1>21. PICK u : u = [x EXCEPT !.xdrs = o, !.remaining = r]
  OBVIOUS
<1>22. /\ u \in Connections /\ u.remaining = r /\ u.xdrs = o
       /\ u.state = x.state /\ u.xid = x.xid /\ u.fragment = "BODY"
  <2>1. u \in Connections
    BY <1>20, <1>21 DEF Connections
  <2>2. x.fragment = "BODY"
    BY <1>6
  <2>. QED
    BY <1>21, <2>1, <2>2 DEF Connections
<1>23. u.last = x.last
  BY <1>21 DEF Connections
<1>24. [x EXCEPT !.xdrs = @ \o hs, !.remaining = @ - Len(hs)] = u
  <2>1. x.xdrs \o hs = o
    BY <1>6, <1>7, <1>17, <1>19
  <2>2. x.remaining - Len(hs) = r
    <3>1. Len(hs) = n
      BY <1>9, <1>13
    <3>2. (s + 2 + 2 * e - k) - n = r
      BY <1>9, <1>19
    <3>. QED
      BY <1>6, <3>1, <3>2
  <2>. QED
    BY <1>21, <2>1, <2>2
<1>25. PICK y : y = ReadBody(x, Span(Sent(ws, cut), k, k + n))
  OBVIOUS
<1>26. y = IF u.remaining = 0 /\ ~ u.last THEN HeaderNext(u) ELSE u
  <2>1. y = ReadBody(x, hs)
    BY <1>1, <1>7, <1>11, <1>25
  <2>. QED
    BY <1>24, <2>1 DEF ReadBody
<1>. SUFFICES Read(y, ws, cut, j) /\ y.state = x.state /\ y.xid = x.xid
  BY <1>7, <1>25
<1>27. CASE j < s + 2 + 2 * e
  <2>1. y = u
    <3>1. r # 0
      BY <1>5, <1>9, <1>19, <1>27
    <3>. QED
      BY <1>22, <1>26, <3>1
  <2>2. j \in s + 2 .. s + 1 + 2 * e /\ j < z
    BY <1>4, <1>5, <1>6, <1>9, <1>27
  <2>3. u.last = (i = f)
    BY <1>6, <1>23
  <2>4. InBody(u, ws, cut, i, j)
    BY <1>1, <1>2, <1>7, <1>19, <1>22, <2>2, <2>3 DEF InBody
  <2>. QED
    BY <1>1, <1>22, <2>1, <2>2, <2>4 DEF Read, Reading
<1>28. CASE j = s + 2 + 2 * e
  <2>1. r = 0 /\ d = 2 * (b + e)
    BY <1>5, <1>7, <1>9, <1>19, <1>28
  <2>2. CASE i = f
    <3>1. x.last = TRUE
      BY <1>6, <2>2
    <3>2. y = u /\ u.last = TRUE
      BY <1>23, <1>26, <3>1
    <3>3. j = z /\ d = Len(h)
      <4>1. b + e = Len(ws) /\ s + 2 + 2 * e = z
        BY <1>5, <2>2
      <4>. QED
        BY <1>3, <1>28, <2>1, <4>1
    <3>4. o = h
      BY <1>3, <1>19, <3>3, SpanAll
    <3>5. Complete(u, ws)
      BY <1>2, <1>22, <2>1, <3>2, <3>4 DEF Complete
    <3>. QED
      BY <1>1, <1>22, <3>2, <3>3, <3>5 DEF Read
  <2>3. CASE i # f
    <3>1. ~ x.last
      BY <1>6, <2>3
    <3>2. y = HeaderNext(u)
      BY <1>22, <1>23, <1>26, <2>1, <3>1
    <3>3. u \in Connections /\ << >> \in Seq(HalfWords)
      BY <1>22
    <3>4. y = [u EXCEPT !.fragment = "HEADER", !.remaining = 2, !.header = << >>]
      BY <3>2 DEF HeaderNext
    <3>5. y \in Connections
      BY <3>3, <3>4 DEF Connections
    <3>6. /\ y.fragment = "HEADER" /\ y.remaining = 2 /\ y.header = << >>
          /\ y.state = u.state /\ y.xid = u.xid /\ y.xdrs = u.xdrs
      BY <3>3, <3>4 DEF Connections
    <3>7. PICK g : g = i + 1
      OBVIOUS
    <3>8. g \in 1 .. f /\ j = Start(cut, g) /\ Before(cut, g) = b + e
      BY <1>5, <1>28, <2>3, <3>7
    <3>9. j < z
      <4>1. PICK q : q = Extent(cut, g)
        OBVIOUS
      <4>2. g \in 1 .. Len(cut)
        BY <1>1, <3>8
      <4>3. Start(cut, g) + 2 + 2 * Extent(cut, g) <= Size(ws, cut) /\ Extent(cut, g) \in Nat
        BY <4>2, FragmentPlace
      <4>4. j + 2 + 2 * q <= z /\ q \in Nat /\ j \in Nat /\ z \in Nat
        BY <1>1, <1>4, <1>9, <3>8, <4>1, <4>3
      <4>. QED
        BY <4>4
    <3>10. Span(t, j, j) = << >>
      BY <1>4, <1>9, SpanEmpty
    <3>11. j \in j .. j + 1 /\ 2 = j + 2 - j
      BY <1>9
    <3>12. InMark(y, ws, cut, g, j)
      BY <1>1, <1>2, <1>19, <1>22, <2>1, <3>6, <3>8, <3>10, <3>11 DEF InMark
    <3>. QED
      BY <1>1, <1>22, <3>5, <3>6, <3>8, <3>9, <3>12 DEF Read, Reading
  <2>. QED
    BY <2>2, <2>3
<1>. QED
  BY <1>5, <1>9, <1>27, <1>28

\* Not more than m halves of a fragment are taken, and none outside of one.
Portion(x, m) == IF x.fragment = "BODY" THEN Least(x.remaining, m) ELSE 0

\* What is left to read of a connection within a record.
LEMMA ReadingParts ==
  ASSUME NEW ws \in Seq(RecordWords), NEW cut \in Cuts(Len(ws)), NEW x \in Connections,
         NEW k \in Nat, NEW i \in 1 .. Len(cut),
         InMark(x, ws, cut, i, k) \/ InBody(x, ws, cut, i, k)
  PROVE  /\ x.remaining \in Nat \ {0} /\ k + x.remaining <= Size(ws, cut)
         /\ x.fragment = IF InMark(x, ws, cut, i, k) THEN "HEADER" ELSE "BODY"
<1>1. PICK e, s, z : e = Extent(cut, i) /\ s = Start(cut, i) /\ z = Size(ws, cut)
  OBVIOUS
<1>2. s \in Nat /\ e \in Nat /\ s + 2 + 2 * e <= z /\ z \in Nat
  <2>1. z \in Nat
    BY <1>1, SentType
  <2>. QED
    BY <1>1, <2>1, FragmentPlace
<1>3. CASE InMark(x, ws, cut, i, k)
  <2>1. k \in s .. s + 1 /\ x.fragment = "HEADER" /\ x.remaining = s + 2 - k
    BY <1>1, <1>3 DEF InMark
  <2>2. PICK r : r = s + 2 - k
    OBVIOUS
  <2>3. r \in Nat \ {0} /\ k + r <= z
    BY <1>2, <2>1, <2>2
  <2>. QED
    BY <1>1, <1>3, <2>1, <2>2, <2>3
<1>4. CASE InBody(x, ws, cut, i, k)
  <2>1. k \in s + 2 .. s + 1 + 2 * e /\ x.fragment = "BODY" /\ x.remaining = s + 2 + 2 * e - k
    BY <1>1, <1>4 DEF InBody
  <2>2. PICK r : r = s + 2 + 2 * e - k
    OBVIOUS
  <2>3. r \in Nat \ {0} /\ k + r <= z
    BY <1>2, <2>1, <2>2
  <2>4. ~ InMark(x, ws, cut, i, k)
    BY <2>1 DEF InMark
  <2>. QED
    BY <1>1, <2>1, <2>2, <2>3, <2>4
<1>. QED
  BY <1>3, <1>4

\* The lesser one of two numbers.
LEMMA LeastOf ==
  ASSUME NEW a \in Nat, NEW b \in Nat
  PROVE  Least(a, b) \in Nat /\ Least(a, b) <= a /\ Least(a, b) <= b /\ (Least(a, b) = a \/ Least(a, b) = b)
BY DEF Least

\* receive() after the mark, if any: k halves have been read, n have arrived.
LEMMA BodyPart ==
  ASSUME NEW ws \in Seq(RecordWords), NEW cut \in Cuts(Len(ws)), NEW k \in Nat, NEW n \in Nat,
         NEW y, Read(y, ws, cut, k)
  PROVE  LET m == Portion(y, n)
             body == IF m = 0 THEN y ELSE ReadBody(y, Span(Sent(ws, cut), k, k + m))
         IN  /\ m \in 0 .. n /\ k + m <= Size(ws, cut)
             /\ Read(body, ws, cut, k + m) /\ body.state = y.state /\ body.xid = y.xid
             /\ y.fragment = "BODY" /\ k < Size(ws, cut) /\ n # 0 => m # 0
<1>1. PICK m, z : m = Portion(y, n) /\ z = Size(ws, cut)
  OBVIOUS
<1>2. z \in Nat
  BY <1>1, SentType
<1>3. y \in Connections /\ y.remaining \in Nat
  <2>1. y \in Connections
    BY DEF Read
  <2>. QED
    BY <2>1 DEF Connections
<1>4. m \in Nat /\ m <= n /\ (y.fragment = "BODY" => m <= y.remaining /\ (m = y.remaining \/ m = n))
      /\ (y.fragment # "BODY" => m = 0)
  <2>1. CASE y.fragment = "BODY"
    <3>1. m = Least(y.remaining, n)
      BY <1>1, <2>1 DEF Portion
    <3>. QED
      BY <1>3, <2>1, <3>1, LeastOf
  <2>2. CASE y.fragment # "BODY"
    BY <1>1, <2>2 DEF Portion
  <2>. QED
    BY <2>1, <2>2
<1>5. PICK body : body = IF m = 0 THEN y ELSE ReadBody(y, Span(Sent(ws, cut), k, k + m))
  OBVIOUS
<1>. SUFFICES /\ m \in 0 .. n /\ k + m <= z
              /\ Read(body, ws, cut, k + m) /\ body.state = y.state /\ body.xid = y.xid
              /\ y.fragment = "BODY" /\ k < z /\ n # 0 => m # 0
  BY <1>1, <1>5
<1>6. CASE k < z /\ Reading(y, ws, cut, k)
  <2>1. PICK i \in 1 .. Len(cut) : InMark(y, ws, cut, i, k) \/ InBody(y, ws, cut, i, k)
    BY <1>6 DEF Reading
  <2>2. /\ y.remaining \in Nat \ {0} /\ k + y.remaining <= z
        /\ y.fragment = IF InMark(y, ws, cut, i, k) THEN "HEADER" ELSE "BODY"
    BY <1>1, <1>3, <2>1, ReadingParts
  <2>3. PICK r : r = y.remaining
    OBVIOUS
  <2>4. /\ m \in 0 .. n /\ k + m <= z
        /\ y.fragment = "BODY" /\ k < z /\ n # 0 => m # 0
    <3>1. CASE y.fragment = "BODY"
      <4>1. r \in Nat \ {0} /\ k + r <= z /\ m <= r /\ (m = r \/ m = n) /\ m \in Nat /\ m <= n
        BY <1>4, <2>2, <2>3, <3>1
      <4>. QED
        BY <1>2, <4>1
    <3>2. CASE y.fragment # "BODY"
      BY <1>2, <1>4, <1>6, <3>2
    <3>. QED
      BY <3>1, <3>2
  <2>5. CASE m = 0
    <3>1. body = y /\ k + m = k
      BY <1>5, <2>5
    <3>. QED
      BY <2>4, <3>1
  <2>6. CASE m # 0
    <3>1. y.fragment = "BODY" /\ m \in 1 .. y.remaining
      BY <1>3, <1>4, <2>6
    <3>2. InBody(y, ws, cut, i, k)
      BY <2>1, <2>2, <3>1
    <3>3. body = ReadBody(y, Span(Sent(ws, cut), k, k + m))
      BY <1>5, <2>6
    <3>4. Read(body, ws, cut, k + m) /\ body.state = y.state /\ body.xid = y.xid
      BY <1>3, <3>1, <3>2, <3>3, BodyRead
    <3>. QED
      BY <2>4, <3>4
  <2>. QED
    BY <2>5, <2>6
<1>7. CASE k = z /\ Complete(y, ws)
  <2>1. y.remaining = 0
    BY <1>7 DEF Complete
  <2>2. m = 0
    BY <1>3, <1>4, <2>1
  <2>3. body = y /\ k + m = k
    BY <1>5, <2>2
  <2>4. Read(y, ws, cut, k)
    OBVIOUS
  <2>. QED
    BY <1>2, <1>7, <2>2, <2>3, <2>4
<1>. QED
  BY <1>1, <1>6, <1>7 DEF Read

\* What receive() does with the halves w that have arrived: p of the next n are
\* taken for the mark, and then m for the words.
Taken(x, w, n, p, y, m, body) ==
    /\ p = IF x.fragment = "HEADER" THEN Least(x.remaining, n) ELSE 0
    /\ y \in IF p = 0 THEN {x} ELSE ReadHeader(x, SubSeq(w, 1, p))
    /\ m = Portion(y, n - p)
    /\ body = IF m = 0 THEN y ELSE ReadBody(y, SubSeq(w, p + 1, p + m))

\* receive() takes the next n halves, or those up to the end of a fragment.
LEMMA RecordRead ==
  ASSUME NEW ws \in Seq(RecordWords), NEW cut \in Cuts(Len(ws)), NEW k \in Nat, k < Size(ws, cut),
         NEW j \in Nat, k < j, j <= Size(ws, cut),
         NEW x \in Connections, Reading(x, ws, cut, k), NEW n \in 1 .. j - k,
         NEW p, NEW y, NEW m, NEW body, Taken(x, Span(Sent(ws, cut), k, j), n, p, y, m, body)
  PROVE  /\ p + m \in 1 .. n
         /\ Read(body, ws, cut, k + (p + m)) /\ body.state = x.state /\ body.xid = x.xid
<1>0. PICK w : w = Span(Sent(ws, cut), k, j)
  OBVIOUS
<1>12. p = IF x.fragment = "HEADER" THEN Least(x.remaining, n) ELSE 0
  BY DEF Taken
<1>13. y \in IF p = 0 THEN {x} ELSE ReadHeader(x, SubSeq(w, 1, p))
  BY <1>0 DEF Taken
<1>14. m = Portion(y, n - p)
  BY DEF Taken
<1>15. body = IF m = 0 THEN y ELSE ReadBody(y, SubSeq(w, p + 1, p + m))
  BY <1>0 DEF Taken
<1>16. n \in Nat \ {0} /\ n <= j - k /\ k + n <= j
  OBVIOUS
<1>1. PICK t, z : t = Sent(ws, cut) /\ z = Size(ws, cut)
  OBVIOUS
<1>2. t \in Seq(HalfWords) /\ Len(t) = z /\ z \in Nat
  BY <1>1, SentType
<1>19. \A a, b \in Nat : a <= b /\ b <= j - k =>
          Span(Span(t, k, j), a, b) = Span(t, k + a, k + b)
  <2>1. t \in Seq(HalfWords)
    BY <1>2
  <2>2. k <= j /\ j <= Len(t)
    BY <1>1, <1>2
  <2>. QED
    BY <2>1, <2>2, Resumed
<1>3. PICK i \in 1 .. Len(cut) : InMark(x, ws, cut, i, k) \/ InBody(x, ws, cut, i, k)
  BY DEF Reading
<1>4. /\ x.remaining \in Nat \ {0} /\ k + x.remaining <= z
      /\ x.fragment = IF InMark(x, ws, cut, i, k) THEN "HEADER" ELSE "BODY"
  BY <1>1, <1>3, ReadingParts
<1>5. /\ p \in 0 .. n /\ Read(y, ws, cut, k + p) /\ y.state = x.state /\ y.xid = x.xid
      /\ p # 0 \/ (p = 0 /\ y = x /\ x.fragment = "BODY")
  <2>1. CASE InMark(x, ws, cut, i, k)
    <3>1. p = Least(x.remaining, n)
      BY <1>4, <1>12, <2>1
    <3>2. p \in 1 .. n /\ p \in 1 .. x.remaining
      <4>1. PICK r : r = x.remaining
        OBVIOUS
      <4>2. r \in Nat \ {0} /\ n \in Nat \ {0} /\ p = Least(r, n)
        BY <1>4, <1>16, <3>1, <4>1
      <4>3. p \in Nat /\ p <= r /\ p <= n /\ (p = r \/ p = n)
        BY <4>2, LeastOf
      <4>4. p \in 1 .. n /\ p \in 1 .. r
        BY <4>2, <4>3
      <4>. QED
        BY <4>1, <4>4
    <3>3. y \in ReadHeader(x, SubSeq(w, 1, p))
      BY <1>13, <3>2
    <3>4. SubSeq(w, 1, p) = Span(t, k, k + p)
      <4>1. 0 \in Nat /\ 0 <= p /\ p <= j - k /\ p \in Nat /\ k <= j /\ j <= Len(t)
        BY <1>1, <1>2, <1>16, <3>2
      <4>2. Span(Span(t, k, j), 0, p) = Span(t, k + 0, k + p)
        BY <1>19, <4>1
      <4>3. 0 + 1 = 1 /\ k + 0 = k
        OBVIOUS
      <4>4. Span(w, 0, p) = SubSeq(w, 1, p)
        BY <4>3 DEF Span
      <4>. QED
        BY <1>0, <1>1, <4>2, <4>3, <4>4
    <3>5. y \in ReadHeader(x, Span(Sent(ws, cut), k, k + p))
      BY <1>1, <3>3, <3>4
    <3>6. p \in 1 .. x.remaining
      BY <3>2
    <3>7. Read(y, ws, cut, k + p) /\ y.state = x.state /\ y.xid = x.xid
      BY <2>1, <3>5, <3>6, HeaderRead
    <3>. QED
      BY <3>2, <3>7
  <2>2. CASE ~ InMark(x, ws, cut, i, k)
    <3>1. x.fragment = "BODY" /\ p = 0 /\ y = x /\ k + p = k
      BY <1>4, <1>12, <1>13, <2>2
    <3>2. Read(x, ws, cut, k)
      BY DEF Read
    <3>. QED
      BY <1>16, <3>1, <3>2
  <2>. QED
    BY <2>1, <2>2
<1>6. PICK q, l : q = k + p /\ l = n - p
  OBVIOUS
<1>7. q \in Nat /\ l \in Nat /\ q + l <= j
  BY <1>5, <1>6, <1>16
<1>8. m = Portion(y, l)
  BY <1>6, <1>14
<1>17. Read(y, ws, cut, q)
  BY <1>5, <1>6
<1>18. LET b == IF m = 0 THEN y ELSE ReadBody(y, Span(Sent(ws, cut), q, q + m))
       IN  /\ m \in 0 .. l /\ q + m <= Size(ws, cut)
           /\ Read(b, ws, cut, q + m) /\ b.state = y.state /\ b.xid = y.xid
           /\ y.fragment = "BODY" /\ q < Size(ws, cut) /\ l # 0 => m # 0
  <2>1. q \in Nat /\ l \in Nat
    BY <1>7
  <2>2. LET o == Portion(y, l)
            b == IF o = 0 THEN y ELSE ReadBody(y, Span(Sent(ws, cut), q, q + o))
        IN  /\ o \in 0 .. l /\ q + o <= Size(ws, cut)
            /\ Read(b, ws, cut, q + o) /\ b.state = y.state /\ b.xid = y.xid
            /\ y.fragment = "BODY" /\ q < Size(ws, cut) /\ l # 0 => o # 0
    BY <1>17, <2>1, BodyPart, Zenon
  <2>. QED
    BY <1>8, <2>2
<1>9. /\ m \in 0 .. l /\ q + m <= z
      /\ y.fragment = "BODY" /\ q < z /\ l # 0 => m # 0
  BY <1>1, <1>18
<1>10. /\ Read(body, ws, cut, q + m) /\ body.state = y.state /\ body.xid = y.xid
  <2>1. CASE m = 0
    <3>1. body = y
      BY <1>15, <2>1
    <3>. QED
      BY <1>18, <2>1, <3>1
  <2>2. CASE m # 0
    <3>1. SubSeq(w, p + 1, p + m) = Span(t, q, q + m)
      <4>1. p \in Nat /\ p + m \in Nat /\ p <= p + m /\ p + m <= j - k /\ k <= j /\ j <= Len(t)
        <5>1. p \in Nat /\ m \in Nat /\ p + m <= n
          BY <1>5, <1>6, <1>9, <1>16
        <5>2. j <= Len(t)
          BY <1>1, <1>2
        <5>. QED
          BY <1>16, <5>1, <5>2
      <4>2. PICK g : g = p + m
        OBVIOUS
      <4>6. g \in Nat /\ p \in Nat /\ p <= g /\ g <= j - k /\ k <= j /\ j <= Len(t)
        BY <4>1, <4>2
      <4>3. Span(Span(t, k, j), p, g) = Span(t, k + p, k + g)
        BY <1>19, <4>6
      <4>4. k + g = q + m
        BY <1>5, <1>6, <1>9, <4>2
      <4>5. Span(w, p, g) = SubSeq(w, p + 1, p + m)
        BY <4>2 DEF Span
      <4>. QED
        BY <1>0, <1>1, <1>6, <4>3, <4>4, <4>5
    <3>2. body = ReadBody(y, Span(t, q, q + m))
      BY <1>15, <2>2, <3>1
    <3>3. LET b == IF m = 0 THEN y ELSE ReadBody(y, Span(Sent(ws, cut), q, q + m))
          IN  Read(b, ws, cut, q + m) /\ b.state = y.state /\ b.xid = y.xid
      BY <1>18
    <3>. QED
      BY <1>1, <2>2, <3>2, <3>3
  <2>. QED
    BY <2>1, <2>2
<1>11. p + m \in 1 .. n /\ q + m = k + (p + m)
  <2>1. p # 0 \/ m # 0
    <3>1. CASE p = 0
      <4>1. y.fragment = "BODY" /\ q = k /\ l = n
        BY <1>5, <1>6, <1>16, <3>1
      <4>2. l # 0 /\ q < z
        BY <1>1, <1>16, <4>1
      <4>. QED
        BY <1>9, <4>1, <4>2
    <3>. QED
      BY <3>1
  <2>2. p \in 0 .. n /\ m \in 0 .. n - p /\ q = k + p
    BY <1>5, <1>6, <1>9
  <2>. QED
    BY <1>16, <2>1, <2>2
<1>. QED
  BY <1>5, <1>10, <1>11

-----------------------------------------------------------------------------
\* The two connections agree on the record that is under way, if any: only one is,
\* since a client waits for the reply to a request before it sends another one.  A
\* record is its words ws and how they are cut into fragments; k of the halves have
\* been received, and j were sent.

\* A connection that is between two records.
Waits(x) == x.fragment = "HEADER" /\ x.remaining = 2 /\ x.header = << >> /\ x.xdrs = << >>

\* The connection x sends the record and has sent j halves of it.
Sends(x, ws, cut, j) ==
    /\ x.state = "SENDING" /\ x.xdrs = Sent(ws, cut)
    /\ j < Size(ws, cut) /\ x.remaining = Size(ws, cut) - j

Receives(x, ws, cut, k, waiting) ==
    /\ k < Size(ws, cut) /\ Reading(x, ws, cut, k)
    /\ x.state = IF k = 0 THEN waiting ELSE "RECEIVING"

Ended(x) == x.state \in {"READY_FAILED", "CLOSED"}

\* No request is under way.
Quiet(c, v) ==
    /\ c.state \in {"CONNECTED", "READY"} \/ Ended(c)
    /\ v.state = "IDLE" /\ Waits(v) /\ wire["SERVER"] = << >>
    /\ ~ Ended(c) => wire["CLIENT"] = << >>
    /\ c.state = "READY" => WordsOf(c.xdrs) = Reply(c.xid)
    /\ arrived = requested

\* A request is sent and received.
Calling(c, v, ws, cut, k, j) ==
    /\ Receives(v, ws, cut, k, "IDLE") /\ wire["SERVER"] = Span(Sent(ws, cut), k, j)
    /\ wire["CLIENT"] = << >>
    /\ \/ Sends(c, ws, cut, j)
       \/ c.state = "WAITING" /\ Waits(c) /\ j = Size(ws, cut)
       \/ Ended(c)
    /\ requested = IF ws = Garbage(c.xid) THEN arrived ELSE Append(arrived, ws)

\* The request has arrived.
Served(c, v, ws) ==
    /\ v.state = "READY" /\ v.xdrs = Halves(ws)
    /\ wire["SERVER"] = << >> /\ wire["CLIENT"] = << >>
    /\ (c.state = "WAITING" /\ Waits(c)) \/ Ended(c)
    /\ arrived = requested

\* A reply is sent and received, unless the client has given up.
Answering(c, v, ws, cut, k, j) ==
    /\ wire["SERVER"] = << >>
    /\ \/ Sends(v, ws, cut, j)
       \/ v.state = "IDLE" /\ Waits(v) /\ j = Size(ws, cut)
    /\ \/ Receives(c, ws, cut, k, "WAITING") /\ wire["CLIENT"] = Span(Sent(ws, cut), k, j)
       \/ Ended(c)
    /\ arrived = requested

\* The server has noticed that the client has gone.
Over(c, v) == c.state = "CLOSED" /\ v.state = "DEAD" /\ IsPrefix(arrived, requested)

Requests(n) == {Request(n, 0), Request(n, 1)}
\* The reply to a request that cannot be decoded has lost its first word.
Replies(n) == {Reply(n), << Word("REPLY", n) >>}

\* What is under way.
UnderWay(c, v) ==
    \/ Quiet(c, v)
    \/ \E ws \in Requests(c.xid) \cup {Garbage(c.xid)} : \E cut \in Cuts(Len(ws)) :
         \E j \in 0 .. Size(ws, cut) : \E k \in 0 .. j : Calling(c, v, ws, cut, k, j)
    \/ \E ws \in Requests(c.xid) : Served(c, v, ws)
    \/ \E ws \in Replies(c.xid) :
         \E j \in 0 .. Size(ws, <<Len(ws)>>) : \E k \in 0 .. j :
            Answering(c, v, ws, <<Len(ws)>>, k, j)
    \/ Over(c, v)

RecordsTypeOK ==
    /\ con \in [Ends -> Connections] /\ wire \in [Ends -> Seq(HalfWords)]
    /\ requested \in Seq(Seq(RecordWords)) /\ arrived \in Seq(Seq(RecordWords))

RecordsInv == RecordsTypeOK /\ UnderWay(con["CLIENT"], con["SERVER"])

\* The messages: their words and lengths.
LEMMA MessageWords ==
  ASSUME NEW n \in Nat
  PROVE  /\ Request(n, 0) \in Seq(RecordWords) /\ Len(Request(n, 0)) = 2
         /\ Request(n, 1) \in Seq(RecordWords) /\ Len(Request(n, 1)) = 3
         /\ Garbage(n) \in Seq(RecordWords) /\ Len(Garbage(n)) = 2
         /\ Reply(n) \in Seq(RecordWords) /\ Len(Reply(n)) = 3
         /\ \A m \in {Request(n, 0), Request(n, 1), Garbage(n), Reply(n)} : m[1] = Word("xid", n)
         /\ Request(n, 0)[2] = Word("CALL", n) /\ Request(n, 1)[2] = Word("CALL", n)
         /\ Garbage(n)[2] = Word("junk", n) /\ Reply(n)[2] = Word("REPLY", n)
<1>1. /\ Word("xid", n) \in RecordWords /\ Word("CALL", n) \in RecordWords /\ Word("arg", n) \in RecordWords
      /\ Word("junk", n) \in RecordWords /\ Word("REPLY", n) \in RecordWords
      /\ Word("result", n) \in RecordWords
  BY DEF Word, RecordWords
<1>2. PICK x, y, z, q, r, u : /\ x = Word("xid", n) /\ y = Word("CALL", n) /\ z = Word("arg", n)
                              /\ q = Word("junk", n) /\ r = Word("REPLY", n) /\ u = Word("result", n)
  OBVIOUS
<1>3. /\ x \in RecordWords /\ y \in RecordWords /\ z \in RecordWords /\ q \in RecordWords
      /\ r \in RecordWords /\ u \in RecordWords
  BY <1>1, <1>2
<1>4. PICK s : s = <<x, y>>
  OBVIOUS
<1>5. s \in Seq(RecordWords) /\ Len(s) = 2 /\ s[1] = x /\ s[2] = y
  BY <1>3, <1>4
<1>6. ASSUME NEW a \in {0, 1}
      PROVE  /\ Request(n, a) \in Seq(RecordWords) /\ Len(Request(n, a)) = 2 + a
             /\ Request(n, a)[1] = x /\ Request(n, a)[2] = y
  <2>1. PICK t : t = [i \in 1 .. a |-> z]
    OBVIOUS
  <2>2. t \in Seq(RecordWords) /\ Len(t) = a
    <3>1. t \in [1 .. a -> RecordWords] /\ a \in Nat
      BY <1>3, <2>1
    <3>. QED
      BY <3>1
  <2>3. Request(n, a) = s \o t
    BY <1>2, <1>4, <2>1 DEF Request
  <2>4. /\ s \o t \in Seq(RecordWords) /\ Len(s \o t) = Len(s) + Len(t)
        /\ \A i \in 1 .. Len(s) + Len(t) : (s \o t)[i] = IF i <= Len(s) THEN s[i] ELSE t[i - Len(s)]
    BY <1>5, <2>2, ConcatProperties
  <2>5. Len(s \o t) = 2 + a /\ (s \o t)[1] = s[1] /\ (s \o t)[2] = s[2]
    BY <1>5, <2>2, <2>4
  <2>. QED
    BY <1>5, <2>3, <2>4, <2>5
<1>7. PICK g, p : g = <<x, q>> /\ p = <<x, r, u>>
  OBVIOUS
<1>8. g \in Seq(RecordWords) /\ Len(g) = 2 /\ g[1] = x /\ g[2] = q
  BY <1>3, <1>7
<1>9. p \in Seq(RecordWords) /\ Len(p) = 3 /\ p[1] = x /\ p[2] = r
  BY <1>3, <1>7
<1>10. Garbage(n) = g /\ Reply(n) = p
  BY <1>2, <1>7 DEF Garbage, Reply
<1>11. /\ Request(n, 0) \in Seq(RecordWords) /\ Len(Request(n, 0)) = 2
       /\ Request(n, 0)[1] = x /\ Request(n, 0)[2] = y
  <2>1. Request(n, 0) \in Seq(RecordWords) /\ Len(Request(n, 0)) = 2 + 0
        /\ Request(n, 0)[1] = x /\ Request(n, 0)[2] = y
    BY <1>6
  <2>. QED
    BY <2>1
<1>12. /\ Request(n, 1) \in Seq(RecordWords) /\ Len(Request(n, 1)) = 3
       /\ Request(n, 1)[1] = x /\ Request(n, 1)[2] = y
  <2>1. Request(n, 1) \in Seq(RecordWords) /\ Len(Request(n, 1)) = 2 + 1
        /\ Request(n, 1)[1] = x /\ Request(n, 1)[2] = y
    BY <1>6
  <2>. QED
    BY <2>1
<1>. QED
  BY <1>2, <1>8, <1>9, <1>10, <1>11, <1>12

\* A reply that has lost its first word.
LEMMA LostWord ==
  ASSUME NEW n \in Nat
  PROVE  << Word("REPLY", n) >> \in Seq(RecordWords) /\ Len(<< Word("REPLY", n) >>) = 1
<1>1. Word("REPLY", n) \in RecordWords
  BY DEF Word, RecordWords
<1>. QED
  BY <1>1

\* The library sends a record in one fragment.
LEMMA OneFragment ==
  ASSUME NEW ws \in Seq(RecordWords)
  PROVE  /\ <<Len(ws)>> \in Cuts(Len(ws)) /\ Len(<<Len(ws)>>) = 1
         /\ Fragmented(ws, <<Len(ws)>>) = <<Mark(Len(ws), TRUE)>> \o ws
<1>1. PICK n, cut : n = Len(ws) /\ cut = <<n>>
  OBVIOUS
<1>2. n \in Nat
  BY <1>1, LenProperties
<1>3. cut \in [1 .. 1 -> 0 .. n] /\ Len(cut) = 1 /\ cut[1] = n
  BY <1>1, <1>2
<1>4. cut \in Cuts(n)
  <2>1. 1 \in 1 .. MaxFragments
    BY RecordsAssumption
  <2>2. cut \in UNION {[1 .. f -> 0 .. n] : f \in 1 .. MaxFragments}
    BY <1>3, <2>1
  <2>3. \A i, k \in 1 .. Len(cut) : i < k => cut[i] <= cut[k]
    BY <1>3
  <2>. QED
    BY <1>3, <2>2, <2>3 DEF Cuts
<1>5. PICK m, s, t : m = Mark(n, TRUE) /\ s = <<m>> \o ws /\ t = Fragmented(ws, cut)
  OBVIOUS
<1>6. m \in RecordWords
  BY <1>2, <1>5 DEF Mark, RecordWords
<1>7. /\ s \in Seq(RecordWords) /\ Len(s) = n + 1
      /\ \A p \in 1 .. n + 1 : s[p] = IF p = 1 THEN m ELSE ws[p - 1]
  <2>1. <<m>> \in Seq(RecordWords) /\ Len(<<m>>) = 1 /\ <<m>>[1] = m
    BY <1>6
  <2>2. PICK u : u = <<m>>
    OBVIOUS
  <2>3. /\ u \o ws \in Seq(RecordWords) /\ Len(u \o ws) = Len(u) + Len(ws)
        /\ \A p \in 1 .. Len(u) + Len(ws) : (u \o ws)[p] = IF p <= Len(u) THEN u[p] ELSE ws[p - Len(u)]
    BY <2>1, <2>2, ConcatProperties
  <2>4. ASSUME NEW p \in 1 .. n + 1 PROVE (u \o ws)[p] = IF p = 1 THEN m ELSE ws[p - 1]
    BY <1>1, <1>2, <2>1, <2>2, <2>3
  <2>5. Len(u \o ws) = n + 1
    BY <1>1, <1>2, <2>1, <2>2, <2>3
  <2>. QED
    BY <1>5, <2>2, <2>3, <2>4, <2>5
<1>8. t \in Seq(RecordWords) /\ Len(t) = n + 1
  BY <1>1, <1>2, <1>3, <1>4, <1>5, FragmentedType
<1>9. ASSUME NEW p \in 1 .. n + 1 PROVE t[p] = s[p]
  <2>1. Before(cut, 1) = 0
    BY DEF Before
  <2>2. 1 \in 1 .. Len(cut) /\ p \in Before(cut, 1) + 1 .. cut[1] + 1
    BY <1>2, <1>3, <2>1
  <2>3. t[p] = IF p = Before(cut, 1) + 1 THEN Mark(Extent(cut, 1), 1 = Len(cut)) ELSE ws[p - 1]
    BY <1>1, <1>4, <1>5, <2>2, FragmentAt
  <2>4. Extent(cut, 1) = n /\ Before(cut, 1) + 1 = 1
    BY <1>2, <1>3, <2>1 DEF Extent
  <2>5. (1 = Len(cut)) = TRUE
    BY <1>3
  <2>6. t[p] = IF p = 1 THEN m ELSE ws[p - 1]
    BY <1>5, <2>3, <2>4, <2>5
  <2>. QED
    BY <1>7, <2>6
<1>10. t = s
  BY <1>7, <1>8, <1>9, SeqEqual
<1>. QED
  BY <1>1, <1>3, <1>4, <1>5, <1>10

-----------------------------------------------------------------------------
\* A connection that waits is at the beginning of the next record.
LEMMA Begins ==
  ASSUME NEW ws \in Seq(RecordWords), NEW cut \in Cuts(Len(ws)), NEW x \in Connections, Waits(x)
  PROVE  0 < Size(ws, cut) /\ Reading(x, ws, cut, 0)
<1>1. Len(ws) \in Nat /\ Len(cut) \in Nat \ {0}
  <2>1. Len(ws) \in Nat
    BY LenProperties
  <2>. QED
    BY <2>1, CutsType
<1>2. 0 < Size(ws, cut)
  BY <1>1 DEF Size
<1>3. Before(cut, 1) = 0 /\ Start(cut, 1) = 0
  BY DEF Before, Start
<1>4. Span(Sent(ws, cut), 0, 0) = << >>
  BY SentType, SpanEmpty
<1>5. Span(Halves(ws), 0, 0) = << >>
  BY HalvesOf, SpanEmpty
<1>6. /\ 0 \in 0 .. 0 + 1 /\ 0 + 2 - 0 = 2 /\ 2 * 0 = 0
  OBVIOUS
<1>7. InMark(x, ws, cut, 1, 0)
  BY <1>3, <1>4, <1>5, <1>6 DEF InMark, Waits
<1>8. 1 \in 1 .. Len(cut)
  BY <1>1
<1>. QED
  BY <1>2, <1>7, <1>8 DEF Reading

\* What is sent in one fragment: the room for the mark, or the first word, is
\* replaced by the mark.
LEMMA SendsBegin ==
  ASSUME NEW x \in Connections, NEW us \in Seq(RecordWords), NEW ws \in Seq(RecordWords),
         us # << >>, ws = Tail(us), Len(us) = Len(ws) + 1
  PROVE  /\ EnterSending(x, us) \in Connections /\ EnterSending(x, us).xid = x.xid
         /\ Sends(EnterSending(x, us), ws, <<Len(ws)>>, 0)
<1>1. PICK n, cut, m, s : /\ n = Len(ws) /\ cut = <<n>> /\ m = Mark(n, TRUE) /\ s = Sent(ws, cut)
  OBVIOUS
<1>2. /\ n \in Nat /\ cut \in Cuts(Len(ws)) /\ Len(cut) = 1
      /\ Fragmented(ws, cut) = <<m>> \o ws
  BY <1>1, OneFragment, LenProperties
<1>3. s \in Seq(HalfWords) /\ Len(s) = Size(ws, cut) /\ Size(ws, cut) \in Nat
  BY <1>1, <1>2, SentType
<1>4. Size(ws, cut) = 2 * (n + 1)
  BY <1>1, <1>2 DEF Size
<1>5. Len(us) - 1 = n /\ 2 * Len(us) = Size(ws, cut)
  <2>1. PICK l : l = Len(us)
    OBVIOUS
  <2>2. l = n + 1 /\ n \in Nat
    BY <1>1, <1>2, <2>1
  <2>3. l - 1 = n /\ 2 * l = 2 * (n + 1)
    BY <2>2
  <2>. QED
    BY <1>4, <2>1, <2>3
<1>6. s = Halves(<<m>> \o ws)
  BY <1>1, <1>2 DEF Sent
<1>7. PICK y, z : y = EnterSending(x, us) /\ z = Size(ws, cut)
  OBVIOUS
<1>8. y = [x EXCEPT !.state = "SENDING", !.fragment = "BODY", !.remaining = z, !.xdrs = s]
  BY <1>1, <1>5, <1>6, <1>7 DEF EnterSending
<1>9. z \in Nat
  BY <1>3, <1>7
<1>10. y \in Connections
  BY <1>3, <1>8, <1>9 DEF Connections, ConStates
<1>11. y.state = "SENDING" /\ y.remaining = z /\ y.xdrs = s /\ y.xid = x.xid
  BY <1>8 DEF Connections
<1>12. 0 < z /\ z - 0 = z
  BY <1>2, <1>4, <1>7
<1>13. Sends(y, ws, cut, 0)
  BY <1>1, <1>7, <1>11, <1>12 DEF Sends
<1>. QED
  BY <1>1, <1>7, <1>10, <1>11, <1>13

-----------------------------------------------------------------------------
\* The two connections after a step of one of them.
LEMMA ClientStep ==
  ASSUME RecordsTypeOK, NEW x \in Connections, Become("CLIENT", x)
  PROVE  /\ con' \in [Ends -> Connections] /\ con'["CLIENT"] = x /\ con'["SERVER"] = con["SERVER"]
BY DEF RecordsTypeOK, Become, Ends

\* The server's end changes and the client's does not.
LEMMA ServerStep ==
  ASSUME RecordsTypeOK, NEW x \in Connections, Become("SERVER", x)
  PROVE  /\ con' \in [Ends -> Connections] /\ con'["SERVER"] = x /\ con'["CLIENT"] = con["CLIENT"]
BY DEF RecordsTypeOK, Become, Ends

\* The messages that may be under way.
LEMMA MessageTypes ==
  ASSUME NEW n \in Nat
  PROVE  /\ \A ws \in Requests(n) \cup {Garbage(n)} : ws \in Seq(RecordWords)
         /\ \A ws \in Replies(n) : ws \in Seq(RecordWords)
         /\ Garbage(n) \notin Requests(n)
<1>1. \A ws \in Requests(n) \cup {Garbage(n)} : ws \in Seq(RecordWords)
  BY MessageWords DEF Requests
<1>2. \A ws \in Replies(n) : ws \in Seq(RecordWords)
  BY MessageWords, LostWord DEF Replies
<1>3. Garbage(n) \notin Requests(n)
  <2>1. Word("CALL", n) # Word("junk", n)
    BY DEF Word
  <2>. QED
    BY <2>1, MessageWords DEF Requests
<1>. QED
  BY <1>1, <1>2, <1>3

\* The client's connection when it begins to send a request.
Sending(c, n, ws, cut) ==
    LET y == EnterSending([c EXCEPT !.xid = n], <<Room>> \o ws)
        hs == Halves(Fragmented(ws, cut))
    IN  [y EXCEPT !.xdrs = hs, !.remaining = Len(hs)]

\* beginRequest() and sendRequest(): a request is under way.
LEMMA RequestSent ==
  ASSUME RecordsInv, sendRequest
  PROVE  RecordsInv'
<1>1. PICK c, v : c = con["CLIENT"] /\ v = con["SERVER"]
  OBVIOUS
<1>2. c \in Connections /\ v \in Connections /\ UnderWay(c, v)
  BY <1>1 DEF RecordsInv, RecordsTypeOK, Ends
<1>3. PICK n : n = c.xid + 1
  OBVIOUS
<1>4. n \in Nat
  BY <1>2, <1>3 DEF Connections
<1>5. c.state \in {"CONNECTED", "READY"} /\ wire' = wire /\ arrived' = arrived
  BY <1>1 DEF sendRequest
<1>25. PICK ws \in Requests(n) \cup {Garbage(n)} :
        /\ \E cut \in Cuts(Len(ws)) : Become("CLIENT", Sending(c, n, ws, cut))
        /\ requested' = IF ws = Garbage(n) THEN requested ELSE Append(requested, ws)
  <2>1. \E ws \in Requests(n) \cup (IF Undecodable THEN {Garbage(n)} ELSE {}) :
           /\ \E cut \in Cuts(Len(ws)) : Become("CLIENT", Sending(c, n, ws, cut))
           /\ requested' = IF ws = Garbage(n) THEN requested ELSE Append(requested, ws)
    <3>1. \E ws \in Requests(con["CLIENT"].xid + 1) \cup
                     (IF Undecodable THEN {Garbage(con["CLIENT"].xid + 1)} ELSE {}) :
             /\ \E cut \in Cuts(Len(ws)) :
                  Become("CLIENT", Sending(con["CLIENT"], con["CLIENT"].xid + 1, ws, cut))
             /\ requested' = IF ws = Garbage(con["CLIENT"].xid + 1) THEN requested
                             ELSE Append(requested, ws)
      BY Zenon DEF sendRequest, Requests, Sending
    <3>. QED
      BY <1>1, <1>3, <3>1
  <2>2. Requests(n) \cup (IF Undecodable THEN {Garbage(n)} ELSE {}) \subseteq
          Requests(n) \cup {Garbage(n)}
    OBVIOUS
  <2>. QED
    BY <2>1, <2>2
<1>6. PICK cut \in Cuts(Len(ws)) : Become("CLIENT", Sending(c, n, ws, cut))
  BY <1>25
<1>7. ws \in Seq(RecordWords)
  BY <1>4, MessageTypes
<1>8. PICK s, z : s = Sent(ws, cut) /\ z = Size(ws, cut)
  OBVIOUS
<1>9. s \in Seq(HalfWords) /\ Len(s) = z /\ z \in Nat
  BY <1>7, <1>8, SentType
<1>10. PICK d : d = Sending(c, n, ws, cut)
  OBVIOUS
<1>11. d = [c EXCEPT !.xid = n, !.state = "SENDING", !.fragment = "BODY", !.xdrs = s, !.remaining = z]
  BY <1>2, <1>8, <1>9, <1>10 DEF Sending, Sent, EnterSending, Connections
<1>12. d \in Connections
  BY <1>2, <1>4, <1>9, <1>11 DEF Connections, ConStates
<1>13. d.xid = n /\ d.state = "SENDING" /\ d.xdrs = s /\ d.remaining = z
  BY <1>2, <1>11 DEF Connections
<1>14. con' \in [Ends -> Connections] /\ con'["CLIENT"] = d /\ con'["SERVER"] = v
  <2>1. Become("CLIENT", d)
    BY <1>6, <1>10
  <2>. QED
    BY <1>1, <1>12, <2>1, ClientStep DEF RecordsInv
<1>15. Quiet(c, v)
  BY <1>2, <1>5 DEF UnderWay, Calling, Served, Answering, Over, Sends, Receives, Ended
<1>16. /\ v.state = "IDLE" /\ Waits(v) /\ wire["SERVER"] = << >> /\ wire["CLIENT"] = << >>
       /\ arrived = requested
  BY <1>5, <1>15 DEF Quiet, Ended
<1>17. 0 < z /\ Reading(v, ws, cut, 0)
  BY <1>2, <1>7, <1>8, <1>16, Begins
<1>18. Receives(v, ws, cut, 0, "IDLE")
  BY <1>8, <1>16, <1>17 DEF Receives
<1>19. Sends(d, ws, cut, 0)
  BY <1>8, <1>9, <1>13, <1>17 DEF Sends
<1>20. Span(Sent(ws, cut), 0, 0) = << >>
  BY <1>8, <1>9, SpanEmpty
<1>21. Calling(d, v, ws, cut, 0, 0)'
  BY <1>5, <1>13, <1>25, <1>16, <1>18, <1>19, <1>20 DEF Calling
<1>22. UnderWay(d, v)'
  <2>1. 0 \in 0 .. Size(ws, cut) /\ 0 \in 0 .. 0
    BY <1>8, <1>9
  <2>2. ws \in Requests(d.xid) \cup {Garbage(d.xid)}
    BY <1>13
  <2>. QED
    BY <1>21, <2>1, <2>2 DEF UnderWay
<1>23. requested' \in Seq(Seq(RecordWords))
  BY <1>7, <1>25 DEF RecordsInv, RecordsTypeOK
<1>24. RecordsTypeOK'
  BY <1>5, <1>14, <1>23 DEF RecordsInv, RecordsTypeOK
<1>. QED
  BY <1>14, <1>22, <1>24 DEF RecordsInv

\* A reply to a client that waits, or has given up, is under way.
LEMMA AnswerBegins ==
  ASSUME NEW c \in Connections, NEW d \in Connections, NEW ws \in Replies(c.xid),
         Sends(d, ws, <<Len(ws)>>, 0), (c.state = "WAITING" /\ Waits(c)) \/ Ended(c),
         wire'["SERVER"] = << >>, wire'["CLIENT"] = << >>, arrived' = requested'
  PROVE  UnderWay(c, d)'
<1>1. PICK cut : cut = <<Len(ws)>>
  OBVIOUS
<1>2. ws \in Seq(RecordWords)
  <2>1. c.xid \in Nat
    BY DEF Connections
  <2>. QED
    BY <2>1, MessageTypes
<1>3. cut \in Cuts(Len(ws))
  BY <1>1, <1>2, OneFragment
<1>4. Sent(ws, cut) \in Seq(HalfWords) /\ Size(ws, cut) \in Nat
  BY <1>2, <1>3, SentType
<1>5. Span(Sent(ws, cut), 0, 0) = << >>
  BY <1>4, SpanEmpty
<1>6. Receives(c, ws, cut, 0, "WAITING") \/ Ended(c)
  BY <1>2, <1>3, Begins DEF Receives
<1>7. Answering(c, d, ws, cut, 0, 0)'
  BY <1>1, <1>5, <1>6 DEF Answering
<1>8. 0 \in 0 .. Size(ws, cut) /\ 0 \in 0 .. 0
  BY <1>4
<1>. QED
  BY <1>1, <1>7, <1>8 DEF UnderWay

\* Room for the mark is left before a reply.
LEMMA RoomForMark ==
  ASSUME NEW ws \in Seq(RecordWords)
  PROVE  /\ <<Room>> \o ws \in Seq(RecordWords) /\ <<Room>> \o ws # << >>
         /\ Len(<<Room>> \o ws) = Len(ws) + 1 /\ Tail(<<Room>> \o ws) = ws
<1>1. PICK u, t : u = <<Room>> /\ t = <<Room>> \o ws
  OBVIOUS
<1>2. Room \in RecordWords
  BY DEF Room, Word, RecordWords
<1>3. u \in Seq(RecordWords) /\ Len(u) = 1
  BY <1>1, <1>2
<1>4. /\ t \in Seq(RecordWords) /\ Len(t) = Len(u) + Len(ws)
      /\ \A i \in 1 .. Len(u) + Len(ws) : t[i] = IF i <= Len(u) THEN u[i] ELSE ws[i - Len(u)]
  BY <1>1, <1>3, ConcatProperties
<1>5. Len(ws) \in Nat
  BY LenProperties
<1>6. Len(t) = Len(ws) + 1
  BY <1>3, <1>4, <1>5
<1>7. t # << >>
  BY <1>5, <1>6
<1>8. PICK r : r = Tail(t)
  OBVIOUS
<1>9. /\ r \in Seq(RecordWords) /\ Len(r) = Len(t) - 1
      /\ \A i \in 1 .. Len(r) : r[i] = t[i + 1]
  BY <1>4, <1>7, <1>8
<1>10. Len(r) = Len(ws)
  BY <1>5, <1>6, <1>9
<1>11. ASSUME NEW i \in 1 .. Len(ws) PROVE r[i] = ws[i]
  <2>1. PICK k : k = i + 1
    OBVIOUS
  <2>2. k \in 1 .. Len(u) + Len(ws) /\ ~ k <= Len(u) /\ k - Len(u) = i
    BY <1>3, <1>5, <2>1
  <2>3. t[k] = ws[i]
    BY <1>4, <2>2
  <2>4. r[i] = t[i + 1]
    BY <1>9, <1>10
  <2>. QED
    BY <2>1, <2>3, <2>4
<1>12. r = ws
  BY <1>9, <1>10, <1>11, SeqEqual
<1>. QED
  BY <1>1, <1>4, <1>6, <1>7, <1>8, <1>12

\* dispatch() and sendReply(): a reply is under way.
LEMMA ReplySent ==
  ASSUME RecordsInv, sendReply
  PROVE  RecordsInv'
<1>1. PICK c, v : c = con["CLIENT"] /\ v = con["SERVER"]
  OBVIOUS
<1>2. c \in Connections /\ v \in Connections /\ UnderWay(c, v) /\ c.xid \in Nat
  BY <1>1 DEF RecordsInv, RecordsTypeOK, Ends, Connections
<1>3. v.state = "READY" /\ UNCHANGED <<wire, requested, arrived>>
  BY <1>1 DEF sendReply
<1>4. PICK ws \in Requests(c.xid) : Served(c, v, ws)
  BY <1>2, <1>3 DEF UnderWay, Quiet, Calling, Answering, Over, Sends, Receives
<1>5. /\ v.xdrs = Halves(ws) /\ wire["SERVER"] = << >> /\ wire["CLIENT"] = << >>
      /\ (c.state = "WAITING" /\ Waits(c)) \/ Ended(c)
      /\ arrived = requested
  BY <1>4 DEF Served
<1>6. WordsOf(v.xdrs)[1].n = c.xid
  <2>1. ws \in Seq(RecordWords)
    BY <1>2, MessageTypes
  <2>2. WordsOf(v.xdrs) = ws
    BY <1>5, <2>1, WordsOfHalves
  <2>3. ws[1] = Word("xid", c.xid)
    BY <1>2, MessageWords DEF Requests
  <2>. QED
    BY <2>2, <2>3 DEF Word
<1>7. PICK r, us : r = Reply(c.xid) /\ us = <<Room>> \o r
  OBVIOUS
<1>8. r \in Seq(RecordWords) /\ r \in Replies(c.xid)
  BY <1>2, <1>7, MessageWords DEF Replies
<1>9. us \in Seq(RecordWords) /\ us # << >> /\ r = Tail(us) /\ Len(us) = Len(r) + 1
  BY <1>7, <1>8, RoomForMark
<1>10. PICK d : d = EnterSending(v, us)
  OBVIOUS
<1>11. d \in Connections /\ Sends(d, r, <<Len(r)>>, 0)
  BY <1>2, <1>8, <1>9, <1>10, SendsBegin
<1>12. Become("SERVER", d)
  BY <1>1, <1>6, <1>7, <1>10 DEF sendReply
<1>13. con' \in [Ends -> Connections] /\ con'["SERVER"] = d /\ con'["CLIENT"] = c
  BY <1>1, <1>11, <1>12, ServerStep DEF RecordsInv
<1>14. wire'["SERVER"] = << >> /\ wire'["CLIENT"] = << >> /\ arrived' = requested'
  BY <1>3, <1>5
<1>15. UnderWay(c, d)'
  BY <1>2, <1>5, <1>8, <1>11, <1>14, AnswerBegins
<1>. QED
  BY <1>3, <1>13, <1>15 DEF RecordsInv, RecordsTypeOK

\* A client that gives up or is closed leaves what is under way to the server.
LEMMA ClientEnds ==
  ASSUME NEW c \in Connections, NEW v \in Connections, NEW d \in Connections, UnderWay(c, v),
         d.state \in {"READY_FAILED", "CLOSED"}, d.xid = c.xid, c.state # "CLOSED",
         UNCHANGED <<wire, requested, arrived>>
  PROVE  UnderWay(d, v)'
<1>1. Ended(d)
  BY DEF Ended
<1>2. CASE Quiet(c, v)
  <2>1. Quiet(d, v)'
    BY <1>1, <1>2 DEF Quiet, Ended
  <2>. QED
    BY <2>1 DEF UnderWay
<1>3. ASSUME NEW ws \in Requests(c.xid) \cup {Garbage(c.xid)}, NEW cut \in Cuts(Len(ws)),
             NEW j \in 0 .. Size(ws, cut), NEW k \in 0 .. j, Calling(c, v, ws, cut, k, j)
      PROVE  UnderWay(d, v)'
  <2>1. Calling(d, v, ws, cut, k, j)'
    BY <1>1, <1>3 DEF Calling
  <2>. QED
    BY <2>1 DEF UnderWay
<1>4. ASSUME NEW ws \in Requests(c.xid), Served(c, v, ws)
      PROVE  UnderWay(d, v)'
  <2>1. Served(d, v, ws)'
    BY <1>1, <1>4 DEF Served
  <2>. QED
    BY <2>1 DEF UnderWay
<1>5. ASSUME NEW ws \in Replies(c.xid), NEW j \in 0 .. Size(ws, <<Len(ws)>>), NEW k \in 0 .. j,
             Answering(c, v, ws, <<Len(ws)>>, k, j)
      PROVE  UnderWay(d, v)'
  <2>1. Answering(d, v, ws, <<Len(ws)>>, k, j)'
    BY <1>1, <1>5 DEF Answering
  <2>. QED
    BY <2>1 DEF UnderWay
<1>. QED
  BY <1>2, <1>3, <1>4, <1>5 DEF UnderWay, Over

\* The owner of the client closes its connection: nothing else is under way then,
\* or it had given up before.
LEMMA ClientCloses ==
  ASSUME RecordsInv, close
  PROVE  RecordsInv'
<1>1. PICK c, v : c = con["CLIENT"] /\ v = con["SERVER"]
  OBVIOUS
<1>2. c \in Connections /\ v \in Connections /\ UnderWay(c, v) /\ c.xid \in Nat
  BY <1>1 DEF RecordsInv, RecordsTypeOK, Ends, Connections
<1>3. /\ c.state \in {"READY_FAILED", "READY", "CONNECTED"}
      /\ UNCHANGED <<wire, requested, arrived>>
  BY <1>1 DEF close
<1>4. PICK d : d = [c EXCEPT !.state = "CLOSED"]
  OBVIOUS
<1>5. d \in Connections
  BY <1>2, <1>4, ConnectionStates DEF ConStates
<1>6. d.state = "CLOSED" /\ d.xid = c.xid
  BY <1>2, <1>4 DEF Connections
<1>7. con' \in [Ends -> Connections] /\ con'["CLIENT"] = d /\ con'["SERVER"] = v
  <2>1. Become("CLIENT", d)
    BY <1>1, <1>4 DEF close
  <2>. QED
    BY <1>1, <1>5, <2>1, ClientStep DEF RecordsInv
<1>8. UnderWay(d, v)'
  BY <1>1, <1>2, <1>3, <1>5, <1>6, ClientEnds
<1>. QED
  BY <1>3, <1>7, <1>8 DEF RecordsInv, RecordsTypeOK

\* The requests that have arrived are the first ones that were sent.
LEMMA ArrivedPrefix ==
  ASSUME RecordsInv
  PROVE  IsPrefix(arrived, requested)
<1>1. PICK c, v : c = con["CLIENT"] /\ v = con["SERVER"]
  OBVIOUS
<1>2. c \in Connections /\ UnderWay(c, v) /\ c.xid \in Nat /\ arrived \in Seq(Seq(RecordWords))
  BY <1>1 DEF RecordsInv, RecordsTypeOK, Ends, Connections
<1>3. CASE arrived = requested
  <2>1. << >> \in Seq(RecordWords)
    OBVIOUS
  <2>2. IsPrefix(arrived, arrived)
    BY <1>2, <2>1, AppendPrefix
  <2>. QED
    BY <1>3, <2>2
<1>4. ASSUME NEW ws \in Requests(c.xid) \cup {Garbage(c.xid)}, requested = Append(arrived, ws)
      PROVE  IsPrefix(arrived, requested)
  <2>1. ws \in Seq(RecordWords)
    BY <1>2, MessageTypes
  <2>2. IsPrefix(arrived, Append(arrived, ws))
    BY <1>2, <2>1, AppendPrefix
  <2>. QED
    BY <1>4, <2>2
<1>. QED
  BY <1>2, <1>3, <1>4 DEF UnderWay, Quiet, Calling, Served, Answering, Over

\* Only a client closes a connection, and only then does the server find it so.
LEMMA GoneEnds ==
  ASSUME NEW c, NEW v, UnderWay(c, v)
  PROVE  /\ c.state # "DEAD"
         /\ v.state \in {"DEAD", "CLOSED"} => c.state = "CLOSED" /\ v.state = "DEAD"
<1>1. Ended(c) => c.state # "DEAD"
  BY DEF Ended
<1>2. CASE Quiet(c, v)
  BY <1>1, <1>2 DEF Quiet
<1>3. ASSUME NEW ws, NEW cut, NEW k, NEW j, Calling(c, v, ws, cut, k, j)
      PROVE  c.state # "DEAD" /\ v.state \in {"IDLE", "RECEIVING"}
  BY <1>1, <1>3 DEF Calling, Sends, Receives
<1>4. ASSUME NEW ws, Served(c, v, ws) PROVE c.state # "DEAD" /\ v.state = "READY"
  BY <1>1, <1>4 DEF Served
<1>5. ASSUME NEW ws, NEW cut, NEW k, NEW j, Answering(c, v, ws, cut, k, j)
      PROVE  c.state # "DEAD" /\ v.state \in {"SENDING", "IDLE"}
  BY <1>1, <1>5 DEF Answering, Sends, Receives
<1>6. CASE Over(c, v)
  BY <1>6 DEF Over
<1>. QED
  BY <1>2, <1>3, <1>4, <1>5, <1>6 DEF UnderWay

\* The end of the stream, or a send that fails: the client has closed.
LEMMA ConnectionEnds ==
  ASSUME RecordsInv, NEW e \in Ends, receiveEnd(e) \/ sendFails(e)
  PROVE  RecordsInv'
<1>1. PICK c, v : c = con["CLIENT"] /\ v = con["SERVER"]
  OBVIOUS
<1>2. c \in Connections /\ v \in Connections /\ UnderWay(c, v)
  BY <1>1 DEF RecordsInv, RecordsTypeOK, Ends
<1>3. /\ con[e].state \in {"IDLE", "WAITING", "RECEIVING", "SENDING"} /\ Gone(Other(e))
      /\ Become(e, Failed(e, con[e])) /\ UNCHANGED <<wire, requested, arrived>>
  BY DEF receiveEnd, sendFails
<1>4. e = "SERVER" /\ c.state = "CLOSED"
  <2>1. CASE e = "CLIENT"
    <3>1. c.state = "CLOSED"
      BY <1>1, <1>2, <1>3, <2>1, GoneEnds DEF Gone, Other
    <3>. QED
      BY <1>1, <1>3, <2>1, <3>1
  <2>2. CASE e = "SERVER"
    <3>1. c.state \in {"DEAD", "CLOSED"}
      BY <1>1, <1>3, <2>2 DEF Gone, Other
    <3>. QED
      BY <1>2, <2>2, <3>1, GoneEnds
  <2>. QED
    BY <2>1, <2>2 DEF Ends
<1>5. PICK d : d = [v EXCEPT !.state = "DEAD"]
  OBVIOUS
<1>6. d \in Connections
  BY <1>2, <1>5, ConnectionStates DEF ConStates
<1>7. d.state = "DEAD"
  BY <1>2, <1>5 DEF Connections
<1>8. con' \in [Ends -> Connections] /\ con'["SERVER"] = d /\ con'["CLIENT"] = c
  <2>1. Become("SERVER", d)
    BY <1>1, <1>3, <1>4, <1>5 DEF Failed
  <2>. QED
    BY <1>1, <1>6, <2>1, ServerStep DEF RecordsInv
<1>9. IsPrefix(arrived, requested)
  BY ArrivedPrefix
<1>10. Over(c, d)'
  BY <1>3, <1>4, <1>7, <1>9 DEF Over
<1>. QED
  BY <1>3, <1>8, <1>10 DEF RecordsInv, RecordsTypeOK, UnderWay

\* timedOut(): a client gives up.
LEMMA ClientTimesOut ==
  ASSUME RecordsInv, NEW e \in Ends, timedOut(e), ~ ServerTimesOut
  PROVE  RecordsInv'
<1>1. PICK c, v : c = con["CLIENT"] /\ v = con["SERVER"]
  OBVIOUS
<1>2. c \in Connections /\ v \in Connections /\ UnderWay(c, v)
  BY <1>1 DEF RecordsInv, RecordsTypeOK, Ends
<1>3. e = "CLIENT"
  BY DEF timedOut, Ends
<1>4. PICK d : d = [Cleared(c) EXCEPT !.state = "READY_FAILED"]
  OBVIOUS
<1>5. /\ c.state \in {"SENDING", "WAITING", "RECEIVING"} /\ Become("CLIENT", d)
      /\ UNCHANGED <<wire, requested, arrived>>
  BY <1>1, <1>3, <1>4 DEF timedOut
<1>6. << >> \in Seq(HalfWords)
  OBVIOUS
<1>7. d = [c EXCEPT !.xdrs = << >>, !.fragment = "HEADER", !.remaining = 2, !.header = << >>,
                    !.state = "READY_FAILED"]
  BY <1>2, <1>4 DEF Cleared, HeaderNext, Connections
<1>8. d \in Connections
  BY <1>2, <1>6, <1>7 DEF Connections, ConStates
<1>9. d.state = "READY_FAILED" /\ d.xid = c.xid
  BY <1>2, <1>7 DEF Connections
<1>10. con' \in [Ends -> Connections] /\ con'["CLIENT"] = d /\ con'["SERVER"] = v
  BY <1>1, <1>5, <1>8, ClientStep DEF RecordsInv
<1>11. UnderWay(d, v)'
  BY <1>2, <1>5, <1>8, <1>9, ClientEnds
<1>. QED
  BY <1>5, <1>10, <1>11 DEF RecordsInv, RecordsTypeOK

\* The connection of a sender that has passed n halves on, and waits when they were
\* the last ones.
Passed(x, n, waiting) ==
    IF n < x.remaining THEN [x EXCEPT !.remaining = @ - n] ELSE [Cleared(x) EXCEPT !.state = waiting]

\* The halves it passes on.
Passing(x, n) == LET sent == Len(x.xdrs) - x.remaining IN SubSeq(x.xdrs, sent + 1, sent + n)

\* The record is sent on where it was left.
LEMMA SentOn ==
  ASSUME NEW ws \in Seq(RecordWords), NEW cut \in Cuts(Len(ws)), NEW j \in Nat, NEW k \in 0 .. j,
         NEW x \in Connections, Sends(x, ws, cut, j), NEW n \in 1 .. x.remaining
  PROVE  /\ j + n \in 0 .. Size(ws, cut) /\ k \in 0 .. j + n
         /\ Passing(x, n) \in Seq(HalfWords)
         /\ Span(Sent(ws, cut), k, j) \o Passing(x, n) = Span(Sent(ws, cut), k, j + n)
<1>1. PICK t, z, r : t = Sent(ws, cut) /\ z = Size(ws, cut) /\ r = x.remaining
  OBVIOUS
<1>2. t \in Seq(HalfWords) /\ Len(t) = z /\ z \in Nat
  BY <1>1, SentType
<1>3. x.xdrs = t /\ j < z /\ r = z - j
  BY <1>1 DEF Sends
<1>4. n \in Nat /\ n <= r
  BY <1>1, <1>2, <1>3
<1>5. PICK h : h = j + n
  OBVIOUS
<1>6. h \in Nat /\ j <= h /\ h <= z /\ k \in Nat /\ k <= j /\ k <= h /\ z - r = j
  BY <1>2, <1>3, <1>4, <1>5
<1>7. Len(x.xdrs) - x.remaining = j
  BY <1>1, <1>2, <1>3, <1>6
<1>8. Passing(x, n) = Span(t, j, h)
  BY <1>3, <1>5, <1>7 DEF Span, Passing
<1>9. Span(t, j, h) \in Seq(HalfWords)
  BY <1>2, <1>6, SpanType
<1>10. Span(t, k, j) \o Span(t, j, h) = Span(t, k, h)
  BY <1>2, <1>6, SpanJoin
<1>11. h \in 0 .. z /\ k \in 0 .. h
  BY <1>2, <1>6
<1>. QED
  BY <1>1, <1>5, <1>8, <1>9, <1>10, <1>11

\* The connection of the sender goes on, or waits.
LEMMA SenderPassed ==
  ASSUME NEW ws \in Seq(RecordWords), NEW cut \in Cuts(Len(ws)), NEW j \in Nat,
         NEW x \in Connections, Sends(x, ws, cut, j), NEW n \in 1 .. x.remaining,
         NEW waiting \in ConStates
  PROVE  LET d == Passed(x, n, waiting)
         IN  /\ d \in Connections /\ d.xid = x.xid
             /\ \/ Sends(d, ws, cut, j + n)
                \/ d.state = waiting /\ Waits(d) /\ j + n = Size(ws, cut)
<1>0. PICK d : d = Passed(x, n, waiting)
  OBVIOUS
<1>1. PICK z, r : z = Size(ws, cut) /\ r = x.remaining
  OBVIOUS
<1>2. z \in Nat /\ j < z /\ r = z - j /\ n \in Nat /\ n <= r
  <2>1. z \in Nat
    BY <1>1, SentType
  <2>2. j < z /\ r = z - j
    BY <1>1 DEF Sends
  <2>. QED
    BY <1>1, <2>1, <2>2
<1>3. CASE n < r
  <2>1. PICK q : q = r - n
    OBVIOUS
  <2>2. q \in Nat /\ q = z - (j + n) /\ j + n < z
    BY <1>2, <1>3, <2>1
  <2>3. d = [x EXCEPT !.remaining = q]
    BY <1>0, <1>1, <1>3, <2>1 DEF Passed
  <2>4. d \in Connections
    BY <2>2, <2>3 DEF Connections
  <2>5. d.xid = x.xid /\ d.state = x.state /\ d.xdrs = x.xdrs /\ d.remaining = q
    BY <2>3 DEF Connections
  <2>6. Sends(d, ws, cut, j + n)
    BY <1>1, <2>2, <2>5 DEF Sends
  <2>. QED
    BY <1>0, <2>4, <2>5, <2>6
<1>4. CASE ~ n < r
  <2>1. j + n = z
    BY <1>2, <1>4
  <2>2. d = [x EXCEPT !.xdrs = << >>, !.fragment = "HEADER", !.remaining = 2, !.header = << >>,
                      !.state = waiting]
    BY <1>0, <1>1, <1>4 DEF Passed, Cleared, HeaderNext, Connections
  <2>3. << >> \in Seq(HalfWords)
    OBVIOUS
  <2>4. d \in Connections
    <3>1. PICK y : y = [x EXCEPT !.xdrs = << >>, !.remaining = 2, !.header = << >>]
      OBVIOUS
    <3>2. y \in Connections
      BY <2>3, <3>1 DEF Connections
    <3>3. d = [[y EXCEPT !.fragment = "HEADER"] EXCEPT !.state = waiting]
      BY <2>2, <3>1 DEF Connections
    <3>. QED
      BY <3>2, <3>3, ConnectionStates
  <2>5. d.xid = x.xid /\ d.state = waiting
    BY <2>2 DEF Connections
  <2>6. Waits(d)
    BY <2>2 DEF Connections, Waits
  <2>. QED
    BY <1>0, <1>1, <2>1, <2>4, <2>5, <2>6
<1>. QED
  BY <1>0, <1>3, <1>4

\* send(): a client passes a part of its request on.
LEMMA ClientSends ==
  ASSUME RecordsInv, NEW n \in 1 .. Len(con["CLIENT"].xdrs), send("CLIENT", n)
  PROVE  RecordsInv'
<1>1. PICK c, v : c = con["CLIENT"] /\ v = con["SERVER"]
  OBVIOUS
<1>2. c \in Connections /\ v \in Connections /\ UnderWay(c, v) /\ c.xid \in Nat
  BY <1>1 DEF RecordsInv, RecordsTypeOK, Ends, Connections
<1>3. PICK d : d = Passed(c, n, "WAITING")
  OBVIOUS
<1>4. /\ c.state = "SENDING" /\ n \in 1 .. c.remaining /\ Become("CLIENT", d)
      /\ wire' = [wire EXCEPT !["SERVER"] = @ \o Passing(c, n)]
      /\ UNCHANGED <<requested, arrived>>
  BY <1>1, <1>3 DEF send, Passed, Passing, Other
<1>5. PICK ws \in Requests(c.xid) \cup {Garbage(c.xid)} : \E cut \in Cuts(Len(ws)) :
         \E j \in 0 .. Size(ws, cut) : \E k \in 0 .. j : Calling(c, v, ws, cut, k, j)
  BY <1>2, <1>4 DEF UnderWay, Quiet, Served, Answering, Over, Ended, Receives
<1>6. PICK cut \in Cuts(Len(ws)) :
         \E j \in 0 .. Size(ws, cut) : \E k \in 0 .. j : Calling(c, v, ws, cut, k, j)
  BY <1>5
<1>7. PICK j \in 0 .. Size(ws, cut) : \E k \in 0 .. j : Calling(c, v, ws, cut, k, j)
  BY <1>6
<1>8. PICK k \in 0 .. j : Calling(c, v, ws, cut, k, j)
  BY <1>7
<1>9. ws \in Seq(RecordWords) /\ j \in Nat
  <2>1. ws \in Seq(RecordWords)
    BY <1>2, MessageTypes
  <2>. QED
    BY <2>1
<1>10. /\ Receives(v, ws, cut, k, "IDLE") /\ wire["SERVER"] = Span(Sent(ws, cut), k, j)
       /\ wire["CLIENT"] = << >> /\ Sends(c, ws, cut, j)
       /\ requested = IF ws = Garbage(c.xid) THEN arrived ELSE Append(arrived, ws)
  BY <1>4, <1>8 DEF Calling, Ended
<1>11. /\ j + n \in 0 .. Size(ws, cut) /\ k \in 0 .. j + n
       /\ Passing(c, n) \in Seq(HalfWords)
       /\ Span(Sent(ws, cut), k, j) \o Passing(c, n) = Span(Sent(ws, cut), k, j + n)
  <2>1. Sends(c, ws, cut, j) /\ n \in 1 .. c.remaining
    BY <1>4, <1>10
  <2>. QED
    BY <1>2, <1>9, <2>1, SentOn
<1>12. /\ d \in Connections /\ d.xid = c.xid
       /\ \/ Sends(d, ws, cut, j + n)
          \/ d.state = "WAITING" /\ Waits(d) /\ j + n = Size(ws, cut)
  <2>1. "WAITING" \in ConStates
    BY DEF ConStates
  <2>. QED
    BY <1>2, <1>3, <1>4, <1>9, <1>10, <2>1, SenderPassed
<1>13. con' \in [Ends -> Connections] /\ con'["CLIENT"] = d /\ con'["SERVER"] = v
  BY <1>1, <1>4, <1>12, ClientStep DEF RecordsInv
<1>14. /\ wire' \in [Ends -> Seq(HalfWords)]
       /\ wire'["SERVER"] = Span(Sent(ws, cut), k, j + n) /\ wire'["CLIENT"] = << >>
  <2>1. wire \in [Ends -> Seq(HalfWords)] /\ "SERVER" \in Ends /\ "CLIENT" \in Ends
    BY DEF RecordsInv, RecordsTypeOK, Ends
  <2>2. wire["SERVER"] \o Passing(c, n) \in Seq(HalfWords)
    BY <1>11, <2>1, ConcatProperties
  <2>. QED
    BY <1>4, <1>10, <1>11, <2>1, <2>2
<1>15. Calling(d, v, ws, cut, k, j + n)'
  BY <1>4, <1>10, <1>12, <1>14 DEF Calling
<1>16. UnderWay(d, v)'
  <2>1. ws \in Requests(d.xid) \cup {Garbage(d.xid)}
    BY <1>12
  <2>. QED
    BY <1>11, <1>15, <2>1 DEF UnderWay
<1>. QED
  BY <1>4, <1>13, <1>14, <1>16 DEF RecordsInv, RecordsTypeOK

\* send(): a server passes a part of its reply on.
LEMMA ServerSends ==
  ASSUME RecordsInv, NEW n \in 1 .. Len(con["SERVER"].xdrs), send("SERVER", n)
  PROVE  RecordsInv'
<1>1. PICK c, v : c = con["CLIENT"] /\ v = con["SERVER"]
  OBVIOUS
<1>2. c \in Connections /\ v \in Connections /\ UnderWay(c, v) /\ c.xid \in Nat
  BY <1>1 DEF RecordsInv, RecordsTypeOK, Ends, Connections
<1>3. PICK d : d = Passed(v, n, "IDLE")
  OBVIOUS
<1>4. /\ v.state = "SENDING" /\ n \in 1 .. v.remaining /\ Become("SERVER", d)
      /\ wire' = [wire EXCEPT !["CLIENT"] = @ \o Passing(v, n)]
      /\ UNCHANGED <<requested, arrived>>
  BY <1>1, <1>3 DEF send, Passed, Passing, Other
<1>5. PICK ws \in Replies(c.xid) : \E j \in 0 .. Size(ws, <<Len(ws)>>) : \E k \in 0 .. j :
         Answering(c, v, ws, <<Len(ws)>>, k, j)
  BY <1>2, <1>4 DEF UnderWay, Quiet, Served, Calling, Over, Receives
<1>6. PICK cut : cut = <<Len(ws)>>
  OBVIOUS
<1>7. PICK j \in 0 .. Size(ws, cut) : \E k \in 0 .. j : Answering(c, v, ws, cut, k, j)
  BY <1>5, <1>6
<1>8. PICK k \in 0 .. j : Answering(c, v, ws, cut, k, j)
  BY <1>7
<1>9. ws \in Seq(RecordWords) /\ cut \in Cuts(Len(ws)) /\ j \in Nat
  <2>1. ws \in Seq(RecordWords)
    BY <1>2, MessageTypes
  <2>2. cut \in Cuts(Len(ws))
    BY <1>6, <2>1, OneFragment
  <2>. QED
    BY <2>1, <2>2
<1>10. /\ wire["SERVER"] = << >> /\ Sends(v, ws, cut, j) /\ arrived = requested
       /\ \/ Receives(c, ws, cut, k, "WAITING") /\ wire["CLIENT"] = Span(Sent(ws, cut), k, j)
          \/ Ended(c)
  BY <1>4, <1>8 DEF Answering
<1>11. /\ j + n \in 0 .. Size(ws, cut) /\ k \in 0 .. j + n
       /\ Passing(v, n) \in Seq(HalfWords)
       /\ Span(Sent(ws, cut), k, j) \o Passing(v, n) = Span(Sent(ws, cut), k, j + n)
  <2>1. Sends(v, ws, cut, j) /\ n \in 1 .. v.remaining
    BY <1>4, <1>10
  <2>. QED
    BY <1>2, <1>9, <2>1, SentOn
<1>12. /\ d \in Connections
       /\ \/ Sends(d, ws, cut, j + n)
          \/ d.state = "IDLE" /\ Waits(d) /\ j + n = Size(ws, cut)
  <2>1. "IDLE" \in ConStates
    BY DEF ConStates
  <2>. QED
    BY <1>2, <1>3, <1>4, <1>9, <1>10, <2>1, SenderPassed
<1>13. con' \in [Ends -> Connections] /\ con'["SERVER"] = d /\ con'["CLIENT"] = c
  BY <1>1, <1>4, <1>12, ServerStep DEF RecordsInv
<1>14. /\ wire' \in [Ends -> Seq(HalfWords)] /\ wire'["SERVER"] = << >>
       /\ wire'["CLIENT"] = wire["CLIENT"] \o Passing(v, n)
  <2>1. wire \in [Ends -> Seq(HalfWords)] /\ "SERVER" \in Ends /\ "CLIENT" \in Ends
    BY DEF RecordsInv, RecordsTypeOK, Ends
  <2>2. wire["CLIENT"] \o Passing(v, n) \in Seq(HalfWords)
    BY <1>11, <2>1, ConcatProperties
  <2>. QED
    BY <1>4, <1>10, <2>1, <2>2
<1>15. Answering(c, d, ws, cut, k, j + n)'
  BY <1>4, <1>10, <1>11, <1>12, <1>14 DEF Answering
<1>16. UnderWay(c, d)'
  BY <1>6, <1>11, <1>15 DEF UnderWay
<1>. QED
  BY <1>4, <1>13, <1>14, <1>16 DEF RecordsInv, RecordsTypeOK

-----------------------------------------------------------------------------
\* What receive() takes, and what is left, when memory does not run out.
LEMMA ReceiveTakes ==
  ASSUME NEW e \in Ends, NEW n, receive(e, n), ~ NoMemory
  PROVE  /\ con[e].state \in {"IDLE", "WAITING", "RECEIVING"} /\ n \in 1 .. Len(wire[e])
         /\ \E p, y, m, body :
              /\ Taken(con[e], wire[e], n, p, y, m, body)
              /\ Become(e, Received(e, body))
              /\ wire' = [wire EXCEPT ![e] = SubSeq(@, p + m + 1, Len(@))]
              /\ arrived' = IF e = "SERVER" /\ con'[e].state = "READY"
                            THEN Append(arrived, WordsOf(con'[e].xdrs)) ELSE arrived
         /\ requested' = requested
<1>1. PICK x, w : x = con[e] /\ w = wire[e]
  OBVIOUS
<1>2. PICK p : p = IF x.fragment = "HEADER" THEN Least(x.remaining, n) ELSE 0
  OBVIOUS
<1>3. PICK y \in (IF p = 0 THEN {x} ELSE ReadHeader(x, SubSeq(w, 1, p))) :
        LET m == IF y.fragment = "BODY" THEN Least(y.remaining, n - p) ELSE 0
            body == IF m = 0 THEN y ELSE ReadBody(y, SubSeq(w, p + 1, p + m))
        IN  /\ \E z \in {Received(e, body)} \cup Exhausted(e, y) : Become(e, z)
            /\ wire' = [wire EXCEPT ![e] = SubSeq(@, p + m + 1, Len(@))]
            /\ arrived' = IF e = "SERVER" /\ con'[e].state = "READY"
                          THEN Append(arrived, WordsOf(con'[e].xdrs)) ELSE arrived
  BY <1>1, <1>2, Zenon DEF receive
<1>4. Exhausted(e, y) = {}
  BY DEF Exhausted
<1>5. PICK m : m = Portion(y, n - p)
  OBVIOUS
<1>6. PICK body : body = IF m = 0 THEN y ELSE ReadBody(y, SubSeq(w, p + 1, p + m))
  OBVIOUS
<1>7. Taken(x, w, n, p, y, m, body)
  BY <1>2, <1>3, <1>5, <1>6 DEF Taken
<1>8. /\ Become(e, Received(e, body))
      /\ wire' = [wire EXCEPT ![e] = SubSeq(@, p + m + 1, Len(@))]
      /\ arrived' = IF e = "SERVER" /\ con'[e].state = "READY"
                    THEN Append(arrived, WordsOf(con'[e].xdrs)) ELSE arrived
  BY <1>3, <1>4, <1>5, <1>6 DEF Portion
<1>9. x.state \in {"IDLE", "WAITING", "RECEIVING"} /\ n \in 1 .. Len(w) /\ requested' = requested
  BY <1>1 DEF receive
<1>. QED
  BY <1>1, <1>7, <1>8, <1>9

\* What is left of the halves on their way.
LEMMA WireLeft ==
  ASSUME NEW t \in Seq(HalfWords), NEW k \in Nat, NEW j \in Nat, k <= j, j <= Len(t),
         NEW a \in 0 .. j - k
  PROVE  LET w == Span(t, k, j)
         IN  SubSeq(w, a + 1, Len(w)) = Span(t, k + a, j) /\ Span(t, k + a, j) \in Seq(HalfWords)
<1>0. PICK w : w = Span(t, k, j)
  OBVIOUS
<1>1. Len(w) = j - k
  BY <1>0, SpanLen
<1>2. PICK b, c : b = j - k /\ c = k + a
  OBVIOUS
<1>3. a \in Nat /\ b \in Nat /\ a <= b /\ b <= j - k /\ k + b = j /\ c \in Nat /\ c <= j
  BY <1>2
<1>4. Span(Span(t, k, j), a, b) = Span(t, k + a, k + b)
  BY <1>3, SpanOfSpan
<1>5. SubSeq(w, a + 1, Len(w)) = Span(t, c, j)
  BY <1>0, <1>1, <1>2, <1>3, <1>4 DEF Span
<1>6. Span(t, c, j) \in Seq(HalfWords)
  BY <1>3, SpanType
<1>. QED
  BY <1>0, <1>2, <1>5, <1>6

\* The connection is still within the record.
LEMMA ReceivedPart ==
  ASSUME NEW ws \in Seq(RecordWords), NEW cut \in Cuts(Len(ws)), NEW e \in Ends,
         NEW q \in Nat \ {0}, q < Size(ws, cut), NEW x, Read(x, ws, cut, q), NEW waiting
  PROVE  LET d == Received(e, x)
         IN  /\ d \in Connections /\ d.xid = x.xid /\ d.state = "RECEIVING"
             /\ Receives(d, ws, cut, q, waiting)
<1>1. PICK d : d = Received(e, x)
  OBVIOUS
<1>2. x \in Connections /\ Reading(x, ws, cut, q)
  <2>1. Size(ws, cut) \in Nat
    BY SentType
  <2>. QED
    BY <2>1 DEF Read
<1>3. PICK i \in 1 .. Len(cut) : InMark(x, ws, cut, i, q) \/ InBody(x, ws, cut, i, q)
  BY <1>2 DEF Reading
<1>4. x.remaining \in Nat \ {0}
  BY <1>2, <1>3, ReadingParts
<1>5. d = [x EXCEPT !.state = "RECEIVING"]
  BY <1>1, <1>4 DEF Received
<1>6. d \in Connections
  BY <1>2, <1>5, ConnectionStates DEF ConStates
<1>7. /\ d.xid = x.xid /\ d.state = "RECEIVING" /\ d.fragment = x.fragment /\ d.header = x.header
      /\ d.remaining = x.remaining /\ d.last = x.last /\ d.xdrs = x.xdrs
  BY <1>2, <1>5 DEF Connections
<1>8. InMark(x, ws, cut, i, q) => InMark(d, ws, cut, i, q)
  BY <1>7 DEF InMark
<1>9. InBody(x, ws, cut, i, q) => InBody(d, ws, cut, i, q)
  BY <1>7 DEF InBody
<1>10. Reading(d, ws, cut, q)
  BY <1>3, <1>8, <1>9 DEF Reading
<1>11. Receives(d, ws, cut, q, waiting)
  BY <1>7, <1>10 DEF Receives
<1>. QED
  BY <1>1, <1>6, <1>7, <1>11

\* Requests can be decoded, and what is sent instead cannot.
LEMMA ServerDecodes ==
  ASSUME NEW n \in Nat, NEW x, NEW ws \in Requests(n) \cup {Garbage(n)}, x.xdrs = Halves(ws)
  PROVE  Decodes("SERVER", x) <=> ws # Garbage(n)
<1>1. ws \in Seq(RecordWords) /\ Garbage(n) \notin Requests(n)
  BY MessageTypes
<1>2. WordsOf(x.xdrs) = ws /\ Whole(x.xdrs)
  BY <1>1, WordsOfHalves
<1>3. /\ Len(ws) >= 2 /\ ws[1] = Word("xid", n)
      /\ ws[2] = Word(IF ws = Garbage(n) THEN "junk" ELSE "CALL", n)
  <2>1. CASE ws = Garbage(n)
    BY <2>1, MessageWords
  <2>2. CASE ws # Garbage(n)
    <3>1. ws = Request(n, 0) \/ ws = Request(n, 1)
      BY <2>2 DEF Requests
    <3>2. CASE ws = Request(n, 0)
      BY <2>2, <3>2, MessageWords
    <3>3. CASE ws = Request(n, 1)
      BY <2>2, <3>3, MessageWords
    <3>. QED
      BY <3>1, <3>2, <3>3
  <2>. QED
    BY <2>1, <2>2
<1>4. ws[1].is = "xid" /\ (ws[2].is = "CALL" <=> ws # Garbage(n))
  BY <1>3 DEF Word
<1>. QED
  BY <1>2, <1>3, <1>4 DEF Decodes

\* The reply to a request can be decoded, and what is sent instead cannot.
LEMMA ClientDecodes ==
  ASSUME NEW x, x.xid \in Nat, NEW ws \in Replies(x.xid), x.xdrs = Halves(ws)
  PROVE  Decodes("CLIENT", x) <=> ws = Reply(x.xid)
<1>1. ws \in Seq(RecordWords)
  BY MessageTypes
<1>2. WordsOf(x.xdrs) = ws /\ Whole(x.xdrs)
  BY <1>1, WordsOfHalves
<1>3. CASE ws = Reply(x.xid)
  <2>1. Len(ws) = 3 /\ ws[1] = Word("xid", x.xid) /\ ws[2] = Word("REPLY", x.xid)
    BY <1>3, MessageWords
  <2>2. ws[1].is = "xid" /\ ws[1].n = x.xid /\ ws[2].is = "REPLY"
    BY <2>1 DEF Word
  <2>. QED
    BY <1>2, <1>3, <2>1, <2>2 DEF Decodes
<1>4. CASE ws # Reply(x.xid)
  <2>1. ws = << Word("REPLY", x.xid) >>
    BY <1>4 DEF Replies
  <2>2. Len(ws) = 1
    BY <2>1
  <2>. QED
    BY <1>2, <1>4, <2>2 DEF Decodes
<1>. QED
  BY <1>3, <1>4

\* The number of a request that cannot be decoded, and the reply to it.
LEMMA GarbageReplied ==
  ASSUME NEW n \in Nat, NEW x \in Connections, x.xdrs = Halves(Garbage(n)),
         x.last = TRUE, x.remaining = 0
  PROVE  LET d == Received("SERVER", x)
         IN  /\ d \in Connections /\ d.state = "SENDING"
             /\ Sends(d, << Word("REPLY", n) >>, << Len(<< Word("REPLY", n) >>) >>, 0)
<1>1. PICK g, h : g = Garbage(n) /\ h = Halves(g)
  OBVIOUS
<1>2. g \in Seq(RecordWords) /\ Len(g) = 2 /\ g[1] = Word("xid", n)
  BY <1>1, MessageWords
<1>3. h \in Seq(HalfWords) /\ Len(h) = 4 /\ h[1].word = g[1]
  <2>1. /\ h \in Seq(HalfWords) /\ Len(h) = 2 * Len(g)
        /\ \A q \in 1 .. 2 * Len(g) : h[q] = [word |-> g[(q + 1) \div 2], half |-> (q + 1) % 2]
    BY <1>1, <1>2, HalvesOf
  <2>2. h[1] = [word |-> g[(1 + 1) \div 2], half |-> (1 + 1) % 2]
    BY <1>2, <2>1
  <2>3. (1 + 1) \div 2 = 1
    OBVIOUS
  <2>4. h[1].word = g[1]
    BY <2>2, <2>3
  <2>. QED
    BY <1>2, <2>1, <2>4
<1>4. x.xdrs # << >> /\ x.xdrs[1].word.n = n
  <2>1. x.xdrs = h
    BY <1>1
  <2>2. h # << >>
    <3>1. Len(h) = 4
      BY <1>3
    <3>. QED
      BY <3>1
  <2>. QED
    BY <1>2, <1>3, <2>1, <2>2 DEF Word
<1>5. ~ Decodes("SERVER", x)
  <2>1. g \in Requests(n) \cup {Garbage(n)} /\ x.xdrs = Halves(g)
    BY <1>1
  <2>. QED
    BY <1>1, <2>1, ServerDecodes
<1>6. PICK us, r, d : /\ us = << Word("xid", n), Word("REPLY", n) >> /\ r = << Word("REPLY", n) >>
                      /\ d = Received("SERVER", x)
  OBVIOUS
<1>7. d = EnterSending(x, us)
  BY <1>4, <1>5, <1>6 DEF Received
<1>8. r \in Seq(RecordWords) /\ Len(r) = 1
  BY <1>6, LostWord
<1>9. us \in Seq(RecordWords) /\ us # << >> /\ r = Tail(us) /\ Len(us) = Len(r) + 1
  <2>1. Word("xid", n) \in RecordWords /\ Word("REPLY", n) \in RecordWords
    BY DEF Word, RecordWords
  <2>2. us \in Seq(RecordWords) /\ Len(us) = 2 /\ us # << >> /\ Tail(us) = << us[2] >> /\ us[2] = r[1]
    BY <1>6, <2>1
  <2>3. r = << r[1] >>
    BY <1>6
  <2>. QED
    BY <1>8, <2>2, <2>3
<1>10. d \in Connections /\ Sends(d, r, <<Len(r)>>, 0)
  BY <1>7, <1>8, <1>9, SendsBegin
<1>11. d.state = "SENDING"
  BY <1>10 DEF Sends
<1>. QED
  BY <1>6, <1>10, <1>11

\* The end of the record: there is nothing more on its way.
LEMMA RecordEnds ==
  ASSUME NEW ws \in Seq(RecordWords), NEW cut \in Cuts(Len(ws)), NEW j \in 0 .. Size(ws, cut),
         NEW q \in Nat, q <= j, q = Size(ws, cut), NEW x, Read(x, ws, cut, q)
  PROVE  /\ j = Size(ws, cut) /\ Span(Sent(ws, cut), q, j) = << >>
         /\ x \in Connections /\ Complete(x, ws)
<1>1. Sent(ws, cut) \in Seq(HalfWords) /\ Size(ws, cut) \in Nat
  BY SentType
<1>2. j = q
  BY <1>1
<1>3. Span(Sent(ws, cut), q, q) = << >>
  BY <1>1, SpanEmpty
<1>. QED
  BY <1>2, <1>3 DEF Read

\* receive(): the connection takes the record on from where it was left.
LEMMA TakenOn ==
  ASSUME RecordsInv, NEW e \in Ends, NEW n, receive(e, n), ~ NoMemory,
         NEW ws \in Seq(RecordWords), NEW cut \in Cuts(Len(ws)), NEW j \in 0 .. Size(ws, cut),
         NEW k \in 0 .. j, k < Size(ws, cut), Reading(con[e], ws, cut, k),
         wire[e] = Span(Sent(ws, cut), k, j)
  PROVE  \E q \in Nat \ {0} : \E body :
           /\ q <= j /\ Read(body, ws, cut, q) /\ body.xid = con[e].xid
           /\ Become(e, Received(e, body))
           /\ wire' \in [Ends -> Seq(HalfWords)]
           /\ wire' = [wire EXCEPT ![e] = Span(Sent(ws, cut), q, j)]
           /\ arrived' = IF e = "SERVER" /\ con'[e].state = "READY"
                         THEN Append(arrived, WordsOf(con'[e].xdrs)) ELSE arrived
<1>1. PICK x, w, t, z : x = con[e] /\ w = wire[e] /\ t = Sent(ws, cut) /\ z = Size(ws, cut)
  OBVIOUS
<1>2. x \in Connections /\ wire \in [Ends -> Seq(HalfWords)]
  BY <1>1 DEF RecordsInv, RecordsTypeOK
<1>3. t \in Seq(HalfWords) /\ Len(t) = z /\ z \in Nat
  BY <1>1, SentType
<1>4. PICK p, y, m, body :
           /\ Taken(x, w, n, p, y, m, body)
           /\ Become(e, Received(e, body))
           /\ wire' = [wire EXCEPT ![e] = SubSeq(@, p + m + 1, Len(@))]
           /\ arrived' = IF e = "SERVER" /\ con'[e].state = "READY"
                         THEN Append(arrived, WordsOf(con'[e].xdrs)) ELSE arrived
  BY <1>1, ReceiveTakes
<1>5. n \in 1 .. Len(w)
  BY <1>1, ReceiveTakes
<1>6. w = Span(t, k, j)
  BY <1>1
<1>7. j \in Nat /\ k \in Nat /\ k <= j /\ j <= z
  BY <1>1, <1>3
<1>8. Len(w) = j - k
  BY <1>3, <1>6, <1>7, SpanLen
<1>9. n \in 1 .. j - k /\ k < j
  BY <1>5, <1>7, <1>8
<1>10. PICK a, q : a = p + m /\ q = k + a
  OBVIOUS
<1>11. a \in 1 .. n /\ Read(body, ws, cut, q) /\ body.xid = x.xid
  <2>1. Taken(x, Span(Sent(ws, cut), k, j), n, p, y, m, body)
    BY <1>1, <1>4, <1>6
  <2>2. j <= Size(ws, cut) /\ Reading(x, ws, cut, k)
    BY <1>1, <1>7
  <2>3. p + m \in 1 .. n /\ Read(body, ws, cut, k + (p + m)) /\ body.xid = x.xid
    BY <1>2, <1>7, <1>9, <2>1, <2>2, RecordRead
  <2>. QED
    BY <1>10, <2>3
<1>12. q \in Nat \ {0} /\ q <= j /\ a \in 0 .. j - k
  BY <1>7, <1>9, <1>10, <1>11
<1>13. SubSeq(w, a + 1, Len(w)) = Span(t, q, j) /\ Span(t, q, j) \in Seq(HalfWords)
  <2>1. j <= Len(t)
    BY <1>3, <1>7
  <2>2. /\ SubSeq(Span(t, k, j), a + 1, Len(Span(t, k, j))) = Span(t, k + a, j)
        /\ Span(t, k + a, j) \in Seq(HalfWords)
    <3>1. t \in Seq(HalfWords) /\ k \in Nat /\ j \in Nat /\ k <= j /\ a \in 0 .. j - k
      BY <1>3, <1>7, <1>12
    <3>. QED
      BY <2>1, <3>1, WireLeft
  <2>. QED
    BY <1>6, <1>10, <2>2
<1>14. wire' = [wire EXCEPT ![e] = Span(t, q, j)]
  BY <1>1, <1>4, <1>10, <1>13
<1>15. wire' \in [Ends -> Seq(HalfWords)]
  BY <1>2, <1>13, <1>14
<1>. QED
  BY <1>1, <1>4, <1>11, <1>12, <1>14, <1>15

\* receive(): what the server takes of a request.
LEMMA ServerReceives ==
  ASSUME RecordsInv, NEW n \in 1 .. Len(wire["SERVER"]), receive("SERVER", n), ~ NoMemory
  PROVE  RecordsInv'
<1>1. PICK c, v, w : c = con["CLIENT"] /\ v = con["SERVER"] /\ w = wire["SERVER"]
  OBVIOUS
<1>2. c \in Connections /\ v \in Connections /\ UnderWay(c, v) /\ c.xid \in Nat
  BY <1>1 DEF RecordsInv, RecordsTypeOK, Ends, Connections
<1>3. /\ v.state \in {"IDLE", "WAITING", "RECEIVING"} /\ w # << >> /\ requested' = requested
  <2>1. n \in 1 .. Len(w)
    BY <1>1
  <2>2. w # << >>
    BY <2>1
  <2>. QED
    BY <1>1, <2>2 DEF receive
<1>4. PICK ws \in Requests(c.xid) \cup {Garbage(c.xid)} : \E cut \in Cuts(Len(ws)) :
         \E j \in 0 .. Size(ws, cut) : \E k \in 0 .. j : Calling(c, v, ws, cut, k, j)
  BY <1>1, <1>2, <1>3 DEF UnderWay, Quiet, Served, Answering, Over
<1>5. PICK cut \in Cuts(Len(ws)) :
         \E j \in 0 .. Size(ws, cut) : \E k \in 0 .. j : Calling(c, v, ws, cut, k, j)
  BY <1>4
<1>6. PICK j \in 0 .. Size(ws, cut) : \E k \in 0 .. j : Calling(c, v, ws, cut, k, j)
  BY <1>5
<1>7. PICK k \in 0 .. j : Calling(c, v, ws, cut, k, j)
  BY <1>6
<1>8. ws \in Seq(RecordWords)
  BY <1>2, MessageTypes
<1>9. PICK z : z = Size(ws, cut)
  OBVIOUS
<1>10. z \in Nat
  BY <1>8, <1>9, SentType
<1>11. /\ k < z /\ Reading(v, ws, cut, k) /\ w = Span(Sent(ws, cut), k, j)
       /\ wire["CLIENT"] = << >>
       /\ Sends(c, ws, cut, j) \/ (c.state = "WAITING" /\ Waits(c) /\ j = z) \/ Ended(c)
       /\ requested = IF ws = Garbage(c.xid) THEN arrived ELSE Append(arrived, ws)
  BY <1>1, <1>7, <1>9 DEF Calling, Receives
<1>12. PICK q, body :
           /\ q \in Nat \ {0} /\ q <= j /\ Read(body, ws, cut, q) /\ body.xid = v.xid
           /\ Become("SERVER", Received("SERVER", body))
           /\ wire' \in [Ends -> Seq(HalfWords)]
           /\ wire' = [wire EXCEPT !["SERVER"] = Span(Sent(ws, cut), q, j)]
           /\ arrived' = IF con'["SERVER"].state = "READY"
                         THEN Append(arrived, WordsOf(con'["SERVER"].xdrs)) ELSE arrived
  BY <1>1, <1>8, <1>9, <1>11, TakenOn DEF Ends
<1>13. wire'["SERVER"] = Span(Sent(ws, cut), q, j) /\ wire'["CLIENT"] = << >>
  <2>1. wire \in [Ends -> Seq(HalfWords)] /\ "SERVER" \in Ends /\ "CLIENT" \in Ends
    BY DEF RecordsInv, RecordsTypeOK, Ends
  <2>. QED
    BY <1>11, <1>12, <2>1
<1>14. PICK d : d = Received("SERVER", body)
  OBVIOUS
<1>15. ASSUME d \in Connections
       PROVE  con' \in [Ends -> Connections] /\ con'["SERVER"] = d /\ con'["CLIENT"] = c
  <2>1. Become("SERVER", d)
    BY <1>12, <1>14
  <2>. QED
    BY <1>1, <1>15, <2>1, ServerStep DEF RecordsInv
<1>16. arrived \in Seq(Seq(RecordWords)) /\ requested' \in Seq(Seq(RecordWords))
  BY <1>3 DEF RecordsInv, RecordsTypeOK
<1>17. CASE q < z
  <2>1. /\ d \in Connections /\ d.state = "RECEIVING" /\ Receives(d, ws, cut, q, "IDLE")
    BY <1>8, <1>9, <1>12, <1>14, <1>17, ReceivedPart DEF Ends
  <2>2. con' \in [Ends -> Connections] /\ con'["SERVER"] = d /\ con'["CLIENT"] = c
    BY <1>15, <2>1
  <2>3. arrived' = arrived
    BY <1>12, <2>1, <2>2
  <2>4. Calling(c, d, ws, cut, q, j)'
    BY <1>3, <1>9, <1>11, <1>13, <2>1, <2>3 DEF Calling
  <2>5. q \in 0 .. j
    BY <1>12
  <2>6. UnderWay(c, d)'
    BY <2>4, <2>5 DEF UnderWay
  <2>. QED
    BY <1>12, <1>13, <1>16, <2>2, <2>3, <2>6 DEF RecordsInv, RecordsTypeOK
<1>18. CASE ~ q < z
  <2>1. q = z
    BY <1>9, <1>10, <1>12, <1>18
  <2>2. j = z /\ Span(Sent(ws, cut), q, j) = << >> /\ body \in Connections /\ Complete(body, ws)
    BY <1>8, <1>9, <1>12, <2>1, RecordEnds
  <2>3. (c.state = "WAITING" /\ Waits(c)) \/ Ended(c)
    BY <1>9, <1>10, <1>11, <2>2 DEF Sends
  <2>4. body.xdrs = Halves(ws) /\ body.last = TRUE /\ body.remaining = 0
    BY <2>2 DEF Complete
  <2>5. wire'["SERVER"] = << >> /\ wire'["CLIENT"] = << >>
    BY <1>13, <2>2
  <2>6. CASE ws # Garbage(c.xid)
    <3>1. Decodes("SERVER", body)
      BY <1>2, <2>4, <2>6, ServerDecodes
    <3>2. d = [body EXCEPT !.state = "READY"]
      BY <1>14, <2>4, <3>1 DEF Received
    <3>3. d \in Connections
      BY <2>2, <3>2, ConnectionStates DEF ConStates
    <3>4. d.state = "READY" /\ d.xdrs = Halves(ws)
      BY <2>2, <2>4, <3>2 DEF Connections
    <3>5. con' \in [Ends -> Connections] /\ con'["SERVER"] = d /\ con'["CLIENT"] = c
      BY <1>15, <3>3
    <3>6. arrived' = Append(arrived, ws)
      <4>1. WordsOf(d.xdrs) = ws
        BY <1>8, <3>4, WordsOfHalves
      <4>. QED
        BY <1>12, <3>4, <3>5, <4>1
    <3>7. arrived' = requested'
      BY <1>3, <1>11, <2>6, <3>6
    <3>8. Served(c, d, ws)'
      BY <2>3, <2>5, <3>4, <3>7 DEF Served
    <3>9. UnderWay(c, d)'
      BY <2>6, <3>8 DEF UnderWay
    <3>. QED
      BY <1>12, <1>13, <1>16, <3>5, <3>7, <3>9 DEF RecordsInv, RecordsTypeOK
  <2>7. CASE ws = Garbage(c.xid)
    <3>1. PICK r : r = << Word("REPLY", c.xid) >>
      OBVIOUS
    <3>2. d \in Connections /\ d.state = "SENDING" /\ Sends(d, r, <<Len(r)>>, 0)
      BY <1>2, <1>14, <2>2, <2>4, <2>7, <3>1, GarbageReplied
    <3>3. con' \in [Ends -> Connections] /\ con'["SERVER"] = d /\ con'["CLIENT"] = c
      BY <1>15, <3>2
    <3>4. arrived' = arrived /\ arrived' = requested'
      BY <1>3, <1>11, <1>12, <2>7, <3>2, <3>3
    <3>5. r \in Replies(c.xid)
      BY <3>1 DEF Replies
    <3>6. UnderWay(c, d)'
      BY <1>2, <2>3, <2>5, <3>2, <3>4, <3>5, AnswerBegins
    <3>. QED
      BY <1>12, <1>13, <1>16, <3>3, <3>4, <3>6 DEF RecordsInv, RecordsTypeOK
  <2>. QED
    BY <2>6, <2>7
<1>. QED
  BY <1>17, <1>18

\* receive(): what a client takes of the reply.
LEMMA ClientReceives ==
  ASSUME RecordsInv, NEW n \in 1 .. Len(wire["CLIENT"]), receive("CLIENT", n), ~ NoMemory
  PROVE  RecordsInv'
<1>1. PICK c, v, w : c = con["CLIENT"] /\ v = con["SERVER"] /\ w = wire["CLIENT"]
  OBVIOUS
<1>2. c \in Connections /\ v \in Connections /\ UnderWay(c, v) /\ c.xid \in Nat
  BY <1>1 DEF RecordsInv, RecordsTypeOK, Ends, Connections
<1>3. /\ c.state \in {"IDLE", "WAITING", "RECEIVING"} /\ w # << >> /\ requested' = requested
  <2>1. n \in 1 .. Len(w)
    BY <1>1
  <2>2. w # << >>
    BY <2>1
  <2>. QED
    BY <1>1, <2>2 DEF receive
<1>4. PICK ws \in Replies(c.xid) : \E j \in 0 .. Size(ws, <<Len(ws)>>) : \E k \in 0 .. j :
         Answering(c, v, ws, <<Len(ws)>>, k, j)
  BY <1>1, <1>2, <1>3 DEF UnderWay, Quiet, Served, Calling, Over, Ended
<1>5. PICK cut : cut = <<Len(ws)>>
  OBVIOUS
<1>6. PICK j \in 0 .. Size(ws, cut) : \E k \in 0 .. j : Answering(c, v, ws, cut, k, j)
  BY <1>4, <1>5
<1>7. PICK k \in 0 .. j : Answering(c, v, ws, cut, k, j)
  BY <1>6
<1>8. ws \in Seq(RecordWords) /\ cut \in Cuts(Len(ws))
  <2>1. ws \in Seq(RecordWords)
    BY <1>2, MessageTypes
  <2>. QED
    BY <1>5, <2>1, OneFragment
<1>9. PICK z : z = Size(ws, cut)
  OBVIOUS
<1>10. z \in Nat
  BY <1>8, <1>9, SentType
<1>11. /\ k < z /\ Reading(c, ws, cut, k) /\ w = Span(Sent(ws, cut), k, j)
       /\ wire["SERVER"] = << >> /\ arrived = requested
       /\ Sends(v, ws, cut, j) \/ (v.state = "IDLE" /\ Waits(v) /\ j = z)
  BY <1>1, <1>3, <1>7, <1>9 DEF Answering, Receives, Ended
<1>12. PICK q, body :
           /\ q \in Nat \ {0} /\ q <= j /\ Read(body, ws, cut, q) /\ body.xid = c.xid
           /\ Become("CLIENT", Received("CLIENT", body))
           /\ wire' \in [Ends -> Seq(HalfWords)]
           /\ wire' = [wire EXCEPT !["CLIENT"] = Span(Sent(ws, cut), q, j)]
           /\ arrived' = arrived
  BY <1>1, <1>8, <1>9, <1>11, TakenOn DEF Ends
<1>13. wire'["CLIENT"] = Span(Sent(ws, cut), q, j) /\ wire'["SERVER"] = << >>
  <2>1. wire \in [Ends -> Seq(HalfWords)] /\ "SERVER" \in Ends /\ "CLIENT" \in Ends
    BY DEF RecordsInv, RecordsTypeOK, Ends
  <2>. QED
    BY <1>11, <1>12, <2>1
<1>14. PICK d : d = Received("CLIENT", body)
  OBVIOUS
<1>15. ASSUME d \in Connections, UnderWay(d, v)'
       PROVE  RecordsInv'
  <2>1. Become("CLIENT", d)
    BY <1>12, <1>14
  <2>2. con' \in [Ends -> Connections] /\ con'["CLIENT"] = d /\ con'["SERVER"] = v
    BY <1>1, <1>15, <2>1, ClientStep DEF RecordsInv
  <2>. QED
    BY <1>3, <1>12, <1>15, <2>2 DEF RecordsInv, RecordsTypeOK
<1>16. arrived' = requested'
  BY <1>3, <1>11, <1>12
<1>17. CASE q < z
  <2>1. /\ d \in Connections /\ d.xid = body.xid /\ Receives(d, ws, cut, q, "WAITING")
    <3>1. /\ q \in Nat \ {0} /\ q < Size(ws, cut) /\ Read(body, ws, cut, q)
          /\ "CLIENT" \in Ends
      BY <1>9, <1>12, <1>17 DEF Ends
    <3>. QED
      BY <1>8, <1>14, <3>1, ReceivedPart
  <2>2. Answering(d, v, ws, cut, q, j)'
    BY <1>9, <1>11, <1>13, <1>16, <2>1 DEF Answering
  <2>3. q \in 0 .. j /\ ws \in Replies(d.xid)
    BY <1>12, <2>1
  <2>4. UnderWay(d, v)'
    BY <1>5, <2>2, <2>3 DEF UnderWay
  <2>. QED
    BY <1>15, <2>1, <2>4
<1>18. CASE ~ q < z
  <2>1. q = z
    BY <1>9, <1>10, <1>12, <1>18
  <2>2. j = z /\ Span(Sent(ws, cut), q, j) = << >> /\ body \in Connections /\ Complete(body, ws)
    BY <1>8, <1>9, <1>12, <2>1, RecordEnds
  <2>3. v.state = "IDLE" /\ Waits(v)
    BY <1>9, <1>10, <1>11, <2>2 DEF Sends
  <2>4. body.xdrs = Halves(ws) /\ body.last = TRUE /\ body.remaining = 0
    BY <2>2 DEF Complete
  <2>5. wire'["SERVER"] = << >> /\ wire'["CLIENT"] = << >>
    BY <1>13, <2>2
  <2>6. Decodes("CLIENT", body) <=> ws = Reply(c.xid)
    BY <1>2, <1>12, <2>4, ClientDecodes
  <2>7. d = [body EXCEPT !.state = IF ws = Reply(c.xid) THEN "READY" ELSE "READY_FAILED"]
    BY <1>14, <2>4, <2>6 DEF Received
  <2>8. d \in Connections
    BY <2>2, <2>7, ConnectionStates DEF ConStates
  <2>9. /\ d.state = IF ws = Reply(c.xid) THEN "READY" ELSE "READY_FAILED"
        /\ d.xdrs = Halves(ws) /\ d.xid = c.xid
    BY <1>12, <2>2, <2>4, <2>7 DEF Connections
  <2>10. d.state = "READY" => WordsOf(d.xdrs) = Reply(d.xid)
    BY <1>8, <2>9, WordsOfHalves
  <2>11. d.state = "READY" \/ Ended(d)
    BY <2>9 DEF Ended
  <2>12. Quiet(d, v)'
    BY <1>16, <2>3, <2>5, <2>10, <2>11 DEF Quiet
  <2>13. UnderWay(d, v)'
    BY <2>12 DEF UnderWay
  <2>. QED
    BY <1>15, <2>8, <2>13
<1>. QED
  BY <1>17, <1>18

-----------------------------------------------------------------------------
\* At first nothing was sent.
LEMMA RecordsBegin == RecordsInit => RecordsInv
<1>. SUFFICES ASSUME RecordsInit PROVE RecordsInv
  OBVIOUS
<1>1. PICK c, v : c = con["CLIENT"] /\ v = con["SERVER"]
  OBVIOUS
<1>2. << >> \in Seq(HalfWords) /\ << >> \in Seq(Seq(RecordWords))
  OBVIOUS
<1>3. /\ \A s \in ConStates : Fresh(s) \in Connections
      /\ c = Fresh("CONNECTED") /\ v = Fresh("IDLE")
  <2>1. \A s \in ConStates : Fresh(s) \in Connections
    BY <1>2 DEF Fresh, Connections
  <2>2. c = Fresh("CONNECTED") /\ v = Fresh("IDLE")
    BY <1>1 DEF RecordsInit, Ends
  <2>. QED
    BY <2>1, <2>2
<1>4. RecordsTypeOK
  <2>1. con \in [Ends -> Connections]
    BY <1>3 DEF RecordsInit, ConStates
  <2>. QED
    BY <1>2, <2>1 DEF RecordsInit, RecordsTypeOK
<1>5. c.state = "CONNECTED" /\ v.state = "IDLE" /\ Waits(v)
  BY <1>3 DEF Fresh, Waits
<1>6. wire["SERVER"] = << >> /\ wire["CLIENT"] = << >> /\ arrived = requested
  BY DEF RecordsInit, Ends
<1>7. Quiet(c, v)
  BY <1>5, <1>6 DEF Quiet
<1>. QED
  BY <1>1, <1>4, <1>7 DEF RecordsInv, UnderWay

\* Every step keeps the invariant, unless the server gives up or memory runs out.
LEMMA RecordsStep ==
  ASSUME RecordsInv, [RecordsNext]_recordVars, ~ ServerTimesOut, ~ NoMemory
  PROVE  RecordsInv'
<1>1. CASE sendRequest
  BY <1>1, RequestSent
<1>2. CASE sendReply
  BY <1>2, ReplySent
<1>3. CASE close
  BY <1>3, ClientCloses
<1>4. ASSUME NEW e \in Ends, receiveEnd(e) \/ sendFails(e) PROVE RecordsInv'
  BY <1>4, ConnectionEnds
<1>5. ASSUME NEW e \in Ends, timedOut(e) PROVE RecordsInv'
  BY <1>5, ClientTimesOut
<1>6. ASSUME NEW e \in Ends, NEW n \in 1 .. Len(wire[e]), receive(e, n) PROVE RecordsInv'
  <2>1. CASE e = "CLIENT"
    BY <1>6, <2>1, ClientReceives
  <2>2. CASE e = "SERVER"
    BY <1>6, <2>2, ServerReceives
  <2>. QED
    BY <2>1, <2>2 DEF Ends
<1>7. ASSUME NEW e \in Ends, NEW n \in 1 .. Len(con[e].xdrs), send(e, n) PROVE RecordsInv'
  <2>1. CASE e = "CLIENT"
    BY <1>7, <2>1, ClientSends
  <2>2. CASE e = "SERVER"
    BY <1>7, <2>2, ServerSends
  <2>. QED
    BY <2>1, <2>2 DEF Ends
<1>8. CASE UNCHANGED recordVars
  <2>1. con' = con /\ wire' = wire /\ requested' = requested /\ arrived' = arrived
    BY <1>8 DEF recordVars
  <2>2. PICK c, v : c = con["CLIENT"] /\ v = con["SERVER"]
    OBVIOUS
  <2>3. UnderWay(c, v)
    BY <2>2 DEF RecordsInv
  <2>4. Quiet(c, v) => Quiet(c, v)'
    BY <2>1 DEF Quiet
  <2>5. ASSUME NEW ws, NEW cut, NEW k, NEW j
        PROVE  /\ Calling(c, v, ws, cut, k, j) => Calling(c, v, ws, cut, k, j)'
               /\ Answering(c, v, ws, cut, k, j) => Answering(c, v, ws, cut, k, j)'
    BY <2>1 DEF Calling, Answering
  <2>6. ASSUME NEW ws PROVE Served(c, v, ws) => Served(c, v, ws)'
    BY <2>1 DEF Served
  <2>7. Over(c, v) => Over(c, v)'
    BY <2>1 DEF Over
  <2>8. UnderWay(c, v)'
    BY <2>3, <2>4, <2>5, <2>6, <2>7 DEF UnderWay
  <2>. QED
    BY <2>1, <2>2, <2>8 DEF RecordsInv, RecordsTypeOK
<1>. QED
  BY <1>1, <1>2, <1>3, <1>4, <1>5, <1>6, <1>7, <1>8 DEF RecordsNext

\* What is next on its way is a mark.
LEMMA MarkNext ==
  ASSUME NEW ws \in Seq(RecordWords), NEW cut \in Cuts(Len(ws)), NEW j \in 0 .. Size(ws, cut),
         Span(Sent(ws, cut), 0, j) # << >>
  PROVE  LET w == Span(Sent(ws, cut), 0, j) IN Head(w).word.is = "mark" /\ Head(w).half = 0
<1>1. PICK t, w : t = Sent(ws, cut) /\ w = Span(t, 0, j)
  OBVIOUS
<1>2. t \in Seq(HalfWords) /\ Len(t) = Size(ws, cut) /\ Size(ws, cut) \in Nat
  BY <1>1, SentType
<1>3. j \in Nat /\ 0 <= j /\ j <= Len(t) /\ j # 0
  <2>1. Span(t, 0, 0) = << >>
    BY <1>2, SpanEmpty
  <2>. QED
    BY <1>1, <1>2, <2>1
<1>4. w \in Seq(HalfWords) /\ w # << >>
  BY <1>1, <1>2, <1>3, SpanType
<1>5. w[1] = t[1]
  <2>1. \A i \in 1 .. j - 0 : Span(t, 0, j)[i] = t[0 + i]
    BY <1>2, <1>3, SpanElements
  <2>2. 1 \in 1 .. j - 0 /\ 0 + 1 = 1
    BY <1>3
  <2>. QED
    BY <1>1, <2>1, <2>2
<1>6. t[1] = [word |-> Mark(Extent(cut, 1), 1 = Len(cut)), half |-> 0]
  <2>1. Len(ws) \in Nat
    BY LenProperties
  <2>2. 1 \in 1 .. Len(cut)
    BY <2>1, CutsType
  <2>3. Start(cut, 1) + 1 = 1
    BY DEF Start, Before
  <2>4. Sent(ws, cut)[Start(cut, 1) + 1] =
          [word |-> Mark(Extent(cut, 1), 1 = Len(cut)), half |-> 0]
    BY <2>2, MarkAt
  <2>. QED
    BY <1>1, <2>3, <2>4
<1>7. Head(w) = w[1]
  BY <1>4
<1>8. Head(w).word.is = "mark" /\ Head(w).half = 0
  BY <1>5, <1>6, <1>7 DEF Mark
<1>. QED
  BY <1>1, <1>8

\* The invariant implies that records arrive whole.
LEMMA RecordsImplied ==
  ASSUME RecordsInv
  PROVE  RecordsArriveWhole
<1>1. PICK c, v : c = con["CLIENT"] /\ v = con["SERVER"]
  OBVIOUS
<1>2. c \in Connections /\ UnderWay(c, v) /\ c.xid \in Nat
  BY <1>1 DEF RecordsInv, RecordsTypeOK, Ends, Connections
<1>3. IsPrefix(arrived, requested)
  BY ArrivedPrefix
<1>4. c.state = "READY" => WordsOf(c.xdrs) = Reply(c.xid)
  BY <1>2 DEF UnderWay, Quiet, Calling, Served, Answering, Over, Sends, Receives, Ended
<1>5. ASSUME NEW e \in Ends, con[e].state \in {"IDLE", "WAITING"}, wire[e] # << >>
      PROVE  Head(wire[e]).word.is = "mark" /\ Head(wire[e]).half = 0
  <2>1. PICK ws \in Requests(c.xid) \cup {Garbage(c.xid)} \cup Replies(c.xid) :
          \E cut \in Cuts(Len(ws)) : \E j \in 0 .. Size(ws, cut) :
             wire[e] = Span(Sent(ws, cut), 0, j)
    <3>1. CASE e = "SERVER"
      <4>1. PICK ws \in Requests(c.xid) \cup {Garbage(c.xid)} : \E cut \in Cuts(Len(ws)) :
               \E j \in 0 .. Size(ws, cut) : \E k \in 0 .. j : Calling(c, v, ws, cut, k, j)
        BY <1>1, <1>2, <1>5, <3>1 DEF UnderWay, Quiet, Served, Answering, Over
      <4>2. ASSUME NEW cut, NEW k, NEW j, Calling(c, v, ws, cut, k, j)
            PROVE  wire[e] = Span(Sent(ws, cut), 0, j)
        BY <1>1, <1>5, <3>1, <4>2 DEF Calling, Receives
      <4>. QED
        BY <4>1, <4>2
    <3>2. CASE e = "CLIENT"
      <4>1. PICK ws \in Replies(c.xid) : \E j \in 0 .. Size(ws, <<Len(ws)>>) : \E k \in 0 .. j :
               Answering(c, v, ws, <<Len(ws)>>, k, j)
        BY <1>1, <1>2, <1>5, <3>2 DEF UnderWay, Quiet, Calling, Served, Over, Ended
      <4>2. ASSUME NEW cut, NEW k, NEW j, Answering(c, v, ws, cut, k, j)
            PROVE  wire[e] = Span(Sent(ws, cut), 0, j)
        BY <1>1, <1>5, <3>2, <4>2 DEF Answering, Receives, Ended
      <4>3. <<Len(ws)>> \in Cuts(Len(ws))
        <5>1. ws \in Seq(RecordWords)
          BY <1>2, MessageTypes
        <5>. QED
          BY <5>1, OneFragment
      <4>. QED
        BY <4>1, <4>2, <4>3
    <3>. QED
      BY <3>1, <3>2 DEF Ends
  <2>2. PICK cut \in Cuts(Len(ws)) : \E j \in 0 .. Size(ws, cut) : wire[e] = Span(Sent(ws, cut), 0, j)
    BY <2>1
  <2>3. PICK j \in 0 .. Size(ws, cut) : wire[e] = Span(Sent(ws, cut), 0, j)
    BY <2>2
  <2>4. ws \in Seq(RecordWords)
    BY <1>2, MessageTypes
  <2>5. Span(Sent(ws, cut), 0, j) # << >>
    BY <1>5, <2>3
  <2>6. /\ Head(Span(Sent(ws, cut), 0, j)).word.is = "mark"
        /\ Head(Span(Sent(ws, cut), 0, j)).half = 0
    BY <2>4, <2>5, MarkNext
  <2>. QED
    BY <2>3, <2>6
<1>6. FramingIsKept
  BY <1>5 DEF FramingIsKept
<1>. QED
  BY <1>1, <1>3, <1>4, <1>6 DEF RecordsArriveWhole

\* The server serves the requests that were sent, whole, in their order and each
\* once, and a client is presented the whole reply to its last request: wherever the
\* streams of KssTCPXDRConnection are cut into reads and fragments, and whenever the
\* client gives up, as long as neither the server gives up on a record nor the
\* fragment pool runs out.
THEOREM RecordsStayWhole ==
  ASSUME ~ ServerTimesOut, ~ NoMemory
  PROVE  RecordsSpec => []RecordsArriveWhole
<1>1. RecordsInv /\ [RecordsNext]_recordVars => RecordsInv'
  BY RecordsStep
<1>. QED
  BY <1>1, RecordsBegin, RecordsImplied, PTL DEF RecordsSpec
=============================================================================
