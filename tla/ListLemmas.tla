----------------------------- MODULE ListLemmas -----------------------------
(***************************************************************************)
(* Facts about the library operators the lists of the connection manager   *)
(* are modelled with: the least and the greatest element of a set of       *)
(* numbers, removing an element from a sequence and inserting one, the     *)
(* parts of a sequence.                                                    *)
(***************************************************************************)
EXTENDS Integers, SequencesExt, SequenceTheorems, WellFoundedInduction, TLAPS

\* Every set of natural numbers has a minimal element with respect to <.
LEMMA LessThanWellFounded ==
    IsWellFoundedOn({p \in Nat \X Nat : p[1] < p[2]}, Nat)
<1>1. OpToRel(<, Nat) = {p \in Nat \X Nat : p[1] < p[2]}
  BY Zenon DEF OpToRel
<1>. QED
  BY <1>1, NatLessThanWellFounded, Zenon

\* Min() of a non-empty set of natural numbers is its least element: the next
\* descriptor the loops over an fd_set come to.
LEMMA MinOfSet ==
  ASSUME NEW S, S \subseteq Nat, S # {}
  PROVE  /\ Min(S) \in S
         /\ \A y \in S : Min(S) <= y
<1>. DEFINE R == {p \in Nat \X Nat : p[1] < p[2]}
<1>1. PICK x \in S : \A y \in S : ~ (<<y, x>> \in R)
  <2>. HIDE DEF R
  <2>1. IsWellFoundedOn(R, Nat)
    BY LessThanWellFounded DEF R
  <2>. QED
    BY <2>1, WFMin
<1>2. ASSUME NEW y \in S PROVE x <= y
  <2>1. x \in Nat /\ y \in Nat
    OBVIOUS
  <2>2. y < x => <<y, x>> \in R
    BY <2>1
  <2>3. ~ (y < x)
    BY <1>1, <2>2
  <2>. QED
    BY <2>1, <2>3
<1>. QED
  BY <1>2 DEF Min

\* Max() of a non-empty bounded set of natural numbers is its greatest
\* element: the last item of the timeout list that is not due later.
LEMMA MaxOfSet ==
  ASSUME NEW n \in Nat, NEW S, S \subseteq 0 .. n, S # {}
  PROVE  /\ Max(S) \in S
         /\ \A y \in S : y <= Max(S)
<1>. DEFINE T == {k \in Nat : n - k \in S}
            k == Min(T)
<1>1. ASSUME NEW x \in S PROVE n - x \in T
  <2>1. x \in 0 .. n
    OBVIOUS
  <2>2. n - x \in Nat /\ n - (n - x) = x
    BY <2>1
  <2>. QED
    BY <2>2
<1>2. T \subseteq Nat /\ T # {}
  BY <1>1
<1>3. k \in T /\ \A y \in T : k <= y
  <2>. HIDE DEF T
  <2>. QED
    BY <1>2, MinOfSet
<1>4. k \in Nat /\ n - k \in S
  BY <1>3
<1>5. ASSUME NEW y \in S PROVE y <= n - k
  <2>1. y \in 0 .. n
    OBVIOUS
  <2>2. k <= n - y
    BY <1>1, <1>3
  <2>. HIDE DEF k
  <2>. QED
    BY <1>4, <2>1, <2>2
<1>6. n - k \in Int /\ \A y \in S : y \in Int
  BY <1>4
<1>. HIDE DEF k
<1>. QED
  BY <1>4, <1>5, <1>6 DEF Max

-----------------------------------------------------------------------------
\* The elements of a sequence.
LEMMA ToSetOfSeq ==
  ASSUME NEW S, NEW s \in Seq(S)
  PROVE  ToSet(s) = {s[i] : i \in 1 .. Len(s)} /\ ToSet(s) \subseteq S
  BY DEF ToSet

\* RemoveAt() leaves out one position.
LEMMA RemoveAtProperties ==
  ASSUME NEW S, NEW s \in Seq(S), NEW k \in 1 .. Len(s)
  PROVE  /\ RemoveAt(s, k) \in Seq(S)
         /\ Len(RemoveAt(s, k)) = Len(s) - 1
         /\ \A i \in 1 .. Len(s) - 1 :
                RemoveAt(s, k)[i] = IF i < k THEN s[i] ELSE s[i + 1]
<1>. DEFINE a == SubSeq(s, 1, k - 1)
            b == SubSeq(s, k + 1, Len(s))
<1>1. /\ a \in Seq(S) /\ Len(a) = k - 1
      /\ \A i \in 1 .. k - 1 : a[i] = s[i]
  <2>1. \A i \in 1 .. k - 1 : s[i] \in S
    BY ElementOfSeq
  <2>. QED
    BY <2>1, SubSeqProperties
<1>2. /\ b \in Seq(S) /\ Len(b) = Len(s) - k
      /\ \A i \in 1 .. Len(s) - k : b[i] = s[i + k]
  <2>1. \A i \in k + 1 .. Len(s) : s[i] \in S
    BY ElementOfSeq
  <2>. QED
    BY <2>1, SubSeqProperties
<1>3. RemoveAt(s, k) = a \o b
  BY DEF RemoveAt
<1>. HIDE DEF a, b
<1>4. /\ a \o b \in Seq(S) /\ Len(a \o b) = Len(a) + Len(b)
      /\ \A i \in 1 .. Len(a) + Len(b) :
             (a \o b)[i] = IF i <= Len(a) THEN a[i] ELSE b[i - Len(a)]
  BY <1>1, <1>2, ConcatProperties
<1>5. Len(s) \in Nat /\ Len(a) + Len(b) = Len(s) - 1
  BY <1>1, <1>2
<1>6. ASSUME NEW i \in 1 .. Len(s) - 1
      PROVE  RemoveAt(s, k)[i] = IF i < k THEN s[i] ELSE s[i + 1]
  <2>1. CASE i < k
    BY <1>1, <1>3, <1>4, <1>5, <2>1
  <2>2. CASE ~ (i < k)
    <3>. DEFINE j == i - Len(a)
    <3>1. j \in 1 .. Len(s) - k /\ j + k = i + 1
      BY <1>1, <1>5, <2>2
    <3>2. b[j] = s[i + 1]
      <4>. HIDE DEF j
      <4>. QED
        BY <1>2, <3>1
    <3>3. (a \o b)[i] = b[j]
      BY <1>1, <1>4, <1>5, <2>2
    <3>. QED
      BY <1>3, <2>2, <3>2, <3>3
  <2>. QED
    BY <2>1, <2>2
<1>. QED
  BY <1>3, <1>4, <1>5, <1>6

\* RemoveFirst() takes out the element at one of its positions, if any: this
\* is what unlinking an item does to the list the item is in.
LEMMA RemoveFirstCases ==
  ASSUME NEW S, NEW s \in Seq(S), NEW e
  PROVE  \/ e \notin ToSet(s) /\ RemoveFirst(s, e) = s
         \/ \E k \in 1 .. Len(s) : s[k] = e /\ RemoveFirst(s, e) = RemoveAt(s, k)
<1>1. CASE \E i \in 1 .. Len(s) : s[i] = e
  <2>. DEFINE I == {i \in 1 .. Len(s) : s[i] = e}
  <2>1. SelectInSeq(s, LAMBDA v : v = e) = IF I # {} THEN Min(I) ELSE 0
    BY Zenon DEF SelectInSeq
  <2>2. I # {} /\ I \subseteq Nat
    BY <1>1
  <2>3. Min(I) \in I
    <3>. HIDE DEF I
    <3>. QED
      BY <2>2, MinOfSet
  <2>4. RemoveFirst(s, e) = RemoveAt(s, SelectInSeq(s, LAMBDA v : v = e))
    BY <1>1, Zenon DEF RemoveFirst
  <2>5. RemoveFirst(s, e) = RemoveAt(s, Min(I))
    <3>. HIDE DEF I
    <3>. QED
      BY <2>1, <2>2, <2>4, Zenon
  <2>. QED
    BY <2>3, <2>5
<1>2. CASE ~ \E i \in 1 .. Len(s) : s[i] = e
  <2>1. RemoveFirst(s, e) = s
    BY <1>2, Zenon DEF RemoveFirst
  <2>. QED
    BY <1>2, <2>1, ToSetOfSeq
<1>. QED
  BY <1>1, <1>2

\* Removing an element keeps the type of a sequence.
LEMMA RemoveFirstType ==
  ASSUME NEW S, NEW s \in Seq(S), NEW e
  PROVE  RemoveFirst(s, e) \in Seq(S)
  BY RemoveFirstCases, RemoveAtProperties

\* Removing an element from a sequence without duplicates removes it from the
\* set of its elements, and leaves a sequence without duplicates.
LEMMA RemoveFirstProperties ==
  ASSUME NEW S, NEW s \in Seq(S), NEW e, IsInjective(s)
  PROVE  /\ RemoveFirst(s, e) \in Seq(S)
         /\ ToSet(RemoveFirst(s, e)) = ToSet(s) \ {e}
         /\ IsInjective(RemoveFirst(s, e))
<1>. DEFINE r == RemoveFirst(s, e)
<1>1. r \in Seq(S)
  BY RemoveFirstType
<1>2. CASE e \notin ToSet(s) /\ r = s
  BY <1>1, <1>2
<1>3. ASSUME NEW k \in 1 .. Len(s), s[k] = e, r = RemoveAt(s, k)
      PROVE  ToSet(r) = ToSet(s) \ {e} /\ IsInjective(r)
  <2>1. /\ Len(s) \in Nat /\ DOMAIN s = 1 .. Len(s)
        /\ DOMAIN r = 1 .. Len(s) - 1
        /\ \A i \in 1 .. Len(s) - 1 : r[i] = IF i < k THEN s[i] ELSE s[i + 1]
    BY <1>1, <1>3, RemoveAtProperties, LenProperties
  <2>. HIDE DEF r
  <2>2. \A i, j \in 1 .. Len(s) : s[i] = s[j] => i = j
    BY <2>1 DEF IsInjective
  <2>3. IsInjective(r)
    <3>. SUFFICES ASSUME NEW i \in 1 .. Len(s) - 1, NEW j \in 1 .. Len(s) - 1,
                         r[i] = r[j]
                  PROVE  i = j
      BY <2>1 DEF IsInjective
    <3>. DEFINE p == IF i < k THEN i ELSE i + 1
                q == IF j < k THEN j ELSE j + 1
    <3>1. p \in 1 .. Len(s) /\ q \in 1 .. Len(s) /\ (p = q => i = j)
      BY <2>1
    <3>2. s[p] = s[q]
      BY <2>1
    <3>. HIDE DEF p, q
    <3>. QED
      BY <2>2, <3>1, <3>2
  <2>4. ToSet(r) \subseteq ToSet(s) \ {e}
    <3>. SUFFICES ASSUME NEW i \in 1 .. Len(s) - 1
                  PROVE  r[i] \in ToSet(s) /\ r[i] # e
      BY <2>1 DEF ToSet
    <3>. DEFINE p == IF i < k THEN i ELSE i + 1
    <3>1. p \in 1 .. Len(s) /\ p # k /\ r[i] = s[p]
      BY <2>1
    <3>. HIDE DEF p
    <3>. QED
      BY <1>3, <2>1, <2>2, <3>1 DEF ToSet
  <2>5. ToSet(s) \ {e} \subseteq ToSet(r)
    <3>. SUFFICES ASSUME NEW p \in 1 .. Len(s), s[p] # e
                  PROVE  s[p] \in ToSet(r)
      BY <2>1 DEF ToSet
    <3>. DEFINE i == IF p < k THEN p ELSE p - 1
    <3>1. i \in 1 .. Len(s) - 1 /\ r[i] = s[p]
      BY <1>3, <2>1
    <3>. HIDE DEF i
    <3>. QED
      BY <2>1, <3>1 DEF ToSet
  <2>. QED
    BY <2>3, <2>4, <2>5
<1>. QED
  BY <1>1, <1>2, <1>3, RemoveFirstCases

\* Inserting an element at a position between the others.
LEMMA InsertAtProperties ==
  ASSUME NEW S, NEW s \in Seq(S), NEW e \in S, NEW k \in 1 .. Len(s) + 1
  PROVE  /\ InsertAt(s, k, e) \in Seq(S)
         /\ Len(InsertAt(s, k, e)) = Len(s) + 1
         /\ \A i \in 1 .. Len(s) + 1 :
                InsertAt(s, k, e)[i] =
                    IF i < k THEN s[i] ELSE IF i = k THEN e ELSE s[i - 1]
<1>. DEFINE a == SubSeq(s, 1, k - 1)
            b == SubSeq(s, k, Len(s))
            ae == a \o <<e>>
            r == InsertAt(s, k, e)
<1>0. Len(s) \in Nat
  OBVIOUS
<1>1. /\ a \in Seq(S) /\ Len(a) = k - 1
      /\ \A i \in 1 .. k - 1 : a[i] = s[i]
  <2>1. \A i \in 1 .. k - 1 : s[i] \in S
    BY ElementOfSeq
  <2>. QED
    BY <2>1, SubSeqProperties
<1>2. /\ b \in Seq(S) /\ Len(b) = Len(s) - k + 1
      /\ \A i \in 1 .. Len(s) - k + 1 : b[i] = s[k + i - 1]
  <2>1. \A i \in k .. Len(s) : s[i] \in S
    BY ElementOfSeq
  <2>. QED
    BY <2>1, SubSeqProperties
<1>3. r = ae \o b
  BY DEF InsertAt
<1>. HIDE DEF a, b, r
<1>4. /\ ae \in Seq(S) /\ Len(ae) = k
      /\ \A i \in 1 .. k - 1 : ae[i] = s[i]
      /\ ae[k] = e
  <2>1. <<e>> \in Seq(S) /\ Len(<<e>>) = 1 /\ <<e>>[1] = e
    OBVIOUS
  <2>2. /\ ae \in Seq(S) /\ Len(ae) = Len(a) + 1
        /\ \A i \in 1 .. Len(a) + 1 :
               ae[i] = IF i <= Len(a) THEN a[i] ELSE <<e>>[i - Len(a)]
    BY <1>1, <2>1, ConcatProperties
  <2>. QED
    BY <1>1, <2>1, <2>2
<1>. HIDE DEF ae
<1>5. /\ r \in Seq(S) /\ Len(r) = Len(ae) + Len(b)
      /\ \A i \in 1 .. Len(ae) + Len(b) :
             r[i] = IF i <= Len(ae) THEN ae[i] ELSE b[i - Len(ae)]
  BY <1>2, <1>3, <1>4, ConcatProperties
<1>6. Len(r) = Len(s) + 1
  BY <1>0, <1>2, <1>4, <1>5
<1>7. ASSUME NEW i \in 1 .. Len(s) + 1
      PROVE  r[i] = IF i < k THEN s[i] ELSE IF i = k THEN e ELSE s[i - 1]
  <2>1. CASE i <= k
    BY <1>0, <1>2, <1>4, <1>5, <2>1
  <2>2. CASE i > k
    <3>1. i - k \in 1 .. Len(s) - k + 1 /\ k + (i - k) - 1 = i - 1
      BY <1>0, <2>2
    <3>. QED
      BY <1>0, <1>2, <1>4, <1>5, <2>2, <3>1
  <2>. QED
    BY <1>0, <2>1, <2>2
<1>. QED
  BY <1>5, <1>6, <1>7 DEF r

\* Inserting a new element into a sequence without duplicates.
LEMMA InsertAtSet ==
  ASSUME NEW S, NEW s \in Seq(S), NEW e \in S, NEW k \in 1 .. Len(s) + 1,
         IsInjective(s), e \notin ToSet(s)
  PROVE  /\ ToSet(InsertAt(s, k, e)) = ToSet(s) \cup {e}
         /\ IsInjective(InsertAt(s, k, e))
<1>. DEFINE r == InsertAt(s, k, e)
<1>1. /\ Len(s) \in Nat /\ DOMAIN s = 1 .. Len(s) /\ DOMAIN r = 1 .. Len(s) + 1
      /\ \A i \in 1 .. Len(s) + 1 :
             r[i] = IF i < k THEN s[i] ELSE IF i = k THEN e ELSE s[i - 1]
  BY InsertAtProperties, LenProperties
<1>. HIDE DEF r
<1>2. \A i \in 1 .. Len(s) : s[i] \in ToSet(s) /\ s[i] # e
  BY <1>1 DEF ToSet
<1>3. ToSet(r) \subseteq ToSet(s) \cup {e}
  <2>. SUFFICES ASSUME NEW i \in 1 .. Len(s) + 1
                PROVE  r[i] \in ToSet(s) \cup {e}
    BY <1>1 DEF ToSet
  <2>1. CASE i < k
    BY <1>1, <1>2, <2>1
  <2>2. CASE i = k
    BY <1>1, <2>2
  <2>3. CASE i > k
    BY <1>1, <1>2, <2>3
  <2>. QED
    BY <1>1, <2>1, <2>2, <2>3
<1>4. ToSet(s) \cup {e} \subseteq ToSet(r)
  <2>1. r[k] = e /\ k \in DOMAIN r
    BY <1>1
  <2>2. ASSUME NEW p \in 1 .. Len(s) PROVE s[p] \in ToSet(r)
    <3>. DEFINE i == IF p < k THEN p ELSE p + 1
    <3>1. i \in DOMAIN r /\ r[i] = s[p]
      BY <1>1
    <3>. HIDE DEF i
    <3>. QED
      BY <3>1 DEF ToSet
  <2>. QED
    BY <1>1, <2>1, <2>2 DEF ToSet
<1>5. IsInjective(r)
  <2>. SUFFICES ASSUME NEW i \in 1 .. Len(s) + 1, NEW j \in 1 .. Len(s) + 1,
                       r[i] = r[j]
                PROVE  i = j
    BY <1>1 DEF IsInjective
  <2>. DEFINE p == IF i < k THEN i ELSE i - 1
              q == IF j < k THEN j ELSE j - 1
  <2>1. CASE i # k /\ j # k
    <3>1. p \in 1 .. Len(s) /\ q \in 1 .. Len(s) /\ (p = q => i = j)
      BY <1>1, <2>1
    <3>2. s[p] = s[q]
      BY <1>1, <2>1
    <3>. HIDE DEF p, q
    <3>. QED
      BY <1>1, <3>1, <3>2 DEF IsInjective
  <2>2. CASE i = k /\ j # k
    <3>1. q \in 1 .. Len(s) /\ s[q] = e
      BY <1>1, <2>2
    <3>. HIDE DEF q
    <3>. QED
      BY <1>2, <3>1
  <2>3. CASE i # k /\ j = k
    <3>1. p \in 1 .. Len(s) /\ s[p] = e
      BY <1>1, <2>3
    <3>. HIDE DEF p
    <3>. QED
      BY <1>2, <3>1
  <2>. QED
    BY <2>1, <2>2, <2>3
<1>. QED
  BY <1>3, <1>4, <1>5 DEF r

\* Putting a new element in front of a sequence without duplicates.
LEMMA ConsProperties ==
  ASSUME NEW S, NEW s \in Seq(S), NEW e \in S, IsInjective(s), e \notin ToSet(s)
  PROVE  /\ <<e>> \o s \in Seq(S)
         /\ ToSet(<<e>> \o s) = ToSet(s) \cup {e}
         /\ IsInjective(<<e>> \o s)
<1>1. SubSeq(s, 1, 0) = << >>
  BY SubSeqEmpty
<1>2. SubSeq(s, 1, Len(s)) = s
  BY SubSeqFull
<1>3. << >> \o <<e>> = <<e>>
  OBVIOUS
<1>4. InsertAt(s, 1, e) = <<e>> \o s
  BY <1>1, <1>2, <1>3 DEF InsertAt
<1>5. 1 \in 1 .. Len(s) + 1
  OBVIOUS
<1>6. InsertAt(s, 1, e) \in Seq(S)
  BY <1>5, InsertAtProperties
<1>7. ToSet(InsertAt(s, 1, e)) = ToSet(s) \cup {e} /\ IsInjective(InsertAt(s, 1, e))
  BY <1>5, InsertAtSet
<1>. QED
  BY <1>4, <1>6, <1>7, Zenon

\* Taking the head off a sequence without duplicates.
LEMMA TailProperties ==
  ASSUME NEW S, NEW s \in Seq(S), s # << >>, IsInjective(s)
  PROVE  /\ Head(s) \in ToSet(s)
         /\ Tail(s) \in Seq(S)
         /\ ToSet(Tail(s)) = ToSet(s) \ {Head(s)}
         /\ IsInjective(Tail(s))
<1>. DEFINE t == Tail(s)
<1>1. /\ Len(s) \in Nat \ {0} /\ DOMAIN s = 1 .. Len(s) /\ Head(s) = s[1]
      /\ t \in Seq(S) /\ DOMAIN t = 1 .. Len(s) - 1
      /\ \A i \in 1 .. Len(s) - 1 : t[i] = s[i + 1]
  BY HeadTailProperties, LenProperties, EmptySeq
<1>. HIDE DEF t
<1>2. \A i, j \in 1 .. Len(s) : s[i] = s[j] => i = j
  BY <1>1 DEF IsInjective
<1>3. IsInjective(t)
  <2>. SUFFICES ASSUME NEW i \in 1 .. Len(s) - 1, NEW j \in 1 .. Len(s) - 1,
                       t[i] = t[j]
                PROVE  i = j
    BY <1>1 DEF IsInjective
  <2>1. i + 1 \in 1 .. Len(s) /\ j + 1 \in 1 .. Len(s) /\ s[i + 1] = s[j + 1]
    BY <1>1
  <2>2. i + 1 = j + 1
    BY <1>2, <2>1
  <2>. QED
    BY <2>2
<1>4. ToSet(t) \subseteq ToSet(s) \ {s[1]}
  <2>. SUFFICES ASSUME NEW i \in 1 .. Len(s) - 1
                PROVE  t[i] \in ToSet(s) /\ t[i] # s[1]
    BY <1>1 DEF ToSet
  <2>1. i + 1 \in 1 .. Len(s) /\ i + 1 # 1 /\ 1 \in 1 .. Len(s) /\ t[i] = s[i + 1]
    BY <1>1
  <2>. QED
    BY <1>1, <1>2, <2>1 DEF ToSet
<1>5. ToSet(s) \ {s[1]} \subseteq ToSet(t)
  <2>. SUFFICES ASSUME NEW p \in 1 .. Len(s), p # 1
                PROVE  s[p] \in ToSet(t)
    BY <1>1 DEF ToSet
  <2>1. p - 1 \in 1 .. Len(s) - 1 /\ t[p - 1] = s[p]
    BY <1>1
  <2>. QED
    BY <1>1, <2>1 DEF ToSet
<1>6. s[1] \in ToSet(s)
  BY <1>1 DEF ToSet
<1>. QED
  BY <1>1, <1>3, <1>4, <1>5, <1>6 DEF t

\* A prefix of a sequence without duplicates.
LEMMA PrefixProperties ==
  ASSUME NEW S, NEW s \in Seq(S), NEW n \in 0 .. Len(s), IsInjective(s)
  PROVE  /\ SubSeq(s, 1, n) \in Seq(S)
         /\ ToSet(SubSeq(s, 1, n)) \subseteq ToSet(s)
         /\ IsInjective(SubSeq(s, 1, n))
<1>1. \A i \in 1 .. n : s[i] \in S
  BY ElementOfSeq
<1>2. /\ SubSeq(s, 1, n) \in Seq(S) /\ Len(SubSeq(s, 1, n)) = n
      /\ \A i \in 1 .. n : SubSeq(s, 1, n)[i] = s[i]
  BY <1>1, SubSeqProperties
<1>3. DOMAIN SubSeq(s, 1, n) = 1 .. n /\ DOMAIN s = 1 .. Len(s) /\ 1 .. n \subseteq 1 .. Len(s)
  BY <1>2, LenProperties
<1>. QED
  BY <1>2, <1>3 DEF IsInjective, ToSet

-----------------------------------------------------------------------------
\* The sequence s is ordered by the values w of its elements.
OrderedBy(s, w) == \A i, j \in DOMAIN s : i < j => w[s[i]] <= w[s[j]]

\* Removing an element keeps the others in order.
LEMMA RemoveFirstOrdered ==
  ASSUME NEW S, NEW s \in Seq(S), NEW e, NEW w, OrderedBy(s, w)
  PROVE  /\ OrderedBy(RemoveFirst(s, e), w)
         /\ Len(RemoveFirst(s, e)) <= Len(s)
<1>. DEFINE r == RemoveFirst(s, e)
<1>0. Len(s) \in Nat /\ DOMAIN s = 1 .. Len(s)
  BY LenProperties
<1>1. CASE r = s
  BY <1>0, <1>1
<1>2. ASSUME NEW k \in 1 .. Len(s), r = RemoveAt(s, k)
      PROVE  OrderedBy(r, w) /\ Len(r) <= Len(s)
  <2>1. /\ Len(r) = Len(s) - 1 /\ DOMAIN r = 1 .. Len(s) - 1
        /\ \A i \in 1 .. Len(s) - 1 : r[i] = IF i < k THEN s[i] ELSE s[i + 1]
    BY <1>2, RemoveAtProperties, LenProperties
  <2>. HIDE DEF r
  <2>2. ASSUME NEW i \in 1 .. Len(s) - 1, NEW j \in 1 .. Len(s) - 1, i < j
        PROVE  w[r[i]] <= w[r[j]]
    <3>. DEFINE p == IF i < k THEN i ELSE i + 1
                q == IF j < k THEN j ELSE j + 1
    <3>1. p \in 1 .. Len(s) /\ q \in 1 .. Len(s) /\ p < q
      BY <1>0, <2>2
    <3>2. r[i] = s[p] /\ r[j] = s[q]
      BY <2>1
    <3>. HIDE DEF p, q
    <3>. QED
      BY <1>0, <3>1, <3>2 DEF OrderedBy
  <2>. QED
    BY <1>0, <2>1, <2>2 DEF OrderedBy
<1>. QED
  BY <1>1, <1>2, RemoveFirstCases

\* An element of value d fits in at position k if the elements before are
\* not greater and the elements from there on are not less.
LEMMA InsertAtOrdered ==
  ASSUME NEW S, NEW s \in Seq(S), NEW e \in S, NEW k \in 1 .. Len(s) + 1,
         NEW w \in [S -> Nat], OrderedBy(s, w), e \notin ToSet(s), NEW d \in Nat,
         \A i \in 1 .. Len(s) : IF i < k THEN w[s[i]] <= d ELSE d <= w[s[i]]
  PROVE  OrderedBy(InsertAt(s, k, e), [w EXCEPT ![e] = d])
<1>. DEFINE r == InsertAt(s, k, e)
            v == [w EXCEPT ![e] = d]
<1>1. /\ Len(s) \in Nat /\ DOMAIN s = 1 .. Len(s) /\ DOMAIN r = 1 .. Len(s) + 1
      /\ \A i \in 1 .. Len(s) + 1 :
             r[i] = IF i < k THEN s[i] ELSE IF i = k THEN e ELSE s[i - 1]
  BY InsertAtProperties, LenProperties
<1>2. \A i \in 1 .. Len(s) : s[i] \in S /\ s[i] # e
  BY <1>1 DEF ToSet
<1>3. v[e] = d /\ \A i \in 1 .. Len(s) : v[s[i]] = w[s[i]] /\ w[s[i]] \in Nat
  BY <1>2
<1>. HIDE DEF r, v
<1>4. ASSUME NEW i \in 1 .. Len(s) + 1, NEW j \in 1 .. Len(s) + 1, i < j
      PROVE  v[r[i]] <= v[r[j]]
  <2>. DEFINE p == IF i < k THEN i ELSE i - 1
              q == IF j < k THEN j ELSE j - 1
  <2>1. CASE i # k /\ j # k
    <3>1. p \in 1 .. Len(s) /\ q \in 1 .. Len(s) /\ p < q
      BY <1>1, <1>4, <2>1
    <3>2. r[i] = s[p] /\ r[j] = s[q]
      BY <1>1, <2>1
    <3>. HIDE DEF p, q
    <3>. QED
      BY <1>1, <1>3, <3>1, <3>2 DEF OrderedBy
  <2>2. CASE i = k
    <3>1. q \in 1 .. Len(s) /\ ~(q < k) /\ r[j] = s[q] /\ r[i] = e
      BY <1>1, <1>4, <2>2
    <3>. HIDE DEF q
    <3>. QED
      BY <1>3, <3>1
  <2>3. CASE j = k
    <3>1. p \in 1 .. Len(s) /\ p < k /\ r[i] = s[p] /\ r[j] = e
      BY <1>1, <1>4, <2>3
    <3>. HIDE DEF p
    <3>. QED
      BY <1>3, <3>1
  <2>. QED
    BY <2>1, <2>2, <2>3
<1>. QED
  BY <1>1, <1>4 DEF OrderedBy, r, v

\* Two sequences without duplicates that share no element, one behind the
\* other, have no duplicates.
LEMMA ConcatInjective ==
  ASSUME NEW S, NEW a \in Seq(S), NEW b \in Seq(S), IsInjective(a), IsInjective(b),
         ToSet(a) \cap ToSet(b) = {}
  PROVE  IsInjective(a \o b)
<1>1. /\ a \o b \in Seq(S) /\ Len(a \o b) = Len(a) + Len(b)
      /\ \A i \in 1 .. Len(a) + Len(b) :
             (a \o b)[i] = IF i <= Len(a) THEN a[i] ELSE b[i - Len(a)]
  BY ConcatProperties
<1>2. /\ Len(a) \in Nat /\ Len(b) \in Nat /\ DOMAIN a = 1 .. Len(a)
      /\ DOMAIN b = 1 .. Len(b) /\ DOMAIN (a \o b) = 1 .. Len(a) + Len(b)
  BY <1>1, LenProperties
<1>. DEFINE c == a \o b
<1>. HIDE DEF c
<1>3. \A i \in 1 .. Len(a), j \in 1 .. Len(b) : a[i] # b[j]
  BY <1>2 DEF ToSet
<1>4. ASSUME NEW i \in 1 .. Len(a) + Len(b), NEW j \in 1 .. Len(a) + Len(b), c[i] = c[j]
      PROVE  i = j
  <2>. DEFINE p == i - Len(a)
              q == j - Len(a)
  <2>1. /\ c[i] = IF i <= Len(a) THEN a[i] ELSE b[p]
        /\ c[j] = IF j <= Len(a) THEN a[j] ELSE b[q]
    BY <1>1 DEF c
  <2>2. /\ i <= Len(a) => i \in 1 .. Len(a)
        /\ j <= Len(a) => j \in 1 .. Len(a)
        /\ ~(i <= Len(a)) => p \in 1 .. Len(b)
        /\ ~(j <= Len(a)) => q \in 1 .. Len(b)
        /\ p = q => i = j
    BY <1>2
  <2>. HIDE DEF p, q
  <2>. QED
    BY <1>2, <1>3, <1>4, <2>1, <2>2 DEF IsInjective
<1>. QED
  BY <1>2, <1>4 DEF IsInjective, c

-----------------------------------------------------------------------------
(* Functions defined by recursion over the numbers.                        *)

\* What holds at 0, and for the next number with every number, holds up to n.
LEMMA CountingUp ==
  ASSUME NEW S, NEW n \in Nat, 0 \in S, \A i \in 0 .. n - 1 : i \in S => i + 1 \in S
  PROVE  \A i \in 0 .. n : i \in S
<1>. DEFINE T == (0 .. n) \ S
<1>. SUFFICES ASSUME T # {} PROVE FALSE
  OBVIOUS
<1>1. PICK k : k = Min(T)
  OBVIOUS
<1>2. k \in T /\ \A y \in T : k <= y
  <2>1. T \subseteq Nat
    OBVIOUS
  <2>. HIDE DEF T
  <2>. QED
    BY <1>1, <2>1, MinOfSet
<1>3. k \in 0 .. n /\ k # 0 /\ k - 1 \in 0 .. n - 1 /\ k - 1 + 1 = k
  BY <1>2
<1>4. k - 1 \in S
  BY <1>2, <1>3
<1>. QED
  BY <1>2, <1>3, <1>4

\* f[0] is a, and F leads from each element to the next one.
Iteration(f, n, X, a, F) ==
    /\ f \in [0 .. n -> X] /\ f[0] = a
    /\ \A i \in 1 .. n : f[i] = F[<<i, f[i - 1]>>]

StepsOn(n, X) == [(1 .. n) \X X -> X]

\* A function defined by recursion exists, and has the type that its steps keep.
LEMMA Iterated ==
  ASSUME NEW n \in Nat, NEW X, NEW a \in X, NEW F \in StepsOn(n, X)
  PROVE  \E f : Iteration(f, n, X, a, F)
<1>. USE DEF StepsOn
<1>. DEFINE Good(m, f) == Iteration(f, m, X, a, F)
            S == {m \in Nat : \E f : Good(m, f)}
<1>1. 0 \in S
  <2>1. Good(0, [i \in 0 .. 0 |-> a])
    BY DEF Iteration
  <2>. QED
    BY <2>1
<1>2. ASSUME NEW m \in 0 .. n - 1, m \in S PROVE m + 1 \in S
  <2>1. PICK f : Good(m, f)
    BY <1>2
  <2>2. m + 1 \in 1 .. n /\ f[m] \in X
    BY <2>1 DEF Iteration
  <2>3. PICK v : v = F[<<m + 1, f[m]>>]
    OBVIOUS
  <2>4. v \in X
    BY <2>2, <2>3
  <2>5. PICK g : g = [i \in 0 .. m + 1 |-> IF i <= m THEN f[i] ELSE v]
    OBVIOUS
  <2>6. g \in [0 .. m + 1 -> X] /\ g[0] = a
    BY <2>1, <2>4, <2>5 DEF Iteration
  <2>7. ASSUME NEW i \in 1 .. m + 1 PROVE g[i] = F[<<i, g[i - 1]>>]
    <3>1. CASE i <= m
      <4>1. g[i] = f[i] /\ g[i - 1] = f[i - 1] /\ i \in 1 .. m
        BY <2>5, <3>1
      <4>. QED
        BY <2>1, <4>1 DEF Iteration
    <3>2. CASE ~ i <= m
      <4>1. i = m + 1 /\ g[i] = v /\ g[i - 1] = f[m]
        BY <2>5, <3>2
      <4>. QED
        BY <2>3, <4>1
    <3>. QED
      BY <3>1, <3>2
  <2>8. Good(m + 1, g)
    BY <2>6, <2>7 DEF Iteration
  <2>. QED
    BY <2>8
<1>3. n \in S
  <2>. HIDE DEF S
  <2>. QED
    BY <1>1, <1>2, CountingUp
<1>. QED
  BY <1>3

-----------------------------------------------------------------------------
(* Induction and recursion along a rank.                                   *)

\* What holds of an element if it holds of those with a lower rank holds of all.
LEMMA RankedInduction ==
  ASSUME NEW D, NEW n \in Nat, NEW r \in [D -> 0 .. n], NEW S,
         \A i \in D : (\A j \in D : r[j] < r[i] => j \in S) => i \in S
  PROVE  D \subseteq S
<1>. DEFINE T == {m \in Nat : \A i \in D : r[i] < m => i \in S}
<1>1. 0 \in T
  OBVIOUS
<1>2. ASSUME NEW m \in 0 .. n, m \in T PROVE m + 1 \in T
  <2>1. ASSUME NEW i \in D, r[i] < m + 1 PROVE i \in S
    <3>1. \A j \in D : r[j] < r[i] => r[j] < m
      BY <2>1
    <3>. QED
      BY <1>2, <3>1
  <2>. QED
    BY <2>1
<1>3. n + 1 \in T
  <2>1. PICK k : k = n + 1
    OBVIOUS
  <2>2. k \in Nat /\ k - 1 = n
    BY <2>1
  <2>. HIDE DEF T
  <2>3. \A m \in 0 .. k : m \in T
    BY <1>1, <1>2, <2>2, CountingUp
  <2>. QED
    BY <2>1, <2>2, <2>3
<1>. QED
  BY <1>3

\* Strong induction over an interval, upwards and downwards.
Upwards(n, D, S) ==
    n \in Nat /\ D = 0 .. n - 1 /\ \A i \in D : (\A j \in D : j < i => j \in S) => i \in S
Downwards(n, D, S) ==
    n \in Nat /\ D = 0 .. n - 1 /\ \A i \in D : (\A j \in D : i < j => j \in S) => i \in S

\* Strong induction upwards.
LEMMA UpwardInduction ==
  ASSUME NEW n, NEW D, NEW S, Upwards(n, D, S)
  PROVE  D \subseteq S
<1>1. n \in Nat /\ D = 0 .. n - 1
  BY DEF Upwards
<1>2. PICK r : r = [i \in D |-> i]
  OBVIOUS
<1>3. r \in [D -> 0 .. n] /\ \A i \in D : r[i] = i
  BY <1>1, <1>2
<1>4. \A i \in D : (\A j \in D : r[j] < r[i] => j \in S) => i \in S
  BY <1>3 DEF Upwards
<1>5. n \in Nat /\ r \in [D -> 0 .. n]
  BY <1>1, <1>3
<1>. QED
  BY <1>4, <1>5, RankedInduction

\* Strong induction downwards.
LEMMA DownwardInduction ==
  ASSUME NEW n, NEW D, NEW S, Downwards(n, D, S)
  PROVE  D \subseteq S
<1>1. n \in Nat /\ D = 0 .. n - 1
  BY DEF Downwards
<1>2. PICK r : r = [i \in D |-> n - i]
  OBVIOUS
<1>3. r \in [D -> 0 .. n] /\ \A i, j \in D : i < j => r[j] < r[i]
  <2>1. \A i \in D : n - i \in 0 .. n
    BY <1>1
  <2>. QED
    BY <1>1, <1>2, <2>1
<1>4. \A i \in D : (\A j \in D : r[j] < r[i] => j \in S) => i \in S
  BY <1>3 DEF Downwards
<1>5. n \in Nat /\ r \in [D -> 0 .. n]
  BY <1>1, <1>3
<1>. QED
  BY <1>4, <1>5, RankedInduction

\* f is defined by B, which looks up f only where the rank is lower.
Recursive(f, D, X, B) == f \in [D -> X] /\ \A i \in D : f[i] = B[<<i, f>>]
LooksDown(D, X, r, B) ==
    \A i \in D : \A f, g \in [D -> X] :
        (\A j \in D : r[j] < r[i] => f[j] = g[j]) => B[<<i, f>>] = B[<<i, g>>]

\* A function that is defined by recursion along a rank exists.
LEMMA RankedRecursion ==
  ASSUME NEW D, NEW n \in Nat, NEW r \in [D -> 0 .. n], NEW X, NEW a \in X,
         NEW B \in [D \X [D -> X] -> X], LooksDown(D, X, r, B)
  PROVE  \E f : Recursive(f, D, X, B)
<1>. DEFINE Good(m, f) == f \in [D -> X] /\ \A i \in D : r[i] < m => f[i] = B[<<i, f>>]
            T == {m \in Nat : \E f : Good(m, f)}
<1>1. 0 \in T
  <2>1. Good(0, [i \in D |-> a])
    OBVIOUS
  <2>. QED
    BY <2>1
<1>2. ASSUME NEW m \in 0 .. n, m \in T PROVE m + 1 \in T
  <2>1. PICK f : Good(m, f)
    BY <1>2
  <2>2. PICK g : g = [i \in D |-> IF r[i] = m THEN B[<<i, f>>] ELSE f[i]]
    OBVIOUS
  <2>3. g \in [D -> X]
    <3>1. \A i \in D : B[<<i, f>>] \in X /\ f[i] \in X
      BY <2>1
    <3>. QED
      BY <2>2, <3>1
  <2>4. ASSUME NEW i \in D, r[i] < m + 1 PROVE g[i] = B[<<i, g>>]
    <3>1. \A j \in D : r[j] < r[i] => f[j] = g[j]
      BY <2>2, <2>4
    <3>2. B[<<i, f>>] = B[<<i, g>>]
      BY <2>1, <2>3, <3>1 DEF LooksDown
    <3>3. g[i] = B[<<i, f>>]
      <4>1. CASE r[i] = m
        BY <2>2, <4>1
      <4>2. CASE r[i] # m
        <5>1. r[i] < m
          <6>1. PICK p, q : p = m + 1 /\ q = r[i]
            OBVIOUS
          <6>2. p \in Int /\ q \in Int /\ p = m + 1
            BY <6>1
          <6>3. q < p
            BY <2>4, <6>1
          <6>4. q # m
            BY <4>2, <6>1
          <6>5. q < m
            BY <6>2, <6>3, <6>4
          <6>. QED
            BY <6>1, <6>5
        <5>2. g[i] = f[i]
          BY <2>2, <4>2
        <5>. QED
          BY <2>1, <5>1, <5>2
      <4>. QED
        BY <4>1, <4>2
    <3>. QED
      BY <3>2, <3>3
  <2>5. Good(m + 1, g)
    BY <2>3, <2>4
  <2>6. m + 1 \in Nat
    OBVIOUS
  <2>. QED
    BY <2>5, <2>6
<1>3. n + 1 \in T
  <2>1. PICK k : k = n + 1
    OBVIOUS
  <2>2. k \in Nat /\ k - 1 = n
    BY <2>1
  <2>. HIDE DEF T
  <2>3. \A m \in 0 .. k : m \in T
    BY <1>1, <1>2, <2>2, CountingUp
  <2>. QED
    BY <2>1, <2>2, <2>3
<1>4. PICK f : Good(n + 1, f)
  BY <1>3
<1>5. \A i \in D : r[i] < n + 1
  OBVIOUS
<1>. QED
  BY <1>4, <1>5 DEF Recursive

-----------------------------------------------------------------------------
\* What follows after a elements of s, up to b.
Span(s, a, b) == SubSeq(s, a + 1, b)

\* A part of a sequence is a sequence,
LEMMA SpanType ==
  ASSUME NEW X, NEW s \in Seq(X), NEW a \in Nat, NEW b \in Nat, a <= b, b <= Len(s)
  PROVE  Span(s, a, b) \in Seq(X)
<1>1. PICK m, t : m = a + 1 /\ t = SubSeq(s, m, b)
  OBVIOUS
<1>2. m \in Int /\ b \in Int /\ Len(s) \in Nat
  BY <1>1, LenProperties
<1>3. \A i \in m .. b : s[i] \in X
  BY <1>1, <1>2, ElementOfSeq
<1>4. t \in Seq(X) /\ Len(t) = IF m <= b THEN b - m + 1 ELSE 0
  BY <1>1, <1>2, <1>3, SubSeqProperties
<1>. QED
  BY <1>1, <1>4 DEF Span

\* as long as the distance of its ends,
LEMMA SpanLen ==
  ASSUME NEW X, NEW s \in Seq(X), NEW a \in Nat, NEW b \in Nat, a <= b, b <= Len(s)
  PROVE  Len(Span(s, a, b)) = b - a
<1>1. PICK m, t : m = a + 1 /\ t = SubSeq(s, m, b)
  OBVIOUS
<1>2. m \in Int /\ b \in Int /\ Len(s) \in Nat
  BY <1>1, LenProperties
<1>3. \A i \in m .. b : s[i] \in X
  BY <1>1, <1>2, ElementOfSeq
<1>4. Len(t) = IF m <= b THEN b - m + 1 ELSE 0
  BY <1>1, <1>2, <1>3, SubSeqProperties
<1>5. Len(t) = b - a
  BY <1>1, <1>4
<1>. QED
  BY <1>1, <1>5 DEF Span

\* of the elements between them.
LEMMA SpanElements ==
  ASSUME NEW X, NEW s \in Seq(X), NEW a \in Nat, NEW b \in Nat, a <= b, b <= Len(s)
  PROVE  \A i \in 1 .. b - a : Span(s, a, b)[i] = s[a + i]
<1>1. PICK m, t : m = a + 1 /\ t = SubSeq(s, m, b)
  OBVIOUS
<1>2. m \in Int /\ b \in Int /\ Len(s) \in Nat
  BY <1>1, LenProperties
<1>3. \A i \in m .. b : s[i] \in X
  BY <1>1, <1>2, ElementOfSeq
<1>4. \A i \in 1 .. b - m + 1 : t[i] = s[m + i - 1]
  BY <1>1, <1>2, <1>3, SubSeqProperties
<1>6. ASSUME NEW i \in 1 .. b - a PROVE t[i] = s[a + i]
  <2>1. i \in 1 .. b - m + 1 /\ m + i - 1 = a + i
    BY <1>1
  <2>. QED
    BY <1>4, <2>1
<1>. QED
  BY <1>1, <1>6 DEF Span

\* Nothing follows after all of it.
LEMMA SpanEmpty ==
  ASSUME NEW X, NEW s \in Seq(X), NEW a \in Nat
  PROVE  Span(s, a, a) = << >>
BY SubSeqEmpty DEF Span

\* A sequence with the elements of a span is the span.
LEMMA IsSpan ==
  ASSUME NEW X, NEW s \in Seq(X), NEW a \in Nat, NEW b \in Nat, a <= b, b <= Len(s),
         NEW u \in Seq(X), Len(u) = b - a, \A i \in 1 .. Len(u) : u[i] = s[a + i]
  PROVE  u = Span(s, a, b)
<1>1. Span(s, a, b) \in Seq(X) /\ Len(Span(s, a, b)) = b - a
  <2>1. Span(s, a, b) \in Seq(X)
    BY SpanType
  <2>2. Len(Span(s, a, b)) = b - a
    BY SpanLen
  <2>. QED
    BY <2>1, <2>2
<1>2. \A i \in 1 .. b - a : Span(s, a, b)[i] = s[a + i]
  BY SpanElements
<1>3. PICK v : v = Span(s, a, b)
  OBVIOUS
<1>4. v \in Seq(X) /\ Len(v) = Len(u) /\ \A i \in 1 .. Len(u) : u[i] = v[i]
  BY <1>1, <1>2, <1>3
<1>5. u = v
  BY <1>4, SeqEqual
<1>. QED
  BY <1>3, <1>5

\* Two spans with the same elements are the same.
LEMMA SpanEqual ==
  ASSUME NEW X, NEW t \in Seq(X), NEW c \in Nat, NEW d \in Nat, c <= d, d <= Len(t),
         NEW s \in Seq(X), NEW a \in Nat, NEW b \in Nat, a <= b, b <= Len(s),
         b - a = d - c, \A i \in 1 .. b - a : s[a + i] = t[c + i]
  PROVE  Span(s, a, b) = Span(t, c, d)
<1>1. PICK u : u = Span(s, a, b)
  OBVIOUS
<1>2. u \in Seq(X) /\ Len(u) = b - a
  <2>1. u \in Seq(X)
    BY <1>1, SpanType
  <2>2. Len(u) = b - a
    BY <1>1, SpanLen
  <2>. QED
    BY <2>1, <2>2
<1>3. \A i \in 1 .. b - a : u[i] = s[a + i]
  BY <1>1, SpanElements
<1>4. Len(u) = d - c /\ \A i \in 1 .. Len(u) : u[i] = t[c + i]
  BY <1>2, <1>3
<1>5. u = Span(t, c, d)
  BY <1>2, <1>4, IsSpan
<1>. QED
  BY <1>1, <1>5

\* A span of a span.
LEMMA SpanOfSpan ==
  ASSUME NEW X, NEW s \in Seq(X), NEW a \in Nat, NEW b \in Nat, a <= b, b <= Len(s),
         NEW p \in Nat, NEW q \in Nat, p <= q, q <= b - a
  PROVE  Span(Span(s, a, b), p, q) = Span(s, a + p, a + q)
<1>1. PICK u : u = Span(s, a, b)
  OBVIOUS
<1>2. u \in Seq(X) /\ Len(u) = b - a
  <2>1. u \in Seq(X)
    BY <1>1, SpanType
  <2>2. Len(u) = b - a
    BY <1>1, SpanLen
  <2>. QED
    BY <2>1, <2>2
<1>3. \A i \in 1 .. b - a : u[i] = s[a + i]
  BY <1>1, SpanElements
<1>0. PICK c, d : c = a + p /\ d = a + q
  OBVIOUS
<1>4. /\ c \in Nat /\ d \in Nat /\ c <= d /\ d <= Len(s)
      /\ q - p = d - c /\ q <= Len(u)
  BY <1>0, <1>2, LenProperties
<1>5. ASSUME NEW i \in 1 .. q - p PROVE u[p + i] = s[c + i]
  <2>1. p + i \in 1 .. b - a /\ a + (p + i) = c + i
    BY <1>0
  <2>. QED
    BY <1>3, <2>1
<1>6. PICK v : v = Span(u, p, q)
  OBVIOUS
<1>7. v \in Seq(X)
  BY <1>2, <1>4, <1>6, SpanType
<1>8. Len(v) = q - p
  BY <1>2, <1>4, <1>6, SpanLen
<1>9. \A i \in 1 .. q - p : v[i] = u[p + i]
  BY <1>2, <1>4, <1>6, SpanElements
<1>10. Len(v) = d - c /\ \A i \in 1 .. Len(v) : v[i] = s[c + i]
  BY <1>4, <1>5, <1>8, <1>9
<1>11. v = Span(s, c, d)
  BY <1>4, <1>7, <1>10, IsSpan
<1>. QED
  BY <1>0, <1>1, <1>6, <1>11

\* Two adjacent spans.
LEMMA SpanJoin ==
  ASSUME NEW X, NEW s \in Seq(X), NEW a \in Nat, NEW b \in Nat, NEW c \in Nat,
         a <= b, b <= c, c <= Len(s)
  PROVE  Span(s, a, b) \o Span(s, b, c) = Span(s, a, c)
<1>1. PICK u, v : u = Span(s, a, b) /\ v = Span(s, b, c)
  OBVIOUS
<1>2. b <= Len(s) /\ a <= c
  BY LenProperties
<1>3. u \in Seq(X) /\ Len(u) = b - a
  <2>1. u \in Seq(X)
    BY <1>1, <1>2, SpanType
  <2>2. Len(u) = b - a
    BY <1>1, <1>2, SpanLen
  <2>. QED
    BY <2>1, <2>2
<1>4. v \in Seq(X) /\ Len(v) = c - b
  <2>1. v \in Seq(X)
    BY <1>1, <1>2, SpanType
  <2>2. Len(v) = c - b
    BY <1>1, <1>2, SpanLen
  <2>. QED
    BY <2>1, <2>2
<1>5. \A i \in 1 .. b - a : u[i] = s[a + i]
  BY <1>1, <1>2, SpanElements
<1>6. \A i \in 1 .. c - b : v[i] = s[b + i]
  BY <1>1, <1>2, SpanElements
<1>7. /\ u \o v \in Seq(X) /\ Len(u \o v) = Len(u) + Len(v)
      /\ \A i \in 1 .. Len(u) + Len(v) : (u \o v)[i] = IF i <= Len(u) THEN u[i] ELSE v[i - Len(u)]
  BY <1>3, <1>4, ConcatProperties
<1>8. Len(u \o v) = c - a
  BY <1>3, <1>4, <1>7
<1>9. ASSUME NEW i \in 1 .. c - a PROVE (u \o v)[i] = s[a + i]
  <2>1. CASE i <= b - a
    <3>1. (u \o v)[i] = u[i] /\ i \in 1 .. b - a
      BY <1>3, <1>4, <1>7, <2>1
    <3>. QED
      BY <1>5, <3>1
  <2>2. CASE ~ i <= b - a
    <3>1. (u \o v)[i] = v[i - (b - a)]
      <4>1. i \in 1 .. Len(u) + Len(v) /\ ~ i <= Len(u)
        BY <1>3, <1>4, <2>2
      <4>2. (u \o v)[i] = v[i - Len(u)]
        BY <1>7, <4>1
      <4>. QED
        BY <1>3, <4>2
    <3>2. i - (b - a) \in 1 .. c - b /\ b + (i - (b - a)) = a + i
      BY <2>2
    <3>3. v[i - (b - a)] = s[b + (i - (b - a))]
      BY <1>6, <3>2
    <3>. QED
      BY <3>1, <3>2, <3>3
  <2>. QED
    BY <2>1, <2>2
<1>10. PICK t : t = u \o v
  OBVIOUS
<1>11. t \in Seq(X) /\ Len(t) = c - a /\ \A i \in 1 .. Len(t) : t[i] = s[a + i]
  BY <1>7, <1>8, <1>9, <1>10
<1>12. t = Span(s, a, c)
  BY <1>2, <1>11, IsSpan
<1>. QED
  BY <1>1, <1>10, <1>12

\* All of a sequence.
LEMMA SpanAll ==
  ASSUME NEW X, NEW s \in Seq(X)
  PROVE  Span(s, 0, Len(s)) = s
<1>1. 0 + 1 = 1
  OBVIOUS
<1>. QED
  BY <1>1, SubSeqFull DEF Span

\* What an appended sequence begins with.
LEMMA AppendPrefix ==
  ASSUME NEW X, NEW s \in Seq(X), NEW e \in X
  PROVE  IsPrefix(s, s) /\ IsPrefix(s, Append(s, e))
<1>1. PICK t, n : t = Append(s, e) /\ n = Len(s)
  OBVIOUS
<1>2. n \in Nat
  BY <1>1, LenProperties
<1>3. t \in Seq(X) /\ Len(t) = n + 1 /\ \A i \in 1 .. n : t[i] = s[i]
  BY <1>1, AppendProperties
<1>4. SubSeq(s, 1, n) = s
  BY <1>1, SubSeqFull
<1>5. PICK u : u = SubSeq(t, 1, n)
  OBVIOUS
<1>6. \A i \in 1 .. n : t[i] \in X
  BY <1>1, <1>3, ElementOfSeq
<1>7. u \in Seq(X) /\ Len(u) = n /\ \A i \in 1 .. n : u[i] = t[i]
  BY <1>2, <1>5, <1>6, SubSeqProperties
<1>8. \A i \in 1 .. Len(s) : u[i] = s[i]
  BY <1>1, <1>3, <1>7
<1>9. u = s
  BY <1>1, <1>7, <1>8, SeqEqual
<1>10. IsPrefix(s, s)
  BY <1>1, <1>2, <1>4 DEF IsPrefix
<1>11. IsPrefix(s, t)
  BY <1>1, <1>2, <1>3, <1>4, <1>5, <1>9 DEF IsPrefix
<1>. QED
  BY <1>1, <1>10, <1>11
=============================================================================
