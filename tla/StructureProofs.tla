-------------------------- MODULE StructureProofs --------------------------
(***************************************************************************)
(* Four structures of the libraries, of any size.  A managed object lives  *)
(* exactly as long as a handle refers to it.  The memory streams lose no   *)
(* fragment of their pool, and are streams of words wherever the borders   *)
(* of the fragments are.  The heap of the timer events is a queue ordered  *)
(* by time, and the hash table with its marks and its changes of capacity  *)
(* is a dictionary.                                                        *)
(***************************************************************************)
EXTENDS Handles, MemStreams, TimerHeap, HashTable, ListLemmas, FiniteSetTheorems

-----------------------------------------------------------------------------
(* The handles of PLT.                                                     *)

HandlesTypeOK ==
    /\ prep \in [Handle -> Objects \cup {Null}]
    /\ palloc \in [Handle -> Objects \cup {Null}]
    /\ exists \subseteq Handle
    /\ count \in [Objects -> Nat]
    /\ object \in [Objects -> {"free", "raw", "bound", "deleted"}]

HandlesOf(o) == {h \in exists : palloc[h] = o}

\* What LivesWhileReferenced is not inductive without: the counter is the number
\* of the handles, and it alone decides on the life of the object.
HandlesInv ==
    /\ HandlesTypeOK
    /\ \A h \in Handle \ exists : palloc[h] = Null
    /\ \A o \in Objects : count[o] = Cardinality(HandlesOf(o))
    /\ \A o \in Objects : object[o] = "bound" <=> count[o] > 0

\* The handles of an object are finitely many.
LEMMA HandlesOfFinite ==
    ASSUME HandlesInv, NEW o \in Objects
    PROVE  IsFiniteSet(HandlesOf(o))
<1>1. HandlesOf(o) \subseteq Handle
  BY DEF HandlesOf, HandlesInv, HandlesTypeOK
<1>2. QED
  BY <1>1, FS_Subset, HandlesAssumption

\* Letting the old tracker go and taking the new one keeps the counters exact,
\* also when they are the same (operator = with itself).
LEMMA ReferencesKeepCount ==
    ASSUME HandlesInv, NEW h \in Handle, NEW a \in Objects \cup {Null},
           References(h, a), palloc' = [palloc EXCEPT ![h] = a],
           exists' \in {exists, exists \cup {h}, exists \ {h}},
           a # Null => h \in exists',
           NEW o \in Objects
    PROVE  /\ count'[o] = Cardinality(HandlesOf(o)')
           /\ count'[o] \in Nat
           /\ object'[o] = "bound" <=> count'[o] > 0
<1> DEFINE S == HandlesOf(o)
<1>1. /\ IsFiniteSet(S) /\ count[o] = Cardinality(S) /\ count[o] \in Nat
      /\ object[o] = "bound" <=> count[o] > 0
  BY HandlesOfFinite DEF HandlesInv, HandlesTypeOK
<1>2. /\ count'[o] = (IF o = a THEN count[o] + 1 ELSE count[o])
                     - (IF o = palloc[h] THEN 1 ELSE 0)
      /\ object'[o] = IF o = palloc[h] /\ count'[o] = 0 THEN "deleted"
                      ELSE IF o = a THEN "bound" ELSE object[o]
  BY <1>1 DEF References
<1>3. h \in S <=> palloc[h] = o
  BY HandlesAssumption DEF HandlesOf, HandlesInv
<1>4. S' = IF o = a THEN S \cup {h} ELSE S \ {h}
  BY HandlesAssumption DEF HandlesOf, HandlesInv, HandlesTypeOK
<1>5. h \in S => Cardinality(S) > 0
  <2>1. SUFFICES ASSUME h \in S PROVE Cardinality(S) # 0
    BY <1>1
  <2>2. QED
    BY <2>1, <1>1, FS_EmptySet
<1>6. Cardinality(S \cup {h}) = IF h \in S THEN Cardinality(S) ELSE Cardinality(S) + 1
  BY <1>1, FS_AddElement
<1>7. Cardinality(S \ {h}) = IF h \in S THEN Cardinality(S) - 1 ELSE Cardinality(S)
  BY <1>1, FS_RemoveElement
<1> HIDE DEF S
<1>8. CASE o = a
  BY <1>8, <1>1, <1>2, <1>3, <1>4, <1>5, <1>6 DEF S
<1>9. CASE o # a
  BY <1>9, <1>1, <1>2, <1>3, <1>4, <1>5, <1>7 DEF S
<1>10. QED
  BY <1>8, <1>9

\* So every operation that ends in References() keeps the invariant.
LEMMA ReferencesKeepInv ==
    ASSUME HandlesInv, NEW h \in Handle, NEW a \in Objects \cup {Null},
           NEW p \in Objects \cup {Null}, References(h, a),
           prep' = [prep EXCEPT ![h] = p], palloc' = [palloc EXCEPT ![h] = a],
           exists' \in {exists, exists \cup {h}, exists \ {h}},
           a # Null => h \in exists'
    PROVE  HandlesInv'
<1>1. \A o \in Objects : /\ count'[o] = Cardinality(HandlesOf(o)')
                         /\ count'[o] \in Nat
                         /\ object'[o] = "bound" <=> count'[o] > 0
  BY ReferencesKeepCount
<1>2. HandlesTypeOK'
  <2>1. DOMAIN count' = Objects /\ count' = [o \in Objects |-> count'[o]]
    BY DEF References
  <2>2. object' \in [Objects -> {"free", "raw", "bound", "deleted"}]
    BY DEF References, HandlesInv, HandlesTypeOK
  <2>3. QED
    BY <1>1, <2>1, <2>2 DEF HandlesInv, HandlesTypeOK
<1>3. (\A g \in Handle \ exists : palloc[g] = Null)'
  BY DEF HandlesInv, HandlesTypeOK
<1>4. QED
  BY <1>1, <1>2, <1>3 DEF HandlesInv

\* At first there is no handle.
LEMMA HandlesInitially == HandlesInit => HandlesInv
<1> SUFFICES ASSUME HandlesInit PROVE HandlesInv
  OBVIOUS
<1>1. \A o \in Objects : HandlesOf(o) = {}
  BY DEF HandlesInit, HandlesOf
<1>2. Cardinality({}) = 0
  BY FS_EmptySet
<1>3. QED
  BY <1>1, <1>2 DEF HandlesInit, HandlesInv, HandlesTypeOK

\* One step of the proof for every operation.
LEMMA HandlesStep == HandlesInv /\ [HandlesNext]_handleVars => HandlesInv'
<1> SUFFICES ASSUME HandlesInv, [HandlesNext]_handleVars PROVE HandlesInv'
  OBVIOUS
<1>1. ASSUME NEW o \in Objects, new(o) PROVE HandlesInv'
  <2>1. \A q \in Objects : HandlesOf(q)' = HandlesOf(q)
    BY <1>1 DEF new, HandlesOf
  <2>2. QED
    BY <1>1, <2>1 DEF new, HandlesInv, HandlesTypeOK
<1>2. ASSUME NEW h \in Handle, construct(h) PROVE HandlesInv'
  <2>1. \A q \in Objects : HandlesOf(q)' = HandlesOf(q)
    BY <1>2, HandlesAssumption DEF construct, HandlesOf, HandlesInv
  <2>2. QED
    BY <1>2, <2>1 DEF construct, HandlesInv, HandlesTypeOK
<1>3. ASSUME NEW h \in Handle, destruct(h) PROVE HandlesInv'
  BY <1>3, ReferencesKeepInv DEF destruct
<1>4. ASSUME NEW h \in Handle, NEW r \in Handle, copy(h, r) PROVE HandlesInv'
  <2>1. prep[r] \in Objects \cup {Null} /\ palloc[r] \in Objects \cup {Null}
    BY DEF HandlesInv, HandlesTypeOK
  <2>2. QED
    BY <1>4, <2>1, ReferencesKeepInv DEF copy
<1>5. ASSUME NEW h \in Handle, NEW r \in Handle, assign(h, r) PROVE HandlesInv'
  <2>1. prep[r] \in Objects \cup {Null} /\ palloc[r] \in Objects \cup {Null}
    BY DEF HandlesInv, HandlesTypeOK
  <2>2. QED
    BY <1>5, <2>1, ReferencesKeepInv DEF assign
<1>6. ASSUME NEW h \in Handle, NEW o \in Objects \cup {Null}, NEW managed \in BOOLEAN,
             bindTo(h, o, managed)
      PROVE  HandlesInv'
  <2> DEFINE a == IF managed THEN o ELSE Null
  <2>1. a \in Objects \cup {Null} /\ (a # Null => h \in exists')
    BY <1>6 DEF bindTo
  <2>2. /\ References(h, a)
        /\ prep' = [prep EXCEPT ![h] = o] /\ palloc' = [palloc EXCEPT ![h] = a]
        /\ exists' = exists
    BY <1>6 DEF bindTo
  <2> HIDE DEF a
  <2>3. QED
    BY <2>1, <2>2, ReferencesKeepInv
<1>7. CASE UNCHANGED handleVars
  BY <1>7 DEF handleVars, HandlesInv, HandlesTypeOK, HandlesOf
<1>8. QED
  BY <1>1, <1>2, <1>3, <1>4, <1>5, <1>6, <1>7 DEF HandlesNext

\* The counter of every tracker is the number of handles that share it.
THEOREM CountsAreExact == HandlesSpec => []HandlesInv
<1>1. QED
  BY HandlesInitially, HandlesStep, PTL DEF HandlesSpec

\* A managed object is deleted with its last handle and not before (plt/handle.h),
\* whatever is bound, copied, assigned and destroyed in whatever order.
THEOREM ObjectsLiveWhileReferenced == HandlesSpec => []LivesWhileReferenced
<1>1. HandlesInv => LivesWhileReferenced
  <2> SUFFICES ASSUME HandlesInv, NEW o \in Objects
               PROVE  (\E h \in exists : palloc[h] = o) <=> object[o] = "bound"
    BY DEF LivesWhileReferenced
  <2>1. IsFiniteSet(HandlesOf(o))
    BY HandlesOfFinite
  <2>2. HandlesOf(o) = {} <=> Cardinality(HandlesOf(o)) = 0
    BY <2>1, FS_EmptySet
  <2>3. Cardinality(HandlesOf(o)) \in Nat
    BY <2>1, FS_CardinalityType
  <2>4. HandlesOf(o) # {} <=> \E h \in exists : palloc[h] = o
    BY DEF HandlesOf
  <2>5. object[o] = "bound" <=> Cardinality(HandlesOf(o)) > 0
    BY DEF HandlesInv
  <2>6. QED
    BY <2>2, <2>3, <2>4, <2>5
<1>2. QED
  BY <1>1, CountsAreExact, PTL

-----------------------------------------------------------------------------
(* The words of a chain of fragments.                                      *)

\* Joined() adds the words of one fragment after the other.
LEMMA JoinedWords ==
  ASSUME NEW c \in Seq(FragmentStates)
  PROVE  /\ Joined(c)[0] = << >>
         /\ \A i \in 1 .. Len(c) : Joined(c)[i] = Joined(c)[i - 1] \o c[i].words
         /\ \A i \in 0 .. Len(c) : Joined(c)[i] \in Seq(Words)
<1>1. Len(c) \in Nat /\ \A i \in 1 .. Len(c) : c[i].words \in Seq(Words)
  <2>1. \A i \in 1 .. Len(c) : c[i] \in FragmentStates
    BY ElementOfSeq
  <2>. QED
    BY <2>1, LenProperties DEF FragmentStates
<1>2. PICK F : F = [p \in (1 .. Len(c)) \X Seq(Words) |-> p[2] \o c[p[1]].words]
  OBVIOUS
<1>3. F \in [(1 .. Len(c)) \X Seq(Words) -> Seq(Words)]
  BY <1>1, <1>2, ConcatProperties
<1>4. << >> \in Seq(Words)
  BY EmptySeq
<1>5. PICK f \in [0 .. Len(c) -> Seq(Words)] :
        f[0] = << >> /\ \A i \in 1 .. Len(c) : f[i] = F[<<i, f[i - 1]>>]
  <2>1. PICK n, X, a : n = Len(c) /\ X = Seq(Words) /\ a = << >>
    OBVIOUS
  <2>2. n \in Nat /\ a \in X /\ F \in StepsOn(n, X)
    BY <1>1, <1>3, <1>4, <2>1 DEF StepsOn
  <2>3. \E f : Iteration(f, n, X, a, F)
    BY <2>2, Iterated
  <2>. QED
    BY <2>1, <2>3 DEF Iteration
<1>6. \A i \in 1 .. Len(c) : f[i] = f[i - 1] \o c[i].words
  <2>. TAKE i \in 1 .. Len(c)
  <2>1. i - 1 \in 0 .. Len(c)
    BY <1>1
  <2>2. <<i, f[i - 1]>> \in (1 .. Len(c)) \X Seq(Words)
    BY <2>1
  <2>. QED
    BY <1>2, <1>5, <2>2
<1>7. f = [i \in 0 .. Len(c) |-> IF i = 0 THEN << >> ELSE f[i - 1] \o c[i].words]
  <2>1. \A i \in 0 .. Len(c) : f[i] = IF i = 0 THEN << >> ELSE f[i - 1] \o c[i].words
    <3>. TAKE i \in 0 .. Len(c)
    <3>1. i = 0 \/ (i \in 1 .. Len(c) /\ i # 0)
      BY <1>1
    <3>. QED
      BY <1>5, <1>6, <3>1
  <2>. QED
    BY <2>1
<1>8. Joined(c) = [i \in 0 .. Len(c) |->
                      IF i = 0 THEN << >> ELSE Joined(c)[i - 1] \o c[i].words]
  BY <1>7, Zenon DEF Joined
<1>. DEFINE S == {i \in Nat : i <= Len(c) => Joined(c)[i] \in Seq(Words)}
<1>9. Joined(c)[0] = << >> /\ \A i \in 1 .. Len(c) : Joined(c)[i] = Joined(c)[i - 1] \o c[i].words
  <2>. HIDE DEF S
  <2>1. PICK j : j = Joined(c)
    OBVIOUS
  <2>2. j = [i \in 0 .. Len(c) |-> IF i = 0 THEN << >> ELSE j[i - 1] \o c[i].words]
    BY <1>8, <2>1, Zenon
  <2>3. j[0] = << >> /\ \A i \in 1 .. Len(c) : j[i] = j[i - 1] \o c[i].words
    BY <1>1, <2>2
  <2>. QED
    BY <2>1, <2>3, Zenon
<1>10. 0 \in S
  BY <1>4, <1>9
<1>11. ASSUME NEW i \in 0 .. Len(c) - 1, i \in S PROVE i + 1 \in S
  <2>1. i + 1 \in 1 .. Len(c) /\ i + 1 - 1 = i /\ i <= Len(c)
    BY <1>1
  <2>2. Joined(c)[i] \in Seq(Words)
    BY <1>11, <2>1
  <2>3. PICK k : k = i + 1
    OBVIOUS
  <2>4. k \in 1 .. Len(c) /\ k - 1 = i
    BY <2>1, <2>3
  <2>5. Joined(c)[k] = Joined(c)[k - 1] \o c[k].words /\ c[k].words \in Seq(Words)
    BY <1>1, <1>9, <2>4
  <2>6. Joined(c)[k] \in Seq(Words)
    BY <2>2, <2>4, <2>5, ConcatProperties
  <2>. QED
    BY <2>3, <2>4, <2>6
<1>12. \A i \in 0 .. Len(c) : i \in S
  <2>. HIDE DEF S
  <2>. QED
    BY <1>1, <1>10, <1>11, CountingUp
<1>. QED
  BY <1>9, <1>12
\* The words up to a fragment are those before it, and its own.
LEMMA JoinedNext ==
  ASSUME NEW c \in Seq(FragmentStates), NEW i \in 1 .. Len(c), NEW k, k = i - 1
  PROVE  /\ k \in 0 .. Len(c) /\ i \in 0 .. Len(c)
         /\ Joined(c)[k] \in Seq(Words) /\ c[i].words \in Seq(Words)
         /\ Joined(c)[i] = Joined(c)[k] \o c[i].words
<1>1. k \in 0 .. Len(c) /\ i \in 0 .. Len(c)
  BY LenProperties
<1>2. c[i] \in FragmentStates
  BY ElementOfSeq
<1>3. Joined(c)[k] \in Seq(Words)
  BY <1>1, JoinedWords
<1>4. Joined(c)[i] = Joined(c)[i - 1] \o c[i].words
  BY JoinedWords
<1>. QED
  BY <1>1, <1>2, <1>3, <1>4 DEF FragmentStates

\* Chains whose fragments begin with the same words.
LEMMA JoinedSame ==
  ASSUME NEW c \in Seq(FragmentStates), NEW d \in Seq(FragmentStates), NEW m \in Nat,
         m <= Len(c), m <= Len(d), \A i \in 1 .. m : c[i].words = d[i].words
  PROVE  \A i \in 0 .. m : Joined(c)[i] = Joined(d)[i]
<1>. DEFINE S == {i \in Nat : Joined(c)[i] = Joined(d)[i]}
<1>1. 0 \in S
  BY JoinedWords
<1>2. ASSUME NEW i \in 0 .. m - 1, i \in S PROVE i + 1 \in S
  <2>1. PICK k : k = i + 1
    OBVIOUS
  <2>2. k \in 1 .. m /\ k - 1 = i /\ k \in 1 .. Len(c) /\ k \in 1 .. Len(d) /\ k \in Nat
    BY <2>1, LenProperties
  <2>3. Joined(c)[k] = Joined(c)[k - 1] \o c[k].words
    BY <2>2, JoinedWords
  <2>4. Joined(d)[k] = Joined(d)[k - 1] \o d[k].words
    BY <2>2, JoinedWords
  <2>. QED
    BY <1>2, <2>1, <2>2, <2>3, <2>4
<1>3. \A i \in 0 .. m : i \in S
  <2>. HIDE DEF S
  <2>. QED
    BY <1>1, <1>2, CountingUp
<1>. QED
  BY <1>3

\* The words of the first fragments come first.
LEMMA JoinedPrefix ==
  ASSUME NEW c \in Seq(FragmentStates), NEW m \in 0 .. Len(c), NEW n \in m .. Len(c)
  PROVE  /\ Len(Joined(c)[m]) <= Len(Joined(c)[n])
         /\ \A k \in 1 .. Len(Joined(c)[m]) : Joined(c)[n][k] = Joined(c)[m][k]
<1>. DEFINE j == Joined(c)
            S == {i \in Nat : m + i <= Len(c) =>
                     /\ Len(j[m]) <= Len(j[m + i])
                     /\ \A k \in 1 .. Len(j[m]) : j[m + i][k] = j[m][k]}
<1>0. Len(c) \in Nat /\ m \in Nat /\ n \in Nat
  BY LenProperties
<1>1. \A i \in 0 .. Len(c) : j[i] \in Seq(Words) /\ Len(j[i]) \in Nat
  <2>1. \A i \in 0 .. Len(c) : j[i] \in Seq(Words)
    BY JoinedWords
  <2>. HIDE DEF j
  <2>. QED
    BY <2>1, LenProperties
<1>2. 0 \in S
  <2>. HIDE DEF j
  <2>. QED
    BY <1>0, <1>1
<1>3. ASSUME NEW i \in 0 .. Len(c) - m - 1, i \in S PROVE i + 1 \in S
  <2>1. PICK k, l : k = m + i + 1 /\ l = m + i
    OBVIOUS
  <2>2. k \in 1 .. Len(c) /\ k - 1 = l /\ l \in 0 .. Len(c) /\ k = m + (i + 1)
    BY <1>0, <2>1
  <2>3. j[k] = j[k - 1] \o c[k].words /\ c[k].words \in Seq(Words)
    <3>1. c[k] \in FragmentStates
      BY <2>2, ElementOfSeq
    <3>. QED
      BY <2>2, <3>1, JoinedWords DEF FragmentStates
  <2>. HIDE DEF j
  <2>4. PICK a, b, d, w : a = j[m] /\ b = j[l] /\ d = j[k] /\ w = c[k].words
    OBVIOUS
  <2>5. /\ a \in Seq(Words) /\ b \in Seq(Words) /\ w \in Seq(Words) /\ d = b \o w
        /\ Len(a) \in Nat /\ Len(b) \in Nat
    BY <1>0, <1>1, <2>2, <2>3, <2>4
  <2>6. /\ Len(d) = Len(b) + Len(w) /\ Len(w) \in Nat
        /\ \A q \in 1 .. Len(b) + Len(w) : d[q] = IF q <= Len(b) THEN b[q] ELSE w[q - Len(b)]
    BY <2>5, ConcatProperties, LenProperties
  <2>7. Len(a) <= Len(b) /\ \A q \in 1 .. Len(a) : b[q] = a[q]
    BY <1>0, <1>3, <2>1, <2>4
  <2>8. Len(a) <= Len(d)
    BY <2>5, <2>6, <2>7
  <2>9. ASSUME NEW q \in 1 .. Len(a) PROVE d[q] = a[q]
    <3>1. q \in 1 .. Len(b) + Len(w) /\ q <= Len(b)
      BY <2>5, <2>6, <2>7
    <3>. QED
      BY <2>6, <2>7, <3>1
  <2>. QED
    BY <1>0, <2>2, <2>4, <2>8, <2>9
<1>4. \A i \in 0 .. Len(c) - m : i \in S
  <2>1. Len(c) - m \in Nat
    BY <1>0
  <2>. HIDE DEF S
  <2>. QED
    BY <1>2, <1>3, <2>1, CountingUp
<1>5. n - m \in S /\ m + (n - m) = n /\ n <= Len(c)
  BY <1>0, <1>4
<1>. HIDE DEF j
<1>6. /\ Len(j[m]) <= Len(j[n])
      /\ \A k \in 1 .. Len(j[m]) : j[n][k] = j[m][k]
  BY <1>0, <1>5
<1>. QED
  BY <1>6 DEF j

\* Where the words of a fragment are among all.
LEMMA WordOfFragment ==
  ASSUME NEW c \in Seq(FragmentStates), NEW i \in 1 .. Len(c),
         NEW q \in 1 .. Len(c[i].words)
  PROVE  /\ Len(Joined(c)[i - 1]) \in Nat
         /\ Len(Joined(c)[i]) = Len(Joined(c)[i - 1]) + Len(c[i].words)
         /\ Len(Joined(c)[i - 1]) + q \in 1 .. Len(Joined(c)[Len(c)])
         /\ Joined(c)[Len(c)][Len(Joined(c)[i - 1]) + q] = c[i].words[q]
<1>1. PICK a, b, n, all : a = Joined(c)[i - 1] /\ b = Joined(c)[i] /\ n = Len(c)
                          /\ all = Joined(c)[n]
  OBVIOUS
<1>2. n \in Nat /\ i \in 0 .. n /\ i - 1 \in 0 .. n /\ n \in i .. n
  BY <1>1, LenProperties
<1>3. c[i] \in FragmentStates
  BY ElementOfSeq
<1>4. a \in Seq(Words) /\ c[i].words \in Seq(Words) /\ b = a \o c[i].words /\ all \in Seq(Words)
  <2>1. a \in Seq(Words) /\ all \in Seq(Words)
    <3>1. \A k \in 0 .. n : Joined(c)[k] \in Seq(Words)
      BY <1>1, JoinedWords
    <3>2. n \in 0 .. n
      BY <1>2
    <3>3. a \in Seq(Words)
      BY <1>1, <1>2, <3>1
    <3>4. all \in Seq(Words)
      BY <1>1, <3>1, <3>2
    <3>. QED
      BY <3>3, <3>4
  <2>2. b = a \o c[i].words
    BY <1>1, JoinedWords
  <2>. QED
    BY <1>3, <2>1, <2>2 DEF FragmentStates
<1>5. Len(a) \in Nat /\ Len(b) \in Nat /\ Len(all) \in Nat /\ Len(c[i].words) \in Nat
  BY <1>4, LenProperties, ConcatProperties
<1>6. Len(b) = Len(a) + Len(c[i].words) /\ b[Len(a) + q] = c[i].words[q]
  <2>1. Len(a) + q \in 1 .. Len(a) + Len(c[i].words) /\ ~ Len(a) + q <= Len(a)
        /\ Len(a) + q - Len(a) = q
    BY <1>5
  <2>. QED
    BY <1>4, <2>1, ConcatProperties
<1>7. Len(b) <= Len(all) /\ \A k \in 1 .. Len(b) : all[k] = b[k]
  BY <1>1, <1>2, JoinedPrefix
<1>8. Len(a) + q \in 1 .. Len(b)
  BY <1>5, <1>6
<1>9. Len(a) + q \in 1 .. Len(all) /\ all[Len(a) + q] = c[i].words[q]
  BY <1>5, <1>6, <1>7, <1>8
<1>. QED
  BY <1>1, <1>5, <1>6, <1>9

\* All fragments but the last one are full.
FullButLast(c) ==
    \A i \in 1 .. Len(c) - 1 :
        c[i].used = MemStreamBufferSize /\ Len(c[i].words) = MemStreamBufferSize

\* The length of a message follows from the number of its fragments.
LEMMA JoinedLength ==
  ASSUME NEW c \in Seq(FragmentStates), Len(c) > 0, FullButLast(c)
  PROVE  Len(Joined(c)[Len(c)]) = (Len(c) - 1) * MemStreamBufferSize + Len(c[Len(c)].words)
<1>. DEFINE S == {i \in Nat : Len(Joined(c)[i]) = i * MemStreamBufferSize}
<1>0. PICK n : n = Len(c)
  OBVIOUS
<1>1. n \in Nat \ {0} /\ MemStreamBufferSize \in Nat
  BY <1>0, LenProperties, MemAssumption
<1>2. \A i \in 1 .. n : /\ c[i].words \in Seq(Words) /\ Joined(c)[i - 1] \in Seq(Words)
                        /\ Joined(c)[i] = Joined(c)[i - 1] \o c[i].words
  <2>. TAKE i \in 1 .. n
  <2>1. c[i] \in FragmentStates /\ i - 1 \in 0 .. Len(c) /\ i \in 1 .. Len(c)
    BY <1>0, <1>1, ElementOfSeq
  <2>. QED
    BY <2>1, JoinedWords DEF FragmentStates
<1>3. \A i \in 1 .. n : Len(Joined(c)[i]) = Len(Joined(c)[i - 1]) + Len(c[i].words)
  <2>. TAKE i \in 1 .. n
  <2>1. PICK a, b, w : a = Joined(c)[i] /\ b = Joined(c)[i - 1] /\ w = c[i].words
    OBVIOUS
  <2>2. Len(a) = Len(b) + Len(w)
    BY <1>2, <2>1, ConcatProperties
  <2>. QED
    BY <2>1, <2>2
<1>4. 0 \in S
  <2>1. Joined(c)[0] = << >>
    BY JoinedWords
  <2>. QED
    BY <1>1, <2>1
<1>5. ASSUME NEW i \in 0 .. n - 2, i \in S PROVE i + 1 \in S
  <2>1. PICK k : k = i + 1
    OBVIOUS
  <2>2. k \in 1 .. n /\ k \in 1 .. Len(c) - 1 /\ k - 1 = i /\ i \in Nat
    BY <1>0, <1>1, <2>1
  <2>3. Len(Joined(c)[k]) = Len(Joined(c)[k - 1]) + MemStreamBufferSize
    BY <1>3, <2>2 DEF FullButLast
  <2>4. Len(Joined(c)[k]) = i * MemStreamBufferSize + MemStreamBufferSize
    BY <1>5, <2>2, <2>3
  <2>5. i * MemStreamBufferSize + MemStreamBufferSize = (i + 1) * MemStreamBufferSize
    BY <1>1, <2>2
  <2>. QED
    BY <2>1, <2>2, <2>4, <2>5
<1>6. n - 1 \in S
  <2>1. n - 1 \in Nat /\ \A i \in 0 .. n - 1 - 1 : i \in 0 .. n - 2
    BY <1>1
  <2>2. \A i \in 0 .. n - 1 : i \in S
    <3>. HIDE DEF S
    <3>. QED
      BY <1>4, <1>5, <2>1, CountingUp
  <2>. QED
    BY <2>1, <2>2
<1>7. Len(Joined(c)[n - 1]) = (n - 1) * MemStreamBufferSize
  BY <1>6
<1>8. n \in 1 .. n
  BY <1>1
<1>. QED
  BY <1>0, <1>3, <1>7, <1>8
Marked(c, w, d) == d = [c EXCEPT ![1].words[1] = w]

\* Filling in the first word of the first fragment fills in the first word of all.
LEMMA JoinedMarked ==
  ASSUME NEW c \in Seq(FragmentStates), Len(c) > 0, Len(c[1].words) > 0, NEW w \in Words,
         NEW d, Marked(c, w, d)
  PROVE  /\ d \in Seq(FragmentStates) /\ Len(d) = Len(c)
         /\ \A i \in 1 .. Len(c) : d[i].used = c[i].used /\ Len(d[i].words) = Len(c[i].words)
         /\ \A i \in 1 .. Len(c) : Joined(d)[i] = [Joined(c)[i] EXCEPT ![1] = w]
<1>1. PICK n : n = Len(c)
  OBVIOUS
<1>2. n \in Nat \ {0} /\ 1 \in 1 .. Len(c)
  BY <1>1, LenProperties
<1>3. c[1] \in FragmentStates
  BY <1>2, ElementOfSeq
<1>4. PICK v, f : v = [c[1].words EXCEPT ![1] = w] /\ f = [c[1] EXCEPT !.words = v]
  OBVIOUS
<1>5. v \in Seq(Words) /\ Len(v) = Len(c[1].words)
      /\ \A j \in 1 .. Len(c[1].words) : v[j] = IF j = 1 THEN w ELSE c[1].words[j]
  <2>1. c[1].words \in Seq(Words)
    BY <1>3 DEF FragmentStates
  <2>2. 1 \in 1 .. Len(c[1].words)
    BY <2>1, LenProperties
  <2>. QED
    BY <1>4, <2>1, <2>2, ExceptSeq
<1>6. f \in FragmentStates /\ f.words = v /\ f.used = c[1].used
  BY <1>3, <1>4, <1>5 DEF FragmentStates
<1>7. d = [c EXCEPT ![1] = f]
  BY <1>4 DEF Marked
<1>8. d \in Seq(FragmentStates) /\ Len(d) = Len(c)
      /\ \A i \in 1 .. Len(c) : d[i] = IF i = 1 THEN f ELSE c[i]
  <2>1. PICK one : one = 1
    OBVIOUS
  <2>2. one \in 1 .. Len(c) /\ d = [c EXCEPT ![one] = f]
    BY <1>2, <1>7, <2>1
  <2>3. d \in Seq(FragmentStates) /\ Len(d) = Len(c)
    BY <1>6, <2>2, ExceptSeq
  <2>4. \A i \in 1 .. Len(c) : d[i] = IF i = 1 THEN f ELSE c[i]
    BY <1>2, <1>7, LenProperties
  <2>. QED
    BY <2>3, <2>4
<1>9. \A i \in 1 .. Len(c) : d[i].used = c[i].used /\ Len(d[i].words) = Len(c[i].words)
  BY <1>5, <1>6, <1>8
<1>. DEFINE S == {i \in Nat : i + 1 <= n => /\ Len(Joined(c)[i + 1]) > 0
                                            /\ Joined(d)[i + 1] = [Joined(c)[i + 1] EXCEPT ![1] = w]}
<1>10. 0 \in S
  <2>0. PICK z, one : z = 0 /\ one = 1
    OBVIOUS
  <2>a. one \in 1 .. Len(c) /\ one \in 1 .. Len(d) /\ z = one - 1
    BY <1>2, <1>8, <2>0
  <2>1. Joined(c)[1] = Joined(c)[0] \o c[1].words /\ Joined(c)[0] = << >>
    <3>1. Joined(c)[one] = Joined(c)[z] \o c[one].words
      BY <2>a, JoinedNext
    <3>2. Joined(c)[0] = << >>
      BY JoinedWords
    <3>. QED
      BY <2>0, <3>1, <3>2
  <2>2. Joined(d)[1] = Joined(d)[0] \o d[1].words /\ Joined(d)[0] = << >>
    <3>1. Joined(d)[one] = Joined(d)[z] \o d[one].words
      BY <1>8, <2>a, JoinedNext
    <3>2. Joined(d)[0] = << >>
      BY <1>8, JoinedWords
    <3>. QED
      BY <2>0, <3>1, <3>2
  <2>3. c[1].words \in Seq(Words) /\ d[1].words = v
    BY <1>2, <1>3, <1>6, <1>8 DEF FragmentStates
  <2>4. Joined(c)[1] = c[1].words
    BY <2>1, <2>3, ConcatEmptySeq
  <2>5. Joined(d)[1] = v
    BY <1>5, <2>2, <2>3, ConcatEmptySeq
  <2>6. Len(Joined(c)[1]) > 0 /\ Joined(d)[1] = [Joined(c)[1] EXCEPT ![1] = w]
    BY <1>4, <2>4, <2>5
  <2>. QED
    BY <2>6
<1>11. ASSUME NEW i \in 0 .. n - 2, i \in S PROVE i + 1 \in S
  <2>1. PICK k, l : k = i + 1 /\ l = k + 1
    OBVIOUS
  <2>2. k \in Nat /\ l \in 1 .. Len(c) /\ l \in 1 .. Len(d) /\ k = l - 1 /\ l # 1
    BY <1>1, <1>2, <1>8, <2>1
  <2>3. PICK a, b, u : a = Joined(c)[k] /\ b = Joined(d)[k] /\ u = c[l].words
    OBVIOUS
  <2>4. a \in Seq(Words) /\ u \in Seq(Words) /\ Joined(c)[l] = a \o u
    BY <2>2, <2>3, JoinedNext
  <2>5. d[l].words = u
    BY <1>8, <2>2, <2>3
  <2>6. b \in Seq(Words) /\ Joined(d)[l] = b \o u
    <3>1. Joined(d)[k] \in Seq(Words) /\ Joined(d)[l] = Joined(d)[k] \o d[l].words
      BY <1>8, <2>2, JoinedNext
    <3>. QED
      BY <2>3, <2>5, <3>1
  <2>7. Len(a) > 0 /\ b = [a EXCEPT ![1] = w]
    BY <1>1, <1>2, <1>11, <2>1, <2>2, <2>3
  <2>8. Len(a) \in Nat /\ 1 \in 1 .. Len(a) /\ Len(u) \in Nat
    BY <2>4, <2>6, <2>7, LenProperties
  <2>9. Len(b) = Len(a) /\ \A q \in 1 .. Len(a) : b[q] = IF q = 1 THEN w ELSE a[q]
    BY <2>4, <2>7, <2>8, ExceptSeq
  <2>10. PICK au, bu : au = a \o u /\ bu = b \o u
    OBVIOUS
  <2>11. /\ au \in Seq(Words) /\ Len(au) = Len(a) + Len(u)
         /\ \A q \in 1 .. Len(a) + Len(u) : au[q] = IF q <= Len(a) THEN a[q] ELSE u[q - Len(a)]
    BY <2>4, <2>10, ConcatProperties
  <2>12. /\ bu \in Seq(Words) /\ Len(bu) = Len(a) + Len(u)
         /\ \A q \in 1 .. Len(a) + Len(u) : bu[q] = IF q <= Len(a) THEN b[q] ELSE u[q - Len(a)]
    BY <2>4, <2>6, <2>9, <2>10, ConcatProperties
  <2>13. PICK m : m = [au EXCEPT ![1] = w]
    OBVIOUS
  <2>14. m \in Seq(Words) /\ Len(m) = Len(au)
         /\ \A q \in 1 .. Len(au) : m[q] = IF q = 1 THEN w ELSE au[q]
    <3>1. 1 \in 1 .. Len(au)
      BY <2>8, <2>11
    <3>. QED
      BY <2>11, <2>13, <3>1, ExceptSeq
  <2>15. ASSUME NEW q \in 1 .. Len(bu) PROVE bu[q] = m[q]
    <3>1. q \in 1 .. Len(a) + Len(u) /\ q \in 1 .. Len(au) /\ (q <= Len(a) => q \in 1 .. Len(a))
      BY <2>8, <2>11, <2>12
    <3>2. CASE q <= Len(a)
      BY <2>9, <2>11, <2>12, <2>14, <3>1, <3>2
    <3>3. CASE ~ q <= Len(a)
      <4>1. bu[q] = u[q - Len(a)] /\ au[q] = u[q - Len(a)]
        BY <2>11, <2>12, <3>1, <3>3
      <4>2. q # 1
        BY <2>8, <3>3
      <4>3. m[q] = au[q]
        BY <2>14, <3>1, <4>2
      <4>. QED
        BY <4>1, <4>3
    <3>. QED
      BY <3>2, <3>3
  <2>16. bu = m
    <3>1. bu \in Seq(Words) /\ m \in Seq(Words) /\ Len(bu) = Len(m)
      BY <2>11, <2>12, <2>14
    <3>. QED
      BY <2>15, <3>1, SeqEqual
  <2>17. Len(Joined(c)[l]) > 0 /\ Joined(d)[l] = [Joined(c)[l] EXCEPT ![1] = w]
    BY <2>4, <2>6, <2>8, <2>10, <2>11, <2>13, <2>16
  <2>. QED
    BY <2>1, <2>2, <2>17
<1>12. ASSUME NEW i \in 1 .. Len(c) PROVE Joined(d)[i] = [Joined(c)[i] EXCEPT ![1] = w]
  <2>1. n - 1 \in Nat /\ i - 1 \in 0 .. n - 1 /\ i - 1 + 1 = i /\ i <= n /\ n - 1 - 1 = n - 2
    BY <1>1, <1>2
  <2>2. \A k \in 0 .. n - 1 : k \in S
    <3>. HIDE DEF S
    <3>1. \A k \in 0 .. n - 1 - 1 : k \in S => k + 1 \in S
      BY <1>11, <2>1
    <3>. QED
      BY <1>10, <2>1, <3>1, CountingUp
  <2>3. i - 1 \in S
    BY <2>1, <2>2
  <2>. QED
    BY <2>1, <2>3
<1>. QED
  BY <1>8, <1>9, <1>12

-----------------------------------------------------------------------------
(* Operations.                                                             *)

\* The sizes the code is built with.
LEMMA BufferSize == MemStreamBufferSize \in Nat \ {0}
BY MemAssumption

\* The quota of the pool.
LEMMA Quota == FragmentQuota \in Nat
BY MemAssumption

\* The fields of a stream.
LEMMA StreamFields ==
  ASSUME NEW x \in StreamStates
  PROVE  /\ x.chain \in Seq(FragmentStates) /\ Len(x.chain) \in Nat /\ x.current \in Nat
         /\ x.handy \in Nat /\ x.length \in Nat /\ x.fragment_count \in Nat
BY LenProperties DEF StreamStates

Pools == [count : Nat, free : Nat]

\* What an operation has changed so far.
Progress == [p : Pools, x : StreamStates, ok : BOOLEAN, out : Seq(Words)]

\* A stream that is being written: the last fragment is the current one.
Writable(x) ==
    /\ x \in StreamStates /\ Len(x.chain) > 0 /\ FullButLast(x.chain)
    /\ x.fragment_count = Len(x.chain) /\ x.decode = FALSE
    /\ x.current = Len(x.chain)
    /\ x.chain[Len(x.chain)].used = MemStreamBufferSize
    /\ x.handy = MemStreamBufferSize - Len(x.chain[Len(x.chain)].words)

\* A stream that is being read: the last fragment has as many words as it says.
Readable(x) ==
    /\ x \in StreamStates /\ Len(x.chain) > 0 /\ FullButLast(x.chain)
    /\ x.fragment_count = Len(x.chain) /\ x.decode = TRUE
    /\ x.current \in 0 .. Len(x.chain)
    /\ x.chain[Len(x.chain)].used = Len(x.chain[Len(x.chain)].words)
    /\ x.chain[Len(x.chain)].used <= MemStreamBufferSize
    /\ x.length = Len(Content(x))
    /\ IF x.current = 0 THEN x.handy = 0 ELSE x.handy <= x.chain[x.current].used

Usable(x) == Writable(x) \/ Readable(x)

\* The fragments a pool has given away, but for those of the chain.
Elsewhere(p, c) == p.count - p.free - Len(c)

LastIsFull(c) ==
    Len(c) > 0 => c[Len(c)].used = MemStreamBufferSize
                  /\ Len(c[Len(c)].words) = MemStreamBufferSize

\* A new fragment goes to the end of the chain; the pool counts it.
LEMMA AllocateFragment ==
  ASSUME NEW y \in Progress, y.p.count <= FragmentQuota, y.ok = TRUE, FullButLast(y.x.chain),
         y.x.fragment_count = Len(y.x.chain), y.x.decode = FALSE,
         LastIsFull(y.x.chain),
         NEW z, z = Allocate(y)
  PROVE  /\ z \in Progress /\ z.p.count <= FragmentQuota /\ z.out = y.out
         /\ Elsewhere(z.p, z.x.chain) = Elsewhere(y.p, y.x.chain)
         /\ z.ok = FALSE => z.p = y.p /\ z.x = y.x
         /\ z.ok = TRUE => Writable(z.x) /\ Content(z.x) = Content(y.x)
                           /\ z.x.handy = MemStreamBufferSize
<1>1. PICK c, n : c = y.x.chain /\ n = Len(c)
  OBVIOUS
<1>2. /\ y.p \in Pools /\ y.x \in StreamStates /\ y.out \in Seq(Words)
      /\ c \in Seq(FragmentStates) /\ n \in Nat
  BY <1>1, LenProperties DEF Progress, StreamStates
<1>3. CASE y.p.free = 0 /\ y.p.count >= FragmentQuota
  <2>1. z = [y EXCEPT !.ok = FALSE]
    BY <1>3 DEF Allocate
  <2>2. z \in Progress /\ z.p = y.p /\ z.x = y.x /\ z.out = y.out /\ z.ok = FALSE
    BY <2>1 DEF Progress
  <2>. QED
    BY <2>2
<1>4. CASE ~ (y.p.free = 0 /\ y.p.count >= FragmentQuota)
  <2>1. PICK p, x, e : p = Taken(y.p) /\ e = Append(y.x.chain, Fragment) /\ x = Extended(y.x)
    OBVIOUS
  <2>2. z = [y EXCEPT !.p = p, !.x = x]
    BY <1>4, <2>1 DEF Allocate
  <2>3. p \in Pools /\ p.count <= FragmentQuota /\ p.count - p.free = y.p.count - y.p.free + 1
    <3>1. y.p.count \in Nat /\ y.p.free \in Nat /\ FragmentQuota \in Nat
      BY <1>2, Quota DEF Pools
    <3>2. CASE y.p.free > 0
      <4>1. p = [y.p EXCEPT !.free = y.p.free - 1]
        BY <2>1, <3>2 DEF Taken
      <4>2. p = [count |-> y.p.count, free |-> y.p.free - 1]
        BY <1>2, <4>1 DEF Pools
      <4>3. p.count = y.p.count /\ p.free = y.p.free - 1 /\ y.p.free - 1 \in Nat
        BY <3>1, <3>2, <4>2
      <4>. QED
        BY <3>1, <4>2, <4>3 DEF Pools
    <3>3. CASE ~ y.p.free > 0
      <4>1. p = [y.p EXCEPT !.count = y.p.count + 1] /\ y.p.count < FragmentQuota
        BY <1>4, <2>1, <3>1, <3>3 DEF Taken
      <4>2. p = [count |-> y.p.count + 1, free |-> y.p.free]
        BY <1>2, <4>1 DEF Pools
      <4>3. p.count = y.p.count + 1 /\ p.free = y.p.free /\ y.p.count + 1 \in Nat
        BY <3>1, <4>2
      <4>4. p \in Pools
        BY <3>1, <4>2, <4>3 DEF Pools
      <4>5. p.count <= FragmentQuota
        BY <3>1, <4>1, <4>3
      <4>6. p.count - p.free = y.p.count - y.p.free + 1
        <5>1. PICK a, b, k, l : a = y.p.count /\ b = y.p.free /\ k = p.count /\ l = p.free
          OBVIOUS
        <5>2. a \in Nat /\ b \in Nat /\ k = a + 1 /\ l = b
          BY <3>1, <4>3, <5>1
        <5>3. k - l = a - b + 1
          BY <5>2
        <5>. QED
          BY <5>1, <5>3
      <4>. QED
        BY <4>4, <4>5, <4>6
    <3>. QED
      BY <3>2, <3>3
  <2>4. Fragment \in FragmentStates /\ Fragment.words = << >> /\ Fragment.used = MemStreamBufferSize
    BY BufferSize, EmptySeq DEF Fragment, FragmentStates
  <2>5. /\ e \in Seq(FragmentStates) /\ Len(e) = n + 1
        /\ \A i \in 1 .. n : e[i] = c[i]
        /\ e[n + 1] = Fragment
    BY <1>1, <1>2, <2>1, <2>4, AppendProperties
  <2>6. /\ x \in StreamStates /\ x.chain = e /\ x.current = n + 1 /\ x.handy = MemStreamBufferSize
        /\ x.fragment_count = n + 1 /\ x.decode = FALSE
    <3>1. n + 1 \in Nat /\ Len(y.x.chain) + 1 = n + 1 /\ y.x.fragment_count + 1 = n + 1
      BY <1>1, <1>2
    <3>. QED
      BY <1>2, <2>1, <2>5, <3>1, BufferSize DEF Extended, StreamStates
  <2>7. z \in Progress /\ z.p = p /\ z.x = x /\ z.out = y.out /\ z.ok = TRUE
    BY <2>2, <2>3, <2>6 DEF Progress
  <2>8. FullButLast(e)
    <3>. SUFFICES ASSUME NEW i \in 1 .. n
                  PROVE  e[i].used = MemStreamBufferSize /\ Len(e[i].words) = MemStreamBufferSize
      BY <1>2, <2>5 DEF FullButLast
    <3>1. CASE i = n
      <4>1. Len(y.x.chain) > 0 /\ e[i] = y.x.chain[Len(y.x.chain)]
        BY <1>1, <1>2, <2>5, <3>1
      <4>. QED
        BY <4>1 DEF LastIsFull
    <3>2. CASE i # n
      <4>1. i \in 1 .. n - 1 /\ e[i] = c[i]
        BY <1>2, <2>5, <3>2
      <4>2. FullButLast(c)
        BY <1>1
      <4>3. c[i].used = MemStreamBufferSize /\ Len(c[i].words) = MemStreamBufferSize
        BY <1>1, <4>1, <4>2 DEF FullButLast
      <4>. QED
        BY <4>1, <4>3
    <3>. QED
      BY <3>1, <3>2
  <2>9. Writable(x)
    <3>1. Len(<< >>) = 0 /\ Len(e) > 0 /\ e[Len(e)] = Fragment
      BY <1>2, <2>5
    <3>. QED
      BY <2>4, <2>5, <2>6, <2>8, <3>1, BufferSize DEF Writable
  <2>10. Content(x) = Content(y.x)
    <3>1. n <= Len(c) /\ n <= Len(e) /\ n \in 0 .. n /\ n + 1 \in 1 .. Len(e) /\ n = n + 1 - 1
      BY <1>1, <1>2, <2>5
    <3>2. Joined(e)[n] = Joined(c)[n]
      BY <1>2, <2>5, <3>1, JoinedSame
    <3>3. PICK m : m = n + 1
      OBVIOUS
    <3>4. Joined(e)[m] = Joined(e)[n] \o e[m].words /\ Joined(e)[n] \in Seq(Words)
      <4>1. m \in 1 .. Len(e) /\ n = m - 1
        BY <1>2, <3>1, <3>3
      <4>. QED
        BY <2>5, <4>1, JoinedNext
    <3>5. Joined(e)[m] = Joined(e)[n]
      BY <2>4, <2>5, <3>3, <3>4, ConcatEmptySeq
    <3>. QED
      BY <1>1, <2>5, <2>6, <3>2, <3>3, <3>5 DEF Content
  <2>12. Elsewhere(p, e) = Elsewhere(y.p, c)
    <3>1. y.p.count \in Nat /\ y.p.free \in Nat /\ p.count \in Nat /\ p.free \in Nat
      BY <1>2, <2>3 DEF Pools
    <3>2. Len(e) = n + 1 /\ Len(c) = n /\ n \in Nat
      BY <1>1, <1>2, <2>5
    <3>3. p.count - p.free - (n + 1) = y.p.count - y.p.free - n
      <4>1. PICK a, b, k, l : a = y.p.count /\ b = y.p.free /\ k = p.count /\ l = p.free
        OBVIOUS
      <4>2. a \in Nat /\ b \in Nat /\ k \in Nat /\ l \in Nat /\ k - l = a - b + 1
        BY <2>3, <3>1, <4>1
      <4>3. k - l - (n + 1) = a - b - n
        BY <1>2, <4>2
      <4>. QED
        BY <4>1, <4>3
    <3>. QED
      BY <3>2, <3>3 DEF Elsewhere
  <2>. QED
    BY <1>1, <2>3, <2>6, <2>7, <2>9, <2>10, <2>12
<1>. QED
  BY <1>3, <1>4

\* A word goes to the end of the last fragment.
LEMMA PutLast ==
  ASSUME NEW x, Writable(x), x.handy > 0, NEW w \in Words, NEW t, t = Stored(x, w)
  PROVE  /\ Writable(t) /\ Len(t.chain) = Len(x.chain)
         /\ Content(t) = Append(Content(x), w)
<1>1. PICK c, n, f : c = x.chain /\ n = Len(c) /\ f = c[n]
  OBVIOUS
<1>2. /\ x \in StreamStates /\ c \in Seq(FragmentStates) /\ n \in Nat \ {0} /\ n \in 1 .. n
      /\ x.current = n /\ x.handy \in Nat \ {0} /\ n \in 1 .. Len(c)
  <2>1. x \in StreamStates /\ Len(x.chain) > 0 /\ x.current = Len(x.chain)
    BY DEF Writable
  <2>. QED
    <3>1. c \in Seq(FragmentStates) /\ n \in Nat /\ x.handy \in Nat
      BY <1>1, <2>1, StreamFields
    <3>. QED
      BY <1>1, <2>1, <3>1
<1>3. f \in FragmentStates /\ f.words \in Seq(Words) /\ f.used \in Nat
  <2>1. f \in FragmentStates
    BY <1>1, <1>2, ElementOfSeq
  <2>. QED
    BY <2>1 DEF FragmentStates
<1>4. PICK v, g, e : v = Append(f.words, w) /\ g = [f EXCEPT !.words = v] /\ e = [c EXCEPT ![n] = g]
  OBVIOUS
<1>5. v \in Seq(Words) /\ Len(v) = Len(f.words) + 1 /\ v = f.words \o << w >> /\ << w >> \in Seq(Words)
  BY <1>3, <1>4, AppendProperties, AppendIsConcat
<1>6. g \in FragmentStates /\ g.words = v /\ g.used = f.used
  BY <1>3, <1>4, <1>5 DEF FragmentStates
<1>7. /\ e \in Seq(FragmentStates) /\ Len(e) = n
      /\ \A i \in 1 .. n : e[i] = IF i = n THEN g ELSE c[i]
  BY <1>1, <1>2, <1>4, <1>6, ExceptSeq
<1>8. t = [x EXCEPT !.chain = e, !.handy = x.handy - 1]
  BY <1>1, <1>2, <1>4 DEF Stored
<1>9. /\ t \in StreamStates /\ t.chain = e /\ t.handy = x.handy - 1 /\ t.current = n
      /\ t.fragment_count = x.fragment_count /\ t.decode = x.decode
  <2>1. x.handy - 1 \in Nat
    BY <1>2
  <2>. QED
    BY <1>2, <1>7, <1>8, <2>1 DEF StreamStates
<1>10. FullButLast(e)
  <2>1. FullButLast(c)
    BY <1>1 DEF Writable
  <2>. QED
    BY <1>1, <1>2, <1>7, <2>1 DEF FullButLast
<1>11. Len(f.words) \in Nat /\ x.handy = MemStreamBufferSize - Len(f.words)
       /\ f.used = MemStreamBufferSize /\ x.fragment_count = n /\ x.decode = FALSE
  BY <1>1, <1>3, LenProperties DEF Writable
<1>12. Writable(t)
  <2>1. e[Len(e)] = g /\ Len(e) = n
    BY <1>2, <1>7
  <2>2. t.handy = MemStreamBufferSize - Len(g.words)
    <3>1. PICK B, h, l : B = MemStreamBufferSize /\ h = x.handy /\ l = Len(f.words)
      OBVIOUS
    <3>2. B \in Nat /\ l \in Nat /\ h = B - l
      BY <1>11, <3>1, BufferSize
    <3>3. h - 1 = B - (l + 1)
      BY <3>2
    <3>4. t.handy = h - 1 /\ Len(g.words) = l + 1
      BY <1>5, <1>6, <1>9, <3>1
    <3>. QED
      BY <3>1, <3>3, <3>4
  <2>. QED
    BY <1>2, <1>6, <1>9, <1>10, <1>11, <2>1, <2>2 DEF Writable
<1>13. Joined(e)[n] = Append(Joined(c)[n], w)
  <2>1. PICK m : m = n - 1
    OBVIOUS
  <2>2. m \in Nat /\ m <= Len(c) /\ m <= Len(e) /\ m \in 0 .. m /\ n \in 1 .. Len(e)
    BY <1>1, <1>2, <1>7, <2>1
  <2>3. \A i \in 1 .. m : c[i].words = e[i].words
    BY <1>2, <1>7, <2>1
  <2>4. Joined(e)[m] = Joined(c)[m]
    BY <1>2, <1>7, <2>2, <2>3, JoinedSame
  <2>5. Joined(c)[n] = Joined(c)[m] \o f.words /\ Joined(c)[m] \in Seq(Words)
        /\ Joined(c)[n] \in Seq(Words)
    <3>1. Joined(c)[n] = Joined(c)[m] \o f.words /\ Joined(c)[m] \in Seq(Words)
      BY <1>1, <1>2, <2>1, JoinedNext
    <3>. QED
      BY <1>3, <3>1, ConcatProperties
  <2>6. Joined(e)[n] = Joined(e)[m] \o v
    <3>1. Joined(e)[n] = Joined(e)[m] \o e[n].words
      BY <1>7, <2>1, <2>2, JoinedNext
    <3>. QED
      BY <1>2, <1>6, <1>7, <3>1
  <2>7. PICK a, b : a = Joined(c)[m] /\ b = Joined(c)[n]
    OBVIOUS
  <2>8. Joined(e)[n] = a \o (f.words \o << w >>)
    <3>1. PICK u : u = f.words \o << w >>
      OBVIOUS
    <3>2. v = u
      BY <1>5, <3>1
    <3>3. Joined(e)[n] = a \o u
      BY <2>4, <2>6, <2>7, <3>2
    <3>. QED
      BY <3>1, <3>3
  <2>9. a \o (f.words \o << w >>) = (a \o f.words) \o << w >>
    <3>1. PICK g1, g2 : g1 = f.words /\ g2 = << w >>
      OBVIOUS
    <3>2. a \in Seq(Words) /\ g1 \in Seq(Words) /\ g2 \in Seq(Words)
      BY <1>3, <1>5, <2>5, <2>7, <3>1
    <3>3. (a \o g1) \o g2 = a \o (g1 \o g2)
      BY <3>2, ConcatAssociative
    <3>. QED
      BY <3>1, <3>3
  <2>10. Append(b, w) = b \o << w >>
    BY <2>5, <2>7, AppendIsConcat
  <2>. QED
    BY <2>5, <2>7, <2>8, <2>9, <2>10
<1>. QED
  BY <1>1, <1>7, <1>9, <1>12, <1>13 DEF Content


\* A part of a sequence grows by one element.
LEMMA SpanNext ==
  ASSUME NEW S, NEW s \in Seq(S), NEW m \in 1 .. Len(s), NEW n \in m .. Len(s), NEW k, k = n - 1
  PROVE  SubSeq(s, m, n) = SubSeq(s, m, k) \o << s[n] >>
BY SubSeqRecursiveSecond

\* Progress of writing; nothing is written after a failure.
Writing == {y \in Progress : y.p.count <= FragmentQuota /\ Writable(y.x)}

\* The next fragment of a stream whose fragments are full.
AllocatedNext(y, u) ==
    /\ u \in Writing /\ u.out = y.out
    /\ Elsewhere(u.p, u.x.chain) = Elsewhere(y.p, y.x.chain)
    /\ Content(u.x) = Content(y.x)
    /\ u.ok = TRUE => u.x.handy > 0

\* A stream whose last fragment is full gets another one, or fails for want of memory.
LEMMA AllocateNext ==
  ASSUME NEW y \in Writing, y.ok = TRUE, y.x.handy = 0
  PROVE  AllocatedNext(y, Allocate(y))
<1>0. PICK u : u = Allocate(y)
  OBVIOUS
<1>1. /\ y \in Progress /\ y.p.count <= FragmentQuota /\ Writable(y.x)
      /\ y.ok \in BOOLEAN /\ y.x \in StreamStates /\ y.p \in Pools /\ y.out \in Seq(Words)
  BY DEF Writing, Progress
<1>2. /\ FullButLast(y.x.chain) /\ y.x.fragment_count = Len(y.x.chain) /\ y.x.decode = FALSE
      /\ LastIsFull(y.x.chain)
  <2>1. PICK l : l = y.x.chain[Len(y.x.chain)]
    OBVIOUS
  <2>2. l.used = MemStreamBufferSize /\ 0 = MemStreamBufferSize - Len(l.words)
    BY <1>1, <2>1 DEF Writable
  <2>3. Len(l.words) \in Nat
    <3>1. y.x.chain \in Seq(FragmentStates) /\ Len(y.x.chain) \in 1 .. Len(y.x.chain)
      BY <1>1, StreamFields DEF Writable
    <3>2. l \in FragmentStates
      BY <2>1, <3>1, ElementOfSeq
    <3>. QED
      BY <3>2, LenProperties DEF FragmentStates
  <2>4. Len(l.words) = MemStreamBufferSize
    BY <2>2, <2>3, BufferSize
  <2>. QED
    BY <1>1, <2>1, <2>2, <2>4 DEF Writable, LastIsFull
<1>3. /\ u \in Progress /\ u.p.count <= FragmentQuota /\ u.out = y.out
      /\ Elsewhere(u.p, u.x.chain) = Elsewhere(y.p, y.x.chain)
      /\ u.ok = FALSE => u.p = y.p /\ u.x = y.x
      /\ u.ok = TRUE => Writable(u.x) /\ Content(u.x) = Content(y.x)
                        /\ u.x.handy = MemStreamBufferSize
  BY <1>0, <1>1, <1>2, AllocateFragment
<1>4. CASE u.ok = FALSE
  BY <1>0, <1>1, <1>3, <1>4 DEF Writing, AllocatedNext
<1>5. CASE u.ok = TRUE
  BY <1>0, <1>3, <1>5, BufferSize DEF Writing, AllocatedNext
<1>. QED
  BY <1>3, <1>4, <1>5 DEF Progress

\* One more word has been written, or not.
OnePut(y, w, z) ==
    /\ z \in Writing /\ z.out = y.out
    /\ Elsewhere(z.p, z.x.chain) = Elsewhere(y.p, y.x.chain)
    /\ z.ok = FALSE => Content(z.x) = Content(y.x)
    /\ z.ok = TRUE => y.ok = TRUE /\ Content(z.x) = Append(Content(y.x), w)

\* One word more is written, or the stream fails and stays as it is.
LEMMA PutOne ==
  ASSUME NEW y \in Writing, NEW w \in Words
  PROVE  OnePut(y, w, PutLong(y, w))
<1>0. PICK z : z = PutLong(y, w)
  OBVIOUS
<1>1. /\ y \in Progress /\ y.p.count <= FragmentQuota /\ Writable(y.x)
      /\ y.ok \in BOOLEAN /\ y.x \in StreamStates /\ y.p \in Pools /\ y.out \in Seq(Words)
  BY DEF Writing, Progress
<1>2. PICK u : u = IF y.ok /\ y.x.handy = 0 THEN Allocate(y) ELSE y
  OBVIOUS
<1>3. z = IF ~ u.ok THEN u
          ELSE [u EXCEPT !.x = Stored(@, w)]
  BY <1>0, <1>2 DEF PutLong
<1>4. /\ u \in Writing /\ u.out = y.out
      /\ Elsewhere(u.p, u.x.chain) = Elsewhere(y.p, y.x.chain)
      /\ Content(u.x) = Content(y.x)
      /\ (u.ok = TRUE => y.ok = TRUE /\ u.x.handy > 0)
  <2>1. CASE y.ok = TRUE /\ y.x.handy = 0
    <3>1. u = Allocate(y)
      BY <1>2, <2>1
    <3>2. AllocatedNext(y, u)
      BY <2>1, <3>1, AllocateNext
    <3>. QED
      BY <2>1, <3>2 DEF AllocatedNext
  <2>2. CASE ~ (y.ok = TRUE /\ y.x.handy = 0)
    <3>1. u = y
      BY <1>1, <1>2, <2>2
    <3>2. y.x.handy \in Nat
      BY <1>1, StreamFields
    <3>. QED
      BY <1>1, <2>2, <3>1, <3>2
  <2>. QED
    BY <2>1, <2>2
<1>5. CASE u.ok = FALSE
  BY <1>0, <1>3, <1>4, <1>5 DEF OnePut
<1>6. CASE u.ok = TRUE
  <2>1. PICK t : t = Stored(u.x, w)
    OBVIOUS
  <2>2. u \in Progress /\ u.p.count <= FragmentQuota /\ Writable(u.x) /\ u.x \in StreamStates
    BY <1>4 DEF Writing, Progress
  <2>3. z = [u EXCEPT !.x = t]
    BY <1>3, <1>6, <2>1
  <2>5. Writable(t) /\ Len(t.chain) = Len(u.x.chain) /\ Content(t) = Append(Content(u.x), w)
    BY <1>4, <1>6, <2>1, <2>2, PutLast
  <2>6. z \in Progress /\ z.x = t /\ z.p = u.p /\ z.ok = TRUE /\ z.out = u.out
    BY <1>6, <2>2, <2>3, <2>5 DEF Progress, Writable
  <2>. QED
    BY <1>0, <1>4, <1>6, <2>2, <2>5, <2>6 DEF Writing, Elsewhere, OnePut
<1>. QED
  <2>1. u.ok \in BOOLEAN
    BY <1>4 DEF Writing, Progress
  <2>. QED
    BY <1>5, <1>6, <2>1

\* What has been written when the words up to i were tried.
PutSoFar(y, ws, i, z) ==
    /\ z \in Writing /\ z.out = y.out
    /\ Elsewhere(z.p, z.x.chain) = Elsewhere(y.p, y.x.chain)
    /\ \E n \in 0 .. i : /\ z.ok = TRUE => n = i
                         /\ Content(z.x) = Content(y.x) \o SubSeq(ws, 1, n)

\* The content of a stream is a sequence of words.
LEMMA ContentType ==
  ASSUME NEW x \in StreamStates
  PROVE  Content(x) \in Seq(Words)
<1>1. x.chain \in Seq(FragmentStates) /\ Len(x.chain) \in 0 .. Len(x.chain)
  BY StreamFields
<1>. QED
  BY <1>1, JoinedWords DEF Content

\* The words are written one by one, as many as there is memory for.
LEMMA PutAll ==
  ASSUME NEW y \in Writing, y.ok = TRUE, NEW ws \in Seq(Words)
  PROVE  PutSoFar(y, ws, Len(ws), Puts(y, ws)[Len(ws)])
<1>1. PICK n : n = Len(ws)
  OBVIOUS
<1>2. n \in Nat /\ \A i \in 1 .. n : ws[i] \in Words
  BY <1>1, LenProperties, ElementOfSeq
<1>3. PICK F : F = [q \in (1 .. n) \X Writing |-> PutLong(q[2], ws[q[1]])]
  OBVIOUS
<1>4. F \in StepsOn(n, Writing)
  <2>1. \A q \in (1 .. n) \X Writing : PutLong(q[2], ws[q[1]]) \in Writing
    <3>. TAKE q \in (1 .. n) \X Writing
    <3>1. PICK a, b : a = q[2] /\ b = ws[q[1]]
      OBVIOUS
    <3>2. a \in Writing /\ b \in Words
      BY <1>2, <3>1
    <3>3. OnePut(a, b, PutLong(a, b))
      BY <3>2, PutOne
    <3>. QED
      BY <3>1, <3>3 DEF OnePut
  <2>. QED
    BY <1>3, <2>1 DEF StepsOn
<1>5. PICK f : Iteration(f, n, Writing, y, F)
  BY <1>2, <1>4, Iterated
<1>6. /\ f \in [0 .. n -> Writing] /\ f[0] = y
      /\ \A i \in 1 .. n : f[i] = PutLong(f[i - 1], ws[i])
  <2>1. f \in [0 .. n -> Writing] /\ f[0] = y /\ \A i \in 1 .. n : f[i] = F[<<i, f[i - 1]>>]
    BY <1>5 DEF Iteration
  <2>2. ASSUME NEW i \in 1 .. n PROVE f[i] = PutLong(f[i - 1], ws[i])
    <3>1. i - 1 \in 0 .. n
      BY <1>2
    <3>2. f[i - 1] \in Writing
      BY <2>1, <3>1
    <3>3. F[<<i, f[i - 1]>>] = PutLong(f[i - 1], ws[i])
      BY <1>3, <3>2
    <3>. QED
      BY <2>1, <3>3
  <2>. QED
    BY <2>1, <2>2
<1>7. f = [i \in 0 .. Len(ws) |-> IF i = 0 THEN y ELSE PutLong(f[i - 1], ws[i])]
  <2>1. PICK g : g = [i \in 0 .. n |-> IF i = 0 THEN y ELSE PutLong(f[i - 1], ws[i])]
    OBVIOUS
  <2>2. \A i \in 0 .. n : f[i] = g[i]
    <3>. TAKE i \in 0 .. n
    <3>1. CASE i = 0
      BY <1>6, <2>1, <3>1
    <3>2. CASE i # 0
      <4>1. i \in 1 .. n
        BY <1>2, <3>2
      <4>2. g[i] = PutLong(f[i - 1], ws[i])
        BY <2>1, <3>2
      <4>. QED
        BY <1>6, <4>1, <4>2
    <3>. QED
      BY <3>1, <3>2
  <2>3. f = g
    BY <1>6, <2>1, <2>2
  <2>. QED
    BY <1>1, <2>1, <2>3
<1>8. Puts(y, ws) = CHOOSE h : h = [i \in 0 .. Len(ws) |-> IF i = 0 THEN y ELSE PutLong(h[i - 1], ws[i])]
  BY DEF Puts
<1>9. PICK h : h = Puts(y, ws)
  OBVIOUS
<1>10. h = [i \in 0 .. Len(ws) |-> IF i = 0 THEN y ELSE PutLong(h[i - 1], ws[i])]
  BY <1>7, <1>8, <1>9, Zenon
<1>11. h[0] = y /\ \A i \in 1 .. n : h[i] = PutLong(h[i - 1], ws[i])
  BY <1>1, <1>2, <1>10
<1>. DEFINE S == {i \in Nat : PutSoFar(y, ws, i, h[i])}
<1>12. 0 \in S
  <2>1. SubSeq(ws, 1, 0) = << >>
    <3>1. PICK a, b : a = 1 /\ b = 0
      OBVIOUS
    <3>2. SubSeq(ws, a, b) = << >>
      BY <3>1, SubSeqEmpty
    <3>. QED
      BY <3>1, <3>2
  <2>2. Content(y.x) \o SubSeq(ws, 1, 0) = Content(y.x)
    <3>1. Content(y.x) \in Seq(Words)
      BY ContentType DEF Writing, Progress
    <3>. QED
      BY <2>1, <3>1, ConcatEmptySeq
  <2>3. 0 \in 0 .. 0
    OBVIOUS
  <2>. QED
    BY <1>11, <2>2, <2>3 DEF PutSoFar
<1>13. ASSUME NEW i \in 0 .. n - 1, i \in S PROVE i + 1 \in S
  <2>1. PICK j, u, v : j = i + 1 /\ u = h[i] /\ v = h[j]
    OBVIOUS
  <2>2. i \in Nat /\ j \in 1 .. n /\ j - 1 = i /\ j \in Nat
    BY <1>2, <2>1
  <2>3. PutSoFar(y, ws, i, u)
    BY <1>13, <2>1
  <2>4. v = PutLong(u, ws[j]) /\ ws[j] \in Words
    BY <1>2, <1>11, <2>1, <2>2
  <2>. HIDE DEF S
  <2>5. u \in Writing /\ u.out = y.out /\ Elsewhere(u.p, u.x.chain) = Elsewhere(y.p, y.x.chain)
    BY <2>3 DEF PutSoFar
  <2>6. /\ v \in Writing /\ v.out = u.out
        /\ Elsewhere(v.p, v.x.chain) = Elsewhere(u.p, u.x.chain)
        /\ v.ok = FALSE => Content(v.x) = Content(u.x)
        /\ v.ok = TRUE => u.ok = TRUE /\ Content(v.x) = Append(Content(u.x), ws[j])
    <3>1. PICK w : w = ws[j]
      OBVIOUS
    <3>2. v = PutLong(u, w) /\ w \in Words
      BY <2>4, <3>1
    <3>3. OnePut(u, w, v)
      BY <2>5, <3>2, PutOne, Zenon
    <3>. QED
      BY <3>1, <3>3 DEF OnePut
  <2>7. PICK k \in 0 .. i : /\ u.ok = TRUE => k = i
                            /\ Content(u.x) = Content(y.x) \o SubSeq(ws, 1, k)
    BY <2>3 DEF PutSoFar
  <2>8. v.ok \in BOOLEAN
    BY <2>6 DEF Writing, Progress
  <2>9. CASE v.ok = FALSE
    <3>1. k \in 0 .. j
      BY <2>1, <2>2
    <3>2. PutSoFar(y, ws, j, v)
      BY <2>5, <2>6, <2>7, <2>9, <3>1 DEF PutSoFar
    <3>. QED
      BY <2>1, <2>2, <3>2 DEF S
  <2>10. CASE v.ok = TRUE
    <3>1. k = i /\ j \in 0 .. j
      BY <2>2, <2>6, <2>7, <2>10
    <3>2. PICK c, d, e : c = Content(y.x) /\ d = SubSeq(ws, 1, i) /\ e = << ws[j] >>
      OBVIOUS
    <3>3. c \in Seq(Words) /\ d \in Seq(Words) /\ e \in Seq(Words)
      <4>1. c \in Seq(Words)
        BY <3>2, ContentType DEF Writing, Progress
      <4>2. d \in Seq(Words)
        BY <1>1, <1>2, <2>2, <3>2, SubSeqProperties
      <4>. QED
        BY <2>4, <3>2, <4>1, <4>2
    <3>4. SubSeq(ws, 1, j) = d \o e
      BY <1>1, <1>2, <2>1, <2>2, <2>4, <3>2, SpanNext
    <3>5. Content(v.x) = (c \o d) \o e
      <4>1. Content(u.x) \in Seq(Words) /\ Content(u.x) = c \o d
        BY <2>5, <2>7, <3>1, <3>2, ContentType DEF Writing, Progress
      <4>. QED
        BY <2>4, <2>6, <2>10, <3>2, <4>1, AppendIsConcat
    <3>6. Content(v.x) = c \o (d \o e)
      BY <3>3, <3>5, ConcatAssociative
    <3>7. PutSoFar(y, ws, j, v)
      BY <2>5, <2>6, <3>1, <3>2, <3>4, <3>6 DEF PutSoFar
    <3>. QED
      BY <2>1, <2>2, <3>7 DEF S
  <2>. QED
    BY <2>8, <2>9, <2>10
<1>14. \A i \in 0 .. n : i \in S
  <2>. HIDE DEF S
  <2>. QED
    BY <1>2, <1>12, <1>13, CountingUp
<1>15. n \in 0 .. n
  BY <1>2
<1>16. PutSoFar(y, ws, n, h[n])
  BY <1>14, <1>15
<1>. QED
  BY <1>1, <1>9, <1>16

-----------------------------------------------------------------------------
(* Reading.                                                                *)

\* Every fragment of a stream that is read says how many words it has.
LEMMA UsedIsLength ==
  ASSUME NEW x, Readable(x), NEW i \in 1 .. Len(x.chain)
  PROVE  /\ x.chain[i] \in FragmentStates /\ x.chain[i].words \in Seq(Words)
         /\ x.chain[i].used = Len(x.chain[i].words) /\ x.chain[i].used \in Nat
         /\ i < Len(x.chain) => x.chain[i].used = MemStreamBufferSize
<1>1. x \in StreamStates /\ FullButLast(x.chain)
      /\ x.chain[Len(x.chain)].used = Len(x.chain[Len(x.chain)].words)
  BY DEF Readable
<1>2. x.chain \in Seq(FragmentStates) /\ Len(x.chain) \in Nat
  BY <1>1, StreamFields
<1>3. x.chain[i] \in FragmentStates
  BY <1>2, ElementOfSeq
<1>4. x.chain[i].words \in Seq(Words) /\ x.chain[i].used \in Nat
  BY <1>3 DEF FragmentStates
<1>5. CASE i = Len(x.chain)
  BY <1>1, <1>2, <1>3, <1>4, <1>5
<1>6. CASE i # Len(x.chain)
  <2>1. i \in 1 .. Len(x.chain) - 1
    BY <1>2, <1>6
  <2>2. x.chain[i].used = MemStreamBufferSize /\ Len(x.chain[i].words) = MemStreamBufferSize
    BY <1>1, <2>1 DEF FullButLast
  <2>. QED
    BY <1>3, <1>4, <2>2
<1>. QED
  BY <1>5, <1>6

\* Reading is in the fragment k of the chain c, of which h words of u are left.
Place(x, c, k, l, h, u) ==
    c = x.chain /\ k = x.current /\ k # 0 /\ l = k - 1 /\ h = x.handy /\ u = c[k].used

\* Where reading is, and which word comes next.
LEMMA WherePosition ==
  ASSUME NEW x, Readable(x), NEW c, NEW k, NEW l, NEW h, NEW u,
         Place(x, c, k, l, h, u)
  PROVE  /\ Position(x) \in 0 .. Len(Content(x)) /\ Len(Content(x)) \in Nat
         /\ Position(x) = Len(Joined(c)[l]) + u - h
         /\ Len(Joined(c)[k]) = Len(Joined(c)[l]) + u
         /\ Len(Joined(c)[l]) \in Nat /\ u \in Nat /\ h \in 0 .. u
         /\ h > 0 => /\ Position(x) + 1 \in 1 .. Len(Content(x))
                     /\ Content(x)[Position(x) + 1] = c[k].words[u - h + 1]
<1>1. PICK n, f : n = Len(c) /\ f = c[k]
  OBVIOUS
<1>2. /\ c \in Seq(FragmentStates) /\ n \in Nat /\ k \in 1 .. n /\ h \in Nat /\ h <= u
      /\ f = c[k] /\ x \in StreamStates
  <2>0. c = x.chain /\ k = x.current /\ k # 0 /\ h = x.handy /\ u = c[k].used
    BY DEF Place
  <2>1. /\ x \in StreamStates /\ x.current \in 0 .. Len(x.chain)
        /\ x.handy <= x.chain[x.current].used
    BY <2>0 DEF Readable
  <2>2. c \in Seq(FragmentStates) /\ n \in Nat /\ h \in Nat
    BY <1>1, <2>0, <2>1, StreamFields
  <2>. QED
    BY <1>1, <2>0, <2>1, <2>2
<1>3. f.words \in Seq(Words) /\ u = Len(f.words) /\ u \in Nat
  <2>1. c = x.chain /\ u = f.used
    BY <1>1 DEF Place
  <2>. QED
    BY <1>1, <1>2, <2>1, UsedIsLength
<1>4. l = k - 1 /\ l \in 0 .. n
  BY <1>2 DEF Place
<1>5. PICK a, b, d : a = Joined(c)[l] /\ b = Joined(c)[k] /\ d = Joined(c)[n]
  OBVIOUS
<1>6. a \in Seq(Words) /\ b = a \o f.words /\ b \in Seq(Words) /\ d \in Seq(Words)
  <2>1. k \in 1 .. Len(c) /\ n \in 0 .. Len(c) /\ k \in 0 .. Len(c)
    BY <1>1, <1>2
  <2>2. a \in Seq(Words) /\ b = a \o f.words
    BY <1>2, <1>4, <1>5, <2>1, JoinedNext
  <2>3. \A i \in 0 .. Len(c) : Joined(c)[i] \in Seq(Words)
    BY <1>2, JoinedWords
  <2>. QED
    BY <1>5, <2>1, <2>2, <2>3
<1>7. Len(a) \in Nat /\ Len(b) = Len(a) + u /\ Len(d) \in Nat
  BY <1>3, <1>6, LenProperties, ConcatProperties
<1>8. Len(b) <= Len(d)
  <2>1. k \in 0 .. Len(c) /\ n \in k .. Len(c)
    BY <1>1, <1>2
  <2>. QED
    BY <1>2, <1>5, <2>1, JoinedPrefix
<1>9. Content(x) = d /\ Position(x) = Len(b) - h
  <2>1. c = x.chain /\ k = x.current /\ k # 0 /\ h = x.handy
    BY DEF Place
  <2>. QED
    BY <1>1, <1>5, <2>1 DEF Content, Position
<1>10. PICK p : p = Position(x)
  OBVIOUS
<1>11. p = Len(a) + u - h /\ p \in 0 .. Len(d)
  <2>1. p = Len(b) - h
    BY <1>9, <1>10
  <2>2. PICK i, j, e : i = Len(a) /\ j = Len(b) /\ e = Len(d)
    OBVIOUS
  <2>3. i \in Nat /\ j = i + u /\ e \in Nat /\ j <= e /\ u \in Nat /\ h \in Nat /\ h <= u
    BY <1>2, <1>3, <1>7, <1>8, <2>2
  <2>4. j - h = i + u - h /\ j - h \in 0 .. e
    BY <2>3
  <2>. QED
    BY <2>1, <2>2, <2>4
<1>12. ASSUME h > 0
       PROVE  /\ Position(x) + 1 \in 1 .. Len(Content(x))
              /\ Content(x)[Position(x) + 1] = c[k].words[u - h + 1]
  <2>1. PICK q : q = u - h + 1
    OBVIOUS
  <2>2. q \in 1 .. Len(f.words) /\ Len(a) + q = p + 1
    BY <1>2, <1>3, <1>7, <1>11, <1>12, <2>1
  <2>3. q \in 1 .. Len(c[k].words) /\ k \in 1 .. Len(c)
    BY <1>1, <1>2, <2>2
  <2>4. /\ Len(Joined(c)[k - 1]) + q \in 1 .. Len(Joined(c)[Len(c)])
        /\ Joined(c)[Len(c)][Len(Joined(c)[k - 1]) + q] = c[k].words[q]
    BY <1>2, <2>3, WordOfFragment
  <2>5. Len(a) + q \in 1 .. Len(d) /\ d[Len(a) + q] = f.words[q]
    BY <1>1, <1>2, <1>4, <1>5, <2>4
  <2>6. p + 1 \in 1 .. Len(d) /\ d[p + 1] = f.words[q]
    BY <2>2, <2>5
  <2>7. Content(x) = d /\ Position(x) = p /\ c[k].words[u - h + 1] = f.words[q]
    BY <1>1, <1>9, <1>10, <2>1
  <2>. QED
    BY <2>6, <2>7
<1>13. h \in 0 .. u
  BY <1>2, <1>3
<1>14. Position(x) = p /\ Content(x) = d /\ Joined(c)[l] = a /\ Joined(c)[k] = b
  BY <1>5, <1>9, <1>10
<1>. QED
  BY <1>3, <1>7, <1>11, <1>12, <1>13, <1>14

\* Progress of reading; nothing is read after the end.
Reading == {y \in Progress : /\ Readable(y.x)
                             /\ y.ok = TRUE => y.x.current # 0
                             /\ y.ok = FALSE => Position(y.x) = Len(Content(y.x))}

\* Going to the next fragment does not change the position.
LEMMA Advanced ==
  ASSUME NEW y \in Reading, y.ok = TRUE, y.x.handy = 0, NEW z, z = AdvanceToNextFragment(y)
  PROVE  /\ z \in Reading /\ z.p = y.p /\ z.x.chain = y.x.chain /\ z.out = y.out
         /\ Position(z.x) = Position(y.x)
         /\ z.ok = TRUE => z.x.handy > 0
         /\ z.ok = FALSE => Position(y.x) = Len(Content(y.x))
<1>1. PICK x, c, n, k : x = y.x /\ c = x.chain /\ n = Len(c) /\ k = x.current
  OBVIOUS
<1>2. /\ y \in Progress /\ x \in StreamStates /\ Readable(x) /\ c \in Seq(FragmentStates)
      /\ n \in Nat /\ k \in 1 .. n /\ x.handy = 0
  <2>1. y \in Progress /\ Readable(x) /\ x.current # 0
    BY <1>1 DEF Reading
  <2>2. x \in StreamStates /\ x.current \in 0 .. Len(x.chain)
    BY <2>1 DEF Readable
  <2>3. c \in Seq(FragmentStates) /\ n \in Nat
    BY <1>1, <2>2, StreamFields
  <2>. QED
    BY <1>1, <2>1, <2>2, <2>3
<1>3. PICK l, u : l = k - 1 /\ u = c[k].used
  OBVIOUS
<1>4. /\ Position(x) = Len(Joined(c)[k]) /\ Len(Joined(c)[k]) \in Nat
  <2>1. k # 0 /\ 0 = x.handy
    BY <1>2
  <2>2. /\ Position(x) = Len(Joined(c)[l]) + u - 0
        /\ Len(Joined(c)[k]) = Len(Joined(c)[l]) + u
        /\ Len(Joined(c)[l]) \in Nat /\ u \in Nat
    <3>1. PICK h : h = 0
      OBVIOUS
    <3>2. Place(x, c, k, l, h, u)
      BY <1>1, <1>3, <2>1, <3>1 DEF Place
    <3>3. /\ Position(x) = Len(Joined(c)[l]) + u - h
          /\ Len(Joined(c)[k]) = Len(Joined(c)[l]) + u
          /\ Len(Joined(c)[l]) \in Nat /\ u \in Nat
      BY <1>2, <3>2, WherePosition
    <3>. QED
      BY <3>1, <3>3
  <2>. QED
    BY <2>2
<1>5. CASE k = n
  <2>1. PICK t : t = [x EXCEPT !.current = 0]
    OBVIOUS
  <2>2. z = [y EXCEPT !.x = t, !.ok = FALSE]
    <3>1. y.x.current + 1 > Len(y.x.chain)
      BY <1>1, <1>2, <1>5
    <3>. QED
      BY <1>1, <2>1, <3>1 DEF AdvanceToNextFragment
  <2>3. /\ t \in StreamStates /\ t.chain = c /\ t.current = 0 /\ t.handy = 0
        /\ t.fragment_count = x.fragment_count /\ t.decode = x.decode /\ t.length = x.length
    BY <1>1, <1>2, <2>1 DEF StreamStates
  <2>4. Content(t) = Content(x)
    BY <1>1, <2>3 DEF Content
  <2>5. Readable(t)
    <3>1. 0 \in 0 .. Len(c)
      BY <1>1, <1>2
    <3>. QED
      BY <1>1, <1>2, <2>3, <2>4, <3>1 DEF Readable
  <2>6. Position(t) = Len(Content(t)) /\ Position(t) = Position(x)
    BY <1>1, <1>4, <1>5, <2>3, <2>4 DEF Position, Content
  <2>7. z \in Progress /\ z.x = t /\ z.p = y.p /\ z.ok = FALSE /\ z.out = y.out
    BY <1>2, <2>2, <2>3 DEF Progress
  <2>. QED
    BY <1>1, <2>3, <2>4, <2>5, <2>6, <2>7 DEF Reading
<1>6. CASE k # n
  <2>1. PICK m, w : m = k + 1 /\ w = c[m].used
    OBVIOUS
  <2>2. m \in 1 .. n /\ k = m - 1 /\ m # 0 /\ m \in Nat
    BY <1>2, <1>6, <2>1
  <2>3. w \in Nat /\ (m < n => w = MemStreamBufferSize)
    <3>1. m \in 1 .. Len(x.chain)
      BY <1>1, <2>2
    <3>. QED
      BY <1>1, <1>2, <2>1, <3>1, UsedIsLength
  <2>4. PICK t : t = [x EXCEPT !.current = m, !.handy = w]
    OBVIOUS
  <2>5. z = [y EXCEPT !.x = t, !.ok = (w > 0)]
    <3>1. ~ y.x.current + 1 > Len(y.x.chain)
      BY <1>1, <1>2, <1>6
    <3>. QED
      BY <1>1, <2>1, <2>4, <3>1 DEF AdvanceToNextFragment
  <2>6. /\ t \in StreamStates /\ t.chain = c /\ t.current = m /\ t.handy = w
        /\ t.fragment_count = x.fragment_count /\ t.decode = x.decode /\ t.length = x.length
    BY <1>1, <1>2, <2>2, <2>3, <2>4 DEF StreamStates
  <2>7. Content(t) = Content(x)
    BY <1>1, <2>6 DEF Content
  <2>8. Readable(t)
    <3>1. m \in 0 .. Len(c) /\ w <= w
      BY <1>1, <1>2, <2>2, <2>3
    <3>2. t.current # 0 /\ t.handy <= t.chain[t.current].used
      BY <2>1, <2>2, <2>6, <3>1
    <3>. QED
      BY <1>1, <1>2, <2>6, <2>7, <3>1, <3>2 DEF Readable
  <2>9. Position(t) = Len(Joined(c)[k]) + w - w
    <3>1. Place(t, c, m, k, w, w)
      BY <2>1, <2>2, <2>6 DEF Place
    <3>. QED
      BY <2>8, <3>1, WherePosition
  <2>10. Position(t) = Position(x)
    <3>1. PICK a : a = Len(Joined(c)[k])
      OBVIOUS
    <3>2. a + w - w = a
      BY <1>4, <2>3, <3>1
    <3>. QED
      BY <1>4, <2>9, <3>1, <3>2
  <2>11. PICK o : o = (w > 0)
    OBVIOUS
  <2>11a. z \in Progress /\ z.x = t /\ z.p = y.p /\ z.ok = o /\ z.out = y.out
    <3>1. o \in BOOLEAN
      BY <2>11
    <3>2. z = [y EXCEPT !.x = t, !.ok = o]
      BY <2>5, <2>11, Zenon
    <3>. QED
      BY <1>2, <2>6, <3>1, <3>2 DEF Progress
  <2>12. CASE w > 0
    <3>1. z.ok = TRUE
      BY <2>11, <2>11a, <2>12
    <3>2. z \in Reading
      BY <2>2, <2>6, <2>8, <2>11a, <3>1 DEF Reading
    <3>. QED
      BY <1>1, <2>6, <2>10, <2>11a, <2>12, <3>1, <3>2
  <2>13. CASE ~ w > 0
    <3>1. w = 0
      BY <2>3, <2>13
    <3>2. m = n
      BY <1>2, <2>2, <2>3, <3>1, BufferSize
    <3>2a. Position(t) = Len(Joined(c)[m])
      <4>1. Place(t, c, m, k, w, w)
        BY <2>1, <2>2, <2>6 DEF Place
      <4>2. Len(Joined(c)[m]) = Len(Joined(c)[k]) + w
        BY <2>8, <4>1, WherePosition
      <4>. QED
        BY <1>4, <2>10, <3>1, <4>2
    <3>3. Position(t) = Len(Content(t))
      BY <1>1, <1>4, <2>2, <2>6, <2>7, <2>10, <3>1, <3>2, <3>2a DEF Content
    <3>4. z.ok = FALSE
      <4>1. (w > 0) = FALSE
        BY <2>13
      <4>. QED
        BY <2>11, <2>11a, <4>1, Zenon
    <3>5. Position(x) = Len(Content(x))
      BY <2>7, <2>10, <3>3
    <3>6. z \in Reading
      BY <2>8, <2>11a, <3>3, <3>4 DEF Reading
    <3>. QED
      BY <1>1, <2>6, <2>10, <2>11a, <3>4, <3>5, <3>6
  <2>. QED
    BY <2>12, <2>13
<1>. QED
  BY <1>5, <1>6

\* One more word has been read, or not.
OneGet(y, z) ==
    /\ z \in Reading /\ z.p = y.p /\ z.x.chain = y.x.chain
    /\ z.ok = TRUE => /\ y.ok = TRUE /\ Position(z.x) = Position(y.x) + 1
                      /\ Position(z.x) \in 1 .. Len(Content(y.x))
                      /\ z.out = Append(y.out, Content(y.x)[Position(z.x)])
    /\ z.ok = FALSE /\ y.ok = TRUE => Position(y.x) = Len(Content(y.x))

\* One word more is read, or the end was met.
LEMMA GetOne ==
  ASSUME NEW y \in Reading
  PROVE  OneGet(y, GetLong(y))
<1>0. PICK z, u : z = GetLong(y) /\ u = IF y.ok /\ y.x.handy = 0 THEN AdvanceToNextFragment(y) ELSE y
  OBVIOUS
<1>1. y \in Progress /\ y.ok \in BOOLEAN /\ y.x \in StreamStates
  BY DEF Reading, Progress
<1>2. z = IF ~ u.ok THEN u
          ELSE [u EXCEPT !.out = Append(@, u.x.chain[u.x.current].words[
                                            u.x.chain[u.x.current].used - u.x.handy + 1]),
                         !.x.handy = @ - 1]
  BY <1>0, Zenon DEF GetLong
<1>3. /\ u \in Reading /\ u.p = y.p /\ u.x.chain = y.x.chain /\ u.out = y.out
      /\ Position(u.x) = Position(y.x)
      /\ u.ok = TRUE => y.ok = TRUE /\ u.x.handy > 0
      /\ u.ok = FALSE /\ y.ok = TRUE => Position(y.x) = Len(Content(y.x))
  <2>1. CASE y.ok = TRUE /\ y.x.handy = 0
    <3>1. u = AdvanceToNextFragment(y)
      BY <1>0, <2>1
    <3>. QED
      BY <2>1, <3>1, Advanced
  <2>2. CASE ~ (y.ok = TRUE /\ y.x.handy = 0)
    <3>1. u = y
      BY <1>0, <1>1, <2>2
    <3>2. y.x.handy \in Nat
      BY <1>1, StreamFields
    <3>. QED
      BY <1>1, <2>2, <3>1, <3>2
  <2>. QED
    BY <2>1, <2>2
<1>4. u \in Progress /\ Readable(u.x) /\ u.x \in StreamStates /\ u.ok \in BOOLEAN /\ u.out \in Seq(Words)
  BY <1>3 DEF Reading, Progress
<1>5. CASE u.ok = FALSE
  <2>1. z = u
    BY <1>2, <1>5
  <2>. QED
    BY <1>0, <1>3, <1>5, <2>1 DEF OneGet
<1>6. CASE u.ok = TRUE
  <2>0. u.x.current # 0 /\ u.x.handy > 0 /\ y.ok = TRUE
    BY <1>3, <1>6 DEF Reading
  <2>1. PICK x, c, k, l, h, v :
          /\ x = u.x /\ c = x.chain /\ k = x.current /\ l = k - 1 /\ h = x.handy /\ v = c[k].used
    OBVIOUS
  <2>2. Place(x, c, k, l, h, v)
    BY <2>0, <2>1 DEF Place
  <2>3. /\ Position(x) \in 0 .. Len(Content(x)) /\ Len(Content(x)) \in Nat
        /\ Position(x) = Len(Joined(c)[l]) + v - h
        /\ Len(Joined(c)[l]) \in Nat /\ v \in Nat /\ h \in 0 .. v
        /\ Position(x) + 1 \in 1 .. Len(Content(x))
        /\ Content(x)[Position(x) + 1] = c[k].words[v - h + 1]
    <3>1. Readable(x) /\ h > 0
      BY <1>4, <2>0, <2>1
    <3>. QED
      BY <2>2, <3>1, WherePosition
  <2>4. PICK w, p, i, t : /\ w = c[k].words[v - h + 1] /\ p = Position(x) + 1 /\ i = h - 1
                          /\ t = [x EXCEPT !.handy = i]
    OBVIOUS
  <2>5. p \in 1 .. Len(Content(x)) /\ Content(x)[p] = w /\ i \in Nat /\ i + 1 = h /\ i <= v
    <3>1. p \in 1 .. Len(Content(x)) /\ Content(x)[p] = w
      BY <2>3, <2>4
    <3>2. h > 0 /\ h \in Nat /\ h <= v
      BY <2>0, <2>1, <2>3
    <3>3. i = h - 1
      BY <2>4
    <3>. QED
      BY <2>3, <3>1, <3>2, <3>3
  <2>6. w \in Words
    <3>1. Content(x) \in Seq(Words)
      BY <1>4, <2>1, ContentType
    <3>. QED
      BY <2>5, <3>1, ElementOfSeq
  <2>7. z = [u EXCEPT !.out = Append(u.out, w), !.x = t]
    <3>1. z = [u EXCEPT !.out = Append(@, u.x.chain[u.x.current].words[
                                            u.x.chain[u.x.current].used - u.x.handy + 1]),
                        !.x.handy = @ - 1]
      BY <1>2, <1>6
    <3>2. w = u.x.chain[u.x.current].words[u.x.chain[u.x.current].used - u.x.handy + 1]
      BY <2>1, <2>4
    <3>3. t = [u.x EXCEPT !.handy = @ - 1]
      BY <2>1, <2>4
    <3>. QED
      BY <3>1, <3>2, <3>3
  <2>8. /\ t \in StreamStates /\ t.chain = c /\ t.current = k /\ t.handy = i
        /\ t.fragment_count = x.fragment_count /\ t.decode = x.decode /\ t.length = x.length
    BY <1>4, <2>1, <2>4, <2>5 DEF StreamStates
  <2>9. Content(t) = Content(x)
    BY <2>1, <2>8 DEF Content
  <2>10. Readable(t)
    <3>1. k # 0 /\ t.current # 0 /\ t.handy <= t.chain[t.current].used
      BY <2>0, <2>1, <2>5, <2>8
    <3>. QED
      BY <1>4, <2>1, <2>8, <2>9, <3>1 DEF Readable
  <2>11. Position(t) = p
    <3>1. Place(t, c, k, l, i, v)
      BY <2>0, <2>1, <2>8 DEF Place
    <3>2. Position(t) = Len(Joined(c)[l]) + v - i
      BY <2>10, <3>1, WherePosition
    <3>3. PICK a : a = Len(Joined(c)[l])
      OBVIOUS
    <3>4. a + v - i = a + v - h + 1
      <4>1. a \in Nat /\ v \in Nat /\ h \in Nat /\ i \in Nat /\ h = i + 1
        BY <2>3, <2>5, <3>3
      <4>. QED
        BY <4>1
    <3>. QED
      BY <2>3, <2>4, <3>2, <3>3, <3>4
  <2>12. Append(u.out, w) \in Seq(Words)
    BY <1>4, <2>6, AppendProperties
  <2>13. z \in Progress /\ z.x = t /\ z.p = u.p /\ z.ok = TRUE /\ z.out = Append(u.out, w)
    BY <1>4, <1>6, <2>7, <2>8, <2>12 DEF Progress
  <2>14. z \in Reading
    BY <2>0, <2>1, <2>8, <2>10, <2>13 DEF Reading
  <2>15. Content(y.x) = Content(x)
    BY <1>3, <2>1 DEF Content
  <2>. QED
    <3>1. z \in Reading /\ z.p = y.p /\ z.x.chain = y.x.chain /\ z.ok = TRUE
      BY <1>3, <2>1, <2>8, <2>13, <2>14
    <3>2. Position(z.x) = p /\ p = Position(y.x) + 1
      BY <1>3, <2>1, <2>4, <2>11, <2>13
    <3>3. p \in 1 .. Len(Content(y.x)) /\ z.out = Append(y.out, Content(y.x)[p])
      BY <1>3, <2>5, <2>13, <2>15
    <3>4. OneGet(y, z)
      BY <2>0, <3>1, <3>2, <3>3 DEF OneGet
    <3>. QED
      BY <1>0, <3>4
<1>. QED
  BY <1>4, <1>5, <1>6

\* What has been read after i words were asked for.
GotSoFar(y, i, z) ==
    /\ z \in Reading /\ z.p = y.p /\ z.x.chain = y.x.chain
    /\ z.ok = TRUE => /\ Position(z.x) = Position(y.x) + i
                      /\ z.out = SubSeq(Content(y.x), Position(y.x) + 1, Position(y.x) + i)
    /\ z.ok = FALSE => Position(y.x) + i > Len(Content(y.x))

\* The position is in the content.
LEMMA PositionType ==
  ASSUME NEW y \in Reading
  PROVE  /\ Position(y.x) \in 0 .. Len(Content(y.x))
         /\ Len(Content(y.x)) \in Nat /\ Content(y.x) \in Seq(Words)
<1>1. y.ok \in BOOLEAN /\ Readable(y.x) /\ y.x \in StreamStates
  BY DEF Reading, Progress
<1>2. Content(y.x) \in Seq(Words) /\ Len(Content(y.x)) \in Nat
  BY <1>1, ContentType, LenProperties
<1>3. CASE y.ok = TRUE
  <2>1. PICK x, c, k, l, h, u : /\ x = y.x /\ c = x.chain /\ k = x.current /\ l = k - 1
                                /\ h = x.handy /\ u = c[k].used
    OBVIOUS
  <2>2. Place(x, c, k, l, h, u)
    BY <1>3, <2>1 DEF Place, Reading
  <2>3. Position(x) \in 0 .. Len(Content(x))
    BY <1>1, <2>1, <2>2, WherePosition
  <2>. QED
    BY <1>2, <2>1, <2>3
<1>4. CASE y.ok = FALSE
  BY <1>2, <1>4 DEF Reading
<1>. QED
  BY <1>1, <1>3, <1>4

\* The words are read one by one, up to the end.
LEMMA GetAll ==
  ASSUME NEW y \in Reading, y.ok = TRUE, y.out = << >>, NEW n \in Nat
  PROVE  GotSoFar(y, n, Gets(y, n)[n])
<1>1. PICK F : F = [q \in (1 .. n) \X Reading |-> GetLong(q[2])]
  OBVIOUS
<1>2. F \in StepsOn(n, Reading)
  <2>1. \A q \in (1 .. n) \X Reading : GetLong(q[2]) \in Reading
    <3>. TAKE q \in (1 .. n) \X Reading
    <3>1. PICK a : a = q[2]
      OBVIOUS
    <3>2. OneGet(a, GetLong(a))
      BY <3>1, GetOne
    <3>. QED
      BY <3>1, <3>2 DEF OneGet
  <2>. QED
    BY <1>1, <2>1 DEF StepsOn
<1>3. PICK f : Iteration(f, n, Reading, y, F)
  BY <1>2, Iterated
<1>4. f \in [0 .. n -> Reading] /\ f[0] = y /\ \A i \in 1 .. n : f[i] = GetLong(f[i - 1])
  <2>1. f \in [0 .. n -> Reading] /\ f[0] = y /\ \A i \in 1 .. n : f[i] = F[<<i, f[i - 1]>>]
    BY <1>3 DEF Iteration
  <2>2. ASSUME NEW i \in 1 .. n PROVE f[i] = GetLong(f[i - 1])
    <3>1. i - 1 \in 0 .. n
      OBVIOUS
    <3>2. f[i - 1] \in Reading
      BY <2>1, <3>1
    <3>3. F[<<i, f[i - 1]>>] = GetLong(f[i - 1])
      BY <1>1, <3>2
    <3>. QED
      BY <2>1, <3>3
  <2>. QED
    BY <2>1, <2>2
<1>5. f = [i \in 0 .. n |-> IF i = 0 THEN y ELSE GetLong(f[i - 1])]
  <2>1. PICK g : g = [i \in 0 .. n |-> IF i = 0 THEN y ELSE GetLong(f[i - 1])]
    OBVIOUS
  <2>2. \A i \in 0 .. n : f[i] = g[i]
    <3>. TAKE i \in 0 .. n
    <3>1. CASE i = 0
      BY <1>4, <2>1, <3>1
    <3>2. CASE i # 0
      <4>1. i \in 1 .. n
        BY <3>2
      <4>2. g[i] = GetLong(f[i - 1])
        BY <2>1, <3>2
      <4>. QED
        BY <1>4, <4>1, <4>2
    <3>. QED
      BY <3>1, <3>2
  <2>3. f = g
    BY <1>4, <2>1, <2>2
  <2>. QED
    BY <2>1, <2>3
<1>6. Gets(y, n) = CHOOSE h : h = [i \in 0 .. n |-> IF i = 0 THEN y ELSE GetLong(h[i - 1])]
  BY DEF Gets
<1>7. PICK h : h = Gets(y, n)
  OBVIOUS
<1>8. h = [i \in 0 .. n |-> IF i = 0 THEN y ELSE GetLong(h[i - 1])]
  BY <1>5, <1>6, <1>7, Zenon
<1>9. h[0] = y /\ \A i \in 1 .. n : h[i] = GetLong(h[i - 1])
  BY <1>8
<1>10. PICK c, p : c = Content(y.x) /\ p = Position(y.x)
  OBVIOUS
<1>11. c \in Seq(Words) /\ Len(c) \in Nat /\ p \in 0 .. Len(c)
  BY <1>10, PositionType
<1>. DEFINE S == {i \in Nat : GotSoFar(y, i, h[i])}
<1>12. 0 \in S
  <2>1. SubSeq(c, p + 1, p + 0) = << >>
    <3>1. PICK a, b : a = p + 1 /\ b = p + 0
      OBVIOUS
    <3>2. a \in Int /\ b \in Int /\ b < a
      BY <1>11, <3>1
    <3>3. SubSeq(c, a, b) = << >>
      BY <3>2, SubSeqEmpty
    <3>. QED
      BY <3>1, <3>3
  <2>2. p + 0 = p
    BY <1>11
  <2>. QED
    BY <1>9, <1>10, <2>1, <2>2 DEF GotSoFar
<1>13. ASSUME NEW i \in 0 .. n - 1, i \in S PROVE i + 1 \in S
  <2>1. PICK j, u, v : j = i + 1 /\ u = h[i] /\ v = h[j]
    OBVIOUS
  <2>2. i \in Nat /\ j \in 1 .. n /\ j - 1 = i /\ j \in Nat
    BY <2>1
  <2>3. GotSoFar(y, i, u)
    BY <1>13, <2>1
  <2>. HIDE DEF S
  <2>4. v = GetLong(u)
    BY <1>9, <2>1, <2>2
  <2>5. /\ u \in Reading /\ u.p = y.p /\ u.x.chain = y.x.chain
        /\ u.ok = TRUE => Position(u.x) = p + i /\ u.out = SubSeq(c, p + 1, p + i)
        /\ u.ok = FALSE => p + i > Len(c)
    BY <1>10, <2>3 DEF GotSoFar
  <2>6. OneGet(u, v)
    BY <2>4, <2>5, GetOne, Zenon
  <2>7. u.ok \in BOOLEAN /\ v \in Reading /\ v.ok \in BOOLEAN
    BY <2>5, <2>6 DEF OneGet, Reading, Progress
  <2>8. Content(u.x) = c
    BY <1>10, <2>5 DEF Content
  <2>9. CASE v.ok = FALSE
    <3>1. p + j > Len(c)
      <4>1. CASE u.ok = FALSE
        <5>1. p + i > Len(c)
          BY <2>5, <4>1
        <5>. QED
          BY <1>11, <2>1, <2>2, <5>1
      <4>2. CASE u.ok = TRUE
        <5>1. p + i = Len(c)
          BY <2>5, <2>6, <2>8, <2>9, <4>2 DEF OneGet
        <5>. QED
          BY <1>11, <2>1, <2>2, <5>1
      <4>. QED
        BY <2>7, <4>1, <4>2
    <3>2. GotSoFar(y, j, v)
      BY <1>10, <2>5, <2>6, <2>9, <3>1 DEF OneGet, GotSoFar
    <3>. QED
      BY <2>1, <2>2, <3>2 DEF S
  <2>10. CASE v.ok = TRUE
    <3>1. PICK a, b, e : a = p + 1 /\ b = p + j /\ e = p + i
      OBVIOUS
    <3>2. /\ u.ok = TRUE /\ Position(v.x) = e + 1 /\ Position(v.x) \in 1 .. Len(c)
          /\ v.out = Append(u.out, c[Position(v.x)]) /\ u.out = SubSeq(c, a, e)
      BY <2>5, <2>6, <2>8, <2>10, <3>1 DEF OneGet
    <3>3. e + 1 = b /\ e = b - 1 /\ b \in a .. Len(c) /\ a \in 1 .. Len(c)
      BY <1>11, <2>1, <2>2, <3>1, <3>2
    <3>4. SubSeq(c, a, b) = SubSeq(c, a, e) \o << c[b] >>
      BY <1>11, <3>3, SpanNext
    <3>5. c[b] \in Words /\ u.out \in Seq(Words)
      <4>1. b \in 1 .. Len(c)
        BY <3>2, <3>3
      <4>2. c[b] \in Words
        BY <1>11, <4>1, ElementOfSeq
      <4>. QED
        BY <2>5, <4>2 DEF Reading, Progress
    <3>6. v.out = SubSeq(c, a, b)
      <4>1. PICK w, o : w = c[b] /\ o = u.out
        OBVIOUS
      <4>2. Append(o, w) = o \o << w >>
        BY <3>5, <4>1, AppendIsConcat
      <4>. QED
        BY <3>2, <3>3, <3>4, <4>1, <4>2
    <3>7. GotSoFar(y, j, v)
      BY <1>10, <2>5, <2>6, <2>10, <3>1, <3>2, <3>3, <3>6 DEF OneGet, GotSoFar
    <3>. QED
      BY <2>1, <2>2, <3>7 DEF S
  <2>. QED
    BY <2>7, <2>9, <2>10
<1>14. \A i \in 0 .. n : i \in S
  <2>. HIDE DEF S
  <2>. QED
    BY <1>12, <1>13, CountingUp
<1>15. n \in 0 .. n
  OBVIOUS
<1>16. GotSoFar(y, n, h[n])
  BY <1>14, <1>15
<1>. QED
  BY <1>7, <1>16

-----------------------------------------------------------------------------
(* Beginning, rewinding and filling in the mark.                           *)

\* An empty fragment is a fragment.
LEMMA FragmentIsOne ==
  /\ Fragment \in FragmentStates /\ Fragment.words = << >> /\ Fragment.used = MemStreamBufferSize
BY BufferSize, EmptySeq DEF Fragment, FragmentStates

\* The stream that create() starts from.
LEMMA BlankStream ==
  Blank \in StreamStates /\ Content(Blank) = << >> /\ Len(Blank.chain) = 0 /\ FullButLast(Blank.chain)
<1>1. << >> \in Seq(FragmentStates) /\ Len(<< >>) = 0
  BY EmptySeq
<1>2. Joined(<< >>)[0] = << >>
  <2>1. PICK c : c = << >>
    OBVIOUS
  <2>2. c \in Seq(FragmentStates)
    BY <1>1, <2>1
  <2>3. Joined(c)[0] = << >>
    BY <2>2, JoinedWords
  <2>. QED
    BY <2>1, <2>3
<1>. QED
  BY <1>1, <1>2 DEF Blank, StreamStates, Content, FullButLast

\* A stream that is cleared is new and keeps one fragment.
LEMMA ClearedStream ==
  ASSUME NEW x \in StreamStates, NEW t, t = Cleared(x)
  PROVE  Writable(t) /\ Content(t) = << >> /\ Len(t.chain) = 1
<1>1. PICK c, one, nil : c = << Fragment >> /\ one = 1 /\ nil = 0
  OBVIOUS
<1>2. c \in Seq(FragmentStates) /\ Len(c) = 1 /\ c[1] = Fragment /\ one \in 1 .. Len(c) /\ nil = one - 1
  BY <1>1, FragmentIsOne
<1>3. /\ t \in StreamStates /\ t.chain = c /\ t.current = 1 /\ t.handy = MemStreamBufferSize
      /\ t.decode = FALSE /\ t.fragment_count = 1
  BY <1>1, <1>2, BufferSize DEF Cleared, StreamStates
<1>4. FullButLast(c)
  BY <1>2 DEF FullButLast
<1>5. Joined(c)[1] = << >>
  <2>1. Joined(c)[one] = Joined(c)[nil] \o c[one].words /\ Joined(c)[nil] \in Seq(Words)
    BY <1>2, JoinedNext
  <2>2. Joined(c)[0] = << >> /\ c[one].words = << >>
    BY <1>1, <1>2, JoinedWords, FragmentIsOne
  <2>3. Joined(c)[one] = << >>
    BY <1>1, <2>1, <2>2, ConcatEmptySeq
  <2>. QED
    BY <1>1, <2>3
<1>6. c[Len(c)].used = MemStreamBufferSize /\ Len(c[Len(c)].words) = 0
  BY <1>2, FragmentIsOne, EmptySeq
<1>7. Content(t) = << >>
  BY <1>2, <1>3, <1>5 DEF Content
<1>8. t.handy = MemStreamBufferSize - Len(t.chain[Len(t.chain)].words)
  BY <1>3, <1>6, BufferSize
<1>9. Len(t.chain) = 1 /\ FullButLast(t.chain) /\ t.chain[Len(t.chain)].used = MemStreamBufferSize
  BY <1>2, <1>3, <1>4, <1>6
<1>10. Writable(t)
  <2>1. /\ t \in StreamStates /\ t.decode = FALSE /\ Len(t.chain) > 0
        /\ t.fragment_count = Len(t.chain) /\ t.current = Len(t.chain)
    BY <1>3, <1>9
  <2>. QED
    BY <1>8, <1>9, <2>1, Zenon DEF Writable
<1>. QED
  BY <1>7, <1>9, <1>10

\* At the beginning of a stream that is read.
AtStart(x) ==
    Readable(x) /\ x.current = 1 /\ x.handy = x.chain[1].used

\* At its start a stream has been read to nowhere.
LEMMA StartPosition ==
  ASSUME NEW x, AtStart(x)
  PROVE  Position(x) = 0
<1>1. PICK c, k, l, u : c = x.chain /\ k = 1 /\ l = 0 /\ u = c[1].used
  OBVIOUS
<1>2. Readable(x) /\ Place(x, c, k, l, u, u)
  BY <1>1 DEF AtStart, Place
<1>3. Position(x) = Len(Joined(c)[l]) + u - u /\ u \in Nat
  BY <1>2, WherePosition
<1>4. Joined(c)[0] = << >>
  <2>1. c \in Seq(FragmentStates)
    BY <1>1, <1>2, StreamFields DEF Readable
  <2>. QED
    BY <2>1, JoinedWords
<1>5. Len(Joined(c)[l]) = 0
  BY <1>1, <1>4, EmptySeq
<1>. QED
  BY <1>3, <1>5

\* The forecast of the last fragment of x is put right in the chain d.
Corrected(x, n, d) == n = Len(x.chain) /\ d = [x.chain EXCEPT ![n].used = @ - x.handy]

\* The length of a stream that was written, and its last fragment put right.
LEMMA WrittenLength ==
  ASSUME NEW x, Writable(x), NEW n, NEW d, Corrected(x, n, d)
  PROVE  /\ d \in Seq(FragmentStates) /\ Len(d) = n /\ n \in Nat \ {0} /\ FullButLast(d)
         /\ d[n].used = Len(d[n].words) /\ d[n].used <= MemStreamBufferSize
         /\ Joined(d)[n] = Content(x)
         /\ x.fragment_count * MemStreamBufferSize - x.handy = Len(Content(x))
<1>0. PICK c, h, b, f, k : /\ c = x.chain /\ h = x.handy /\ b = MemStreamBufferSize
                           /\ f = c[n] /\ k = Len(f.words)
  OBVIOUS
<1>0a. n = Len(c)
  BY <1>0 DEF Corrected
<1>1. /\ x \in StreamStates /\ FullButLast(c) /\ x.fragment_count = n /\ n > 0 /\ f.used = b /\ h = b - k
  BY <1>0, <1>0a DEF Writable
<1>2. c \in Seq(FragmentStates) /\ n \in Nat \ {0} /\ h \in Nat /\ n \in 1 .. Len(c)
  <2>1. c \in Seq(FragmentStates) /\ h \in Nat /\ n \in Nat
    BY <1>0, <1>0a, <1>1, StreamFields
  <2>. QED
    BY <1>0a, <1>1, <2>1
<1>3. f \in FragmentStates
  BY <1>0, <1>2, ElementOfSeq
<1>4. f.words \in Seq(Words) /\ k = Len(f.words) /\ k \in Nat /\ b \in Nat \ {0}
  BY <1>0, <1>3, LenProperties, BufferSize DEF FragmentStates
<1>5. b - h = k /\ k <= b
  BY <1>1, <1>2, <1>4
<1>6. PICK g : g = [f EXCEPT !.used = k]
  OBVIOUS
<1>7. g \in FragmentStates /\ g.used = k /\ g.words = f.words
  BY <1>3, <1>4, <1>6 DEF FragmentStates
<1>8. d = [c EXCEPT ![n] = g]
  <2>1. d = [c EXCEPT ![n].used = @ - h]
    BY <1>0 DEF Corrected
  <2>2. d = [c EXCEPT ![n] = [f EXCEPT !.used = f.used - h]]
    BY <1>0, <2>1
  <2>. QED
    BY <1>1, <1>5, <1>6, <2>2
<1>9. d \in Seq(FragmentStates) /\ Len(d) = n /\ \A i \in 1 .. n : d[i] = IF i = n THEN g ELSE c[i]
  <2>1. /\ [c EXCEPT ![n] = g] \in Seq(FragmentStates) /\ Len([c EXCEPT ![n] = g]) = Len(c)
        /\ \A i \in 1 .. Len(c) : [c EXCEPT ![n] = g][i] = IF i = n THEN g ELSE c[i]
    BY <1>2, <1>7, ExceptSeq
  <2>. QED
    BY <1>0a, <1>8, <2>1
<1>10. FullButLast(d)
  BY <1>0a, <1>1, <1>2, <1>9 DEF FullButLast
<1>11. Joined(d)[n] = Joined(c)[n]
  <2>1. \A i \in 1 .. n : c[i].words = d[i].words
    BY <1>0, <1>7, <1>9
  <2>2. n <= Len(c) /\ n <= Len(d) /\ n \in 0 .. n
    BY <1>0a, <1>2, <1>9
  <2>. QED
    BY <1>2, <1>9, <2>1, <2>2, JoinedSame
<1>12. Content(x) = Joined(c)[n]
  BY <1>0, <1>0a DEF Content
<1>13. Len(Joined(c)[n]) = (n - 1) * b + k
  <2>1. Len(c) > 0
    BY <1>0a, <1>1
  <2>2. Len(Joined(c)[Len(c)]) = (Len(c) - 1) * MemStreamBufferSize + Len(c[Len(c)].words)
    BY <1>0, <1>1, <1>2, <2>1, JoinedLength
  <2>. QED
    BY <1>0, <1>0a, <2>2
<1>14. n * b - h = (n - 1) * b + k
  <2>1. (n - 1) * b = n * b - b /\ n * b \in Nat
    BY <1>2, <1>4
  <2>2. PICK e : e = n * b
    OBVIOUS
  <2>3. e - h = e - b + k
    <3>1. e \in Nat /\ h \in Nat /\ b \in Nat /\ k \in Nat /\ b - h = k
      BY <1>2, <1>4, <1>5, <2>1, <2>2
    <3>. QED
      BY <3>1
  <2>. QED
    BY <2>1, <2>2, <2>3
<1>15. d[n] = g /\ d[n].used = Len(d[n].words) /\ d[n].used <= MemStreamBufferSize
  <2>1. d[n] = g
    BY <1>2, <1>9
  <2>. QED
    BY <1>0, <1>4, <1>5, <1>7, <2>1
<1>16. x.fragment_count * MemStreamBufferSize - x.handy = Len(Content(x))
  BY <1>0, <1>1, <1>12, <1>13, <1>14
<1>. QED
  BY <1>2, <1>9, <1>10, <1>11, <1>12, <1>15, <1>16

\* Rewinding keeps the words, and tells how many there are.
LEMMA RewoundStream ==
  ASSUME NEW x, Usable(x), NEW t, t = Rewound(x)
  PROVE  /\ AtStart(t) /\ Len(t.chain) = Len(x.chain)
         /\ Content(t) = Content(x) /\ t.length = Len(Content(x))
<1>1. PICK n, d, len : /\ n = Len(x.chain)
                       /\ d = IF x.decode THEN x.chain
                              ELSE [x.chain EXCEPT ![x.current].used = @ - x.handy]
                       /\ len = IF x.decode THEN x.length
                                ELSE x.fragment_count * MemStreamBufferSize - x.handy
  OBVIOUS
<1>2. x \in StreamStates /\ x.fragment_count = n /\ n > 0 /\ Len(Content(x)) \in Nat
  <2>1. x \in StreamStates /\ x.fragment_count = n /\ n > 0
    BY <1>1 DEF Usable, Writable, Readable
  <2>. QED
    BY <2>1, ContentType, LenProperties
<1>3. /\ d \in Seq(FragmentStates) /\ Len(d) = n /\ n \in Nat \ {0} /\ FullButLast(d)
      /\ d[n].used = Len(d[n].words) /\ d[n].used <= MemStreamBufferSize
      /\ Joined(d)[n] = Content(x)
      /\ len = Len(Content(x))
  <2>1. CASE Writable(x)
    <3>1. x.decode = FALSE /\ x.current = n
      BY <1>1, <2>1 DEF Writable
    <3>2. Corrected(x, n, d)
      BY <1>1, <3>1 DEF Corrected
    <3>3. len = x.fragment_count * MemStreamBufferSize - x.handy
      BY <1>1, <3>1
    <3>4. /\ d \in Seq(FragmentStates) /\ Len(d) = n /\ n \in Nat \ {0} /\ FullButLast(d)
          /\ d[n].used = Len(d[n].words) /\ d[n].used <= MemStreamBufferSize
          /\ Joined(d)[n] = Content(x)
          /\ x.fragment_count * MemStreamBufferSize - x.handy = Len(Content(x))
      BY <2>1, <3>2, WrittenLength
    <3>. QED
      BY <3>3, <3>4
  <2>2. CASE Readable(x)
    <3>1. d = x.chain /\ len = x.length
      BY <1>1, <2>2 DEF Readable
    <3>2. d \in Seq(FragmentStates) /\ n \in Nat
      BY <1>1, <1>2, <3>1, StreamFields
    <3>. QED
      BY <1>1, <1>2, <2>2, <3>1, <3>2 DEF Readable, Content
  <2>. QED
    BY <2>1, <2>2 DEF Usable
<1>4. PICK h : h = d[1].used
  OBVIOUS
<1>4a. h \in Nat /\ 1 \in 1 .. n
  <2>1. 1 \in 1 .. Len(d) /\ 1 \in 1 .. n
    BY <1>3
  <2>2. d[1] \in FragmentStates
    BY <1>3, <2>1, ElementOfSeq
  <2>. QED
    BY <1>4, <2>1, <2>2 DEF FragmentStates
<1>5. t = [x EXCEPT !.chain = d, !.current = 1, !.handy = h, !.decode = TRUE, !.length = len]
  BY <1>1, <1>4 DEF Rewound
<1>6. /\ t \in StreamStates /\ t.chain = d /\ t.current = 1 /\ t.handy = h
      /\ t.decode = TRUE /\ t.length = len /\ t.fragment_count = x.fragment_count
  <2>1. len \in Nat
    BY <1>2, <1>3
  <2>. QED
    <3>1. t \in StreamStates
      <4>1. d \in Seq(FragmentStates) /\ h \in Nat /\ 1 \in Nat /\ x \in StreamStates
        BY <1>2, <1>3, <1>4a
      <4>. QED
        BY <1>5, <2>1, <4>1 DEF StreamStates
    <3>2. /\ t.chain = d /\ t.current = 1 /\ t.handy = h
          /\ t.decode = TRUE /\ t.length = len /\ t.fragment_count = x.fragment_count
      BY <1>2, <1>5 DEF StreamStates
    <3>. QED
      BY <3>1, <3>2
<1>7. Content(t) = Content(x)
  BY <1>3, <1>6 DEF Content
<1>8. Readable(t)
  <2>1. 1 \in 0 .. n /\ h <= h
    BY <1>4a
  <2>. QED
    BY <1>2, <1>3, <1>4, <1>6, <1>7, <2>1 DEF Readable
<1>9. AtStart(t)
  BY <1>4, <1>6, <1>8 DEF AtStart
<1>10. Len(t.chain) = n /\ n = Len(x.chain)
  BY <1>1, <1>3, <1>6
<1>. QED
  BY <1>3, <1>6, <1>7, <1>9, <1>10

\* The record mark replaces the first word.
LEMMA FilledStream ==
  ASSUME NEW x, AtStart(x), x.handy > 0, NEW w \in Words, NEW t, t = Filled(x, w)
  PROVE  /\ Readable(t) /\ t.current = 1 /\ Len(t.chain) = Len(x.chain) /\ Position(t) = 1
         /\ Content(x) # << >> /\ Content(t) = [Content(x) EXCEPT ![1] = w]
<1>1. PICK c, n, h : c = x.chain /\ n = Len(c) /\ h = x.handy
  OBVIOUS
<1>1a. PICK d : d = [c EXCEPT ![1].words[1] = w]
  OBVIOUS
<1>2. Readable(x) /\ x \in StreamStates /\ x.current = 1 /\ h = c[1].used /\ n > 0
  BY <1>1 DEF AtStart, Readable
<1>3. c \in Seq(FragmentStates) /\ n \in Nat \ {0} /\ h \in Nat \ {0} /\ 1 \in 1 .. n /\ n \in 1 .. n
  <2>1. c \in Seq(FragmentStates) /\ n \in Nat /\ h \in Nat
    BY <1>1, <1>2, StreamFields
  <2>. QED
    BY <1>1, <1>2, <2>1
<1>4. Len(c[1].words) = h
  <2>1. PICK one : one = 1
    OBVIOUS
  <2>2. one \in 1 .. Len(x.chain)
    BY <1>1, <1>3, <2>1
  <2>3. x.chain[one].used = Len(x.chain[one].words)
    BY <1>2, <2>2, UsedIsLength
  <2>. QED
    BY <1>1, <1>2, <2>1, <2>3
<1>5. Marked(c, w, d)
  BY <1>1a DEF Marked
<1>6. /\ d \in Seq(FragmentStates) /\ Len(d) = n
      /\ \A i \in 1 .. n : d[i].used = c[i].used /\ Len(d[i].words) = Len(c[i].words)
      /\ \A i \in 1 .. n : Joined(d)[i] = [Joined(c)[i] EXCEPT ![1] = w]
  <2>1. Len(c) > 0 /\ Len(c[1].words) > 0
    BY <1>1, <1>3, <1>4
  <2>. QED
    BY <1>1, <1>3, <1>5, <2>1, JoinedMarked
<1>7. PICK i : i = h - 1
  OBVIOUS
<1>8. i \in Nat /\ i <= h /\ h = i + 1
  BY <1>3, <1>7
<1>9. t = [x EXCEPT !.chain = d, !.handy = i]
  BY <1>1, <1>1a, <1>7 DEF Filled
<1>10. /\ t \in StreamStates /\ t.chain = d /\ t.current = 1 /\ t.handy = i
       /\ t.decode = x.decode /\ t.length = x.length /\ t.fragment_count = x.fragment_count
  BY <1>2, <1>6, <1>8, <1>9 DEF StreamStates
<1>11. Content(t) = [Content(x) EXCEPT ![1] = w]
  BY <1>1, <1>3, <1>6, <1>10 DEF Content
<1>12. Content(x) \in Seq(Words)
  BY <1>2, ContentType
<1>13. Len(Content(t)) = Len(Content(x))
  BY <1>11, <1>12, LenProperties
<1>14. FullButLast(d)
  BY <1>1, <1>2, <1>3, <1>6 DEF FullButLast, Readable
<1>15. Readable(t)
  <2>1. d[n].used = Len(d[n].words) /\ d[n].used <= MemStreamBufferSize
    <3>1. c[n].used = Len(c[n].words) /\ c[n].used <= MemStreamBufferSize
      BY <1>1, <1>2 DEF Readable
    <3>2. d[n].used = c[n].used /\ Len(d[n].words) = Len(c[n].words)
      BY <1>3, <1>6
    <3>. QED
      BY <3>1, <3>2
  <2>2. i <= d[1].used /\ 1 \in 0 .. n
    <3>1. d[1].used = h
      BY <1>2, <1>3, <1>6
    <3>. QED
      BY <1>3, <1>8, <3>1
  <2>. QED
    BY <1>1, <1>2, <1>6, <1>10, <1>13, <1>14, <2>1, <2>2 DEF Readable
<1>16. Position(t) = 1
  <2>1. PICK k, l : k = 1 /\ l = 0
    OBVIOUS
  <2>2. Place(t, d, k, l, i, h)
    BY <1>2, <1>3, <1>6, <1>10, <2>1 DEF Place
  <2>3. Position(t) = Len(Joined(d)[l]) + h - i
    BY <1>15, <2>2, WherePosition
  <2>4. Joined(d)[l] = << >>
    BY <1>6, <2>1, JoinedWords
  <2>5. Len(Joined(d)[l]) = 0
    BY <2>4, EmptySeq
  <2>6. 0 + h - i = 1
    BY <1>8
  <2>. QED
    BY <2>3, <2>5, <2>6
<1>17. Content(x) # << >>
  <2>1. PICK k, l : k = 1 /\ l = 0
    OBVIOUS
  <2>2. Place(x, c, k, l, h, h)
    BY <1>1, <1>2, <2>1 DEF Place
  <2>3. Position(x) + 1 \in 1 .. Len(Content(x))
    <3>1. h > 0
      BY <1>3
    <3>. QED
      BY <1>2, <2>2, <3>1, WherePosition
  <2>4. Position(x) = 0
    BY StartPosition
  <2>. QED
    BY <2>3, <2>4, EmptySeq
<1>. QED
  BY <1>1, <1>6, <1>10, <1>11, <1>15, <1>16, <1>17

-----------------------------------------------------------------------------
(* The inductive invariant.                                                *)

\* The state of a stream, none included, and the number of its fragments.
StreamOrNone == StreamStates \cup {NoStream}
Pieces(v) == IF v = NoStream THEN 0 ELSE Len(v.chain)

\* The streams are as writing and reading leave them, and the fragments are
\* conserved.
MemInv ==
    /\ fragments \in Pools /\ xdrs \in [Streams -> StreamOrNone]
    /\ \A s \in Open : Usable(xdrs[s])
    /\ IsFiniteSet(InUse)
    /\ FragmentsAreConserved

\* The fragments that the streams f have.
PartOf(s, v) == IF v = NoStream THEN {} ELSE {s} \X DOMAIN v.chain
UsedIn(f) == UNION {{s} \X DOMAIN f[s].chain : s \in {t \in Streams : f[t] # NoStream}}

\* A stream has as many fragments as its chain is long.
LEMMA PartSize ==
  ASSUME NEW s, NEW v \in StreamOrNone
  PROVE  /\ IsFiniteSet(PartOf(s, v)) /\ Cardinality(PartOf(s, v)) = Pieces(v)
         /\ Pieces(v) \in Nat
<1>1. CASE v = NoStream
  BY <1>1, FS_EmptySet DEF PartOf, Pieces
<1>2. CASE v # NoStream
  <2>1. PICK n : n = Len(v.chain)
    OBVIOUS
  <2>2. n \in Nat /\ DOMAIN v.chain = 1 .. n
    <3>1. v \in StreamStates
      BY <1>2 DEF StreamOrNone
    <3>2. v.chain \in Seq(FragmentStates)
      BY <3>1, StreamFields
    <3>. QED
      BY <2>1, <3>2, LenProperties
  <2>3. PICK S, T : S = {s} /\ T = 1 .. n
    OBVIOUS
  <2>4. IsFiniteSet(S) /\ Cardinality(S) = 1
    BY <2>3, FS_Singleton
  <2>5. IsFiniteSet(T) /\ Cardinality(T) = n
    <3>1. PICK one : one = 1
      OBVIOUS
    <3>2. IsFiniteSet(one .. n) /\ Cardinality(one .. n) = IF one > n THEN 0 ELSE n - one + 1
      BY <2>2, <3>1, FS_Interval
    <3>. QED
      BY <2>2, <2>3, <3>1, <3>2
  <2>6. IsFiniteSet(S \X T) /\ Cardinality(S \X T) = Cardinality(S) * Cardinality(T)
    BY <2>4, <2>5, FS_Product
  <2>7. Cardinality(S \X T) = n
    BY <2>2, <2>4, <2>5, <2>6
  <2>8. PartOf(s, v) = S \X T
    BY <1>2, <2>2, <2>3 DEF PartOf
  <2>9. Pieces(v) = n
    BY <1>2, <2>1 DEF Pieces
  <2>. QED
    BY <2>2, <2>6, <2>7, <2>8, <2>9
<1>. QED
  BY <1>1, <1>2

OneChanges(f, s, u, v, g) == u = f[s] /\ g = [f EXCEPT ![s] = v]

\* When the state of one stream changes, so does the number of fragments.
LEMMA OneStreamChanges ==
  ASSUME NEW f \in [Streams -> StreamOrNone], NEW s \in Streams, NEW v \in StreamOrNone,
         NEW u, NEW g, OneChanges(f, s, u, v, g), IsFiniteSet(UsedIn(f))
  PROVE  /\ IsFiniteSet(UsedIn(g)) /\ Cardinality(UsedIn(f)) \in Nat
         /\ Cardinality(UsedIn(g)) = Cardinality(UsedIn(f)) - Pieces(u) + Pieces(v)
<1>1. PICK A, B, P, Q, R : /\ A = UsedIn(f) /\ B = UsedIn(g) /\ P = PartOf(s, u) /\ Q = PartOf(s, v)
                           /\ R = UNION {{t} \X DOMAIN f[t].chain :
                                           t \in {t \in Streams \ {s} : f[t] # NoStream}}
  OBVIOUS
<1>2. u \in StreamOrNone /\ u = f[s] /\ g = [f EXCEPT ![s] = v]
  BY DEF OneChanges
<1>3. /\ IsFiniteSet(P) /\ Cardinality(P) = Pieces(u) /\ Pieces(u) \in Nat
      /\ IsFiniteSet(Q) /\ Cardinality(Q) = Pieces(v) /\ Pieces(v) \in Nat
  BY <1>1, <1>2, PartSize
<1>4. A = R \cup P
  BY <1>1, <1>2 DEF UsedIn, PartOf
<1>5. B = R \cup Q
  <2>1. g[s] = v /\ \A t \in Streams \ {s} : g[t] = f[t]
    BY <1>2
  <2>2. ASSUME NEW e \in B PROVE e \in R \cup Q
    <3>1. PICK t \in Streams : g[t] # NoStream /\ e \in {t} \X DOMAIN g[t].chain
      BY <1>1, <2>2 DEF UsedIn
    <3>. QED
      BY <1>1, <2>1, <3>1 DEF PartOf
  <2>3. ASSUME NEW e \in R PROVE e \in B
    <3>1. PICK t \in Streams \ {s} : f[t] # NoStream /\ e \in {t} \X DOMAIN f[t].chain
      BY <1>1, <2>3
    <3>2. t \in Streams /\ g[t] # NoStream /\ e \in {t} \X DOMAIN g[t].chain
      BY <2>1, <3>1
    <3>. QED
      BY <1>1, <3>2 DEF UsedIn
  <2>4. ASSUME NEW e \in Q PROVE e \in B
    <3>1. v # NoStream /\ e \in {s} \X DOMAIN v.chain
      BY <1>1, <2>4 DEF PartOf
    <3>2. g[s] # NoStream /\ e \in {s} \X DOMAIN g[s].chain
      BY <2>1, <3>1
    <3>. QED
      BY <1>1, <3>2 DEF UsedIn
  <2>. QED
    BY <2>2, <2>3, <2>4
<1>6. R \cap P = {} /\ R \cap Q = {}
  BY <1>1 DEF PartOf
<1>7. IsFiniteSet(R)
  BY <1>1, <1>4, FS_Subset
<1>8. Cardinality({}) = 0 /\ Cardinality(R) \in Nat
  BY <1>7, FS_EmptySet, FS_CardinalityType
<1>9. Cardinality(A) = Cardinality(R) + Cardinality(P) - Cardinality(R \cap P)
  BY <1>3, <1>4, <1>7, FS_Union
<1>10. IsFiniteSet(B) /\ Cardinality(B) = Cardinality(R) + Cardinality(Q) - Cardinality(R \cap Q)
  BY <1>3, <1>5, <1>7, FS_Union
<1>11. PICK i, j, k : i = Cardinality(R) /\ j = Pieces(u) /\ k = Pieces(v)
  OBVIOUS
<1>12. Cardinality(A) = i + j /\ Cardinality(B) = i + k /\ i \in Nat /\ j \in Nat /\ k \in Nat
  <2>1. Cardinality(R \cap P) = 0 /\ Cardinality(R \cap Q) = 0
    BY <1>6, <1>8
  <2>2. i \in Nat /\ j \in Nat /\ k \in Nat /\ i + j - 0 = i + j /\ i + k - 0 = i + k
    BY <1>3, <1>8, <1>11
  <2>3. Cardinality(A) = i + j - 0 /\ Cardinality(B) = i + k - 0
    BY <1>3, <1>9, <1>10, <1>11, <2>1
  <2>. QED
    BY <2>2, <2>3
<1>13. i + k = i + j - j + k /\ i + j \in Nat
  BY <1>12
<1>. QED
  BY <1>1, <1>10, <1>11, <1>12, <1>13

\* The pool has given away as many fragments for v as for u, but for those of
\* the one or the other.
Balanced(p, u, q, v) == p.count - p.free - Pieces(u) = q.count - q.free - Pieces(v)

\* What an operation leaves in the pool p and the stream v.
Sound(p, v) ==
    /\ p \in Pools /\ p.count <= FragmentQuota
    /\ v = NoStream \/ (v # NoStream /\ Usable(v))

\* What the streams use, of the present state.
LEMMA InUseIsUsedIn == InUse = UsedIn(xdrs)
BY DEF InUse, Open, UsedIn

\* An operation on one stream keeps the invariant when it is sound for that
\* stream and accounts for its fragments.
LEMMA ThenKeeps ==
  ASSUME MemInv, NEW s \in Streams, NEW y, Then(s, y), Sound(y.p, y.x),
         Balanced(y.p, y.x, fragments, xdrs[s])
  PROVE  MemInv'
<1>1. PICK p, v, u, f, g : p = y.p /\ v = y.x /\ u = xdrs[s] /\ f = xdrs /\ g = xdrs'
  OBVIOUS
<1>2. fragments' = p /\ g = [f EXCEPT ![s] = v]
  BY <1>1 DEF Then
<1>3. /\ f \in [Streams -> StreamOrNone] /\ fragments \in Pools /\ IsFiniteSet(UsedIn(f))
      /\ fragments.count = fragments.free + Cardinality(UsedIn(f))
      /\ \A t \in Streams : f[t] # NoStream => Usable(f[t]) /\ f[t].fragment_count = Len(f[t].chain)
  BY <1>1, InUseIsUsedIn DEF MemInv, FragmentsAreConserved, Open
<1>4. v \in StreamOrNone /\ u \in StreamOrNone /\ u = f[s]
  <2>1. v = NoStream \/ Usable(v)
    BY <1>1 DEF Sound
  <2>. QED
    BY <1>1, <1>3, <2>1 DEF Usable, Writable, Readable, StreamOrNone
<1>5. g \in [Streams -> StreamOrNone]
  BY <1>2, <1>3, <1>4
<1>6. /\ IsFiniteSet(UsedIn(g)) /\ Cardinality(UsedIn(f)) \in Nat
      /\ Cardinality(UsedIn(g)) = Cardinality(UsedIn(f)) - Pieces(u) + Pieces(v)
  <2>1. OneChanges(f, s, u, v, g)
    BY <1>2, <1>4 DEF OneChanges
  <2>. QED
    BY <1>3, <1>4, <2>1, OneStreamChanges
<1>7. p \in Pools /\ p.count <= FragmentQuota
  BY <1>1 DEF Sound
<1>8. p.count = p.free + Cardinality(UsedIn(g))
  <2>1. PICK a, b, c, d, i, j, m, n : /\ a = p.count /\ b = p.free /\ c = fragments.count
                                      /\ d = fragments.free /\ i = Pieces(v) /\ j = Pieces(u)
                                      /\ m = Cardinality(UsedIn(f)) /\ n = Cardinality(UsedIn(g))
    OBVIOUS
  <2>2. a \in Nat /\ b \in Nat /\ c \in Nat /\ d \in Nat /\ i \in Nat /\ j \in Nat /\ m \in Nat
    <3>1. i \in Nat /\ j \in Nat
      BY <1>4, <2>1, PartSize
    <3>. QED
      BY <1>3, <1>6, <1>7, <2>1, <3>1 DEF Pools
  <2>3. c = d + m /\ n = m - j + i
    BY <1>3, <1>6, <2>1
  <2>4. a - b - i = c - d - j
    BY <1>1, <2>1 DEF Balanced
  <2>5. a = b + n
    BY <2>2, <2>3, <2>4
  <2>. QED
    BY <2>1, <2>5
<1>9. \A t \in Streams : g[t] # NoStream => Usable(g[t]) /\ g[t].fragment_count = Len(g[t].chain)
  <2>. SUFFICES ASSUME NEW t \in Streams, g[t] # NoStream
                PROVE  Usable(g[t]) /\ g[t].fragment_count = Len(g[t].chain)
    OBVIOUS
  <2>1. CASE t = s
    <3>1. g[t] = v
      BY <1>2, <1>3, <2>1
    <3>2. Usable(v)
      BY <1>1, <3>1 DEF Sound
    <3>. QED
      BY <3>1, <3>2 DEF Usable, Writable, Readable
  <2>2. CASE t # s
    <3>1. g[t] = f[t]
      BY <1>2, <1>3, <2>2
    <3>. QED
      BY <1>3, <3>1
  <2>. QED
    BY <2>1, <2>2
<1>10. InUse' = UsedIn(g)
  BY <1>1 DEF InUse, Open, UsedIn
<1>11. \A t \in Open' : t \in Streams /\ g[t] # NoStream
  BY <1>1 DEF Open
<1>12. FragmentsAreConserved'
  <2>1. (fragments.count)' = p.count /\ (fragments.free)' = p.free
    BY <1>2
  <2>. QED
    BY <1>1, <1>2, <1>7, <1>8, <1>9, <1>10, <1>11 DEF FragmentsAreConserved
<1>13. \A t \in Open' : Usable(xdrs[t])'
  BY <1>1, <1>9, <1>11
<1>. QED
  BY <1>1, <1>2, <1>5, <1>6, <1>7, <1>10, <1>12, <1>13 DEF MemInv

-----------------------------------------------------------------------------
(* Each operation keeps the invariant, and is one of the abstract streams. *)

\* A stream as the abstract specification sees it.
Image(v) == IF v = NoStream THEN NoStream ELSE AsWords(v)
Abstract == [s \in Streams |-> IF xdrs[s] = NoStream THEN NoStream ELSE AsWords(xdrs[s])]

View(c, b, p) == [content |-> c, reading |-> b, pos |-> p]
LooksLike(r, c, b, p) == r = View(c, b, p)
Views == [content : Seq(Words), reading : BOOLEAN, pos : Nat]

\* How fields of an abstract stream are replaced.
LEMMA ViewOf ==
  ASSUME NEW c \in Seq(Words), NEW b \in BOOLEAN, NEW p \in Nat, NEW r, LooksLike(r, c, b, p)
  PROVE  r.content = c /\ r.reading = b /\ r.pos = p /\ r \in Views
BY DEF LooksLike, View, Views

\* The content is replaced.
LEMMA NewContent ==
  ASSUME NEW c \in Seq(Words), NEW b \in BOOLEAN, NEW p \in Nat, NEW d \in Seq(Words),
         NEW r, LooksLike(r, c, b, p)
  PROVE  [r EXCEPT !.content = d] = View(d, b, p)
<1>1. r.content = c /\ r.reading = b /\ r.pos = p /\ r \in Views
  BY ViewOf
<1>. QED
  BY <1>1 DEF View, Views

\* The position is replaced.
LEMMA NewPosition ==
  ASSUME NEW c \in Seq(Words), NEW b \in BOOLEAN, NEW p \in Nat, NEW q \in Nat,
         NEW r, LooksLike(r, c, b, p)
  PROVE  [r EXCEPT !.pos = q] = View(c, b, q)
<1>1. r.content = c /\ r.reading = b /\ r.pos = p /\ r \in Views
  BY ViewOf
<1>. QED
  BY <1>1 DEF View, Views

Restarted(r, q) == [r EXCEPT !.pos = q, !.reading = TRUE]

\* Reading starts anew.
LEMMA NewReading ==
  ASSUME NEW c \in Seq(Words), NEW b \in BOOLEAN, NEW p \in Nat, NEW q \in Nat,
         NEW r, LooksLike(r, c, b, p)
  PROVE  Restarted(r, q) = View(c, TRUE, q)
<1>1. r.content = c /\ r.reading = b /\ r.pos = p /\ r \in Views
  BY ViewOf
<1>2. PICK e : e = [r EXCEPT !.pos = q, !.reading = TRUE]
  OBVIOUS
<1>3. e \in Views
  BY <1>1, <1>2 DEF Views
<1>4. e.content = c /\ e.reading = TRUE /\ e.pos = q
  BY <1>1, <1>2 DEF Views
<1>5. e = View(c, TRUE, q)
  BY <1>3, <1>4 DEF View, Views
<1>. QED
  BY <1>2, <1>5 DEF Restarted

MarkedAs(r, d, q) == [r EXCEPT !.content = d, !.pos = q]

\* The record mark is filled in, and passed.
LEMMA NewContentAndPosition ==
  ASSUME NEW c \in Seq(Words), NEW b \in BOOLEAN, NEW p \in Nat,
         NEW d \in Seq(Words), NEW q \in Nat, NEW r, LooksLike(r, c, b, p)
  PROVE  MarkedAs(r, d, q) = View(d, b, q)
<1>1. r.content = c /\ r.reading = b /\ r.pos = p /\ r \in Views
  BY ViewOf
<1>2. PICK e : e = [r EXCEPT !.content = d, !.pos = q]
  OBVIOUS
<1>3. e \in Views
  BY <1>1, <1>2 DEF Views
<1>4. e.content = d /\ e.reading = b /\ e.pos = q
  BY <1>1, <1>2 DEF Views
<1>5. e = View(d, b, q)
  BY <1>3, <1>4 DEF View, Views
<1>. QED
  BY <1>2, <1>5 DEF MarkedAs

\* A stream that is being read is at a place in its content.
LEMMA ReadPosition ==
  ASSUME NEW x, Readable(x)
  PROVE  Position(x) \in 0 .. Len(Content(x)) /\ Len(Content(x)) \in Nat /\ Content(x) \in Seq(Words)
<1>1. Content(x) \in Seq(Words) /\ Len(Content(x)) \in Nat
  BY ContentType, LenProperties DEF Readable
<1>2. CASE x.current = 0
  BY <1>1, <1>2 DEF Position
<1>3. CASE x.current # 0
  <2>1. PICK c, k, l, h, u : /\ c = x.chain /\ k = x.current /\ l = k - 1
                             /\ h = x.handy /\ u = c[k].used
    OBVIOUS
  <2>2. Place(x, c, k, l, h, u)
    BY <1>3, <2>1 DEF Place
  <2>. QED
    BY <1>1, <2>2, WherePosition
<1>. QED
  BY <1>2, <1>3

\* No stream looks like the lack of one.
LEMMA ImageOfStream ==
  ASSUME NEW x, Usable(x)
  PROVE  /\ x # NoStream /\ x \in StreamStates /\ Image(x) = AsWords(x) /\ AsWords(x) # NoStream
         /\ Content(x) \in Seq(Words) /\ Len(Content(x)) \in Nat
         /\ Writable(x) => AsWords(x) = View(Content(x), FALSE, 0)
         /\ Readable(x) => AsWords(x) = View(Content(x), TRUE, Position(x))
<1>1. x \in StreamStates
  BY DEF Usable, Writable, Readable
<1>2. x # NoStream
  BY <1>1, MemAssumption
<1>3. Content(x) \in Seq(Words) /\ Len(Content(x)) \in Nat
  BY <1>1, ContentType, LenProperties
<1>4. Writable(x) => AsWords(x) = View(Content(x), FALSE, 0)
  BY DEF AsWords, View, Writable
<1>5. Readable(x) => AsWords(x) = View(Content(x), TRUE, Position(x))
  BY DEF AsWords, View, Readable
<1>6. AsWords(x) # NoStream
  <2>. DEFINE W == [content : Seq(Words), reading : BOOLEAN, pos : Nat]
  <2>1. CASE Writable(x)
    <3>1. AsWords(x) \in W
      <4>1. PICK c : c = Content(x)
        OBVIOUS
      <4>2. AsWords(x) = View(c, FALSE, 0)
        BY <1>4, <2>1, <4>1
      <4>3. c \in Seq(Words)
        BY <1>3, <4>1
      <4>. QED
        BY <4>2, <4>3 DEF View
    <3>. QED
      BY <3>1, MemAssumption
  <2>2. CASE Readable(x)
    <3>1. Position(x) \in Nat
      BY <1>3, <2>2, ReadPosition
    <3>2. AsWords(x) \in W
      <4>1. PICK c, p : c = Content(x) /\ p = Position(x)
        OBVIOUS
      <4>2. AsWords(x) = View(c, TRUE, p)
        BY <1>5, <2>2, <4>1
      <4>3. c \in Seq(Words) /\ p \in Nat
        BY <1>3, <3>1, <4>1
      <4>. QED
        BY <4>2, <4>3 DEF View
    <3>. QED
      BY <3>2, MemAssumption
  <2>. QED
    BY <2>1, <2>2 DEF Usable
<1>. QED
  BY <1>1, <1>2, <1>3, <1>4, <1>5, <1>6 DEF Image

\* What the abstract specification sees of a stream.
LEMMA Seen ==
  ASSUME MemInv, NEW s \in Streams
  PROVE  /\ Abstract[s] = Image(xdrs[s])
         /\ xdrs[s] = NoStream => s \notin Stream!Live
         /\ xdrs[s] # NoStream => Usable(xdrs[s]) /\ s \in Stream!Live
<1>1. Abstract[s] = Image(xdrs[s])
  BY DEF Abstract, Image
<1>2. CASE xdrs[s] = NoStream
  BY <1>1, <1>2 DEF Stream!Live, Abstract, Image
<1>3. CASE xdrs[s] # NoStream
  <2>1. Usable(xdrs[s])
    BY <1>3 DEF MemInv, Open
  <2>2. AsWords(xdrs[s]) # NoStream
    BY <2>1, ImageOfStream
  <2>. QED
    BY <1>1, <1>3, <2>1, <2>2 DEF Stream!Live, Abstract, Image
<1>. QED
  BY <1>1, <1>2, <1>3

\* An operation on one stream changes that one of the abstract streams.
LEMMA StreamBecomes ==
  ASSUME MemInv, NEW s \in Streams, NEW y, Then(s, y)
  PROVE  /\ Abstract' = [Abstract EXCEPT ![s] = Image(y.x)]
         /\ xdrResult' = [ok |-> y.ok, out |-> IF y.ok THEN y.out ELSE << >>]
<1>1. xdrs' = [xdrs EXCEPT ![s] = y.x] /\ xdrs \in [Streams -> StreamOrNone]
  BY DEF Then, MemInv
<1>2. \A t \in Streams : Abstract'[t] = [Abstract EXCEPT ![s] = Image(y.x)][t]
  BY <1>1 DEF Abstract, Image
<1>3. Abstract' = [Abstract EXCEPT ![s] = Image(y.x)]
  <2>1. Abstract' = [t \in Streams |-> Abstract'[t]]
    BY DEF Abstract
  <2>2. [Abstract EXCEPT ![s] = Image(y.x)] = [t \in Streams |-> [Abstract EXCEPT ![s] = Image(y.x)][t]]
    BY DEF Abstract
  <2>. QED
    BY <1>2, <2>1, <2>2
<1>. QED
  BY <1>3 DEF Then

\* A stream without words is a new one.
LEMMA StreamBecomesNew ==
  ASSUME NEW x, Writable(x), Content(x) = << >>
  PROVE  Image(x) = Stream!New
<1>1. Usable(x)
  BY DEF Usable
<1>. QED
  BY <1>1, ImageOfStream DEF Stream!New, View

\* What an operation finds.
LEMMA AtStream ==
  ASSUME MemInv, NEW s \in Streams
  PROVE  /\ At(s).p = fragments /\ At(s).x = xdrs[s] /\ At(s).ok = TRUE /\ At(s).out = << >>
         /\ fragments \in Pools /\ fragments.count <= FragmentQuota /\ xdrs[s] \in StreamOrNone
         /\ xdrs[s] # NoStream => At(s) \in Progress
<1>1. fragments \in Pools /\ fragments.count <= FragmentQuota /\ xdrs[s] \in StreamOrNone
  BY DEF MemInv, FragmentsAreConserved
<1>2. << >> \in Seq(Words)
  BY EmptySeq
<1>. QED
  BY <1>1, <1>2 DEF At, Progress, StreamOrNone

\* A stream is created, or there is no memory for its first fragment.
LEMMA CreateStep ==
  ASSUME MemInv, NEW s \in Streams, create(s)
  PROVE  MemInv' /\ Stream!create(s)
<1>1. PICK b, y, z : /\ b = [At(s) EXCEPT !.x = Blank] /\ y = Allocate(b)
                     /\ z = IF y.ok THEN y ELSE [y EXCEPT !.x = NoStream]
  OBVIOUS
<1>2. xdrs[s] = NoStream /\ Then(s, z)
  BY <1>1 DEF create
<1>3. /\ b \in Progress /\ b.p = fragments /\ b.x = Blank /\ b.ok = TRUE /\ b.out = << >>
      /\ fragments \in Pools /\ fragments.count <= FragmentQuota
  <2>1. fragments \in Pools /\ fragments.count <= FragmentQuota
    BY AtStream
  <2>2. b = [p |-> fragments, x |-> Blank, ok |-> TRUE, out |-> << >>]
    BY <1>1 DEF At
  <2>. QED
    BY <2>1, <2>2, BlankStream, EmptySeq DEF Progress
<1>4. /\ y \in Progress /\ y.p.count <= FragmentQuota /\ y.out = b.out
      /\ Elsewhere(y.p, y.x.chain) = Elsewhere(b.p, b.x.chain)
      /\ y.ok = FALSE => y.p = b.p /\ y.x = b.x
      /\ y.ok = TRUE => Writable(y.x) /\ Content(y.x) = Content(b.x)
                        /\ y.x.handy = MemStreamBufferSize
  <2>1. /\ b.p.count <= FragmentQuota /\ FullButLast(b.x.chain) /\ b.x.fragment_count = Len(b.x.chain)
        /\ b.x.decode = FALSE /\ LastIsFull(b.x.chain)
    BY <1>3, BlankStream DEF Blank, LastIsFull
  <2>. QED
    BY <1>1, <1>3, <2>1, AllocateFragment
<1>5. y.ok \in BOOLEAN /\ y.p \in Pools /\ y.out = << >>
  BY <1>3, <1>4 DEF Progress
<1>6. s \notin Stream!Live /\ Abstract[s] = NoStream
  BY <1>2, Seen DEF Image
<1>7. CASE y.ok = TRUE
  <2>1. z = y
    BY <1>1, <1>7
  <2>2. Writable(y.x) /\ Content(y.x) = << >>
    BY <1>3, <1>4, <1>7, BlankStream
  <2>3. Usable(y.x) /\ y.x # NoStream
    BY <2>2, ImageOfStream DEF Usable
  <2>4. Sound(z.p, z.x)
    BY <1>4, <1>5, <2>1, <2>3 DEF Sound
  <2>5. Balanced(z.p, z.x, fragments, xdrs[s])
    <3>1. PICK n : n = Len(y.x.chain)
      OBVIOUS
    <3>2. Pieces(z.x) = n /\ Pieces(xdrs[s]) = 0
      BY <1>2, <2>1, <2>3, <3>1 DEF Pieces
    <3>3. y.p.count - y.p.free - n = fragments.count - fragments.free - 0
      BY <1>3, <1>4, <3>1, BlankStream DEF Elsewhere
    <3>. QED
      BY <2>1, <3>2, <3>3 DEF Balanced
  <2>6. MemInv'
    BY <1>2, <2>4, <2>5, ThenKeeps
  <2>7. /\ Abstract' = [Abstract EXCEPT ![s] = Image(z.x)]
        /\ xdrResult' = [ok |-> z.ok, out |-> IF z.ok THEN z.out ELSE << >>]
    BY <1>2, StreamBecomes
  <2>8. Image(z.x) = Stream!New
    BY <2>1, <2>2, StreamBecomesNew
  <2>9. xdrResult' = [ok |-> TRUE, out |-> << >>]
    BY <1>5, <1>7, <2>1, <2>7
  <2>10. Stream!create(s)
    BY <1>6, <2>7, <2>8, <2>9 DEF Stream!create, Stream!Become, Stream!Result, Abstract
  <2>. QED
    BY <2>6, <2>10
<1>8. CASE y.ok = FALSE
  <2>1. z.p = fragments /\ z.x = NoStream /\ z.ok = FALSE
    BY <1>1, <1>3, <1>4, <1>8 DEF Progress
  <2>2. Sound(z.p, z.x)
    BY <1>3, <2>1 DEF Sound
  <2>3. Balanced(z.p, z.x, fragments, xdrs[s])
    BY <1>2, <2>1 DEF Balanced
  <2>4. MemInv'
    BY <1>2, <2>2, <2>3, ThenKeeps
  <2>5. /\ Abstract' = [Abstract EXCEPT ![s] = Image(z.x)]
        /\ xdrResult' = [ok |-> z.ok, out |-> IF z.ok THEN z.out ELSE << >>]
    BY <1>2, StreamBecomes
  <2>6. xdrResult' = [ok |-> FALSE, out |-> << >>] /\ Image(z.x) = Abstract[s]
    BY <1>6, <2>1, <2>5 DEF Image
  <2>7. Abstract' = Abstract
    BY <2>5, <2>6 DEF Abstract
  <2>8. Stream!create(s)
    BY <1>6, <2>6, <2>7 DEF Stream!create, Stream!Result, Abstract
  <2>. QED
    BY <2>4, <2>8
<1>. QED
  BY <1>5, <1>7, <1>8

\* All fragments of a stream become free.
LEMMA DestroyStep ==
  ASSUME MemInv, NEW s \in Streams, destroy(s)
  PROVE  MemInv' /\ Stream!destroy(s)
<1>1. PICK n, z : /\ n = Len(xdrs[s].chain)
                  /\ z = [At(s) EXCEPT !.x = NoStream, !.p = Free(@, n)]
  OBVIOUS
<1>2. xdrs[s] # NoStream /\ Then(s, z)
  BY <1>1 DEF destroy
<1>3. Usable(xdrs[s]) /\ s \in Stream!Live /\ fragments \in Pools /\ fragments.count <= FragmentQuota
  BY <1>2, Seen, AtStream
<1>4. n \in Nat
  BY <1>1, <1>3, ImageOfStream, StreamFields
<1>5. z.p = Free(fragments, n) /\ z.x = NoStream /\ z.ok = TRUE /\ z.out = << >>
  BY <1>1 DEF At
<1>6. /\ Free(fragments, n) \in Pools /\ Free(fragments, n).count = fragments.count
      /\ Free(fragments, n).free = fragments.free + n
  BY <1>3, <1>4 DEF Free, Pools
<1>7. Sound(z.p, z.x)
  BY <1>3, <1>5, <1>6 DEF Sound
<1>8. Balanced(z.p, z.x, fragments, xdrs[s])
  <2>1. PICK a, b : a = fragments.count /\ b = fragments.free
    OBVIOUS
  <2>2. a - (b + n) - 0 = a - b - n
    BY <1>3, <1>4, <2>1 DEF Pools
  <2>3. Pieces(z.x) = 0 /\ Pieces(xdrs[s]) = n
    BY <1>1, <1>2, <1>5 DEF Pieces
  <2>. QED
    BY <1>5, <1>6, <2>1, <2>2, <2>3 DEF Balanced
<1>9. MemInv'
  BY <1>2, <1>7, <1>8, ThenKeeps
<1>10. /\ Abstract' = [Abstract EXCEPT ![s] = Image(z.x)]
       /\ xdrResult' = [ok |-> z.ok, out |-> IF z.ok THEN z.out ELSE << >>]
  BY <1>2, StreamBecomes
<1>11. Image(z.x) = NoStream /\ xdrResult' = [ok |-> TRUE, out |-> << >>]
  BY <1>5, <1>10 DEF Image
<1>12. Stream!destroy(s)
  BY <1>3, <1>10, <1>11 DEF Stream!destroy, Stream!Become, Stream!Result, Abstract
<1>. QED
  BY <1>9, <1>12

\* All fragments but the first become free.
LEMMA ClearStep ==
  ASSUME MemInv, NEW s \in Streams, clear(s)
  PROVE  MemInv' /\ Stream!clear(s)
<1>1. PICK n, m, t, z : /\ n = Len(xdrs[s].chain) /\ m = n - 1 /\ t = Cleared(xdrs[s])
                        /\ z = [At(s) EXCEPT !.p = Free(@, m), !.x = t]
  OBVIOUS
<1>2. xdrs[s] # NoStream /\ Then(s, z)
  BY <1>1 DEF clear, At
<1>3. Usable(xdrs[s]) /\ s \in Stream!Live /\ fragments \in Pools /\ fragments.count <= FragmentQuota
  BY <1>2, Seen, AtStream
<1>4. n \in Nat /\ m \in Nat /\ n = m + 1
  <2>1. n \in Nat
    BY <1>1, <1>3, ImageOfStream, StreamFields
  <2>2. n > 0
    BY <1>1, <1>3 DEF Usable, Writable, Readable
  <2>. QED
    BY <1>1, <2>1, <2>2
<1>5. z.p = Free(fragments, m) /\ z.x = t /\ z.ok = TRUE /\ z.out = << >>
  BY <1>1 DEF At
<1>6. /\ Free(fragments, m) \in Pools /\ Free(fragments, m).count = fragments.count
      /\ Free(fragments, m).free = fragments.free + m
  BY <1>3, <1>4 DEF Free, Pools
<1>7. Writable(t) /\ Content(t) = << >> /\ Len(t.chain) = 1
  BY <1>1, <1>3, ImageOfStream, ClearedStream
<1>8. Usable(t) /\ t # NoStream
  BY <1>7, ImageOfStream DEF Usable
<1>9. Sound(z.p, z.x)
  BY <1>3, <1>5, <1>6, <1>8 DEF Sound
<1>10. Balanced(z.p, z.x, fragments, xdrs[s])
  <2>1. PICK a, b : a = fragments.count /\ b = fragments.free
    OBVIOUS
  <2>2. a - (b + m) - 1 = a - b - n
    BY <1>3, <1>4, <2>1 DEF Pools
  <2>3. Pieces(z.x) = 1 /\ Pieces(xdrs[s]) = n
    BY <1>1, <1>2, <1>5, <1>7, <1>8 DEF Pieces
  <2>. QED
    BY <1>5, <1>6, <2>1, <2>2, <2>3 DEF Balanced
<1>11. MemInv'
  BY <1>2, <1>9, <1>10, ThenKeeps
<1>12. /\ Abstract' = [Abstract EXCEPT ![s] = Image(z.x)]
       /\ xdrResult' = [ok |-> z.ok, out |-> IF z.ok THEN z.out ELSE << >>]
  BY <1>2, StreamBecomes
<1>13. Image(z.x) = Stream!New /\ xdrResult' = [ok |-> TRUE, out |-> << >>]
  BY <1>5, <1>7, <1>12, StreamBecomesNew
<1>14. Stream!clear(s)
  BY <1>3, <1>12, <1>13 DEF Stream!clear, Stream!Become, Stream!Result, Abstract
<1>. QED
  BY <1>11, <1>14

\* A telegram is a sequence of words.
LEMMA TelegramIsSeq ==
  ASSUME NEW ws \in Telegrams
  PROVE  ws \in Seq(Words) /\ Len(ws) \in Nat
<1>1. PICK n \in 0 .. MaxWords : ws \in [1 .. n -> Words]
  BY DEF Telegrams
<1>2. n \in Nat
  OBVIOUS
<1>3. ws \in Seq(Words)
  BY <1>1, <1>2
<1>. QED
  BY <1>3, LenProperties

\* What was written so far is sound, and is some of the words.
LEMMA WriteStep ==
  ASSUME MemInv, NEW s \in Streams, xdrs[s] # NoStream, xdrs[s].decode = FALSE,
         NEW ws \in Telegrams, NEW n \in 0 .. Len(ws), NEW z, Then(s, z), z \in Progress,
         z.p.count <= FragmentQuota, Writable(z.x), z.out = << >>,
         Elsewhere(z.p, z.x.chain) = Elsewhere(fragments, xdrs[s].chain),
         z.ok = TRUE => n = Len(ws),
         Content(z.x) = Content(xdrs[s]) \o SubSeq(ws, 1, n)
  PROVE  MemInv' /\ Stream!write(s, ws)
<1>1. Usable(xdrs[s]) /\ s \in Stream!Live /\ Abstract[s] = AsWords(xdrs[s]) /\ Writable(xdrs[s])
  <2>1. Usable(xdrs[s]) /\ s \in Stream!Live /\ Abstract[s] = Image(xdrs[s])
    BY Seen
  <2>. QED
    BY <2>1, ImageOfStream DEF Usable, Readable
<1>2. z.p \in Pools /\ z.ok \in BOOLEAN
  BY DEF Progress
<1>3. Usable(z.x) /\ z.x # NoStream
  BY ImageOfStream DEF Usable
<1>4. Sound(z.p, z.x)
  BY <1>2, <1>3 DEF Sound
<1>5. Balanced(z.p, z.x, fragments, xdrs[s])
  BY <1>3 DEF Balanced, Elsewhere, Pieces
<1>6. MemInv'
  BY <1>4, <1>5, ThenKeeps
<1>7. /\ Abstract' = [Abstract EXCEPT ![s] = Image(z.x)]
      /\ xdrResult' = [ok |-> z.ok, out |-> IF z.ok THEN z.out ELSE << >>]
  BY StreamBecomes
<1>8. xdrResult' = [ok |-> z.ok, out |-> << >>]
  BY <1>2, <1>7
<1>9. PICK c, d, e : c = Content(xdrs[s]) /\ d = SubSeq(ws, 1, n) /\ e = c \o d
  OBVIOUS
<1>10. Abstract[s] = View(c, FALSE, 0)
  BY <1>1, <1>9, ImageOfStream
<1>11. Image(z.x) = View(e, FALSE, 0)
  <2>1. Content(z.x) = e
    BY <1>9
  <2>. QED
    BY <1>3, <2>1, ImageOfStream
<1>12. Image(z.x) = [Abstract[s] EXCEPT !.content = @ \o SubSeq(ws, 1, n)] /\ ~ Abstract[s].reading
  <2>1. PICK r : r = Abstract[s]
    OBVIOUS
  <2>2. r = View(c, FALSE, 0)
    BY <1>10, <2>1
  <2>3. ~ r.reading /\ r.content = c
    BY <2>2 DEF View
  <2>a. c \in Seq(Words) /\ e \in Seq(Words)
    BY <1>1, <1>3, <1>9, ImageOfStream
  <2>4. [r EXCEPT !.content = e] = View(e, FALSE, 0)
    <3>1. PICK b, q : b = FALSE /\ q = 0
      OBVIOUS
    <3>2. LooksLike(r, c, b, q) /\ b \in BOOLEAN /\ q \in Nat
      BY <2>2, <3>1 DEF LooksLike
    <3>3. [r EXCEPT !.content = e] = View(e, b, q)
      BY <2>a, <3>2, NewContent
    <3>. QED
      BY <3>1, <3>3
  <2>5. [r EXCEPT !.content = @ \o d] = [r EXCEPT !.content = e]
    BY <1>9, <2>3
  <2>. QED
    BY <1>9, <1>11, <2>1, <2>3, <2>4, <2>5
<1>13. Stream!Become(s, [Abstract[s] EXCEPT !.content = @ \o SubSeq(ws, 1, n)])
  BY <1>7, <1>12 DEF Stream!Become, Abstract
<1>14. Stream!Result(z.ok, << >>)
  BY <1>8 DEF Stream!Result
<1>15. Stream!write(s, ws)
  BY <1>1, <1>2, <1>12, <1>13, <1>14 DEF Stream!write, Abstract
<1>. QED
  BY <1>6, <1>15

\* MemStreamPutBytes() writes words.
LEMMA PutBytesStep ==
  ASSUME MemInv, NEW s \in Streams, NEW ws \in Telegrams, putBytes(s, ws)
  PROVE  MemInv' /\ Stream!write(s, ws)
<1>1. PICK y, z : y = At(s) /\ z = Puts(y, ws)[Len(ws)]
  OBVIOUS
<1>2. xdrs[s] # NoStream /\ xdrs[s].decode = FALSE /\ Then(s, z)
  <2>1. xdrs[s] # NoStream /\ ~ xdrs[s].decode /\ Then(s, z)
    BY <1>1 DEF putBytes
  <2>2. xdrs[s].decode \in BOOLEAN
    BY <2>1, Seen, ImageOfStream DEF StreamStates
  <2>. QED
    BY <2>1, <2>2
<1>3. ws \in Seq(Words) /\ Len(ws) \in Nat
  BY TelegramIsSeq
<1>4. y \in Writing /\ y.ok = TRUE /\ y.out = << >> /\ y.p = fragments /\ y.x = xdrs[s]
  <2>1. Writable(xdrs[s])
    BY <1>2, Seen DEF Usable, Readable
  <2>. QED
    BY <1>1, <1>2, <2>1, AtStream DEF Writing
<1>5. PutSoFar(y, ws, Len(ws), z)
  BY <1>1, <1>3, <1>4, PutAll
<1>6. PICK n \in 0 .. Len(ws) : /\ z.ok = TRUE => n = Len(ws)
                                /\ Content(z.x) = Content(y.x) \o SubSeq(ws, 1, n)
  BY <1>5 DEF PutSoFar
<1>7. /\ z \in Progress /\ z.p.count <= FragmentQuota /\ Writable(z.x) /\ z.out = << >>
      /\ Elsewhere(z.p, z.x.chain) = Elsewhere(fragments, xdrs[s].chain)
  BY <1>4, <1>5 DEF PutSoFar, Writing
<1>8. Content(z.x) = Content(xdrs[s]) \o SubSeq(ws, 1, n)
  BY <1>4, <1>6
<1>. QED
  BY <1>2, <1>6, <1>7, <1>8, WriteStep

\* So does xdrmemstream_read_from_fd(), also when one fragment more is allocated.
LEMMA ReadFromFdStep ==
  ASSUME MemInv, NEW s \in Streams, NEW ws \in Telegrams, readFromFd(s, ws)
  PROVE  MemInv' /\ Stream!write(s, ws)
<1>1. PICK y, u, z : /\ y = At(s) /\ u = Puts(y, ws)[Len(ws)]
                     /\ z = IF u.ok /\ u.x.handy = 0 THEN Allocate(u) ELSE u
  OBVIOUS
<1>2. xdrs[s] # NoStream /\ xdrs[s].decode = FALSE /\ Then(s, z)
  <2>1. xdrs[s] # NoStream /\ ~ xdrs[s].decode /\ Then(s, z)
    BY <1>1 DEF readFromFd
  <2>2. xdrs[s].decode \in BOOLEAN
    BY <2>1, Seen, ImageOfStream DEF StreamStates
  <2>. QED
    BY <2>1, <2>2
<1>3. ws \in Seq(Words) /\ Len(ws) \in Nat
  BY TelegramIsSeq
<1>4. y \in Writing /\ y.ok = TRUE /\ y.out = << >> /\ y.p = fragments /\ y.x = xdrs[s]
  <2>1. Writable(xdrs[s])
    BY <1>2, Seen DEF Usable, Readable
  <2>. QED
    BY <1>1, <1>2, <2>1, AtStream DEF Writing
<1>5. PutSoFar(y, ws, Len(ws), u)
  BY <1>1, <1>3, <1>4, PutAll
<1>6. PICK n \in 0 .. Len(ws) : /\ u.ok = TRUE => n = Len(ws)
                                /\ Content(u.x) = Content(y.x) \o SubSeq(ws, 1, n)
  BY <1>5 DEF PutSoFar
<1>7. /\ u \in Writing /\ u.out = << >> /\ u.ok \in BOOLEAN
      /\ Elsewhere(u.p, u.x.chain) = Elsewhere(fragments, xdrs[s].chain)
  BY <1>4, <1>5 DEF PutSoFar, Writing, Progress
<1>8. /\ z \in Writing /\ z.out = u.out /\ Content(z.x) = Content(u.x)
      /\ Elsewhere(z.p, z.x.chain) = Elsewhere(u.p, u.x.chain)
      /\ z.ok = TRUE => u.ok = TRUE
  <2>1. CASE u.ok = TRUE /\ u.x.handy = 0
    <3>1. z = Allocate(u)
      BY <1>1, <2>1
    <3>2. AllocatedNext(u, z)
      BY <1>7, <2>1, <3>1, AllocateNext
    <3>. QED
      BY <2>1, <3>2 DEF AllocatedNext
  <2>2. CASE ~ (u.ok = TRUE /\ u.x.handy = 0)
    <3>1. z = u
      BY <1>1, <1>7, <2>2
    <3>. QED
      BY <1>7, <3>1
  <2>. QED
    BY <2>1, <2>2
<1>9. /\ z \in Progress /\ z.p.count <= FragmentQuota /\ Writable(z.x) /\ z.out = << >>
      /\ Elsewhere(z.p, z.x.chain) = Elsewhere(fragments, xdrs[s].chain)
  BY <1>7, <1>8 DEF Writing
<1>10. Content(z.x) = Content(xdrs[s]) \o SubSeq(ws, 1, n) /\ (z.ok = TRUE => n = Len(ws))
  BY <1>4, <1>6, <1>8
<1>. QED
  BY <1>2, <1>9, <1>10, WriteStep

\* A stream is read from its beginning; the last fragment is as long as it was written.
LEMMA RewindStep ==
  ASSUME MemInv, NEW s \in Streams, rewind(s)
  PROVE  MemInv' /\ Stream!rewind(s)
<1>1. PICK x, t, z : x = xdrs[s] /\ t = Rewound(x) /\ z = [At(s) EXCEPT !.x = t, !.out = << t.length >>]
  OBVIOUS
<1>2. x # NoStream /\ Then(s, z)
  BY <1>1 DEF rewind
<1>3. Usable(x) /\ s \in Stream!Live /\ fragments \in Pools /\ fragments.count <= FragmentQuota
      /\ Abstract[s] = AsWords(x)
  <2>1. Usable(x) /\ s \in Stream!Live /\ Abstract[s] = Image(x)
    BY <1>1, <1>2, Seen
  <2>. QED
    BY <2>1, AtStream, ImageOfStream
<1>4. z.p = fragments /\ z.x = t /\ z.ok = TRUE /\ z.out = << t.length >>
  BY <1>1 DEF At
<1>5. /\ AtStart(t) /\ Len(t.chain) = Len(x.chain)
      /\ Content(t) = Content(x) /\ t.length = Len(Content(x))
  BY <1>1, <1>3, RewoundStream
<1>6. Readable(t) /\ Position(t) = 0
  BY <1>5, StartPosition DEF AtStart
<1>7. Usable(t) /\ t # NoStream
  BY <1>6, ImageOfStream DEF Usable
<1>8. MemInv'
  <2>1. Sound(z.p, z.x)
    BY <1>3, <1>4, <1>7 DEF Sound
  <2>2. Balanced(z.p, z.x, fragments, xdrs[s])
    BY <1>1, <1>2, <1>4, <1>5, <1>7 DEF Balanced, Pieces
  <2>. QED
    BY <1>2, <2>1, <2>2, ThenKeeps
<1>9. /\ Abstract' = [Abstract EXCEPT ![s] = Image(z.x)]
      /\ xdrResult' = [ok |-> z.ok, out |-> IF z.ok THEN z.out ELSE << >>]
  BY <1>2, StreamBecomes
<1>10. PICK c, r : c = Content(x) /\ r = Abstract[s]
  OBVIOUS
<1>11. xdrResult' = [ok |-> TRUE, out |-> << Len(c) >>]
  BY <1>4, <1>5, <1>9, <1>10
<1>12. /\ r.content = c /\ [r EXCEPT !.pos = 0, !.reading = TRUE] = View(c, TRUE, 0)
  <2>1. PICK b, p, q : b = x.decode /\ p = (IF x.decode THEN Position(x) ELSE 0) /\ q = 0
    OBVIOUS
  <2>2. r = View(c, b, p)
    BY <1>3, <1>10, <2>1, Zenon DEF AsWords, View
  <2>3. c \in Seq(Words) /\ b \in BOOLEAN /\ p \in Nat /\ q \in Nat
    <3>1. c \in Seq(Words) /\ b \in BOOLEAN
      BY <1>3, <1>10, <2>1, ImageOfStream DEF StreamStates
    <3>2. CASE Writable(x)
      <4>1. x.decode = FALSE
        BY <3>2 DEF Writable
      <4>. QED
        BY <2>1, <3>1, <4>1
    <3>3. CASE Readable(x)
      <4>1. x.decode = TRUE
        BY <3>3 DEF Readable
      <4>2. PICK k, l : k = Position(x) /\ l = Len(Content(x))
        OBVIOUS
      <4>3. k \in 0 .. l /\ l \in Nat
        BY <3>3, <4>2, ReadPosition
      <4>4. p = k /\ q = 0
        BY <2>1, <4>1, <4>2
      <4>. QED
        BY <3>1, <4>3, <4>4
    <3>. QED
      BY <1>3, <3>2, <3>3 DEF Usable
  <2>4. r.content = c /\ [r EXCEPT !.pos = q, !.reading = TRUE] = View(c, TRUE, q)
    <3>1. LooksLike(r, c, b, p)
      BY <2>2 DEF LooksLike
    <3>2. r.content = c
      BY <2>3, <3>1, ViewOf
    <3>3. Restarted(r, q) = View(c, TRUE, q)
      BY <2>3, <3>1, NewReading
    <3>. QED
      BY <3>2, <3>3 DEF Restarted
  <2>. QED
    BY <2>1, <2>4
<1>13. Image(z.x) = View(c, TRUE, 0)
  <2>1. Content(t) = c
    BY <1>5, <1>10
  <2>. QED
    BY <1>4, <1>6, <1>7, <2>1, ImageOfStream
<1>14. Stream!Become(s, [Abstract[s] EXCEPT !.pos = 0, !.reading = TRUE])
  BY <1>9, <1>10, <1>12, <1>13 DEF Stream!Become, Abstract
<1>15. Stream!Result(TRUE, << Len(Abstract[s].content) >>)
  BY <1>10, <1>11, <1>12 DEF Stream!Result
<1>16. Stream!rewind(s)
  BY <1>3, <1>14, <1>15 DEF Stream!rewind, Abstract
<1>. QED
  BY <1>8, <1>16

\* The record mark replaces the first word.
LEMMA MarkStep ==
  ASSUME MemInv, NEW s \in Streams, NEW w \in Words, mark(s, w)
  PROVE  MemInv' /\ Stream!mark(s, w)
<1>1. PICK x, t, z : x = xdrs[s] /\ t = Filled(x, w) /\ z = [At(s) EXCEPT !.x = t]
  OBVIOUS
<1>2. /\ x # NoStream /\ x.decode /\ x.current = 1 /\ x.handy > 0 /\ x.handy = x.chain[1].used
      /\ Then(s, z)
  BY <1>1 DEF mark, At
<1>3. Usable(x) /\ s \in Stream!Live /\ fragments \in Pools /\ fragments.count <= FragmentQuota
      /\ Abstract[s] = AsWords(x)
  <2>1. Usable(x) /\ s \in Stream!Live /\ Abstract[s] = Image(x)
    BY <1>1, <1>2, Seen
  <2>. QED
    BY <2>1, AtStream, ImageOfStream
<1>4. z.p = fragments /\ z.x = t /\ z.ok = TRUE /\ z.out = << >>
  BY <1>1 DEF At
<1>5. AtStart(x) /\ Readable(x)
  BY <1>2, <1>3 DEF AtStart, Usable, Writable
<1>6. /\ Readable(t) /\ Len(t.chain) = Len(x.chain) /\ Position(t) = 1
      /\ Content(x) # << >> /\ Content(t) = [Content(x) EXCEPT ![1] = w]
  BY <1>1, <1>2, <1>5, FilledStream
<1>7. Usable(t) /\ t # NoStream
  BY <1>6, ImageOfStream DEF Usable
<1>8. MemInv'
  <2>1. Sound(z.p, z.x)
    BY <1>3, <1>4, <1>7 DEF Sound
  <2>2. Balanced(z.p, z.x, fragments, xdrs[s])
    BY <1>1, <1>2, <1>4, <1>6, <1>7 DEF Balanced, Pieces
  <2>. QED
    BY <1>2, <2>1, <2>2, ThenKeeps
<1>9. /\ Abstract' = [Abstract EXCEPT ![s] = Image(z.x)]
      /\ xdrResult' = [ok |-> z.ok, out |-> IF z.ok THEN z.out ELSE << >>]
  BY <1>2, StreamBecomes
<1>10. PICK c, d, r : c = Content(x) /\ d = Content(t) /\ r = Abstract[s]
  OBVIOUS
<1>11. xdrResult' = [ok |-> TRUE, out |-> << >>]
  BY <1>4, <1>9
<1>12. r = View(c, TRUE, 0)
  <2>1. Position(x) = 0
    BY <1>5, StartPosition
  <2>. QED
    BY <1>3, <1>5, <1>10, <2>1, ImageOfStream
<1>13. Image(z.x) = View(d, TRUE, 1)
  BY <1>4, <1>6, <1>7, <1>10, ImageOfStream
<1>14. d = [c EXCEPT ![1] = w] /\ c # << >>
  BY <1>6, <1>10
<1>15. Image(z.x) = [r EXCEPT !.content[1] = w, !.pos = 1]
  <2>1. PICK e, q : e = [c EXCEPT ![1] = w] /\ q = 1
    OBVIOUS
  <2>2. c \in Seq(Words) /\ e \in Seq(Words)
    BY <1>3, <1>6, <1>7, <1>10, <2>1, ImageOfStream
  <2>3. r.content = c /\ [r EXCEPT !.content = e, !.pos = q] = View(e, TRUE, q)
    <3>1. PICK o, b : o = 0 /\ b = TRUE
      OBVIOUS
    <3>2. LooksLike(r, c, b, o) /\ b \in BOOLEAN /\ o \in Nat /\ q \in Nat
      BY <1>12, <2>1, <3>1 DEF LooksLike
    <3>3. r.content = c
      BY <2>2, <3>2, ViewOf
    <3>4. MarkedAs(r, e, q) = View(e, b, q)
      BY <2>2, <3>2, NewContentAndPosition
    <3>. QED
      BY <3>1, <3>3, <3>4 DEF MarkedAs
  <2>4. [r EXCEPT !.content[1] = w, !.pos = 1] = [r EXCEPT !.content = e, !.pos = q]
    BY <2>1, <2>3
  <2>. QED
    BY <1>13, <1>14, <2>1, <2>3, <2>4
<1>16. Stream!Become(s, [Abstract[s] EXCEPT !.content[1] = w, !.pos = 1])
  BY <1>9, <1>10, <1>15 DEF Stream!Become, Abstract
<1>17. Stream!Result(TRUE, << >>)
  BY <1>11 DEF Stream!Result
<1>18. Abstract[s].reading /\ Abstract[s].pos = 0 /\ Abstract[s].content # << >>
  BY <1>10, <1>12, <1>14 DEF View
<1>19. Stream!mark(s, w)
  BY <1>3, <1>16, <1>17, <1>18 DEF Stream!mark, Abstract
<1>. QED
  BY <1>8, <1>19

\* What a read does that finds the abstract stream r.
GivesWords(r, s, n) ==
    LET end == r.pos + n
        ok == end <= Len(r.content)
    IN  /\ s \in Stream!Live /\ r.reading
        /\ Stream!Become(s, [r EXCEPT !.pos = IF ok THEN end ELSE Len(r.content)])
        /\ Stream!Result(ok, IF ok THEN SubSeq(r.content, r.pos + 1, end) ELSE << >>)

\* A read gives the words that follow, if there are as many.
LEMMA GetBytesStep ==
  ASSUME MemInv, NEW s \in Streams, NEW n \in 1 .. MaxWords, getBytes(s, n)
  PROVE  MemInv' /\ Stream!read(s, n)
<1>1. PICK x, y, z : x = xdrs[s] /\ y = At(s) /\ z = Gets(y, n)[n]
  OBVIOUS
<1>2. x # NoStream /\ x.decode /\ x.current # 0 /\ Then(s, z)
  BY <1>1 DEF getBytes
<1>3. Usable(x) /\ s \in Stream!Live /\ fragments \in Pools /\ fragments.count <= FragmentQuota
      /\ Abstract[s] = AsWords(x)
  <2>1. Usable(x) /\ s \in Stream!Live /\ Abstract[s] = Image(x)
    BY <1>1, <1>2, Seen
  <2>. QED
    BY <2>1, AtStream, ImageOfStream
<1>4. Readable(x)
  BY <1>2, <1>3 DEF Usable, Writable
<1>5. y \in Reading /\ y.ok = TRUE /\ y.out = << >> /\ y.p = fragments /\ y.x = x
  <2>1. y \in Progress /\ y.ok = TRUE /\ y.out = << >> /\ y.p = fragments /\ y.x = x
    BY <1>1, <1>2, AtStream
  <2>. QED
    BY <1>2, <1>4, <2>1 DEF Reading
<1>6. GotSoFar(y, n, z)
  <2>1. n \in Nat
    OBVIOUS
  <2>. QED
    BY <1>1, <1>5, <2>1, GetAll
<1>7. PICK t, c, i, e, m : t = z.x /\ c = Content(x) /\ i = Position(x) /\ e = i + n /\ m = Len(c)
  OBVIOUS
<1>8. /\ z \in Reading /\ z.p = fragments /\ t.chain = x.chain /\ Readable(t) /\ z.ok \in BOOLEAN
      /\ z.ok = TRUE => Position(t) = e /\ z.out = SubSeq(c, i + 1, e)
      /\ z.ok = FALSE => e > m /\ Position(t) = Len(Content(t))
  BY <1>5, <1>6, <1>7 DEF GotSoFar, Reading, Progress
<1>9. Content(t) = c
  BY <1>7, <1>8 DEF Content
<1>10. c \in Seq(Words) /\ m \in Nat /\ i \in 0 .. m /\ i \in Nat /\ e \in Nat
  BY <1>4, <1>7, ReadPosition
<1>11. z.ok = TRUE => e <= m
  <2>1. Position(t) \in 0 .. m
    BY <1>7, <1>8, <1>9, ReadPosition
  <2>. QED
    BY <1>8, <1>10, <2>1
<1>12. z.ok = FALSE => Position(t) = m
  BY <1>7, <1>8, <1>9
<1>13. Usable(t) /\ t # NoStream
  BY <1>8, ImageOfStream DEF Usable
<1>14. MemInv'
  <2>1. Sound(z.p, z.x)
    BY <1>3, <1>7, <1>8, <1>13 DEF Sound
  <2>2. Balanced(z.p, z.x, fragments, xdrs[s])
    BY <1>1, <1>2, <1>7, <1>8, <1>13 DEF Balanced, Pieces
  <2>. QED
    BY <1>2, <2>1, <2>2, ThenKeeps
<1>15. /\ Abstract' = [Abstract EXCEPT ![s] = Image(z.x)]
       /\ xdrResult' = [ok |-> z.ok, out |-> IF z.ok THEN z.out ELSE << >>]
  BY <1>2, StreamBecomes
<1>16. PICK b, r : b = TRUE /\ r = Abstract[s]
  OBVIOUS
<1>17. LooksLike(r, c, b, i) /\ b \in BOOLEAN
  <2>1. Abstract[s] = View(Content(x), TRUE, Position(x))
    BY <1>3, <1>4, ImageOfStream
  <2>2. r = View(c, b, i)
    BY <1>7, <1>16, <2>1
  <2>. QED
    BY <1>16, <2>2 DEF LooksLike
<1>18. r.content = c /\ r.reading = TRUE /\ r.pos = i
  <2>1. r.content = c /\ r.reading = b /\ r.pos = i
    BY <1>10, <1>17, ViewOf
  <2>. QED
    BY <1>16, <2>1
<1>19. \A q \in Nat : [r EXCEPT !.pos = q] = View(c, b, q)
  BY <1>10, <1>17, NewPosition
<1>20. Image(z.x) = View(c, TRUE, Position(t))
  BY <1>7, <1>8, <1>9, <1>13, ImageOfStream
<1>21. PICK q, o : q = (IF z.ok THEN e ELSE m) /\ o = (IF z.ok THEN SubSeq(c, i + 1, e) ELSE << >>)
  OBVIOUS
<1>22. Image(z.x) = [r EXCEPT !.pos = q]
  <2>1. q = Position(t) /\ q \in Nat
    BY <1>8, <1>10, <1>12, <1>21
  <2>. QED
    BY <1>16, <1>19, <1>20, <2>1
<1>23. Stream!Become(s, [r EXCEPT !.pos = q])
  BY <1>15, <1>22 DEF Stream!Become, Abstract
<1>24. Stream!Result(z.ok, o)
  BY <1>8, <1>15, <1>21 DEF Stream!Result
<1>25. z.ok = (e <= m)
  <2>1. (e <= m) \in BOOLEAN
    OBVIOUS
  <2>2. CASE z.ok = TRUE
    <3>1. (e <= m) = TRUE
      BY <1>11, <2>2
    <3>. QED
      BY <2>2, <3>1, Zenon
  <2>3. CASE z.ok = FALSE
    <3>1. (e <= m) = FALSE
      BY <1>8, <1>10, <2>3
    <3>. QED
      BY <2>3, <3>1, Zenon
  <2>. QED
    BY <1>8, <2>2, <2>3
<1>26. /\ s \in Stream!Live /\ r.reading
       /\ Stream!Become(s, [r EXCEPT !.pos = IF e <= m THEN e ELSE m])
       /\ Stream!Result(e <= m, IF e <= m THEN SubSeq(c, i + 1, e) ELSE << >>)
  <2>1. q = (IF e <= m THEN e ELSE m) /\ o = (IF e <= m THEN SubSeq(c, i + 1, e) ELSE << >>)
    BY <1>21, <1>25, Zenon
  <2>. QED
    BY <1>3, <1>18, <1>23, <1>24, <1>25, <2>1, Zenon
<1>27. GivesWords(r, s, n)
  BY <1>7, <1>18, <1>26, Zenon DEF GivesWords
<1>28. GivesWords(Abstract[s], s, n)
  BY <1>16, <1>27, Zenon
<1>29. Stream!read(s, n)
  BY <1>28 DEF GivesWords, Stream!read, Abstract
<1>. QED
  BY <1>14, <1>29

\* Only free fragments are given back, and no stream notices.
LEMMA FreegarbageStep ==
  ASSUME MemInv, freegarbage
  PROVE  MemInv' /\ Abstract' = Abstract /\ xdrResult' = xdrResult
<1>1. PICK a, b, w, d, part, f :
        /\ a = fragments.count /\ b = fragments.free /\ w = FragmentWatermark /\ d = b - w
        /\ part = (d * FreePercentage) \div 100 /\ f = IF part = 0 THEN d ELSE part
  OBVIOUS
<1>2. /\ b > w /\ fragments' = [count |-> a - f, free |-> b - f]
      /\ xdrs' = xdrs /\ xdrResult' = xdrResult
  BY <1>1 DEF freegarbage
<1>3. /\ a \in Nat /\ b \in Nat /\ w \in Nat /\ d \in Nat
      /\ a <= FragmentQuota /\ FragmentQuota \in Nat /\ Cardinality(InUse) \in Nat
      /\ a = b + Cardinality(InUse)
  <2>1. fragments \in Pools /\ IsFiniteSet(InUse) /\ FragmentsAreConserved
    BY DEF MemInv
  <2>2. a \in Nat /\ b \in Nat
    BY <1>1, <2>1 DEF Pools
  <2>3. Cardinality(InUse) \in Nat
    BY <2>1, FS_CardinalityType
  <2>4. w \in Nat /\ FragmentQuota \in Nat
    BY <1>1, MemAssumption
  <2>. QED
    BY <1>1, <1>2, <2>1, <2>2, <2>3, <2>4 DEF FragmentsAreConserved
<1>4. part \in Nat /\ part <= d
  <2>1. PICK k, g : k = FreePercentage /\ g = d * k
    OBVIOUS
  <2>2. k \in 0 .. 100
    BY <2>1, MemAssumption
  <2>3. g \in Nat /\ g <= d * 100
    BY <1>3, <2>1, <2>2
  <2>. QED
    BY <1>1, <1>3, <2>1, <2>3
<1>5. f \in Nat /\ f <= d /\ f <= b /\ d <= b
  BY <1>1, <1>3, <1>4
<1>6. /\ fragments'.count = a - f /\ fragments'.free = b - f
      /\ a - f \in Nat /\ b - f \in Nat /\ a - f <= FragmentQuota
      /\ a - f = (b - f) + Cardinality(InUse)
  BY <1>2, <1>3, <1>5
<1>7. fragments' \in Pools
  BY <1>2, <1>6 DEF Pools
<1>8. InUse' = InUse /\ Open' = Open /\ \A s \in Open : Usable(xdrs[s])' <=> Usable(xdrs[s])
  BY <1>2 DEF InUse, Open
<1>9. FragmentsAreConserved'
  BY <1>2, <1>6, <1>8 DEF FragmentsAreConserved, MemInv
<1>10. MemInv'
  BY <1>2, <1>7, <1>8, <1>9 DEF MemInv
<1>11. Abstract' = Abstract
  BY <1>2 DEF Abstract
<1>. QED
  BY <1>2, <1>10, <1>11

\* Without streams the invariant holds.
LEMMA MemInitially ==
  ASSUME MemInit
  PROVE  MemInv /\ Stream!Init
<1>1. /\ fragments.count = 0 /\ fragments.free = 0 /\ fragments \in Pools
      /\ \A s \in Streams : xdrs[s] = NoStream
  BY DEF MemInit, Pools
<1>2. Open = {}
  BY <1>1 DEF Open
<1>3. InUse = {}
  BY <1>2 DEF InUse
<1>4. IsFiniteSet(InUse) /\ Cardinality(InUse) = 0
  BY <1>3, FS_EmptySet
<1>5. 0 <= FragmentQuota
  BY MemAssumption
<1>6. FragmentsAreConserved
  BY <1>1, <1>2, <1>4, <1>5 DEF FragmentsAreConserved
<1>7. xdrs \in [Streams -> StreamOrNone]
  BY DEF MemInit, StreamOrNone
<1>8. Stream!Init
  <2>1. [s \in Streams |-> IF xdrs[s] = NoStream THEN NoStream ELSE AsWords(xdrs[s])]
        = [s \in Streams |-> NoStream]
    BY <1>1
  <2>. QED
    BY <2>1 DEF MemInit, Stream!Init
<1>. QED
  BY <1>1, <1>2, <1>4, <1>6, <1>7, <1>8 DEF MemInv

-----------------------------------------------------------------------------
(* The theorems.                                                           *)

\* Every operation keeps the invariant, and is one of the abstract streams or none.
LEMMA MemStep ==
  ASSUME MemInv, MemNext
  PROVE  MemInv' /\ (Stream!Next \/ UNCHANGED <<Abstract, xdrResult>>)
<1>1. CASE freegarbage
  BY <1>1, FreegarbageStep
<1>2. ASSUME NEW s \in Streams, create(s) PROVE MemInv' /\ Stream!Next
  BY <1>2, CreateStep DEF Stream!Next
<1>3. ASSUME NEW s \in Streams, destroy(s) PROVE MemInv' /\ Stream!Next
  BY <1>3, DestroyStep DEF Stream!Next
<1>4. ASSUME NEW s \in Streams, clear(s) PROVE MemInv' /\ Stream!Next
  BY <1>4, ClearStep DEF Stream!Next
<1>5. ASSUME NEW s \in Streams, rewind(s) PROVE MemInv' /\ Stream!Next
  BY <1>5, RewindStep DEF Stream!Next
<1>6. Telegrams = Stream!Telegrams
  BY DEF Telegrams, Stream!Telegrams
<1>7. ASSUME NEW s \in Streams, NEW ws \in Telegrams, putBytes(s, ws) PROVE MemInv' /\ Stream!Next
  BY <1>6, <1>7, PutBytesStep DEF Stream!Next
<1>8. ASSUME NEW s \in Streams, NEW ws \in Telegrams, readFromFd(s, ws) PROVE MemInv' /\ Stream!Next
  BY <1>6, <1>8, ReadFromFdStep DEF Stream!Next
<1>9. ASSUME NEW s \in Streams, NEW w \in Words, mark(s, w) PROVE MemInv' /\ Stream!Next
  BY <1>9, MarkStep DEF Stream!Next
<1>10. ASSUME NEW s \in Streams, NEW n \in 1 .. MaxWords, getBytes(s, n) PROVE MemInv' /\ Stream!Next
  BY <1>10, GetBytesStep DEF Stream!Next
<1>. QED
  BY <1>1, <1>2, <1>3, <1>4, <1>5, <1>7, <1>8, <1>9, <1>10 DEF MemNext

\* So does a step that changes nothing.
LEMMA MemStutter ==
  ASSUME MemInv, UNCHANGED memVars
  PROVE  MemInv' /\ UNCHANGED <<Abstract, xdrResult>>
<1>1. fragments' = fragments /\ xdrs' = xdrs /\ xdrResult' = xdrResult
  BY DEF memVars
<1>2. InUse' = InUse /\ Open' = Open /\ \A s \in Open : Usable(xdrs[s])' <=> Usable(xdrs[s])
  BY <1>1 DEF InUse, Open
<1>3. FragmentsAreConserved'
  BY <1>1, <1>2 DEF FragmentsAreConserved, MemInv
<1>. QED
  BY <1>1, <1>2, <1>3 DEF MemInv, Abstract

\* The streams are always as writing or reading leave them.
THEOREM MemInvariant == MemSpec => []MemInv
<1>1. MemInit => MemInv
  BY MemInitially
<1>2. MemInv /\ [MemNext]_memVars => MemInv'
  BY MemStep, MemStutter
<1>. QED
  BY <1>1, <1>2, PTL DEF MemSpec

\* Whatever streams are created, written, read, cleared and destroyed, and
\* whichever of those fail, no fragment of the pool is lost or used twice, and
\* the quota is kept.
THEOREM FragmentsStayConserved == MemSpec => []FragmentsAreConserved
<1>1. MemInv => FragmentsAreConserved
  BY DEF MemInv
<1>. QED
  BY <1>1, MemInvariant, PTL

\* The chains of fragments implement streams of words.
THEOREM MemStreamsAreWordStreams == MemSpec => AreWordStreams
<1>1. MemInit => Stream!Init
  BY MemInitially
<1>2. MemInv /\ [MemNext]_memVars => [Stream!Next]_(Stream!vars)
  <2>. SUFFICES ASSUME MemInv, [MemNext]_memVars PROVE Stream!Next \/ UNCHANGED Stream!vars
    OBVIOUS
  <2>1. Stream!Next \/ UNCHANGED <<Abstract, xdrResult>>
    BY MemStep, MemStutter
  <2>. QED
    BY <2>1 DEF Stream!vars, Abstract
<1>. QED
  BY <1>1, <1>2, MemInvariant, PTL DEF MemSpec, AreWordStreams, Stream!Spec

-----------------------------------------------------------------------------
(* The timer queue.                                                        *)

Arrays(n) == [0 .. n - 1 -> Events]

\* Trigger times are numbers.
LEMMA TimesAreNumbers == \A e \in Events : triggersAt[e] \in Nat
BY EventsAssumption

\* The tree in the array.
LEMMA ParentOf ==
  ASSUME NEW i \in Nat, i > 0
  PROVE  /\ parent(i) \in Nat /\ parent(i) < i
         /\ i = leftChild(parent(i)) \/ i = rightChild(parent(i))
BY DEF parent, leftChild, rightChild

\* The children of a place come after it, next to each other.
LEMMA ChildOf ==
  ASSUME NEW k \in Nat
  PROVE  /\ leftChild(k) \in Nat /\ rightChild(k) \in Nat
         /\ k < leftChild(k) /\ rightChild(k) = leftChild(k) + 1
         /\ parent(leftChild(k)) = k /\ parent(rightChild(k)) = k
BY DEF parent, leftChild, rightChild

\* Parents are in the order of their children.
LEMMA ParentsInOrder ==
  ASSUME NEW i \in Nat, NEW k \in Nat, i > 0, i <= k
  PROVE  parent(i) <= parent(k)
BY DEF parent

\* How often an event is in an array.
Places(h, u) == {i \in DOMAIN h : h[i] = u}
Count(h, u) == Cardinality(Places(h, u))
One(b) == IF b THEN 1 ELSE 0

\* The places of an event are finitely many.
LEMMA PlacesFinite ==
  ASSUME NEW n \in Nat, NEW h \in Arrays(n), NEW u
  PROVE  IsFiniteSet(Places(h, u)) /\ Count(h, u) \in Nat
<1>1. IsFiniteSet(0 .. n - 1)
  BY FS_Interval
<1>2. Places(h, u) \subseteq 0 .. n - 1
  BY DEF Places, Arrays
<1>. QED
  BY <1>1, <1>2, FS_Subset, FS_CardinalityType DEF Count

\* The size of the heap is the size of its array.
LEMMA SizeOfArray ==
  ASSUME NEW n \in Nat, NEW h \in Arrays(n)
  PROVE  Cardinality(DOMAIN h) = n
<1>1. DOMAIN h = 0 .. n - 1
  BY DEF Arrays
<1>2. PICK m : m = n - 1
  OBVIOUS
<1>3. m \in Int /\ m - 0 + 1 = n
  BY <1>2
<1>4. Cardinality(0 .. m) = IF 0 > m THEN 0 ELSE m - 0 + 1
  BY <1>3, FS_Interval
<1>. QED
  BY <1>1, <1>2, <1>3, <1>4

\* Another value in one place.
Replaced(n, h, k, y, g) ==
    n \in Nat /\ h \in Arrays(n) /\ k \in 0 .. n - 1 /\ y \in Events /\ g = [h EXCEPT ![k] = y]

\* Writing a slot takes one event away and adds another.
LEMMA CountExcept ==
  ASSUME NEW n, NEW h, NEW k, NEW y, NEW g, Replaced(n, h, k, y, g), NEW u
  PROVE  g \in Arrays(n) /\ Count(g, u) = Count(h, u) - One(h[k] = u) + One(y = u)
<1>1. g = [h EXCEPT ![k] = y] /\ n \in Nat /\ h \in Arrays(n) /\ k \in 0 .. n - 1 /\ y \in Events
  BY DEF Replaced
<1>2. /\ DOMAIN g = 0 .. n - 1 /\ DOMAIN h = 0 .. n - 1 /\ g[k] = y
      /\ \A i \in 0 .. n - 1 : i # k => g[i] = h[i]
  BY <1>1 DEF Arrays
<1>3. g \in Arrays(n)
  BY <1>1 DEF Arrays
<1>4. PICK A, B : A = Places(h, u) \ {k} /\ B = A \cup {k}
  OBVIOUS
<1>5. IsFiniteSet(A) /\ k \notin A /\ Cardinality(A) \in Nat
  BY <1>1, <1>4, PlacesFinite, FS_Subset, FS_CardinalityType
<1>6. Cardinality(B) = Cardinality(A) + 1
  BY <1>4, <1>5, FS_AddElement
<1>7. Places(h, u) = IF h[k] = u THEN B ELSE A
  BY <1>1, <1>2, <1>4 DEF Places
<1>8. Places(g, u) = IF y = u THEN B ELSE A
  BY <1>1, <1>2, <1>4 DEF Places
<1>9. Count(h, u) = Cardinality(A) + One(h[k] = u)
  BY <1>5, <1>6, <1>7 DEF Count, One
<1>10. Count(g, u) = Cardinality(A) + One(y = u)
  BY <1>5, <1>6, <1>8 DEF Count, One
<1>11. One(h[k] = u) \in Int /\ One(y = u) \in Int
  BY DEF One
<1>. QED
  BY <1>1, <1>3, <1>5, <1>9, <1>10, <1>11

\* The array without its last element.
LEMMA CountTruncate ==
  ASSUME NEW n \in Nat, NEW h \in Arrays(n + 1), NEW u
  PROVE  /\ Truncate(h, n) \in Arrays(n)
         /\ Count(Truncate(h, n), u) = Count(h, u) - One(h[n] = u)
<1>1. PICK g, m : g = Truncate(h, n) /\ m = n + 1
  OBVIOUS
<1>2. m \in Nat /\ m - 1 = n /\ h \in Arrays(m)
  BY <1>1
<1>3. /\ DOMAIN g = 0 .. n - 1 /\ DOMAIN h = 0 .. n /\ n \in 0 .. n
      /\ \A i \in 0 .. n - 1 : g[i] = h[i]
  BY <1>1, <1>2 DEF Arrays, Truncate
<1>4. g \in Arrays(n)
  <2>1. \A i \in 0 .. n : h[i] \in Events
    BY <1>2 DEF Arrays
  <2>. QED
    BY <1>1, <2>1 DEF Arrays, Truncate
<1>5. PICK A : A = Places(g, u)
  OBVIOUS
<1>6. IsFiniteSet(A) /\ Cardinality(A) \in Nat /\ n \notin A
  <2>1. IsFiniteSet(A) /\ Cardinality(A) \in Nat
    BY <1>4, <1>5, PlacesFinite DEF Count
  <2>2. n \notin 0 .. n - 1
    OBVIOUS
  <2>3. A \subseteq DOMAIN g
    BY <1>5 DEF Places
  <2>. QED
    BY <1>3, <2>1, <2>2, <2>3
<1>7. Places(h, u) = IF h[n] = u THEN A \cup {n} ELSE A
  BY <1>3, <1>5 DEF Places
<1>8. Cardinality(A \cup {n}) = Cardinality(A) + 1
  BY <1>6, FS_AddElement
<1>9. Count(h, u) = Cardinality(A) + One(h[n] = u)
  BY <1>6, <1>7, <1>8 DEF Count, One
<1>. QED
  BY <1>1, <1>4, <1>5, <1>6, <1>9 DEF Count, One

\* An array with an element more.
Lengthened(n, h, y, g) ==
    /\ n \in Nat /\ h \in Arrays(n) /\ y \in Events
    /\ g = [i \in 0 .. n |-> IF i < n THEN h[i] ELSE y]

\* Appending a slot adds one event.
LEMMA CountExtended ==
  ASSUME NEW n, NEW h, NEW y, NEW g, Lengthened(n, h, y, g), NEW u
  PROVE  /\ g \in Arrays(n + 1) /\ Count(g, u) = Count(h, u) + One(y = u)
<1>0. /\ n \in Nat /\ h \in Arrays(n) /\ y \in Events
      /\ g = [i \in 0 .. n |-> IF i < n THEN h[i] ELSE y]
  BY DEF Lengthened
<1>1. PICK m : m = n + 1
  OBVIOUS
<1>2. m \in Nat /\ m - 1 = n
  BY <1>0, <1>1
<1>3. g \in Arrays(m)
  <2>1. \A i \in 0 .. n - 1 : h[i] \in Events
    BY <1>0 DEF Arrays
  <2>. QED
    BY <1>0, <1>2, <2>1 DEF Arrays
<1>4. Truncate(g, n) = h
  <2>1. h = [i \in 0 .. n - 1 |-> h[i]]
    BY <1>0 DEF Arrays
  <2>2. \A i \in 0 .. n - 1 : g[i] = h[i]
    BY <1>0
  <2>. QED
    BY <2>1, <2>2 DEF Truncate
<1>5. g[n] = y
  BY <1>0
<1>6. Count(h, u) = Count(g, u) - One(y = u)
  BY <1>0, <1>1, <1>3, <1>4, <1>5, CountTruncate
<1>7. Count(g, u) \in Nat /\ Count(h, u) \in Nat /\ One(y = u) \in Nat
  BY <1>0, <1>2, <1>3, PlacesFinite DEF One
<1>. QED
  BY <1>0, <1>1, <1>3, <1>6, <1>7

\* What add() does with the hole at k.
Risen(h, x, rise, k) ==
    IF k > 0 /\ triggersAt[x] < triggersAt[h[parent(k)]] THEN [rise[parent(k)] EXCEPT ![k] = h[parent(k)]]
    ELSE [h EXCEPT ![k] = x]

\* The hole rises: UpHeap() is what its recursion says.
LEMMA RiseIsDefined ==
  ASSUME NEW n \in Nat, NEW h \in Arrays(n), NEW x \in Events
  PROVE  \E rise \in [0 .. n - 1 -> Arrays(n)] :
            \A k \in 0 .. n - 1 : rise[k] = Risen(h, x, rise, k) /\ UpHeap(h, k, x) = rise[k]
<1>1. PICK D, X : D = 0 .. n - 1 /\ X = Arrays(n)
  OBVIOUS
<1>2. PICK r : r = [k \in D |-> k]
  OBVIOUS
<1>3. r \in [D -> 0 .. n]
  BY <1>1, <1>2
<1>4. PICK B : B = [q \in D \X [D -> X] |-> Risen(h, x, q[2], q[1])]
  OBVIOUS
<1>5. \A k \in D : \A f \in [D -> X] : B[<<k, f>>] = Risen(h, x, f, k)
  BY <1>4
<1>6. \A k \in D : k \in Nat /\ h[k] \in Events /\ (k > 0 => parent(k) \in D /\ parent(k) < k)
  <2>1. TAKE k \in D
  <2>2. k \in Nat /\ k < n
    BY <1>1
  <2>3. k > 0 => parent(k) \in Nat /\ parent(k) < k
    BY <2>2, ParentOf
  <2>. QED
    BY <1>1, <2>2, <2>3 DEF Arrays
<1>7. ASSUME NEW k \in D, NEW f \in [D -> X] PROVE Risen(h, x, f, k) \in X
  <2>1. CASE k > 0 /\ triggersAt[x] < triggersAt[h[parent(k)]]
    <3>1. PICK g, y : g = f[parent(k)] /\ y = h[parent(k)]
      OBVIOUS
    <3>2. g \in Arrays(n) /\ y \in Events /\ k \in 0 .. n - 1
      BY <1>1, <1>6, <2>1, <3>1
    <3>3. [g EXCEPT ![k] = y] \in Arrays(n)
      BY <3>2 DEF Arrays
    <3>. QED
      BY <1>1, <2>1, <3>1, <3>3 DEF Risen
  <2>2. CASE ~ (k > 0 /\ triggersAt[x] < triggersAt[h[parent(k)]])
    <3>1. [h EXCEPT ![k] = x] \in Arrays(n)
      BY <1>1 DEF Arrays
    <3>. QED
      BY <1>1, <2>2, <3>1 DEF Risen
  <2>. QED
    BY <2>1, <2>2
<1>8. B \in [D \X [D -> X] -> X]
  BY <1>4, <1>7
<1>9. LooksDown(D, X, r, B)
  <2>1. ASSUME NEW k \in D, NEW f \in [D -> X], NEW g \in [D -> X],
               \A j \in D : r[j] < r[k] => f[j] = g[j]
        PROVE  B[<<k, f>>] = B[<<k, g>>]
    <3>1. k > 0 => f[parent(k)] = g[parent(k)]
      BY <1>2, <1>6, <2>1
    <3>2. Risen(h, x, f, k) = Risen(h, x, g, k)
      BY <3>1 DEF Risen
    <3>. QED
      BY <1>5, <3>2
  <2>. QED
    BY <2>1 DEF LooksDown
<1>10. h \in X
  BY <1>1
<1>11. PICK f : Recursive(f, D, X, B)
  BY <1>3, <1>8, <1>9, <1>10, RankedRecursion
<1>12. f \in [D -> X] /\ \A k \in D : f[k] = Risen(h, x, f, k)
  BY <1>5, <1>11 DEF Recursive
<1>13. DOMAIN h = D
  BY <1>1 DEF Arrays
<1>14. f = [k \in DOMAIN h |-> IF k > 0 /\ triggersAt[x] < triggersAt[h[parent(k)]]
                               THEN [f[parent(k)] EXCEPT ![k] = h[parent(k)]]
                               ELSE [h EXCEPT ![k] = x]]
  BY <1>12, <1>13 DEF Risen
<1>15. PICK c : c = CHOOSE rise : rise = [k \in DOMAIN h |->
                                            IF k > 0 /\ triggersAt[x] < triggersAt[h[parent(k)]]
                                            THEN [rise[parent(k)] EXCEPT ![k] = h[parent(k)]]
                                            ELSE [h EXCEPT ![k] = x]]
  OBVIOUS
<1>16. c = [k \in DOMAIN h |-> IF k > 0 /\ triggersAt[x] < triggersAt[h[parent(k)]]
                               THEN [c[parent(k)] EXCEPT ![k] = h[parent(k)]]
                               ELSE [h EXCEPT ![k] = x]]
  BY <1>14, <1>15, Zenon
<1>17. \A k : UpHeap(h, k, x) = c[k]
  BY <1>15 DEF UpHeap
<1>18. \A k \in D : c[k] = Risen(h, x, c, k)
  BY <1>13, <1>16 DEF Risen
<1>. HIDE DEF Risen
<1>19. c \in [D -> X]
  <2>1. PICK S : S = {k \in D : c[k] \in X}
    OBVIOUS
  <2>2. ASSUME NEW k \in D, \A j \in D : r[j] < r[k] => j \in S PROVE k \in S
    <3>1. PICK g : g = [j \in D |-> IF j \in S THEN c[j] ELSE h]
      OBVIOUS
    <3>2. g \in [D -> X]
      BY <1>10, <2>1, <3>1
    <3>3. k > 0 => c[parent(k)] = g[parent(k)]
      BY <1>2, <1>6, <2>2, <3>1
    <3>4. Risen(h, x, c, k) = Risen(h, x, g, k)
      BY <3>3 DEF Risen
    <3>. QED
      BY <1>7, <1>18, <2>1, <3>2, <3>4
  <2>3. D \subseteq S
    BY <1>3, <2>2, RankedInduction
  <2>4. \A k \in D : c[k] \in X
    BY <2>1, <2>3
  <2>5. c = [k \in D |-> c[k]]
    BY <1>13, <1>16
  <2>. QED
    BY <2>4, <2>5
<1>. QED
  BY <1>1, <1>17, <1>18, <1>19

\* A new element in the last place rises until the heap is in order again.
Ordered(h, n) == \A i \in 1 .. n - 1 : triggersAt[h[parent(i)]] <= triggersAt[h[i]]

\* UpHeap() of the last element restores the order and keeps all the events.
LEMMA UpHeapIs ==
  ASSUME NEW n \in Nat, NEW x \in Events, NEW h \in Arrays(n + 1), h[n] = x, Ordered(h, n)
  PROVE  /\ UpHeap(h, n, x) \in Arrays(n + 1) /\ Ordered(UpHeap(h, n, x), n + 1)
         /\ \A u : Count(UpHeap(h, n, x), u) = Count(h, u)
<1>1. PICK m : m = n + 1
  OBVIOUS
<1>2. m \in Nat /\ m - 1 = n /\ h \in Arrays(m) /\ 0 .. m - 1 = 0 .. n
  BY <1>1
<1>3. PICK rise \in [0 .. n -> Arrays(m)] :
          \A k \in 0 .. n : rise[k] = Risen(h, x, rise, k) /\ UpHeap(h, k, x) = rise[k]
  BY <1>2, RiseIsDefined
<1>4. \A k \in 0 .. n : triggersAt[h[k]] \in Nat /\ h[k] \in Events /\ rise[k] \in Arrays(m)
                        /\ \A j \in 0 .. n : triggersAt[rise[k][j]] \in Nat
  <2>1. \A t \in Events : triggersAt[t] \in Nat
    BY TimesAreNumbers
  <2>. QED
    BY <1>2, <1>3, <2>1 DEF Arrays
<1>5. triggersAt[x] \in Nat
  BY TimesAreNumbers
<1>. DEFINE Above(k) == \A j \in 0 .. n : j > k => rise[k][j] = h[j]
            Sorted(k) == \A i \in 1 .. k : triggersAt[rise[k][parent(i)]] <= triggersAt[rise[k][i]]
            Lower(k) == triggersAt[x] < triggersAt[h[k]] => \A j \in 0 .. k : triggersAt[rise[k][j]] <= triggersAt[h[j]]
            Same(k) == \A u : Count(rise[k], u) = Count(h, u) - One(h[k] = u) + One(x = u)
            S == {k \in 0 .. n : Above(k) /\ Sorted(k) /\ Lower(k) /\ Same(k)}
<1>6. ASSUME NEW k \in 0 .. n, \A j \in 0 .. n : j < k => j \in S PROVE k \in S
  <2>1. CASE k > 0 /\ triggersAt[x] < triggersAt[h[parent(k)]]
    <3>1. PICK p, g, f : p = parent(k) /\ g = rise[p] /\ f = rise[k]
      OBVIOUS
    <3>2. p \in 0 .. n /\ p < k
      BY <2>1, <3>1, ParentOf
    <3>3. Above(p) /\ Sorted(p) /\ Lower(p) /\ Same(p)
      BY <1>6, <3>2
    <3>4. f = [g EXCEPT ![k] = h[p]] /\ g \in Arrays(m)
      BY <1>3, <1>4, <2>1, <3>1, <3>2 DEF Risen
    <3>5. f[k] = h[p] /\ \A j \in 0 .. n : j # k => f[j] = g[j]
      BY <1>2, <3>4 DEF Arrays
    <3>6. /\ \A j \in 0 .. n : j > p => g[j] = h[j]
          /\ \A j \in 0 .. p : triggersAt[g[j]] <= triggersAt[h[j]]
          /\ \A i \in 1 .. p : triggersAt[g[parent(i)]] <= triggersAt[g[i]]
      BY <2>1, <3>1, <3>3
    <3>7. Above(k)
      BY <3>1, <3>2, <3>5, <3>6
    <3>8. ASSUME NEW i \in 1 .. k PROVE triggersAt[f[parent(i)]] <= triggersAt[f[i]]
      <4>1. parent(i) \in 0 .. n /\ parent(i) < i /\ parent(i) <= p
        BY <3>1, ParentOf, ParentsInOrder
      <4>2. f[parent(i)] = g[parent(i)]
        BY <3>5, <4>1
      <4>3. CASE i <= p
        BY <3>2, <3>5, <3>6, <4>2, <4>3
      <4>4. CASE i > p /\ i < k
        <5>1. f[i] = h[i] /\ i \in 1 .. n - 1
          BY <3>5, <3>6, <4>4
        <5>2. triggersAt[h[parent(i)]] <= triggersAt[h[i]]
          BY <5>1 DEF Ordered
        <5>3. triggersAt[g[parent(i)]] <= triggersAt[h[parent(i)]]
          BY <3>2, <3>6, <4>1
        <5>4. PICK a, b, c : a = triggersAt[g[parent(i)]] /\ b = triggersAt[h[parent(i)]] /\ c = triggersAt[h[i]]
          OBVIOUS
        <5>5. a \in Nat /\ b \in Nat /\ c \in Nat
          BY <1>4, <3>1, <3>2, <4>1, <5>4
        <5>. QED
          BY <4>2, <5>1, <5>2, <5>3, <5>4, <5>5
      <4>5. CASE i = k
        BY <3>1, <3>2, <3>5, <3>6, <4>2, <4>5
      <4>. QED
        BY <3>2, <4>3, <4>4, <4>5
    <3>9. Lower(k)
      <4>1. CASE k < n
        <5>1. triggersAt[h[p]] <= triggersAt[h[k]]
          BY <2>1, <3>1, <4>1 DEF Ordered
        <5>2. ASSUME NEW j \in 0 .. k PROVE triggersAt[f[j]] <= triggersAt[h[j]]
          <6>1. CASE j = k
            BY <3>5, <5>1, <6>1
          <6>2. CASE j # k /\ j <= p
            BY <3>5, <3>6, <6>2
          <6>3. CASE j # k /\ j > p
            BY <1>4, <3>5, <3>6, <6>3
          <6>. QED
            BY <3>2, <6>1, <6>2, <6>3
        <5>. QED
          BY <3>1, <5>2
      <4>2. CASE k = n
        BY <1>5, <4>2
      <4>. QED
        BY <4>1, <4>2
    <3>10. Same(k)
      <4>1. TAKE u
      <4>2. Count(g, u) = Count(h, u) - One(h[p] = u) + One(x = u)
        BY <3>1, <3>3
      <4>3. Count(f, u) = Count(g, u) - One(g[k] = u) + One(h[p] = u)
        <5>1. PICK y \in Events : y = h[p]
          BY <1>4, <3>2
        <5>2. k \in 0 .. m - 1 /\ f = [g EXCEPT ![k] = y]
          BY <1>2, <3>4, <5>1
        <5>3. Replaced(m, g, k, y, f)
          BY <1>2, <3>4, <5>1, <5>2 DEF Replaced
        <5>4. Count(f, u) = Count(g, u) - One(g[k] = u) + One(y = u)
          BY <5>3, CountExcept
        <5>. QED
          BY <5>1, <5>4
      <4>4. g[k] = h[k]
        BY <3>2, <3>6
      <4>5. Count(h, u) \in Int /\ Count(g, u) \in Int
        BY <1>2, <3>4, PlacesFinite
      <4>6. One(h[p] = u) \in Int /\ One(x = u) \in Int /\ One(h[k] = u) \in Int
        BY DEF One
      <4>. QED
        BY <3>1, <4>2, <4>3, <4>4, <4>5, <4>6
    <3>. QED
      BY <3>1, <3>7, <3>8, <3>9, <3>10
  <2>2. CASE ~ (k > 0 /\ triggersAt[x] < triggersAt[h[parent(k)]])
    <3>1. PICK f : f = rise[k]
      OBVIOUS
    <3>2. f = [h EXCEPT ![k] = x]
      BY <1>3, <2>2, <3>1 DEF Risen
    <3>3. f[k] = x /\ \A j \in 0 .. n : j # k => f[j] = h[j]
      BY <1>2, <3>2 DEF Arrays
    <3>4. ASSUME NEW i \in 1 .. k PROVE triggersAt[f[parent(i)]] <= triggersAt[f[i]]
      <4>1. parent(i) \in 0 .. n /\ parent(i) < i
        BY ParentOf
      <4>2. CASE i = k
        <5>1. ~ (triggersAt[x] < triggersAt[h[parent(k)]]) /\ triggersAt[h[parent(k)]] \in Nat
          BY <1>4, <2>2, <4>1, <4>2
        <5>2. f[parent(i)] = h[parent(k)] /\ f[i] = x
          BY <3>3, <4>1, <4>2
        <5>. QED
          BY <1>5, <5>1, <5>2
      <4>3. CASE i # k
        <5>1. i \in 1 .. n - 1 /\ f[parent(i)] = h[parent(i)] /\ f[i] = h[i]
          BY <3>3, <4>1, <4>3
        <5>. QED
          BY <5>1 DEF Ordered
      <4>. QED
        BY <4>2, <4>3
    <3>5. Lower(k)
      <4>1. ASSUME triggersAt[x] < triggersAt[h[k]], NEW j \in 0 .. k PROVE triggersAt[f[j]] <= triggersAt[h[j]]
        <5>1. CASE j = k
          BY <1>4, <1>5, <3>3, <4>1, <5>1
        <5>2. CASE j # k
          BY <1>4, <3>3, <5>2
        <5>. QED
          BY <5>1, <5>2
      <4>. QED
        BY <3>1, <4>1
    <3>6. Above(k)
      BY <3>1, <3>3
    <3>7. Same(k)
      <4>1. Replaced(m, h, k, x, f)
        BY <1>2, <3>2 DEF Replaced
      <4>2. TAKE u
      <4>3. Count(f, u) = Count(h, u) - One(h[k] = u) + One(x = u)
        BY <4>1, CountExcept
      <4>. QED
        BY <3>1, <4>3
    <3>. QED
      BY <3>1, <3>4, <3>5, <3>6, <3>7
  <2>. QED
    BY <2>1, <2>2
<1>7. n \in S
  <2>. HIDE DEF S
  <2>1. PICK D : D = 0 .. m - 1
    OBVIOUS
  <2>2. Upwards(m, D, S)
    BY <1>2, <1>6, <2>1 DEF Upwards
  <2>. QED
    BY <1>2, <2>1, <2>2, UpwardInduction
<1>8. Sorted(n) /\ Same(n) /\ UpHeap(h, n, x) = rise[n]
  BY <1>3, <1>7
<1>9. \A u : Count(h, u) - One(h[n] = u) + One(x = u) = Count(h, u)
  <2>1. \A u : Count(h, u) \in Nat /\ One(x = u) \in Nat
    BY <1>2, PlacesFinite DEF One
  <2>. QED
    BY <2>1
<1>. QED
  BY <1>1, <1>2, <1>4, <1>8, <1>9 DEF Ordered

\* The child that may take the place of its parent.
EarlierChild(n, h, i, c) ==
    /\ n \in Nat /\ h \in Arrays(n) /\ i \in 0 .. n - 1
    /\ leftChild(i) < n /\ c = SmallerChild(h, n, i)

\* The earlier child is below its parent and not after any child.
LEMMA SmallerChildOf ==
  ASSUME NEW n, NEW h, NEW i, NEW c, EarlierChild(n, h, i, c)
  PROVE  /\ c \in 1 .. n - 1 /\ i < c /\ parent(c) = i /\ leftChild(i) <= c
         /\ leftChild(i) + 1 < leftChild(c)
         /\ \A j \in 1 .. n - 1 : parent(j) = i => triggersAt[h[c]] <= triggersAt[h[j]]
<1>0. /\ n \in Nat /\ h \in Arrays(n) /\ i \in 0 .. n - 1
      /\ leftChild(i) < n /\ c = SmallerChild(h, n, i)
  BY DEF EarlierChild
<1>1. \A j \in 0 .. n - 1 : triggersAt[h[j]] \in Nat
  BY <1>0, TimesAreNumbers DEF Arrays
<1>2. i \in Nat
  BY <1>0
<1>3. PICK l, r : l = leftChild(i) /\ r = rightChild(i)
  OBVIOUS
<1>4. l \in 1 .. n - 1 /\ r = l + 1 /\ i < l /\ parent(l) = i /\ parent(r) = i /\ l < n
  BY <1>0, <1>2, <1>3, ChildOf
<1>5. c = IF r < n /\ triggersAt[h[r]] < triggersAt[h[l]] THEN r ELSE l
  BY <1>0, <1>3 DEF SmallerChild
<1>6. c \in 1 .. n - 1 /\ i < c /\ parent(c) = i /\ l <= c
  BY <1>0, <1>4, <1>5
<1>7. l + 1 < leftChild(c)
  BY <1>4, <1>6 DEF leftChild
<1>8. ASSUME NEW j \in 1 .. n - 1, parent(j) = i PROVE triggersAt[h[c]] <= triggersAt[h[j]]
  <2>1. j = l \/ j = r
    BY <1>0, <1>3, <1>8, ParentOf
  <2>2. triggersAt[h[l]] \in Nat /\ triggersAt[h[j]] \in Nat
    BY <1>0, <1>1, <1>4
  <2>3. CASE r < n
    <3>1. triggersAt[h[r]] \in Nat
      BY <1>0, <1>1, <1>4, <2>3
    <3>. QED
      BY <1>5, <2>1, <2>2, <2>3, <3>1
  <2>4. CASE ~ (r < n)
    <3>1. j = l /\ c = l
      BY <1>0, <1>4, <1>5, <2>1, <2>4
    <3>. QED
      BY <2>2, <3>1
  <2>. QED
    BY <2>3, <2>4
<1>. QED
  BY <1>3, <1>6, <1>7, <1>8

\* What downheap() does with the hole at i.
Sunk(h, n, v, sink, i) ==
    IF leftChild(i) < n /\ triggersAt[h[SmallerChild(h, n, i)]] < triggersAt[v]
    THEN [sink[SmallerChild(h, n, i)] EXCEPT ![i] = h[SmallerChild(h, n, i)]]
    ELSE [h EXCEPT ![i] = v]

\* The hole sinks: downheap() is what its recursion says.
LEMMA SinkIsDefined ==
  ASSUME NEW n \in Nat, NEW h \in Arrays(n), NEW v \in Events
  PROVE  \E sink \in [0 .. n - 1 -> Arrays(n)] :
            \A k \in 0 .. n - 1 : sink[k] = Sunk(h, n, v, sink, k) /\ downheap(h, n, k, v) = sink[k]
<1>1. PICK D, X : D = 0 .. n - 1 /\ X = Arrays(n)
  OBVIOUS
<1>2. PICK r : r = [k \in D |-> n - k]
  OBVIOUS
<1>3. r \in [D -> 0 .. n] /\ \A j, k \in D : j < k => r[k] < r[j]
  <2>1. \A k \in D : n - k \in 0 .. n
    BY <1>1
  <2>. QED
    BY <1>1, <1>2, <2>1
<1>4. PICK B : B = [q \in D \X [D -> X] |-> Sunk(h, n, v, q[2], q[1])]
  OBVIOUS
<1>5. \A k \in D : \A f \in [D -> X] : B[<<k, f>>] = Sunk(h, n, v, f, k)
  BY <1>4
<1>6. ASSUME NEW k \in D, leftChild(k) < n, NEW j, j = SmallerChild(h, n, k)
      PROVE  j \in D /\ k < j /\ h[j] \in Events
  <2>1. EarlierChild(n, h, k, j)
    BY <1>1, <1>6 DEF EarlierChild
  <2>2. j \in 1 .. n - 1 /\ k < j
    BY <2>1, SmallerChildOf
  <2>. QED
    BY <1>1, <2>2 DEF Arrays
<1>7. ASSUME NEW k \in D, NEW f \in [D -> X] PROVE Sunk(h, n, v, f, k) \in X
  <2>. DEFINE j == SmallerChild(h, n, k)
  <2>1. CASE leftChild(k) < n /\ triggersAt[h[j]] < triggersAt[v]
    <3>1. PICK g, y : g = f[j] /\ y = h[j]
      OBVIOUS
    <3>2. g \in Arrays(n) /\ y \in Events /\ k \in 0 .. n - 1
      BY <1>1, <1>6, <2>1, <3>1
    <3>3. [g EXCEPT ![k] = y] \in Arrays(n)
      BY <3>2 DEF Arrays
    <3>. QED
      BY <1>1, <2>1, <3>1, <3>3 DEF Sunk
  <2>2. CASE ~ (leftChild(k) < n /\ triggersAt[h[j]] < triggersAt[v])
    <3>1. [h EXCEPT ![k] = v] \in Arrays(n)
      BY <1>1 DEF Arrays
    <3>. QED
      BY <1>1, <2>2, <3>1 DEF Sunk
  <2>. QED
    BY <2>1, <2>2
<1>8. B \in [D \X [D -> X] -> X]
  BY <1>4, <1>7
<1>9. LooksDown(D, X, r, B)
  <2>1. ASSUME NEW k \in D, NEW f \in [D -> X], NEW g \in [D -> X],
               \A j \in D : r[j] < r[k] => f[j] = g[j]
        PROVE  B[<<k, f>>] = B[<<k, g>>]
    <3>1. leftChild(k) < n => f[SmallerChild(h, n, k)] = g[SmallerChild(h, n, k)]
      BY <1>3, <1>6, <2>1
    <3>2. Sunk(h, n, v, f, k) = Sunk(h, n, v, g, k)
      BY <3>1 DEF Sunk
    <3>. QED
      BY <1>5, <3>2
  <2>. QED
    BY <2>1 DEF LooksDown
<1>10. h \in X
  BY <1>1
<1>11. PICK f : Recursive(f, D, X, B)
  BY <1>3, <1>8, <1>9, <1>10, RankedRecursion
<1>12. f \in [D -> X] /\ \A k \in D : f[k] = Sunk(h, n, v, f, k)
  BY <1>5, <1>11 DEF Recursive
<1>13. DOMAIN h = D
  BY <1>1 DEF Arrays
<1>. DEFINE Body(g) == [i \in DOMAIN h |->
                          LET j == SmallerChild(h, n, i)
                          IN  IF leftChild(i) < n /\ triggersAt[h[j]] < triggersAt[v] THEN [g[j] EXCEPT ![i] = h[j]]
                              ELSE [h EXCEPT ![i] = v]]
<1>14. f = Body(f)
  BY <1>12, <1>13 DEF Sunk
<1>15. PICK c : c = CHOOSE sink : sink = Body(sink)
  OBVIOUS
<1>16. \A k : downheap(h, n, k, v) = c[k]
  BY <1>15 DEF downheap
<1>17. c = Body(c)
  <2>. HIDE DEF Body
  <2>. QED
    BY <1>14, <1>15, Zenon
<1>18. \A k \in D : c[k] = Sunk(h, n, v, c, k)
  BY <1>13, <1>17 DEF Sunk
<1>. HIDE DEF Sunk
<1>19. c \in [D -> X]
  <2>1. PICK S : S = {k \in D : c[k] \in X}
    OBVIOUS
  <2>2. ASSUME NEW k \in D, \A j \in D : r[j] < r[k] => j \in S PROVE k \in S
    <3>1. PICK g : g = [j \in D |-> IF j \in S THEN c[j] ELSE h]
      OBVIOUS
    <3>2. g \in [D -> X]
      BY <1>10, <2>1, <3>1
    <3>3. leftChild(k) < n => c[SmallerChild(h, n, k)] = g[SmallerChild(h, n, k)]
      BY <1>3, <1>6, <2>2, <3>1
    <3>4. Sunk(h, n, v, c, k) = Sunk(h, n, v, g, k)
      BY <3>3 DEF Sunk
    <3>. QED
      BY <1>7, <1>18, <2>1, <3>2, <3>4
  <2>3. D \subseteq S
    BY <1>3, <2>2, RankedInduction
  <2>4. \A k \in D : c[k] \in X
    BY <2>1, <2>3
  <2>5. c = [k \in D |-> c[k]]
    BY <1>13, <1>17
  <2>. QED
    BY <2>4, <2>5
<1>. QED
  BY <1>1, <1>16, <1>18, <1>19

\* A value that may be too late for its place, but not too early, sinks to where it fits.
LEMMA DownheapIs ==
  ASSUME NEW n \in Nat, NEW h \in Arrays(n), Ordered(h, n), NEW v \in Events,
         NEW k \in 0 .. n - 1, k > 0 => triggersAt[h[parent(k)]] <= triggersAt[v], NEW d, d = downheap(h, n, k, v)
  PROVE  /\ d \in Arrays(n) /\ Ordered(d, n)
         /\ \A u : Count(d, u) = Count(h, u) - One(h[k] = u) + One(v = u)
<1>1. PICK D : D = 0 .. n - 1
  OBVIOUS
<1>2. PICK sink \in [0 .. n - 1 -> Arrays(n)] :
          \A i \in 0 .. n - 1 : sink[i] = Sunk(h, n, v, sink, i) /\ downheap(h, n, i, v) = sink[i]
  BY SinkIsDefined
<1>3. \A i \in D : triggersAt[h[i]] \in Nat /\ h[i] \in Events /\ sink[i] \in Arrays(n)
                   /\ \A j \in D : triggersAt[sink[i][j]] \in Nat
  <2>1. \A t \in Events : triggersAt[t] \in Nat
    BY TimesAreNumbers
  <2>. QED
    BY <1>1, <1>2, <2>1 DEF Arrays
<1>4. triggersAt[v] \in Nat
  BY TimesAreNumbers
<1>. DEFINE Before(i) == \A j \in D : j # i /\ j < leftChild(i) => sink[i][j] = h[j]
            Sorted(i) == \A j \in 1 .. n - 1 : j # i => triggersAt[sink[i][parent(j)]] <= triggersAt[sink[i][j]]
            Later(i) == sink[i][i] = v \/ triggersAt[h[i]] <= triggersAt[sink[i][i]]
            Same(i) == \A u : Count(sink[i], u) = Count(h, u) - One(h[i] = u) + One(v = u)
            S == {i \in D : Before(i) /\ Sorted(i) /\ Later(i) /\ Same(i)}
<1>5. \A j \in 1 .. n - 1 : j \in D /\ parent(j) \in D /\ parent(j) < j
  BY <1>1, ParentOf
<1>6. ASSUME NEW i \in D, \A j \in D : i < j => j \in S PROVE i \in S
  <2>. DEFINE ch == SmallerChild(h, n, i)
  <2>1. CASE leftChild(i) < n /\ triggersAt[h[ch]] < triggersAt[v]
    <3>1. PICK c, g, f : c = ch /\ g = sink[c] /\ f = sink[i]
      OBVIOUS
    <3>2. /\ c \in 1 .. n - 1 /\ i < c /\ parent(c) = i /\ leftChild(i) <= c
          /\ leftChild(i) + 1 < leftChild(c)
          /\ \A j \in 1 .. n - 1 : parent(j) = i => triggersAt[h[c]] <= triggersAt[h[j]]
      <4>1. EarlierChild(n, h, i, c)
        BY <1>1, <2>1, <3>1 DEF EarlierChild
      <4>. QED
        BY <4>1, SmallerChildOf
    <3>3. c \in D /\ Before(c) /\ Sorted(c) /\ Later(c) /\ Same(c)
      BY <1>6, <3>2, <1>5
    <3>4. f = [g EXCEPT ![i] = h[c]] /\ g \in Arrays(n) /\ triggersAt[h[c]] < triggersAt[v]
      BY <1>1, <1>2, <1>3, <2>1, <3>1, <3>3 DEF Sunk
    <3>5. f[i] = h[c] /\ \A j \in D : j # i => f[j] = g[j]
      BY <1>1, <3>4 DEF Arrays
    <3>6. /\ \A j \in D : j # c /\ j < leftChild(c) => g[j] = h[j]
          /\ \A j \in 1 .. n - 1 : j # c => triggersAt[g[parent(j)]] <= triggersAt[g[j]]
          /\ g[c] = v \/ triggersAt[h[c]] <= triggersAt[g[c]]
      BY <3>1, <3>3
    <3>7. leftChild(i) \in Nat /\ leftChild(c) \in Nat /\ i < leftChild(i)
      BY <1>1, <3>2, ChildOf
    <3>8. Before(i)
      BY <1>1, <3>1, <3>2, <3>5, <3>6, <3>7
    <3>9. ASSUME NEW j \in 1 .. n - 1, j # i PROVE triggersAt[f[parent(j)]] <= triggersAt[f[j]]
      <4>1. CASE parent(j) # i
        <5>1. j # c /\ f[j] = g[j] /\ f[parent(j)] = g[parent(j)]
          BY <1>5, <3>2, <3>5, <3>9, <4>1
        <5>. QED
          BY <3>6, <5>1
      <4>2. CASE j = c
        <5>1. f[j] = g[c] /\ f[parent(j)] = h[c]
          BY <1>5, <3>2, <3>5, <3>9, <4>2
        <5>2. triggersAt[g[c]] \in Nat /\ triggersAt[h[c]] \in Nat
          BY <1>3, <3>1, <3>3
        <5>. QED
          BY <1>4, <3>4, <3>6, <5>1, <5>2
      <4>3. CASE parent(j) = i /\ j # c
        <5>1. j <= leftChild(i) + 1 /\ j \in D /\ j \in Nat
          <6>1. j = leftChild(i) \/ j = rightChild(i)
            BY <4>3, ParentOf
          <6>2. i \in Nat /\ rightChild(i) = leftChild(i) + 1
            BY <1>1, ChildOf
          <6>. QED
            BY <1>1, <3>7, <6>1, <6>2
        <5>2. f[j] = h[j]
          BY <3>2, <3>5, <3>6, <3>7, <3>9, <4>3, <5>1
        <5>. QED
          BY <3>2, <3>5, <4>3, <5>2
      <4>. QED
        BY <4>1, <4>2, <4>3
    <3>10. Later(i)
      <4>1. triggersAt[h[i]] <= triggersAt[h[c]]
        BY <3>2 DEF Ordered
      <4>. QED
        BY <3>1, <3>5, <4>1
    <3>11. Same(i)
      <4>1. TAKE u
      <4>2. Count(g, u) = Count(h, u) - One(h[c] = u) + One(v = u)
        BY <3>1, <3>3
      <4>3. Count(f, u) = Count(g, u) - One(g[i] = u) + One(h[c] = u)
        <5>1. Replaced(n, g, i, h[c], f)
          BY <1>1, <1>3, <3>3, <3>4 DEF Replaced
        <5>. QED
          BY <5>1, CountExcept
      <4>4. g[i] = h[i]
        BY <1>1, <3>2, <3>6, <3>7
      <4>5. Count(h, u) \in Int /\ Count(g, u) \in Int
        BY <3>4, PlacesFinite
      <4>6. One(h[c] = u) \in Int /\ One(v = u) \in Int /\ One(h[i] = u) \in Int
        BY DEF One
      <4>. QED
        BY <3>1, <4>2, <4>3, <4>4, <4>5, <4>6
    <3>. QED
      BY <3>1, <3>8, <3>9, <3>10, <3>11
  <2>2. CASE ~ (leftChild(i) < n /\ triggersAt[h[ch]] < triggersAt[v])
    <3>1. PICK f : f = sink[i]
      OBVIOUS
    <3>2. f = [h EXCEPT ![i] = v]
      BY <1>1, <1>2, <2>2, <3>1 DEF Sunk
    <3>3. f[i] = v /\ \A j \in D : j # i => f[j] = h[j]
      BY <1>1, <3>2 DEF Arrays
    <3>4. ASSUME NEW j \in 1 .. n - 1, j # i PROVE triggersAt[f[parent(j)]] <= triggersAt[f[j]]
      <4>1. CASE parent(j) # i
        <5>1. f[j] = h[j] /\ f[parent(j)] = h[parent(j)]
          BY <1>5, <3>3, <3>4, <4>1
        <5>. QED
          BY <5>1 DEF Ordered
      <4>2. CASE parent(j) = i
        <5>1. leftChild(i) < n
          <6>1. j = leftChild(i) \/ j = rightChild(i)
            BY <4>2, ParentOf
          <6>2. i \in Nat
            BY <1>1
          <6>4. leftChild(i) \in Nat /\ rightChild(i) = leftChild(i) + 1
            BY <6>2, ChildOf
          <6>3. j \in Nat /\ j < n
            OBVIOUS
          <6>. QED
            BY <6>1, <6>3, <6>4
        <5>2. PICK c : c = ch
          OBVIOUS
        <5>3. c \in 1 .. n - 1 /\ triggersAt[h[c]] <= triggersAt[h[j]]
          <6>1. EarlierChild(n, h, i, c)
            BY <1>1, <5>1, <5>2 DEF EarlierChild
          <6>. QED
            BY <4>2, <6>1, SmallerChildOf
        <5>4. triggersAt[h[c]] \in Nat /\ triggersAt[h[j]] \in Nat /\ ~ (triggersAt[h[c]] < triggersAt[v])
          BY <1>3, <1>5, <2>2, <5>1, <5>2, <5>3
        <5>5. f[j] = h[j] /\ f[parent(j)] = v
          BY <1>5, <3>3, <3>4, <4>2
        <5>. QED
          BY <1>4, <5>3, <5>4, <5>5
      <4>. QED
        BY <4>1, <4>2
    <3>5. Later(i)
      BY <3>1, <3>3
    <3>6. Before(i)
      BY <3>1, <3>3
    <3>7. Same(i)
      <4>1. Replaced(n, h, i, v, f)
        BY <1>1, <3>2 DEF Replaced
      <4>2. TAKE u
      <4>3. Count(f, u) = Count(h, u) - One(h[i] = u) + One(v = u)
        BY <4>1, CountExcept
      <4>. QED
        BY <3>1, <4>3
    <3>. QED
      BY <3>1, <3>4, <3>5, <3>6, <3>7
  <2>. QED
    BY <2>1, <2>2
<1>7. k \in S
  <2>. HIDE DEF S
  <2>1. Downwards(n, D, S)
    BY <1>1, <1>6 DEF Downwards
  <2>. QED
    BY <1>1, <2>1, DownwardInduction
<1>8. d = sink[k] /\ d \in Arrays(n)
  BY <1>1, <1>2, <1>3
<1>9. Before(k) /\ Sorted(k) /\ Later(k) /\ Same(k)
  BY <1>7
<1>10. Ordered(d, n)
  <2>1. \A j \in 1 .. n - 1 : j # k => triggersAt[d[parent(j)]] <= triggersAt[d[j]]
    BY <1>8, <1>9
  <2>2. k > 0 => triggersAt[d[parent(k)]] <= triggersAt[d[k]]
    <3>1. HAVE k > 0
    <3>2. k \in 1 .. n - 1 /\ parent(k) \in D /\ parent(k) < k
      BY <1>5, <3>1
    <3>3. parent(k) < leftChild(k)
      <4>1. k \in Nat /\ k < leftChild(k)
        BY ChildOf
      <4>2. leftChild(k) \in Nat /\ parent(k) \in Nat
        BY <1>1, <3>2, ChildOf
      <4>. QED
        BY <3>2, <4>1, <4>2
    <3>4. d[parent(k)] = h[parent(k)]
      BY <1>1, <1>8, <1>9, <3>2, <3>3
    <3>5. triggersAt[h[parent(k)]] <= triggersAt[h[k]] /\ triggersAt[h[parent(k)]] <= triggersAt[v]
      BY <3>1, <3>2 DEF Ordered
    <3>6. PICK a, b, e : a = triggersAt[h[parent(k)]] /\ b = triggersAt[h[k]] /\ e = triggersAt[d[k]]
      OBVIOUS
    <3>7. a \in Nat /\ b \in Nat /\ e \in Nat
      BY <1>1, <1>3, <1>8, <3>2, <3>6
    <3>8. e = triggersAt[v] \/ b <= e
      BY <1>8, <1>9, <3>6
    <3>. QED
      BY <1>4, <3>4, <3>5, <3>6, <3>7, <3>8
  <2>. QED
    BY <2>1, <2>2 DEF Ordered
<1>. QED
  BY <1>8, <1>9, <1>10

\* What locate() finds from node on.
EventFound(h, n, e, found, node) ==
    LET In(child) == IF child < n /\ triggersAt[e] >= triggersAt[h[child]] THEN found[child] ELSE n
    IN  IF triggersAt[e] = triggersAt[h[node]] THEN node
        ELSE IF In(leftChild(node)) < n THEN In(leftChild(node))
        ELSE In(rightChild(node))

\* The search: locate() is what its recursion says.
LEMMA FoundIsDefined ==
  ASSUME NEW n \in Nat, NEW h \in Arrays(n), NEW e \in Events
  PROVE  \E found \in [0 .. n - 1 -> 0 .. n] :
            \A k \in 0 .. n - 1 : found[k] = EventFound(h, n, e, found, k) /\ locate(h, n, k, e) = found[k]
<1>1. PICK D, X : D = 0 .. n - 1 /\ X = 0 .. n
  OBVIOUS
<1>2. PICK r : r = [k \in D |-> n - k]
  OBVIOUS
<1>3. r \in [D -> 0 .. n] /\ \A j, k \in D : j < k => r[k] < r[j]
  <2>1. \A k \in D : n - k \in 0 .. n
    BY <1>1
  <2>. QED
    BY <1>1, <1>2, <2>1
<1>4. PICK B : B = [q \in D \X [D -> X] |-> EventFound(h, n, e, q[2], q[1])]
  OBVIOUS
<1>5. \A k \in D : \A f \in [D -> X] : B[<<k, f>>] = EventFound(h, n, e, f, k)
  BY <1>4
<1>6. \A k \in D : /\ leftChild(k) \in Nat /\ k < leftChild(k) /\ (leftChild(k) < n => leftChild(k) \in D)
                   /\ rightChild(k) \in Nat /\ k < rightChild(k) /\ (rightChild(k) < n => rightChild(k) \in D)
  <2>1. TAKE k \in D
  <2>2. k \in Nat
    BY <1>1
  <2>3. leftChild(k) \in Nat /\ k < leftChild(k) /\ rightChild(k) = leftChild(k) + 1
    BY <2>2, ChildOf
  <2>. QED
    BY <1>1, <2>2, <2>3
<1>7. ASSUME NEW k \in D, NEW f \in [D -> X] PROVE EventFound(h, n, e, f, k) \in X
  <2>1. k \in X /\ n \in X
    BY <1>1
  <2>. QED
    BY <1>6, <2>1 DEF EventFound
<1>8. B \in [D \X [D -> X] -> X]
  BY <1>4, <1>7
<1>9. ASSUME NEW k \in D, NEW f, NEW g, \A j \in D : k < j => f[j] = g[j]
      PROVE  EventFound(h, n, e, f, k) = EventFound(h, n, e, g, k)
  <2>1. /\ leftChild(k) < n => f[leftChild(k)] = g[leftChild(k)]
        /\ rightChild(k) < n => f[rightChild(k)] = g[rightChild(k)]
    BY <1>6, <1>9
  <2>. QED
    BY <2>1 DEF EventFound
<1>10. LooksDown(D, X, r, B)
  <2>1. ASSUME NEW k \in D, NEW f \in [D -> X], NEW g \in [D -> X],
               \A j \in D : r[j] < r[k] => f[j] = g[j]
        PROVE  B[<<k, f>>] = B[<<k, g>>]
    BY <1>3, <1>5, <1>9, <2>1
  <2>. QED
    BY <2>1 DEF LooksDown
<1>11. n \in X
  BY <1>1
<1>12. PICK f : Recursive(f, D, X, B)
  BY <1>3, <1>8, <1>10, <1>11, RankedRecursion
<1>13. f \in [D -> X] /\ \A k \in D : f[k] = EventFound(h, n, e, f, k)
  BY <1>5, <1>12 DEF Recursive
<1>14. DOMAIN h = D
  BY <1>1 DEF Arrays
<1>. DEFINE Body(g) == [node \in DOMAIN h |->
                          LET In(child) == IF child < n /\ triggersAt[e] >= triggersAt[h[child]] THEN g[child] ELSE n
                          IN  IF triggersAt[e] = triggersAt[h[node]] THEN node
                              ELSE IF In(leftChild(node)) < n THEN In(leftChild(node))
                              ELSE In(rightChild(node))]
<1>15. f = Body(f)
  BY <1>13, <1>14 DEF EventFound
<1>16. PICK c : c = CHOOSE found : found = Body(found)
  OBVIOUS
<1>17. \A k : locate(h, n, k, e) = c[k]
  BY <1>16 DEF locate
<1>18. c = Body(c)
  <2>. HIDE DEF Body
  <2>. QED
    BY <1>15, <1>16, Zenon
<1>19. \A k \in D : c[k] = EventFound(h, n, e, c, k)
  BY <1>14, <1>18 DEF EventFound
<1>. HIDE DEF EventFound
<1>20. c \in [D -> X]
  <2>1. PICK S : S = {k \in D : c[k] \in X}
    OBVIOUS
  <2>2. ASSUME NEW k \in D, \A j \in D : r[j] < r[k] => j \in S PROVE k \in S
    <3>1. PICK g : g = [j \in D |-> IF j \in S THEN c[j] ELSE n]
      OBVIOUS
    <3>2. g \in [D -> X]
      BY <1>11, <2>1, <3>1
    <3>3. \A j \in D : k < j => c[j] = g[j]
      BY <1>3, <2>2, <3>1
    <3>. QED
      BY <1>7, <1>9, <1>19, <2>1, <3>2, <3>3
  <2>3. D \subseteq S
    BY <1>3, <2>2, RankedInduction
  <2>4. \A k \in D : c[k] \in X
    BY <2>1, <2>3
  <2>5. c = [k \in D |-> c[k]]
    BY <1>14, <1>18
  <2>. QED
    BY <2>4, <2>5
<1>. QED
  BY <1>1, <1>17, <1>19, <1>20

\* The search finds an event of the time in the heap, if there is one.
LEMMA LocateIs ==
  ASSUME NEW n \in Nat, n > 0, NEW h \in Arrays(n), Ordered(h, n), NEW e \in Events,
         NEW l, l = locate(h, n, 0, e)
  PROVE  /\ l \in 0 .. n
         /\ l < n => triggersAt[h[l]] = triggersAt[e]
         /\ l = n => \A j \in 0 .. n - 1 : triggersAt[h[j]] # triggersAt[e]
<1>1. PICK D : D = 0 .. n - 1
  OBVIOUS
<1>2. PICK c \in [0 .. n - 1 -> 0 .. n] :
        \A k \in 0 .. n - 1 : c[k] = EventFound(h, n, e, c, k) /\ locate(h, n, k, e) = c[k]
  BY FoundIsDefined
<1>3. 0 \in D /\ l = c[0] /\ \A i \in D : c[i] \in 0 .. n /\ c[i] = EventFound(h, n, e, c, i)
  BY <1>1, <1>2
<1>4. triggersAt[e] \in Nat /\ \A i \in D : triggersAt[h[i]] \in Nat
  <2>1. \A t \in Events : triggersAt[t] \in Nat
    BY TimesAreNumbers
  <2>. QED
    BY <1>1, <2>1 DEF Arrays
<1>5. \A k \in D : /\ leftChild(k) \in Nat /\ k < leftChild(k) /\ (leftChild(k) < n => leftChild(k) \in D)
                   /\ rightChild(k) \in Nat /\ k < rightChild(k) /\ (rightChild(k) < n => rightChild(k) \in D)
  <2>1. TAKE k \in D
  <2>2. k \in Nat
    BY <1>1
  <2>3. leftChild(k) \in Nat /\ k < leftChild(k) /\ rightChild(k) = leftChild(k) + 1
    BY <2>2, ChildOf
  <2>. QED
    BY <1>1, <2>2, <2>3
<1>6. \A i \in D : c[i] < n => triggersAt[h[c[i]]] = triggersAt[e]
  <2>1. PICK S : S = {i \in D : c[i] < n => triggersAt[h[c[i]]] = triggersAt[e]}
    OBVIOUS
  <2>2. ASSUME NEW i \in D, \A j \in D : i < j => j \in S PROVE i \in S
    <3>1. ~ (n < n)
      OBVIOUS
    <3>3. c[i] = EventFound(h, n, e, c, i)
      BY <1>3
    <3>2. \/ c[i] = i /\ triggersAt[e] = triggersAt[h[i]]
          \/ leftChild(i) < n /\ c[i] = c[leftChild(i)]
          \/ rightChild(i) < n /\ c[i] = c[rightChild(i)]
          \/ c[i] = n
      BY <3>3 DEF EventFound
    <3>. QED
      BY <1>5, <2>1, <2>2, <3>1, <3>2
  <2>3. Downwards(n, D, S)
    BY <1>1, <2>2 DEF Downwards
  <2>. QED
    BY <2>1, <2>3, DownwardInduction
<1>7. \A i \in D : c[i] < n /\ triggersAt[h[i]] <= triggersAt[e] => c[0] < n
  <2>1. PICK S : S = {i \in D : c[i] < n /\ triggersAt[h[i]] <= triggersAt[e] => c[0] < n}
    OBVIOUS
  <2>2. ASSUME NEW i \in D, \A j \in D : j < i => j \in S PROVE i \in S
    <3>1. CASE i = 0
      BY <2>1, <3>1
    <3>2. CASE i # 0
      <4>1. PICK p : p = parent(i)
        OBVIOUS
      <4>2. i \in Nat /\ i > 0 /\ i < n
        BY <1>1, <3>2
      <4>3. p \in D /\ p < i /\ (i = leftChild(p) \/ i = rightChild(p))
        BY <1>1, <4>1, <4>2, ParentOf
      <4>4. triggersAt[h[p]] <= triggersAt[h[i]]
        BY <1>1, <4>1, <4>2 DEF Ordered
      <4>5. ASSUME c[i] < n, triggersAt[h[i]] <= triggersAt[e] PROVE c[p] < n /\ triggersAt[h[p]] <= triggersAt[e]
        <5>1. triggersAt[h[p]] <= triggersAt[e] /\ triggersAt[e] >= triggersAt[h[i]]
          BY <1>4, <4>3, <4>4, <4>5
        <5>2. p < n /\ p \in Nat
          BY <1>1, <4>3
        <5>3. CASE triggersAt[e] = triggersAt[h[p]]
          <6>1. c[p] = p
            BY <1>3, <4>3, <5>3 DEF EventFound
          <6>. QED
            BY <5>1, <5>2, <6>1
        <5>4. CASE triggersAt[e] # triggersAt[h[p]] /\ i = leftChild(p)
          <6>1. c[p] = c[i]
            BY <1>3, <4>2, <4>3, <4>5, <5>1, <5>4 DEF EventFound
          <6>. QED
            BY <4>5, <5>1, <6>1
        <5>5. CASE triggersAt[e] # triggersAt[h[p]] /\ i = rightChild(p)
          <6>1. c[p] = c[i] \/ c[p] < n
            BY <1>3, <4>2, <4>3, <4>5, <5>1, <5>5 DEF EventFound
          <6>. QED
            BY <4>5, <5>1, <6>1
        <5>. QED
          BY <4>3, <5>3, <5>4, <5>5
      <4>. QED
        BY <2>1, <2>2, <4>3, <4>5
    <3>. QED
      BY <3>1, <3>2
  <2>3. Upwards(n, D, S)
    BY <1>1, <2>2 DEF Upwards
  <2>. QED
    BY <2>1, <2>3, UpwardInduction
<1>8. ASSUME l = n, NEW j \in D PROVE triggersAt[h[j]] # triggersAt[e]
  <2>1. SUFFICES ASSUME triggersAt[h[j]] = triggersAt[e] PROVE FALSE
    OBVIOUS
  <2>2. c[j] = j
    BY <1>3, <2>1 DEF EventFound
  <2>3. c[j] < n /\ triggersAt[h[j]] <= triggersAt[e]
    BY <1>1, <1>4, <2>1, <2>2
  <2>. QED
    BY <1>3, <1>7, <1>8, <2>3
<1>. QED
  BY <1>1, <1>3, <1>6, <1>8

\* The first element is an earliest one.
LEMMA RootIsLeast ==
  ASSUME NEW n \in Nat, n > 0, NEW h \in Arrays(n), Ordered(h, n)
  PROVE  \A i \in 0 .. n - 1 : triggersAt[h[0]] <= triggersAt[h[i]]
<1>1. PICK D : D = 0 .. n - 1
  OBVIOUS
<1>2. 0 \in D /\ \A i \in D : triggersAt[h[i]] \in Nat
  <2>1. \A t \in Events : triggersAt[t] \in Nat
    BY TimesAreNumbers
  <2>. QED
    BY <1>1, <2>1 DEF Arrays
<1>3. PICK S : S = {i \in D : triggersAt[h[0]] <= triggersAt[h[i]]}
  OBVIOUS
<1>4. ASSUME NEW i \in D, \A j \in D : j < i => j \in S PROVE i \in S
  <2>1. CASE i = 0
    BY <1>2, <1>3, <2>1
  <2>2. CASE i # 0
    <3>1. PICK p : p = parent(i)
      OBVIOUS
    <3>2. i \in Nat /\ i > 0 /\ i < n
      BY <1>1, <2>2
    <3>3. p \in D /\ p < i
      BY <1>1, <3>1, <3>2, ParentOf
    <3>4. triggersAt[h[p]] <= triggersAt[h[i]]
      BY <1>1, <3>1, <3>2 DEF Ordered
    <3>5. triggersAt[h[0]] <= triggersAt[h[p]]
      BY <1>3, <1>4, <3>3
    <3>6. PICK x, y, z : x = triggersAt[h[0]] /\ y = triggersAt[h[p]] /\ z = triggersAt[h[i]]
      OBVIOUS
    <3>7. x \in Nat /\ y \in Nat /\ z \in Nat
      BY <1>2, <3>3, <3>6
    <3>. QED
      BY <1>3, <3>4, <3>5, <3>6, <3>7
  <2>. QED
    BY <2>1, <2>2
<1>5. Upwards(n, D, S)
  BY <1>1, <1>4 DEF Upwards
<1>. QED
  BY <1>1, <1>3, <1>5, UpwardInduction

\* A heap of n events.
Heap(n, h) == n \in Nat /\ h \in Arrays(n) /\ Ordered(h, n)
HeapInv == \E n \in Nat : Heap(n, a_elems)

\* What the removal of the element at loc leaves.
Remaining(h, last, loc) ==
    IF loc = last THEN Truncate(h, last)
    ELSE downheap(Truncate(h, last), last, loc, h[last])

\* The first element can be removed from every heap, the others from heaps of
\* five elements or fewer: there the last one is not earlier than the parent
\* of the one whose place it takes.
LEMMA RemainingIs ==
  ASSUME NEW last \in Nat, NEW n, n = last + 1, NEW h, Heap(n, h), NEW loc \in 0 .. last,
         loc = 0 \/ n <= 5, NEW g, g = Remaining(h, last, loc)
  PROVE  /\ Heap(last, g)
         /\ \A u : Count(g, u) = Count(h, u) - One(h[loc] = u)
<1>1. n \in Nat /\ n - 1 = last /\ h \in Arrays(n) /\ h \in Arrays(last + 1) /\ Ordered(h, n)
  BY DEF Heap
<1>2. PICK t : t = Truncate(h, last)
  OBVIOUS
<1>3. /\ t \in Arrays(last)
      /\ \A u : Count(t, u) = Count(h, u) - One(h[last] = u)
  BY <1>1, <1>2, CountTruncate
<1>4. \A i \in 0 .. last - 1 : t[i] = h[i]
  BY <1>2 DEF Truncate
<1>5. \A i \in 1 .. last : parent(i) \in Nat /\ parent(i) < i
  BY ParentOf
<1>6. Ordered(t, last)
  <2>1. ASSUME NEW i \in 1 .. last - 1 PROVE triggersAt[t[parent(i)]] <= triggersAt[t[i]]
    <3>1. t[i] = h[i] /\ t[parent(i)] = h[parent(i)]
      BY <1>4, <1>5
    <3>2. triggersAt[h[parent(i)]] <= triggersAt[h[i]]
      BY <1>1 DEF Ordered
    <3>. QED
      BY <3>1, <3>2
  <2>. QED
    BY <2>1 DEF Ordered
<1>7. CASE loc = last
  BY <1>2, <1>3, <1>6, <1>7 DEF Remaining, Heap
<1>8. CASE loc # last
  <2>1. loc \in 0 .. last - 1 /\ last > 0 /\ h[last] \in Events
    BY <1>1, <1>8 DEF Arrays
  <2>2. loc > 0 => triggersAt[t[parent(loc)]] <= triggersAt[h[last]]
    <3>1. HAVE loc > 0
    <3>2. loc \in 1 .. last - 1 /\ last \in 1 .. 4
      BY <2>1, <3>1
    <3>3. (parent(loc) = 0 /\ parent(last) \in {0, 1}) \/ (parent(loc) = 1 /\ parent(last) = 1)
      <4>1. loc \in {1, 2, 3} /\ last \in {2, 3, 4} /\ loc < last
        BY <3>2
      <4>2. parent(1) = 0 /\ parent(2) = 0 /\ parent(3) = 1 /\ parent(4) = 1
        BY DEF parent
      <4>. QED
        BY <4>1, <4>2
    <3>4. triggersAt[h[parent(last)]] <= triggersAt[h[last]] /\ triggersAt[h[0]] <= triggersAt[h[1]]
      <4>1. last \in 1 .. n - 1 /\ 1 \in 1 .. n - 1 /\ parent(1) = 0
        BY <1>1, <3>2 DEF parent
      <4>. QED
        BY <1>1, <4>1 DEF Ordered
    <3>5. triggersAt[h[0]] \in Nat /\ triggersAt[h[1]] \in Nat /\ triggersAt[h[last]] \in Nat
      <4>1. 0 \in 0 .. n - 1 /\ 1 \in 0 .. n - 1 /\ last \in 0 .. n - 1
        BY <1>1, <3>2
      <4>2. \A i \in 0 .. n - 1 : h[i] \in Events
        BY <1>1 DEF Arrays
      <4>. QED
        BY <4>1, <4>2, TimesAreNumbers
    <3>6. t[parent(loc)] = h[parent(loc)]
      BY <1>4, <1>5, <3>2
    <3>7. triggersAt[h[0]] <= triggersAt[h[last]]
      BY <3>3, <3>4, <3>5
    <3>. QED
      BY <3>3, <3>4, <3>6, <3>7
  <2>3. g = downheap(t, last, loc, h[last])
    BY <1>2, <1>8 DEF Remaining
  <2>4. PICK v : v = h[last]
    OBVIOUS
  <2>5. /\ g \in Arrays(last) /\ Ordered(g, last)
        /\ \A u : Count(g, u) = Count(t, u) - One(t[loc] = u) + One(v = u)
    BY <1>3, <1>6, <2>1, <2>2, <2>3, <2>4, DownheapIs
  <2>6. ASSUME NEW u PROVE Count(g, u) = Count(h, u) - One(h[loc] = u)
    <3>1. Count(h, u) \in Int /\ One(h[last] = u) \in Int /\ One(h[loc] = u) \in Int
      BY <1>1, PlacesFinite DEF One
    <3>2. t[loc] = h[loc]
      BY <1>4, <2>1
    <3>3. Count(t, u) = Count(h, u) - One(h[last] = u)
      BY <1>3
    <3>4. Count(g, u) = Count(t, u) - One(t[loc] = u) + One(v = u)
      BY <2>5
    <3>. QED
      BY <2>4, <3>1, <3>2, <3>3, <3>4
  <2>. QED
    BY <2>5, <2>6 DEF Heap
<1>. QED
  BY <1>7, <1>8

\* How often each event waits.
Waiting(h) == [t \in Events |-> Count(h, t)]

\* An event waits once more.
LEMMA OneMore ==
  ASSUME NEW h, NEW g, NEW x \in Events, \A u \in Events : Count(h, u) \in Nat,
         \A u : Count(g, u) = Count(h, u) + One(x = u)
  PROVE  Waiting(g) = [Waiting(h) EXCEPT ![x] = @ + 1]
<1>1. \A u \in Events : Count(g, u) = IF u = x THEN Count(h, u) + 1 ELSE Count(h, u)
  BY DEF One
<1>2. PICK f : f = Waiting(h)
  OBVIOUS
<1>3. f = [u \in Events |-> f[u]] /\ \A u \in Events : f[u] = Count(h, u)
  BY <1>2 DEF Waiting
<1>4. [f EXCEPT ![x] = @ + 1] = [u \in Events |-> IF u = x THEN f[u] + 1 ELSE f[u]]
  BY <1>3
<1>. QED
  BY <1>1, <1>2, <1>3, <1>4 DEF Waiting

\* An event waits once less.
LEMMA OneLess ==
  ASSUME NEW h, NEW g, NEW x \in Events, \A u \in Events : Count(h, u) \in Nat,
         \A u : Count(g, u) = Count(h, u) - One(x = u)
  PROVE  Waiting(g) = [Waiting(h) EXCEPT ![x] = @ - 1]
<1>1. \A u \in Events : Count(g, u) = IF u = x THEN Count(h, u) - 1 ELSE Count(h, u)
  BY DEF One
<1>2. PICK f : f = Waiting(h)
  OBVIOUS
<1>3. f = [u \in Events |-> f[u]] /\ \A u \in Events : f[u] = Count(h, u)
  BY <1>2 DEF Waiting
<1>4. [f EXCEPT ![x] = @ - 1] = [u \in Events |-> IF u = x THEN f[u] - 1 ELSE f[u]]
  BY <1>3
<1>. QED
  BY <1>1, <1>2, <1>3, <1>4 DEF Waiting

\* An event waits when it is somewhere in the array.
LEMMA DueEvents ==
  ASSUME NEW n, NEW h, Heap(n, h), NEW u
  PROVE  Count(h, u) \in Nat /\ (Count(h, u) > 0 <=> \E i \in 0 .. n - 1 : h[i] = u)
<1>1. n \in Nat /\ h \in Arrays(n)
  BY DEF Heap
<1>2. IsFiniteSet(Places(h, u)) /\ Count(h, u) \in Nat
  BY <1>1, PlacesFinite
<1>3. Count(h, u) = 0 <=> Places(h, u) = {}
  BY <1>2, FS_EmptySet DEF Count
<1>4. DOMAIN h = 0 .. n - 1
  BY <1>1 DEF Arrays
<1>. QED
  BY <1>2, <1>3, <1>4 DEF Places

\* The empty array is a heap without events.
LEMMA EmptyHeap == Heap(0, None) /\ \A u : Count(None, u) = 0
<1>1. None \in Arrays(0) /\ DOMAIN None = {}
  BY DEF None, Arrays
<1>2. Ordered(None, 0)
  BY DEF Ordered
<1>3. \A u : Places(None, u) = {}
  BY <1>1 DEF Places
<1>. QED
  BY <1>1, <1>2, <1>3, FS_EmptySet DEF Heap, Count

\* A new queue has no events.
LEMMA HeapStarts ==
  ASSUME HeapInit
  PROVE  HeapInv /\ Waiting(a_elems) = [t \in Events |-> 0]
<1>1. a_elems = None
  BY DEF HeapInit
<1>. QED
  BY <1>1, EmptyHeap DEF HeapInv, Waiting

\* addTimerEvent() adds the event and keeps the heap.
LEMMA AddEventStep ==
  ASSUME HeapInv, NEW t \in Events, addTimerEvent(t)
  PROVE  HeapInv' /\ Waiting(a_elems') = [Waiting(a_elems) EXCEPT ![t] = @ + 1]
<1>1. PICK n \in Nat : Heap(n, a_elems)
  BY DEF HeapInv
<1>2. a_elems \in Arrays(n) /\ Ordered(a_elems, n) /\ a_size = n
  BY <1>1, SizeOfArray DEF Heap, a_size
<1>3. PICK m : m = n + 1
  OBVIOUS
<1>4. m \in Nat /\ m - 1 = n
  BY <1>3
<1>5. PICK h : h = [i \in 0 .. n |-> IF i < n THEN a_elems[i] ELSE t]
  OBVIOUS
<1>6. h \in Arrays(n + 1) /\ \A u : Count(h, u) = Count(a_elems, u) + One(t = u)
  <2>1. Lengthened(n, a_elems, t, h)
    BY <1>2, <1>5 DEF Lengthened
  <2>. QED
    BY <2>1, CountExtended
<1>7. h[n] = t /\ \A i \in 0 .. n - 1 : h[i] = a_elems[i]
  BY <1>5
<1>8. Ordered(h, n)
  <2>1. ASSUME NEW i \in 1 .. n - 1 PROVE triggersAt[h[parent(i)]] <= triggersAt[h[i]]
    <3>1. parent(i) \in Nat /\ parent(i) < i
      BY ParentOf
    <3>2. h[i] = a_elems[i] /\ h[parent(i)] = a_elems[parent(i)]
      BY <1>7, <3>1
    <3>. QED
      BY <1>2, <3>2 DEF Ordered
  <2>. QED
    BY <2>1 DEF Ordered
<1>9. a_elems' = UpHeap(h, n, t)
  BY <1>2, <1>5 DEF addTimerEvent
<1>10. PICK g : g = UpHeap(h, n, t)
  OBVIOUS
<1>11. g \in Arrays(n + 1) /\ Ordered(g, n + 1) /\ \A u : Count(g, u) = Count(h, u)
  BY <1>6, <1>7, <1>8, <1>10, UpHeapIs
<1>12. Heap(m, a_elems')
  BY <1>3, <1>4, <1>9, <1>10, <1>11 DEF Heap
<1>13. \A u : Count(g, u) = Count(a_elems, u) + One(t = u)
  BY <1>6, <1>11
<1>14. Waiting(g) = [Waiting(a_elems) EXCEPT ![t] = @ + 1]
  <2>1. \A u \in Events : Count(a_elems, u) \in Nat
    BY <1>1, DueEvents
  <2>. QED
    BY <1>13, <2>1, OneMore
<1>. QED
  BY <1>4, <1>9, <1>10, <1>12, <1>14 DEF HeapInv

\* removeNextTimerEvent() takes away one of the earliest events and keeps the heap.
LEMMA NextStep ==
  ASSUME HeapInv, removeNextTimerEvent
  PROVE  /\ HeapInv'
         /\ \E t \in Events :
               /\ Count(a_elems, t) > 0
               /\ \A u \in Events : Count(a_elems, u) > 0 => triggersAt[t] <= triggersAt[u]
               /\ Waiting(a_elems') = [Waiting(a_elems) EXCEPT ![t] = @ - 1]
               /\ heapResult' = [op |-> "next", ok |-> TRUE, event |-> t]
<1>1. PICK n \in Nat : Heap(n, a_elems)
  BY DEF HeapInv
<1>2. a_elems \in Arrays(n) /\ Ordered(a_elems, n) /\ a_size = n
  BY <1>1, SizeOfArray DEF Heap, a_size
<1>3. n > 0
  BY <1>2 DEF removeNextTimerEvent
<1>4. PICK last : last = n - 1
  OBVIOUS
<1>5. last \in Nat /\ n = last + 1 /\ 0 \in 0 .. last
  BY <1>3, <1>4
<1>6. PICK t : t = a_elems[0]
  OBVIOUS
<1>7. t \in Events
  BY <1>2, <1>4, <1>5, <1>6 DEF Arrays
<1>8. PICK g : g = Remaining(a_elems, last, 0)
  OBVIOUS
<1>9. Heap(last, g) /\ \A u : Count(g, u) = Count(a_elems, u) - One(t = u)
  BY <1>1, <1>5, <1>6, <1>8, RemainingIs
<1>10. a_elems' = g
  <2>1. CASE last = 0
    <3>1. Truncate(a_elems, last) = None
      BY <2>1 DEF Truncate, None
    <3>. QED
      BY <1>2, <1>5, <1>8, <2>1, <3>1 DEF Remaining, removeNextTimerEvent
  <2>2. CASE last # 0
    BY <1>2, <1>4, <1>5, <1>8, <2>2 DEF Remaining, removeNextTimerEvent
  <2>. QED
    BY <2>1, <2>2
<1>11. HeapInv'
  BY <1>5, <1>9, <1>10 DEF HeapInv
<1>12. Count(a_elems, t) > 0
  BY <1>1, <1>4, <1>5, <1>6, DueEvents
<1>13. ASSUME NEW u \in Events, Count(a_elems, u) > 0 PROVE triggersAt[t] <= triggersAt[u]
  <2>1. PICK i \in 0 .. n - 1 : a_elems[i] = u
    BY <1>1, <1>13, DueEvents
  <2>. QED
    BY <1>2, <1>3, <1>6, <2>1, RootIsLeast
<1>14. Waiting(g) = [Waiting(a_elems) EXCEPT ![t] = @ - 1]
  <2>1. \A u \in Events : Count(a_elems, u) \in Nat
    BY <1>1, DueEvents
  <2>2. \A u : Count(g, u) = Count(a_elems, u) - One(t = u)
    BY <1>9
  <2>. QED
    BY <1>7, <2>1, <2>2, OneLess
<1>15. heapResult' = [op |-> "next", ok |-> TRUE, event |-> t]
  BY <1>6 DEF removeNextTimerEvent
<1>. QED
  BY <1>7, <1>10, <1>11, <1>12, <1>13, <1>14, <1>15

\* removeTimerEvent() takes an event of that time away if there is one, and keeps the
\* heap as long as the last element need not rise: up to five events.
LEMMA RemoveEventStep ==
  ASSUME HeapInv, NEW e \in Events, removeTimerEvent(e), RemovalLimit \in 0 .. 5
  PROVE  /\ HeapInv'
         /\ \/ /\ \E f \in Events : /\ Count(a_elems, f) > 0 /\ triggersAt[f] = triggersAt[e]
                                   /\ Waiting(a_elems') = [Waiting(a_elems) EXCEPT ![f] = @ - 1]
               /\ heapResult' = [op |-> "remove", ok |-> TRUE, event |-> e]
            \/ /\ \A f \in Events : Count(a_elems, f) > 0 => triggersAt[f] # triggersAt[e]
               /\ a_elems' = a_elems
               /\ heapResult' = [op |-> "remove", ok |-> FALSE, event |-> e]
<1>1. PICK n \in Nat : Heap(n, a_elems)
  BY DEF HeapInv
<1>2. a_elems \in Arrays(n) /\ Ordered(a_elems, n) /\ a_size = n
  BY <1>1, SizeOfArray DEF Heap, a_size
<1>3. n > 0 /\ n <= 5
  BY <1>2 DEF removeTimerEvent
<1>4. PICK last, loc : last = n - 1 /\ loc = locate(a_elems, n, 0, e)
  OBVIOUS
<1>5. last \in Nat /\ n = last + 1
  BY <1>3, <1>4
<1>6. /\ loc \in 0 .. n
      /\ loc < n => triggersAt[a_elems[loc]] = triggersAt[e]
      /\ loc = n => \A j \in 0 .. n - 1 : triggersAt[a_elems[j]] # triggersAt[e]
  BY <1>2, <1>3, <1>4, LocateIs
<1>7. heapResult' = [op |-> "remove", ok |-> loc < n, event |-> e]
  BY <1>2, <1>4 DEF removeTimerEvent
<1>8. CASE loc = n
  <2>1. a_elems' = a_elems
    BY <1>2, <1>4, <1>8 DEF removeTimerEvent
  <2>2. ~ (loc < n) /\ \A f \in Events : Count(a_elems, f) > 0 => triggersAt[f] # triggersAt[e]
    <3>1. ~ (loc < n)
      BY <1>8
    <3>2. \A f \in Events : Count(a_elems, f) > 0 => \E j \in 0 .. n - 1 : a_elems[j] = f
      BY <1>1, DueEvents
    <3>3. ASSUME NEW f \in Events, Count(a_elems, f) > 0 PROVE triggersAt[f] # triggersAt[e]
      <4>1. PICK j \in 0 .. n - 1 : a_elems[j] = f
        BY <3>2, <3>3
      <4>2. triggersAt[a_elems[j]] # triggersAt[e]
        BY <1>6, <1>8
      <4>. QED
        BY <4>1, <4>2
    <3>. QED
      BY <3>1, <3>3
  <2>3. heapResult' = [op |-> "remove", ok |-> FALSE, event |-> e]
    <3>1. (loc < n) = FALSE
      BY <1>8
    <3>. QED
      BY <1>7, <3>1
  <2>4. HeapInv'
    BY <1>1, <2>1 DEF HeapInv
  <2>. QED
    BY <2>1, <2>2, <2>3, <2>4
<1>9. CASE loc # n
  <2>1. loc \in 0 .. last /\ loc < n /\ loc \in 0 .. n - 1
    BY <1>5, <1>6, <1>9
  <2>2. PICK g, f : g = Remaining(a_elems, last, loc) /\ f = a_elems[loc]
    OBVIOUS
  <2>3. f \in Events /\ triggersAt[f] = triggersAt[e]
    BY <1>2, <1>6, <2>1, <2>2 DEF Arrays
  <2>4. Heap(last, g) /\ \A u : Count(g, u) = Count(a_elems, u) - One(f = u)
    BY <1>1, <1>3, <1>5, <2>1, <2>2, RemainingIs
  <2>5. a_elems' = g
    BY <1>2, <1>4, <1>9, <2>2 DEF Remaining, removeTimerEvent
  <2>6. Count(a_elems, f) > 0
    BY <1>1, <2>1, <2>2, DueEvents
  <2>7. Waiting(g) = [Waiting(a_elems) EXCEPT ![f] = @ - 1]
    <3>1. \A u \in Events : Count(a_elems, u) \in Nat
      BY <1>1, DueEvents
    <3>. QED
      BY <2>3, <2>4, <3>1, OneLess
  <2>8. HeapInv'
    BY <1>5, <2>4, <2>5 DEF HeapInv
  <2>9. heapResult' = [op |-> "remove", ok |-> TRUE, event |-> e]
    BY <1>7, <2>1
  <2>. QED
    BY <2>3, <2>5, <2>6, <2>7, <2>8, <2>9
<1>. QED
  BY <1>8, <1>9

\* An empty queue has no event to take away, and stays empty.
LEMMA RemoveFromEmptyStep ==
  ASSUME HeapInv, NEW e \in Events, removeFromEmptyQueue(e), ~ BlindRemovals
  PROVE  /\ HeapInv' /\ a_elems' = a_elems
         /\ \A f \in Events : ~ (Count(a_elems, f) > 0)
         /\ heapResult' = [op |-> "remove", ok |-> FALSE, event |-> e]
<1>1. PICK n \in Nat : Heap(n, a_elems)
  BY DEF HeapInv
<1>2. n = 0
  BY <1>1, SizeOfArray DEF Heap, a_size, removeFromEmptyQueue
<1>3. \A f \in Events : ~ (Count(a_elems, f) > 0)
  BY <1>1, <1>2, DueEvents
<1>4. a_elems' = a_elems /\ heapResult' = [op |-> "remove", ok |-> FALSE, event |-> e]
  BY DEF removeFromEmptyQueue
<1>5. HeapInv'
  BY <1>1, <1>4 DEF HeapInv
<1>. QED
  BY <1>3, <1>4, <1>5

\* The state of the queue that the heap implements.
LEMMA QueueState == [t \in Events |-> Cardinality({i \in DOMAIN a_elems : a_elems[i] = t})]
                    = Waiting(a_elems)
BY DEF Waiting, Count, Places

\* The events of the abstract queue in the next state.
LEMMA QueueNextState ==
  [t \in Events |-> Cardinality({i \in DOMAIN a_elems : a_elems[i] = t})]' = Waiting(a_elems')
BY DEF Waiting, Count, Places

\* Each operation keeps the heap and is one of the abstract queue.
LEMMA HeapStep ==
  ASSUME HeapInv, [HeapNext]_heapVars, RemovalLimit \in 0 .. 5, ~ BlindRemovals
  PROVE  HeapInv' /\ [Queue!Next]_(Queue!vars)
<1>. DEFINE W == Waiting(a_elems)
<1>1. \A t \in Events : W[t] = Count(a_elems, t)
  BY DEF Waiting
<1>2. ASSUME NEW t \in Events, addTimerEvent(t) PROVE HeapInv' /\ Queue!Next
  <2>1. HeapInv' /\ Waiting(a_elems') = [W EXCEPT ![t] = @ + 1]
    BY <1>2, AddEventStep
  <2>2. heapResult' = [op |-> "add", ok |-> TRUE, event |-> t]
    BY <1>2 DEF addTimerEvent
  <2>3. Queue!addTimerEvent(t)
    BY <2>1, <2>2, QueueState, QueueNextState DEF Queue!addTimerEvent
  <2>. QED
    BY <2>1, <2>3 DEF Queue!Next
<1>3. ASSUME NEW e \in Events, removeTimerEvent(e) PROVE HeapInv' /\ Queue!Next
  <2>1. \A f : f \in Queue!Alike(e) <=> f \in Events /\ Count(a_elems, f) > 0 /\ triggersAt[f] = triggersAt[e]
    BY <1>1, QueueState DEF Queue!Alike, Queue!Due
  <2>2. HeapInv'
    BY <1>3, RemoveEventStep
  <2>3. \/ /\ \E f \in Queue!Alike(e) : Waiting(a_elems') = [W EXCEPT ![f] = @ - 1]
           /\ heapResult' = [op |-> "remove", ok |-> TRUE, event |-> e]
        \/ /\ Queue!Alike(e) = {} /\ a_elems' = a_elems
           /\ heapResult' = [op |-> "remove", ok |-> FALSE, event |-> e]
    BY <1>3, <2>1, RemoveEventStep
  <2>4. Queue!removeTimerEvent(e)
    BY <2>3, QueueState, QueueNextState DEF Queue!removeTimerEvent
  <2>. QED
    BY <2>2, <2>4 DEF Queue!Next
<1>6. ASSUME NEW e \in Events, removeFromEmptyQueue(e) PROVE HeapInv' /\ Queue!Next
  <2>1. /\ HeapInv' /\ a_elems' = a_elems
        /\ \A f \in Events : ~ (Count(a_elems, f) > 0)
        /\ heapResult' = [op |-> "remove", ok |-> FALSE, event |-> e]
    BY <1>6, RemoveFromEmptyStep
  <2>2. Queue!Alike(e) = {}
    BY <1>1, <2>1, QueueState DEF Queue!Alike, Queue!Due
  <2>3. Queue!removeTimerEvent(e)
    BY <2>1, <2>2, QueueState, QueueNextState DEF Queue!removeTimerEvent
  <2>. QED
    BY <2>1, <2>3 DEF Queue!Next
<1>4. ASSUME removeNextTimerEvent PROVE HeapInv' /\ Queue!Next
  <2>1. HeapInv'
    BY <1>4, NextStep
  <2>2. PICK t \in Events :
           /\ Count(a_elems, t) > 0
           /\ \A u \in Events : Count(a_elems, u) > 0 => triggersAt[t] <= triggersAt[u]
           /\ Waiting(a_elems') = [W EXCEPT ![t] = @ - 1]
           /\ heapResult' = [op |-> "next", ok |-> TRUE, event |-> t]
    BY <1>4, NextStep
  <2>3. \A u : u \in Queue!Due <=> u \in Events /\ Count(a_elems, u) > 0
    BY <1>1, QueueState DEF Queue!Due
  <2>4. Queue!removeNextTimerEvent
    BY <2>2, <2>3, QueueState, QueueNextState DEF Queue!removeNextTimerEvent
  <2>. QED
    BY <2>1, <2>4 DEF Queue!Next
<1>5. CASE UNCHANGED heapVars \/ deleteEvent
  <2>1. a_elems' = a_elems /\ heapResult' = heapResult
    BY <1>5 DEF heapVars, deleteEvent
  <2>2. UNCHANGED Queue!vars
    BY <2>1, QueueState, QueueNextState DEF Queue!vars
  <2>3. HeapInv'
    BY <2>1 DEF HeapInv
  <2>. QED
    BY <2>2, <2>3
<1>. QED
  BY <1>2, <1>3, <1>4, <1>5, <1>6 DEF HeapNext

\* Whatever timer events a connection manager adds and removes, the array of its
\* heap stays in order.  removeTimerEvent() lets the last element sink from the
\* place of the removed one but never rise, which is enough up to five events.
THEOREM HeapStaysOrdered ==
  ASSUME RemovalLimit \in 0 .. 5, ~ BlindRemovals
  PROVE  HeapSpec => []HeapOrdered
<1>1. HeapInit => HeapInv
  BY HeapStarts
<1>2. HeapInv /\ [HeapNext]_heapVars => HeapInv'
  BY HeapStep
<1>3. HeapInv => HeapOrdered
  <2>1. HAVE HeapInv
  <2>2. PICK n \in Nat : Heap(n, a_elems)
    BY <2>1 DEF HeapInv
  <2>3. DOMAIN a_elems = 0 .. n - 1 /\ \A i \in 1 .. n - 1 : triggersAt[a_elems[parent(i)]] <= triggersAt[a_elems[i]]
    BY <2>2 DEF Heap, Arrays, Ordered
  <2>. QED
    BY <2>3 DEF HeapOrdered
<1>. QED
  BY <1>1, <1>2, <1>3, PTL DEF HeapSpec

\* The heap implements the queue of timer events: the next one that
\* removeNextTimerEvent() takes is one of the earliest, none is lost or taken
\* twice, and removeTimerEvent() takes an event of the time it is given if one
\* waits and answers whether one did, on queues up to the same size and on empty
\* ones unless it looks through a pointer to no event.
THEOREM HeapIsTimerQueue ==
  ASSUME RemovalLimit \in 0 .. 5, ~ BlindRemovals
  PROVE  HeapSpec => IsTimerQueue
<1>1. HeapInit => HeapInv /\ Queue!Init
  <2>1. HAVE HeapInit
  <2>2. HeapInv /\ Waiting(a_elems) = [t \in Events |-> 0]
    BY <2>1, HeapStarts
  <2>3. heapResult = [op |-> "none", ok |-> TRUE, event |-> NullEvent]
    BY <2>1 DEF HeapInit
  <2>4. Queue!Init
    BY <2>2, <2>3, QueueState DEF Queue!Init
  <2>. QED
    BY <2>2, <2>4
<1>2. HeapInv /\ [HeapNext]_heapVars => HeapInv' /\ [Queue!Next]_(Queue!vars)
  BY HeapStep
<1>. QED
  BY <1>1, <1>2, PTL DEF HeapSpec, IsTimerQueue, Queue!Spec

-----------------------------------------------------------------------------
(* The slots of the hash table.                                            *)

\* Going on by one, around the end.
LEMMA ModStep ==
  ASSUME NEW c \in Nat, c > 0, NEW x \in 0 .. c - 1
  PROVE  x % c = x /\ (x + 1) % c = IF x + 1 = c THEN 0 ELSE x + 1
<1>1. x % c = x
  OBVIOUS
<1>2. c % c = 0
  OBVIOUS
<1>3. CASE x + 1 = c
  BY <1>1, <1>2, <1>3
<1>4. CASE x + 1 < c
  OBVIOUS
<1>. QED
  BY <1>1, <1>3, <1>4

\* A remainder is a slot.
LEMMA ModType ==
  ASSUME NEW c \in Nat, c > 0, NEW x \in Nat
  PROVE  x % c \in 0 .. c - 1
OBVIOUS

\* The path of a key through a table of a capacity: where it starts, how it goes on.
LEMMA PathIsDefined ==
  ASSUME NEW c \in Nat, c > 0, NEW k \in Keys
  PROVE  /\ Path(c, k) \in [0 .. c + 5 -> 0 .. c - 1]
         /\ \A n \in 7 .. c + 5 : Path(c, k)[n] = (Path(c, k)[n - 1] + 1) % c
<1>0. PICK p : p = Path(c, k)
  OBVIOUS
<1>1. PICK X, a, m : X = 0 .. c - 1 /\ a = keyHash[k] % c /\ m = c + 5
  OBVIOUS
<1>2. a \in X /\ m \in Nat
  <2>1. keyHash[k] \in Nat
    BY TableAssumption
  <2>. QED
    BY <1>1, <2>1, ModType
<1>3. PICK F : F = [q \in (1 .. m) \X X |-> collidx(c, q[2], 2 * q[1] - 1)]
  OBVIOUS
<1>4. ASSUME NEW i \in 1 .. m, NEW x \in X
      PROVE  collidx(c, x, 2 * i - 1) \in X /\ F[<<i, x>>] = collidx(c, x, 2 * i - 1)
  <2>1. (IF 2 * i - 1 < 12 THEN x + (2 * i - 1) ELSE x + 1) \in Nat
    BY <1>1
  <2>2. collidx(c, x, 2 * i - 1) \in X
    BY <1>1, <2>1, ModType DEF collidx
  <2>. QED
    BY <1>3, <2>2
<1>5. F \in StepsOn(m, X)
  BY <1>3, <1>4 DEF StepsOn
<1>6. PICK f : Iteration(f, m, X, a, F)
  BY <1>2, <1>5, Iterated
<1>7. /\ f \in [0 .. m -> X] /\ f[0] = a
      /\ \A i \in 1 .. m : f[i] = collidx(c, f[i - 1], 2 * i - 1)
  <2>1. \A i \in 1 .. m : f[i - 1] \in X
    BY <1>2, <1>6 DEF Iteration
  <2>. QED
    BY <1>4, <1>6, <2>1 DEF Iteration
<1>. DEFINE Body(g) == [n \in 0 .. c + 5 |->
                          IF n = 0 THEN keyHash[k] % c ELSE collidx(c, g[n - 1], 2 * n - 1)]
<1>8. f = Body(f)
  <2>1. \A n \in 0 .. m : f[n] = IF n = 0 THEN a ELSE collidx(c, f[n - 1], 2 * n - 1)
    <3>1. \A n \in 0 .. m : n = 0 \/ n \in 1 .. m
      BY <1>2
    <3>. QED
      BY <1>7, <3>1
  <2>2. f = [n \in 0 .. m |-> f[n]]
    BY <1>7
  <2>. QED
    BY <1>1, <2>1, <2>2
<1>9. p = CHOOSE at : at = Body(at)
  BY <1>0 DEF Path
<1>10. p = Body(p)
  <2>. HIDE DEF Body
  <2>. QED
    BY <1>8, <1>9, Zenon
<1>11. /\ DOMAIN p = 0 .. m /\ p[0] = a
       /\ \A i \in 1 .. m : p[i] = collidx(c, p[i - 1], 2 * i - 1)
  <2>1. p = [n \in 0 .. m |-> IF n = 0 THEN a ELSE collidx(c, p[n - 1], 2 * n - 1)]
    BY <1>1, <1>10
  <2>2. 0 \in 0 .. m /\ \A n \in 1 .. m : n \in 0 .. m /\ n # 0
    BY <1>2
  <2>. QED
    BY <2>1, <2>2
<1>12. \A i \in 0 .. m : p[i] \in X
  <2>1. PICK S : S = {i \in 0 .. m : p[i] \in X}
    OBVIOUS
  <2>2. 0 \in S
    BY <1>2, <1>11, <2>1
  <2>3. ASSUME NEW i \in 0 .. m - 1, i \in S PROVE i + 1 \in S
    <3>1. PICK j : j = i + 1
      OBVIOUS
    <3>2. j \in 1 .. m /\ j - 1 = i
      BY <1>2, <3>1
    <3>3. p[j] = collidx(c, p[i], 2 * j - 1) /\ p[i] \in X
      BY <1>11, <2>1, <2>3, <3>2
    <3>4. p[j] \in X
      BY <1>4, <3>2, <3>3
    <3>5. j \in 0 .. m
      BY <3>2
    <3>. QED
      BY <2>1, <3>1, <3>4, <3>5
  <2>4. \A i \in 0 .. m : i \in S
    BY <1>2, <2>2, <2>3, CountingUp
  <2>. QED
    BY <2>1, <2>4
<1>13. p \in [0 .. m -> X]
  <2>1. p = [i \in 0 .. m |-> p[i]]
    BY <1>1, <1>10
  <2>. QED
    BY <1>12, <2>1
<1>14. ASSUME NEW n \in 7 .. c + 5 PROVE p[n] = (p[n - 1] + 1) % c
  <2>1. n \in 1 .. m /\ ~ (2 * n - 1 < 12)
    BY <1>1
  <2>. QED
    BY <1>11, <2>1 DEF collidx
<1>. QED
  BY <1>0, <1>1, <1>13, <1>14

\* From the sixth step on the path visits every slot.
LEMMA PathCovers ==
  ASSUME NEW c \in Nat, c > 0, NEW k \in Keys, NEW i \in 0 .. c - 1
  PROVE  \E n \in 0 .. c + 5 : Path(c, k)[n] = i
<1>1. PICK p, s : p = Path(c, k) /\ s = p[6]
  OBVIOUS
<1>2. /\ p \in [0 .. c + 5 -> 0 .. c - 1] /\ s \in 0 .. c - 1
      /\ \A n \in 7 .. c + 5 : p[n] = (p[n - 1] + 1) % c
  <2>1. 6 \in 0 .. c + 5
    OBVIOUS
  <2>. QED
    BY <1>1, <2>1, PathIsDefined
<1>. DEFINE AfterStep(m) == IF s + m < c THEN s + m ELSE s + m - c
            S == {m \in 0 .. c - 1 : p[6 + m] = AfterStep(m)}
<1>3. 0 \in S
  BY <1>1, <1>2
<1>4. ASSUME NEW m \in 0 .. c - 2, m \in S PROVE m + 1 \in S
  <2>1. PICK n, x : n = 7 + m /\ x = p[6 + m]
    OBVIOUS
  <2>2. n \in 7 .. c + 5 /\ n - 1 = 6 + m
    BY <2>1
  <2>3. p[n] = (x + 1) % c /\ x = AfterStep(m)
    BY <1>2, <1>4, <2>1, <2>2
  <2>4. x \in 0 .. c - 1
    <3>1. 6 + m \in 0 .. c + 5
      OBVIOUS
    <3>. QED
      BY <1>2, <2>1, <3>1
  <2>5. (x + 1) % c = IF x + 1 = c THEN 0 ELSE x + 1
    BY <2>4, ModStep
  <2>6. p[n] = AfterStep(m + 1)
    <3>1. s \in Nat /\ m \in Nat /\ s < c /\ m + 1 < c
      BY <1>2
    <3>2. CASE s + m < c
      <4>1. x = s + m
        BY <2>3, <3>2
      <4>. QED
        BY <2>3, <2>5, <3>1, <3>2, <4>1
    <3>3. CASE ~ (s + m < c)
      <4>1. x = s + m - c
        BY <2>3, <3>3
      <4>. QED
        BY <2>3, <2>5, <3>1, <3>3, <4>1
    <3>. QED
      BY <3>2, <3>3
  <2>. QED
    BY <2>1, <2>6
<1>5. \A m \in 0 .. c - 1 : m \in S
  <2>1. PICK l : l = c - 1
    OBVIOUS
  <2>2. l \in Nat /\ l - 1 = c - 2
    BY <2>1
  <2>. HIDE DEF S
  <2>3. \A m \in 0 .. l : m \in S
    BY <1>3, <1>4, <2>2, CountingUp
  <2>. QED
    BY <2>1, <2>3
<1>6. PICK m : m = IF s <= i THEN i - s ELSE i + c - s
  OBVIOUS
<1>7. m \in 0 .. c - 1 /\ AfterStep(m) = i
  BY <1>2, <1>6
<1>8. p[6 + m] = i /\ 6 + m \in 0 .. c + 5
  BY <1>5, <1>7
<1>. QED
  BY <1>1, <1>8

-----------------------------------------------------------------------------
(* The tables, and what an operation leaves of them.                       *)

Assocs == [key : Keys, value : Values]
Slots == {FreeSlot, Deleted} \cup Assocs
Tables(c) == [slots : [0 .. c - 1 -> Slots], used : Nat, deleted : Nat]

\* A slot is free, marked, or used by an association.
LEMMA SlotKinds ==
  /\ \A s \in Slots : s = FreeSlot \/ s = Deleted \/ s \in Assocs
  /\ FreeSlot # Deleted
  /\ \A a \in Assocs : a # FreeSlot /\ a # Deleted /\ usedSlot(a)
  /\ \A s \in Slots : usedSlot(s) => s \in Assocs
BY TableAssumption DEF Slots, Assocs, usedSlot

\* The counters are right, and a slot is free.
TakenSlots(c, t) == {i \in 0 .. c - 1 : t.slots[i] # FreeSlot}
Marks(c, t) == {i \in 0 .. c - 1 : t.slots[i] = Deleted}
Counted(c, t) ==
    /\ t.used = Cardinality(TakenSlots(c, t)) /\ t.deleted = Cardinality(Marks(c, t))
    /\ t.used < c

\* No key is there twice, and each is on its path before the first free slot.
Distinct(c, t) ==
    \A i, j \in 0 .. c - 1 :
        usedSlot(t.slots[i]) /\ usedSlot(t.slots[j]) /\ t.slots[i].key = t.slots[j].key => i = j
OnPath(c, t, i, k) ==
    \E n \in 0 .. c + 5 : /\ Path(c, k)[n] = i
                          /\ \A m \in 0 .. n - 1 : t.slots[Path(c, k)[m]] # FreeSlot
Reachable(c, t) ==
    \A i \in 0 .. c - 1 : usedSlot(t.slots[i]) => OnPath(c, t, i, t.slots[i].key)

Good(c, t) ==
    /\ c \in Nat /\ c > 0 /\ t \in Tables(c)
    /\ Counted(c, t) /\ Distinct(c, t) /\ Reachable(c, t)

\* The capacity of a table is the size of its array.
LEMMA CapacityOf ==
  ASSUME NEW c \in Nat, c > 0, NEW t \in Tables(c)
  PROVE  a_capacity(t) = c
<1>1. DOMAIN t.slots = 0 .. c - 1
  BY DEF Tables
<1>2. PICK m : m = c - 1
  OBVIOUS
<1>3. m \in Int /\ m - 0 + 1 = c /\ ~ (0 > m)
  BY <1>2
<1>4. Cardinality(0 .. m) = IF 0 > m THEN 0 ELSE m - 0 + 1
  BY <1>3, FS_Interval
<1>. QED
  BY <1>1, <1>2, <1>3, <1>4 DEF a_capacity

\* The slots of a table are finitely many.
LEMMA PartsOfTable ==
  ASSUME NEW c \in Nat, NEW t
  PROVE  /\ IsFiniteSet(TakenSlots(c, t)) /\ Cardinality(TakenSlots(c, t)) \in Nat
         /\ IsFiniteSet(Marks(c, t)) /\ Cardinality(Marks(c, t)) \in Nat
<1>1. IsFiniteSet(0 .. c - 1)
  BY FS_Interval
<1>2. TakenSlots(c, t) \subseteq 0 .. c - 1 /\ Marks(c, t) \subseteq 0 .. c - 1
  BY DEF TakenSlots, Marks
<1>. QED
  BY <1>1, <1>2, FS_Subset, FS_CardinalityType

\* The search ends: there is a first free slot on the path of every key.
LEMMA FirstFree ==
  ASSUME NEW c, NEW t, Good(c, t), NEW k \in Keys
  PROVE  \E f \in 0 .. c + 5 :
            /\ Met(t, k)[f] = FreeSlot
            /\ \A m \in 0 .. f - 1 : Met(t, k)[m] # FreeSlot
            /\ Steps(t, k) = 0 .. f
<1>1. c \in Nat /\ c > 0 /\ t \in Tables(c) /\ a_capacity(t) = c
  BY CapacityOf DEF Good
<1>2. PICK i \in 0 .. c - 1 : t.slots[i] = FreeSlot
  <2>1. SUFFICES ASSUME \A i \in 0 .. c - 1 : t.slots[i] # FreeSlot PROVE FALSE
    OBVIOUS
  <2>2. TakenSlots(c, t) = 0 .. c - 1
    BY <2>1 DEF TakenSlots
  <2>3. DOMAIN t.slots = 0 .. c - 1
    BY <1>1 DEF Tables
  <2>4. Cardinality(TakenSlots(c, t)) = c
    BY <1>1, <2>2, <2>3 DEF a_capacity
  <2>. QED
    BY <1>1, <2>4 DEF Good, Counted
<1>3. PICK N, p : N = c + 5 /\ p = Path(c, k)
  OBVIOUS
<1>4. N \in Nat /\ p \in [0 .. N -> 0 .. c - 1]
  <2>1. Path(c, k) \in [0 .. c + 5 -> 0 .. c - 1]
    BY <1>1, PathIsDefined
  <2>. QED
    BY <1>1, <1>3, <2>1
<1>5. PICK n \in 0 .. N : p[n] = i
  BY <1>1, <1>3, PathCovers
<1>6. Met(t, k) = [m \in 0 .. N |-> t.slots[p[m]]]
  BY <1>1, <1>3 DEF Met
<1>7. PICK F, f : F = {m \in 0 .. N : t.slots[p[m]] = FreeSlot} /\ f = Min(F)
  OBVIOUS
<1>8. f \in F /\ \A m \in F : f <= m
  BY <1>2, <1>5, <1>7, MinOfSet
<1>9. \A m \in 0 .. f - 1 : m \in 0 .. N /\ t.slots[p[m]] # FreeSlot
  <2>1. f \in 0 .. N
    BY <1>7, <1>8
  <2>2. \A m \in 0 .. f - 1 : m \in 0 .. N /\ ~ (f <= m)
    BY <1>4, <2>1
  <2>. QED
    BY <1>7, <1>8, <2>2
<1>10. ASSUME NEW n1 PROVE n1 \in Steps(t, k) <=> n1 \in 0 .. f
  <2>1. n1 \in Steps(t, k) <=> n1 \in 0 .. N /\ \A m \in 0 .. n1 - 1 : Met(t, k)[m] # FreeSlot
    BY <1>6 DEF Steps
  <2>2. CASE n1 \in 0 .. f
    <3>1. n1 \in 0 .. N /\ \A m \in 0 .. n1 - 1 : m \in 0 .. f - 1
      <4>1. f \in 0 .. N
        BY <1>7, <1>8
      <4>. QED
        BY <1>4, <2>2, <4>1
    <3>. QED
      BY <1>6, <1>9, <2>1, <2>2, <3>1
  <2>3. CASE n1 \in 0 .. N /\ n1 \notin 0 .. f
    <3>1. f \in 0 .. n1 - 1 /\ f \in 0 .. N
      BY <1>4, <1>7, <1>8, <2>3
    <3>2. Met(t, k)[f] = FreeSlot
      BY <1>6, <1>7, <1>8, <3>1
    <3>. QED
      BY <2>1, <2>3, <3>1, <3>2
  <2>. QED
    BY <2>1, <2>2, <2>3
<1>11. f \in 0 .. c + 5 /\ Met(t, k)[f] = FreeSlot
  BY <1>3, <1>6, <1>7, <1>8
<1>12. \A m \in 0 .. f - 1 : Met(t, k)[m] # FreeSlot
  BY <1>6, <1>9
<1>13. Steps(t, k) = 0 .. f
  BY <1>10
<1>. QED
  BY <1>11, <1>12, <1>13

\* locate() finds a key wherever it is.
LEMMA LocatedIs ==
  ASSUME NEW c, NEW t, Good(c, t), NEW k \in Keys
  PROVE  Located(t, k) = {i \in 0 .. c - 1 : Holds(t.slots[i], k)}
<1>1. c \in Nat /\ c > 0 /\ t \in Tables(c) /\ a_capacity(t) = c
  BY CapacityOf DEF Good
<1>2. PICK p, N, M : p = Path(c, k) /\ N = c + 5 /\ M = Met(t, k)
  OBVIOUS
<1>3. N \in Nat /\ p \in [0 .. N -> 0 .. c - 1]
  <2>1. Path(c, k) \in [0 .. c + 5 -> 0 .. c - 1]
    BY <1>1, PathIsDefined
  <2>. QED
    BY <1>1, <1>2, <2>1
<1>4. M = [m \in 0 .. N |-> t.slots[p[m]]]
  BY <1>1, <1>2 DEF Met
<1>5. Located(t, k) = {p[n] : n \in {m \in Steps(t, k) : Holds(M[m], k)}}
  BY <1>1, <1>2 DEF Located
<1>6. \A n : n \in Steps(t, k) <=> n \in 0 .. N /\ \A m \in 0 .. n - 1 : M[m] # FreeSlot
  BY <1>2, <1>4 DEF Steps
<1>7. ASSUME NEW i \in Located(t, k) PROVE i \in 0 .. c - 1 /\ Holds(t.slots[i], k)
  BY <1>3, <1>4, <1>5, <1>6, <1>7
<1>8. ASSUME NEW i \in 0 .. c - 1, Holds(t.slots[i], k) PROVE i \in Located(t, k)
  <2>1. OnPath(c, t, i, k)
    BY <1>8 DEF Good, Reachable, Holds
  <2>2. PICK n \in 0 .. N : p[n] = i /\ \A m \in 0 .. n - 1 : t.slots[p[m]] # FreeSlot
    BY <1>2, <2>1 DEF OnPath
  <2>3. \A m \in 0 .. n - 1 : M[m] # FreeSlot
    BY <1>3, <1>4, <2>2
  <2>4. n \in Steps(t, k) /\ Holds(M[n], k)
    BY <1>4, <1>6, <1>8, <2>2, <2>3
  <2>. QED
    BY <1>5, <2>2, <2>4
<1>. QED
  BY <1>7, <1>8

\* A slot that is taken does not become free: every key stays on its path.
LEMMA StaysOnPath ==
  ASSUME NEW c \in Nat, c > 0, NEW t, NEW g, NEW k \in Keys, NEW i,
         \A j \in 0 .. c - 1 : t.slots[j] # FreeSlot => g.slots[j] # FreeSlot,
         OnPath(c, t, i, k)
  PROVE  OnPath(c, g, i, k)
<1>1. PICK p : p = Path(c, k)
  OBVIOUS
<1>2. PICK n \in 0 .. c + 5 : p[n] = i /\ \A m \in 0 .. n - 1 : t.slots[p[m]] # FreeSlot
  BY <1>1 DEF OnPath
<1>3. p \in [0 .. c + 5 -> 0 .. c - 1]
  BY <1>1, PathIsDefined
<1>4. ASSUME NEW m \in 0 .. n - 1 PROVE p[m] \in 0 .. c - 1
  <2>1. m \in 0 .. c + 5
    BY <1>2
  <2>. QED
    BY <1>3, <2>1
<1>5. \A m \in 0 .. n - 1 : g.slots[p[m]] # FreeSlot
  BY <1>2, <1>4
<1>. QED
  BY <1>1, <1>2, <1>5 DEF OnPath

\* What an insertion into slot j leaves.
Placed(c, t, a, j, g) ==
    /\ j \in 0 .. c - 1 /\ ~ usedSlot(t.slots[j]) /\ g.slots = [t.slots EXCEPT ![j] = a]
    /\ g.used <= t.used + 1 /\ g.deleted <= t.deleted
    /\ g.used - g.deleted = t.used - t.deleted + 1

\* insert() puts an association that is not there on its path.
LEMMA InsertIs ==
  ASSUME NEW c, NEW t, Good(c, t), NEW a \in Assocs, Located(t, a.key) = {}, t.used + 1 < c,
         NEW g, g = insert(t, a)
  PROVE  Good(c, g) /\ \E j : Placed(c, t, a, j, g)
<1>1. c \in Nat /\ c > 0 /\ t \in Tables(c) /\ a_capacity(t) = c
  BY CapacityOf DEF Good
<1>2. PICK k, p : k = a.key /\ p = Path(c, k)
  OBVIOUS
<1>3. k \in Keys
  BY <1>2 DEF Assocs
<1>4. p \in [0 .. c + 5 -> 0 .. c - 1]
  BY <1>1, <1>2, <1>3, PathIsDefined
<1>5. PICK f \in 0 .. c + 5 :
         /\ Met(t, k)[f] = FreeSlot
         /\ \A m \in 0 .. f - 1 : Met(t, k)[m] # FreeSlot
         /\ Steps(t, k) = 0 .. f
  BY <1>3, FirstFree
<1>6. Met(t, k) = [m \in 0 .. c + 5 |-> t.slots[p[m]]]
  BY <1>1, <1>2 DEF Met
<1>7. PICK marks, free : /\ marks = {n \in Steps(t, k) : Met(t, k)[n] = Deleted}
                         /\ free = {n \in Steps(t, k) : Met(t, k)[n] = FreeSlot}
  OBVIOUS
<1>8. PICK at : at = IF marks = {} THEN CHOOSE n \in free : TRUE
                     ELSE CHOOSE n \in marks : \A m \in marks : m <= n
  OBVIOUS
<1>9. PICK j : j = p[at]
  OBVIOUS
<1>10. g = [slots |-> [t.slots EXCEPT ![j] = a],
            used |-> IF marks = {} THEN t.used + 1 ELSE t.used,
            deleted |-> IF marks = {} THEN t.deleted ELSE t.deleted - 1]
  BY <1>1, <1>2, <1>7, <1>8, <1>9 DEF insert
<1>11. /\ at \in 0 .. f
       /\ t.slots[j] = IF marks = {} THEN FreeSlot ELSE Deleted
  <2>1. marks \subseteq 0 .. f /\ free \subseteq 0 .. f /\ f \in free /\ f \in Nat
    BY <1>5, <1>7
  <2>2. CASE marks = {}
    <3>1. at \in free
      BY <1>8, <2>1, <2>2
    <3>. QED
      BY <1>5, <1>6, <1>7, <1>9, <2>1, <2>2, <3>1
  <2>3. CASE marks # {}
    <3>1. \E n \in marks : \A m \in marks : m <= n
      BY <2>1, <2>3, MaxOfSet
    <3>2. at \in marks
      BY <1>8, <2>3, <3>1
    <3>3. at \in 0 .. f /\ at \in 0 .. c + 5 /\ Met(t, k)[at] = Deleted
      BY <1>1, <1>5, <1>7, <3>2
    <3>. QED
      BY <1>6, <1>9, <2>3, <3>3
  <2>. QED
    BY <2>2, <2>3
<1>12. j \in 0 .. c - 1
  <2>1. at \in 0 .. c + 5
    BY <1>1, <1>11
  <2>. QED
    BY <1>4, <1>9, <2>1
<1>13. a \in Slots /\ usedSlot(a) /\ a # FreeSlot /\ a # Deleted /\ FreeSlot # Deleted
  BY SlotKinds DEF Slots
<1>14. /\ t.slots \in [0 .. c - 1 -> Slots] /\ t.used \in Nat /\ t.deleted \in Nat
       /\ t.used = Cardinality(TakenSlots(c, t)) /\ t.deleted = Cardinality(Marks(c, t))
  BY <1>1 DEF Tables, Good, Counted
<1>15. /\ g.slots \in [0 .. c - 1 -> Slots] /\ g.slots[j] = a
       /\ \A i \in 0 .. c - 1 : i # j => g.slots[i] = t.slots[i]
  <2>1. g.slots = [t.slots EXCEPT ![j] = a]
    BY <1>10
  <2>. QED
    BY <1>12, <1>13, <1>14, <2>1
<1>16. /\ IsFiniteSet(TakenSlots(c, t)) /\ IsFiniteSet(Marks(c, t))
  BY <1>1, PartsOfTable
<1>17. /\ g.used \in Nat /\ g.deleted \in Nat
       /\ g.used = Cardinality(TakenSlots(c, g)) /\ g.deleted = Cardinality(Marks(c, g))
       /\ g.used <= t.used + 1 /\ g.deleted <= t.deleted
       /\ g.used - g.deleted = t.used - t.deleted + 1
  <2>1. CASE marks = {}
    <3>1. g.used = t.used + 1 /\ g.deleted = t.deleted
      BY <1>10, <2>1
    <3>2. t.slots[j] = FreeSlot
      BY <1>11, <2>1
    <3>3. TakenSlots(c, g) = TakenSlots(c, t) \cup {j} /\ j \notin TakenSlots(c, t)
      BY <1>12, <1>13, <1>15, <3>2 DEF TakenSlots
    <3>4. Marks(c, g) = Marks(c, t)
      BY <1>12, <1>13, <1>15, <3>2 DEF Marks
    <3>5. Cardinality(TakenSlots(c, g)) = t.used + 1
      BY <1>14, <1>16, <3>3, FS_AddElement
    <3>. QED
      BY <1>14, <3>1, <3>4, <3>5
  <2>2. CASE marks # {}
    <3>1. g.used = t.used /\ g.deleted = t.deleted - 1
      BY <1>10, <2>2
    <3>2. t.slots[j] = Deleted
      BY <1>11, <2>2
    <3>3. TakenSlots(c, g) = TakenSlots(c, t)
      BY <1>12, <1>13, <1>15, <3>2 DEF TakenSlots
    <3>4. Marks(c, g) = Marks(c, t) \ {j} /\ j \in Marks(c, t)
      BY <1>12, <1>13, <1>15, <3>2 DEF Marks
    <3>5. Cardinality(Marks(c, g)) = t.deleted - 1 /\ Cardinality(Marks(c, g)) \in Nat
      <4>1. Cardinality(Marks(c, g)) = t.deleted - 1
        BY <1>14, <1>16, <3>4, FS_RemoveElement
      <4>2. Cardinality(Marks(c, g)) \in Nat
        BY <1>1, PartsOfTable
      <4>. QED
        BY <4>1, <4>2
    <3>. QED
      BY <1>14, <3>1, <3>3, <3>5
  <2>. QED
    BY <2>1, <2>2
<1>18. g \in Tables(c)
  <2>1. g = [slots |-> g.slots, used |-> g.used, deleted |-> g.deleted]
    BY <1>10
  <2>. QED
    BY <1>15, <1>17, <2>1 DEF Tables
<1>19. Counted(c, g)
  BY <1>1, <1>14, <1>17 DEF Counted
<1>20. \A i \in 0 .. c - 1 : usedSlot(t.slots[i]) => t.slots[i].key # k
  <2>1. {i \in 0 .. c - 1 : Holds(t.slots[i], k)} = {}
    BY <1>2, <1>3, LocatedIs
  <2>. QED
    BY <2>1 DEF Holds
<1>21. Distinct(c, g)
  <2>1. Distinct(c, t)
    BY DEF Good
  <2>2. ASSUME NEW i1 \in 0 .. c - 1, NEW i2 \in 0 .. c - 1,
               usedSlot(g.slots[i1]), usedSlot(g.slots[i2]), g.slots[i1].key = g.slots[i2].key
        PROVE  i1 = i2
    <3>1. CASE i1 # j /\ i2 # j
      <4>1. g.slots[i1] = t.slots[i1] /\ g.slots[i2] = t.slots[i2]
        BY <1>15, <3>1
      <4>. QED
        BY <2>1, <2>2, <4>1 DEF Distinct
    <3>2. CASE i1 = j /\ i2 # j
      <4>1. g.slots[i1].key = k /\ g.slots[i2] = t.slots[i2]
        BY <1>2, <1>15, <3>2
      <4>. QED
        BY <1>20, <2>2, <4>1
    <3>3. CASE i1 # j /\ i2 = j
      <4>1. g.slots[i2].key = k /\ g.slots[i1] = t.slots[i1]
        BY <1>2, <1>15, <3>3
      <4>. QED
        BY <1>20, <2>2, <4>1
    <3>. QED
      BY <3>1, <3>2, <3>3
  <2>. QED
    BY <2>2 DEF Distinct
<1>22. \A i \in 0 .. c - 1 : t.slots[i] # FreeSlot => g.slots[i] # FreeSlot
  BY <1>13, <1>15
<1>23. Reachable(c, g)
  <2>1. ASSUME NEW i \in 0 .. c - 1, usedSlot(g.slots[i]) PROVE OnPath(c, g, i, g.slots[i].key)
    <3>1. CASE i = j
      <4>1. at \in 0 .. c + 5 /\ \A m \in 0 .. at - 1 : m \in 0 .. f - 1 /\ m \in 0 .. c + 5
        BY <1>1, <1>11
      <4>2. \A m \in 0 .. at - 1 : t.slots[p[m]] # FreeSlot /\ p[m] \in 0 .. c - 1
        BY <1>4, <1>5, <1>6, <4>1
      <4>3. \A m \in 0 .. at - 1 : g.slots[p[m]] # FreeSlot
        BY <1>22, <4>2
      <4>4. g.slots[i].key = k
        BY <1>2, <1>15, <3>1
      <4>. QED
        BY <1>2, <1>9, <3>1, <4>1, <4>3, <4>4 DEF OnPath
    <3>2. CASE i # j
      <4>1. g.slots[i] = t.slots[i]
        BY <1>15, <3>2
      <4>2. PICK q : q = t.slots[i].key
        OBVIOUS
      <4>3. q \in Keys
        BY <1>14, <2>1, <4>1, <4>2, SlotKinds DEF Assocs
      <4>4. OnPath(c, t, i, q)
        BY <2>1, <4>1, <4>2 DEF Good, Reachable
      <4>5. OnPath(c, g, i, q)
        BY <1>1, <1>22, <4>3, <4>4, StaysOnPath
      <4>. QED
        BY <4>1, <4>2, <4>5
    <3>. QED
      BY <3>1, <3>2
  <2>. QED
    BY <2>1 DEF Reachable
<1>24. Good(c, g)
  BY <1>1, <1>18, <1>19, <1>21, <1>23 DEF Good
<1>25. Placed(c, t, a, j, g)
  <2>1. ~ usedSlot(t.slots[j])
    BY <1>11 DEF usedSlot
  <2>2. g.slots = [t.slots EXCEPT ![j] = a]
    BY <1>10
  <2>. QED
    BY <1>12, <1>17, <2>1, <2>2 DEF Placed
<1>. QED
  BY <1>24, <1>25

\* An association that is there already stays as it is.
LEMMA InsertTwice ==
  ASSUME NEW t, NEW a, Located(t, a.key) # {}
  PROVE  insert(t, a) = t
BY DEF insert

\* A new table is empty.
LEMMA EmptyIsGood ==
  ASSUME NEW c \in Nat, c > 0
  PROVE  /\ Good(c, Empty(c)) /\ Empty(c).used = 0 /\ Empty(c).deleted = 0
         /\ \A i \in 0 .. c - 1 : Empty(c).slots[i] = FreeSlot
<1>1. PICK g : g = Empty(c)
  OBVIOUS
<1>2. /\ g = [slots |-> [i \in 0 .. c - 1 |-> FreeSlot], used |-> 0, deleted |-> 0]
      /\ FreeSlot \in Slots /\ FreeSlot # Deleted
  BY <1>1, SlotKinds DEF Empty, Slots
<1>3. /\ g \in Tables(c) /\ g.used = 0 /\ g.deleted = 0
      /\ \A i \in 0 .. c - 1 : g.slots[i] = FreeSlot
  BY <1>2 DEF Tables
<1>4. TakenSlots(c, g) = {} /\ Marks(c, g) = {}
  BY <1>2, <1>3 DEF TakenSlots, Marks
<1>5. Counted(c, g)
  BY <1>3, <1>4, FS_EmptySet DEF Counted
<1>6. Distinct(c, g) /\ Reachable(c, g)
  BY <1>3 DEF Distinct, Reachable, usedSlot
<1>. QED
  BY <1>1, <1>3, <1>5, <1>6 DEF Good

\* The associations of a table.
In(c, t, a) == \E i \in 0 .. c - 1 : t.slots[i] = a
Used(c, t) == {i \in 0 .. c - 1 : usedSlot(t.slots[i])}

\* The size of a table is the number of its associations.
LEMMA SizeIs ==
  ASSUME NEW c, NEW t, Good(c, t)
  PROVE  /\ IsFiniteSet(Used(c, t)) /\ Cardinality(Used(c, t)) \in Nat
         /\ t.used = Cardinality(Used(c, t)) + t.deleted
         /\ size(t) = Cardinality(Used(c, t)) /\ t.deleted \in Nat /\ t.used \in Nat
<1>1. /\ c \in Nat /\ t.used \in Nat /\ t.deleted \in Nat
      /\ t.used = Cardinality(TakenSlots(c, t)) /\ t.deleted = Cardinality(Marks(c, t))
  BY DEF Good, Tables, Counted
<1>2. IsFiniteSet(TakenSlots(c, t)) /\ IsFiniteSet(Marks(c, t))
  BY <1>1, PartsOfTable
<1>3. Used(c, t) = TakenSlots(c, t) \ Marks(c, t)
  BY DEF Used, TakenSlots, Marks, usedSlot
<1>4. TakenSlots(c, t) \cap Marks(c, t) = Marks(c, t)
  BY SlotKinds DEF TakenSlots, Marks
<1>5. /\ IsFiniteSet(Used(c, t))
      /\ Cardinality(Used(c, t)) = Cardinality(TakenSlots(c, t)) - Cardinality(Marks(c, t))
  BY <1>2, <1>3, <1>4, FS_Difference
<1>6. Cardinality(Used(c, t)) \in Nat
  BY <1>5, FS_CardinalityType
<1>. QED
  BY <1>1, <1>5, <1>6 DEF size

\* A table with the associations of the first n slots of t.
UsedBefore(t, n) == {i \in 0 .. n - 1 : usedSlot(t.slots[i])}
FilledUp(d, t, n, x) ==
    /\ Good(d, x) /\ x.deleted = 0 /\ x.used = Cardinality(UsedBefore(t, n))
    /\ \A a \in Assocs : In(d, x, a) <=> \E i \in 0 .. n - 1 : t.slots[i] = a
FillStep(t, i, x) ==
    IF usedSlot(t.slots[i - 1]) THEN insert(x, t.slots[i - 1]) ELSE x

\* An insertion adds its association and no other.
LEMMA InsertedIn ==
  ASSUME NEW d, NEW x, Good(d, x), NEW a \in Assocs, NEW g, NEW j, Placed(d, x, a, j, g)
  PROVE  \A b \in Assocs : In(d, g, b) <=> In(d, x, b) \/ b = a
<1>1. /\ x.slots \in [0 .. d - 1 -> Slots] /\ j \in 0 .. d - 1
      /\ g.slots = [x.slots EXCEPT ![j] = a] /\ ~ usedSlot(x.slots[j])
  BY DEF Good, Tables, Placed
<1>2. g.slots[j] = a /\ \A i \in 0 .. d - 1 : i # j => g.slots[i] = x.slots[i]
  BY <1>1
<1>3. \A b \in Assocs : usedSlot(b)
  BY SlotKinds
<1>. QED
  BY <1>1, <1>2, <1>3 DEF In

\* Each slot of the old table keeps what the new one is filled with.
LEMMA FillKeeps ==
  ASSUME NEW c, NEW t, Good(c, t), NEW d \in Nat, size(t) < d, NEW i \in 1 .. c,
         NEW x, FilledUp(d, t, i - 1, x), NEW g, g = FillStep(t, i, x)
  PROVE  FilledUp(d, t, i, g)
<1>1. PICK h : h = i - 1
  OBVIOUS
<1>2. h \in 0 .. c - 1 /\ h + 1 = i /\ FilledUp(d, t, h, x) /\ c \in Nat /\ h \in Nat /\ i \in Nat
  BY <1>1 DEF Good
<1>3. /\ Good(d, x) /\ x.deleted = 0 /\ x.used = Cardinality(UsedBefore(t, h))
      /\ \A a \in Assocs : In(d, x, a) <=> \E j \in 0 .. h - 1 : t.slots[j] = a
  BY <1>2 DEF FilledUp
<1>4. t.slots \in [0 .. c - 1 -> Slots] /\ d > 0
  BY <1>3 DEF Good, Tables
<1>5. \A j : j \in 0 .. i - 1 <=> j \in 0 .. h - 1 \/ j = h
  BY <1>2
<1>6. IsFiniteSet(UsedBefore(t, h)) /\ Cardinality(UsedBefore(t, h)) \in Nat /\ h \notin UsedBefore(t, h)
  <2>1. IsFiniteSet(0 .. h - 1)
    BY <1>2, FS_Interval
  <2>2. UsedBefore(t, h) \subseteq 0 .. h - 1
    BY DEF UsedBefore
  <2>3. h \notin 0 .. h - 1
    BY <1>2
  <2>. QED
    BY <2>1, <2>2, <2>3, FS_Subset, FS_CardinalityType
<1>7. CASE usedSlot(t.slots[h])
  <2>1. PICK a : a = t.slots[h]
    OBVIOUS
  <2>2. a \in Assocs /\ g = insert(x, a) /\ a.key \in Keys /\ usedSlot(a)
    BY <1>1, <1>2, <1>4, <1>7, <2>1, SlotKinds DEF FillStep, Assocs
  <2>3. UsedBefore(t, i) = UsedBefore(t, h) \cup {h}
    BY <1>5, <1>7 DEF UsedBefore
  <2>4. Cardinality(UsedBefore(t, i)) = x.used + 1
    <3>1. PICK U : U = UsedBefore(t, h)
      OBVIOUS
    <3>2. Cardinality(U \cup {h}) = Cardinality(U) + 1
      BY <1>6, <3>1, FS_AddElement
    <3>. QED
      BY <1>3, <2>3, <3>1, <3>2
  <2>5. Cardinality(UsedBefore(t, i)) <= size(t)
    <3>1. UsedBefore(t, i) \subseteq Used(c, t)
      BY <1>2 DEF UsedBefore, Used
    <3>. QED
      BY <3>1, SizeIs, FS_Subset
  <2>6. x.used + 1 < d /\ x.used \in Nat
    <3>1. size(t) \in Nat
      BY SizeIs
    <3>. QED
      BY <1>3, <1>6, <2>4, <2>5, <3>1
  <2>7. Located(x, a.key) = {}
    <3>1. SUFFICES ASSUME NEW j \in Located(x, a.key) PROVE FALSE
      OBVIOUS
    <3>2. j \in 0 .. d - 1 /\ usedSlot(x.slots[j]) /\ x.slots[j].key = a.key
      BY <1>3, <2>2, <3>1, LocatedIs DEF Holds
    <3>3. x.slots[j] \in Assocs
      BY <1>3, <3>2, SlotKinds DEF Good, Tables
    <3>4. PICK l \in 0 .. h - 1 : t.slots[l] = x.slots[j]
      BY <1>3, <3>2, <3>3 DEF In
    <3>5. l \in 0 .. c - 1 /\ l # h
      BY <1>2
    <3>. QED
      BY <1>2, <1>7, <2>1, <3>2, <3>4, <3>5 DEF Good, Distinct
  <2>8. Good(d, g) /\ \E j : Placed(d, x, a, j, g)
    BY <1>3, <2>2, <2>6, <2>7, InsertIs
  <2>9. g.deleted = 0 /\ g.used = x.used + 1
    <3>1. g.deleted \in Nat /\ g.used \in Nat
      BY <2>8 DEF Good, Tables
    <3>2. g.deleted <= x.deleted /\ g.used - g.deleted = x.used - x.deleted + 1
      BY <2>8 DEF Placed
    <3>. QED
      BY <1>3, <2>6, <3>1, <3>2
  <2>10. \A b \in Assocs : In(d, g, b) <=> \E j \in 0 .. i - 1 : t.slots[j] = b
    <3>1. \A b \in Assocs : In(d, g, b) <=> In(d, x, b) \/ b = a
      BY <1>3, <2>2, <2>8, InsertedIn
    <3>. QED
      BY <1>3, <1>5, <2>1, <3>1
  <2>. QED
    BY <2>4, <2>8, <2>9, <2>10 DEF FilledUp
<1>8. CASE ~ usedSlot(t.slots[h])
  <2>1. g = x
    BY <1>1, <1>8 DEF FillStep
  <2>2. UsedBefore(t, i) = UsedBefore(t, h)
    BY <1>5, <1>8 DEF UsedBefore
  <2>3. \A a \in Assocs : t.slots[h] # a
    BY <1>8, SlotKinds
  <2>4. \A a \in Assocs : In(d, x, a) <=> \E j \in 0 .. i - 1 : t.slots[j] = a
    BY <1>3, <1>5, <2>3
  <2>. QED
    BY <1>3, <2>1, <2>2, <2>4 DEF FilledUp
<1>. QED
  BY <1>7, <1>8

\* The new table is empty at first.
LEMMA FillStarts ==
  ASSUME NEW t, NEW d \in Nat, d > 0
  PROVE  FilledUp(d, t, 0, Empty(d))
<1>1. PICK e : e = Empty(d)
  OBVIOUS
<1>2. Good(d, e) /\ e.used = 0 /\ e.deleted = 0 /\ \A i \in 0 .. d - 1 : e.slots[i] = FreeSlot
  BY <1>1, EmptyIsGood
<1>3. UsedBefore(t, 0) = {}
  BY DEF UsedBefore
<1>4. \A a \in Assocs : ~ In(d, e, a)
  BY <1>2, SlotKinds DEF In
<1>5. \A a \in Assocs : ~ \E i \in 0 .. 0 - 1 : t.slots[i] = a
  OBVIOUS
<1>. QED
  BY <1>1, <1>2, <1>3, <1>4, <1>5, FS_EmptySet DEF FilledUp

\* Rehashing keeps the associations and drops the marks.
LEMMA InsertAllIs ==
  ASSUME NEW c, NEW t, Good(c, t), NEW d \in Nat, size(t) < d,
         NEW g, g = InsertAll(Empty(d), t)
  PROVE  /\ Good(d, g) /\ g.deleted = 0 /\ g.used = size(t)
         /\ \A a \in Assocs : In(d, g, a) <=> In(c, t, a)
<1>1. c \in Nat /\ c > 0 /\ t \in Tables(c) /\ a_capacity(t) = c /\ d > 0
  BY SizeIs, CapacityOf DEF Good
<1>2. PICK e : e = Empty(d)
  OBVIOUS
<1>3. FilledUp(d, t, 0, e)
  BY <1>1, <1>2, FillStarts
<1>4. PICK X : X = Tables(d)
  OBVIOUS
<1>5. \A n, x : FilledUp(d, t, n, x) => x \in X
  BY <1>4 DEF FilledUp, Good
<1>6. PICK F : F = [q \in (1 .. c) \X X |->
                      IF FillStep(t, q[1], q[2]) \in X THEN FillStep(t, q[1], q[2]) ELSE q[2]]
  OBVIOUS
<1>7. \A i \in 1 .. c : \A x \in X :
        F[<<i, x>>] = IF FillStep(t, i, x) \in X THEN FillStep(t, i, x) ELSE x
  BY <1>6
<1>8. F \in StepsOn(c, X)
  BY <1>6 DEF StepsOn
<1>9. e \in X
  BY <1>3, <1>5
<1>10. PICK f : Iteration(f, c, X, e, F)
  BY <1>1, <1>8, <1>9, Iterated
<1>11. f \in [0 .. c -> X] /\ f[0] = e /\ \A i \in 1 .. c : f[i] = F[<<i, f[i - 1]>>]
  BY <1>10 DEF Iteration
<1>12. ASSUME NEW i \in 0 .. c - 1, FilledUp(d, t, i, f[i])
       PROVE  f[i + 1] = FillStep(t, i + 1, f[i]) /\ FilledUp(d, t, i + 1, f[i + 1])
  <2>1. PICK j : j = i + 1
    OBVIOUS
  <2>2. j \in 1 .. c /\ j - 1 = i
    BY <1>1, <2>1
  <2>3. f[i] \in X
    BY <1>5, <1>12
  <2>4. f[j] = F[<<j, f[i]>>]
    BY <1>11, <2>2
  <2>5. PICK x, y : x = f[i] /\ y = FillStep(t, j, x)
    OBVIOUS
  <2>6. FilledUp(d, t, j - 1, x)
    BY <1>12, <2>2, <2>5
  <2>7. FilledUp(d, t, j, y)
    BY <2>2, <2>5, <2>6, FillKeeps
  <2>8. f[j] = y
    BY <1>5, <1>7, <2>2, <2>3, <2>4, <2>5, <2>7
  <2>. QED
    BY <2>1, <2>5, <2>7, <2>8
<1>13. \A i \in 0 .. c : FilledUp(d, t, i, f[i])
  <2>1. PICK S : S = {i \in 0 .. c : FilledUp(d, t, i, f[i])}
    OBVIOUS
  <2>2. 0 \in S
    BY <1>1, <1>3, <1>11, <2>1
  <2>3. ASSUME NEW i \in 0 .. c - 1, i \in S PROVE i + 1 \in S
    <3>1. i + 1 \in 0 .. c
      BY <1>1
    <3>. QED
      BY <1>12, <2>1, <2>3, <3>1
  <2>4. \A i \in 0 .. c : i \in S
    BY <1>1, <2>2, <2>3, CountingUp
  <2>. QED
    BY <2>1, <2>4
<1>14. \A i \in 1 .. c : f[i] = FillStep(t, i, f[i - 1])
  <2>1. TAKE i \in 1 .. c
  <2>2. PICK j : j = i - 1
    OBVIOUS
  <2>3. j \in 0 .. c - 1 /\ j \in 0 .. c /\ j + 1 = i
    BY <1>1, <2>2
  <2>. QED
    BY <1>12, <1>13, <2>2, <2>3
<1>. DEFINE Body(q) == [i \in 0 .. c |->
                          IF i = 0 THEN e
                          ELSE IF usedSlot(t.slots[i - 1]) THEN insert(q[i - 1], t.slots[i - 1])
                          ELSE q[i - 1]]
<1>15. f = Body(f)
  <2>1. \A i \in 0 .. c : i = 0 \/ i \in 1 .. c
    BY <1>1
  <2>2. \A i \in 0 .. c : f[i] = Body(f)[i]
    BY <1>11, <1>14, <2>1 DEF FillStep
  <2>3. f = [i \in 0 .. c |-> f[i]]
    BY <1>11
  <2>. QED
    BY <2>2, <2>3
<1>16. PICK q : q = CHOOSE filled : filled = Body(filled)
  OBVIOUS
<1>17. q = Body(q)
  <2>. HIDE DEF Body
  <2>. QED
    BY <1>15, <1>16, Zenon
<1>18. g = q[c]
  BY <1>1, <1>2, <1>16 DEF InsertAll
<1>19. q[0] = e /\ \A i \in 1 .. c : q[i] = FillStep(t, i, q[i - 1])
  <2>1. 0 \in 0 .. c /\ \A i \in 1 .. c : i \in 0 .. c /\ i # 0
    BY <1>1
  <2>. QED
    BY <1>17, <2>1 DEF FillStep
<1>20. q[c] = f[c]
  <2>1. PICK S : S = {i \in 0 .. c : q[i] = f[i]}
    OBVIOUS
  <2>2. 0 \in S
    BY <1>1, <1>11, <1>19, <2>1
  <2>3. ASSUME NEW i \in 0 .. c - 1, i \in S PROVE i + 1 \in S
    <3>1. PICK j : j = i + 1
      OBVIOUS
    <3>2. j \in 1 .. c /\ j - 1 = i /\ j \in 0 .. c
      BY <1>1, <3>1
    <3>. QED
      BY <1>14, <1>19, <2>1, <2>3, <3>1, <3>2
  <2>4. \A i \in 0 .. c : i \in S
    BY <1>1, <2>2, <2>3, CountingUp
  <2>. QED
    BY <1>1, <2>1, <2>4
<1>21. FilledUp(d, t, c, g)
  BY <1>1, <1>13, <1>18, <1>20
<1>22. UsedBefore(t, c) = Used(c, t)
  BY DEF UsedBefore, Used
<1>. QED
  BY <1>21, <1>22, SizeIs DEF FilledUp, In

\* There are at most as many associations as keys.
LEMMA SizeBound ==
  ASSUME NEW c, NEW t, Good(c, t)
  PROVE  size(t) <= Cardinality(Keys) /\ Cardinality(Keys) \in Nat /\ size(t) \in Nat
<1>1. PICK U : U = Used(c, t)
  OBVIOUS
<1>2. PICK f : f = [i \in U |-> t.slots[i].key]
  OBVIOUS
<1>3. \A i \in U : i \in 0 .. c - 1 /\ usedSlot(t.slots[i])
  BY <1>1 DEF Used
<1>4. \A i \in U : t.slots[i].key \in Keys
  <2>1. \A i \in U : t.slots[i] \in Assocs
    BY <1>3, SlotKinds DEF Good, Tables
  <2>. QED
    BY <2>1 DEF Assocs
<1>5. f \in [U -> Keys]
  BY <1>2, <1>4
<1>6. \A i, j \in U : f[i] = f[j] => i = j
  BY <1>2, <1>3 DEF Good, Distinct
<1>7. f \in Injection(U, Keys)
  BY <1>5, <1>6 DEF Injection, IsInjective
<1>8. IsFiniteSet(Keys)
  BY TableAssumption
<1>9. Cardinality(U) <= Cardinality(Keys)
  BY <1>7, <1>8, FS_Injection
<1>. QED
  BY <1>1, <1>8, <1>9, SizeIs, FS_CardinalityType

-----------------------------------------------------------------------------
(* The capacities.                                                         *)

Primes == {primes[n] : n \in 1 .. Len(primes)}

\* The primes grow.
LEMMA PrimesInOrder ==
  /\ Len(primes) = 10
  /\ \A n \in 1 .. 10 : primes[n] \in Nat /\ primes[n] >= 7
  /\ \A m, n \in 1 .. 10 : m <= n => primes[m] <= primes[n]
<1>1. /\ Len(primes) = 10 /\ primes[1] = 7 /\ primes[2] = 11 /\ primes[3] = 13
      /\ primes[4] = 17 /\ primes[5] = 19 /\ primes[6] = 23 /\ primes[7] = 29
      /\ primes[8] = 31 /\ primes[9] = 41 /\ primes[10] = 47
  BY DEF primes
<1>2. \A n \in 1 .. 10 : n = 1 \/ n = 2 \/ n = 3 \/ n = 4 \/ n = 5
                          \/ n = 6 \/ n = 7 \/ n = 8 \/ n = 9 \/ n = 10
  OBVIOUS
<1>3. \A n \in 1 .. 10 : primes[n] \in Nat /\ primes[n] >= 7
  BY <1>1, <1>2
<1>4. ASSUME NEW m \in 1 .. 10, NEW n \in 1 .. 10, m <= n PROVE primes[m] <= primes[n]
  BY <1>1, <1>2, <1>4
<1>. QED
  BY <1>1, <1>3, <1>4

\* The new capacity is the smallest prime that is enough.
LEMMA NewCapacityIs ==
  ASSUME NEW x \in Nat, NEW p \in Primes, x <= p, minCapacity <= p, NEW d, d = newCapacity(x)
  PROVE  /\ d \in Primes /\ d \in Nat /\ d >= 7 /\ d >= x /\ d >= minCapacity /\ d <= p
<1>1. minCapacity \in Nat
  BY TableAssumption
<1>2. PICK E : E = Enough(x)
  OBVIOUS
<1>3. E = {n \in 1 .. 10 : primes[n] >= x /\ primes[n] >= minCapacity}
  BY <1>2, PrimesInOrder DEF Enough
<1>4. PICK n \in 1 .. 10 : p = primes[n]
  BY PrimesInOrder DEF Primes
<1>5. n \in E
  BY <1>1, <1>3, <1>4, PrimesInOrder
<1>6. E \subseteq Nat
  BY <1>3
<1>7. PICK m : m = CHOOSE l \in E : \A j \in E : l <= j
  OBVIOUS
<1>8. m \in E /\ \A j \in E : m <= j
  <2>1. \E l \in E : \A j \in E : l <= j
    BY <1>5, <1>6, MinOfSet
  <2>. QED
    BY <1>7, <2>1
<1>9. d = primes[m]
  BY <1>2, <1>7 DEF newCapacity
<1>10. m \in 1 .. 10 /\ primes[m] >= x /\ primes[m] >= minCapacity /\ m <= n
  BY <1>3, <1>5, <1>8
<1>. QED
  BY <1>4, <1>9, <1>10, PrimesInOrder DEF Primes

\* A quotient, rounded down.
LEMMA DivBounds ==
  ASSUME NEW a \in Nat, NEW m \in Nat, m > 0, NEW y, y = a \div m
  PROVE  y \in Nat /\ m * y <= a /\ a < m * y + m
OBVIOUS

\* The capacity that is preferred for a size exceeds it, unless the least one does.
LEMMA PreferredIs ==
  ASSUME NEW t, NEW s \in Nat, size(t) = s, NEW y, y = Preferred(t)
  PROVE  /\ y \in Nat /\ (s >= 7 => s < y)
         /\ \A q \in Nat : 10 * s <= lowwater * q => y <= q
<1>1. PICK m : m = lowwater + highwater
  OBVIOUS
<1>2. lowwater \in 1 .. 8 /\ highwater \in lowwater + 1 .. 9 /\ m \in 3 .. 17
  BY <1>1, WaterMarks
<1>3. y = (20 * s) \div m
  BY <1>1 DEF Preferred, medwater
<1>4. 20 * s \in Nat /\ m \in Nat /\ m > 0
  BY <1>2
<1>5. y \in Nat /\ m * y <= 20 * s /\ 20 * s < m * y + m
  BY <1>3, <1>4, DivBounds
<1>6. s >= 7 => s < y
  <2>1. PICK z, w : z = m * y /\ w = 17 * y
    OBVIOUS
  <2>3. z \in Int /\ w \in Int /\ z <= w /\ 20 * s < z + m
    BY <1>2, <1>5, <2>1
  <2>4. 20 * s < w + 17
    BY <1>2, <2>3
  <2>2. 20 * s < 17 * y + 17
    BY <2>1, <2>4
  <2>. QED
    BY <1>5, <2>2
<1>7. ASSUME NEW q \in Nat, 10 * s <= lowwater * q PROVE y <= q
  <2>1. (2 * lowwater + 1) * y <= m * y
    BY <1>1, <1>2, <1>5
  <2>2. CASE y > q
    <3>1. lowwater * (q + 1) <= lowwater * y
      BY <1>2, <1>5, <2>2
    <3>. QED
      BY <1>2, <1>5, <1>7, <2>1, <3>1
  <2>. QED
    BY <1>5, <2>2
<1>. QED
  BY <1>5, <1>6, <1>7

\* Rehashing, or not.
LEMMA ChangeIs ==
  ASSUME NEW c, NEW t, Good(c, t), NEW x, NEW d, d = newCapacity(x), d \in Nat, size(t) < d,
         NEW g, g = changeCapacity(t, x)
  PROVE  /\ Good(d, g) /\ ((d = c /\ g = t) \/ (d # c /\ g.deleted = 0 /\ g.used = size(t)))
         /\ \A a \in Assocs : In(d, g, a) <=> In(c, t, a)
<1>1. a_capacity(t) = c
  BY CapacityOf DEF Good
<1>2. CASE d = c
  BY <1>1, <1>2 DEF changeCapacity
<1>3. CASE d # c
  <2>1. g = InsertAll(Empty(d), t)
    BY <1>1, <1>3 DEF changeCapacity
  <2>. QED
    BY <1>3, <2>1, InsertAllIs
<1>. QED
  BY <1>2, <1>3

\* The primes suffice: some prime is so large that a table of that capacity
\* shrinks whenever a key is removed, and it is not the last one.
Roomy(q, p) ==
    /\ q \in Primes /\ p \in Primes /\ minCapacity <= q /\ q < p
    /\ 10 * Cardinality(Keys) <= lowwater * q

\* A table up to that capacity, or a larger one without marks.
Fits(q, p, c, t) ==
    Good(c, t) /\ c \in Primes /\ c <= p /\ (c <= q \/ t.deleted = 0)

\* The primes are numbers.
LEMMA PrimesAreNumbers == \A c \in Primes : c \in Nat /\ c >= 7
BY PrimesInOrder DEF Primes

\* addAssoc() makes room for one more.
LEMMA GrownIs ==
  ASSUME NEW q, NEW p, Roomy(q, p), NEW c, NEW t, Fits(q, p, c, t), NEW g, g = Grown(t)
  PROVE  \E d : /\ Fits(q, p, d, g) /\ g.used + 1 < d
                /\ \A a \in Assocs : In(d, g, a) <=> In(c, t, a)
<1>1. /\ q \in Nat /\ p \in Nat /\ q < p /\ q >= 7 /\ p \in Primes /\ minCapacity <= p
      /\ minCapacity <= q
  <2>1. minCapacity \in Nat
    BY TableAssumption
  <2>. QED
    BY <2>1, PrimesAreNumbers DEF Roomy
<1>2. Good(c, t) /\ c \in Nat /\ c \in Primes /\ c <= p /\ (c <= q \/ t.deleted = 0) /\ c > 0
  BY DEF Fits, Good
<1>3. a_capacity(t) = c
  BY <1>2, CapacityOf DEF Good
<1>4. PICK s, n : s = size(t) /\ n = t.used
  OBVIOUS
<1>5. s \in Nat /\ n \in Nat /\ n = s + t.deleted /\ t.deleted \in Nat /\ n < c
  BY <1>2, <1>4, SizeIs DEF Good, Counted
<1>6. s <= Cardinality(Keys) /\ Cardinality(Keys) \in Nat
  BY <1>2, <1>4, SizeBound
<1>7. 10 * s <= lowwater * q /\ lowwater \in 1 .. 8
  <2>1. PICK z : z = lowwater * q
    OBVIOUS
  <2>2. z \in Int /\ 10 * Cardinality(Keys) <= z
    BY <1>1, <2>1, WaterMarks DEF Roomy
  <2>3. 10 * s <= z
    BY <1>5, <1>6, <2>2
  <2>. QED
    BY <2>1, <2>3, WaterMarks
<1>8. CASE ~ (c < n + 2 \/ 10 * (s + 1) > highwater * c)
  <2>1. g = t
    BY <1>3, <1>4, <1>8 DEF Grown
  <2>2. g.used + 1 < c
    <3>1. ~ (c < n + 2)
      BY <1>8
    <3>2. n + 1 < c
      BY <1>2, <1>5, <3>1
    <3>. QED
      BY <1>4, <2>1, <3>2
  <2>. QED
    BY <2>1, <2>2
<1>9. CASE c < n + 2 \/ 10 * (s + 1) > highwater * c
  <2>1. PICK y, x, d : /\ y = Preferred(t) /\ x = AtLeast(y, n + 2)
                       /\ d = newCapacity(x)
    OBVIOUS
  <2>2. y \in Nat /\ y <= q
    BY <1>1, <1>4, <1>5, <1>7, <2>1, PreferredIs
  <2>3. x \in Nat /\ x >= n + 2 /\ (x = y \/ x = n + 2)
    BY <1>5, <2>1, <2>2 DEF AtLeast
  <2>4. n + 2 <= p
    <3>1. CASE c <= q
      BY <1>1, <1>2, <1>5, <3>1
    <3>2. CASE t.deleted = 0
      <4>1. lowwater * q <= 8 * q
        BY <1>1, <1>7
      <4>2. 10 * n <= 8 * q
        <5>1. PICK z : z = lowwater * q
          OBVIOUS
        <5>2. z \in Int /\ 10 * n <= z /\ z <= 8 * q
          BY <1>1, <1>5, <1>7, <3>2, <4>1, <5>1
        <5>. QED
          BY <1>1, <1>5, <5>2
      <4>. QED
        BY <1>1, <1>5, <4>2
    <3>. QED
      BY <1>2, <3>1, <3>2
  <2>5. d \in Primes /\ d \in Nat /\ d >= x /\ d <= p
    <3>1. x <= p
      BY <1>1, <2>2, <2>3, <2>4
    <3>. QED
      BY <1>1, <2>1, <2>3, <3>1, NewCapacityIs
  <2>6. g = changeCapacity(t, x)
    BY <1>3, <1>4, <1>9, <2>1 DEF Grown
  <2>7. s < d
    BY <1>5, <2>3, <2>5
  <2>8. /\ Good(d, g) /\ ((d = c /\ g = t) \/ (d # c /\ g.deleted = 0 /\ g.used = s))
        /\ \A a \in Assocs : In(d, g, a) <=> In(c, t, a)
    BY <1>2, <1>4, <2>1, <2>5, <2>6, <2>7, ChangeIs
  <2>9. Fits(q, p, d, g)
    BY <1>2, <2>5, <2>8 DEF Fits
  <2>10. g.used + 1 < d
    <3>1. n + 2 <= d
      BY <1>5, <2>3, <2>5
    <3>2. g.used = n \/ g.used = s
      BY <1>4, <2>8
    <3>. QED
      BY <1>5, <2>5, <3>1, <3>2
  <2>. QED
    BY <2>8, <2>9, <2>10
<1>. QED
  BY <1>8, <1>9

\* A mark takes the place of an association.
DeletedAt(t, i) == [t EXCEPT !.slots[i] = Deleted, !.deleted = @ + 1]

\* The mark of a removal takes away one association, and leaves the paths over it.
LEMMA MarkedIs ==
  ASSUME NEW c, NEW t, Good(c, t), NEW i \in 0 .. c - 1, usedSlot(t.slots[i]),
         NEW g, g = DeletedAt(t, i)
  PROVE  /\ Good(c, g) /\ g.deleted = t.deleted + 1 /\ g.used = t.used
         /\ \A a \in Assocs : In(c, g, a) <=> In(c, t, a) /\ a # t.slots[i]
<1>1. /\ c \in Nat /\ c > 0 /\ t \in Tables(c) /\ Counted(c, t) /\ Distinct(c, t) /\ Reachable(c, t)
      /\ t.slots \in [0 .. c - 1 -> Slots] /\ t.used \in Nat /\ t.deleted \in Nat
  BY DEF Good, Tables
<1>2. Deleted \in Slots /\ ~ usedSlot(Deleted) /\ Deleted # FreeSlot
  BY SlotKinds DEF Slots, usedSlot
<1>3. t.slots[i] \in Assocs /\ t.slots[i] # FreeSlot /\ t.slots[i] # Deleted
  BY <1>1, SlotKinds DEF usedSlot
<1>4. /\ g = [slots |-> [t.slots EXCEPT ![i] = Deleted], used |-> t.used, deleted |-> t.deleted + 1]
  BY <1>1 DEF Tables, DeletedAt
<1>5. /\ g.slots \in [0 .. c - 1 -> Slots] /\ g.slots[i] = Deleted
      /\ \A j \in 0 .. c - 1 : j # i => g.slots[j] = t.slots[j]
      /\ g.used = t.used /\ g.deleted = t.deleted + 1
  BY <1>1, <1>2, <1>4
<1>6. g \in Tables(c)
  BY <1>1, <1>4, <1>5 DEF Tables
<1>7. TakenSlots(c, g) = TakenSlots(c, t)
  BY <1>2, <1>3, <1>5 DEF TakenSlots
<1>8. Marks(c, g) = Marks(c, t) \cup {i} /\ i \notin Marks(c, t)
  BY <1>3, <1>5 DEF Marks
<1>9. Counted(c, g)
  <2>1. IsFiniteSet(Marks(c, t))
    BY <1>1, PartsOfTable
  <2>2. Cardinality(Marks(c, g)) = Cardinality(Marks(c, t)) + 1
    BY <1>8, <2>1, FS_AddElement
  <2>. QED
    BY <1>1, <1>5, <1>7, <2>2 DEF Counted
<1>10. \A j \in 0 .. c - 1 : usedSlot(g.slots[j]) => j # i /\ g.slots[j] = t.slots[j]
  BY <1>2, <1>5
<1>11. Distinct(c, g)
  BY <1>1, <1>10 DEF Distinct
<1>12. Reachable(c, g)
  <2>1. \A j \in 0 .. c - 1 : t.slots[j] # FreeSlot => g.slots[j] # FreeSlot
    BY <1>2, <1>5
  <2>2. ASSUME NEW j \in 0 .. c - 1, usedSlot(g.slots[j]) PROVE OnPath(c, g, j, g.slots[j].key)
    <3>1. PICK k : k = g.slots[j].key
      OBVIOUS
    <3>2. k = t.slots[j].key /\ usedSlot(t.slots[j])
      BY <1>10, <2>2, <3>1
    <3>3. k \in Keys
      BY <1>1, <3>2, SlotKinds DEF Assocs
    <3>4. OnPath(c, t, j, k)
      BY <1>1, <3>2 DEF Reachable
    <3>. QED
      BY <1>1, <2>1, <3>1, <3>3, <3>4, StaysOnPath
  <2>. QED
    BY <2>2 DEF Reachable
<1>13. Good(c, g)
  BY <1>1, <1>6, <1>9, <1>11, <1>12 DEF Good
<1>14. ASSUME NEW a \in Assocs PROVE In(c, g, a) <=> In(c, t, a) /\ a # t.slots[i]
  <2>1. a # Deleted /\ usedSlot(a)
    BY SlotKinds
  <2>2. ASSUME In(c, g, a) PROVE In(c, t, a) /\ a # t.slots[i]
    <3>1. PICK j \in 0 .. c - 1 : g.slots[j] = a
      BY <2>2 DEF In
    <3>2. j # i /\ t.slots[j] = a
      BY <1>10, <2>1, <3>1
    <3>3. a # t.slots[i]
      BY <1>1, <2>1, <3>2 DEF Distinct
    <3>. QED
      BY <3>2, <3>3 DEF In
  <2>3. ASSUME In(c, t, a), a # t.slots[i] PROVE In(c, g, a)
    BY <1>5, <2>3 DEF In
  <2>. QED
    BY <2>2, <2>3
<1>. QED
  BY <1>5, <1>13, <1>14

\* removeAssoc() takes one association out.
LEMMA RemoveIs ==
  ASSUME NEW q, NEW p, Roomy(q, p), NEW c, NEW t, Fits(q, p, c, t),
         NEW i \in 0 .. c - 1, usedSlot(t.slots[i]), NEW g, g = removeAssoc(t, i)
  PROVE  \E d : /\ Fits(q, p, d, g)
                /\ \A a \in Assocs : In(d, g, a) <=> In(c, t, a) /\ a # t.slots[i]
<1>1. /\ q \in Nat /\ p \in Nat /\ q < p /\ q >= 7 /\ q \in Primes
      /\ minCapacity <= q
  BY PrimesAreNumbers DEF Roomy
<1>2. Good(c, t) /\ c \in Nat /\ c \in Primes /\ c <= p /\ (c <= q \/ t.deleted = 0) /\ c > 0
  BY DEF Fits, Good
<1>3. PICK m : m = DeletedAt(t, i)
  OBVIOUS
<1>4. /\ Good(c, m) /\ m.deleted = t.deleted + 1 /\ m.used = t.used
      /\ \A a \in Assocs : In(c, m, a) <=> In(c, t, a) /\ a # t.slots[i]
  BY <1>2, <1>3, MarkedIs
<1>5. a_capacity(m) = c /\ a_capacity(t) = c
  BY <1>2, <1>4, CapacityOf DEF Good
<1>6. PICK s : s = size(m)
  OBVIOUS
<1>7. s \in Nat
  BY <1>4, <1>6, SizeIs
<1>8. 10 * s <= lowwater * q /\ lowwater \in 1 .. 8
  <2>1. s <= Cardinality(Keys) /\ Cardinality(Keys) \in Nat
    BY <1>4, <1>6, SizeBound
  <2>2. PICK z : z = lowwater * q
    OBVIOUS
  <2>3. z \in Int /\ 10 * Cardinality(Keys) <= z
    BY <1>1, <2>2, WaterMarks DEF Roomy
  <2>4. 10 * s <= z
    BY <1>7, <2>1, <2>3
  <2>. QED
    BY <2>2, <2>4, WaterMarks
<1>9. CASE ~ (10 * s < lowwater * c)
  <2>1. g = m
    BY <1>3, <1>5, <1>6, <1>9 DEF removeAssoc, DeletedAt
  <2>2. c <= q
    <3>1. SUFFICES ASSUME c >= q + 1 PROVE FALSE
      BY <1>1, <1>2
    <3>2. lowwater * (q + 1) <= lowwater * c
      BY <1>1, <1>2, <1>8, <3>1
    <3>3. lowwater * q < lowwater * (q + 1)
      BY <1>1, <1>8
    <3>4. PICK z, w, u : z = lowwater * q /\ w = lowwater * (q + 1) /\ u = lowwater * c
      OBVIOUS
    <3>5. z \in Int /\ w \in Int /\ u \in Int /\ 10 * s <= z /\ z < w /\ w <= u /\ ~ (10 * s < u)
      BY <1>1, <1>2, <1>8, <1>9, <3>2, <3>3, <3>4
    <3>. QED
      BY <1>7, <3>5
  <2>3. Fits(q, p, c, g)
    BY <1>2, <1>4, <2>1, <2>2 DEF Fits
  <2>. QED
    BY <1>4, <2>1, <2>3
<1>10. CASE 10 * s < lowwater * c
  <2>1. PICK x, d : x = Preferred(m) /\ d = newCapacity(x)
    OBVIOUS
  <2>2. x \in Nat /\ x <= q /\ (s >= 7 => s < x)
    BY <1>1, <1>6, <1>7, <1>8, <2>1, PreferredIs
  <2>3. d \in Primes /\ d \in Nat /\ d >= 7 /\ d >= x /\ d <= q
    BY <1>1, <2>1, <2>2, NewCapacityIs
  <2>4. s < d
    BY <1>7, <2>2, <2>3
  <2>5. g = changeCapacity(m, x)
    BY <1>3, <1>5, <1>6, <1>10, <2>1 DEF removeAssoc, DeletedAt
  <2>6. /\ Good(d, g)
        /\ \A a \in Assocs : In(d, g, a) <=> In(c, m, a)
    BY <1>4, <1>6, <2>1, <2>3, <2>4, <2>5, ChangeIs
  <2>7. Fits(q, p, d, g)
    BY <1>1, <2>3, <2>6 DEF Fits
  <2>. QED
    BY <1>4, <2>6, <2>7
<1>. QED
  BY <1>9, <1>10

\* update() changes a value in its place.
LEMMA ReplacedIs ==
  ASSUME NEW c, NEW t, Good(c, t), NEW i \in 0 .. c - 1, usedSlot(t.slots[i]), NEW v \in Values,
         NEW g, g = [t EXCEPT !.slots[i].value = v]
  PROVE  /\ Good(c, g) /\ g.deleted = t.deleted
         /\ \A a \in Assocs : In(c, g, a) <=>
          (In(c, t, a) /\ a # t.slots[i]) \/ a = [key |-> t.slots[i].key, value |-> v]
<1>1. /\ c \in Nat /\ c > 0 /\ t \in Tables(c) /\ Counted(c, t) /\ Distinct(c, t) /\ Reachable(c, t)
      /\ t.slots \in [0 .. c - 1 -> Slots] /\ t.used \in Nat /\ t.deleted \in Nat
  BY DEF Good, Tables
<1>2. t.slots[i] \in Assocs /\ t.slots[i] # FreeSlot /\ t.slots[i] # Deleted
  BY <1>1, SlotKinds DEF usedSlot
<1>3. PICK b : b = [key |-> t.slots[i].key, value |-> v]
  OBVIOUS
<1>4. /\ b \in Assocs /\ b \in Slots /\ usedSlot(b) /\ b # FreeSlot /\ b # Deleted /\ b.key = t.slots[i].key
  <2>1. b \in Assocs /\ b.key = t.slots[i].key
    BY <1>2, <1>3 DEF Assocs
  <2>. QED
    BY <2>1, SlotKinds DEF Slots
<1>5. /\ g = [slots |-> [t.slots EXCEPT ![i] = b], used |-> t.used, deleted |-> t.deleted]
  <2>1. [t.slots[i] EXCEPT !.value = v] = b
    BY <1>2, <1>3 DEF Assocs
  <2>. QED
    BY <1>1, <2>1 DEF Tables
<1>6. /\ g.slots \in [0 .. c - 1 -> Slots] /\ g.slots[i] = b
      /\ \A j \in 0 .. c - 1 : j # i => g.slots[j] = t.slots[j]
      /\ g.used = t.used /\ g.deleted = t.deleted
  <2>1. g.slots = [t.slots EXCEPT ![i] = b] /\ g.used = t.used /\ g.deleted = t.deleted
    BY <1>5
  <2>2. PICK s : s = t.slots
    OBVIOUS
  <2>3. s \in [0 .. c - 1 -> Slots] /\ b \in Slots /\ g.slots = [s EXCEPT ![i] = b]
    BY <1>1, <1>4, <2>1, <2>2
  <2>4. /\ [s EXCEPT ![i] = b] \in [0 .. c - 1 -> Slots] /\ [s EXCEPT ![i] = b][i] = b
        /\ \A j \in 0 .. c - 1 : j # i => [s EXCEPT ![i] = b][j] = s[j]
    BY <2>3
  <2>. QED
    BY <2>1, <2>2, <2>3, <2>4
<1>7. g \in Tables(c)
  BY <1>1, <1>5, <1>6 DEF Tables
<1>8. TakenSlots(c, g) = TakenSlots(c, t) /\ Marks(c, g) = Marks(c, t)
  BY <1>2, <1>4, <1>6 DEF TakenSlots, Marks
<1>9. Counted(c, g)
  BY <1>1, <1>6, <1>8 DEF Counted
<1>10. \A j \in 0 .. c - 1 : usedSlot(g.slots[j]) => usedSlot(t.slots[j]) /\ g.slots[j].key = t.slots[j].key
  BY <1>4, <1>6
<1>11. Distinct(c, g)
  BY <1>1, <1>10 DEF Distinct
<1>12. Reachable(c, g)
  <2>1. \A j \in 0 .. c - 1 : t.slots[j] # FreeSlot => g.slots[j] # FreeSlot
    BY <1>4, <1>6
  <2>2. ASSUME NEW j \in 0 .. c - 1, usedSlot(g.slots[j]) PROVE OnPath(c, g, j, g.slots[j].key)
    <3>1. PICK k : k = g.slots[j].key
      OBVIOUS
    <3>2. k = t.slots[j].key /\ usedSlot(t.slots[j])
      BY <1>10, <2>2, <3>1
    <3>3. k \in Keys
      BY <1>1, <3>2, SlotKinds DEF Assocs
    <3>4. OnPath(c, t, j, k)
      BY <1>1, <3>2 DEF Reachable
    <3>. QED
      BY <1>1, <2>1, <3>1, <3>3, <3>4, StaysOnPath
  <2>. QED
    BY <2>2 DEF Reachable
<1>13. Good(c, g)
  BY <1>1, <1>7, <1>9, <1>11, <1>12 DEF Good
<1>14. ASSUME NEW a \in Assocs PROVE In(c, g, a) <=>
          (In(c, t, a) /\ a # t.slots[i]) \/ a = b
  <2>1. usedSlot(a)
    BY SlotKinds
  <2>2. ASSUME In(c, g, a), a # b PROVE In(c, t, a) /\ a # t.slots[i]
    <3>1. PICK j \in 0 .. c - 1 : g.slots[j] = a
      BY <2>2 DEF In
    <3>2. j # i /\ t.slots[j] = a
      BY <1>6, <2>2, <3>1
    <3>3. a # t.slots[i]
      BY <1>1, <2>1, <3>2 DEF Distinct
    <3>. QED
      BY <3>2, <3>3 DEF In
  <2>3. ASSUME In(c, t, a), a # t.slots[i] PROVE In(c, g, a)
    BY <1>6, <2>3 DEF In
  <2>4. In(c, g, b)
    BY <1>6 DEF In
  <2>. QED
    BY <2>2, <2>3, <2>4
<1>. QED
  BY <1>3, <1>6, <1>13, <1>14

\* The dictionary that a table is.
DictOf(t) ==
    [k \in Keys |->
       LET of == {i \in DOMAIN t.slots : Holds(t.slots[i], k)}
       IN  IF of = {} THEN NoValue ELSE t.slots[CHOOSE i \in of : TRUE].value]
Has(c, t, k, v) == In(c, t, [key |-> k, value |-> v])

\* An association is its key and its value.
LEMMA AssocIs ==
  /\ \A k \in Keys, v \in Values : [key |-> k, value |-> v] \in Assocs
  /\ \A a \in Assocs : /\ a.key \in Keys /\ a.value \in Values /\ a.value # NoValue
                       /\ a = [key |-> a.key, value |-> a.value]
BY TableAssumption DEF Assocs

\* A key that is not there, and one that is.
Absent(c, t, k) ==
    Located(t, k) = {} /\ DictOf(t)[k] = NoValue /\ \A v \in Values : ~ Has(c, t, k, v)
Present(c, t, k, i) ==
    /\ i \in 0 .. c - 1 /\ usedSlot(t.slots[i]) /\ t.slots[i].key = k /\ Located(t, k) = {i}
    /\ t.slots[i] \in Assocs /\ DictOf(t)[k] = t.slots[i].value
    /\ t.slots[i] = [key |-> k, value |-> DictOf(t)[k]]
    /\ DictOf(t)[k] \in Values /\ DictOf(t)[k] # NoValue
    /\ \A v \in Values : Has(c, t, k, v) <=> v = DictOf(t)[k]

\* A key is either absent or in one slot, which is where it is located.
LEMMA DictIs ==
  ASSUME NEW c, NEW t, Good(c, t), NEW k \in Keys
  PROVE  Absent(c, t, k) \/ \E i : Present(c, t, k, i)
<1>1. /\ t.slots \in [0 .. c - 1 -> Slots] /\ Distinct(c, t)
  BY DEF Good, Tables
<1>2. PICK L : L = {i \in 0 .. c - 1 : Holds(t.slots[i], k)}
  OBVIOUS
<1>3. Located(t, k) = L
  BY <1>2, LocatedIs
<1>4. DictOf(t)[k] = IF L = {} THEN NoValue ELSE t.slots[CHOOSE i \in L : TRUE].value
  <2>1. L = {i \in DOMAIN t.slots : Holds(t.slots[i], k)}
    BY <1>1, <1>2
  <2>. QED
    BY <2>1 DEF DictOf
<1>5. \A v \in Values, j \in 0 .. c - 1 :
         t.slots[j] = [key |-> k, value |-> v] => j \in L
  <2>1. ASSUME NEW v \in Values, NEW j \in 0 .. c - 1, t.slots[j] = [key |-> k, value |-> v]
        PROVE  j \in L
    <3>1. t.slots[j] \in Assocs /\ t.slots[j].key = k
      BY <2>1, AssocIs
    <3>2. usedSlot(t.slots[j])
      BY <3>1, SlotKinds
    <3>. QED
      BY <1>2, <3>1, <3>2 DEF Holds
  <2>. QED
    BY <2>1
<1>6. CASE L = {}
  <2>1. \A v \in Values : ~ Has(c, t, k, v)
    BY <1>5, <1>6 DEF Has, In
  <2>. QED
    BY <1>3, <1>4, <1>6, <2>1 DEF Absent
<1>7. CASE L # {}
  <2>1. PICK i : i = CHOOSE j \in L : TRUE
    OBVIOUS
  <2>2. i \in L
    BY <1>7, <2>1
  <2>3. i \in 0 .. c - 1 /\ usedSlot(t.slots[i]) /\ t.slots[i].key = k
    BY <1>2, <2>2 DEF Holds
  <2>4. \A j \in L : j = i
    BY <1>1, <1>2, <2>3 DEF Distinct, Holds
  <2>5. t.slots[i] \in Assocs
    BY <1>1, <2>3, SlotKinds
  <2>6. PICK w : w = t.slots[i].value
    OBVIOUS
  <2>7. w \in Values /\ w # NoValue /\ t.slots[i] = [key |-> k, value |-> w]
    BY <2>3, <2>5, <2>6, AssocIs
  <2>8. DictOf(t)[k] = w
    BY <1>4, <1>7, <2>1, <2>6
  <2>9. ASSUME NEW v \in Values PROVE Has(c, t, k, v) <=> v = w
    <3>1. ASSUME Has(c, t, k, v) PROVE v = w
      <4>1. PICK j \in 0 .. c - 1 : t.slots[j] = [key |-> k, value |-> v]
        BY <3>1 DEF Has, In
      <4>2. j = i
        BY <1>5, <2>4, <4>1
      <4>. QED
        BY <2>6, <4>1, <4>2
    <3>2. ASSUME v = w PROVE Has(c, t, k, v)
      BY <2>3, <2>7, <3>2 DEF Has, In
    <3>. QED
      BY <3>1, <3>2
  <2>10. Located(t, k) = {i}
    BY <1>3, <2>2, <2>4
  <2>. QED
    BY <2>3, <2>5, <2>6, <2>7, <2>8, <2>9, <2>10 DEF Present
<1>. QED
  BY <1>6, <1>7

\* The dictionary is determined by the associations.
LEMMA DictByAssocs ==
  ASSUME NEW d, NEW g, Good(d, g), NEW k \in Keys, NEW w
  PROVE  /\ w \in Values /\ Has(d, g, k, w) => DictOf(g)[k] = w
         /\ (\A v \in Values : ~ Has(d, g, k, v)) => DictOf(g)[k] = NoValue
<1>1. CASE Absent(d, g, k)
  BY <1>1 DEF Absent
<1>2. CASE \E i : Present(d, g, k, i)
  BY <1>2 DEF Present
<1>. QED
  BY <1>1, <1>2, DictIs

\* The value of a key is the same if its associations are.
LEMMA SameDict ==
  ASSUME NEW c, NEW t, Good(c, t), NEW d, NEW g, Good(d, g), NEW k \in Keys,
         \A v \in Values : Has(d, g, k, v) <=> Has(c, t, k, v)
  PROVE  DictOf(g)[k] = DictOf(t)[k]
<1>1. CASE Absent(c, t, k)
  BY <1>1, DictByAssocs DEF Absent
<1>2. CASE \E i : Present(c, t, k, i)
  <2>1. DictOf(t)[k] \in Values /\ Has(c, t, k, DictOf(t)[k])
    BY <1>2 DEF Present
  <2>2. Has(d, g, k, DictOf(t)[k])
    BY <2>1
  <2>. QED
    BY <2>1, <2>2, DictByAssocs
<1>. QED
  BY <1>1, <1>2, DictIs

\* The dictionary with another value of one key.
LEMMA DictChanges ==
  ASSUME NEW t, NEW g, NEW k \in Keys, NEW w, DictOf(g)[k] = w,
         \A l \in Keys : l # k => DictOf(g)[l] = DictOf(t)[l]
  PROVE  DictOf(g) = [DictOf(t) EXCEPT ![k] = w]
<1>1. PICK f, h : f = DictOf(t) /\ h = DictOf(g)
  OBVIOUS
<1>2. f = [l \in Keys |-> f[l]] /\ h = [l \in Keys |-> h[l]]
  BY <1>1 DEF DictOf
<1>3. \A l \in Keys : h[l] = IF l = k THEN w ELSE f[l]
  BY <1>1
<1>4. [f EXCEPT ![k] = w] = [l \in Keys |-> IF l = k THEN w ELSE f[l]]
  BY <1>2
<1>. QED
  BY <1>1, <1>2, <1>3, <1>4

\* The dictionary with an association added.
LEMMA AddedDict ==
  ASSUME NEW c, NEW t, Good(c, t), NEW d, NEW g, Good(d, g), NEW k \in Keys, NEW v \in Values,
         \A b \in Assocs : In(d, g, b) <=> (In(c, t, b) /\ b.key # k) \/ b = [key |-> k, value |-> v]
  PROVE  DictOf(g) = [DictOf(t) EXCEPT ![k] = v]
<1>1. ASSUME NEW l \in Keys, NEW u \in Values
      PROVE  Has(d, g, l, u) <=> IF l = k THEN u = v ELSE Has(c, t, l, u)
  <2>1. PICK b : b = [key |-> l, value |-> u]
    OBVIOUS
  <2>2. b \in Assocs /\ b.key = l /\ b.value = u
    BY <2>1, AssocIs
  <2>3. b = [key |-> k, value |-> v] <=> l = k /\ u = v
    BY <2>1
  <2>. QED
    BY <2>1, <2>2, <2>3 DEF Has
<1>2. DictOf(g)[k] = v
  BY <1>1, DictByAssocs
<1>3. \A l \in Keys : l # k => DictOf(g)[l] = DictOf(t)[l]
  BY <1>1, SameDict
<1>. QED
  BY <1>2, <1>3, DictChanges

\* The dictionary with a key removed.
LEMMA RemovedDict ==
  ASSUME NEW c, NEW t, Good(c, t), NEW d, NEW g, Good(d, g), NEW k \in Keys,
         \A b \in Assocs : In(d, g, b) <=> In(c, t, b) /\ b.key # k
  PROVE  DictOf(g) = [DictOf(t) EXCEPT ![k] = NoValue]
<1>1. ASSUME NEW l \in Keys, NEW u \in Values
      PROVE  Has(d, g, l, u) <=> l # k /\ Has(c, t, l, u)
  <2>1. PICK b : b = [key |-> l, value |-> u]
    OBVIOUS
  <2>2. b \in Assocs /\ b.key = l
    BY <2>1, AssocIs
  <2>. QED
    BY <2>1, <2>2 DEF Has
<1>2. DictOf(g)[k] = NoValue
  BY <1>1, DictByAssocs
<1>3. \A l \in Keys : l # k => DictOf(g)[l] = DictOf(t)[l]
  BY <1>1, SameDict
<1>. QED
  BY <1>2, <1>3, DictChanges

\* The dictionary depends only on the associations.
LEMMA SameAssocs ==
  ASSUME NEW c, NEW t, Good(c, t), NEW d, NEW g, Good(d, g),
         \A b \in Assocs : In(d, g, b) <=> In(c, t, b)
  PROVE  DictOf(g) = DictOf(t)
<1>1. \A k \in Keys, v \in Values : Has(d, g, k, v) <=> Has(c, t, k, v)
  BY AssocIs DEF Has
<1>2. \A k \in Keys : DictOf(g)[k] = DictOf(t)[k]
  BY <1>1, SameDict
<1>. QED
  BY <1>2 DEF DictOf

-----------------------------------------------------------------------------
(* Each operation, and the dictionary it leaves.                           *)

\* The association of another key is another one.
LEMMA OtherKeys ==
  ASSUME NEW c, NEW t, Good(c, t), NEW k, NEW i \in 0 .. c - 1, usedSlot(t.slots[i]),
         t.slots[i].key = k, NEW b \in Assocs, In(c, t, b)
  PROVE  b # t.slots[i] <=> b.key # k
<1>1. PICK j \in 0 .. c - 1 : t.slots[j] = b
  BY DEF In
<1>2. usedSlot(b)
  BY SlotKinds
<1>. QED
  BY <1>1, <1>2 DEF Good, Distinct

\* addAssoc() adds an association when its key is not there.
LEMMA AddIs ==
  ASSUME NEW q, NEW p, Roomy(q, p), NEW c, NEW t, Fits(q, p, c, t),
         NEW k \in Keys, NEW v \in Values, NEW g, g = addAssoc(t, [key |-> k, value |-> v])
  PROVE  /\ \E d : Fits(q, p, d, g)
         /\ DictOf(g) = IF DictOf(t)[k] = NoValue THEN [DictOf(t) EXCEPT ![k] = v] ELSE DictOf(t)
         /\ Located(Grown(t), k) = {} <=> DictOf(t)[k] = NoValue
<1>1. Good(c, t)
  BY DEF Fits
<1>2. PICK h, a : h = Grown(t) /\ a = [key |-> k, value |-> v]
  OBVIOUS
<1>3. PICK d : Fits(q, p, d, h) /\ h.used + 1 < d /\ \A b \in Assocs : In(d, h, b) <=> In(c, t, b)
  BY <1>2, GrownIs
<1>4. Good(d, h)
  BY <1>3 DEF Fits
<1>5. DictOf(h) = DictOf(t)
  BY <1>1, <1>3, <1>4, SameAssocs
<1>6. a \in Assocs /\ a.key = k /\ g = insert(h, a)
  BY <1>2, AssocIs DEF addAssoc
<1>7. CASE Absent(d, h, k)
  <2>1. Located(h, k) = {} /\ DictOf(t)[k] = NoValue
    BY <1>5, <1>7 DEF Absent
  <2>2. Good(d, g) /\ \E j : Placed(d, h, a, j, g)
    BY <1>3, <1>4, <1>6, <2>1, InsertIs
  <2>3. \A b \in Assocs : In(d, g, b) <=> In(d, h, b) \/ b = a
    BY <1>4, <1>6, <2>2, InsertedIn
  <2>4. \A b \in Assocs : In(d, h, b) => b.key # k
    <3>1. ASSUME NEW b \in Assocs, In(d, h, b), b.key = k PROVE FALSE
      <4>1. b = [key |-> k, value |-> b.value] /\ b.value \in Values
        BY <3>1, AssocIs
      <4>2. Has(d, h, k, b.value)
        BY <3>1, <4>1 DEF Has
      <4>. QED
        BY <1>7, <4>1, <4>2 DEF Absent
    <3>. QED
      BY <3>1
  <2>5. DictOf(g) = [DictOf(h) EXCEPT ![k] = v]
    <3>1. \A b \in Assocs : In(d, g, b) <=> (In(d, h, b) /\ b.key # k) \/ b = [key |-> k, value |-> v]
      BY <1>2, <2>3, <2>4
    <3>. QED
      BY <1>4, <2>2, <3>1, AddedDict
  <2>6. Fits(q, p, d, g)
    <3>1. g.deleted <= h.deleted /\ g.deleted \in Nat /\ h.deleted \in Nat
      BY <1>4, <2>2 DEF Placed, Good, Tables
    <3>. QED
      BY <1>3, <2>2, <3>1 DEF Fits
  <2>. QED
    BY <1>2, <1>5, <2>1, <2>5, <2>6
<1>8. CASE \E i : Present(d, h, k, i)
  <2>1. Located(h, k) # {} /\ DictOf(t)[k] # NoValue
    BY <1>5, <1>8 DEF Present
  <2>2. g = h
    BY <1>6, <2>1, InsertTwice
  <2>. QED
    BY <1>2, <1>3, <1>5, <2>1, <2>2
<1>. QED
  BY <1>4, <1>7, <1>8, DictIs

\* update() of a key that is there changes its value.
LEMMA UpdateIs ==
  ASSUME NEW q, NEW p, NEW c, NEW t, Fits(q, p, c, t), NEW k \in Keys, NEW i, Present(c, t, k, i),
         NEW v \in Values, NEW g, g = [t EXCEPT !.slots[i].value = v]
  PROVE  Fits(q, p, c, g) /\ DictOf(g) = [DictOf(t) EXCEPT ![k] = v]
<1>1. Good(c, t) /\ i \in 0 .. c - 1 /\ usedSlot(t.slots[i]) /\ t.slots[i].key = k
  BY DEF Fits, Present
<1>2. /\ Good(c, g) /\ g.deleted = t.deleted
      /\ \A b \in Assocs : In(c, g, b) <=>
          (In(c, t, b) /\ b # t.slots[i]) \/ b = [key |-> t.slots[i].key, value |-> v]
  BY <1>1, ReplacedIs
<1>3. \A b \in Assocs : In(c, g, b) <=> (In(c, t, b) /\ b.key # k) \/ b = [key |-> k, value |-> v]
  BY <1>1, <1>2, OtherKeys
<1>4. DictOf(g) = [DictOf(t) EXCEPT ![k] = v]
  BY <1>1, <1>2, <1>3, AddedDict
<1>. QED
  BY <1>2, <1>4 DEF Fits

\* remove() of a key that is there.
LEMMA RemovedIs ==
  ASSUME NEW q, NEW p, Roomy(q, p), NEW c, NEW t, Fits(q, p, c, t),
         NEW k \in Keys, NEW i, Present(c, t, k, i), NEW g, g = removeAssoc(t, i)
  PROVE  (\E d : Fits(q, p, d, g)) /\ DictOf(g) = [DictOf(t) EXCEPT ![k] = NoValue]
<1>1. Good(c, t) /\ i \in 0 .. c - 1 /\ usedSlot(t.slots[i]) /\ t.slots[i].key = k
  BY DEF Fits, Present
<1>2. PICK d : /\ Fits(q, p, d, g)
               /\ \A b \in Assocs : In(d, g, b) <=> In(c, t, b) /\ b # t.slots[i]
  BY <1>1, RemoveIs
<1>3. \A b \in Assocs : In(d, g, b) <=> In(c, t, b) /\ b.key # k
  BY <1>1, <1>2, OtherKeys
<1>4. Good(d, g)
  BY <1>2 DEF Fits
<1>. QED
  BY <1>1, <1>2, <1>3, <1>4, RemovedDict

-----------------------------------------------------------------------------
(* The theorem about the hash table.                                       *)

\* What IsDictionary is not inductive without: the counters are exact and leave a
\* slot free, no key is there twice, each key is on its path before the first
\* free slot, and the capacity is one that the next prime can still relieve.
TableInv(q, p) == \E c : Fits(q, p, c, Table)

\* A table is its slots and its two counters.
LEMMA TableParts ==
  ASSUME NEW q, NEW p, NEW c, NEW g, Fits(q, p, c, g)
  PROVE  g = [slots |-> g.slots, used |-> g.used, deleted |-> g.deleted]
BY DEF Fits, Good, Tables

\* The table of the next state.
LEMMA NextTable ==
  ASSUME NEW q, NEW p, NEW g, \E d : Fits(q, p, d, g), Becomes(g)
  PROVE  TableInv(q, p)' /\ Table' = g
<1>1. PICK d : Fits(q, p, d, g)
  OBVIOUS
<1>2. g = [slots |-> g.slots, used |-> g.used, deleted |-> g.deleted]
  BY <1>1, TableParts
<1>3. Table' = g
  BY <1>2 DEF Table, Becomes
<1>. QED
  BY <1>1, <1>3 DEF TableInv

\* The dictionary of this state.
LEMMA DictState ==
  [k \in Keys |->
     LET of == {i \in DOMAIN a_table : Holds(a_table[i], k)}
     IN  IF of = {} THEN NoValue ELSE a_table[CHOOSE i \in of : TRUE].value] = DictOf(Table)
BY DEF DictOf, Table

\* The dictionary of the next state.
LEMMA DictNextState ==
  [k \in Keys |->
     LET of == {i \in DOMAIN a_table : Holds(a_table[i], k)}
     IN  IF of = {} THEN NoValue ELSE a_table[CHOOSE i \in of : TRUE].value]' = DictOf(Table')
BY DEF DictOf, Table

\* A new table is empty.
LEMMA TableStarts ==
  ASSUME NEW q, NEW p, Roomy(q, p), TableInit
  PROVE  TableInv(q, p) /\ DictOf(Table) = [k \in Keys |-> NoValue]
<1>1. q \in Primes /\ p \in Primes /\ minCapacity <= q /\ q < p /\ minCapacity \in Nat
      /\ q \in Nat /\ p \in Nat
  BY PrimesAreNumbers, TableAssumption DEF Roomy
<1>2. PICK d : d = newCapacity(minCapacity)
  OBVIOUS
<1>3. d \in Primes /\ d \in Nat /\ d > 0 /\ d <= q
  BY <1>1, <1>2, NewCapacityIs
<1>4. PICK e : e = Empty(d)
  OBVIOUS
<1>5. Good(d, e) /\ e.deleted = 0 /\ \A i \in 0 .. d - 1 : e.slots[i] = FreeSlot
  BY <1>3, <1>4, EmptyIsGood
<1>6. Table = e
  BY <1>2, <1>4 DEF TableInit, Table, Empty
<1>7. Fits(q, p, d, e)
  BY <1>1, <1>3, <1>5 DEF Fits
<1>8. \A k \in Keys, v \in Values : ~ Has(d, e, k, v)
  BY <1>5, AssocIs, SlotKinds DEF Has, In
<1>9. \A k \in Keys : DictOf(e)[k] = NoValue
  BY <1>5, <1>8, DictByAssocs
<1>10. DictOf(e) = [k \in Keys |-> NoValue]
  BY <1>9 DEF DictOf
<1>. QED
  BY <1>6, <1>7, <1>10 DEF TableInv

\* What a lookup returns.
LEMMA LookupIs ==
  ASSUME NEW c, NEW t, NEW k \in Keys, Good(c, t)
  PROVE  /\ Located(t, k) = {} <=> DictOf(t)[k] = NoValue
         /\ DictOf(t)[k] # NoValue => ValuesOf(t, k) = {DictOf(t)[k]}
         /\ Located(t, k) = {} => ValuesOf(t, k) = {}
<1>1. CASE Absent(c, t, k)
  BY <1>1 DEF Absent, ValuesOf
<1>2. CASE \E i : Present(c, t, k, i)
  <2>1. PICK i : Present(c, t, k, i)
    BY <1>2
  <2>2. Located(t, k) = {i} /\ t.slots[i].value = DictOf(t)[k] /\ DictOf(t)[k] # NoValue
    BY <2>1 DEF Present
  <2>. QED
    BY <2>2 DEF ValuesOf
<1>. QED
  BY <1>1, <1>2, DictIs

\* query() keeps the invariant and is the query of the dictionary.
LEMMA QueryStep ==
  ASSUME NEW q, NEW p, TableInv(q, p), NEW k \in Keys, query(k)
  PROVE  TableInv(q, p)' /\ Dict!query(k)
<1>1. PICK c : Fits(q, p, c, Table)
  BY DEF TableInv
<1>2. Good(c, Table)
  BY <1>1 DEF Fits
<1>3. TableInv(q, p)' /\ Table' = Table
  <2>1. Becomes(Table)
    BY DEF query
  <2>. QED
    BY <1>1, <2>1, NextTable
<1>4. PICK w : w = DictOf(Table)[k]
  OBVIOUS
<1>5. TableAnswer("query", k, w # NoValue, w)
  BY <1>2, <1>4, LookupIs DEF query, Found, NotFound
<1>6. Dict!query(k)
  BY <1>3, <1>4, <1>5, DictState, DictNextState DEF Dict!query, Dict!Answer, TableAnswer
<1>. QED
  BY <1>3, <1>6

\* add() keeps the invariant and adds to the dictionary, also when the table grows.
LEMMA AddStep ==
  ASSUME NEW q, NEW p, Roomy(q, p), TableInv(q, p), NEW k \in Keys, NEW v \in Values, add(k, v)
  PROVE  TableInv(q, p)' /\ Dict!add(k, v)
<1>1. PICK c : Fits(q, p, c, Table)
  BY DEF TableInv
<1>2. PICK g : g = addAssoc(Table, [key |-> k, value |-> v])
  OBVIOUS
<1>3. PICK D : D = DictOf(Table)
  OBVIOUS
<1>4. /\ \E d : Fits(q, p, d, g)
      /\ DictOf(g) = IF D[k] = NoValue THEN [D EXCEPT ![k] = v] ELSE D
      /\ Located(Grown(Table), k) = {} <=> D[k] = NoValue
  BY <1>1, <1>2, <1>3, AddIs
<1>5. TableInv(q, p)' /\ Table' = g
  <2>1. Becomes(g)
    BY <1>2 DEF add
  <2>. QED
    BY <1>4, <2>1, NextTable
<1>6. TableAnswer("add", k, D[k] = NoValue, NoValue)
  BY <1>4 DEF add, TableAnswer
<1>7. Dict!add(k, v)
  BY <1>3, <1>4, <1>5, <1>6, DictState, DictNextState DEF Dict!add, Dict!Answer, TableAnswer
<1>. QED
  BY <1>5, <1>7

\* update() keeps the invariant and changes or adds one association.
LEMMA UpdateStep ==
  ASSUME NEW q, NEW p, Roomy(q, p), TableInv(q, p), NEW k \in Keys, NEW v \in Values, update(k, v)
  PROVE  TableInv(q, p)' /\ Dict!update(k, v)
<1>1. PICK c : Fits(q, p, c, Table)
  BY DEF TableInv
<1>2. Good(c, Table)
  BY <1>1 DEF Fits
<1>3. PICK D : D = DictOf(Table)
  OBVIOUS
<1>4. CASE Absent(c, Table, k)
  <2>1. Located(Table, k) = {} /\ D[k] = NoValue /\ ValuesOf(Table, k) = {}
    BY <1>3, <1>4 DEF Absent, ValuesOf
  <2>2. PICK g : g = addAssoc(Table, [key |-> k, value |-> v])
    OBVIOUS
  <2>3. Becomes(g) /\ TableAnswer("update", k, TRUE, NoValue)
    BY <2>1, <2>2 DEF update, Found
  <2>4. (\E d : Fits(q, p, d, g)) /\ DictOf(g) = [D EXCEPT ![k] = v]
    BY <1>1, <1>3, <2>1, <2>2, AddIs
  <2>5. TableInv(q, p)' /\ Table' = g
    BY <2>3, <2>4, NextTable
  <2>6. Dict!update(k, v)
    BY <1>3, <2>1, <2>3, <2>4, <2>5, DictState, DictNextState
       DEF Dict!update, Dict!Answer, TableAnswer
  <2>. QED
    BY <2>5, <2>6
<1>5. CASE \E i : Present(c, Table, k, i)
  <2>1. PICK i : Present(c, Table, k, i)
    BY <1>5
  <2>2. Located(Table, k) = {i} /\ ValuesOf(Table, k) = {D[k]}
    BY <1>2, <1>3, <2>1, LookupIs DEF Present
  <2>3. PICK g : g = [Table EXCEPT !.slots[i].value = v]
    OBVIOUS
  <2>4. Becomes(g) /\ TableAnswer("update", k, TRUE, D[k])
    BY <2>2, <2>3 DEF update, Found
  <2>5. Fits(q, p, c, g) /\ DictOf(g) = [D EXCEPT ![k] = v]
    BY <1>1, <1>3, <2>1, <2>3, UpdateIs
  <2>6. TableInv(q, p)' /\ Table' = g
    BY <2>4, <2>5, NextTable
  <2>7. Dict!update(k, v)
    BY <1>3, <2>4, <2>5, <2>6, DictState, DictNextState
       DEF Dict!update, Dict!Answer, TableAnswer
  <2>. QED
    BY <2>6, <2>7
<1>. QED
  BY <1>2, <1>4, <1>5, DictIs

\* remove() keeps the invariant and removes from the dictionary, also when the table shrinks.
LEMMA RemoveStep ==
  ASSUME NEW q, NEW p, Roomy(q, p), TableInv(q, p), NEW k \in Keys, remove(k)
  PROVE  TableInv(q, p)' /\ Dict!remove(k)
<1>1. PICK c : Fits(q, p, c, Table)
  BY DEF TableInv
<1>2. Good(c, Table)
  BY <1>1 DEF Fits
<1>3. PICK D : D = DictOf(Table)
  OBVIOUS
<1>4. CASE Absent(c, Table, k)
  <2>1. Located(Table, k) = {} /\ D[k] = NoValue /\ ValuesOf(Table, k) = {}
    BY <1>3, <1>4 DEF Absent, ValuesOf
  <2>2. Becomes(Table) /\ TableAnswer("remove", k, FALSE, NoValue)
    BY <2>1 DEF remove, Found, NotFound
  <2>3. TableInv(q, p)' /\ Table' = Table
    BY <1>1, <2>2, NextTable
  <2>4. D = [D EXCEPT ![k] = NoValue]
    BY <1>3, <2>1 DEF DictOf
  <2>5. Dict!remove(k)
    BY <1>3, <2>1, <2>2, <2>3, <2>4, DictState, DictNextState
       DEF Dict!remove, Dict!Answer, TableAnswer
  <2>. QED
    BY <2>3, <2>5
<1>5. CASE \E i : Present(c, Table, k, i)
  <2>1. PICK i : Present(c, Table, k, i)
    BY <1>5
  <2>2. Located(Table, k) = {i} /\ ValuesOf(Table, k) = {D[k]} /\ D[k] # NoValue
    BY <1>2, <1>3, <2>1, LookupIs DEF Present
  <2>3. PICK g : g = removeAssoc(Table, i)
    OBVIOUS
  <2>4. Becomes(g) /\ TableAnswer("remove", k, TRUE, D[k])
    BY <2>2, <2>3 DEF remove, Found, NotFound
  <2>5. (\E d : Fits(q, p, d, g)) /\ DictOf(g) = [D EXCEPT ![k] = NoValue]
    BY <1>1, <1>3, <2>1, <2>3, RemovedIs
  <2>6. TableInv(q, p)' /\ Table' = g
    BY <2>4, <2>5, NextTable
  <2>7. Dict!remove(k)
    BY <1>3, <2>2, <2>4, <2>5, <2>6, DictState, DictNextState
       DEF Dict!remove, Dict!Answer, TableAnswer
  <2>. QED
    BY <2>6, <2>7
<1>. QED
  BY <1>2, <1>4, <1>5, DictIs

\* Each operation keeps the invariant and is one of the dictionary.
LEMMA TableStep ==
  ASSUME NEW q, NEW p, Roomy(q, p), TableInv(q, p), [TableNext]_tableVars
  PROVE  TableInv(q, p)' /\ [Dict!Next]_(Dict!vars)
<1>1. ASSUME NEW k \in Keys, query(k) PROVE TableInv(q, p)' /\ Dict!Next
  BY <1>1, QueryStep DEF Dict!Next
<1>2. ASSUME NEW k \in Keys, remove(k) PROVE TableInv(q, p)' /\ Dict!Next
  BY <1>2, RemoveStep DEF Dict!Next
<1>3. ASSUME NEW k \in Keys, NEW v \in Values, add(k, v) PROVE TableInv(q, p)' /\ Dict!Next
  BY <1>3, AddStep DEF Dict!Next
<1>4. ASSUME NEW k \in Keys, NEW v \in Values, update(k, v) PROVE TableInv(q, p)' /\ Dict!Next
  BY <1>4, UpdateStep DEF Dict!Next
<1>5. CASE UNCHANGED tableVars
  <2>1. Table' = Table /\ tableOperation' = tableOperation /\ tableAnswer' = tableAnswer
    BY <1>5 DEF tableVars, Table
  <2>2. UNCHANGED Dict!vars
    BY <2>1, DictState, DictNextState DEF Dict!vars
  <2>3. TableInv(q, p)'
    BY <2>1 DEF TableInv
  <2>. QED
    BY <2>2, <2>3
<1>. QED
  BY <1>1, <1>2, <1>3, <1>4, <1>5 DEF TableNext

\* There are enough primes for the keys.
PrimesSuffice == \E q, p \in Primes : Roomy(q, p)

\* However often add(), update() and remove() grow and shrink a PltHashTable,
\* leave marks in it and reuse them, what query() finds is what was last added or
\* updated and not removed since.  Only the number of the primes limits the keys.
THEOREM TableIsDictionary ==
  ASSUME PrimesSuffice
  PROVE  TableSpec => IsDictionary
<1>1. PICK q, p \in Primes : Roomy(q, p)
  BY DEF PrimesSuffice
<1>2. TableInit => TableInv(q, p) /\ Dict!Init
  <2>1. HAVE TableInit
  <2>2. TableInv(q, p) /\ DictOf(Table) = [k \in Keys |-> NoValue]
    BY <1>1, <2>1, TableStarts
  <2>3. Dict!Init
    BY <2>1, <2>2, DictState DEF Dict!Init, TableInit
  <2>. QED
    BY <2>2, <2>3
<1>3. TableInv(q, p) /\ [TableNext]_tableVars => TableInv(q, p)' /\ [Dict!Next]_(Dict!vars)
  BY <1>1, TableStep
<1>. QED
  BY <1>2, <1>3, PTL DEF TableSpec, IsDictionary, Dict!Spec
=============================================================================
