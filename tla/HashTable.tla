----------------------------- MODULE HashTable -----------------------------
(***************************************************************************)
(* The hash table of plt/hashtable.h: open addressing, removed entries     *)
(* leave a mark, and the table is rehashed into another prime capacity     *)
(* when it is too full or too empty.  A slot is free, a mark or an         *)
(* association.  The water marks are in tenths of the capacity.            *)
(***************************************************************************)
EXTENDS Naturals, FiniteSets, Sequences

CONSTANTS
    Keys, Values, NoValue,
    keyHash,                       \* the hash of each key
    minCapacity, lowwater, highwater,
    FreeSlot, Deleted

ASSUME WaterMarks == lowwater \in 1 .. 8 /\ highwater \in lowwater + 1 .. 9

ASSUME TableAssumption ==
    /\ IsFiniteSet(Keys) /\ keyHash \in [Keys -> Nat] /\ minCapacity \in Nat
    /\ NoValue \notin Values /\ FreeSlot # Deleted
    /\ {FreeSlot, Deleted} \cap [key : Keys, value : Values] = {}

VARIABLES
    a_table,                       \* the slots, from 0 to capacity - 1
    a_used, a_deleted,             \* counters of the slots that are not free, of marks
    tableOperation,                \* the last operation, and its key
    tableAnswer                    \* whether it succeeded, and a value

tableVars == <<a_table, a_used, a_deleted, tableOperation, tableAnswer>>

primes == <<7, 11, 13, 17, 19, 23, 29, 31, 41, 47>>

a_capacity(t) == Cardinality(DOMAIN t.slots)
usedSlot(s) == s \notin {FreeSlot, Deleted}
size(t) == t.used - t.deleted
medwater == lowwater + highwater        \* in twentieths

\* Probing continues a few steps of growing width, then one by one.
collidx(cap, i, j) == (IF j < 12 THEN i + j ELSE i + 1) % cap

\* The slots that are probed for a key, step by step: every slot is among them.
Path(cap, k) ==
    LET at[n \in 0 .. cap + 5] ==
            IF n = 0 THEN keyHash[k] % cap ELSE collidx(cap, at[n - 1], 2 * n - 1)
    IN  at

\* The slots as they are met on that path.
Met(t, k) == [n \in 0 .. a_capacity(t) + 5 |-> t.slots[Path(a_capacity(t), k)[n]]]

\* The steps that are made, up to and with the one to the first free slot.
Steps(t, k) == {n \in DOMAIN Met(t, k) : \A m \in 0 .. n - 1 : Met(t, k)[m] # FreeSlot}

Holds(s, k) == usedSlot(s) /\ s.key = k

\* Slip: the search ends at a mark.
Located_Mark(t, k) ==
    {Path(a_capacity(t), k)[n] :
       n \in {m \in Steps(t, k) : /\ Holds(Met(t, k)[m], k)
                                 /\ \A l \in 0 .. m : Met(t, k)[l] # Deleted}}

\* locate(): the probed slots that hold the key, none or one.
Located(t, k) ==
    {Path(a_capacity(t), k)[n] : n \in {m \in Steps(t, k) : Holds(Met(t, k)[m], k)}}

\* Into the last mark on the way, or else into the free slot at its end.
insert(t, a) ==
    LET marks == {n \in Steps(t, a.key) : Met(t, a.key)[n] = Deleted}
        free == {n \in Steps(t, a.key) : Met(t, a.key)[n] = FreeSlot}
        at == IF marks = {} THEN CHOOSE n \in free : TRUE
              ELSE CHOOSE n \in marks : \A m \in marks : m <= n
    IN  IF Located(t, a.key) # {} THEN t
        ELSE [slots |-> [t.slots EXCEPT ![Path(a_capacity(t), a.key)[at]] = a],
              used |-> IF marks = {} THEN t.used + 1 ELSE t.used,
              deleted |-> IF marks = {} THEN t.deleted ELSE t.deleted - 1]

Empty(cap) == [slots |-> [i \in 0 .. cap - 1 |-> FreeSlot], used |-> 0, deleted |-> 0]

\* The associations of another table, in the order of its slots.
InsertAll(t, from) ==
    LET filled[i \in 0 .. a_capacity(from)] ==
            IF i = 0 THEN t
            ELSE IF usedSlot(from.slots[i - 1]) THEN insert(filled[i - 1], from.slots[i - 1])
            ELSE filled[i - 1]
    IN  filled[a_capacity(from)]

\* The smallest prime that is enough.
Enough(cap) == {n \in 1 .. Len(primes) : primes[n] >= cap /\ primes[n] >= minCapacity}
newCapacity(cap) == primes[CHOOSE n \in Enough(cap) : \A m \in Enough(cap) : n <= m]

\* Nothing happens when the new capacity is the present one.
changeCapacity(t, cap) ==
    IF newCapacity(cap) = a_capacity(t) THEN t
    ELSE InsertAll(Empty(newCapacity(cap)), t)

AtLeast(a, b) == IF a < b THEN b ELSE a
Preferred(t) == (20 * size(t)) \div medwater

\* addAssoc() grows when no slot would stay free or the table is too full.
Grown(t) ==
    IF a_capacity(t) < t.used + 2 \/ 10 * (size(t) + 1) > highwater * a_capacity(t)
    THEN changeCapacity(t, AtLeast(Preferred(t), t.used + 2)) ELSE t

addAssoc(t, a) == insert(Grown(t), a)

\* removeAssoc() leaves a mark, and shrinks a table that is too empty.
removeAssoc(t, i) ==
    LET marked == [t EXCEPT !.slots[i] = Deleted, !.deleted = @ + 1]
    IN  IF 10 * size(marked) < lowwater * a_capacity(t)
        THEN changeCapacity(marked, Preferred(marked)) ELSE marked

Table == [slots |-> a_table, used |-> a_used, deleted |-> a_deleted]
Becomes(t) == a_table' = t.slots /\ a_used' = t.used /\ a_deleted' = t.deleted

ValuesOf(t, k) == {t.slots[i].value : i \in Located(t, k)}
TableAnswer(op, k, ok, v) ==
    tableOperation' = <<op, k>> /\ tableAnswer' = [ok |-> ok, value |-> v]

TableInit ==
    /\ a_table = Empty(newCapacity(minCapacity)).slots
    /\ a_used = 0 /\ a_deleted = 0
    /\ tableOperation = <<>> /\ tableAnswer = [ok |-> FALSE, value |-> NoValue]

Found(op, k) == \E v \in ValuesOf(Table, k) : TableAnswer(op, k, TRUE, v)
NotFound(op, k) == Located(Table, k) = {} /\ TableAnswer(op, k, FALSE, NoValue)

query(k) == (Found("query", k) \/ NotFound("query", k)) /\ Becomes(Table)

add(k, v) ==
    /\ Becomes(addAssoc(Table, [key |-> k, value |-> v]))
    /\ TableAnswer("add", k, Located(Grown(Table), k) = {}, NoValue)

update(k, v) ==
    \/ /\ Found("update", k)
       /\ \E i \in Located(Table, k) : Becomes([Table EXCEPT !.slots[i].value = v])
    \/ /\ Located(Table, k) = {}
       /\ Becomes(addAssoc(Table, [key |-> k, value |-> v]))
       /\ TableAnswer("update", k, TRUE, NoValue)

remove(k) ==
    \/ /\ Found("remove", k)
       /\ \E i \in Located(Table, k) : Becomes(removeAssoc(Table, i))
    \/ NotFound("remove", k) /\ Becomes(Table)

TableNext == \E k \in Keys :
    \/ query(k) \/ remove(k)
    \/ \E v \in Values : add(k, v) \/ update(k, v)

TableSpec == TableInit /\ [][TableNext]_tableVars

-----------------------------------------------------------------------------
\* Properties

\* The hash table is a dictionary: probing finds every key that is there, marks
\* hide none, and a key is never there twice.
Dict == INSTANCE Dictionary WITH
    dict <- [k \in Keys |->
               LET of == {i \in DOMAIN a_table : Holds(a_table[i], k)}
               IN  IF of = {} THEN NoValue ELSE a_table[CHOOSE i \in of : TRUE].value],
    operation <- tableOperation,
    answer <- tableAnswer
IsDictionary == Dict!Spec
=============================================================================
