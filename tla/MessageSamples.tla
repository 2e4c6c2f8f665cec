--------------------------- MODULE MessageSamples ---------------------------
(***************************************************************************)
(* Samples, for TLC, of what a layout can hold: a value in which every     *)
(* member has a number of its own, and those that differ from it in one    *)
(* place.  Two members that are confused do not go unnoticed then.         *)
(***************************************************************************)
EXTENDS WireFormats

LOCAL INSTANCE FiniteSetsExt

RECURSIVE SampleOf(_, _), SamplesOf(_, _)

OrderOf(T) == T.encode.first \o T.encode.then

Seed(T, m, n) == n + 3 * (CHOOSE i \in DOMAIN OrderOf(T) : OrderOf(T)[i] = m)

\* The member on which it depends whether others are written.
Decides(T, m) == T.encode.values # {} /\ m = Last(T.encode.first)

SampleClass(T, n) ==
    [m \in Range(OrderOf(T)) |->
       IF Decides(T, m) THEN CHOOSE v \in T.encode.values : TRUE
       ELSE SampleOf(T.of[m], Seed(T, m, n))]

OneOfKind(T, tag, n) ==
    [tag |-> tag] @@ SampleOf(T.variants[tag], n) @@ SampleOf(T.common, n + 20)

SampleOf(T, n) ==
    CASE T.kind \in {"word", "ushort"} -> n
      [] T.kind = "bool" -> 1
      [] T.kind \in {"double", "string"} -> <<n, n + 1>>
      [] T.kind \in {"time", "timespan"} -> [sec |-> n, usec |-> n + 1]
      [] T.kind = "list" -> <<SampleOf(T.of, n)>>
      [] T.kind = "handle" -> SampleOf(T.of, n)
      [] T.kind = "class" -> SampleClass(T, n)
      [] T.kind = "union" -> OneOfKind(T, Max(DOMAIN T.variants), n)

\* Of a union, every kind there is in one list.
Several(T, n) ==
    IF T.kind = "handle" /\ T.of.kind = "union"
    THEN LET tags == SetToSortSeq(DOMAIN T.of.variants, >)
         IN [i \in DOMAIN tags |-> OneOfKind(T.of, tags[i], n + i)]
    ELSE <<SampleOf(T, n), SampleOf(T, n + 7)>>

WithoutUnwritten(T, v) == [m \in Range(FieldsOf(T.encode, v)) |-> v[m]]

SamplesOfClass(T, n) ==
    LET v == SampleClass(T, n)
        Others(m) == IF Decides(T, m) THEN T.encode.values \cup {0, 1}
                                      ELSE SamplesOf(T.of[m], Seed(T, m, n))
    IN {v} \cup UNION {{WithoutUnwritten(T, [v EXCEPT ![m] = x]) : x \in Others(m)} :
                       m \in DOMAIN v}

SamplesOf(T, n) ==
    CASE T.kind \in {"word", "ushort", "double", "time", "timespan"} -> {SampleOf(T, n)}
      [] T.kind = "bool" -> {0, 1}
      [] T.kind = "string" -> {<<>>, <<n, n + 1>>}
      [] T.kind = "list" ->
           {<<>>, Several(T.of, n)} \cup {<<v>> : v \in SamplesOf(T.of, n)}
      [] T.kind = "handle" -> {Unbound} \cup SamplesOf(T.of, n)
      [] T.kind = "class" -> SamplesOfClass(T, n)
      [] T.kind = "union" ->
           UNION {{[tag |-> tag] @@ v @@ SampleOf(T.common, n + 20) :
                     v \in SamplesOf(T.variants[tag], n)} : tag \in DOMAIN T.variants}
           \cup {v @@ OneOfKind(T, Max(DOMAIN T.variants), n) :
                     v \in SamplesOf(T.common, n + 20)}
=============================================================================
