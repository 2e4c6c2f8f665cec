----------------------------- MODULE Dictionary -----------------------------
(***************************************************************************)
(* What a PltDictionary promises: at most one value for each key.          *)
(***************************************************************************)
CONSTANTS
    Keys, Values,
    NoValue        \* what an operation returns that has no value to return

VARIABLES
    dict,          \* the value of each key, NoValue when it has none
    operation,     \* the last operation, and its key
    answer         \* whether it succeeded, and a value

vars == <<dict, operation, answer>>

Answer(ok, v) == answer' = [ok |-> ok, value |-> v]

Init ==
    /\ dict = [k \in Keys |-> NoValue]
    /\ operation = <<>>
    /\ answer = [ok |-> FALSE, value |-> NoValue]

query(k) ==
    /\ operation' = <<"query", k>>
    /\ Answer(dict[k] # NoValue, dict[k])
    /\ UNCHANGED dict

add(k, v) ==
    /\ operation' = <<"add", k>>
    /\ dict' = IF dict[k] = NoValue THEN [dict EXCEPT ![k] = v] ELSE dict
    /\ Answer(dict[k] = NoValue, NoValue)

update(k, v) ==
    /\ operation' = <<"update", k>>
    /\ dict' = [dict EXCEPT ![k] = v]
    /\ Answer(TRUE, dict[k])

remove(k) ==
    /\ operation' = <<"remove", k>>
    /\ dict' = [dict EXCEPT ![k] = NoValue]
    /\ Answer(dict[k] # NoValue, dict[k])

Next == \E k \in Keys :
    \/ query(k) \/ remove(k)
    \/ \E v \in Values : add(k, v) \/ update(k, v)

Spec == Init /\ [][Next]_vars
=============================================================================
