--------------------------- MODULE AsyncConnection ---------------------------
(***************************************************************************)
(* What an interserver connection promises to its user (interserver.h):    *)
(* open() and send() that were accepted are reported exactly once through  *)
(* async_attention(), unless the user closes the connection before.  Only a*)
(* call that ended in an RPC error is reported again and again, until the  *)
(* user closes the connection or sends the next request.                   *)
(***************************************************************************)
VARIABLES
    state,         \* "CLOSED", "OPEN" or "BUSY"
    pending,       \* the operation still to be reported, "ERROR" when an RPC error
                   \* is left in the connection, or "NONE"
    told           \* the operation the user is being told of, or "NONE"

vars == <<state, pending, told>>

Init == state = "CLOSED" /\ pending = "NONE" /\ told = "NONE"

\* At any time, also while the user is being told.
open == state = "CLOSED" /\ state' = "BUSY" /\ pending' = "OPEN" /\ UNCHANGED told
send == state = "OPEN" /\ state' = "BUSY" /\ pending' = "CALL" /\ UNCHANGED told
close == state' = "CLOSED" /\ pending' = "NONE" /\ UNCHANGED told

async_attention(op) ==
    /\ state = "BUSY" /\ pending = op /\ told = "NONE"
    /\ told' = op
    /\ \/ state' \in {"OPEN", "CLOSED"} /\ pending' = "NONE"
       \/ op = "CALL" /\ state' = "OPEN" /\ pending' = "ERROR"

again ==
    /\ state = "OPEN" /\ pending = "ERROR" /\ told = "NONE"
    /\ told' = "CALL"
    /\ UNCHANGED <<state, pending>>

returns == told # "NONE" /\ told' = "NONE" /\ UNCHANGED <<state, pending>>

Next ==
    \/ open \/ send \/ close \/ returns
    \/ async_attention("OPEN") \/ async_attention("CALL") \/ again

Spec == Init /\ [][Next]_vars
=============================================================================
