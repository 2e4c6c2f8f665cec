----------------------------- MODULE RemoteCall -----------------------------
(***************************************************************************)
(* What a server object of the client promises about a service request     *)
(* (client.cpp): however often the connection is lost, the request is      *)
(* executed at most Tries times, it only succeeds when it was executed,    *)
(* and it ends.                                                            *)
(***************************************************************************)
EXTENDS Naturals

CONSTANT Tries         \* _tries

VARIABLES
    open,              \* a request is under way
    runs               \* how often the server executed the last one

vars == <<open, runs>>

Init == ~ open /\ runs = 0

Request == ~ open /\ open' /\ runs' = 0

Execute == open /\ runs < Tries /\ runs' = runs + 1 /\ UNCHANGED open

\* The answer to the last execution, or a failure.
Return(ok) ==
    /\ open /\ ~ open'
    /\ runs' \in {runs, runs + 1}
    /\ runs' <= Tries
    /\ ok => runs' > 0

Next(ok) == Request \/ Execute \/ Return(ok)

Ends == open ~> ~ open
=============================================================================
