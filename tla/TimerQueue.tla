----------------------------- MODULE TimerQueue -----------------------------
(***************************************************************************)
(* What the timer event queue of a KS server promises (svrbase.cpp): it    *)
(* gives back the events it was given, an earliest one first.  Events are  *)
(* compared by their trigger times only, also when one is to be removed:   *)
(* which event of that time goes is left open.                             *)
(***************************************************************************)
EXTENDS Naturals

CONSTANTS
    Events,      \* timer events
    triggersAt,  \* the trigger time of each
    NullEvent    \* no event

VARIABLES
    waiting,     \* how often each event waits
    result       \* the last operation: which, whether it succeeded, and its event

vars == <<waiting, result>>

Due == {e \in Events : waiting[e] > 0}
Alike(e) == {f \in Due : triggersAt[f] = triggersAt[e]}

Init ==
    /\ waiting = [e \in Events |-> 0]
    /\ result = [op |-> "none", ok |-> TRUE, event |-> NullEvent]

addTimerEvent(e) ==
    /\ waiting' = [waiting EXCEPT ![e] = @ + 1]
    /\ result' = [op |-> "add", ok |-> TRUE, event |-> e]

removeNextTimerEvent ==
    \E e \in Due :
        /\ \A f \in Due : triggersAt[e] <= triggersAt[f]
        /\ waiting' = [waiting EXCEPT ![e] = @ - 1]
        /\ result' = [op |-> "next", ok |-> TRUE, event |-> e]

removeTimerEvent(e) ==
    \/ \E f \in Alike(e) :
          /\ waiting' = [waiting EXCEPT ![f] = @ - 1]
          /\ result' = [op |-> "remove", ok |-> TRUE, event |-> e]
    \/ /\ Alike(e) = {}
       /\ result' = [op |-> "remove", ok |-> FALSE, event |-> e]
       /\ UNCHANGED waiting

Next ==
    \/ \E e \in Events : addTimerEvent(e) \/ removeTimerEvent(e)
    \/ removeNextTimerEvent

Spec == Init /\ [][Next]_vars
=============================================================================
