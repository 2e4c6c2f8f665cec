---------------------------- MODULE MCStructures ----------------------------
(***************************************************************************)
(* Small instances, for TLC, of the structures a server and the manager    *)
(* keep: the manager's tables, the timer queue, the hash tables, the       *)
(* handles and the memory streams.  Nothing runs between two operations on *)
(* one of them, so a behaviour chooses one at first, which then makes all  *)
(* the steps: the state space is the sum of theirs.                        *)
(***************************************************************************)
EXTENDS Manager, TimerHeap, HashTable, Handles, MemStreams

VARIABLE part

structureVars == <<part, mgrVars, heapVars, tableVars, handleVars, memVars>>

Structures == {"manager", "heap", "table", "handles", "streams"}

StructuresInit ==
    /\ part \in Structures
    /\ ManagerInit /\ HeapInit /\ TableInit /\ HandlesInit /\ MemInit

StructuresNext ==
    /\ UNCHANGED part
    /\ IF part = "manager" THEN ManagerNext ELSE UNCHANGED mgrVars
    /\ IF part = "heap" THEN HeapNext ELSE UNCHANGED heapVars
    /\ IF part = "table" THEN TableNext ELSE UNCHANGED tableVars
    /\ IF part = "handles" THEN HandlesNext ELSE UNCHANGED handleVars
    /\ IF part = "streams" THEN MemNext ELSE UNCHANGED memVars

StructuresSpec == StructuresInit /\ [][StructuresNext]_structureVars

-----------------------------------------------------------------------------
\* Two of the events are due at the same time.
MCTriggerTimes == <<0, 1, 1, 2, 3>>

\* Keys that collide in the smallest tables.
MCKeyHash == <<0, 0, 1, 13>>
=============================================================================
