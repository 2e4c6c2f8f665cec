------------------------------ MODULE Handles ------------------------------
(***************************************************************************)
(* The reference counting handles of plt/handle.h.  All handles of an      *)
(* object share a tracker that counts them; the tracker is created when    *)
(* the object is bound, therefore it has the name of the object here.  An  *)
(* object that is bound as unmanaged has no tracker.                       *)
(***************************************************************************)
EXTENDS Naturals, FiniteSets

CONSTANTS
    Handle,        \* the variables of type PltPtrHandle
    Objects,
    Null

ASSUME HandlesAssumption == IsFiniteSet(Handle) /\ Null \notin Objects

VARIABLES
    prep, palloc,  \* of each handle; both Null when it is unbound
    exists,        \* the handles that are in scope
    count,         \* the counter of each tracker
    object         \* "free", "raw": the caller's own, "bound" or "deleted"

handleVars == <<prep, palloc, exists, count, object>>

HandlesInit ==
    /\ prep = [h \in Handle |-> Null] /\ palloc = [h \in Handle |-> Null]
    /\ exists = {}
    /\ count = [o \in Objects |-> 0]
    /\ object = [o \in Objects |-> "free"]

\* What becomes of the counters and the objects when handle h lets its object go
\* and a handle gets a reference to the tracker a (or to none).
References(h, a) ==
    LET added == [o \in Objects |-> IF o = a THEN count[o] + 1 ELSE count[o]]
        left == [o \in Objects |-> IF o = palloc[h] THEN added[o] - 1 ELSE added[o]]
    IN  /\ count' = left
        /\ object' = [o \in Objects |->
                        IF o = palloc[h] /\ left[o] = 0 THEN "deleted"
                        ELSE IF o = a THEN "bound" ELSE object[o]]

\* Slip: the old object loses its reference before the new one is counted.
assign_Order(h, r) ==
    /\ {h, r} \subseteq exists
    /\ count' = [o \in Objects |-> IF o \in {palloc[h], palloc[r]} /\ palloc[h] # palloc[r]
                                   THEN IF o = palloc[h] THEN count[o] - 1 ELSE count[o] + 1
                                   ELSE count[o]]
    /\ object' = [o \in Objects |-> IF o = palloc[h] /\ count[o] = 1 THEN "deleted"
                                    ELSE object[o]]
    /\ prep' = [prep EXCEPT ![h] = prep[r]]
    /\ palloc' = [palloc EXCEPT ![h] = palloc[r]]
    /\ UNCHANGED exists

\* operator =, also with itself: first one more reference, then one less.
assign(h, r) ==
    /\ {h, r} \subseteq exists
    /\ References(h, palloc[r])
    /\ prep' = [prep EXCEPT ![h] = prep[r]]
    /\ palloc' = [palloc EXCEPT ![h] = palloc[r]]
    /\ UNCHANGED exists

new(o) ==
    /\ object[o] = "free"
    /\ object' = [object EXCEPT ![o] = "raw"]
    /\ UNCHANGED <<prep, palloc, exists, count>>

\* A null pointer and an unmanaged object are bound without a tracker.
bindTo(h, o, managed) ==
    /\ h \in exists
    /\ o # Null => object[o] = "raw"
    /\ LET a == IF managed THEN o ELSE Null IN
       /\ References(h, a)
       /\ prep' = [prep EXCEPT ![h] = o]
       /\ palloc' = [palloc EXCEPT ![h] = a]
    /\ UNCHANGED exists

construct(h) ==
    /\ h \notin exists
    /\ exists' = exists \cup {h}
    /\ UNCHANGED <<prep, palloc, count, object>>

\* Slip: the copy is not counted.
copy_Uncounted(h, r) ==
    /\ h \notin exists /\ r \in exists
    /\ exists' = exists \cup {h}
    /\ prep' = [prep EXCEPT ![h] = prep[r]] /\ palloc' = [palloc EXCEPT ![h] = palloc[r]]
    /\ UNCHANGED <<count, object>>

copy(h, r) ==
    /\ h \notin exists /\ r \in exists
    /\ exists' = exists \cup {h}
    /\ prep' = [prep EXCEPT ![h] = prep[r]] /\ palloc' = [palloc EXCEPT ![h] = palloc[r]]
    /\ References(h, palloc[r])

destruct(h) ==
    /\ h \in exists
    /\ References(h, Null)
    /\ exists' = exists \ {h}
    /\ prep' = [prep EXCEPT ![h] = Null] /\ palloc' = [palloc EXCEPT ![h] = Null]

HandlesNext ==
    \/ \E o \in Objects : new(o)
    \/ \E h \in Handle :
         \/ construct(h) \/ destruct(h)
         \/ \E r \in Handle : copy(h, r) \/ assign(h, r)
         \/ \E o \in Objects \cup {Null}, managed \in BOOLEAN : bindTo(h, o, managed)

HandlesSpec == HandlesInit /\ [][HandlesNext]_handleVars

-----------------------------------------------------------------------------
\* Properties

\* A managed object lives exactly as long as a handle refers to it, whatever is
\* bound, copied and assigned, also to itself: nothing dangles, nothing is left
\* behind, and nothing is deleted that is still in use.
LivesWhileReferenced ==
    \A o \in Objects :
        (\E h \in exists : palloc[h] = o) <=> object[o] = "bound"
=============================================================================
