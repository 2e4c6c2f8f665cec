----------------------------- MODULE TimerHeap -----------------------------
(***************************************************************************)
(* The queue of timer events as it is built: PltPriorityQueue, a binary    *)
(* heap in an array that starts at 0 (priorityqueue_impl.h), with the      *)
(* operations of KsServerBase on it.  The array holds pointers to events,  *)
(* which are compared by their trigger times: an event that is searched    *)
(* for is found at the first event of its time.                            *)
(***************************************************************************)
EXTENDS Naturals, FiniteSets

CONSTANTS
    Events,         \* timer events
    triggersAt,     \* the trigger time of each (_trigger_at)
    NullEvent,      \* no event
    MaxTimers,      \* bound on the events in the queue
    RemovalLimit,   \* removeTimerEvent() is called on queues up to this size
    BlindRemovals   \* and on an empty queue whose first cell points to no event

ASSUME EventsAssumption == triggersAt \in [Events -> Nat]

VARIABLES
    a_elems,        \* the array, from 0 to a_size - 1
    firstIsEvent,   \* the first cell points to an event that exists
    heapResult      \* the last operation: which, whether it succeeded, and its event

heapVars == <<a_elems, firstIsEvent, heapResult>>

a_size == Cardinality(DOMAIN a_elems)
None == [i \in {} |-> 0]

leftChild(i) == 2 * i + 1
rightChild(i) == 2 * i + 2
parent(i) == (i - 1) \div 2

Truncate(h, n) == [i \in 0 .. n - 1 |-> h[i]]

\* Slip: the new element stops one level too high.
UpHeap_Once(h, i, x) ==
    IF i > 0 /\ triggersAt[x] < triggersAt[h[parent(i)]]
    THEN [h EXCEPT ![i] = h[parent(i)], ![parent(i)] = x]
    ELSE [h EXCEPT ![i] = x]

\* add(): the hole at i rises until its parent is not later than x.
UpHeap(h, i, x) ==
    LET rise[k \in DOMAIN h] ==
            IF k > 0 /\ triggersAt[x] < triggersAt[h[parent(k)]]
            THEN [rise[parent(k)] EXCEPT ![k] = h[parent(k)]]
            ELSE [h EXCEPT ![k] = x]
    IN  rise[i]

\* The earlier child of k among the first n.
SmallerChild(h, n, k) ==
    IF rightChild(k) < n /\ triggersAt[h[rightChild(k)]] < triggersAt[h[leftChild(k)]]
    THEN rightChild(k) ELSE leftChild(k)

\* The hole at k sinks until none of its children among the first n is earlier than v.
downheap(h, n, k, v) ==
    LET sink[i \in DOMAIN h] ==
            LET j == SmallerChild(h, n, i)
            IN  IF leftChild(i) < n /\ triggersAt[h[j]] < triggersAt[v]
                THEN [sink[j] EXCEPT ![i] = h[j]]
                ELSE [h EXCEPT ![i] = v]
    IN  sink[k]

\* A depth first search that leaves out subtrees that are later as a whole;
\* returns the size n when no event of the element's time is found.
locate(h, n, root, elem) ==
    LET found[node \in DOMAIN h] ==
            LET In(child) == IF child < n /\ triggersAt[elem] >= triggersAt[h[child]]
                             THEN found[child] ELSE n
            IN  IF triggersAt[elem] = triggersAt[h[node]] THEN node
                ELSE IF In(leftChild(node)) < n THEN In(leftChild(node))
                ELSE In(rightChild(node))
    IN  found[root]

HeapInit ==
    /\ a_elems = None
    /\ firstIsEvent = FALSE
    /\ heapResult = [op |-> "none", ok |-> TRUE, event |-> NullEvent]

addTimerEvent(e) ==
    /\ a_size < MaxTimers
    /\ a_elems' = UpHeap([i \in 0 .. a_size |-> IF i < a_size THEN a_elems[i] ELSE e],
                         a_size, e)
    /\ firstIsEvent' = TRUE
    /\ heapResult' = [op |-> "add", ok |-> TRUE, event |-> e]

\* The last element takes the place of the first one and sinks.
removeNextTimerEvent ==
    /\ a_size > 0
    /\ a_elems' = IF a_size = 1 THEN None
                  ELSE downheap(Truncate(a_elems, a_size - 1), a_size - 1,
                                0, a_elems[a_size - 1])
    /\ heapResult' = [op |-> "next", ok |-> TRUE, event |-> a_elems[0]]
    /\ UNCHANGED firstIsEvent

\* The last element takes the place of the one removed, from where it may
\* sink, but does not rise.
removeTimerEvent(e) ==
    LET loc == locate(a_elems, a_size, 0, e)
        last == a_size - 1
    IN  /\ a_size \in 1 .. RemovalLimit
        /\ IF loc = a_size THEN a_elems' = a_elems
           ELSE a_elems' =
                  IF loc = last THEN Truncate(a_elems, last)
                  ELSE downheap(Truncate(a_elems, last), last, loc, a_elems[last])
        /\ heapResult' = [op |-> "remove", ok |-> loc < a_size, event |-> e]
        /\ UNCHANGED firstIsEvent

\* locate() compares the event with what the first cell points to before anyone
\* looks at the size.  When that is the event removed last, the answer is false,
\* also if the times agree; a null pointer or one to an event that was deleted
\* since is used all the same, with an outcome the language does not define.
removeFromEmptyQueue(e) ==
    /\ a_size = 0
    /\ \/ /\ firstIsEvent
          /\ heapResult' = [op |-> "remove", ok |-> FALSE, event |-> e]
       \/ /\ ~firstIsEvent /\ BlindRemovals
          /\ \E op \in {"remove", "crash"} :
                heapResult' = [op |-> op, ok |-> FALSE, event |-> e]
    /\ UNCHANGED <<a_elems, firstIsEvent>>

\* The owner of the event removed last deletes it.
deleteEvent ==
    /\ a_size = 0 /\ firstIsEvent
    /\ firstIsEvent' = FALSE
    /\ UNCHANGED <<a_elems, heapResult>>

HeapNext ==
    \/ \E e \in Events :
          addTimerEvent(e) \/ removeTimerEvent(e) \/ removeFromEmptyQueue(e)
    \/ removeNextTimerEvent
    \/ deleteEvent

HeapSpec == HeapInit /\ [][HeapNext]_heapVars

-----------------------------------------------------------------------------
\* Properties

\* The partial ordering of PltPriorityQueue::invariant(): no event is later
\* than one of its children, so that peek() is an earliest event and a timeout
\* of select() that is computed from it is never too long.
HeapOrdered ==
    \A i \in DOMAIN a_elems \ {0} : triggersAt[a_elems[parent(i)]] <= triggersAt[a_elems[i]]

\* The heap is a queue of timer events: every event that was added is given
\* back, or taken out for removeTimerEvent(), once; an earliest one is given
\* back first; and removeTimerEvent() answers whether an event of that time
\* waited.
Queue == INSTANCE TimerQueue WITH
    waiting <- [e \in Events |-> Cardinality({i \in DOMAIN a_elems : a_elems[i] = e})],
    result <- heapResult
IsTimerQueue == Queue!Spec
=============================================================================
