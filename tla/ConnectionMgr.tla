---------------------------- MODULE ConnectionMgr ----------------------------
(***************************************************************************)
(* The connection manager KssConnectionManager (ks/src/connectionmgr.cpp,  *)
(* the variant with a table indexed by file descriptors).  Its state is a  *)
(* record m:                                                               *)
(*   reg     the descriptors whose table item holds a connection           *)
(*   last    _last_io_mode of every item                                   *)
(*   rfds, wfds   _readable_fdset and _writeable_fdset                     *)
(*   active  _active_connections, the items supervised for a timeout       *)
(*   svc     _serviceable_connections, the items waiting for attention     *)
(*   count   _serviceable_count                                            *)
(*   due     _best_before of every item, as the time left until then       *)
(* A table item is a node of at most one of the two doubly linked lists;   *)
(* the lists are sequences of descriptors, first item first.  At most one  *)
(* connection object exists per descriptor, so a connection is identified  *)
(* with its descriptor.                                                    *)
(***************************************************************************)
EXTENDS Connection, Integers, SequencesExt

CONSTANTS
    MaxFd,       \* the process can have the descriptors 0 .. MaxFd open
    FdSetSize,   \* _fdset_size, the number of table items
    Timeout      \* Timeout[kind]: getTimeout() of a connection of that kind

ASSUME FdAssumption == MaxFd \in Nat /\ FdSetSize \in Nat \ {0}
ASSUME TimeoutAssumption == Timeout \in [Kinds -> Nat \ {0}]

FD == 0 .. MaxFd

\* getConnectionItem() yields an item for these descriptors only.
Items == {fd \in FD : fd < FdSetSize}

ManagerState == [reg : SUBSET Items, last : [Items -> SUBSET IoFlags],
                 rfds : SUBSET Items, wfds : SUBSET Items,
                 active : Seq(Items), svc : Seq(Items),
                 count : Int, due : [Items -> Nat]]

NewManager == [reg |-> {}, last |-> [fd \in Items |-> {}],
               rfds |-> {}, wfds |-> {}, active |-> << >>, svc |-> << >>,
               count |-> 0, due |-> [fd \in Items |-> 0]]

-----------------------------------------------------------------------------
\* _PltDLinkedListNode::remove() of the item, whichever list it is in.
Unlink(m, fd) == [m EXCEPT !.active = RemoveFirst(@, fd),
                           !.svc    = RemoveFirst(@, fd)]

\* The timeout list is searched from its end for an item that is not due
\* later than the new one, and the new item goes right behind it.
InsertPoint(m, d) ==
    LET earlier == {i \in DOMAIN m.active : m.due[m.active[i]] <= d}
    IN  IF earlier = {} THEN 1 ELSE Max(earlier) + 1

\* Whether flag f changes between the I/O mode last tracked and mode io.
Changes(m, fd, io, f) == (f \in io) # (f \in m.last[fd])

\* An fd_set follows its flag only when the flag changes.
TrackSet(m, fds, fd, io, f) ==
    IF ~Changes(m, fd, io, f) THEN fds
    ELSE IF f \in io THEN fds \cup {fd} ELSE fds \ {fd}


TrackAttention(m, fd, io) ==
    IF "ATTENTION" \in io
    THEN LET u == Unlink(m, fd)
         IN  [u EXCEPT !.svc = <<fd>> \o @, !.count = @ + 1]
    ELSE m

\* Slip: leaving the timeout supervision unlinks the item, also when it has
\* just been queued for attention.
TrackTimeout_Unlink(m, fd, io, timeout) ==
    IF ~Changes(m, fd, io, "NEED_TIMEOUT") THEN m
    ELSE LET u == Unlink(m, fd)
         IN  IF "NEED_TIMEOUT" \notin io THEN u
             ELSE [u EXCEPT !.due[fd] = timeout,
                            !.active  = InsertAt(@, InsertPoint(u, timeout), fd)]

TrackTimeout(m, fd, io, timeout) ==
    IF ~Changes(m, fd, io, "NEED_TIMEOUT") THEN m
    ELSE LET u == Unlink(m, fd)
         IN  IF "NEED_TIMEOUT" \in io
             THEN [u EXCEPT !.due[fd] = timeout,
                            !.active  = InsertAt(@, InsertPoint(u, timeout), fd)]
             ELSE IF "ATTENTION" \in io THEN m ELSE u

\* trackCnxIoMode() up to the fast write.
TrackIoMode(m, fd, kind, io) ==
    LET a == TrackAttention(m, fd, io)
        t == TrackTimeout(a, fd, io, Timeout[kind])
    IN  [t EXCEPT !.rfds     = TrackSet(m, @, fd, io, "READABLE"),
                  !.wfds     = TrackSet(m, @, fd, io, "WRITEABLE"),
                  !.last[fd] = io]

\* A connection that has just become writeable is written to at once.
FastWrite(m, fd, io) ==
    /\ "WRITEABLE" \in io /\ "WRITEABLE" \notin m.last[fd]
    /\ "NO_FASTWRITE" \notin io

\* Slip: the I/O mode a fast write returns is not tracked.
trackCnxIoMode_Untracked(m, fd, kind, up, st, io) ==
    LET t == TrackIoMode(m, fd, kind, io)
    IN  IF FastWrite(m, fd, io)
        THEN {[m |-> t, st |-> o.st] : o \in send(kind, st, up)}
        ELSE {[m |-> t, st |-> st]}

\* trackCnxIoMode() of a connection in state st: the possible results [m, st].
\* The recursive call after a fast write never writes again, because the
\* descriptor is known to be writeable by then.
trackCnxIoMode(m, fd, kind, up, st, io) ==
    LET t == TrackIoMode(m, fd, kind, io)
    IN  IF FastWrite(m, fd, io)
        THEN {[m |-> TrackIoMode(t, fd, kind, o.io), st |-> o.st] :
                 o \in send(kind, st, up)}
        ELSE {[m |-> t, st |-> st]}

-----------------------------------------------------------------------------
\* Slip: the item stays linked into its list.
removeConnection_Linked(m, fd) ==
    IF fd \in m.reg
    THEN [m EXCEPT !.rfds = @ \ {fd}, !.wfds = @ \ {fd}, !.reg = @ \ {fd}]
    ELSE m

\* Slip: the descriptor stays in the set of writeable descriptors.
removeConnection_Writeable(m, fd) ==
    IF fd \in m.reg
    THEN [Unlink(m, fd) EXCEPT !.rfds = @ \ {fd}, !.reg = @ \ {fd}]
    ELSE m

\* removeConnection(): note that _serviceable_count stays as it is.
removeConnection(m, fd) ==
    IF fd \in m.reg
    THEN [Unlink(m, fd) EXCEPT !.rfds = @ \ {fd}, !.wfds = @ \ {fd},
                               !.reg  = @ \ {fd}]
    ELSE m

\* addConnection() of a new connection: the results [m, st, ok].  The
\* descriptor may lie beyond the table, or its item may be taken.
addConnection(m, fd, kind, up, st) ==
    IF fd \in Items \ m.reg
    THEN {[m |-> r.m, st |-> r.st, ok |-> TRUE] :
             r \in trackCnxIoMode([m EXCEPT !.reg = @ \cup {fd}, !.last[fd] = {}],
                                  fd, kind, up, st, getIoMode(kind, st))}
    ELSE {[m |-> m, st |-> st, ok |-> FALSE]}

\* removeConnection(), shutdown() and delete of a connection: there is no
\* connection object left and its descriptor has been closed.
Destroy(m, fd) == [m |-> removeConnection(m, fd), st |-> "NONE"]

\* Slip: dead connections are only reset.
TrackAndReap_Reset(m, fd, kind, up, o) ==
    UNION {IF "DEAD" \notin o.io THEN {r}
           ELSE trackCnxIoMode(r.m, fd, kind, up, reset(kind, r.st).st,
                               reset(kind, r.st).io) :
              r \in trackCnxIoMode(m, fd, kind, up, o.st, o.io)}

\* What processConnections() and processTimeout() do with the I/O mode "io"
\* a method of the connection returned, leaving it in state st: track it,
\* and if the method reported the connection dead, destroy or reset it.  The
\* test looks at the mode returned by the method, not at the one after a
\* fast write.
TrackAndReap(m, fd, kind, up, o) ==
    LET tracked == trackCnxIoMode(m, fd, kind, up, o.st, o.io)
    IN  IF "DEAD" \notin o.io THEN tracked
        ELSE IF isAutoDestroyable(kind) THEN {Destroy(r.m, fd) : r \in tracked}
        ELSE UNION {trackCnxIoMode(r.m, fd, kind, up, reset(kind, r.st).st,
                                   reset(kind, r.st).io) : r \in tracked}

\* Slip: the state is not looked at again after the fast write.
trackConnection_Once(m, fd, kind, up, st) ==
    IF st = "DEAD"
    THEN {IF isAutoDestroyable(kind) THEN Destroy(m, fd) ELSE [m |-> m, st |-> st]}
    ELSE trackCnxIoMode(m, fd, kind, up, st, getIoMode(kind, st))

\* trackConnection() of a registered connection in state st, after it has
\* had attention: here the state is looked at again after a fast write.
trackConnection(m, fd, kind, up, st) ==
    LET tracked == IF st = "DEAD" THEN {[m |-> m, st |-> st]}
                   ELSE trackCnxIoMode(m, fd, kind, up, st, getIoMode(kind, st))
    IN  {IF r.st = "DEAD" /\ isAutoDestroyable(kind) THEN Destroy(r.m, fd) ELSE r :
            r \in tracked}

\* resetConnection() of a registered connection that is not dead.
resetConnection(m, fd, kind, up, st) ==
    LET o       == reset(kind, st)
        tracked == trackCnxIoMode(m, fd, kind, up, o.st, o.io)
    IN  {IF r.st = "DEAD" /\ isAutoDestroyable(kind) THEN Destroy(r.m, fd) ELSE r :
            r \in tracked}

\* getNextServiceableConnection() with a non-empty list, which serves its
\* first item Head(m.svc).
getNextServiceableConnection(m) ==
    [m EXCEPT !.svc = Tail(@), !.count = @ - 1]

\* getEarliestTimeoutSpan() of a non-empty timeout list.
getEarliestTimeoutSpan(m) == m.due[Head(m.active)]

\* Slip: the time left is not cut off at zero.
Elapse_Negative(m) == [m EXCEPT !.due = [fd \in Items |-> @[fd] - 1]]

\* Time passes: every point in time comes closer by one unit.
Elapse(m) == [m EXCEPT !.due = [fd \in Items |-> IF @[fd] > 0 THEN @[fd] - 1 ELSE 0]]

\* The items processTimeout() works on: from the head of the timeout list up
\* to the first one that is not due yet.
DuePrefix(m) ==
    LET late == {i \in DOMAIN m.active : m.due[m.active[i]] > 0}
    IN  IF late = {} THEN m.active ELSE SubSeq(m.active, 1, Min(late) - 1)

=============================================================================
