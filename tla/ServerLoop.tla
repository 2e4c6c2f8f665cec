----------------------------- MODULE ServerLoop -----------------------------
(***************************************************************************)
(* The event loop of an ACPLT/KS server (KsServerBase in                   *)
(* ks/src/svrbase.cpp) together with its connection manager, its TCP       *)
(* connections and one interserver connection (ks/src/interserver.cpp, for *)
(* the case of an explicit server port).  The program is single threaded:  *)
(* pc says where in run() it is, and every iteration of one of its loops   *)
(* is an action.  What it races with is the environment: peers that open,  *)
(* stall or close their end of a connection, signals, and time.            *)
(***************************************************************************)
EXTENDS Interserver

CONSTANTS
    GcInterval,   \* interval of KsGarbageTimerEvent, always in the timer queue
    UseClient     \* whether server code uses an interserver connection

ASSUME GcAssumption == GcInterval \in Nat \ {0} /\ UseClient \in BOOLEAN

VARIABLES
    m,        \* the connection manager
    cs,       \* cs[fd]: state of the connection object with descriptor fd
    open,     \* descriptors the process has open
    up,       \* up[fd]: the peer has not closed its end
    lfd,      \* descriptor of _tcp_transport, the rendezvous socket
    cfd,      \* descriptor of _cln_con of the interserver connection
    isc,      \* macro state of the interserver connection
    pc,       \* where the event loop is
    todoW,    \* descriptors select() reported writeable, still to be handled
    todoR,    \* the same for readable ones
    todoT,    \* items that have timed out, still to be handled
    left,     \* local "serviceables" of serveRequests()
    hasTo,    \* local "has_cnx_timeout" of serveRequests()
    timer,    \* time left until the timer event fires
    down,     \* _shutdown_flag
    pending,  \* local "pending" of shutdownConnections()
    flushed   \* what the last shutdownConnections() returned

conVars   == <<m, cs, open>>
loopVars  == <<todoW, todoR, todoT, left, hasTo>>
stopVars  == <<down, pending, flushed>>
vars == <<m, cs, open, up, lfd, cfd, isc, pc, todoW, todoR, todoT, left, hasTo,
          timer, down, pending, flushed>>

\* Which kind of connection uses descriptor fd.
Kind(fd) == CASE fd = lfd -> "LISTENER"
              [] fd = cfd -> "CLIENT"
              [] OTHER    -> "SERVER"

\* Slip: shutdown() does not close the descriptor.
Apply_StillOpen(fd, r) ==
    /\ m'    = r.m
    /\ cs'   = [cs EXCEPT ![fd] = r.st]
    /\ UNCHANGED <<open, up>>

\* The outcome r = [m, st] of an operation on connection fd takes effect.
Apply(fd, r) ==
    /\ m'    = r.m
    /\ cs'   = [cs EXCEPT ![fd] = r.st]
    /\ IF r.st = "NONE" THEN /\ open' = open \ {fd}
                             /\ up' = [up EXCEPT ![fd] = FALSE]
                        ELSE UNCHANGED <<open, up>>

\* The part of the state the interserver connection works on.
World == [m |-> m, cs |-> cs, open |-> open, up |-> up, cfd |-> cfd, isc |-> isc]

Become(w) == /\ m' = w.m /\ cs' = w.cs /\ open' = w.open /\ up' = w.up
             /\ cfd' = w.cfd /\ isc' = w.isc

-----------------------------------------------------------------------------
Init ==
    /\ m = NewManager
    /\ cs = [fd \in FD |-> "NONE"]
    /\ open = {}
    /\ up = [fd \in FD |-> FALSE]
    /\ lfd = NoFd /\ cfd = NoFd /\ isc = "CLOSED"
    /\ pc = "stopped"
    /\ todoW = {} /\ todoR = {} /\ todoT = << >>
    /\ left = 0 /\ hasTo = FALSE /\ timer = 0
    /\ down = FALSE /\ pending = 0 /\ flushed = TRUE

\* startServer().  If the rendezvous socket cannot be
\* registered, there is no server and it may be started again later.
StartServer ==
    /\ pc = "stopped" /\ open # FD
    /\ LET fd == LowestFree(open)
       IN  \E st \in {"IDLE"} \cup (IF "setup" \in Faults THEN {"DEAD"} ELSE {}) :
             \E r \in addConnection(m, fd, "LISTENER", TRUE, st) :
               /\ r.ok
               /\ m' = r.m
               /\ cs' = [cs EXCEPT ![fd] = r.st]
               /\ open' = open \cup {fd}
               /\ lfd' = fd
    /\ timer' = GcInterval
    /\ pc' = "started"
    /\ UNCHANGED <<up, cfd, isc, loopVars, stopVars>>

\* run() clears the shutdown flag (resetGoingDown) and enters the event loop.
Run ==
    /\ pc = "started"
    /\ down' = FALSE
    /\ pc' = "run"
    /\ UNCHANGED <<conVars, up, lfd, cfd, isc, loopVars, timer, pending, flushed>>

-----------------------------------------------------------------------------
\* servePendingEvents(): a timer event that is due is triggered first.
TriggerTimer ==
    /\ pc = "run" /\ ~down /\ timer = 0
    /\ timer' = GcInterval
    /\ UNCHANGED <<conVars, up, lfd, cfd, isc, pc, loopVars, stopVars>>

\* A timer event of the server's own code uses the interserver connection.
UserEvent ==
    /\ pc = "run" /\ ~down /\ UseClient /\ m.count < MaxCount
    /\ \E w \in openServerConnection(World) \cup sendCall(World)
                \cup {closeConnection(World)} : Become(w)
    /\ UNCHANGED <<lfd, pc, loopVars, timer, stopVars>>

serveRequests ==
    /\ pc = "run" /\ ~down /\ timer > 0
    /\ pc' = "drain"
    /\ UNCHANGED <<conVars, up, lfd, cfd, isc, loopVars, timer, stopVars>>

\* The connection that waits first for attention gets it: a request is
\* dispatched, or the interserver connection is told.
Attend ==
    LET fd == Head(m.svc)
        taken == getNextServiceableConnection(m)
    IN  IF Kind(fd) = "CLIENT"
        THEN /\ \E w \in attention([World EXCEPT !.m = taken]) : Become(w)
        ELSE /\ \E st \in dispatchTransport(Kind(fd), cs[fd]) :
                  \E r \in trackConnection(taken, fd, Kind(fd), up[fd], st) :
                    Apply(fd, r)
             /\ UNCHANGED <<cfd, isc>>

\* serveRequests() first serves everything left over from the last round.
Drain ==
    /\ pc = "drain" /\ m.svc # << >>
    /\ Attend
    /\ UNCHANGED <<lfd, pc, loopVars, timer, stopVars>>

\* Slip: the two timeouts are compared the wrong way round.
EnterSelect_Later ==
    /\ pc = "drain" /\ m.svc = << >>
    /\ hasTo' = (m.active # << >> /\ getEarliestTimeoutSpan(m) > timer)
    /\ pc' = "select"
    /\ UNCHANGED <<conVars, up, lfd, cfd, isc, todoW, todoR, todoT, left, timer,
                   stopVars>>

\* The timeout for select() is the one of the connections if that comes
\* before the timer event.
EnterSelect ==
    /\ pc = "drain" /\ m.svc = << >>
    /\ hasTo' = (m.active # << >> /\ getEarliestTimeoutSpan(m) < timer)
    /\ pc' = "select"
    /\ UNCHANGED <<conVars, up, lfd, cfd, isc, todoW, todoR, todoT, left, timer,
                   stopVars>>

\* Descriptors select() is bound to report: the peer is gone.
HungUp == {fd \in FD : cs[fd] # "NONE" /\ fd # lfd /\ ~up[fd]}

\* select() reports descriptors that are ready (getReadyFds() > 0).
SelectReady ==
    /\ pc = "select"
    /\ \E R \in SUBSET m.rfds, W \in SUBSET m.wfds :
         /\ R \cup W # {}
         /\ HungUp \cap m.rfds \subseteq R
         /\ HungUp \cap m.wfds \subseteq W
         /\ todoR' = R
         /\ todoW' = W
    /\ pc' = "write"
    /\ UNCHANGED <<conVars, up, lfd, cfd, isc, todoT, left, hasTo, timer, stopVars>>

\* The other branch of serveRequests().
NothingReady ==
    /\ IF hasTo THEN /\ todoT' = DuePrefix(m)
                     /\ pc' = "timeout"
                ELSE /\ pc' = "run"
                     /\ UNCHANGED todoT
    /\ UNCHANGED <<conVars, up, lfd, cfd, isc, todoW, todoR, left, hasTo, timer,
                   stopVars>>

Expired == timer = 0 \/ (m.active # << >> /\ getEarliestTimeoutSpan(m) = 0)

SelectTimeout ==
    /\ pc = "select" /\ Expired
    /\ HungUp \cap (m.rfds \cup m.wfds) = {}
    /\ NothingReady

\* A signal interrupts select(): getReadyFds() treats this as a timeout.
SelectInterrupted ==
    /\ pc = "select"
    /\ NothingReady

-----------------------------------------------------------------------------
\* processConnections(): first the writeable descriptors, in ascending order...
WriteOne ==
    /\ pc = "write" /\ todoW # {}
    /\ LET fd == Min(todoW)
       IN  /\ \E o \in send(Kind(fd), cs[fd], up[fd]) :
                \E r \in TrackAndReap(m, fd, Kind(fd), up[fd], o) : Apply(fd, r)
           /\ todoW' = todoW \ {fd}
    /\ UNCHANGED <<lfd, cfd, isc, pc, todoR, todoT, left, hasTo, timer, stopVars>>

WriteDone ==
    /\ pc = "write" /\ todoW = {}
    /\ pc' = "read"
    /\ UNCHANGED <<conVars, up, lfd, cfd, isc, loopVars, timer, stopVars>>

\* KssListenTCPXDRConnection::receive(): accept() fails, or a new connection
\* is put under control of the manager.  A connection that is dead from the
\* start or that the manager does not take is deleted.
Accept(fd) ==
    \/ /\ m' = TrackIoMode(m, fd, "LISTENER", {"READABLE"})
       /\ UNCHANGED <<cs, open, up>>
    \/ /\ open # FD
       /\ LET new == LowestFree(open)
          IN  /\ open' = open \cup {new}
              /\ up' = [up EXCEPT ![new] = TRUE]
              /\ \/ /\ "setup" \in Faults
                    /\ m' = TrackIoMode(m, fd, "LISTENER", {"READABLE"})
                    /\ UNCHANGED cs
                 \/ \E r \in addConnection(m, new, "SERVER", TRUE, "IDLE") :
                      /\ m' = TrackIoMode(r.m, fd, "LISTENER", {"READABLE"})
                      /\ cs' = IF r.ok THEN [cs EXCEPT ![new] = r.st] ELSE cs

\* ...then the readable ones.
ReadOne ==
    /\ pc = "read" /\ todoR # {}
    /\ LET fd == Min(todoR)
       IN  /\ IF fd = lfd /\ cs[fd] # "DEAD" THEN Accept(fd)
              ELSE \E o \in receive(Kind(fd), cs[fd], up[fd]) :
                     \E r \in TrackAndReap(m, fd, Kind(fd), up[fd], o) : Apply(fd, r)
           /\ todoR' = todoR \ {fd}
    /\ UNCHANGED <<lfd, cfd, isc, pc, todoW, todoT, left, hasTo, timer, stopVars>>

ReadDone ==
    /\ pc = "read" /\ todoR = {}
    /\ left' = m.count
    /\ pc' = "serve"
    /\ UNCHANGED <<conVars, up, lfd, cfd, isc, todoW, todoR, todoT, hasTo, timer,
                   stopVars>>

\* Back in serveRequests(): as many connections get attention as waited for
\* it when processConnections() returned.
Serve ==
    /\ pc = "serve" /\ left # 0 /\ m.svc # << >>
    /\ Attend
    /\ left' = left - 1
    /\ UNCHANGED <<lfd, pc, todoW, todoR, todoT, hasTo, timer, stopVars>>

ServeDone ==
    /\ pc = "serve" /\ (left = 0 \/ m.svc = << >>)
    /\ left' = 0
    /\ pc' = "run"
    /\ UNCHANGED <<conVars, up, lfd, cfd, isc, todoW, todoR, todoT, hasTo, timer,
                   stopVars>>

\* processTimeout()
TimeoutOne ==
    /\ pc = "timeout" /\ todoT # << >>
    /\ LET fd == Head(todoT)
       IN  \E r \in TrackAndReap(m, fd, Kind(fd), up[fd], timedOut(Kind(fd), cs[fd])) :
             Apply(fd, r)
    /\ todoT' = Tail(todoT)
    /\ UNCHANGED <<lfd, cfd, isc, pc, todoW, todoR, left, hasTo, timer, stopVars>>

TimeoutDone ==
    /\ pc = "timeout" /\ todoT = << >>
    /\ pc' = "run"
    /\ UNCHANGED <<conVars, up, lfd, cfd, isc, loopVars, timer, stopVars>>

-----------------------------------------------------------------------------
\* stopServer() calls shutdownConnections(), which looks at every item:
\* connections that are sending are counted, others are destroyed.
StopServer ==
    /\ pc = "run" /\ down
    /\ todoW' = m.reg
    /\ pending' = 0
    /\ pc' = "shutdown"
    /\ UNCHANGED <<conVars, up, lfd, cfd, isc, todoR, todoT, left, hasTo, timer, down,
                   flushed>>

ShutdownOne ==
    /\ pc = "shutdown" /\ todoW # {}
    /\ LET fd == Min(todoW)
           sending == /\ "WRITEABLE" \in getIoMode(Kind(fd), cs[fd])
                      /\ cs[fd] # "CONNECTING"
       IN  /\ IF ~sending /\ isAutoDestroyable(Kind(fd))
              THEN Apply(fd, Destroy(m, fd))
              ELSE UNCHANGED <<conVars, up>>
           /\ pending' = IF sending THEN pending + 1 ELSE pending
           /\ todoW' = todoW \ {fd}
    /\ UNCHANGED <<lfd, cfd, isc, pc, todoR, todoT, left, hasTo, timer, down, flushed>>

ShutdownDone ==
    /\ pc = "shutdown" /\ todoW = {}
    /\ pc' = "flush"
    /\ UNCHANGED <<conVars, up, lfd, cfd, isc, loopVars, timer, stopVars>>

FlushSelect ==
    /\ pc = "flush" /\ pending > 0
    /\ \E W \in SUBSET m.wfds :
         /\ HungUp \cap m.wfds \subseteq W
         /\ todoW' = W
    /\ pc' = "flushwrite"
    /\ UNCHANGED <<conVars, up, lfd, cfd, isc, todoR, todoT, left, hasTo, timer,
                   stopVars>>

\* What becomes of a connection after send() returned outcome o: when it is
\* dead or has nothing more to send it is destroyed, or else reset.
FlushResult(fd, o) ==
    LET tracked == trackCnxIoMode(m, fd, Kind(fd), up[fd], o.st, o.io)
    IN  IF "DEAD" \notin o.io /\ "WRITEABLE" \in o.io THEN tracked
        ELSE IF isAutoDestroyable(Kind(fd)) THEN {Destroy(r.m, fd) : r \in tracked}
        ELSE UNION {trackCnxIoMode(r.m, fd, Kind(fd), up[fd],
                                   reset(Kind(fd), r.st).st,
                                   reset(Kind(fd), r.st).io) : r \in tracked}

FlushOne ==
    /\ pc = "flushwrite" /\ todoW # {}
    /\ LET fd == Min(todoW)
       IN  /\ \E o \in send(Kind(fd), cs[fd], up[fd]) :
                /\ \E r \in FlushResult(fd, o) : Apply(fd, r)
                /\ pending' = IF "DEAD" \notin o.io /\ "WRITEABLE" \in o.io
                              THEN pending ELSE pending - 1
           /\ todoW' = todoW \ {fd}
    /\ UNCHANGED <<lfd, cfd, isc, pc, todoR, todoT, left, hasTo, timer, down,
                   flushed>>

FlushAgain ==
    /\ pc = "flushwrite" /\ todoW = {}
    /\ pc' = "flush"
    /\ UNCHANGED <<conVars, up, lfd, cfd, isc, loopVars, timer, stopVars>>

\* Slip: flushing only ends when everything has been sent.
FlushEnd_NoDeadline ==
    /\ pc = "flush" /\ pending <= 0
    /\ flushed' = TRUE
    /\ Apply(lfd, Destroy(m, lfd))
    /\ lfd' = NoFd
    /\ timer' = 0
    /\ pending' = 0
    /\ pc' = "stopped"
    /\ UNCHANGED <<cfd, isc, loopVars, down>>

\* shutdownConnections() returns: TRUE when nothing is pending any more,
\* FALSE when its time is up.  Then cleanup() removes the rendezvous socket
\* and all timer events.
FlushEnd ==
    /\ pc = "flush"
    /\ \/ pending <= 0 /\ flushed' = TRUE
       \/ pending > 0 /\ flushed' = FALSE
    /\ Apply(lfd, Destroy(m, lfd))
    /\ lfd' = NoFd
    /\ timer' = 0
    /\ pending' = 0
    /\ pc' = "stopped"
    /\ UNCHANGED <<cfd, isc, loopVars, down>>

-----------------------------------------------------------------------------
\* The environment: a peer closes its end; time passes while the server
\* waits in select(); a signal handler calls downServer().
PeerCloses ==
    /\ \E fd \in FD : /\ up[fd] /\ cs[fd] # "NONE"
                      /\ up' = [up EXCEPT ![fd] = FALSE]
    /\ UNCHANGED <<conVars, lfd, cfd, isc, pc, loopVars, timer, stopVars>>

Tick ==
    /\ pc = "select"
    /\ timer > 0 \/ \E fd \in Items : m.due[fd] > 0
    /\ m' = Elapse(m)
    /\ timer' = IF timer > 0 THEN timer - 1 ELSE 0
    /\ UNCHANGED <<cs, open, up, lfd, cfd, isc, pc, loopVars, stopVars>>

downServer ==
    /\ pc # "stopped" /\ ~down /\ m.count < MaxCount
    /\ down' = TRUE
    /\ UNCHANGED <<conVars, up, lfd, cfd, isc, pc, loopVars, timer, pending, flushed>>

Work == \/ Run \/ TriggerTimer \/ serveRequests \/ Drain \/ EnterSelect
        \/ WriteOne \/ WriteDone \/ ReadOne \/ ReadDone \/ Serve \/ ServeDone
        \/ TimeoutOne \/ TimeoutDone
        \/ StopServer \/ ShutdownOne \/ ShutdownDone
        \/ FlushSelect \/ FlushOne \/ FlushAgain \/ FlushEnd

Next == \/ StartServer \/ UserEvent \/ Work
        \/ SelectReady \/ SelectTimeout \/ SelectInterrupted
        \/ PeerCloses \/ Tick \/ downServer

Spec == Init /\ [][Next]_vars

\* The first loop of serveRequests() is about to tell the user of the interserver
\* connection once more of an RPC error that was reported before.
ErrorIsLeft ==
    /\ pc = "drain" /\ m.svc # << >> /\ Head(m.svc) = cfd
    /\ isc = "OPEN" /\ cs[cfd] = "READY"

\* The process is scheduled, so the event loop goes on; whether user code ever
\* does something about an RPC error is up to it.  Time does not stand
\* still; select() is not interrupted by a signal every single time, and it
\* does return when its timeout expires; flushing ends when its time is up.
Fairness == /\ WF_vars(Work /\ ~ErrorIsLeft)
            /\ SF_vars(Tick)
            /\ SF_vars(SelectReady /\ HungUp # {})
            /\ WF_vars(SelectTimeout)
            /\ SF_vars(FlushEnd)

FairSpec == Spec /\ Fairness

-----------------------------------------------------------------------------
Places == {"stopped", "started", "run", "drain", "select", "write", "read", "serve",
           "timeout", "shutdown", "flush", "flushwrite"}

-----------------------------------------------------------------------------
\* Every variable has its type.
TypeOK ==
    /\ m \in ManagerState
    /\ cs \in [FD -> ConnectionState]
    /\ open \in SUBSET FD
    /\ up \in [FD -> BOOLEAN]
    /\ lfd \in FD \cup {NoFd} /\ cfd \in FD \cup {NoFd}
    /\ isc \in {"CLOSED", "OPEN", "BUSY"}
    /\ pc \in Places
    /\ todoW \in SUBSET Items /\ todoR \in SUBSET Items /\ todoT \in Seq(Items)
    /\ left \in Int /\ hasTo \in BOOLEAN /\ timer \in Nat
    /\ down \in BOOLEAN /\ pending \in Int /\ flushed \in BOOLEAN

\* select() watches exactly what the registered connections asked for: the
\* fd_sets are changed only incrementally (trackCnxIoMode) and cleared by
\* removeConnection, and descriptors are reused.
FdSetsFollowModes ==
    /\ m.rfds = {fd \in m.reg : "READABLE" \in m.last[fd]}
    /\ m.wfds = {fd \in m.reg : "WRITEABLE" \in m.last[fd]}

\* The I/O mode the manager remembers is the one the connection is in, so no
\* connection waits for I/O nobody watches for, and none that has died or has
\* become idle is watched for more than it asked for.
ModesFollowStates ==
    \A fd \in m.reg : SameWatch(m.last[fd], getIoMode(Kind(fd), cs[fd]))

\* A descriptor reported by select() still belongs to the connection it was
\* reported for when processConnections() (or the flush loop) comes to it:
\* "item->_connection" is never a null pointer, and never the connection that
\* accept() put on a descriptor closed earlier in the same round.
ReportedStayRegistered ==
    /\ todoW \cup todoR \subseteq m.reg
    /\ \A i \in DOMAIN todoT : todoT[i] \in m.reg

\* A table item is linked into at most one list, at most once, and only while
\* it holds a connection; the timeout list holds exactly the connections that
\* need a timeout, ordered by the time they are due.
ListsAreSound ==
    /\ IsInjective(m.active \o m.svc)
    /\ ToSet(m.svc) \subseteq m.reg
    /\ ToSet(m.active) = {fd \in m.reg : "NEED_TIMEOUT" \in m.last[fd]}
    /\ \A i, j \in DOMAIN m.active :
           i < j => m.due[m.active[i]] <= m.due[m.active[j]]

\* A connection that needs attention waits in the list of serviceable
\* connections, and the counter that bounds the serve loop covers it.
AttentionNotLost ==
    /\ \A fd \in m.reg :
           "ATTENTION" \in getIoMode(Kind(fd), cs[fd]) => fd \in ToSet(m.svc)
    /\ m.count >= Len(m.svc)

\* While the server waits in select() no accepted connection is dead: nothing
\* would ever wake the server up to destroy it (comment in trackConnection).
NoDeadConnectionWaits ==
    pc = "select" =>
        \A fd \in m.reg : isAutoDestroyable(Kind(fd)) => cs[fd] # "DEAD"

\* Every open descriptor belongs to a connection object: a connection is
\* shut down before it is deleted (comments in connection.h, connection.cpp).
NoDescriptorLeak == open = {fd \in FD : cs[fd] # "NONE"}

\* When shutdownConnections() reports success, all accepted connections have
\* been flushed and destroyed.
FlushIsComplete ==
    pc = "stopped" /\ flushed => \A fd \in m.reg : ~isAutoDestroyable(Kind(fd))

\* A connection that is given attention has a new request: after a request
\* has been dispatched its connection is not presented for dispatch again.
DispatchedOnce ==
    [][Drain \/ Serve =>
          LET fd == Head(m.svc)
          IN  Kind(fd) = "SERVER" => cs'[fd] # "READY"]_vars

\* What the event loop needs of user code: a reply that is an RPC error is not
\* left in the interserver connection for ever.  It is reported again and again,
\* and the first loop of serveRequests() does not end before the user closes the
\* connection or sends a further request.
ErrorsAreHandled == []<>(cfd = NoFd \/ cs[cfd] # "READY")


\* A connection whose peer has gone is destroyed, and its descriptor closed.
HungUpConnectionsAreClosed ==
    ErrorsAreHandled => \A fd \in FD :
        (cs[fd] # "NONE" /\ fd \notin {lfd, cfd} /\ ~up[fd])
            ~> (cs[fd] = "NONE" \/ fd = cfd \/ pc = "stopped")

\* When the network falls silent, every connection in the middle of a
\* transmission is timed out.
SilentConnectionsTimeOut ==
    ErrorsAreHandled /\ <>[](pc # "write" /\ ~down) =>
        \A fd \in FD : []<>(fd \in m.reg => "NEED_TIMEOUT" \notin m.last[fd])

\* A reply is not awaited forever, whatever the other connections do
\* (xdrtcpcon.cpp: "we have a timeout set, so we won't wait forever").
WaitingEnds ==
    \A fd \in FD : cs[fd] = "WAITING" ~> (cs[fd] # "WAITING" \/ pc = "stopped")

\* A server in its event loop that is told to go down stops.  Before, it need
\* not: run() begins with resetGoingDown(), which forgets an earlier call.
RunningServerStops ==
    ErrorsAreHandled => ((down /\ pc # "started") ~> pc = "stopped")

-----------------------------------------------------------------------------
\* Whoever holds a descriptor has it open, no two hold the same; there is no
\* rendezvous socket when the server has stopped, and no interserver
\* connection that is closed has a connection object.
DescriptorsAreOwned ==
    /\ m.reg \subseteq open
    /\ {lfd, cfd} \subseteq open \cup {NoFd}
    /\ lfd = cfd => cfd = NoFd
    /\ isc = "CLOSED" => cfd = NoFd
    /\ pc = "stopped" => lfd = NoFd

\* Every registered descriptor belongs to a connection object; only the
\* interserver connection may be connecting, it never is dead, and the
\* rendezvous socket never waits for attention.  Only a telegram that does not
\* decode leaves a dead accepted connection in the table.
ConnectionsAreSound ==
    /\ \A fd \in m.reg : /\ cs[fd] # "NONE"
                         /\ cs[fd] = "CONNECTING" => fd = cfd
                         /\ cs[fd] = "DEAD" =>
                               /\ fd # cfd
                               /\ Kind(fd) = "SERVER" => "decode" \in Faults
    /\ lfd \notin ToSet(m.svc)

\* A descriptor leaks only if a new connection cannot be set up, or if it has
\* a descriptor beyond the table of the connection manager.
SealedUnlessSetupFails ==
    "setup" \notin Faults /\ FD \subseteq Items => NoDescriptorLeak

\* What is left to do belongs to the loop the server is in, and only the
\* interserver connection can be reported both readable and writeable.
WorkBelongsToLoop ==
    /\ todoW # {} => pc \in {"write", "shutdown", "flushwrite"}
    /\ todoR # {} => pc \in {"write", "read"}
    /\ todoT # << >> => pc = "timeout"
    /\ todoW \cap todoR \subseteq {cfd}
    /\ IsInjective(todoT)

\* The two lists of the connection manager.
ListsHoldItems ==
    /\ IsInjective(m.active) /\ IsInjective(m.svc)
    /\ ToSet(m.active) \cap ToSet(m.svc) = {}
    /\ ToSet(m.svc) \subseteq m.reg
    /\ ToSet(m.active) = {fd \in m.reg : "NEED_TIMEOUT" \in m.last[fd]}
    /\ \A i, j \in DOMAIN m.active :
           i < j => m.due[m.active[i]] <= m.due[m.active[j]]

\* The inductive invariant behind the invariants of the server: each of them
\* needs the others, because only the modes of registered connections may be
\* tracked, and an item is unlinked only when its mode says it is linked.
IInv == /\ TypeOK /\ FdSetsFollowModes /\ ModesFollowStates /\ ReportedStayRegistered
        /\ ListsHoldItems /\ DescriptorsAreOwned /\ ConnectionsAreSound
        /\ AttentionNotLost /\ SealedUnlessSetupFails /\ WorkBelongsToLoop

=============================================================================
