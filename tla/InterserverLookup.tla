-------------------------- MODULE InterserverLookup --------------------------
(***************************************************************************)
(* The automaton of KssInterKsServerConnection (interserver.cpp): before a *)
(* server can be connected to, the portmapper of its host is asked for the *)
(* KS manager and the manager for the server, each through a connection of *)
(* its own, and again for an older protocol version.  A connection is      *)
(* abstracted to the outcomes the manager of connections can bring about.  *)
(***************************************************************************)
EXTENDS Integers

CONSTANTS
    KS_PROTOCOL_VERSION, KS_MINPROTOCOL_VERSION,
    AddFails,          \* whether addConnection() may fail
    DatagramsFail,     \* whether the system may refuse a datagram
    RpcErrors,         \* whether a reply may be an RPC error
    NoConnection

ASSUME VersionsAssumption ==
    /\ KS_PROTOCOL_VERSION \in Nat /\ KS_MINPROTOCOL_VERSION \in Nat \ {0}
    /\ KS_MINPROTOCOL_VERSION <= KS_PROTOCOL_VERSION

ASSUME NoConnectionAssumption ==
    NoConnection \notin [protocol : {"UDP", "TCP"}, managed : BOOLEAN,
                         st : {"CONNECTING", "CONNECTED", "CONN_FAILED", "SENDING", "READY",
                               "READY_FAILED", "PASSIVE"},
                         attention : BOOLEAN, rejected : BOOLEAN]

VARIABLES
    isc,               \* _state, _sub_state and _protocol_version
    cln_con,           \* protocol, st and attention of _cln_con, and whether the
                       \* header of its reply is an RPC error; or NoConnection
    sockets,           \* how many connections were made and not yet shut down
    callback,          \* the operation async_attention() is reporting, or "NONE"
    accepted,          \* the operation that was accepted and not yet reported
    peer               \* hostPort: whether the port of the KS manager is given;
                       \* known: the protocol versions it knows the server by

lookupVars == <<isc, cln_con, sockets, callback, accepted, peer>>

PeerVersions == KS_MINPROTOCOL_VERSION .. KS_PROTOCOL_VERSION

LookupInit ==
    /\ isc = [state |-> "CLOSED", sub |-> "NONE", version |-> 0]
    /\ cln_con = NoConnection /\ sockets = 0
    /\ callback = "NONE" /\ accepted = "NONE"
    /\ peer \in [hostPort : BOOLEAN, known : SUBSET PeerVersions]

\* The operations take and yield isc, cln_con and sockets as a record.
Now == [i |-> isc, c |-> cln_con, n |-> sockets]
Becomes(y) == isc' = y.i /\ cln_con' = y.c /\ sockets' = y.n

closeConnection(y) ==
    [i |-> [y.i EXCEPT !.state = "CLOSED"], c |-> NoConnection,
     n |-> IF y.c = NoConnection THEN y.n ELSE y.n - 1]

\* openPortmapperConnection(), openManagerConnection(), openServerConnection():
\* there is no socket, or it is under way, or was not accepted by the manager of
\* connections, which activateConnection() does not notice.  A UDP connection
\* is connected at once.
openConnection(y, sub, protocol) ==
    {y, [y EXCEPT !.i.sub = sub]} \cup
    {[i |-> [y.i EXCEPT !.sub = sub, !.state = "BUSY"],
      c |-> [protocol |-> protocol, managed |-> managed,
             st |-> IF protocol = "UDP" THEN "CONNECTED" ELSE "CONNECTING",
             attention |-> protocol = "UDP" /\ managed, rejected |-> FALSE],
      n |-> y.n + 1] : managed \in IF AddFails THEN BOOLEAN ELSE {TRUE}}

openFirst(y) ==
    IF peer.hostPort THEN openConnection(y, "MANAGER", "TCP")
    ELSE openConnection(y, "PMAP", "UDP")

-----------------------------------------------------------------------------
\* The user of the connection, in async_attention() or at another time.

open ==
    /\ isc.state = "CLOSED"
    /\ \E y \in openFirst([Now EXCEPT !.i.version = KS_PROTOCOL_VERSION]) :
         /\ Becomes(y)
         /\ accepted' = IF y.i.state = "BUSY" THEN "OPEN" ELSE accepted
    /\ UNCHANGED <<callback, peer>>

\* send(): the request can be encoded and the connection is tracked.
send ==
    /\ isc.state = "OPEN"
    /\ Becomes([Now EXCEPT !.i.state = "BUSY", !.c.st = "SENDING", !.c.attention = FALSE,
                           !.c.rejected = FALSE])
    /\ accepted' = "CALL"
    /\ UNCHANGED <<callback, peer>>

close ==
    /\ isc.state # "CLOSED"
    /\ Becomes(closeConnection(Now))
    /\ accepted' = "NONE"
    /\ UNCHANGED <<callback, peer>>

-----------------------------------------------------------------------------
\* What may come of a connection.  A datagram connection whose sendto() fails
\* becomes passive, and nobody is told.
Outcomes(c) ==
    CASE c.st = "CONNECTING" -> {"CONNECTED", "CONN_FAILED"}
      [] c.st = "SENDING" -> {"READY", "READY_FAILED"} \cup
                             (IF DatagramsFail /\ c.protocol = "UDP" THEN {"PASSIVE"} ELSE {})
      [] OTHER -> {}

Progress ==
    /\ cln_con # NoConnection /\ cln_con.managed /\ ~ cln_con.attention
    /\ \E st \in Outcomes(cln_con), rejected \in BOOLEAN :
         /\ rejected => RpcErrors /\ st = "READY"
         /\ Becomes([Now EXCEPT !.c.st = st, !.c.attention = st # "PASSIVE",
                                !.c.rejected = rejected])
    /\ UNCHANGED <<callback, accepted, peer>>

-----------------------------------------------------------------------------
\* attention(): each part yields its results, and whether the user is told.

Told(op, y) == [y |-> y, op |-> op]
Silent(y) == Told("NONE", y)

\* The end of attention(): also after a further connection could not be opened.
Failure(y) == Told("OPEN", closeConnection(y))
Goes(ys) == {IF y.i.state = "BUSY" THEN Silent(y) ELSE Failure(y) : y \in ys}

\* Slip: the connection is not watched after the request was made.
Sending_Unwatched(y) == [y EXCEPT !.c.st = "SENDING", !.c.managed = FALSE]

Sending(y) == [y EXCEPT !.c.st = "SENDING"]

ConnectionFailed(y) ==
    {Told(IF y.c.st = "READY_FAILED" /\ y.i.sub = "SERVER" THEN "CALL" ELSE "OPEN",
          closeConnection(y))}

\* GETPORT is asked, and a port, none, or an error is the answer.
PortmapperAttention(y) ==
    IF y.c.st = "CONNECTED" THEN {Silent(Sending(y)), Failure(y)}
    ELSE IF y.c.rejected THEN {Failure(y)}
    ELSE Goes(openConnection(closeConnection(y), "MANAGER", "UDP")) \cup {Failure(y)}

\* Slip: the version is lowered after it was found.
ManagerAttention_Lower(y) ==
    IF y.c.st = "CONNECTED" THEN {Silent(Sending(y)), Failure(y)}
    ELSE IF y.c.rejected THEN {Failure(y)}
    ELSE IF y.i.version \in peer.known
    THEN Goes(openConnection(closeConnection([y EXCEPT !.i.version = @ - 1]), "SERVER", "TCP"))
    ELSE {Failure(y)}

\* Slip: for an older version the user is told nothing when that fails, too.
ManagerAttention_Silent(y) ==
    IF y.c.st = "CONNECTED" THEN {Silent(Sending(y)), Failure(y)}
    ELSE IF y.c.rejected THEN {Failure(y)}
    ELSE IF y.i.version \in peer.known THEN Goes(openConnection(closeConnection(y), "SERVER", "TCP"))
    ELSE {Silent(closeConnection(y))}

\* GETSERVER is asked for the present protocol version; an older version is
\* asked for when the manager does not know the server.
ManagerAttention(y) ==
    IF y.c.st = "CONNECTED" THEN {Silent(Sending(y)), Failure(y)}
    ELSE IF y.c.rejected THEN {Failure(y)}
    ELSE LET lower == y.i.version - 1
         IN  {Failure(y)} \cup
             IF y.i.version \in peer.known
             THEN Goes(openConnection(closeConnection(y), "SERVER", "TCP"))
             ELSE IF lower >= KS_MINPROTOCOL_VERSION
             THEN Goes(openFirst(closeConnection([y EXCEPT !.i.version = lower])))
             ELSE {}

\* Slip: the connection is not reset after the reply was read.
ServerAttention_Kept(y) ==
    {Told(IF y.c.st = "CONNECTED" THEN "OPEN" ELSE "CALL",
          [y EXCEPT !.i.state = "OPEN", !.c.attention = y.c.st = "READY"])}

\* The user is told, and reads a reply, whereupon the connection is reset.  With
\* an RPC error receive() fails before: the connection stays ready, is tracked
\* again and asks for attention again.
ServerAttention(y) ==
    LET opened == [y EXCEPT !.i.state = "OPEN"]
    IN  {CASE y.c.st = "CONNECTED" -> Told("OPEN", opened)
           [] y.c.st = "READY" /\ ~ y.c.rejected ->
                 Told("CALL", [opened EXCEPT !.c.st = "CONNECTED"])
           [] OTHER -> Told("CALL", [opened EXCEPT !.c.attention = TRUE])}

attention ==
    /\ callback = "NONE" /\ cln_con # NoConnection /\ cln_con.attention
    /\ LET y == [Now EXCEPT !.c.attention = FALSE]
           results == IF y.c.st \in {"CONN_FAILED", "READY_FAILED"} THEN ConnectionFailed(y)
                      ELSE CASE y.i.sub = "PMAP" -> PortmapperAttention(y)
                             [] y.i.sub = "MANAGER" -> ManagerAttention(y)
                             [] y.i.sub = "SERVER" -> ServerAttention(y)
       IN  \E r \in results :
             /\ Becomes(r.y)
             /\ callback' = r.op
             /\ accepted' = IF r.op = accepted THEN "NONE" ELSE accepted
    /\ UNCHANGED peer

CallReturns ==
    /\ callback # "NONE"
    /\ callback' = "NONE"
    /\ UNCHANGED <<isc, cln_con, sockets, accepted, peer>>

LookupNext == open \/ send \/ close \/ Progress \/ attention \/ CallReturns

LookupSpec == LookupInit /\ [][LookupNext]_lookupVars

\* A connection times out when nothing else happens, what asks for attention gets
\* it, and callbacks return.
LookupFairness ==
    WF_lookupVars(Progress) /\ WF_lookupVars(attention) /\ WF_lookupVars(CallReturns)

LookupFairSpec == LookupSpec /\ LookupFairness

-----------------------------------------------------------------------------
\* Properties

\* Whatever a lookup has tried before, every connection but the present one was
\* shut down, and all of them when it is closed; an open connection is to a
\* server of the highest protocol version the manager knows it by, and that is
\* the version its requests are sent with.
TheOneConnectionIsRight ==
    /\ sockets = IF cln_con = NoConnection THEN 0 ELSE 1
    /\ isc.state = "CLOSED" => cln_con = NoConnection
    /\ isc.state = "OPEN" =>
          isc.version \in peer.known /\ \A v \in peer.known : v <= isc.version

\* What is still to be reported: also an RPC error, until it has gone.
toReport ==
    IF isc.state = "OPEN" /\ cln_con.rejected THEN "ERROR" ELSE accepted

\* Every open() and every send() that was accepted is reported as what it was, and
\* none after close(), whatever step of the lookup fails; and reported once, unless
\* the call ended in an RPC error which the user neither closes nor sends upon.
Async == INSTANCE AsyncConnection WITH
    state <- isc.state, pending <- toReport, told <- callback
IsAsyncConnection == Async!Spec

\* A connection does not stay busy: each step of a lookup ends by an answer, by
\* an error or by a timeout.
BusyEnds == isc.state = "BUSY" ~> isc.state # "BUSY"
=============================================================================
