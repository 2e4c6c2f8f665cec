---------------------------- MODULE Interserver ----------------------------
(***************************************************************************)
(* The interserver connection KssInterKsServerConnection                   *)
(* (ks/src/interserver.cpp): how a server talks to another server through  *)
(* a client connection under control of its own connection manager.  This  *)
(* is the case in which the port of the other server is given, so open()   *)
(* goes straight to the server.  Its methods are operators on a record w:  *)
(*   m, cs, open, up   as in module ServerLoop                             *)
(*   cfd    descriptor of _cln_con, or NoFd                                *)
(*   isc    _state: "CLOSED", "OPEN" or "BUSY"                             *)
(* and yield the set of their possible results.                            *)
(***************************************************************************)
EXTENDS ConnectionMgr

\* Bound: user code does not send, close or stop once _serviceable_count has
\* drifted that far (it only ever grows too large, see removeConnection).
CONSTANT MaxCount
ASSUME MaxCountAssumption == MaxCount \in Nat

NoFd == -1

\* accept() and socket() return the lowest descriptor that is not open.
LowestFree(openFds) == Min(FD \ openFds)

\* closeConnection(): the connection is taken from the manager, shut down
\* and deleted.
closeConnection(w) ==
    IF w.cfd = NoFd THEN [w EXCEPT !.isc = "CLOSED"]
    ELSE [w EXCEPT !.m    = removeConnection(@, w.cfd),
                   !.cs   = [@ EXCEPT ![w.cfd] = "NONE"],
                   !.open = @ \ {w.cfd},
                   !.cfd  = NoFd,
                   !.isc  = "CLOSED"]

\* open() and openServerConnection(): no descriptor is left, connect() fails
\* at once and the connection is shut down again, or the connection is
\* being established.  activateConnection() does not look at the result of
\* addConnection().
openServerConnection(w) ==
    IF w.isc # "CLOSED" \/ w.open = FD THEN {w}
    ELSE LET fd == LowestFree(w.open)
         IN  {w} \cup
             {[m    |-> r.m,
               cs   |-> [w.cs EXCEPT ![fd] = r.st],
               open |-> w.open \cup {fd},
               up   |-> [w.up EXCEPT ![fd] = TRUE],
               cfd  |-> fd,
               isc  |-> "BUSY"] :
                 r \in addConnection(w.m, fd, "CLIENT", TRUE, "CONNECTING")}

\* trackConnection() of the connection; it does nothing if the manager does
\* not know the connection.
Retrack(w) ==
    IF w.cfd \notin w.m.reg THEN {w}
    ELSE {[w EXCEPT !.m = r.m, !.cs = [@ EXCEPT ![w.cfd] = r.st]] :
             r \in trackConnection(w.m, w.cfd, "CLIENT", w.up[w.cfd], w.cs[w.cfd])}

\* send(): the request cannot be encoded, or the connection starts sending it.
sendCall(w) ==
    IF w.isc # "OPEN" \/ w.m.count >= MaxCount THEN {w}
    ELSE {w} \cup
         {[x EXCEPT !.isc = "BUSY"] :
             x \in Retrack([w EXCEPT !.cs = [@ EXCEPT ![w.cfd] = "SENDING"]])}

\* receive(): the reply is read and the connection is reset.  When the header
\* says that the call ended in an RPC error, beginReceive() fails and the
\* connection stays as it is, ready.
receiveReply(w) ==
    {x \in {w} : "rpcerror" \in Faults} \cup
    {[w EXCEPT !.m = r.m, !.cs = [@ EXCEPT ![w.cfd] = r.st]] :
        r \in resetConnection(w.m, w.cfd, "CLIENT", w.up[w.cfd], w.cs[w.cfd])}

\* The user closes the connection in its callback, and may open it again.
\* The old connection is then not reactivated.
CloseInCallback(w) ==
    {closeConnection(w)} \cup openServerConnection(closeConnection(w))

\* attention(): a failed connection is closed.  A connection that is
\* established or has a reply is presented to the user, whose callback
\* async_attention() may send a (further) request or close the connection;
\* a reply is read first.  Then the connection is reactivated; while an RPC
\* error is left in it, it asks for attention again at once.
attention(w) ==
    LET st       == w.cs[w.cfd]
        opened   == [w EXCEPT !.isc = "OPEN"]
        received == receiveReply(opened)
        idle     == IF st = "CONNECTED" THEN {opened} ELSE received
    IN  IF st \in {"CONN_FAILED", "READY_FAILED", "DEAD"}
        THEN CloseInCallback(w)
        ELSE CloseInCallback(opened) \cup
             UNION {Retrack(x) : x \in UNION {sendCall(y) : y \in idle}}

=============================================================================
