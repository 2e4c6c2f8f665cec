------------------------------ MODULE Connection ------------------------------
(***************************************************************************)
(* The connection objects of ACPLT/KS: the finite automata behind class    *)
(* KssConnection (ks/include/ks/connection.h) for the TCP rendezvous       *)
(* socket and for TCP connections on the server and on the client side     *)
(* (ks/src/xdrtcpcon.cpp).  The connection manager only sees the I/O mode  *)
(* a connection reports, so every method is an operator that yields the    *)
(* set of its possible outcomes [st, io]: the state the connection is left *)
(* in and the I/O mode the method returns.  The bytes on the wire, the     *)
(* fragment automaton and the error statistics are abstracted away; which  *)
(* outcome happens is up to the peer, the network and the memory pool.     *)
(***************************************************************************)

(***************************************************************************)
(* Faults is the set of unusual things the environment may do:             *)
(*  "decode"  a peer sends a telegram whose RPC header does not decode;    *)
(*  "encode"  a reply does not fit into the XDR fragment pool;             *)
(*  "setup"   the socket options of a new connection cannot be set or its  *)
(*            XDR stream cannot be created;                                *)
(*  "rpcerror"  another server answers a request with an RPC error.        *)
(***************************************************************************)
CONSTANT Faults

AllFaults == {"decode", "encode", "setup", "rpcerror"}

ASSUME FaultsAssumption == Faults \subseteq AllFaults

\* enum ConnectionType, with the rendezvous socket as a kind of its own.
Kinds == {"LISTENER", "SERVER", "CLIENT"}

\* enum ConnectionState; "NONE": there is no connection object.
LiveStates == {"IDLE", "WAITING", "PASSIVE", "READY", "READY_FAILED",
               "RECEIVING", "SENDING", "CONNECTING", "CONN_FAILED",
               "CONNECTED"}
ConnectionState == LiveStates \cup {"DEAD", "NONE"}

\* enum ConnectionIoMode: a set of flags, CNX_IO_DORMANT is the empty set.
\* The CNX_IO_HAD_..._ERROR flags only feed counters and are left out.
IoFlags == {"READABLE", "WRITEABLE", "ATTENTION", "DEAD", "NEED_TIMEOUT",
            "NO_FASTWRITE"}

\* The flags the connection manager acts on as long as they are set.
Watched == {"READABLE", "WRITEABLE", "NEED_TIMEOUT"}
SameWatch(io1, io2) == io1 \cap Watched = io2 \cap Watched

\* Only accepted TCP connections may be destroyed by the connection manager.
isAutoDestroyable(kind) == kind = "SERVER"

-----------------------------------------------------------------------------
ListenIoMode(st) == IF st = "DEAD" THEN {"DEAD"} ELSE {"READABLE"}

\* Slip: a connection that is sending is read from as well.
TcpIoMode_FullDuplex(st) ==
    CASE st = "DEAD"                               -> {"DEAD"}
      [] st = "IDLE"                               -> {"READABLE"}
      [] st \in {"WAITING", "RECEIVING"}           -> {"READABLE", "NEED_TIMEOUT"}
      [] st \in {"READY", "READY_FAILED", "CONN_FAILED"} -> {"ATTENTION"}
      [] st = "SENDING"          -> {"READABLE", "WRITEABLE", "NEED_TIMEOUT"}
      [] st = "CONNECTING" -> {"READABLE", "WRITEABLE", "NEED_TIMEOUT", "NO_FASTWRITE"}
      [] OTHER                                     -> {}

TcpIoMode(st) ==
    CASE st = "DEAD"                               -> {"DEAD"}
      [] st = "IDLE"                               -> {"READABLE"}
      [] st \in {"WAITING", "RECEIVING"}           -> {"READABLE", "NEED_TIMEOUT"}
      [] st \in {"READY", "READY_FAILED", "CONN_FAILED"} -> {"ATTENTION"}
      [] st = "SENDING"                            -> {"WRITEABLE", "NEED_TIMEOUT"}
      [] st = "CONNECTING" -> {"READABLE", "WRITEABLE", "NEED_TIMEOUT", "NO_FASTWRITE"}
      [] OTHER                                     -> {}

getIoMode(kind, st) ==
    IF kind = "LISTENER" THEN ListenIoMode(st) ELSE TcpIoMode(st)

\* A method that ends with "return getIoMode()" in state st.
Enter(kind, st) == [st |-> st, io |-> getIoMode(kind, st)]

\* I/O trouble: a client connection waits to be killed by its owner, a
\* server connection asks the connection manager to destroy it.
Broken(kind) == IF kind = "CLIENT" THEN "READY_FAILED" ELSE "DEAD"

-----------------------------------------------------------------------------
\* The state reset() leaves a TCP connection in.
ResetState(kind, st) ==
    IF st = "DEAD" THEN "DEAD"
    ELSE IF st \in {"SENDING", "WAITING", "RECEIVING"}
         THEN CASE kind = "CLIENT"  -> "READY_FAILED"
                [] st = "SENDING"   -> "IDLE"
                [] OTHER            -> "DEAD"
         ELSE IF kind = "CLIENT" THEN "CONNECTED" ELSE st

reset(kind, st) ==
    IF kind = "LISTENER" THEN Enter(kind, st)
                         ELSE Enter(kind, ResetState(kind, st))

timedOut(kind, st) ==
    Enter(kind, CASE kind = "LISTENER" \/ st = "DEAD"        -> st
                  [] kind = "CLIENT" /\ st = "CONNECTING"    -> "CONN_FAILED"
                  [] kind = "CLIENT" /\ st # "CONNECTING"    -> "READY_FAILED"
                  [] OTHER                                   -> "IDLE")

\* receive() and send() first complete a pending connect(); a connection that
\* has just got its result is not asked to give attention a second time.
Connect(kind, st, up) ==
    CASE st = "CONNECTING" ->
            {Enter(kind, "CONN_FAILED")} \cup
            (IF up THEN {[st |-> "CONNECTED", io |-> {"ATTENTION"}]} ELSE {})
      [] OTHER -> {[st |-> st, io |-> getIoMode(kind, st) \ {"ATTENTION"}]}

\* The states a complete telegram can leave a connection in: a request or
\* the matching reply; a header that does not decode (or, at the client, a
\* foreign transaction id).  The server then answers with an RPC error, if
\* that can be encoded.
Complete(kind) ==
    {"READY"} \cup
    IF kind = "CLIENT" THEN {"READY_FAILED"}
    ELSE IF "decode" \in Faults
         THEN {"SENDING"} \cup
              (IF "encode" \in Faults THEN {ResetState(kind, "SENDING")} ELSE {})
         ELSE {}

\* receive(): "up" says that the peer still holds its end of the connection;
\* otherwise all its data has been read and read() reports the end of file.
\* Otherwise: nothing there (EWOULDBLOCK), some bytes, a whole telegram, an
\* I/O error, or no memory for the data (the server resets the connection).
\* The rendezvous socket accepts connections instead (Accept in ServerLoop),
\* unless it is dead.
receive(kind, st, up) ==
    IF kind = "LISTENER" THEN {Enter(kind, st)}
    ELSE IF st \in {"CONNECTING", "CONNECTED", "CONN_FAILED"}
    THEN Connect(kind, st, up)
    ELSE LET data == {st, "RECEIVING"} \cup Complete(kind) \cup
                     (IF kind = "SERVER" THEN {ResetState(kind, st)} ELSE {})
         IN  {Enter(kind, s) : s \in {Broken(kind)} \cup (IF up THEN data ELSE {})}

\* send(): the rest of the telegram is written, a part of it, or the write
\* fails.  With the peer gone the kernel either still swallows the data or
\* reports the broken pipe.
send(kind, st, up) ==
    IF kind = "LISTENER" THEN {Enter(kind, st)}
    ELSE IF st \in {"CONNECTING", "CONNECTED", "CONN_FAILED"}
    THEN Connect(kind, st, up)
    ELSE LET sent == IF kind = "CLIENT" THEN "WAITING"
                                        ELSE ResetState(kind, st)
         IN  {Enter(kind, s) :
                 s \in {Broken(kind), sent} \cup (IF up THEN {st} ELSE {})}

-----------------------------------------------------------------------------
\* dispatchTransport(): the request is answered (a ping reply, a result or
\* an error reply), the reply cannot be encoded and the connection is reset,
\* or the sender is a persona non grata.  The state the request leaves the
\* connection in.
dispatchTransport(kind, st) ==
    {"SENDING", "DEAD"} \cup
    (IF "encode" \in Faults THEN {ResetState(kind, st)} ELSE {})

=============================================================================
