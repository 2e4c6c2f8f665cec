--------------------------- MODULE UdpConnection ---------------------------
(***************************************************************************)
(* KssUDPXDRConnection (xdrudpcon.cpp) at both ends: the one transport of  *)
(* a server, and the connections of clients that repeat a request until it *)
(* is answered or the total timeout is over.  The network between them     *)
(* loses, repeats and reorders datagrams: one that was sent may be         *)
(* received at any time later, any number of times, or never.              *)
(***************************************************************************)
EXTENDS Naturals, FiniteSets

CONSTANTS
    Clients,
    MaxRequests,          \* bound on the requests of each client
    _total_timeout,    \* in units of the retry timeout
    Garbling,          \* the clients that may send what cannot be decoded
    TxFails,           \* whether sendto() may fail
    Nothing

ASSUME UdpAssumption ==
    /\ _total_timeout \in Nat \ {0} /\ MaxRequests \in [Clients -> Nat]
    /\ Garbling \subseteq Clients
    /\ Nothing \notin Clients \cup [by : Clients, number : Nat]

VARIABLES
    server,      \* state, _client_address, header: the call of _rpc_header, sendbuffer
    client,      \* of each client: state, call: the number in _xid, passed, got
    net,         \* the datagrams that were sent
    dispatched,  \* the calls the server has dispatched
    garbled      \* the clients from which something came that could not be decoded

udpVars == <<server, client, net, dispatched, garbled>>

ThisCall(c) == [by |-> c, number |-> client[c].call]

UdpInit ==
    /\ server = [state |-> "IDLE", peer |-> Nothing, header |-> Nothing,
                 sendbuffer |-> Nothing]
    /\ client = [c \in Clients |-> [state |-> "CONNECTED", call |-> 0, passed |-> 0,
                                    got |-> Nothing]]
    /\ net = {} /\ dispatched = {} /\ garbled = {}

-----------------------------------------------------------------------------
\* Server

\* Slip: a datagram is read while a request is still dispatched.
serverReceive_Busy ==
    \E d \in net :
        /\ server.state \in {"IDLE", "READY"} /\ d.kind = "request"
        /\ server' = [server EXCEPT !.state = "READY", !.peer = d.call.by,
                                    !.header = IF server.state = "IDLE" THEN d.call ELSE @]
        /\ UNCHANGED <<client, net, dispatched, garbled>>

\* receive() of a server: the sender's address is overwritten, and nothing else
\* is read until this request is answered.
serverReceive ==
    \E d \in net :
        /\ server.state = "IDLE" /\ d.kind = "request"
        /\ server' = [server EXCEPT !.state = "READY", !.peer = d.call.by, !.header = d.call]
        /\ UNCHANGED <<client, net, dispatched, garbled>>

\* The header cannot be decoded: SENDING, but nothing was put into _sendbuffer.
serverReceiveUndecodable ==
    /\ server.state = "IDLE"
    /\ \E c \in Garbling :
         /\ server' = [server EXCEPT !.state = "SENDING", !.peer = c]
         /\ garbled' = garbled \cup {c}
    /\ UNCHANGED <<client, net, dispatched>>

\* sendReply(), sendErrorReply(), sendPingReply(), and the cases in which they
\* or personaNonGrata() fall back to reset().
serverDispatch ==
    /\ server.state = "READY"
    /\ \/ server' = [server EXCEPT !.state = "SENDING", !.sendbuffer = server.header]
       \/ server' = [server EXCEPT !.state = "IDLE"]
    /\ dispatched' = dispatched \cup {server.header}
    /\ UNCHANGED <<client, net, garbled>>

\* send() of a server, to the address of the last datagram; sendto() may fail.
serverSend ==
    /\ server.state = "SENDING"
    /\ server' = [server EXCEPT !.state = "IDLE"]
    /\ \/ net' = net \cup {[kind |-> "reply", to |-> server.peer, call |-> server.sendbuffer]}
       \/ TxFails /\ net' = net
    /\ UNCHANGED <<client, dispatched, garbled>>

-----------------------------------------------------------------------------
\* Client

ClientBecomes(c, r) == client' = [client EXCEPT ![c] = r]

\* beginRequest(), sendRequest(): with a new transaction id.
beginRequest(c) ==
    /\ client[c].state \in {"CONNECTED", "READY", "READY_FAILED", "PASSIVE"}
    /\ client[c].call < MaxRequests[c]
    /\ ClientBecomes(c, [state |-> "SENDING", call |-> client[c].call + 1, passed |-> 0,
                  got |-> Nothing])
    /\ UNCHANGED <<server, net, dispatched, garbled>>

clientSend(c) ==
    /\ client[c].state = "SENDING"
    /\ ClientBecomes(c, [client[c] EXCEPT !.state = "WAITING"])
    /\ net' = net \cup {[kind |-> "request", call |-> ThisCall(c)]}
    /\ UNCHANGED <<server, dispatched, garbled>>

\* A hard error of sendto(): reset().
clientSendFails(c) ==
    /\ TxFails
    /\ client[c].state = "SENDING"
    /\ ClientBecomes(c, [client[c] EXCEPT !.state = "PASSIVE"])
    /\ UNCHANGED <<server, net, dispatched, garbled>>

\* Slip: any answer will do.
clientReceive_Any(c) ==
    \E d \in net :
        /\ client[c].state = "WAITING" /\ d.kind = "reply" /\ d.to = c
        /\ ClientBecomes(c, [client[c] EXCEPT !.state = "READY", !.got = d.call])
        /\ UNCHANGED <<server, net, dispatched, garbled>>

\* receive() of a client: answers to other transactions are read and ignored,
\* and do not prolong the timeout.
clientReceive(c) ==
    \E d \in net :
        /\ client[c].state = "WAITING" /\ d.kind = "reply" /\ d.to = c
        /\ ClientBecomes(c, IF d.call = ThisCall(c)
                     THEN [client[c] EXCEPT !.state = "READY", !.got = d.call]
                     ELSE client[c])
        /\ UNCHANGED <<server, net, dispatched, garbled>>

\* Slip: the time that has passed is forgotten when a request is repeated.
RetryOver_Again(c) ==
    /\ client[c].state = "WAITING"
    /\ ClientBecomes(c, [client[c] EXCEPT
                    !.passed = 0,
                    !.state = IF client[c].passed + 1 >= _total_timeout
                              THEN "READY_FAILED" ELSE "SENDING"])
    /\ UNCHANGED <<server, net, dispatched, garbled>>

\* timedOut(): no answer for one retry timeout.
RetryOver(c) ==
    /\ client[c].state = "WAITING"
    /\ ClientBecomes(c, [client[c] EXCEPT
                    !.passed = @ + 1,
                    !.state = IF client[c].passed + 1 >= _total_timeout
                              THEN "READY_FAILED" ELSE "SENDING"])
    /\ UNCHANGED <<server, net, dispatched, garbled>>

-----------------------------------------------------------------------------
ServerHandles == serverReceive \/ serverDispatch \/ serverSend
ClientStep(c) == clientSend(c) \/ clientReceive(c) \/ RetryOver(c)

UdpNext ==
    \/ ServerHandles \/ serverReceiveUndecodable
    \/ \E c \in Clients : beginRequest(c) \/ ClientStep(c) \/ clientSendFails(c)

UdpSpec == UdpInit /\ [][UdpNext]_udpVars

\* The connection manager tells a connection when it may send or is due.
UdpFairness ==
    /\ WF_udpVars(serverDispatch) /\ WF_udpVars(serverSend)
    /\ \A c \in Clients : WF_udpVars(clientSend(c)) /\ WF_udpVars(RetryOver(c))

UdpFairSpec == UdpSpec /\ UdpFairness

-----------------------------------------------------------------------------
\* Properties

\* A client takes only the answer to its present request for the answer, and one
\* the server has dispatched: late answers are told apart by the transaction id.
\* And the server sends an answer only to the client that asked: the one address
\* it keeps is still that of the request then.  Only a client that has sent what
\* cannot be decoded is sent what is left in _sendbuffer.
AnswersGoToTheirCaller ==
    /\ \A c \in Clients : client[c].state = "READY" =>
          client[c].got = ThisCall(c) /\ ThisCall(c) \in dispatched
    /\ \A d \in net : d.kind = "reply" /\ d.to \notin garbled =>
          d.call # Nothing /\ d.call.by = d.to

\* Every call ends, with an answer or a failure, whatever the network does; when
\* sendto() fails it ends in PASSIVE, and nobody is told.
CallsEnd ==
    \A c \in Clients :
        client[c].state = "SENDING" ~> client[c].state \in {"READY", "READY_FAILED", "PASSIVE"}
=============================================================================
