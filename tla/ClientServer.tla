---------------------------- MODULE ClientServer ----------------------------
(***************************************************************************)
(* The client's side of a connection: the table of server objects of       *)
(* KscClient with their reference counts, the transport and the cached     *)
(* negotiators of a KscServer, the retries of a service request and the    *)
(* life of the A/V modules (client.cpp, avmodule.cpp, commobject.cpp).     *)
(* Servers restart and the network fails at any time.                      *)
(***************************************************************************)
EXTENDS Integers, FiniteSets

CONSTANTS
    HostAndNames,      \* the servers, by host and name
    ClientObjects, AvModules,
    ProtocolVersions,          \* of the KS protocol
    Tries,             \* _tries
    Scopes,            \* scope_flags of getEP(): "CHILDREN" or "PARTS"
    Crashing,          \* the servers that crash and restart
    MaxRestarts,       \* bound: restarts of a server
    Null

ASSUME ClientAssumption ==
    /\ ProtocolVersions \subseteq Nat \ {0} /\ ProtocolVersions # {}
    /\ IsFiniteSet(ProtocolVersions) /\ IsFiniteSet(HostAndNames)
    /\ IsFiniteSet(ClientObjects) /\ IsFiniteSet(AvModules)
    /\ Tries \in Nat \ {0} /\ MaxRestarts \in Nat
    /\ Null \notin HostAndNames \cup AvModules /\ Crashing \subseteq HostAndNames

VARIABLES
    objects,           \* the server object of each communication object, or Null
    server_table,      \* the server objects: ref_count, transport,
                       \* the version in server_desc and neg_table
    modules,           \* the A/V modules: life, and the names of their servers
    request,           \* the request under way, and how far it is
    real,              \* the servers: up, version, and how often restarted
    runs, ok           \* executions and outcome of the last request

clientVars == <<objects, server_table, modules, request, real, runs, ok>>

MinProtocolVersion == CHOOSE v \in ProtocolVersions : \A w \in ProtocolVersions : v <= w

NoRequest == [st |-> "IDLE"]
NewServer == [ref_count |-> 0, transport |-> Null, version |-> MinProtocolVersion,
              neg_table |-> [m \in {} |-> Null]]

ClientInit ==
    /\ objects = [o \in ClientObjects |-> Null]
    /\ server_table = [n \in {} |-> NewServer]
    /\ modules = [m \in AvModules |-> [live |-> FALSE, life |-> 0, names |-> {}]]
    /\ request = NoRequest
    /\ real \in [HostAndNames -> [up : {TRUE}, version : ProtocolVersions, starts : {0}]]
    /\ runs = 0 /\ ok = TRUE

BetweenRequests == request.st = "IDLE"

Removed(f, S) == [x \in DOMAIN f \ S |-> f[x]]

\* An identity that nothing in S has: connections, and modules that follow each
\* other at one address, only have to be told from what is still remembered.
FreshIdentity(S) == CHOOSE i \in 0 .. Cardinality(S) : i \notin S

-----------------------------------------------------------------------------
\* The communication objects.

\* KscCommObject(): createServer() finds the server object or makes it.
NewObject(o, n) ==
    /\ BetweenRequests /\ objects[o] = Null
    /\ objects' = [objects EXCEPT ![o] = n]
    /\ LET s == IF n \in DOMAIN server_table THEN server_table[n] ELSE NewServer
       IN server_table' = [k \in DOMAIN server_table \cup {n} |->
              IF k = n THEN [s EXCEPT !.ref_count = @ + 1] ELSE server_table[k]]
    /\ UNCHANGED <<modules, request, real, runs, ok>>

\* Slip: the server object is deleted with the first communication object.
decRefcount_Any(table, n) == Removed(table, {n})

decRefcount(table, n) ==
    IF table[n].ref_count = 1 THEN Removed(table, {n})
    ELSE [table EXCEPT ![n].ref_count = @ - 1]

DeleteObject(o) ==
    /\ BetweenRequests /\ objects[o] # Null
    /\ objects' = [objects EXCEPT ![o] = Null]
    /\ server_table' = decRefcount(server_table, objects[o])
    /\ UNCHANGED <<modules, request, real, runs, ok>>

-----------------------------------------------------------------------------
\* The A/V modules.  The life tells a module from one deleted before it at the
\* same address.
LivesCached(m) ==
    {server_table[n].neg_table[m].life :
        n \in {k \in DOMAIN server_table : m \in DOMAIN server_table[k].neg_table}}

NewModule(m) ==
    /\ BetweenRequests /\ ~ modules[m].live
    /\ modules' = [modules EXCEPT ![m].live = TRUE, ![m].life = FreshIdentity(LivesCached(m))]
    /\ UNCHANGED <<objects, server_table, request, real, runs, ok>>

\* dismissNegotiator() at every server object that is still in the table.
Dismissed(m) ==
    [n \in DOMAIN server_table |->
        IF n \in modules[m].names
        THEN [server_table[n] EXCEPT !.neg_table = Removed(@, {m})]
        ELSE server_table[n]]

DeleteModule(m) ==
    /\ BetweenRequests /\ modules[m].live
    /\ server_table' = Dismissed(m)
    /\ modules' = [modules EXCEPT ![m] = [live |-> FALSE, life |-> 0, names |-> {}]]
    /\ UNCHANGED <<objects, request, real, runs, ok>>

-----------------------------------------------------------------------------
\* The transport of server object s.

\* Slip: the negotiators stay in the cache.
destroyTransport_Keep(s) == [s EXCEPT !.transport = Null]

destroyTransport(s) ==
    [s EXCEPT !.transport = Null, !.neg_table = [m \in {} |-> Null]]

\* A request begins, or goes on, with a new transport.
CreateTransport(st) == [request EXCEPT !.st = "LOOKUP", !.after = st]

Ended(result) == /\ request' = NoRequest /\ ok' = result

\* reconnectServer(KS_RESULT): the server is worth another try.
WorthRetrying(result) == result \notin {"HOSTUNKNOWN", "SERVERUNKNOWN"}

-----------------------------------------------------------------------------
\* A request for communication object o with A/V module avm.

\* requestByOpcode() for a request under way, which starts from LOOKUP when
\* there is no transport.
Requested(c, s) ==
    IF s.transport = Null THEN [c EXCEPT !.st = "LOOKUP", !.after = "REQUEST"]
    ELSE [c EXCEPT !.st = "CALL", !.after = "REQUEST"]

\* getEP() when the version is known: an old server has no parts.
EngPropsOf(c, s) ==
    IF s.version = 1 /\ c.scope # "CHILDREN" THEN Ended(TRUE)
    ELSE /\ LET service == IF s.version = 1 THEN "GETPP" ELSE "GETEP"
            IN request' = Requested([c EXCEPT !.service = service], s)
         /\ UNCHANGED ok

NewCall(o, avm, service, scope) ==
    [st |-> "CALL", after |-> "REQUEST", name |-> objects[o], avm |-> avm,
     service |-> service, scope |-> scope, try_count |-> 0,
     found |-> Null, failed |-> FALSE]

ServiceRequest(o, avm) ==
    /\ BetweenRequests /\ objects[o] # Null
    /\ avm # Null => modules[avm].live
    /\ runs' = 0
    /\ request' = Requested(NewCall(o, avm, "OTHER", "NONE"), server_table[objects[o]])
    /\ UNCHANGED <<objects, server_table, modules, real, ok>>

\* getEP() asks getServerVersion() first, which makes a transport.
getEP(o, avm, scope) ==
    /\ BetweenRequests /\ objects[o] # Null
    /\ avm # Null => modules[avm].live
    /\ runs' = 0
    /\ LET s == server_table[objects[o]]
           c == NewCall(o, avm, "EP", scope)
       IN IF s.transport = Null
          THEN request' = [c EXCEPT !.st = "LOOKUP", !.after = "VERSION"] /\ UNCHANGED ok
          ELSE EngPropsOf(c, s)
    /\ UNCHANGED <<objects, server_table, modules, real>>

-----------------------------------------------------------------------------
\* createTransport(): the old transport goes, the manager is asked, the server
\* is connected to.

TheServer == server_table[request.name]

\* What follows createTransport(), s is the server object then.
Continue(s, result) ==
    LET c == [request EXCEPT !.failed = result # "OK", !.found = Null] IN
    CASE ~ WorthRetrying(result) -> Ended(FALSE)
      [] WorthRetrying(result) /\ request.after = "VERSION" -> EngPropsOf(c, s)
      [] WorthRetrying(result) /\ request.after # "VERSION" ->
             request' = [c EXCEPT !.st = "CALL", !.after = "REQUEST"] /\ UNCHANGED ok

\* getServerDesc(): the manager names a server of at least the version asked for.
LookupFails ==
    {"HOSTUNKNOWN", "CANTCONTACT"} \cup
    (IF real[request.name].version < TheServer.version \/ ~ real[request.name].up
     THEN {"SERVERUNKNOWN"} ELSE {})

Lookup ==
    /\ request.st = "LOOKUP"
    /\ LET s == destroyTransport(TheServer) IN
       \/ \E result \in LookupFails :
             /\ server_table' = [server_table EXCEPT ![request.name] = s]
             /\ Continue(s, result)
       \/ /\ "SERVERUNKNOWN" \notin LookupFails
          /\ server_table' = [server_table EXCEPT ![request.name] =
                                  [s EXCEPT !.version = real[request.name].version]]
          /\ request' = [request EXCEPT !.st = "CONNECT", !.found = real[request.name].starts]
          /\ UNCHANGED ok
    /\ UNCHANGED <<objects, modules, real, runs>>

\* clnttcp_create() to the port the manager told.
SameServer(start) == real[request.name].up /\ real[request.name].starts = start

Connect ==
    /\ request.st = "CONNECT"
    /\ \E connected \in IF SameServer(request.found) THEN BOOLEAN ELSE {FALSE} :
         LET known == {TheServer.neg_table[m].id : m \in DOMAIN TheServer.neg_table}
             s == IF connected
                  THEN [TheServer EXCEPT !.transport =
                          [start |-> request.found, id |-> FreshIdentity(known)]]
                  ELSE TheServer
         IN /\ server_table' = [server_table EXCEPT ![request.name] = s]
            /\ Continue(s, IF connected THEN "OK" ELSE "CANTCONTACT")
    /\ UNCHANGED <<objects, modules, real, runs>>

-----------------------------------------------------------------------------
\* The loop of requestByOpcode().

\* getNegotiator(): the module negotiates once for each connection.
Negotiated(s, avm) ==
    IF avm = Null \/ avm \in DOMAIN s.neg_table THEN s
    ELSE [s EXCEPT !.neg_table = [m \in DOMAIN @ \cup {avm} |->
             IF m = avm THEN [id |-> s.transport.id, life |-> modules[avm].life] ELSE @[m]]]

Remembered(avm) ==
    IF avm = Null \/ avm \in DOMAIN TheServer.neg_table THEN modules
    ELSE [modules EXCEPT ![avm].names = @ \cup {request.name}]

\* What clnt_call() may report, and whether the server executed the request.
Reports ==
    LET lost == {"CANTSEND", "CANTRECV", "TIMEDOUT"} \X {FALSE} IN
    IF TheServer.transport = Null THEN {<<"FAILED", FALSE>>}
    ELSE IF ~ SameServer(TheServer.transport.start) THEN lost
    ELSE IF request.service = "GETEP" /\ real[request.name].version = 1
         THEN lost \cup {<<"PROCUNAVAIL", FALSE>>}
    ELSE lost \cup {<<"SUCCESS", TRUE>>, <<"CANTRECV", TRUE>>, <<"TIMEDOUT", TRUE>>,
                    <<"CANTDECODERES", TRUE>>}

\* Slip: the tries are counted from zero again with every transport.
Retries_Reset(errcode) == errcode \in {"CANTSEND", "CANTRECV", "TIMEDOUT", "FAILED"}

\* reconnectServer(try_count, errcode)
Retries(errcode) ==
    /\ request.try_count + 1 < Tries
    /\ errcode \in {"CANTSEND", "CANTRECV", "TIMEDOUT", "FAILED"}

\* setResultAfterService(), unless there was an error before.
Result(errcode) == ~ request.failed /\ errcode = "SUCCESS"

ServiceCall ==
    /\ request.st = "CALL"
    /\ \E r \in Reports :
         LET errcode == r[1]
             s == IF TheServer.transport = Null THEN TheServer
                  ELSE Negotiated(TheServer, request.avm)
         IN /\ runs' = IF r[2] THEN runs + 1 ELSE runs
            /\ modules' = IF TheServer.transport = Null THEN modules
                          ELSE Remembered(request.avm)
            /\ \/ /\ errcode = "SUCCESS"
                  /\ server_table' = [server_table EXCEPT ![request.name] = s]
                  /\ Ended(Result(errcode))
               \/ /\ errcode # "SUCCESS" /\ Retries(errcode)
                  /\ server_table' = [server_table EXCEPT ![request.name] = s]
                  /\ request' = [CreateTransport("AGAIN") EXCEPT !.try_count = @ + 1]
                  /\ UNCHANGED ok
               \/ /\ errcode # "SUCCESS" /\ ~ Retries(errcode)
                  /\ server_table' =
                        [server_table EXCEPT ![request.name] = destroyTransport(s)]
                  /\ Ended(Result(errcode))
    /\ UNCHANGED <<objects, real>>

-----------------------------------------------------------------------------
\* The servers.

Crash(n) ==
    /\ n \in Crashing /\ real[n].up
    /\ real' = [real EXCEPT ![n].up = FALSE]
    /\ UNCHANGED <<objects, server_table, modules, request, runs, ok>>

\* The new server may speak another version of the protocol.
Restart(n, v) ==
    /\ ~ real[n].up /\ real[n].starts < MaxRestarts
    /\ real' = [real EXCEPT ![n] = [up |-> TRUE, version |-> v, starts |-> @.starts + 1]]
    /\ UNCHANGED <<objects, server_table, modules, request, runs, ok>>

Client == Lookup \/ Connect \/ ServiceCall

ClientNext ==
    \/ \E o \in ClientObjects, n \in HostAndNames : NewObject(o, n)
    \/ \E o \in ClientObjects : DeleteObject(o)
    \/ \E m \in AvModules : NewModule(m) \/ DeleteModule(m)
    \/ \E o \in ClientObjects, avm \in AvModules \cup {Null} :
          \/ ServiceRequest(o, avm)
          \/ \E scope \in Scopes : getEP(o, avm, scope)
    \/ Client
    \/ \E n \in HostAndNames : Crash(n) \/ \E v \in ProtocolVersions : Restart(n, v)

\* A request does not wait for ever: every wait for an answer has a time limit.
ClientSpec == ClientInit /\ [][ClientNext]_clientVars /\ WF_clientVars(Client)

-----------------------------------------------------------------------------
\* However often connections are lost, a server object exists exactly as long as
\* communication objects refer to it, and counts them; every negotiator in its
\* cache was made for the present connection, not by one before it at the same
\* address, by an A/V module that still exists.
ServerObjectsAreCurrent ==
    /\ \A o \in ClientObjects : objects[o] # Null => objects[o] \in DOMAIN server_table
    /\ \A n \in DOMAIN server_table :
          /\ server_table[n].ref_count = Cardinality({o \in ClientObjects : objects[o] = n})
          /\ server_table[n].ref_count > 0
          /\ \A m \in DOMAIN server_table[n].neg_table :
                /\ server_table[n].transport # Null
                /\ server_table[n].neg_table[m].id = server_table[n].transport.id
                /\ modules[m].live /\ modules[m].life = server_table[n].neg_table[m].life

\* The requests are remote calls that end, whatever happens to the connection.
Remote == INSTANCE RemoteCall WITH open <- request.st # "IDLE", runs <- runs
IsCall == Remote!Init /\ [][Remote!Next(ok')]_<<request.st # "IDLE", runs>>
IsRemoteCall == IsCall /\ Remote!Ends

\* Comment of getEP(): without a connection it bails out.  A request that
\* succeeds leaves its transport.
SuccessNeedsATransport ==
    [][~ BetweenRequests /\ request'.st = "IDLE" /\ ok'
          => server_table'[request.name].transport # Null]_clientVars
=============================================================================
