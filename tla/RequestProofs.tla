--------------------------- MODULE RequestProofs ---------------------------
(***************************************************************************)
(* Proofs about what a request of a client goes through (the same parts as *)
(* in MCRequests):                                                         *)
(*   - late, repeated and lost datagrams do not mix up the answers of a    *)
(*     UDP server, for any number of clients, requests and repetitions;    *)
(*   - the server objects of a client and the negotiators they cache are   *)
(*     current, and a request is executed at most as often as it is tried, *)
(*     however often servers restart and connections are lost;             *)
(*   - a package tells what became of each of its variables;               *)
(*   - the paths a client shortens are resolved to the ones it meant;      *)
(*   - a mask matches the names it means, of any length;                   *)
(*   - GETEP lists what the other services find, through all sisters.      *)
(***************************************************************************)
EXTENDS UdpConnection, ClientServer, ClientPackage, ClientPaths, NameMask,
        ServerObjects, ListLemmas, FiniteSetTheorems

-----------------------------------------------------------------------------
(* Calls over UDP.                                                         *)

Calls == [by : Clients, number : Nat]

UdpTypeOK ==
    /\ server \in [state : {"IDLE", "READY", "SENDING"}, peer : Clients \cup {Nothing},
                   header : Calls \cup {Nothing}, sendbuffer : Calls \cup {Nothing}]
    /\ client \in [Clients ->
                     [state : {"CONNECTED", "SENDING", "WAITING", "READY",
                               "READY_FAILED", "PASSIVE"},
                      call : Nat, passed : Nat, got : Calls \cup {Nothing}]]
    /\ net \subseteq [kind : {"request"}, call : Calls] \cup
                     [kind : {"reply"}, to : Clients, call : Calls \cup {Nothing}]
    /\ dispatched \subseteq Calls /\ garbled \subseteq Clients

\* The one address and the one header belong together while a request is
\* dispatched, and so do the address and the buffer while it is answered, unless
\* the peer is one that sent what cannot be decoded.
ServerKeepsPeer ==
    /\ server.peer = Nothing => server.state = "IDLE"
    /\ server.state = "READY" => server.header # Nothing /\ server.header.by = server.peer
    /\ server.state = "SENDING" /\ server.peer \notin garbled =>
          server.sendbuffer # Nothing /\ server.sendbuffer.by = server.peer
    /\ server.sendbuffer \in dispatched \cup {Nothing}

RepliesWereDispatched ==
    \A d \in net : d.kind = "reply" => d.call \in dispatched \cup {Nothing}

UdpInv ==
    /\ UdpTypeOK
    /\ ServerKeepsPeer
    /\ RepliesWereDispatched
    /\ AnswersGoToTheirCaller

\* At first nothing was sent.
LEMMA UdpInitially == UdpInit => UdpInv
BY DEF UdpInit, UdpInv, UdpTypeOK, ServerKeepsPeer, RepliesWereDispatched,
       AnswersGoToTheirCaller

\* The server's steps leave the clients alone.
LEMMA ServerStep ==
    ASSUME UdpInv, ServerHandles \/ serverReceiveUndecodable
    PROVE  UdpInv'
<1> USE DEF UdpInv, UdpTypeOK, ServerKeepsPeer, RepliesWereDispatched,
            AnswersGoToTheirCaller, ThisCall
<1>1. CASE serverReceive
  <2>1. PICK d \in net :
          /\ server.state = "IDLE" /\ d.kind = "request"
          /\ server' = [server EXCEPT !.state = "READY", !.peer = d.call.by,
                                      !.header = d.call]
    BY <1>1 DEF serverReceive
  <2>2. d.call \in Calls /\ d.call.by \in Clients
    BY <2>1 DEF Calls
  <2>3. d.call # Nothing /\ d.call.by # Nothing
    BY <2>2, UdpAssumption DEF Calls
  <2>4. UNCHANGED <<client, net, dispatched, garbled>>
    BY <1>1 DEF serverReceive
  <2>5. UdpTypeOK'
    BY <2>1, <2>2, <2>4
  <2>6. ServerKeepsPeer'
    BY <2>1, <2>2, <2>3, <2>4
  <2>7. QED
    BY <2>4, <2>5, <2>6
<1>2. CASE serverDispatch
  BY <1>2, UdpAssumption DEF serverDispatch
<1>3. CASE serverSend
  BY <1>3, UdpAssumption DEF serverSend
<1>4. CASE serverReceiveUndecodable
  BY <1>4, UdpAssumption DEF serverReceiveUndecodable
<1>5. QED
  BY <1>1, <1>2, <1>3, <1>4 DEF ServerHandles

\* A client's steps leave the server alone; what it has sent is a request.
LEMMA ClientStepKeeps ==
    ASSUME UdpInv, NEW c \in Clients,
           beginRequest(c) \/ ClientStep(c) \/ clientSendFails(c)
    PROVE  UdpInv'
<1> USE DEF UdpInv, UdpTypeOK, ServerKeepsPeer, RepliesWereDispatched,
            AnswersGoToTheirCaller, ThisCall, ClientBecomes
<1>1. CASE beginRequest(c)
  BY <1>1 DEF beginRequest
<1>2. CASE clientSend(c)
  <2> DEFINE d == [kind |-> "request", call |-> ThisCall(c)]
  <2>1. d.call \in Calls /\ d.kind = "request" /\ d \in [kind : {"request"}, call : Calls]
    BY DEF Calls
  <2>2. net' = net \cup {d} /\ UNCHANGED <<server, dispatched, garbled>>
    BY <1>2 DEF clientSend
  <2>3. client' = [client EXCEPT ![c] = [client[c] EXCEPT !.state = "WAITING"]]
    BY <1>2 DEF clientSend
  <2> HIDE DEF d
  <2>4. UdpTypeOK'
    BY <2>1, <2>2, <2>3
  <2>5. RepliesWereDispatched' /\ ServerKeepsPeer'
    BY <2>1, <2>2
  <2>6. AnswersGoToTheirCaller'
    BY <2>1, <2>2, <2>3
  <2>7. QED
    BY <2>4, <2>5, <2>6
<1>3. CASE clientReceive(c)
  <2>1. PICK d \in net :
          /\ d.kind = "reply"
          /\ client' = [client EXCEPT ![c] =
                          IF d.call = ThisCall(c)
                          THEN [client[c] EXCEPT !.state = "READY", !.got = d.call]
                          ELSE client[c]]
    BY <1>3 DEF clientReceive
  <2>2. UNCHANGED <<server, net, dispatched, garbled>>
    BY <1>3 DEF clientReceive
  <2>3. ThisCall(c) \in Calls /\ ThisCall(c) # Nothing
    BY UdpAssumption DEF Calls
  <2>4. d.call = ThisCall(c) => ThisCall(c) \in dispatched
    BY <2>1, <2>3
  <2>5. UdpTypeOK'
    <3>. DEFINE Cs == [state : {"CONNECTED", "SENDING", "WAITING", "READY", "READY_FAILED",
                                "PASSIVE"},
                       call : Nat, passed : Nat, got : Calls \cup {Nothing}]
                ready == [client[c] EXCEPT !.state = "READY", !.got = d.call]
    <3>1. d.call \in Calls \cup {Nothing}
      BY <2>1, <2>3
    <3>2. client[c] \in Cs
      OBVIOUS
    <3>3. ready \in Cs
      BY <3>1, <3>2
    <3>4. client' \in [Clients -> Cs]
      <4>. HIDE DEF ready
      <4>1. client' \in {[client EXCEPT ![c] = ready], client}
        <5>1. client = [client EXCEPT ![c] = client[c]]
          OBVIOUS
        <5>. QED
          BY <2>1, <5>1 DEF ready
      <4>. QED
        BY <3>3, <4>1
    <3>. QED
      BY <2>2, <3>4
  <2>6. AnswersGoToTheirCaller'
    BY <2>1, <2>2, <2>4
  <2>7. QED
    BY <2>2, <2>5, <2>6
<1>4. CASE RetryOver(c)
  <2>1. UNCHANGED <<server, net, dispatched, garbled>>
    BY <1>4 DEF RetryOver
  <2>2. PICK st \in {"READY_FAILED", "SENDING"} :
          client' = [client EXCEPT ![c] = [client[c] EXCEPT !.passed = client[c].passed + 1,
                                                           !.state = st]]
    <3> DEFINE over == IF client[c].passed + 1 >= _total_timeout
                       THEN "READY_FAILED" ELSE "SENDING"
    <3>1. over \in {"READY_FAILED", "SENDING"}
      OBVIOUS
    <3>2. client' = [client EXCEPT ![c] = [client[c] EXCEPT !.passed = client[c].passed + 1,
                                                           !.state = over]]
      BY <1>4 DEF RetryOver
    <3> HIDE DEF over
    <3>3. QED
      BY <3>1, <3>2
  <2>3. UdpTypeOK'
    <3>1. [client[c] EXCEPT !.passed = client[c].passed + 1, !.state = st]
            \in [state : {"CONNECTED", "SENDING", "WAITING", "READY", "READY_FAILED", "PASSIVE"},
                call : Nat, passed : Nat, got : Calls \cup {Nothing}]
      <4>1. client[c] \in [state : {"CONNECTED", "SENDING", "WAITING", "READY", "READY_FAILED",
                                   "PASSIVE"},
                          call : Nat, passed : Nat, got : Calls \cup {Nothing}]
        OBVIOUS
      <4>2. client[c].passed + 1 \in Nat
        BY <4>1
      <4>3. QED
        BY <4>1, <4>2
    <3>2. QED
      BY <2>1, <2>2, <3>1
  <2>4. AnswersGoToTheirCaller'
    BY <2>1, <2>2
  <2>5. QED
    BY <2>1, <2>3, <2>4
<1>5. CASE clientSendFails(c)
  BY <1>5 DEF clientSendFails
<1>6. QED
  BY <1>1, <1>2, <1>3, <1>4, <1>5 DEF ClientStep

\* Every step keeps the invariant.
LEMMA UdpStep == UdpInv /\ [UdpNext]_udpVars => UdpInv'
<1> SUFFICES ASSUME UdpInv, [UdpNext]_udpVars PROVE UdpInv'
  OBVIOUS
<1>1. CASE UNCHANGED udpVars
  BY <1>1 DEF udpVars, UdpInv, UdpTypeOK, ServerKeepsPeer, RepliesWereDispatched,
              AnswersGoToTheirCaller, ThisCall
<1>2. QED
  BY <1>1, ServerStep, ClientStepKeeps DEF UdpNext

\* The address and the header a server keeps are those of the same request.
THEOREM OneRequestAtATime == UdpSpec => []UdpInv
<1>1. QED
  BY UdpInitially, UdpStep, PTL DEF UdpSpec

\* A client takes only the answer to its present request for the answer, and a
\* server answers the client that asked (KssUDPXDRConnection::receive, send).
THEOREM AnswersAreNotMixedUp == UdpSpec => []AnswersGoToTheirCaller
<1>1. UdpInv => AnswersGoToTheirCaller
  BY DEF UdpInv
<1>2. QED
  BY <1>1, OneRequestAtATime, PTL

-----------------------------------------------------------------------------
(* The server objects of a client.                                         *)

Connections == [start : Nat, id : Nat]
Negotiators == UNION {[S -> [id : Nat, life : Nat]] : S \in SUBSET AvModules}
ServerObject ==
    [ref_count : Nat, transport : Connections \cup {Null}, version : ProtocolVersions,
     neg_table : Negotiators]
Requests ==
    [st : {"LOOKUP", "CONNECT", "CALL"}, after : {"REQUEST", "VERSION", "AGAIN"},
     name : HostAndNames, avm : AvModules \cup {Null},
     service : {"OTHER", "EP", "GETPP", "GETEP"}, scope : Scopes \cup {"NONE"},
     try_count : Nat, found : Nat \cup {Null}, failed : BOOLEAN]
ModuleTable == [AvModules -> [live : BOOLEAN, life : Nat, names : SUBSET HostAndNames]]

ClientTypeOK ==
    /\ objects \in [ClientObjects -> HostAndNames \cup {Null}]
    /\ DOMAIN server_table \subseteq HostAndNames
    /\ server_table \in [DOMAIN server_table -> ServerObject]
    /\ modules \in ModuleTable
    /\ request \in {NoRequest} \cup Requests
    /\ real \in [HostAndNames -> [up : BOOLEAN, version : ProtocolVersions, starts : Nat]]
    /\ runs \in Nat /\ ok \in BOOLEAN

\* The communication objects that refer to server object n.
Referring(n) == {o \in ClientObjects : objects[o] = n}

ReferencesAreCounted ==
    /\ \A o \in ClientObjects : objects[o] # Null => objects[o] \in DOMAIN server_table
    /\ \A n \in DOMAIN server_table :
          /\ server_table[n].ref_count = Cardinality(Referring(n))
          /\ server_table[n].ref_count > 0

\* The cache of server object n = s holds negotiators for its connection, made
\* by modules of table mods, which will tell the server object when they go.
CacheIsCurrent(n, s, mods) ==
    \A m \in DOMAIN s.neg_table :
        /\ s.transport # Null /\ s.neg_table[m].id = s.transport.id
        /\ mods[m].live /\ mods[m].life = s.neg_table[m].life
        /\ n \in mods[m].names

CachesAreCurrent == \A n \in DOMAIN server_table : CacheIsCurrent(n, server_table[n], modules)

\* The server object and the module of a request outlive it.  While it connects,
\* the server object has no connection yet; only getEP() waits for the version.  A
\* request has been tried try_count times before.
RequestIsSound ==
    ~ BetweenRequests =>
        /\ request.name \in DOMAIN server_table
        /\ request.avm # Null => modules[request.avm].live
        /\ request.st = "CONNECT" => request.found \in Nat /\ DOMAIN TheServer.neg_table = {}
        /\ request.after = "VERSION" => request.scope \in Scopes
        /\ runs <= request.try_count /\ request.try_count < Tries

ClientInv ==
    /\ ClientTypeOK /\ ReferencesAreCounted /\ CachesAreCurrent /\ RequestIsSound

\* An identity that nothing has exists: there are more candidates than holders.
LEMMA FreshIdentityIsFresh ==
  ASSUME NEW S, IsFiniteSet(S)
  PROVE  FreshIdentity(S) \in Nat \ S
<1>. DEFINE C == 0 .. Cardinality(S)
<1>1. Cardinality(S) \in Nat
  BY FS_CardinalityType
<1>2. Cardinality(C) = Cardinality(S) + 1
  BY <1>1, FS_Interval
<1>3. ~ (C \subseteq S)
  <2>1. C \in SUBSET S => Cardinality(C) <= Cardinality(S)
    BY FS_Subset
  <2>. HIDE DEF C
  <2>. QED
    BY <1>1, <1>2, <2>1
<1>4. PICK i \in C : i \notin S
  BY <1>3
<1>5. FreshIdentity(S) \in C /\ FreshIdentity(S) \notin S
  BY <1>4 DEF FreshIdentity
<1>. QED
  BY <1>1, <1>5

\* What a finite set is mapped to by a function is finite.
LEMMA ImageIsFinite ==
  ASSUME NEW S, IsFiniteSet(S), NEW f, DOMAIN f = S
  PROVE  IsFiniteSet({f[x] : x \in S})
<1>. DEFINE T == {f[x] : x \in S}
            g == [x \in S |-> f[x]]
<1>1. g \in Surjection(S, T)
  BY DEF Surjection
<1>. QED
  BY <1>1, FS_Surjection

\* The fields of a server object, and its cache.
LEMMA ServerObjectFields ==
  ASSUME NEW s \in ServerObject
  PROVE  /\ s.ref_count \in Nat /\ s.transport \in Connections \cup {Null}
         /\ s.version \in ProtocolVersions
         /\ DOMAIN s.neg_table \subseteq AvModules
         /\ s.neg_table \in [DOMAIN s.neg_table -> [id : Nat, life : Nat]]
         /\ s.neg_table \in Negotiators
  BY DEF ServerObject, Negotiators

\* A cache with another negotiator, and one with fewer, are caches.
LEMMA NegotiatorsOf ==
  ASSUME NEW D \in SUBSET AvModules, NEW t \in [D -> [id : Nat, life : Nat]]
  PROVE  t \in Negotiators
  BY DEF Negotiators

\* Tables that hold server objects.
LEMMA TableWith ==
  ASSUME NEW D, NEW T \in [D -> ServerObject], NEW n, NEW s \in ServerObject
  PROVE  [T EXCEPT ![n] = s] \in [D -> ServerObject]
  OBVIOUS

\* destroyTransport() empties the cache.
LEMMA DestroyTransport ==
  ASSUME NEW s \in ServerObject
  PROVE  /\ destroyTransport(s) \in ServerObject
         /\ destroyTransport(s).ref_count = s.ref_count
         /\ destroyTransport(s).transport = Null
         /\ destroyTransport(s).version = s.version
         /\ DOMAIN destroyTransport(s).neg_table = {}
<1>. DEFINE empty == [m \in {} |-> Null]
<1>1. empty \in Negotiators
  <2>1. empty \in [{} -> [id : Nat, life : Nat]]
    OBVIOUS
  <2>. QED
    BY <2>1, NegotiatorsOf
<1>2. DOMAIN empty = {}
  OBVIOUS
<1>. HIDE DEF empty
<1>3. destroyTransport(s) = [s EXCEPT !.transport = Null, !.neg_table = empty]
  BY DEF destroyTransport, empty
<1>. QED
  BY <1>1, <1>2, <1>3 DEF ServerObject

-----------------------------------------------------------------------------
\* The server objects before any request.
LEMMA ClientInitially == ClientInit => ClientInv
<1>. SUFFICES ASSUME ClientInit PROVE ClientInv
  OBVIOUS
<1>1. DOMAIN server_table = {}
  BY DEF ClientInit
<1>2. ClientTypeOK
  <2>1. server_table \in [DOMAIN server_table -> ServerObject]
    BY <1>1 DEF ClientInit
  <2>2. real \in [HostAndNames -> [up : BOOLEAN, version : ProtocolVersions, starts : Nat]]
    <3>1. ASSUME NEW x \in [up : {TRUE}, version : ProtocolVersions, starts : {0}]
          PROVE  x \in [up : BOOLEAN, version : ProtocolVersions, starts : Nat]
      <4>1. \A b \in {TRUE} : b \in BOOLEAN
        BY Zenon
      <4>2. x.up \in BOOLEAN
        BY <4>1, Zenon
      <4>. QED
        BY <4>2
    <3>. QED
      BY <3>1 DEF ClientInit
  <2>3. modules \in ModuleTable /\ objects \in [ClientObjects -> HostAndNames \cup {Null}]
    BY DEF ClientInit, ModuleTable
  <2>. QED
    BY <1>1, <2>1, <2>2, <2>3 DEF ClientInit, ClientTypeOK
<1>3. RequestIsSound
  BY DEF ClientInit, RequestIsSound, BetweenRequests, NoRequest
<1>. QED
  BY <1>1, <1>2, <1>3
     DEF ClientInv, ReferencesAreCounted, CachesAreCurrent, ClientInit

\* There is an oldest version of the protocol.
LEMMA LeastVersion ==
  \E v \in ProtocolVersions : \A w \in ProtocolVersions : v <= w
  BY ClientAssumption, MinOfSet


\* Another communication object refers to n.
LEMMA OneMoreReference ==
  ASSUME objects \in [ClientObjects -> HostAndNames \cup {Null}],
         NEW o \in ClientObjects, objects[o] = Null, NEW n \in HostAndNames,
         objects' = [objects EXCEPT ![o] = n]
  PROVE  /\ Cardinality(Referring(n)') = Cardinality(Referring(n)) + 1
         /\ Cardinality(Referring(n)) \in Nat
         /\ \A k \in HostAndNames \ {n} : Referring(k)' = Referring(k)
<1>1. IsFiniteSet(Referring(n))
  BY ClientAssumption, FS_Subset DEF Referring
<1>2. n # Null /\ o \notin Referring(n)
  BY ClientAssumption DEF Referring
<1>3. Referring(n)' = Referring(n) \cup {o}
  BY <1>2 DEF Referring
<1>4. \A k \in HostAndNames \ {n} : Referring(k)' = Referring(k)
  BY ClientAssumption DEF Referring
<1>. QED
  BY <1>1, <1>2, <1>3, <1>4, FS_AddElement, FS_CardinalityType

\* One fewer communication object refers to n; the last one takes it along.
LEMMA OneFewerReference ==
  ASSUME objects \in [ClientObjects -> HostAndNames \cup {Null}],
         NEW o \in ClientObjects, NEW n \in HostAndNames, objects[o] = n,
         objects' = [objects EXCEPT ![o] = Null]
  PROVE  /\ Cardinality(Referring(n)') = Cardinality(Referring(n)) - 1
         /\ Cardinality(Referring(n)) = 1 =>
               \A p \in ClientObjects : objects'[p] # n
         /\ \A k \in HostAndNames \ {n} : Referring(k)' = Referring(k)
<1>1. IsFiniteSet(Referring(n))
  BY ClientAssumption, FS_Subset DEF Referring
<1>2. n # Null /\ o \in Referring(n)
  BY ClientAssumption DEF Referring
<1>3. Referring(n)' = Referring(n) \ {o}
  BY <1>2 DEF Referring
<1>4. \A k \in HostAndNames \ {n} : Referring(k)' = Referring(k)
  BY ClientAssumption DEF Referring
<1>5. ASSUME Cardinality(Referring(n)) = 1, NEW p \in ClientObjects
      PROVE  objects'[p] # n
  <2>1. PICK x : Referring(n) = {x}
    BY <1>1, <1>5, FS_Singleton
  <2>2. p \in Referring(n) => p = o
    BY <1>2, <2>1
  <2>. QED
    BY <1>2, <2>2 DEF Referring
<1>. QED
  BY <1>1, <1>2, <1>3, <1>4, <1>5, FS_RemoveElement

\* createServer() and the reference it counts.
LEMMA NewObjectStep ==
  ASSUME ClientInv, NEW o \in ClientObjects, NEW n \in HostAndNames, NewObject(o, n)
  PROVE  ClientInv'
<1>. DEFINE D == DOMAIN server_table
            old == IF n \in D THEN server_table[n] ELSE NewServer
            s == [old EXCEPT !.ref_count = @ + 1]
<1>1. /\ ClientTypeOK /\ BetweenRequests /\ objects[o] = Null
      /\ objects' = [objects EXCEPT ![o] = n]
      /\ server_table' = [k \in D \cup {n} |-> IF k = n THEN s ELSE server_table[k]]
      /\ UNCHANGED <<modules, request, real, runs, ok>>
  BY DEF ClientInv, NewObject
<1>2. MinProtocolVersion \in ProtocolVersions
  <2>1. \E v \in ProtocolVersions : \A w \in ProtocolVersions : v <= w
    BY ClientAssumption, LeastVersion
  <2>. QED
    BY <2>1 DEF MinProtocolVersion
<1>3. NewServer \in ServerObject /\ NewServer.ref_count = 0 /\ DOMAIN NewServer.neg_table = {}
  <2>. DEFINE empty == [m \in {} |-> Null]
  <2>1. empty \in Negotiators /\ DOMAIN empty = {}
    <3>1. empty \in [{} -> [id : Nat, life : Nat]]
      OBVIOUS
    <3>. QED
      BY <3>1, NegotiatorsOf
  <2>2. NewServer = [ref_count |-> 0, transport |-> Null, version |-> MinProtocolVersion,
                     neg_table |-> empty]
    BY DEF NewServer
  <2>. HIDE DEF empty
  <2>. QED
    BY <1>2, <2>1, <2>2 DEF ServerObject
<1>4. old \in ServerObject /\ CacheIsCurrent(n, old, modules)
  BY <1>1, <1>3 DEF ClientInv, ClientTypeOK, CachesAreCurrent, CacheIsCurrent
<1>. HIDE DEF old
<1>5. /\ s \in ServerObject /\ s.ref_count = old.ref_count + 1
      /\ s.transport = old.transport /\ s.neg_table = old.neg_table
  BY <1>4 DEF ServerObject
<1>. HIDE DEF s
<1>6. /\ DOMAIN server_table' = D \cup {n} /\ server_table'[n] = s
      /\ \A k \in D \ {n} : server_table'[k] = server_table[k]
  BY <1>1
<1>7. ClientTypeOK'
  BY <1>1, <1>5 DEF ClientTypeOK
<1>8. CachesAreCurrent'
  <2>1. CacheIsCurrent(n, s, modules)
    BY <1>4, <1>5 DEF CacheIsCurrent
  <2>. QED
    BY <1>1, <1>6, <2>1 DEF ClientInv, CachesAreCurrent
<1>9. ReferencesAreCounted'
  <2>1. /\ Cardinality(Referring(n)') = Cardinality(Referring(n)) + 1
        /\ Cardinality(Referring(n)) \in Nat
        /\ \A k \in HostAndNames \ {n} : Referring(k)' = Referring(k)
    BY <1>1, OneMoreReference DEF ClientTypeOK
  <2>2. old.ref_count = Cardinality(Referring(n))
    <3>1. CASE n \in D
      BY <3>1 DEF old, ClientInv, ReferencesAreCounted
    <3>2. CASE n \notin D
      <4>1. Referring(n) = {}
        BY <1>1, <3>2, ClientAssumption DEF ClientInv, ReferencesAreCounted, Referring
      <4>. QED
        BY <1>3, <3>2, <4>1, FS_EmptySet DEF old
    <3>. QED
      BY <3>1, <3>2
  <2>3. \A p \in ClientObjects : objects'[p] # Null => objects'[p] \in D \cup {n}
    BY <1>1 DEF ClientInv, ReferencesAreCounted, ClientTypeOK
  <2>4. \A k \in D \ {n} : /\ server_table[k].ref_count = Cardinality(Referring(k)')
                           /\ server_table[k].ref_count > 0
    BY <1>1, <2>1 DEF ClientInv, ReferencesAreCounted, ClientTypeOK
  <2>5. s.ref_count = Cardinality(Referring(n)') /\ s.ref_count > 0
    BY <1>5, <2>1, <2>2
  <2>. QED
    BY <1>6, <2>3, <2>4, <2>5 DEF ReferencesAreCounted
<1>10. RequestIsSound'
  BY <1>1 DEF RequestIsSound, BetweenRequests
<1>. QED
  BY <1>7, <1>8, <1>9, <1>10 DEF ClientInv

\* decRefcount() deletes the server object with its last reference.
LEMMA DeleteObjectStep ==
  ASSUME ClientInv, NEW o \in ClientObjects, DeleteObject(o)
  PROVE  ClientInv'
<1>. DEFINE D == DOMAIN server_table
<1>a. PICK n : n = objects[o]
  OBVIOUS
<1>1. /\ ClientTypeOK /\ BetweenRequests /\ n # Null
      /\ objects' = [objects EXCEPT ![o] = Null]
      /\ server_table' = decRefcount(server_table, n)
      /\ UNCHANGED <<modules, request, real, runs, ok>>
  BY <1>a DEF ClientInv, DeleteObject
<1>2. n \in HostAndNames /\ n \in D /\ server_table[n] \in ServerObject
  BY <1>1, <1>a DEF ClientInv, ClientTypeOK, ReferencesAreCounted
<1>3. /\ Cardinality(Referring(n)') = Cardinality(Referring(n)) - 1
      /\ Cardinality(Referring(n)) = 1 => \A p \in ClientObjects : objects'[p] # n
      /\ \A k \in HostAndNames \ {n} : Referring(k)' = Referring(k)
  <2>1. objects \in [ClientObjects -> HostAndNames \cup {Null}]
    BY <1>1 DEF ClientTypeOK
  <2>. QED
    BY <1>1, <1>2, <1>a, <2>1, OneFewerReference
<1>4. /\ server_table[n].ref_count = Cardinality(Referring(n))
      /\ server_table[n].ref_count \in Nat \ {0}
  BY <1>2, ServerObjectFields DEF ClientInv, ReferencesAreCounted
<1>5. \A p \in ClientObjects : objects'[p] # Null => objects'[p] = objects[p]
  BY <1>1 DEF ClientTypeOK
<1>6. RequestIsSound'
  BY <1>1 DEF RequestIsSound, BetweenRequests
<1>7. CASE server_table[n].ref_count = 1
  <2>1. /\ DOMAIN server_table' = D \ {n}
        /\ server_table' \in [DOMAIN server_table' -> ServerObject]
        /\ \A k \in D \ {n} : server_table'[k] = server_table[k]
    BY <1>1, <1>7 DEF decRefcount, Removed, ClientTypeOK
  <2>2. ClientTypeOK'
    BY <1>1, <2>1 DEF ClientTypeOK
  <2>3. CachesAreCurrent'
    BY <1>1, <2>1 DEF ClientInv, CachesAreCurrent
  <2>4. ReferencesAreCounted'
    BY <1>1, <1>3, <1>4, <1>5, <1>7, <2>1 DEF ClientInv, ReferencesAreCounted, ClientTypeOK
  <2>. QED
    BY <1>6, <2>2, <2>3, <2>4 DEF ClientInv
<1>8. CASE server_table[n].ref_count # 1
  <2>. DEFINE s == [server_table[n] EXCEPT !.ref_count = @ - 1]
  <2>1. server_table' = [server_table EXCEPT ![n] = s]
    BY <1>1, <1>2, <1>8 DEF decRefcount, ClientTypeOK
  <2>2. /\ s \in ServerObject /\ s.ref_count = server_table[n].ref_count - 1
        /\ s.transport = server_table[n].transport
        /\ s.neg_table = server_table[n].neg_table
    BY <1>2, <1>4, <1>8 DEF ServerObject
  <2>. HIDE DEF s
  <2>3. /\ DOMAIN server_table' = D /\ server_table'[n] = s
        /\ server_table' \in [D -> ServerObject]
        /\ \A k \in D \ {n} : server_table'[k] = server_table[k]
    BY <1>1, <1>2, <2>1, <2>2, TableWith DEF ClientTypeOK
  <2>4. ClientTypeOK'
    BY <1>1, <2>3 DEF ClientTypeOK
  <2>5. CachesAreCurrent'
    <3>1. CacheIsCurrent(n, s, modules)
      BY <1>2, <2>2 DEF ClientInv, CachesAreCurrent, CacheIsCurrent
    <3>. QED
      BY <1>1, <2>3, <3>1 DEF ClientInv, CachesAreCurrent
  <2>6. ReferencesAreCounted'
    <3>1. s.ref_count = Cardinality(Referring(n)') /\ s.ref_count > 0
      BY <1>3, <1>4, <1>8, <2>2
    <3>2. \A k \in D \ {n} : /\ server_table[k].ref_count = Cardinality(Referring(k)')
                             /\ server_table[k].ref_count > 0
      BY <1>1, <1>3 DEF ClientInv, ReferencesAreCounted, ClientTypeOK
    <3>3. \A p \in ClientObjects : objects'[p] # Null => objects'[p] \in D
      BY <1>5 DEF ClientInv, ReferencesAreCounted
    <3>. QED
      BY <2>3, <3>1, <3>2, <3>3 DEF ReferencesAreCounted
  <2>. QED
    BY <1>6, <2>4, <2>5, <2>6 DEF ClientInv
<1>. QED
  BY <1>7, <1>8

\* A module gets a life of its own: none that is still remembered.
LEMMA NewModuleStep ==
  ASSUME ClientInv, NEW m \in AvModules, NewModule(m)
  PROVE  ClientInv'
<1>. DEFINE L == LivesCached(m)
            K == {k \in DOMAIN server_table : m \in DOMAIN server_table[k].neg_table}
            life == [k \in K |-> server_table[k].neg_table[m].life]
<1>1. /\ ClientTypeOK /\ ~ modules[m].live /\ BetweenRequests
      /\ modules' = [modules EXCEPT ![m].live = TRUE, ![m].life = FreshIdentity(L)]
      /\ UNCHANGED <<objects, server_table, request, real, runs, ok>>
  BY DEF ClientInv, NewModule
<1>2. FreshIdentity(L) \in Nat
  <2>1. IsFiniteSet(K)
    BY <1>1, ClientAssumption, FS_Subset DEF ClientTypeOK
  <2>2. IsFiniteSet({life[k] : k \in K})
    BY <2>1, ImageIsFinite
  <2>3. L = {life[k] : k \in K}
    BY DEF LivesCached
  <2>. QED
    BY <2>2, <2>3, FreshIdentityIsFresh
<1>. HIDE DEF L
<1>3. /\ modules' \in ModuleTable
      /\ \A k \in AvModules \ {m} : modules'[k] = modules[k]
  BY <1>1, <1>2 DEF ClientTypeOK, ModuleTable
<1>4. ClientTypeOK'
  BY <1>1, <1>3 DEF ClientTypeOK
<1>5. CachesAreCurrent'
  <2>. SUFFICES ASSUME NEW n \in DOMAIN server_table
                PROVE  CacheIsCurrent(n, server_table[n], modules')
    <3>1. server_table' = server_table
      BY <1>1
    <3>. QED
      BY <3>1 DEF CachesAreCurrent
  <2>. SUFFICES ASSUME NEW k \in DOMAIN server_table[n].neg_table
                PROVE  /\ server_table[n].transport # Null
                       /\ server_table[n].neg_table[k].id = server_table[n].transport.id
                       /\ modules'[k].live /\ modules'[k].life = server_table[n].neg_table[k].life
                       /\ n \in modules'[k].names
    BY DEF CacheIsCurrent
  <2>1. k \in AvModules
    BY <1>1, ServerObjectFields DEF ClientTypeOK
  <2>2. CacheIsCurrent(n, server_table[n], modules)
    BY DEF ClientInv, CachesAreCurrent
  <2>3. k # m
    BY <1>1, <2>2 DEF CacheIsCurrent
  <2>. QED
    BY <1>3, <2>1, <2>2, <2>3 DEF CacheIsCurrent
<1>6. ReferencesAreCounted'
  BY <1>1 DEF ClientInv, ReferencesAreCounted, Referring
<1>7. RequestIsSound'
  BY <1>1 DEF RequestIsSound, BetweenRequests
<1>. QED
  BY <1>4, <1>5, <1>6, <1>7 DEF ClientInv

\* A module that is deleted is dismissed wherever it is cached.
LEMMA DeleteModuleStep ==
  ASSUME ClientInv, NEW m \in AvModules, DeleteModule(m)
  PROVE  ClientInv'
<1>. DEFINE D == DOMAIN server_table
<1>1. /\ ClientTypeOK /\ BetweenRequests /\ server_table' = Dismissed(m)
      /\ modules' = [modules EXCEPT ![m] = [live |-> FALSE, life |-> 0, names |-> {}]]
      /\ UNCHANGED <<objects, request, real, runs, ok>>
  BY DEF ClientInv, DeleteModule
<1>2. /\ modules' \in ModuleTable
      /\ \A k \in AvModules \ {m} : modules'[k] = modules[k]
  BY <1>1 DEF ClientTypeOK, ModuleTable
<1>3. DOMAIN server_table' = D
  BY <1>1 DEF Dismissed
<1>4. ASSUME NEW n \in D
      PROVE  /\ server_table'[n] \in ServerObject
             /\ server_table'[n].ref_count = server_table[n].ref_count
             /\ CacheIsCurrent(n, server_table'[n], modules')
  <2>. DEFINE s == server_table[n]
              t == Removed(s.neg_table, {m})
              r == [s EXCEPT !.neg_table = t]
  <2>1. s \in ServerObject
    BY <1>1 DEF ClientTypeOK
  <2>2. CacheIsCurrent(n, s, modules)
    BY DEF ClientInv, CachesAreCurrent
  <2>3. /\ DOMAIN s.neg_table \subseteq AvModules
        /\ s.neg_table \in [DOMAIN s.neg_table -> [id : Nat, life : Nat]]
    BY <2>1, ServerObjectFields
  <2>4. /\ t \in Negotiators /\ DOMAIN t = DOMAIN s.neg_table \ {m}
        /\ \A k \in DOMAIN t : t[k] = s.neg_table[k]
    <3>1. /\ t \in [DOMAIN s.neg_table \ {m} -> [id : Nat, life : Nat]]
          /\ DOMAIN t = DOMAIN s.neg_table \ {m}
          /\ \A k \in DOMAIN t : t[k] = s.neg_table[k]
      BY <2>3 DEF Removed
    <3>. QED
      BY <2>3, <3>1, NegotiatorsOf
  <2>5. server_table'[n] = IF n \in modules[m].names THEN r ELSE s
    BY <1>1 DEF Dismissed
  <2>. HIDE DEF s, t
  <2>6. CASE n \in modules[m].names
    <3>1. /\ r \in ServerObject /\ r.neg_table = t /\ r.transport = s.transport
          /\ r.ref_count = s.ref_count
      BY <2>1, <2>4 DEF ServerObject
    <3>. HIDE DEF r
    <3>2. CacheIsCurrent(n, r, modules')
      BY <1>2, <2>2, <2>3, <2>4, <3>1 DEF CacheIsCurrent
    <3>. QED
      BY <2>5, <2>6, <3>1, <3>2 DEF s
  <2>7. CASE n \notin modules[m].names
    <3>1. m \notin DOMAIN s.neg_table
      BY <2>2, <2>7 DEF CacheIsCurrent
    <3>2. CacheIsCurrent(n, s, modules')
      BY <1>2, <2>2, <2>3, <3>1 DEF CacheIsCurrent
    <3>. QED
      BY <2>1, <2>5, <2>7, <3>2 DEF s
  <2>. QED
    BY <2>6, <2>7
<1>5. ClientTypeOK'
  <2>1. server_table' \in [D -> ServerObject]
    BY <1>1, <1>3, <1>4 DEF Dismissed
  <2>. QED
    BY <1>1, <1>2, <1>3, <2>1 DEF ClientTypeOK
<1>6. CachesAreCurrent'
  BY <1>3, <1>4 DEF CachesAreCurrent
<1>7. ReferencesAreCounted'
  BY <1>1, <1>3, <1>4 DEF ClientInv, ReferencesAreCounted, Referring
<1>8. RequestIsSound'
  BY <1>1 DEF RequestIsSound, BetweenRequests
<1>. QED
  BY <1>5, <1>6, <1>7, <1>8 DEF ClientInv

\* How a request goes on, from c: it ends, or stays the same call, not yet to be
\* connected.
GoesOn(c) ==
    /\ ok' \in BOOLEAN
    /\ \/ request' = NoRequest
       \/ /\ request' \in Requests /\ request'.st # "CONNECT"
          /\ request'.name = c.name /\ request'.avm = c.avm
          /\ request'.try_count = c.try_count
          /\ request'.after = "VERSION" => request'.scope \in Scopes

\* A new call is a request, not tried yet.
LEMMA NewCallIsRequest ==
  ASSUME NEW o \in ClientObjects, objects[o] \in HostAndNames,
         NEW avm \in AvModules \cup {Null}, NEW service \in {"OTHER", "EP"},
         NEW scope \in Scopes \cup {"NONE"}, NEW c, c = NewCall(o, avm, service, scope)
  PROVE  /\ c \in Requests /\ c.name = objects[o] /\ c.avm = avm /\ c.try_count = 0
         /\ c.scope = scope
  BY DEF NewCall, Requests

\* requestByOpcode() begins with the transport.
LEMMA RequestedGoesOn ==
  ASSUME NEW c \in Requests, NEW s, ok' \in BOOLEAN, request' = Requested(c, s)
  PROVE  GoesOn(c)
<1>1. CASE s.transport = Null
  <2>1. request' = [c EXCEPT !.st = "LOOKUP", !.after = "REQUEST"]
    BY <1>1 DEF Requested
  <2>. QED
    BY <2>1 DEF GoesOn, Requests
<1>2. CASE s.transport # Null
  <2>1. request' = [c EXCEPT !.st = "CALL", !.after = "REQUEST"]
    BY <1>2 DEF Requested
  <2>. QED
    BY <2>1 DEF GoesOn, Requests
<1>. QED
  BY <1>1, <1>2

\* getEP() with the version known.
LEMMA EngPropsGoOn ==
  ASSUME NEW c \in Requests, NEW s, ok \in BOOLEAN, EngPropsOf(c, s)
  PROVE  GoesOn(c)
<1>1. CASE s.version = 1 /\ c.scope # "CHILDREN"
  BY <1>1, Zenon DEF EngPropsOf, Ended, GoesOn
<1>2. CASE ~ (s.version = 1 /\ c.scope # "CHILDREN")
  <2>. DEFINE service == IF s.version = 1 THEN "GETPP" ELSE "GETEP"
              d == [c EXCEPT !.service = service]
  <2>1. request' = Requested(d, s) /\ ok' = ok
    BY <1>2 DEF EngPropsOf
  <2>2. d \in Requests /\ d.name = c.name /\ d.avm = c.avm /\ d.try_count = c.try_count
    BY DEF Requests
  <2>. HIDE DEF d
  <2>3. GoesOn(d)
    BY <2>1, <2>2, RequestedGoesOn
  <2>. QED
    BY <2>2, <2>3 DEF GoesOn
<1>. QED
  BY <1>1, <1>2

\* A request is under way: it is the same call as c, for a server object and a
\* module that exist.
LEMMA GoingOnIsSound ==
  ASSUME ClientTypeOK', NEW c \in Requests, GoesOn(c), c.name \in DOMAIN server_table',
         c.avm # Null => modules'[c.avm].live,
         request' # NoRequest => runs' <= c.try_count /\ c.try_count < Tries
  PROVE  RequestIsSound'
<1>1. CASE request' = NoRequest
  BY <1>1 DEF RequestIsSound, BetweenRequests, NoRequest
<1>2. CASE request' # NoRequest
  BY <1>2 DEF GoesOn, RequestIsSound
<1>. QED
  BY <1>1, <1>2

\* A request begins.
LEMMA BeginStep ==
  ASSUME ClientInv, NEW o \in ClientObjects, NEW avm \in AvModules \cup {Null},
         objects[o] # Null, avm # Null => modules[avm].live, runs' = 0,
         UNCHANGED <<objects, server_table, modules, real>>,
         NEW c \in Requests, c.name = objects[o], c.avm = avm, c.try_count = 0,
         GoesOn(c)
  PROVE  ClientInv'
<1>1. ClientTypeOK'
  BY DEF ClientInv, ClientTypeOK, GoesOn
<1>2. objects[o] \in DOMAIN server_table
  BY DEF ClientInv, ReferencesAreCounted
<1>3. RequestIsSound'
  BY <1>1, <1>2, GoingOnIsSound, ClientAssumption
<1>4. ReferencesAreCounted' /\ CachesAreCurrent'
  BY DEF ClientInv, ReferencesAreCounted, Referring, CachesAreCurrent, CacheIsCurrent
<1>. QED
  BY <1>1, <1>3, <1>4 DEF ClientInv

\* requestByOpcode() of any other service.
LEMMA ServiceRequestStep ==
  ASSUME ClientInv, NEW o \in ClientObjects, NEW avm \in AvModules \cup {Null},
         ServiceRequest(o, avm)
  PROVE  ClientInv'
<1>1. PICK c : c = NewCall(o, avm, "OTHER", "NONE")
  OBVIOUS
<1>2. /\ objects[o] # Null /\ objects[o] \in HostAndNames /\ ok' \in BOOLEAN
      /\ request' = Requested(c, server_table[objects[o]])
  BY <1>1 DEF ClientInv, ClientTypeOK, ServiceRequest
<1>3. c \in Requests /\ c.name = objects[o] /\ c.avm = avm /\ c.try_count = 0
  BY <1>1, <1>2, NewCallIsRequest
<1>4. GoesOn(c)
  BY <1>2, <1>3, RequestedGoesOn
<1>5. /\ avm # Null => modules[avm].live
      /\ runs' = 0 /\ UNCHANGED <<objects, server_table, modules, real>>
  BY DEF ServiceRequest
<1>. QED
  BY <1>2, <1>3, <1>4, <1>5, BeginStep

\* getEP() asks for the version of the server first.
LEMMA GetEPStep ==
  ASSUME ClientInv, NEW o \in ClientObjects, NEW avm \in AvModules \cup {Null},
         NEW scope \in Scopes, getEP(o, avm, scope)
  PROVE  ClientInv'
<1>1. PICK c : c = NewCall(o, avm, "EP", scope)
  OBVIOUS
<1>2. /\ objects[o] # Null /\ objects[o] \in HostAndNames /\ ok \in BOOLEAN
      /\ avm # Null => modules[avm].live
      /\ runs' = 0 /\ UNCHANGED <<objects, server_table, modules, real>>
  BY DEF ClientInv, ClientTypeOK, getEP
<1>3. /\ c \in Requests /\ c.name = objects[o] /\ c.avm = avm /\ c.try_count = 0
      /\ c.scope = scope
  BY <1>1, <1>2, NewCallIsRequest
<1>4. GoesOn(c)
  <2>1. CASE server_table[objects[o]].transport = Null
    <3>1. request' = [c EXCEPT !.st = "LOOKUP", !.after = "VERSION"] /\ ok' = ok
      BY <1>1, <2>1 DEF getEP
    <3>. QED
      BY <1>2, <1>3, <3>1 DEF GoesOn, Requests
  <2>2. CASE server_table[objects[o]].transport # Null
    <3>1. EngPropsOf(c, server_table[objects[o]])
      BY <1>1, <2>2 DEF getEP
    <3>. QED
      BY <1>2, <1>3, <3>1, EngPropsGoOn
  <2>. QED
    BY <2>1, <2>2
<1>. QED
  BY <1>2, <1>3, <1>4, BeginStep

-----------------------------------------------------------------------------
\* A request under way is a call for a server object that exists.
LEMMA UnderWay ==
  ASSUME ClientInv, request.st # "IDLE"
  PROVE  /\ request \in Requests /\ request.name \in DOMAIN server_table
         /\ request.name \in HostAndNames
         /\ TheServer \in ServerObject
         /\ CacheIsCurrent(request.name, TheServer, modules)
         /\ request.avm # Null => request.avm \in AvModules /\ modules[request.avm].live
         /\ request.after = "VERSION" => request.scope \in Scopes
         /\ runs <= request.try_count /\ request.try_count < Tries
<1>1. request \in Requests
  BY DEF ClientInv, ClientTypeOK, NoRequest
<1>2. RequestIsSound /\ ClientTypeOK /\ CachesAreCurrent
  BY DEF ClientInv
<1>3. request.name \in DOMAIN server_table
  BY <1>2 DEF RequestIsSound, BetweenRequests
<1>4. request.avm \in AvModules \cup {Null}
  BY <1>1 DEF Requests
<1>. QED
  BY <1>1, <1>2, <1>3, <1>4
     DEF RequestIsSound, BetweenRequests, ClientTypeOK, CachesAreCurrent, TheServer

\* What happens to the connection of the request's server object does not concern
\* the other server objects, nor the references to any.
LEMMA ServerObjectChanged ==
  ASSUME ClientInv, request.st # "IDLE", NEW n, n = request.name,
         NEW s \in ServerObject, s.ref_count = TheServer.ref_count,
         server_table' = [server_table EXCEPT ![n] = s],
         modules' \in ModuleTable,
         \A m \in AvModules : /\ modules'[m].live = modules[m].live
                              /\ modules'[m].life = modules[m].life
                              /\ modules[m].names \subseteq modules'[m].names,
         CacheIsCurrent(n, s, modules'),
         UNCHANGED <<objects, real>>,
         runs' \in Nat, ok' \in BOOLEAN, request' \in {NoRequest} \cup Requests
  PROVE  /\ ClientTypeOK' /\ ReferencesAreCounted' /\ CachesAreCurrent'
         /\ DOMAIN server_table' = DOMAIN server_table /\ server_table'[n] = s
<1>. DEFINE D == DOMAIN server_table
<1>1. n \in D /\ ClientTypeOK /\ TheServer = server_table[n]
  BY UnderWay DEF ClientInv, TheServer
<1>2. /\ DOMAIN server_table' = D /\ server_table'[n] = s
      /\ server_table' \in [D -> ServerObject]
      /\ \A k \in D \ {n} : server_table'[k] = server_table[k]
  BY <1>1, TableWith DEF ClientTypeOK
<1>3. ClientTypeOK'
  BY <1>1, <1>2 DEF ClientTypeOK
<1>4. ReferencesAreCounted'
  BY <1>1, <1>2 DEF ClientInv, ReferencesAreCounted, Referring
<1>5. ASSUME NEW k \in D PROVE CacheIsCurrent(k, server_table'[k], modules')
  <2>1. CASE k = n
    BY <1>2, <2>1
  <2>2. CASE k # n
    <3>1. server_table'[k] = server_table[k] /\ server_table[k] \in ServerObject
      BY <1>1, <1>2, <2>2 DEF ClientTypeOK
    <3>2. CacheIsCurrent(k, server_table[k], modules)
      BY DEF ClientInv, CachesAreCurrent
    <3>3. DOMAIN server_table[k].neg_table \subseteq AvModules
      BY <3>1, ServerObjectFields
    <3>. QED
      BY <3>1, <3>2, <3>3 DEF CacheIsCurrent
  <2>. QED
    BY <2>1, <2>2
<1>. QED
  BY <1>2, <1>3, <1>4, <1>5 DEF CachesAreCurrent

\* After createTransport() the request goes on.
LEMMA ContinueGoesOn ==
  ASSUME request \in Requests, ok \in BOOLEAN, NEW s,
         NEW res \in {"OK", "HOSTUNKNOWN", "SERVERUNKNOWN", "CANTCONTACT"},
         Continue(s, res)
  PROVE  GoesOn(request)
<1>1. PICK c : c = [request EXCEPT !.failed = res # "OK", !.found = Null]
  OBVIOUS
<1>2. c \in Requests
  <2>1. \A b \in BOOLEAN : [request EXCEPT !.failed = b, !.found = Null] \in Requests
    BY DEF Requests
  <2>2. (res # "OK") \in BOOLEAN
    OBVIOUS
  <2>. QED
    BY <1>1, <2>1, <2>2
<1>3. c.name = request.name /\ c.avm = request.avm /\ c.try_count = request.try_count
  BY <1>1 DEF Requests
<1>4. CASE ~ WorthRetrying(res)
  <2>1. Ended(FALSE)
    BY <1>4, Zenon DEF Continue
  <2>. QED
    BY <2>1, Zenon DEF Ended, GoesOn
<1>5. CASE WorthRetrying(res) /\ request.after = "VERSION"
  <2>1. EngPropsOf(c, s)
    BY <1>1, <1>5 DEF Continue
  <2>2. GoesOn(c)
    BY <1>2, <2>1, EngPropsGoOn
  <2>. QED
    BY <1>3, <2>2 DEF GoesOn
<1>6. CASE WorthRetrying(res) /\ request.after # "VERSION"
  <2>1. request' = [c EXCEPT !.st = "CALL", !.after = "REQUEST"] /\ ok' = ok
    BY <1>1, <1>6 DEF Continue
  <2>. QED
    BY <1>2, <1>3, <2>1 DEF GoesOn, Requests
<1>. QED
  BY <1>4, <1>5, <1>6

\* getServerDesc() within createTransport(), which drops the old transport first.
LEMMA LookupStep ==
  ASSUME ClientInv, Lookup
  PROVE  ClientInv'
<1>. DEFINE n == request.name
<1>1. PICK s : s = destroyTransport(TheServer)
  OBVIOUS
<1>2. request.st = "LOOKUP" /\ UNCHANGED <<objects, modules, real, runs>>
  BY DEF Lookup
<1>3. /\ request \in Requests /\ n \in DOMAIN server_table /\ n \in HostAndNames
      /\ TheServer \in ServerObject
      /\ request.avm # Null => request.avm \in AvModules /\ modules[request.avm].live
      /\ request.after = "VERSION" => request.scope \in Scopes
      /\ runs <= request.try_count /\ request.try_count < Tries
  BY <1>2, UnderWay
<1>4. s \in ServerObject /\ s.ref_count = TheServer.ref_count /\ DOMAIN s.neg_table = {}
  BY <1>1, <1>3, DestroyTransport
<1>5. ok \in BOOLEAN /\ runs \in Nat /\ modules \in ModuleTable
  BY DEF ClientInv, ClientTypeOK
<1>6. ASSUME NEW res \in LookupFails, server_table' = [server_table EXCEPT ![n] = s],
             Continue(s, res)
      PROVE  ClientInv'
  <2>1. res \in {"OK", "HOSTUNKNOWN", "SERVERUNKNOWN", "CANTCONTACT"}
    BY <1>6 DEF LookupFails
  <2>2. GoesOn(request)
    BY <1>3, <1>5, <1>6, <2>1, ContinueGoesOn
  <2>3. CacheIsCurrent(n, s, modules')
    BY <1>4 DEF CacheIsCurrent
  <2>4. ok' \in BOOLEAN /\ request' \in {NoRequest} \cup Requests
    BY <2>2 DEF GoesOn
  <2>5. /\ ClientTypeOK' /\ ReferencesAreCounted' /\ CachesAreCurrent'
        /\ DOMAIN server_table' = DOMAIN server_table
    BY <1>2, <1>4, <1>5, <1>6, <2>3, <2>4, ServerObjectChanged
  <2>6. RequestIsSound'
    BY <1>2, <1>3, <2>2, <2>5, GoingOnIsSound
  <2>. QED
    BY <2>5, <2>6 DEF ClientInv
<1>7. ASSUME server_table' = [server_table EXCEPT ![n] = [s EXCEPT !.version = real[n].version]],
             request' = [request EXCEPT !.st = "CONNECT", !.found = real[n].starts],
             ok' = ok
      PROVE  ClientInv'
  <2>1. PICK t : t = [s EXCEPT !.version = real[n].version]
    OBVIOUS
  <2>2. real[n].version \in ProtocolVersions /\ real[n].starts \in Nat
    BY <1>3 DEF ClientInv, ClientTypeOK
  <2>3. /\ t \in ServerObject /\ t.ref_count = TheServer.ref_count
        /\ DOMAIN t.neg_table = {}
    BY <1>4, <2>1, <2>2 DEF ServerObject
  <2>4. CacheIsCurrent(n, t, modules')
    BY <2>3 DEF CacheIsCurrent
  <2>5. /\ request' \in Requests /\ request'.name = n /\ request'.avm = request.avm
        /\ request'.found \in Nat /\ request'.try_count = request.try_count
        /\ request'.after = request.after /\ request'.scope = request.scope
    BY <1>3, <1>7, <2>2 DEF Requests
  <2>6. /\ ClientTypeOK' /\ ReferencesAreCounted' /\ CachesAreCurrent'
        /\ DOMAIN server_table' = DOMAIN server_table /\ server_table'[n] = t
    BY <1>2, <1>5, <1>7, <2>1, <2>3, <2>4, <2>5, ServerObjectChanged
  <2>7. RequestIsSound'
    <3>1. TheServer' = t
      BY <2>5, <2>6 DEF TheServer
    <3>. QED
      BY <1>2, <1>3, <2>3, <2>5, <2>6, <3>1 DEF RequestIsSound
  <2>. QED
    BY <2>6, <2>7 DEF ClientInv
<1>. QED
  BY <1>1, <1>6, <1>7 DEF Lookup

\* clnttcp_create() within createTransport(): nothing is remembered of an earlier
\* connection.
LEMMA ConnectStep ==
  ASSUME ClientInv, Connect
  PROVE  ClientInv'
<1>. DEFINE n == request.name
            known == {TheServer.neg_table[m].id : m \in DOMAIN TheServer.neg_table}
            t == [start |-> request.found, id |-> FreshIdentity(known)]
<1>1. request.st = "CONNECT" /\ UNCHANGED <<objects, modules, real, runs>>
  BY DEF Connect
<1>2. /\ request \in Requests /\ n \in DOMAIN server_table /\ n \in HostAndNames
      /\ TheServer \in ServerObject
      /\ CacheIsCurrent(n, TheServer, modules)
      /\ request.avm # Null => request.avm \in AvModules /\ modules[request.avm].live
      /\ runs <= request.try_count /\ request.try_count < Tries
  BY <1>1, UnderWay
<1>3. request.found \in Nat /\ DOMAIN TheServer.neg_table = {}
  BY <1>1 DEF ClientInv, RequestIsSound, BetweenRequests
<1>4. t \in Connections
  <2>1. known = {}
    BY <1>3
  <2>2. FreshIdentity(known) \in Nat
    BY <2>1, FS_EmptySet, FreshIdentityIsFresh
  <2>. HIDE DEF known
  <2>. QED
    BY <1>3, <2>2 DEF Connections
<1>5. ok \in BOOLEAN /\ runs \in Nat /\ modules \in ModuleTable
  BY DEF ClientInv, ClientTypeOK
<1>. HIDE DEF t
<1>6. ASSUME NEW s \in {TheServer, [TheServer EXCEPT !.transport = t]},
             server_table' = [server_table EXCEPT ![n] = s],
             NEW res \in {"OK", "CANTCONTACT"}, Continue(s, res)
      PROVE  ClientInv'
  <2>1. /\ s \in ServerObject /\ s.ref_count = TheServer.ref_count
        /\ DOMAIN s.neg_table = {}
    BY <1>2, <1>3, <1>4, <1>6 DEF ServerObject
  <2>2. GoesOn(request)
    BY <1>2, <1>5, <1>6, ContinueGoesOn
  <2>3. CacheIsCurrent(n, s, modules')
    BY <2>1 DEF CacheIsCurrent
  <2>4. ok' \in BOOLEAN /\ request' \in {NoRequest} \cup Requests
    BY <2>2 DEF GoesOn
  <2>5. /\ ClientTypeOK' /\ ReferencesAreCounted' /\ CachesAreCurrent'
        /\ DOMAIN server_table' = DOMAIN server_table
    BY <1>1, <1>5, <1>6, <2>1, <2>3, <2>4, ServerObjectChanged
  <2>6. RequestIsSound'
    BY <1>1, <1>2, <2>2, <2>5, GoingOnIsSound
  <2>. QED
    BY <2>5, <2>6 DEF ClientInv
<1>7. PICK connected \in BOOLEAN :
         LET s == IF connected THEN [TheServer EXCEPT !.transport = t] ELSE TheServer
         IN /\ server_table' = [server_table EXCEPT ![n] = s]
            /\ Continue(s, IF connected THEN "OK" ELSE "CANTCONTACT")
  BY DEF Connect, t
<1>. QED
  BY <1>6, <1>7

\* getNegotiator(): the new negotiator is for this connection, and the module
\* remembers the server.
LEMMA NegotiatedIsCurrent ==
  ASSUME ClientInv, request.st # "IDLE", TheServer.transport # Null,
         NEW n, n = request.name, NEW avm, avm = request.avm,
         NEW s, s = Negotiated(TheServer, avm), modules' = Remembered(avm)
  PROVE  /\ s \in ServerObject /\ s.ref_count = TheServer.ref_count
         /\ CacheIsCurrent(n, s, modules') /\ modules' \in ModuleTable
         /\ \A m \in AvModules : /\ modules'[m].live = modules[m].live
                                 /\ modules'[m].life = modules[m].life
                                 /\ modules[m].names \subseteq modules'[m].names
<1>1. /\ request \in Requests /\ n \in HostAndNames
      /\ TheServer \in ServerObject /\ CacheIsCurrent(n, TheServer, modules)
      /\ avm # Null => avm \in AvModules /\ modules[avm].live
  BY UnderWay
<1>2. modules \in ModuleTable
  BY DEF ClientInv, ClientTypeOK
<1>3. CASE avm = Null \/ avm \in DOMAIN TheServer.neg_table
  <2>1. s = TheServer /\ modules' = modules
    BY <1>3 DEF Negotiated, Remembered
  <2>. QED
    BY <1>1, <1>2, <2>1
<1>4. CASE ~ (avm = Null \/ avm \in DOMAIN TheServer.neg_table)
  <2>. DEFINE N == TheServer.neg_table
              new == [id |-> TheServer.transport.id, life |-> modules[avm].life]
              t == [m \in DOMAIN N \cup {avm} |-> IF m = avm THEN new ELSE N[m]]
  <2>1. avm \in AvModules /\ modules[avm].live /\ avm \notin DOMAIN N
    BY <1>1, <1>4
  <2>2. /\ modules' = [modules EXCEPT ![avm].names = @ \cup {n}]
        /\ modules[avm] \in [live : BOOLEAN, life : Nat, names : SUBSET HostAndNames]
    BY <1>2, <1>4, <2>1 DEF Remembered, ModuleTable
  <2>3. /\ modules' \in ModuleTable
        /\ \A m \in AvModules : /\ modules'[m].live = modules[m].live
                                /\ modules'[m].life = modules[m].life
                                /\ modules[m].names \subseteq modules'[m].names
        /\ n \in modules'[avm].names
    BY <1>1, <1>2, <2>1, <2>2 DEF ModuleTable
  <2>4. TheServer.transport \in Connections
    BY <1>1, ServerObjectFields
  <2>5. /\ DOMAIN N \subseteq AvModules
        /\ N \in [DOMAIN N -> [id : Nat, life : Nat]]
    BY <1>1, ServerObjectFields
  <2>6. new \in [id : Nat, life : Nat]
    BY <2>1, <2>2, <2>4 DEF Connections
  <2>7. new.id = TheServer.transport.id /\ new.life = modules[avm].life
    OBVIOUS
  <2>8. s = [TheServer EXCEPT !.neg_table = t]
    BY <1>4 DEF Negotiated
  <2>. HIDE DEF N, new
  <2>9. /\ t \in [DOMAIN N \cup {avm} -> [id : Nat, life : Nat]]
        /\ DOMAIN t = DOMAIN N \cup {avm} /\ t[avm] = new
        /\ \A m \in DOMAIN N : t[m] = N[m]
    BY <2>1, <2>5, <2>6
  <2>10. t \in Negotiators
    BY <2>1, <2>5, <2>9, NegotiatorsOf
  <2>. HIDE DEF t
  <2>11. /\ s \in ServerObject /\ s.ref_count = TheServer.ref_count
         /\ s.neg_table = t /\ s.transport = TheServer.transport
    BY <1>1, <2>8, <2>10 DEF ServerObject
  <2>12. CacheIsCurrent(n, s, modules')
    <3>. SUFFICES ASSUME NEW m \in DOMAIN t
                  PROVE  /\ t[m].id = s.transport.id
                         /\ modules'[m].live /\ modules'[m].life = t[m].life
                         /\ n \in modules'[m].names
      BY <2>11 DEF CacheIsCurrent
    <3>1. CASE m = avm
      BY <2>1, <2>3, <2>7, <2>9, <2>11, <3>1
    <3>2. CASE m # avm
      <4>1. m \in DOMAIN N /\ m \in AvModules
        BY <2>5, <2>9, <3>2
      <4>. QED
        BY <1>1, <2>3, <2>9, <2>11, <4>1 DEF CacheIsCurrent, N
    <3>. QED
      BY <3>1, <3>2
  <2>. QED
    BY <2>3, <2>11, <2>12
<1>. QED
  BY <1>3, <1>4

\* The loop of requestByOpcode(): a request is sent once for every try.
LEMMA ServiceCallStep ==
  ASSUME ClientInv, ServiceCall
  PROVE  ClientInv'
<1>. DEFINE n == request.name
<1>1. request.st = "CALL" /\ UNCHANGED <<objects, real>>
  BY DEF ServiceCall
<1>2. /\ request \in Requests /\ n \in DOMAIN server_table /\ n \in HostAndNames
      /\ TheServer \in ServerObject
      /\ CacheIsCurrent(n, TheServer, modules)
      /\ request.avm # Null => request.avm \in AvModules /\ modules[request.avm].live
      /\ runs <= request.try_count /\ request.try_count < Tries
      /\ request.try_count \in Nat
  BY <1>1, UnderWay DEF Requests
<1>3. PICK s : s = IF TheServer.transport = Null THEN TheServer
                   ELSE Negotiated(TheServer, request.avm)
  OBVIOUS
<1>4. modules' = IF TheServer.transport = Null THEN modules ELSE Remembered(request.avm)
  BY DEF ServiceCall
<1>5. ok \in BOOLEAN /\ runs \in Nat /\ modules \in ModuleTable
  BY DEF ClientInv, ClientTypeOK
<1>6. /\ s \in ServerObject /\ s.ref_count = TheServer.ref_count
      /\ CacheIsCurrent(n, s, modules') /\ modules' \in ModuleTable
      /\ \A m \in AvModules : /\ modules'[m].live = modules[m].live
                              /\ modules'[m].life = modules[m].life
                              /\ modules[m].names \subseteq modules'[m].names
  <2>1. CASE TheServer.transport = Null
    BY <1>2, <1>3, <1>4, <1>5, <2>1
  <2>2. CASE TheServer.transport # Null
    BY <1>1, <1>3, <1>4, <2>2, NegotiatedIsCurrent
  <2>. QED
    BY <2>1, <2>2
<1>7. PICK d : d = destroyTransport(s)
  OBVIOUS
<1>8. /\ d \in ServerObject /\ d.ref_count = TheServer.ref_count
      /\ CacheIsCurrent(n, d, modules')
  BY <1>6, <1>7, DestroyTransport DEF CacheIsCurrent
<1>9. PICK r \in Reports :
        /\ runs' = IF r[2] THEN runs + 1 ELSE runs
        /\ \/ /\ r[1] = "SUCCESS"
              /\ server_table' = [server_table EXCEPT ![n] = s]
              /\ Ended(Result(r[1]))
           \/ /\ r[1] # "SUCCESS" /\ Retries(r[1])
              /\ server_table' = [server_table EXCEPT ![n] = s]
              /\ request' = [CreateTransport("AGAIN") EXCEPT !.try_count = @ + 1]
              /\ UNCHANGED ok
           \/ /\ r[1] # "SUCCESS" /\ ~ Retries(r[1])
              /\ server_table' = [server_table EXCEPT ![n] = d]
              /\ Ended(Result(r[1]))
  BY <1>3, <1>7 DEF ServiceCall
<1>10. runs' \in Nat /\ runs' <= request.try_count + 1
  BY <1>2, <1>5, <1>9
<1>11. ASSUME NEW t \in {s, d}, server_table' = [server_table EXCEPT ![n] = t],
              NEW errcode, Ended(Result(errcode))
       PROVE  ClientInv'
  <2>1. /\ t \in ServerObject /\ t.ref_count = TheServer.ref_count
        /\ CacheIsCurrent(n, t, modules')
    BY <1>6, <1>8
  <2>2. request' = NoRequest /\ ok' \in BOOLEAN
    BY <1>11, Zenon DEF Ended, Result
  <2>3. ClientTypeOK' /\ ReferencesAreCounted' /\ CachesAreCurrent'
    BY <1>1, <1>6, <1>10, <1>11, <2>1, <2>2, ServerObjectChanged
  <2>4. RequestIsSound'
    BY <2>2 DEF RequestIsSound, BetweenRequests, NoRequest
  <2>. QED
    BY <2>3, <2>4 DEF ClientInv
<1>12. ASSUME NEW errcode, Retries(errcode), server_table' = [server_table EXCEPT ![n] = s],
              request' = [CreateTransport("AGAIN") EXCEPT !.try_count = @ + 1], ok' = ok
       PROVE  ClientInv'
  <2>1. /\ request' \in Requests /\ request'.name = n /\ request'.avm = request.avm
        /\ request'.st = "LOOKUP" /\ request'.try_count = request.try_count + 1
        /\ request'.after = "AGAIN"
    <3>1. PICK c : c = CreateTransport("AGAIN")
      OBVIOUS
    <3>2. /\ c \in Requests /\ c.name = n /\ c.avm = request.avm /\ c.st = "LOOKUP"
          /\ c.try_count = request.try_count /\ c.after = "AGAIN"
      BY <1>2, <3>1 DEF Requests, CreateTransport
    <3>3. PICK k \in Nat : k = request.try_count + 1
      BY <1>2
    <3>4. request' = [c EXCEPT !.try_count = k]
      BY <1>12, <3>1, <3>2, <3>3
    <3>. QED
      BY <3>2, <3>3, <3>4 DEF Requests
  <2>2. /\ ClientTypeOK' /\ ReferencesAreCounted' /\ CachesAreCurrent'
        /\ DOMAIN server_table' = DOMAIN server_table
    BY <1>1, <1>5, <1>6, <1>10, <1>12, <2>1, ServerObjectChanged
  <2>3. request'.avm # Null => modules'[request'.avm].live
    BY <1>2, <1>6, <2>1
  <2>4. runs' <= request'.try_count /\ request'.try_count < Tries
    BY <1>10, <1>12, <2>1 DEF Retries
  <2>. QED
    BY <1>2, <2>1, <2>2, <2>3, <2>4 DEF ClientInv, RequestIsSound
<1>. QED
  BY <1>9, <1>11, <1>12

\* Servers that crash and restart are no part of the client's state.
LEMMA RealServerStep ==
  ASSUME ClientInv, NEW n \in HostAndNames,
         Crash(n) \/ \E v \in ProtocolVersions : Restart(n, v)
  PROVE  ClientInv'
<1>1. UNCHANGED <<objects, server_table, modules, request, runs, ok>>
  BY DEF Crash, Restart
<1>2. real' \in [HostAndNames -> [up : BOOLEAN, version : ProtocolVersions, starts : Nat]]
  <2>1. \A k \in HostAndNames :
           real[k] \in [up : BOOLEAN, version : ProtocolVersions, starts : Nat]
    BY DEF ClientInv, ClientTypeOK
  <2>2. CASE Crash(n)
    <3>1. PICK e : e = [real[n] EXCEPT !.up = FALSE]
      OBVIOUS
    <3>2. real' = [real EXCEPT ![n] = e]
      BY <2>2, <3>1 DEF Crash
    <3>3. e \in [up : BOOLEAN, version : ProtocolVersions, starts : Nat]
      BY <2>1, <3>1, Zenon
    <3>. QED
      BY <3>2, <3>3 DEF ClientInv, ClientTypeOK
  <2>3. CASE \E v \in ProtocolVersions : Restart(n, v)
    <3>1. PICK v \in ProtocolVersions :
             real' = [real EXCEPT ![n] = [up |-> TRUE, version |-> v,
                                          starts |-> real[n].starts + 1]]
      BY <2>3 DEF Restart
    <3>2. real[n].starts + 1 \in Nat
      BY <2>1
    <3>3. PICK k \in Nat : k = real[n].starts + 1
      BY <3>2
    <3>4. [up |-> TRUE, version |-> v, starts |-> k]
             \in [up : BOOLEAN, version : ProtocolVersions, starts : Nat]
      OBVIOUS
    <3>. QED
      BY <3>1, <3>3, <3>4 DEF ClientInv, ClientTypeOK
  <2>. QED
    BY <2>2, <2>3
<1>3. ClientTypeOK'
  BY <1>1, <1>2 DEF ClientInv, ClientTypeOK
<1>4. ReferencesAreCounted' /\ CachesAreCurrent' /\ RequestIsSound'
  BY <1>1 DEF ClientInv, ReferencesAreCounted, Referring, CachesAreCurrent,
              CacheIsCurrent, RequestIsSound, BetweenRequests, TheServer
<1>. QED
  BY <1>3, <1>4 DEF ClientInv

\* Every step of the client and its servers keeps the invariant.
LEMMA ClientServerStep == ClientInv /\ [ClientNext]_clientVars => ClientInv'
<1>. SUFFICES ASSUME ClientInv, [ClientNext]_clientVars PROVE ClientInv'
  OBVIOUS
<1>1. CASE \E o \in ClientObjects, n \in HostAndNames : NewObject(o, n)
  BY <1>1, NewObjectStep
<1>2. CASE \E o \in ClientObjects : DeleteObject(o)
  BY <1>2, DeleteObjectStep
<1>3. CASE \E m \in AvModules : NewModule(m) \/ DeleteModule(m)
  BY <1>3, NewModuleStep, DeleteModuleStep
<1>4. CASE \E o \in ClientObjects, avm \in AvModules \cup {Null} :
              ServiceRequest(o, avm) \/ \E scope \in Scopes : getEP(o, avm, scope)
  BY <1>4, ServiceRequestStep, GetEPStep
<1>5. CASE Client
  BY <1>5, LookupStep, ConnectStep, ServiceCallStep DEF Client
<1>6. CASE \E n \in HostAndNames : Crash(n) \/ \E v \in ProtocolVersions : Restart(n, v)
  BY <1>6, RealServerStep
<1>7. CASE UNCHANGED clientVars
  BY <1>7 DEF clientVars, ClientInv, ClientTypeOK, ReferencesAreCounted, Referring,
              CachesAreCurrent, CacheIsCurrent, RequestIsSound, BetweenRequests, TheServer
<1>. QED
  BY <1>1, <1>2, <1>3, <1>4, <1>5, <1>6, <1>7 DEF ClientNext

\* The table of server objects, what they cache, and the request under way agree
\* with the communication objects and modules that exist (KscClient, KscServer).
THEOREM ClientIsSound == ClientSpec => []ClientInv
<1>1. QED
  BY ClientInitially, ClientServerStep, PTL DEF ClientSpec

\* A server object exists exactly as long as communication objects refer to it,
\* and its cache holds negotiators for its present connection, made by modules
\* that still exist (KscServer::getNegotiator, destroyTransport).
THEOREM CachedNegotiatorsAreCurrent == ClientSpec => []ServerObjectsAreCurrent
<1>1. ClientInv => ServerObjectsAreCurrent
  BY DEF ClientInv, ReferencesAreCounted, Referring, CachesAreCurrent, CacheIsCurrent,
         ServerObjectsAreCurrent
<1>2. QED
  BY <1>1, ClientIsSound, PTL

-----------------------------------------------------------------------------
(* The requests implement the remote calls of RemoteCall.                   *)

\* A request that asks an old server for parts succeeds without any call
\* (client.cpp, getEP): it is no remote call.
AllHaveParts == Scopes \subseteq {"CHILDREN"} \/ 1 \notin ProtocolVersions

\* A step that the remote call cannot see, or one of its own.
AsRemoteCall == Remote!Next(ok') \/ UNCHANGED <<request.st # "IDLE", runs>>

\* Only a request that is not under way is idle.
LEMMA IdleIsClosed ==
  /\ NoRequest.st = "IDLE"
  /\ \A c \in Requests : c.st # "IDLE"
  BY DEF NoRequest, Requests

\* A step within a request leaves it open.
LEMMA StaysOpen ==
  ASSUME request.st # "IDLE", request' \in Requests, runs' = runs
  PROVE  AsRemoteCall
  BY IdleIsClosed DEF AsRemoteCall

\* A request that is given up.
LEMMA GivesUp ==
  ASSUME ClientInv, request.st # "IDLE", Ended(FALSE), runs' = runs
  PROVE  AsRemoteCall
<1>1. runs \in Nat /\ runs < Tries
  BY UnderWay, ClientAssumption DEF ClientInv, ClientTypeOK, Requests
<1>2. request'.st = "IDLE" /\ ~ ok'
  BY IdleIsClosed, Zenon DEF Ended
<1>. QED
  BY <1>1, <1>2, ClientAssumption DEF AsRemoteCall, Remote!Next, Remote!Return

\* With a server that has parts, or without asking for them, getEP() makes a call.
LEMMA EngPropsCall ==
  ASSUME AllHaveParts, NEW c \in Requests, c.scope \in Scopes, NEW s,
         s.version \in ProtocolVersions, ok \in BOOLEAN, EngPropsOf(c, s)
  PROVE  request' \in Requests /\ ok' = ok
<1>1. ~ (s.version = 1 /\ c.scope # "CHILDREN")
  BY DEF AllHaveParts
<1>. DEFINE service == IF s.version = 1 THEN "GETPP" ELSE "GETEP"
            d == [c EXCEPT !.service = service]
<1>2. request' = Requested(d, s) /\ ok' = ok
  BY <1>1 DEF EngPropsOf
<1>3. d \in Requests
  BY DEF Requests
<1>. HIDE DEF d
<1>4. Requested(d, s) \in Requests
  BY <1>3 DEF Requested, Requests
<1>. QED
  BY <1>2, <1>4

\* What follows createTransport() is a failure, or goes on.
LEMMA ContinueIsCall ==
  ASSUME AllHaveParts, ClientInv, request.st # "IDLE", runs' = runs,
         NEW s \in ServerObject, NEW res, Continue(s, res)
  PROVE  AsRemoteCall
<1>1. /\ request \in Requests /\ ok \in BOOLEAN
      /\ request.after = "VERSION" => request.scope \in Scopes
  BY UnderWay DEF ClientInv, ClientTypeOK
<1>2. PICK c : c = [request EXCEPT !.failed = res # "OK", !.found = Null]
  OBVIOUS
<1>3. c \in Requests /\ c.scope = request.scope
  <2>1. \A b \in BOOLEAN : /\ [request EXCEPT !.failed = b, !.found = Null] \in Requests
                           /\ [request EXCEPT !.failed = b, !.found = Null].scope = request.scope
    BY <1>1 DEF Requests
  <2>2. (res # "OK") \in BOOLEAN
    OBVIOUS
  <2>. QED
    BY <1>2, <2>1, <2>2
<1>4. CASE ~ WorthRetrying(res)
  <2>1. Ended(FALSE)
    BY <1>4, Zenon DEF Continue
  <2>. QED
    BY <2>1, GivesUp
<1>5. CASE WorthRetrying(res) /\ request.after = "VERSION"
  <2>1. EngPropsOf(c, s) /\ c.scope \in Scopes
    BY <1>1, <1>2, <1>3, <1>5 DEF Continue
  <2>2. request' \in Requests
    BY <1>1, <1>3, <2>1, EngPropsCall, ServerObjectFields
  <2>. QED
    BY <2>2, StaysOpen
<1>6. CASE WorthRetrying(res) /\ request.after # "VERSION"
  <2>1. request' = [c EXCEPT !.st = "CALL", !.after = "REQUEST"]
    BY <1>2, <1>6 DEF Continue
  <2>2. request' \in Requests
    BY <1>3, <2>1 DEF Requests
  <2>. QED
    BY <2>2, StaysOpen
<1>. QED
  BY <1>4, <1>5, <1>6

\* A request that begins is a new call.
LEMMA BeginIsCall ==
  ASSUME AllHaveParts, ClientInv, NEW o \in ClientObjects, NEW avm \in AvModules \cup {Null},
         ServiceRequest(o, avm) \/ \E scope \in Scopes : getEP(o, avm, scope)
  PROVE  AsRemoteCall
<1>1. request' \in Requests
  <2>1. objects[o] \in HostAndNames /\ ok \in BOOLEAN
    BY DEF ClientInv, ClientTypeOK, ServiceRequest, getEP
  <2>2. CASE ServiceRequest(o, avm)
    <3>1. PICK c : c = NewCall(o, avm, "OTHER", "NONE")
      OBVIOUS
    <3>2. c \in Requests /\ request' = Requested(c, server_table[objects[o]])
      BY <2>1, <2>2, <3>1, NewCallIsRequest DEF ServiceRequest
    <3>. QED
      BY <3>2 DEF Requested, Requests
  <2>3. ASSUME NEW scope \in Scopes, getEP(o, avm, scope)
        PROVE  request' \in Requests
    <3>1. PICK c : c = NewCall(o, avm, "EP", scope)
      OBVIOUS
    <3>2. PICK s : s = server_table[objects[o]]
      OBVIOUS
    <3>3. c \in Requests /\ c.scope = scope
      BY <2>1, <3>1, NewCallIsRequest
    <3>4. s.version \in ProtocolVersions
      BY <2>3, <3>2, ServerObjectFields
         DEF ClientInv, ClientTypeOK, ReferencesAreCounted, getEP
    <3>5. CASE s.transport = Null
      <4>1. request' = [c EXCEPT !.st = "LOOKUP", !.after = "VERSION"]
        BY <2>3, <3>1, <3>2, <3>5 DEF getEP
      <4>. QED
        BY <3>3, <4>1 DEF Requests
    <3>6. CASE s.transport # Null
      <4>1. EngPropsOf(c, s)
        BY <2>3, <3>1, <3>2, <3>6 DEF getEP
      <4>. QED
        BY <2>1, <2>3, <3>3, <3>4, <4>1, EngPropsCall
    <3>. QED
      BY <3>5, <3>6
  <2>. QED
    BY <2>2, <2>3
<1>2. request.st = "IDLE" /\ runs' = 0
  BY DEF ServiceRequest, getEP, BetweenRequests
<1>. QED
  BY <1>1, <1>2, IdleIsClosed DEF AsRemoteCall, Remote!Next, Remote!Request

\* Every try is at most one execution, and only an execution is a success.
LEMMA ServiceCallIsCall ==
  ASSUME ClientInv, ServiceCall
  PROVE  AsRemoteCall
<1>1. /\ request \in Requests /\ request.st # "IDLE" /\ runs \in Nat
      /\ runs <= request.try_count /\ request.try_count < Tries
      /\ request.try_count \in Nat
  BY UnderWay DEF ServiceCall, ClientInv, ClientTypeOK, Requests
<1>2. PICK r \in Reports :
        /\ runs' = IF r[2] THEN runs + 1 ELSE runs
        /\ \/ Ended(Result(r[1]))
           \/ request' = [CreateTransport("AGAIN") EXCEPT !.try_count = @ + 1]
  BY DEF ServiceCall
<1>3. r[1] = "SUCCESS" => r[2] = TRUE
  <2>. DEFINE lost == {"CANTSEND", "CANTRECV", "TIMEDOUT"} \X {FALSE}
  <2>1. \/ r \in lost
        \/ r \in {<<"FAILED", FALSE>>, <<"PROCUNAVAIL", FALSE>>, <<"SUCCESS", TRUE>>,
                 <<"CANTRECV", TRUE>>, <<"TIMEDOUT", TRUE>>, <<"CANTDECODERES", TRUE>>}
    BY <1>2, Zenon DEF Reports
  <2>2. CASE r \in lost
    BY <2>2
  <2>3. ASSUME NEW b \in {<<"FAILED", FALSE>>, <<"PROCUNAVAIL", FALSE>>,
                          <<"SUCCESS", TRUE>>, <<"CANTRECV", TRUE>>,
                          <<"TIMEDOUT", TRUE>>, <<"CANTDECODERES", TRUE>>}
        PROVE  b[1] = "SUCCESS" => b[2] = TRUE
    <3>1. CASE b = <<"SUCCESS", TRUE>>
      <4>1. <<"SUCCESS", TRUE>>[2] = TRUE
        OBVIOUS
      <4>. QED
        BY <3>1, <4>1, Zenon
    <3>2. CASE b # <<"SUCCESS", TRUE>>
      <4>1. \A name \in {"FAILED", "PROCUNAVAIL", "CANTRECV", "TIMEDOUT", "CANTDECODERES"} :
               \A done \in BOOLEAN : <<name, done>>[1] # "SUCCESS"
        OBVIOUS
      <4>2. b[1] # "SUCCESS"
        BY <2>3, <3>2, <4>1, Zenon
      <4>. QED
        BY <4>2
    <3>. QED
      BY <3>1, <3>2
  <2>. HIDE DEF lost
  <2>. QED
    BY <2>1, <2>2, <2>3
<1>4. runs' \in {runs, runs + 1} /\ runs' <= Tries /\ runs < Tries
  BY <1>1, <1>2, ClientAssumption
<1>5. CASE Ended(Result(r[1]))
  <2>1. request'.st = "IDLE" /\ ok' = Result(r[1])
    BY <1>5, IdleIsClosed DEF Ended
  <2>2. ok' => r[2] = TRUE
    BY <1>3, <2>1, Zenon DEF Result
  <2>3. ok' => runs' > 0
    BY <1>1, <1>2, <2>2
  <2>. QED
    BY <1>1, <1>4, <2>1, <2>3 DEF AsRemoteCall, Remote!Next, Remote!Return
<1>6. CASE request' = [CreateTransport("AGAIN") EXCEPT !.try_count = @ + 1]
  <2>1. request'.st # "IDLE"
    BY <1>1, <1>6 DEF CreateTransport, Requests
  <2>. QED
    BY <1>1, <1>4, <2>1 DEF AsRemoteCall, Remote!Next, Remote!Execute
<1>. QED
  BY <1>2, <1>5, <1>6

\* Every step of the client is one of the remote call, or invisible to it.
LEMMA ClientStepIsCall ==
  ASSUME AllHaveParts, ClientInv, [ClientNext]_clientVars
  PROVE  AsRemoteCall
<1>1. CASE \E o \in ClientObjects, avm \in AvModules \cup {Null} :
              ServiceRequest(o, avm) \/ \E scope \in Scopes : getEP(o, avm, scope)
  BY <1>1, BeginIsCall
<1>2. CASE Lookup
  <2>1. request.st = "LOOKUP" /\ runs' = runs
    BY <1>2 DEF Lookup
  <2>2. request \in Requests /\ destroyTransport(TheServer) \in ServerObject
    BY <2>1, UnderWay, DestroyTransport
  <2>3. CASE \E res \in LookupFails : Continue(destroyTransport(TheServer), res)
    BY <2>1, <2>2, <2>3, ContinueIsCall
  <2>4. CASE request' = [request EXCEPT !.st = "CONNECT",
                                       !.found = real[request.name].starts]
    <3>1. request'.st # "IDLE"
      BY <2>2, <2>4 DEF Requests
    <3>. QED
      BY <2>1, <3>1 DEF AsRemoteCall
  <2>. QED
    BY <1>2, <2>3, <2>4 DEF Lookup
<1>3. CASE Connect
  <2>. DEFINE known == {TheServer.neg_table[m].id : m \in DOMAIN TheServer.neg_table}
              t == [start |-> request.found, id |-> FreshIdentity(known)]
  <2>1. request.st = "CONNECT" /\ runs' = runs
    BY <1>3 DEF Connect
  <2>2. TheServer \in ServerObject
    BY <2>1, UnderWay
  <2>3. t \in Connections
    <3>1. request.found \in Nat /\ DOMAIN TheServer.neg_table = {}
      BY <2>1 DEF ClientInv, RequestIsSound, BetweenRequests
    <3>2. known = {}
      BY <3>1
    <3>3. FreshIdentity(known) \in Nat
      BY <3>2, FS_EmptySet, FreshIdentityIsFresh
    <3>. HIDE DEF known
    <3>. QED
      BY <3>1, <3>3 DEF Connections
  <2>. HIDE DEF t
  <2>4. [TheServer EXCEPT !.transport = t] \in ServerObject
    BY <2>2, <2>3 DEF ServerObject
  <2>5. \E s \in {TheServer, [TheServer EXCEPT !.transport = t]}, res \in {"OK", "CANTCONTACT"} :
           Continue(s, res)
    BY <1>3 DEF Connect, t
  <2>. QED
    BY <2>1, <2>2, <2>4, <2>5, ContinueIsCall
<1>4. CASE ServiceCall
  BY <1>4, ServiceCallIsCall
<1>5. CASE UNCHANGED <<request, runs>>
  BY <1>5 DEF AsRemoteCall
<1>. QED
  BY <1>1, <1>2, <1>3, <1>4, <1>5
     DEF ClientNext, Client, clientVars, NewObject, DeleteObject, NewModule, DeleteModule,
         Crash, Restart

\* A request is a remote call: it is executed at most Tries times however often the
\* connection is lost, and succeeds only when it was (KscServer::requestByOpcode).
THEOREM RequestsAreCalls ==
  ASSUME AllHaveParts
  PROVE  ClientSpec => IsCall
<1>1. ClientInit => Remote!Init
  BY IdleIsClosed DEF ClientInit, Remote!Init
<1>2. ClientInv /\ [ClientNext]_clientVars =>
         [Remote!Next(ok')]_<<request.st # "IDLE", runs>>
  BY ClientStepIsCall DEF AsRemoteCall
<1>3. QED
  BY <1>1, <1>2, ClientIsSound, PTL DEF ClientSpec, IsCall

-----------------------------------------------------------------------------
(* What became of the variables of a package.                               *)

CallKinds == {"get", "set", "props"}
CallItems == CallKinds \X Variables

CallRecord ==
    [wanted : SUBSET CallItems, todo : SUBSET Items, served : SUBSET CallItems,
     ok : BOOLEAN, result : {"OK", "NETWORKERROR", "GENERIC"}]

PackageTypeOK ==
    /\ curr_props \in [Variables -> VarValues] /\ confirmed \in [Variables -> VarValues]
    /\ fDirty \in [Variables -> BOOLEAN]
    /\ varResult \in [Variables -> {"OK", "ERROR"}]
    /\ call \in CallRecord

\* A call wants one thing of each variable.
WantedOnce == \A i, j \in call.wanted : i[2] = j[2] => i = j

\* The items of the call c that are done, so far.
Done(c) == c.wanted \ c.todo

CleanIsConfirmed == \A v \in Variables : ~ fDirty[v] => curr_props[v] = confirmed[v]

\* OutcomesAreKnown, of the buckets that have been asked so far.
OutcomesSoFar ==
    /\ call.todo \subseteq call.wanted /\ call.served \subseteq Done(call)
    /\ call.ok <=> call.served = Done(call)
    /\ \A i \in call.served : varResult[i[2]] = "OK"
    /\ call.result = "OK" => \A i \in Done(call) \ call.served : varResult[i[2]] # "OK"

PackageInv ==
    /\ PackageTypeOK /\ WantedOnce /\ CleanIsConfirmed /\ OutcomesSoFar

\* No call, and a call of which nothing is done, keep the rest.
LEMMA NoCallIsRecord ==
  /\ NoCall \in CallRecord
  /\ NoCall.wanted = {} /\ NoCall.todo = {} /\ NoCall.served = {}
  /\ NoCall.ok = TRUE /\ NoCall.result = "OK"
<1>1. TRUE \in BOOLEAN
  OBVIOUS
<1>2. NoCall.ok = TRUE
  BY Zenon DEF NoCall
<1>. QED
  BY <1>1, <1>2 DEF NoCall, CallRecord

\* At first every variable is clean and nothing was asked.
LEMMA PackageInitially == PackageInit => PackageInv
<1>. SUFFICES ASSUME PackageInit PROVE PackageInv
  OBVIOUS
<1>1. (CHOOSE x \in VarValues : TRUE) \in VarValues
  BY PackageAssumption
<1>2. PackageTypeOK
  <2>1. call \in CallRecord
    BY NoCallIsRecord DEF PackageInit
  <2>2. fDirty \in [Variables -> BOOLEAN]
    BY DEF PackageInit
  <2>3. curr_props \in [Variables -> VarValues] /\ confirmed \in [Variables -> VarValues]
    BY <1>1 DEF PackageInit
  <2>4. varResult \in [Variables -> {"OK", "ERROR"}]
    BY DEF PackageInit
  <2>. QED
    BY <2>1, <2>2, <2>3, <2>4 DEF PackageTypeOK
<1>3. WantedOnce /\ OutcomesSoFar /\ CleanIsConfirmed
  BY NoCallIsRecord DEF PackageInit, WantedOnce, OutcomesSoFar, Done, CleanIsConfirmed
<1>. QED
  BY <1>2, <1>3 DEF PackageInv

\* setCurrProps() makes the variable dirty.
LEMMA SetCurrPropsStep ==
  ASSUME PackageInv, NEW v \in Variables, NEW x \in VarValues, setCurrProps(v, x)
  PROVE  PackageInv'
<1>1. /\ curr_props' = [curr_props EXCEPT ![v] = x]
      /\ fDirty' = [fDirty EXCEPT ![v] = TRUE]
      /\ call' = NoCall /\ varResult' = varResult /\ confirmed' = confirmed
  BY DEF setCurrProps
<1>2. PackageTypeOK'
  <2>1. call' \in CallRecord
    BY <1>1, NoCallIsRecord
  <2>2. fDirty' \in [Variables -> BOOLEAN]
    BY <1>1 DEF PackageInv, PackageTypeOK
  <2>. QED
    BY <1>1, <2>1, <2>2 DEF PackageInv, PackageTypeOK
<1>3. (WantedOnce /\ OutcomesSoFar)'
  BY <1>1, NoCallIsRecord DEF WantedOnce, OutcomesSoFar, Done
<1>4. CleanIsConfirmed'
  <2>1. fDirty'[v] = TRUE
    BY <1>1 DEF PackageInv, PackageTypeOK
  <2>2. \A w \in Variables \ {v} : fDirty'[w] = fDirty[w] /\ curr_props'[w] = curr_props[w]
    BY <1>1 DEF PackageInv, PackageTypeOK
  <2>. QED
    BY <1>1, <2>1, <2>2 DEF PackageInv, CleanIsConfirmed
<1>. QED
  BY <1>2, <1>3, <1>4 DEF PackageInv

\* The record of a call on one variable.
LEMMA CalledServed ==
  ASSUME NEW op \in CallKinds, NEW v \in Variables
  PROVE  LET c == Called(op, v, TRUE)
         IN  /\ c \in CallRecord
             /\ c.wanted = {<<op, v>>} /\ c.todo = {} /\ c.served = {<<op, v>>}
             /\ c.ok = TRUE /\ c.result = "OK"
<1>. DEFINE w == {<<op, v>>}
            r(k) == [wanted |-> w, todo |-> {}, served |-> w, ok |-> k, result |-> "OK"]
<1>1. PICK c : c = Called(op, v, TRUE)
  OBVIOUS
<1>2. w \in SUBSET CallItems /\ {} \in SUBSET CallItems
  BY DEF CallItems
<1>3. c = r(TRUE)
  <2>1. c = [NoCall EXCEPT !.wanted = w, !.ok = TRUE, !.served = w]
    BY <1>1, Zenon DEF Called
  <2>. HIDE DEF w
  <2>. QED
    BY <2>1 DEF NoCall
<1>. HIDE DEF w
<1>4. \A k \in BOOLEAN : r(k) \in CallRecord
  BY <1>2 DEF CallRecord
<1>5. c \in CallRecord
  BY <1>3, <1>4, Zenon
<1>6. c.ok = TRUE
  BY <1>3, Zenon
<1>7. c.wanted = w /\ c.todo = {} /\ c.served = w /\ c.result = "OK"
  BY <1>3
<1>. QED
  BY <1>1, <1>5, <1>6, <1>7, Zenon DEF w

\* A call on one variable that is not served.
LEMMA CalledNotServed ==
  ASSUME NEW op \in CallKinds, NEW v \in Variables
  PROVE  LET c == Called(op, v, FALSE)
         IN  /\ c \in CallRecord
             /\ c.wanted = {<<op, v>>} /\ c.todo = {} /\ c.served = {}
             /\ c.ok = FALSE /\ c.result = "OK"
<1>. DEFINE w == {<<op, v>>}
            r(k) == [wanted |-> w, todo |-> {}, served |-> {}, ok |-> k, result |-> "OK"]
<1>1. PICK c : c = Called(op, v, FALSE)
  OBVIOUS
<1>2. w \in SUBSET CallItems /\ {} \in SUBSET CallItems
  BY DEF CallItems
<1>3. c = r(FALSE)
  <2>1. c = [NoCall EXCEPT !.wanted = w, !.ok = FALSE, !.served = {}]
    BY <1>1, Zenon DEF Called
  <2>. HIDE DEF w
  <2>. QED
    BY <2>1 DEF NoCall
<1>. HIDE DEF w
<1>4. \A k \in BOOLEAN : r(k) \in CallRecord
  BY <1>2 DEF CallRecord
<1>5. c \in CallRecord
  BY <1>3, <1>4, Zenon
<1>6. c.ok = FALSE
  BY <1>3, Zenon
<1>7. c.wanted = w /\ c.todo = {} /\ c.served = {} /\ c.result = "OK"
  BY <1>3
<1>. QED
  BY <1>1, <1>5, <1>6, <1>7, Zenon DEF w

\* A call on one variable, which is served or not.
LEMMA SingleCallStep ==
  ASSUME PackageInv, NEW op \in CallKinds, NEW v \in Variables,
         NotServed(op, v) \/ \E dirty \in BOOLEAN :
            /\ Served(op, v, dirty)
            /\ \/ dirty = fDirty[v] /\ UNCHANGED <<curr_props, confirmed>>
               \/ \E x \in VarValues : /\ curr_props' = [curr_props EXCEPT ![v] = x]
                                       /\ confirmed' = [confirmed EXCEPT ![v] = x]
  PROVE  PackageInv'
<1>. USE DEF PackageInv, PackageTypeOK
<1>1. CASE NotServed(op, v)
  <2>1. PICK c : c = Called(op, v, FALSE)
    OBVIOUS
  <2>2. /\ varResult' = [varResult EXCEPT ![v] = "ERROR"] /\ call' = c
        /\ UNCHANGED <<curr_props, fDirty, confirmed>>
    BY <1>1, <2>1 DEF NotServed
  <2>3. /\ c \in CallRecord /\ c.wanted = {<<op, v>>} /\ c.todo = {} /\ c.ok = FALSE
        /\ c.served = {} /\ c.result = "OK"
    BY <2>1, CalledNotServed
  <2>4. PackageTypeOK'
    BY <2>2, <2>3
  <2>5. WantedOnce' /\ CleanIsConfirmed'
    BY <2>2, <2>3 DEF WantedOnce, CleanIsConfirmed
  <2>6. OutcomesSoFar'
    <3>1. ~ call'.ok
      BY <2>2, <2>3, Zenon
    <3>2. varResult'[v] = "ERROR"
      BY <2>2
    <3>3. call'.served # Done(call')
      BY <2>2, <2>3 DEF Done
    <3>4. call'.ok <=> call'.served = Done(call')
      BY <3>1, <3>3, Zenon
    <3>. QED
      BY <2>2, <2>3, <3>2, <3>4 DEF OutcomesSoFar, Done
  <2>. QED
    BY <2>4, <2>5, <2>6
<1>2. ASSUME NEW dirty \in BOOLEAN, Served(op, v, dirty),
             \/ dirty = fDirty[v] /\ UNCHANGED <<curr_props, confirmed>>
             \/ \E x \in VarValues : /\ curr_props' = [curr_props EXCEPT ![v] = x]
                                     /\ confirmed' = [confirmed EXCEPT ![v] = x]
      PROVE  PackageInv'
  <2>1. PICK c : c = Called(op, v, TRUE)
    OBVIOUS
  <2>2. /\ varResult' = [varResult EXCEPT ![v] = "OK"] /\ call' = c
        /\ fDirty' = [fDirty EXCEPT ![v] = dirty]
    BY <1>2, <2>1 DEF Served
  <2>3. /\ c \in CallRecord /\ c.wanted = {<<op, v>>} /\ c.todo = {} /\ c.ok = TRUE
        /\ c.served = {<<op, v>>} /\ c.result = "OK"
    BY <2>1, CalledServed
  <2>4. fDirty' \in [Variables -> BOOLEAN]
    BY <2>2
  <2>5. varResult' \in [Variables -> {"OK", "ERROR"}] /\ varResult'[v] = "OK"
    BY <2>2
  <2>6. /\ curr_props' \in [Variables -> VarValues]
        /\ confirmed' \in [Variables -> VarValues]
    BY <1>2
  <2>7. PackageTypeOK'
    BY <2>2, <2>3, <2>4, <2>5, <2>6
  <2>8. WantedOnce'
    BY <2>2, <2>3 DEF WantedOnce
  <2>9. OutcomesSoFar'
    <3>1. call'.ok
      BY <2>2, <2>3, Zenon
    <3>. QED
      BY <2>2, <2>3, <2>5, <3>1 DEF OutcomesSoFar, Done
  <2>10. CleanIsConfirmed'
    <3>1. ASSUME NEW x \in VarValues, curr_props' = [curr_props EXCEPT ![v] = x],
                 confirmed' = [confirmed EXCEPT ![v] = x], NEW w \in Variables, ~ fDirty'[w]
          PROVE  curr_props'[w] = confirmed'[w]
      <4>1. CASE w = v
        BY <3>1, <4>1
      <4>2. CASE w # v
        <5>1. fDirty'[w] = fDirty[w]
          BY <2>2, <4>2
        <5>. QED
          BY <3>1, <4>2, <5>1 DEF CleanIsConfirmed
      <4>. QED
        BY <4>1, <4>2
    <3>2. ASSUME dirty = fDirty[v], UNCHANGED <<curr_props, confirmed>>
          PROVE  CleanIsConfirmed'
      <4>1. fDirty' = fDirty
        BY <2>2, <3>2
      <4>. QED
        BY <3>2, <4>1 DEF CleanIsConfirmed
    <3>. QED
      BY <1>2, <3>1, <3>2 DEF CleanIsConfirmed
  <2>. QED
    BY <2>7, <2>8, <2>9, <2>10
<1>. QED
  BY <1>1, <1>2

\* KscVariable::getUpdate(), setUpdate() and getEngPropsUpdate().
LEMMA VariableStep ==
  ASSUME PackageInv, NEW v \in Variables,
         getVariable(v) \/ setVariable(v) \/ getEngPropsUpdate(v)
  PROVE  PackageInv'
<1>1. CASE getVariable(v)
  BY <1>1, SingleCallStep DEF getVariable, CallKinds
<1>2. CASE setVariable(v)
  <2>1. CASE NotServed("set", v)
    BY <2>1, SingleCallStep DEF CallKinds
  <2>2. CASE /\ Served("set", v, FALSE)
             /\ confirmed' = [confirmed EXCEPT ![v] = curr_props[v]]
             /\ UNCHANGED curr_props
    <3>1. curr_props[v] \in VarValues /\ curr_props' = [curr_props EXCEPT ![v] = curr_props[v]]
      BY <2>2 DEF PackageInv, PackageTypeOK
    <3>. QED
      BY <2>2, <3>1, SingleCallStep DEF CallKinds
  <2>. QED
    BY <1>2, <2>1, <2>2 DEF setVariable
<1>3. CASE getEngPropsUpdate(v)
  <2>1. fDirty[v] \in BOOLEAN
    BY DEF PackageInv, PackageTypeOK
  <2>. QED
    BY <1>3, <2>1, SingleCallStep DEF getEngPropsUpdate, CallKinds
<1>. QED
  BY <1>1, <1>2, <1>3

\* A new package call: nothing is done yet, and nothing went wrong.
LEMMA BeginPackageStep ==
  ASSUME PackageInv, NEW items \in SUBSET Items, Begin(items),
         \A i, j \in items : i[2] = j[2] => i = j
  PROVE  PackageInv'
<1>1. /\ call' = [NoCall EXCEPT !.wanted = items, !.todo = items]
      /\ UNCHANGED <<curr_props, fDirty, varResult, confirmed>>
  BY DEF Begin
<1>2. items \in SUBSET CallItems
  BY DEF Items, CallItems, CallKinds
<1>3. /\ call' \in CallRecord
      /\ call'.wanted = items /\ call'.todo = items /\ call'.served = {}
      /\ call'.result = "OK"
  BY <1>1, <1>2, NoCallIsRecord DEF CallRecord
<1>4. call'.ok
  <2>1. call'.ok = TRUE
    BY <1>1, Zenon DEF NoCall
  <2>. QED
    BY <2>1
<1>5. Done(call') = {}
  BY <1>3 DEF Done
<1>6. OutcomesSoFar'
  <2>1. call'.ok <=> call'.served = Done(call')
    BY <1>3, <1>4, <1>5
  <2>. QED
    BY <1>3, <1>5, <2>1 DEF OutcomesSoFar
<1>7. WantedOnce'
  BY <1>3 DEF WantedOnce
<1>8. PackageTypeOK' /\ CleanIsConfirmed'
  BY <1>1, <1>3 DEF PackageInv, PackageTypeOK, CleanIsConfirmed
<1>. QED
  BY <1>6, <1>7, <1>8 DEF PackageInv

\* What is sorted is asked once, when no variable is both read and written.
LEMMA SortedOnce ==
  ASSUME NEW gets \in SUBSET Variables, NEW sets \in SUBSET Variables,
         gets \cap sets = {}
  PROVE  /\ Sorted(gets, sets) \in SUBSET Items
         /\ \A i, j \in Sorted(gets, sets) : i[2] = j[2] => i = j
<1>1. Sorted(gets, sets) \in SUBSET Items
  BY DEF Sorted, Items
<1>2. ASSUME NEW i \in Sorted(gets, sets), NEW j \in Sorted(gets, sets), i[2] = j[2]
      PROVE  i = j
  <2>1. \A k \in Sorted(gets, sets) : \/ k = <<"get", k[2]>> /\ k[2] \in gets
                                      \/ k = <<"set", k[2]>> /\ k[2] \in sets
    BY DEF Sorted
  <2>. QED
    BY <1>2, <2>1
<1>. QED
  BY <1>1, <1>2

\* getUpdate(), setUpdate() and doExchange() of packages that do not overlap.
LEMMA PackageCallStep ==
  ASSUME ~ Overlap, PackageInv, NEW pkg \in Packages, NEW force \in BOOLEAN,
         NEW getPkg \in Packages,
         getUpdate(pkg) \/ setUpdate(pkg, force) \/ doExchange(getPkg, pkg, force)
  PROVE  PackageInv'
<1>1. /\ pkg \in SUBSET Variables /\ getPkg \in SUBSET Variables
      /\ {} \in SUBSET Variables
      /\ ToSend(pkg, force) \in SUBSET Variables /\ ToSend(pkg, force) \subseteq pkg
  BY PackageAssumption DEF ToSend
<1>2. CASE getUpdate(pkg)
  BY <1>1, <1>2, SortedOnce, BeginPackageStep DEF getUpdate
<1>3. CASE setUpdate(pkg, force)
  BY <1>1, <1>3, SortedOnce, BeginPackageStep DEF setUpdate
<1>4. CASE doExchange(getPkg, pkg, force)
  <2>1. getPkg \cap ToSend(pkg, force) = {}
    BY <1>1, <1>4 DEF doExchange
  <2>. QED
    BY <1>1, <1>4, <2>1, SortedOnce, BeginPackageStep DEF doExchange
<1>. QED
  BY <1>2, <1>3, <1>4

\* The items of a bucket are all that is still to do for their variables.
LEMMA ItemsOfBucket ==
  ASSUME PackageInv, NEW b, NEW items, items = BucketItems(call.todo, b)
  PROVE  /\ items \subseteq call.todo /\ items \subseteq call.wanted
         /\ \A i \in items : i[2] \in Variables /\ i \in {<<"get", i[2]>>, <<"set", i[2]>>}
         /\ \A i \in call.wanted \ items : \A j \in items : i[2] # j[2]
<1>1. call.todo \subseteq call.wanted /\ call.todo \subseteq Items
  BY DEF PackageInv, PackageTypeOK, CallRecord, OutcomesSoFar
<1>2. items \subseteq call.todo
  BY DEF BucketItems
<1>3. \A i \in Items : i[2] \in Variables /\ i \in {<<"get", i[2]>>, <<"set", i[2]>>}
  BY DEF Items
<1>4. \A i \in call.wanted \ items : \A j \in items : i[2] # j[2]
  BY <1>1, <1>2 DEF PackageInv, WantedOnce
<1>. QED
  BY <1>1, <1>2, <1>3, <1>4

\* A request that fails as a whole.
LEMMA RequestFailedStep ==
  ASSUME PackageInv, NEW b, NEW items, items = BucketItems(call.todo, b), items # {},
         NEW error \in PackageErrors, RequestFailed(items, error)
  PROVE  PackageInv'
<1>. DEFINE hit(v) == error # "GENERIC" /\ \E i \in items : i[2] = v
<1>1. /\ call' = [call EXCEPT !.todo = @ \ items, !.ok = FALSE, !.result = error]
      /\ varResult' = [v \in Variables |-> IF hit(v) THEN "ERROR" ELSE varResult[v]]
      /\ UNCHANGED <<curr_props, fDirty, confirmed>>
  BY DEF RequestFailed
<1>2. /\ items \subseteq call.todo /\ items \subseteq call.wanted
      /\ \A i \in call.wanted \ items : \A j \in items : i[2] # j[2]
  BY ItemsOfBucket
<1>3. error \in {"NETWORKERROR", "GENERIC"}
  BY DEF PackageErrors
<1>4. call \in CallRecord
  BY DEF PackageInv, PackageTypeOK
<1>5. ~ call'.ok
  <2>1. call'.ok = FALSE
    BY <1>1, <1>4, Zenon DEF CallRecord
  <2>. QED
    BY <2>1
<1>6. /\ call' \in CallRecord /\ call'.wanted = call.wanted /\ call'.served = call.served
      /\ call'.todo = call.todo \ items /\ call'.result = error
  <2>1. FALSE \in BOOLEAN
    OBVIOUS
  <2>2. \A k \in BOOLEAN : LET c == [call EXCEPT !.todo = @ \ items, !.ok = k, !.result = error]
           IN  /\ c \in CallRecord /\ c.wanted = call.wanted /\ c.served = call.served
               /\ c.todo = call.todo \ items /\ c.result = error
    BY <1>3, <1>4 DEF CallRecord
  <2>. QED
    BY <1>1, <2>1, <2>2, Zenon
<1>7. OutcomesSoFar'
  <2>1. /\ call.todo \subseteq call.wanted /\ call.served \subseteq call.wanted \ call.todo
        /\ \A i \in call.served : varResult[i[2]] = "OK"
    BY DEF PackageInv, OutcomesSoFar, Done
  <2>2. Done(call') = Done(call) \cup items
    BY <1>2, <1>6, <2>1 DEF Done
  <2>3. call'.served \subseteq Done(call') /\ call'.served # Done(call')
    BY <1>2, <1>6, <2>1, <2>2 DEF Done
  <2>4. ASSUME NEW i \in call.served PROVE varResult'[i[2]] = "OK"
    <3>1. i \in call.wanted \ items /\ i[2] \in Variables
      BY <1>2, <1>4, <2>1 DEF CallRecord, CallItems
    <3>2. ~ hit(i[2])
      BY <1>2, <3>1
    <3>. QED
      BY <1>1, <2>1, <3>1, <3>2
  <2>5. call'.result # "OK"
    BY <1>3, <1>6
  <2>6. call'.ok <=> call'.served = Done(call')
    BY <1>5, <2>3
  <2>. QED
    BY <1>2, <1>6, <2>1, <2>3, <2>4, <2>5, <2>6 DEF OutcomesSoFar
<1>8. PackageTypeOK'
  <2>1. varResult' \in [Variables -> {"OK", "ERROR"}]
    BY <1>1 DEF PackageInv, PackageTypeOK
  <2>. QED
    BY <1>1, <1>6, <2>1 DEF PackageInv, PackageTypeOK
<1>9. WantedOnce' /\ CleanIsConfirmed'
  BY <1>1, <1>6 DEF PackageInv, WantedOnce, CleanIsConfirmed
<1>. QED
  BY <1>7, <1>8, <1>9 DEF PackageInv

\* The items that the server granted, and those it did not, are copied to their
\* variables.
LEMMA AnsweredStep ==
  ASSUME PackageInv, NEW b, NEW items, items = BucketItems(call.todo, b),
         NEW good \in SUBSET items, NEW read \in Readable(good), Answered(items, good, read)
  PROVE  PackageInv'
<1>. DEFINE got == Of(good, "get")
            sets == Of(items, "set")
            taken == Of(good, "set")
            Value(v) == IF v \in sets THEN IF v \in taken THEN "OK" ELSE "ERROR"
                        ELSE IF v \in got THEN "OK" ELSE "ERROR"
<1>1. /\ curr_props' = [v \in Variables |-> IF v \in got THEN read[v] ELSE curr_props[v]]
      /\ fDirty' = [v \in Variables |-> fDirty[v] /\ v \notin got \cup taken]
      /\ varResult' = [v \in Variables |->
             IF v \in Of(items, "get") \cup sets THEN Value(v) ELSE varResult[v]]
      /\ confirmed' = [v \in Variables |-> IF v \in got THEN read[v]
                                           ELSE IF v \in taken THEN curr_props[v]
                                           ELSE confirmed[v]]
      /\ call' = [call EXCEPT !.todo = @ \ items, !.served = @ \cup good,
                              !.ok = @ /\ items = good]
  BY DEF Answered, Written, Success
<1>2. /\ items \subseteq call.todo /\ items \subseteq call.wanted
      /\ \A i \in items : i[2] \in Variables /\ i \in {<<"get", i[2]>>, <<"set", i[2]>>}
      /\ \A i \in call.wanted \ items : \A j \in items : i[2] # j[2]
  BY ItemsOfBucket
<1>3. call \in CallRecord /\ WantedOnce
  BY DEF PackageInv, PackageTypeOK
<1>4. call'.ok <=> call.ok /\ items = good
  BY <1>1, <1>3, Zenon DEF CallRecord
<1>5. /\ call' \in CallRecord /\ call'.wanted = call.wanted
      /\ call'.served = call.served \cup good
      /\ call'.todo = call.todo \ items /\ call'.result = call.result
  <2>1. (call.ok /\ items = good) \in BOOLEAN
    OBVIOUS
  <2>2. good \in SUBSET CallItems
    BY <1>2, <1>3 DEF CallRecord
  <2>3. \A k \in BOOLEAN :
           LET c == [call EXCEPT !.todo = @ \ items, !.served = @ \cup good, !.ok = k]
           IN  /\ c \in CallRecord /\ c.wanted = call.wanted
               /\ c.served = call.served \cup good
               /\ c.todo = call.todo \ items /\ c.result = call.result
    BY <1>3, <2>2 DEF CallRecord
  <2>. QED
    BY <1>1, <2>1, <2>3, Zenon
<1>6. \A i \in items : varResult'[i[2]] = IF i \in good THEN "OK" ELSE "ERROR"
  <2>. SUFFICES ASSUME NEW i \in items
                PROVE  varResult'[i[2]] = IF i \in good THEN "OK" ELSE "ERROR"
    OBVIOUS
  <2>1. i[2] \in Variables /\ i \in {<<"get", i[2]>>, <<"set", i[2]>>}
    BY <1>2
  <2>2. \A j \in items : j[2] = i[2] => j = i
    BY <1>2, <1>3 DEF WantedOnce
  <2>3. CASE i = <<"get", i[2]>>
    <3>1. i[2] \in Of(items, "get") /\ (i[2] \in got <=> i \in good)
      BY <2>1, <2>3 DEF Of
    <3>2. i[2] \notin sets
      <4>1. <<"set", i[2]>> \in items => <<"set", i[2]>> = i
        BY <2>2
      <4>. QED
        BY <2>3, <4>1 DEF Of
    <3>. HIDE DEF got, sets, taken
    <3>. QED
      BY <1>1, <2>1, <3>1, <3>2
  <2>4. CASE i = <<"set", i[2]>>
    <3>1. i[2] \in sets /\ (i[2] \in taken <=> i \in good)
      BY <2>1, <2>4 DEF Of
    <3>. HIDE DEF got, sets, taken
    <3>. QED
      BY <1>1, <2>1, <3>1
  <2>. QED
    BY <2>1, <2>3, <2>4
<1>7. \A v \in Variables : (\A j \in items : j[2] # v) => varResult'[v] = varResult[v]
  <2>1. \A v \in Variables : (\A j \in items : j[2] # v) => v \notin Of(items, "get") \cup sets
    <3>1. ASSUME NEW v \in Variables, NEW op, <<op, v>> \in items PROVE \E j \in items : j[2] = v
      BY <3>1
    <3>. QED
      BY <3>1 DEF Of
  <2>. QED
    BY <1>1, <2>1
<1>8. OutcomesSoFar'
  <2>1. /\ call.todo \subseteq call.wanted /\ call.served \subseteq call.wanted \ call.todo
        /\ call.ok <=> call.served = Done(call)
        /\ \A i \in call.served : varResult[i[2]] = "OK"
        /\ call.result = "OK" => \A i \in Done(call) \ call.served : varResult[i[2]] # "OK"
    BY DEF PackageInv, OutcomesSoFar, Done
  <2>2. Done(call') = Done(call) \cup items /\ Done(call) \cap items = {}
    BY <1>2, <1>5, <2>1 DEF Done
  <2>3. call'.served \subseteq Done(call')
    BY <1>5, <2>1, <2>2 DEF Done
  <2>4. call'.ok <=> call'.served = Done(call')
    <3>1. call'.served = Done(call') <=> call.served = Done(call) /\ items = good
      BY <1>5, <2>1, <2>2 DEF Done
    <3>. QED
      BY <1>4, <2>1, <3>1, Zenon
  <2>5. ASSUME NEW i \in Done(call)
        PROVE  varResult'[i[2]] = varResult[i[2]]
    <3>1. i \in call.wanted \ items /\ i[2] \in Variables
      BY <1>3, <2>2 DEF CallRecord, CallItems, Done
    <3>. QED
      BY <1>2, <1>7, <3>1
  <2>6. \A i \in call'.served : varResult'[i[2]] = "OK"
    BY <1>5, <1>6, <2>1, <2>5 DEF Done
  <2>7. call'.result = "OK" => \A i \in Done(call') \ call'.served : varResult'[i[2]] # "OK"
    BY <1>5, <1>6, <2>1, <2>2, <2>5
  <2>8. call'.todo \subseteq call'.wanted
    BY <1>5, <2>1
  <2>. QED
    BY <2>3, <2>4, <2>6, <2>7, <2>8 DEF OutcomesSoFar
<1>9. read \in [Variables -> VarValues]
  BY DEF Readable
<1>. HIDE DEF got, sets, taken
<1>10. PackageTypeOK'
  <2>1. \A v \in Variables : (fDirty[v] /\ v \notin got \cup taken) \in BOOLEAN
    OBVIOUS
  <2>2. fDirty' \in [Variables -> BOOLEAN]
    BY <1>1, <2>1, Zenon
  <2>3. /\ curr_props' \in [Variables -> VarValues]
        /\ confirmed' \in [Variables -> VarValues]
        /\ varResult' \in [Variables -> {"OK", "ERROR"}]
    BY <1>1, <1>9 DEF PackageInv, PackageTypeOK
  <2>. QED
    BY <1>5, <2>2, <2>3 DEF PackageTypeOK
<1>11. WantedOnce'
  BY <1>3, <1>5 DEF WantedOnce
<1>12. CleanIsConfirmed'
  <2>. SUFFICES ASSUME NEW v \in Variables, ~ fDirty'[v]
                PROVE  curr_props'[v] = confirmed'[v]
    BY DEF CleanIsConfirmed
  <2>1. ~ fDirty[v] \/ v \in got \/ v \in taken
    BY <1>1
  <2>2. ~ fDirty[v] => curr_props[v] = confirmed[v]
    BY DEF PackageInv, CleanIsConfirmed
  <2>. QED
    BY <1>1, <2>1, <2>2
<1>. QED
  BY <1>8, <1>10, <1>11, <1>12 DEF PackageInv

\* Every step keeps the invariant.
LEMMA PackageStep ==
  ASSUME ~ Overlap
  PROVE  PackageInv /\ [PackageNext]_packageVars => PackageInv'
<1>. SUFFICES ASSUME PackageInv, [PackageNext]_packageVars PROVE PackageInv'
  OBVIOUS
<1>1. CASE \E v \in Variables, x \in VarValues : setCurrProps(v, x)
  BY <1>1, SetCurrPropsStep
<1>2. CASE \E v \in Variables : getVariable(v) \/ setVariable(v) \/ getEngPropsUpdate(v)
  BY <1>2, VariableStep
<1>3. ASSUME NEW pkg \in Packages,
             \/ getUpdate(pkg)
             \/ \E force \in BOOLEAN :
                   setUpdate(pkg, force) \/ \E getPkg \in Packages : doExchange(getPkg, pkg, force)
      PROVE  PackageInv'
  BY <1>3, PackageCallStep
<1>4. CASE SimpleUpdate
  <2>1. PICK b \in NextBuckets :
           \/ \E error \in PackageErrors : RequestFailed(BucketItems(call.todo, b), error)
           \/ \E good \in SUBSET BucketItems(call.todo, b) : \E read \in Readable(good) :
                 Answered(BucketItems(call.todo, b), good, read)
    BY <1>4 DEF SimpleUpdate
  <2>2. PICK items : items = BucketItems(call.todo, b)
    OBVIOUS
  <2>3. items # {}
    BY <2>1, <2>2 DEF NextBuckets, BucketItems
  <2>. QED
    BY <2>1, <2>2, <2>3, RequestFailedStep, AnsweredStep
<1>5. CASE UNCHANGED packageVars
  BY <1>5 DEF packageVars, PackageInv, PackageTypeOK, WantedOnce, CleanIsConfirmed,
              OutcomesSoFar, Done
<1>. QED
  BY <1>1, <1>2, <1>3, <1>4, <1>5 DEF PackageNext

\* A variable that is not dirty has the value its server last gave or accepted, and
\* after a call the program can tell what was read and written, if no variable is
\* in both packages of an exchange (KscPackage, KscSorter, copySetVarResults).
THEOREM OutcomesOfPackages ==
  ASSUME ~ Overlap
  PROVE  PackageSpec => []OutcomesAreKnown
<1>1. PackageInv => OutcomesAreKnown
  <2>. SUFFICES ASSUME PackageInv PROVE OutcomesAreKnown
    OBVIOUS
  <2>1. ASSUME ~ Busy PROVE Done(call) = call.wanted
    BY <2>1 DEF Busy, Done
  <2>2. call.served \subseteq Done(call)
    BY DEF PackageInv, OutcomesSoFar
  <2>. QED
    BY <2>1, <2>2 DEF PackageInv, OutcomesSoFar, CleanIsConfirmed, OutcomesAreKnown
<1>2. PackageInit => PackageInv
  BY PackageInitially
<1>3. PackageInv /\ [PackageNext]_packageVars => PackageInv'
  BY PackageStep
<1>4. QED
  BY <1>1, <1>2, <1>3, PTL DEF PackageSpec

-----------------------------------------------------------------------------
(* The paths of a request.                                                  *)

Components == [sep : {"/"}, name : PathNames]

\* What the present path was resolved to is what the client meant.
PathInv ==
    /\ sent \in Seq(Components)
    /\ sent # <<>> => result = "OK" /\ context = KsPath(Absolute(sent))

\* With one separator, every component names a child.
LEMMA ComponentsAreChildren ==
  ASSUME NEW p \in Seq(Components), NEW i \in 1 .. Len(p)
  PROVE  p[i] \in Components /\ p[i].sep = "/"
<1>1. p[i] \in Components
  BY ElementOfSeq
<1>2. \A c \in Components : c.sep = "/"
  BY DEF Components
<1>. QED
  BY <1>1, <1>2

\* A sequence that is not empty has a first element.
LEMMA NonEmptySeq ==
  ASSUME NEW S, NEW s \in Seq(S), s # <<>>
  PROVE  Len(s) \in Nat /\ Len(s) >= 1
  OBVIOUS

\* Without parts, each component of a path is one of the object's names.
LEMMA NamesOfChildren ==
  ASSUME NEW p \in Seq(Components)
  PROVE  findSlashes(p) = [k \in 1 .. Len(p) |-> [x \in 1 .. 1 |-> p[k].name]]
<1>. DEFINE n == Len(p)
            starts == {i \in 1 .. n : i = 1 \/ p[i].sep = "/"}
            count == Cardinality(starts)
            Start(k) == CHOOSE i \in starts : Cardinality({j \in starts : j <= i}) = k
            End(k) == IF k = count THEN n ELSE Start(k + 1) - 1
<1>1. n \in Nat /\ starts = 1 .. n
  BY ComponentsAreChildren
<1>2. count = n
  <2>. HIDE DEF n, starts
  <2>1. Cardinality(1 .. n) = n
    BY <1>1, FS_Interval
  <2>. QED
    BY <1>1, <2>1
<1>3. ASSUME NEW k \in 1 .. n PROVE Start(k) = k
  <2>1. \A i \in starts : Cardinality({j \in starts : j <= i}) = i
    <3>. SUFFICES ASSUME NEW i \in starts
                  PROVE  Cardinality({j \in starts : j <= i}) = i
      OBVIOUS
    <3>1. i \in 1 .. n
      BY <1>1
    <3>2. {j \in starts : j <= i} = 1 .. i
      BY <1>1, <3>1
    <3>3. Cardinality(1 .. i) = i
      BY <3>1, FS_Interval
    <3>. QED
      BY <3>2, <3>3
  <2>. HIDE DEF starts
  <2>. QED
    BY <1>1, <2>1
<1>4. ASSUME NEW k \in 1 .. n PROVE End(k) = k
  <2>1. k # n => k + 1 \in 1 .. n
    BY <1>1
  <2>2. k # n => Start(k + 1) = k + 1
    BY <1>3, <2>1
  <2>. HIDE DEF count, Start
  <2>. QED
    BY <1>1, <1>2, <2>2
<1>5. findSlashes(p) =
        [k \in 1 .. count |-> [x \in 1 .. End(k) - Start(k) + 1 |-> p[Start(k) + x - 1].name]]
  BY DEF findSlashes
<1>. HIDE DEF starts, count, Start, End
<1>6. ASSUME NEW k \in 1 .. n
      PROVE  [x \in 1 .. End(k) - Start(k) + 1 |-> p[Start(k) + x - 1].name]
               = [x \in 1 .. 1 |-> p[k].name]
  <2>1. End(k) - Start(k) + 1 = 1 /\ \A x \in 1 .. 1 : Start(k) + x - 1 = k
    BY <1>1, <1>3, <1>4
  <2>. QED
    BY <2>1
<1>. QED
  BY <1>2, <1>5, <1>6

\* The common components of two paths exist.
LEMMA CommonComponents ==
  ASSUME NEW p \in Seq(Components), NEW q \in Seq(Components)
  PROVE  /\ CommonPrefix(p, q) \in 0 .. Len(p) /\ CommonPrefix(p, q) <= Len(q)
         /\ \A i \in 1 .. CommonPrefix(p, q) : p[i] = q[i]
<1>. DEFINE Common(n) == n <= Len(q) /\ \A i \in 1 .. n : p[i] = q[i]
            S == {n \in 0 .. Len(p) : Common(n)}
<1>1. S \subseteq 0 .. Len(p) /\ 0 \in S /\ Len(p) \in Nat /\ Len(q) \in Nat
  OBVIOUS
<1>2. PICK m \in S : \A n \in S : n <= m
  <2>1. S # {}
    BY <1>1
  <2>. HIDE DEF S
  <2>. QED
    BY <1>1, <2>1, MaxOfSet
<1>3. ASSUME m < Len(p), m < Len(q), p[m + 1] = q[m + 1]
      PROVE  FALSE
  <2>1. m + 1 \in 0 .. Len(p) /\ m + 1 <= Len(q)
    BY <1>1, <1>2, <1>3
  <2>2. \A i \in 1 .. m + 1 : i \in 1 .. m \/ i = m + 1
    BY <1>1, <1>2
  <2>3. Common(m + 1)
    BY <1>2, <1>3, <2>1, <2>2
  <2>4. m + 1 \in S
    BY <2>1, <2>3
  <2>. QED
    BY <1>1, <1>2, <2>4
<1>4. \E n \in 0 .. Len(p) :
         /\ n <= Len(q) /\ \A i \in 1 .. n : p[i] = q[i]
         /\ n < Len(p) /\ n < Len(q) => p[n + 1] # q[n + 1]
  BY <1>2, <1>3
<1>. QED
  BY <1>4, Zenon DEF CommonPrefix

\* A path that is sent as it is is what it says.
LEMMA AbsoluteIsAbsolute ==
  ASSUME NEW path \in Seq(Components), path # <<>>
  PROVE  KsPath(Absolute(path)) =
           [valid |-> TRUE, go_up |-> 0, lead |-> "/", names |-> findSlashes(path)]
<1>1. path[1].sep = "/"
  BY NonEmptySeq, ComponentsAreChildren
<1>2. /\ Absolute(path).relative = FALSE /\ Absolute(path).up = 0
      /\ Absolute(path).rest = path
  BY Zenon DEF Absolute
<1>. QED
  BY <1>1, <1>2 DEF KsPath

\* What relTo() leaves out are components that the two paths share, and no more
\* levels are gone up than the reference has.
LEMMA RelativeTo ==
  ASSUME NEW path \in Seq(Components), NEW to \in Seq(Components), path # <<>>, to # <<>>
  PROVE  \/ relTo(path, to) = Absolute(path)
         \/ \E common \in 1 .. Len(path) - 1 :
               /\ common < Len(to) /\ \A i \in 1 .. common : path[i] = to[i]
               /\ relTo(path, to) = [relative |-> TRUE, up |-> Len(to) - common - 1,
                                     rest |-> SubSeq(path, common + 1, Len(path))]
<1>. DEFINE n == CommonPrefix(path, to)
            common == inCommon(path, to)
<1>1. /\ n \in 0 .. Len(path) /\ n <= Len(to) /\ Len(to) \in Nat /\ Len(path) \in Nat
      /\ \A i \in 1 .. n : path[i] = to[i]
  BY CommonComponents
<1>2. common = (IF n < Len(path) /\ n < Len(to) THEN n + 1 ELSE n) - 1
  BY DEF inCommon
<1>3. countComponents(to) = Len(to)
  <2>1. to[1].sep = "/"
    BY NonEmptySeq, ComponentsAreChildren
  <2>. QED
    BY <1>1, <2>1 DEF countComponents
<1>. HIDE DEF n, common
<1>4. CASE common > 0
  <2>1. common \in 1 .. Len(path) - 1 /\ common < Len(to)
    BY <1>1, <1>2, <1>4
  <2>2. \A i \in 1 .. common : path[i] = to[i]
    BY <1>1, <1>2, <1>4
  <2>3. \/ relTo(path, to) = Absolute(path)
        \/ relTo(path, to) = [relative |-> TRUE, up |-> Len(to) - common - 1,
                              rest |-> SubSeq(path, common + 1, Len(path))]
    BY <1>3, <1>4, Zenon DEF relTo, common
  <2>. QED
    BY <2>1, <2>2, <2>3
<1>5. CASE ~ common > 0
  <2>1. relTo(path, to) = Absolute(path)
    BY <1>5 DEF relTo, common
  <2>. QED
    BY <2>1
<1>. QED
  BY <1>4, <1>5

\* The components of a path are those before and those after any place in it.
LEMMA NamesJoin ==
  ASSUME NEW path \in Seq(Components), NEW to \in Seq(Components),
         NEW common \in 1 .. Len(path) - 1, common < Len(to),
         \A i \in 1 .. common : path[i] = to[i]
  PROVE  SubSeq(findSlashes(to), 1, common)
             \o findSlashes(SubSeq(path, common + 1, Len(path))) = findSlashes(path)
<1>1. Len(path) \in Nat /\ Len(to) \in Nat /\ common \in Nat
  OBVIOUS
<1>2. PICK r : r = SubSeq(path, common + 1, Len(path))
  OBVIOUS
<1>3. /\ r \in Seq(Components) /\ Len(r) = Len(path) - common
      /\ \A i \in 1 .. Len(r) : r[i] = path[common + i]
  BY <1>1, <1>2
<1>. DEFINE Name(c) == [x \in 1 .. 1 |-> c.name]
<1>4. /\ findSlashes(path) = [k \in 1 .. Len(path) |-> Name(path[k])]
      /\ findSlashes(to) = [k \in 1 .. Len(to) |-> Name(to[k])]
      /\ findSlashes(r) = [k \in 1 .. Len(r) |-> Name(r[k])]
  BY <1>3, NamesOfChildren
<1>. DEFINE Names == {Name(c) : c \in Components}
<1>5. /\ \A k \in 1 .. Len(path) : Name(path[k]) \in Names
      /\ \A k \in 1 .. Len(to) : Name(to[k]) \in Names
      /\ \A k \in 1 .. Len(r) : Name(r[k]) \in Names
  BY <1>3
<1>. HIDE DEF Names, Name
<1>6. PICK a, b, c : a = findSlashes(path) /\ b = findSlashes(to) /\ c = findSlashes(r)
  OBVIOUS
<1>7. /\ a \in Seq(Names) /\ Len(a) = Len(path) /\ \A k \in 1 .. Len(path) : a[k] = Name(path[k])
      /\ b \in Seq(Names) /\ Len(b) = Len(to) /\ \A k \in 1 .. Len(to) : b[k] = Name(to[k])
      /\ c \in Seq(Names) /\ Len(c) = Len(r) /\ \A k \in 1 .. Len(r) : c[k] = Name(r[k])
  BY <1>1, <1>3, <1>4, <1>5, <1>6
<1>8. PICK d : d = SubSeq(b, 1, common)
  OBVIOUS
<1>9. d \in Seq(Names) /\ Len(d) = common /\ \A k \in 1 .. common : d[k] = Name(to[k])
  <2>1. \A k \in 1 .. common : b[k] \in Names /\ b[k] = Name(to[k])
    BY <1>1, <1>5, <1>7
  <2>2. /\ d \in Seq(Names) /\ Len(d) = common
        /\ \A k \in 1 .. common - 1 + 1 : d[k] = b[1 + k - 1]
    BY <1>1, <1>8, <2>1, SubSeqProperties
  <2>3. ASSUME NEW k \in 1 .. common PROVE d[k] = b[k]
    <3>1. k \in 1 .. common - 1 + 1 /\ 1 + k - 1 = k
      BY <1>1
    <3>. QED
      BY <2>2, <3>1
  <2>. QED
    BY <2>1, <2>2, <2>3
<1>10. /\ d \o c \in Seq(Names) /\ Len(d \o c) = Len(path)
       /\ \A k \in 1 .. Len(path) : (d \o c)[k] = IF k <= common THEN d[k] ELSE c[k - common]
  <2>1. Len(d) + Len(c) = Len(path)
    BY <1>1, <1>3, <1>7, <1>9
  <2>. QED
    BY <1>7, <1>9, <2>1, ConcatProperties
<1>11. ASSUME NEW k \in 1 .. Len(path) PROVE (d \o c)[k] = a[k]
  <2>1. CASE k <= common
    <3>1. d[k] = Name(to[k]) /\ path[k] = to[k]
      BY <1>1, <1>9, <2>1
    <3>. QED
      BY <1>7, <1>10, <2>1, <3>1
  <2>2. CASE ~ k <= common
    <3>1. k - common \in 1 .. Len(r) /\ common + (k - common) = k
      BY <1>1, <1>3, <2>2
    <3>2. c[k - common] = Name(path[k])
      BY <1>3, <1>7, <3>1
    <3>. QED
      BY <1>7, <1>10, <2>2, <3>2
  <2>. QED
    BY <2>1, <2>2
<1>12. d \o c = a
  BY <1>7, <1>10, <1>11, SeqEqual
<1>. QED
  BY <1>2, <1>6, <1>8, <1>12

\* Whatever a path is sent as, the server finds the path that was meant.
LEMMA SendStep ==
  ASSUME Separators = {"/"}, ~ RelativeFirst, PathInv, NEW path \in KscPath, Send(path)
  PROVE  PathInv'
<1>1. path \in Seq(Components) /\ path # <<>>
  <2>1. PICK n \in 1 .. MaxComponents : path \in [1 .. n -> Components]
    BY Zenon DEF KscPath, Components
  <2>2. n \in Nat /\ n >= 1
    BY <2>1, PathAssumption
  <2>3. path \in Seq(Components) /\ Len(path) = n
    BY <2>1, <2>2
  <2>. QED
    BY <2>2, <2>3
<1>2. PICK id \in Encoded(path) :
        /\ context' = Resolved(id).path /\ result' = Resolved(id).result
        /\ sent' = IF sent = <<>> /\ id.relative THEN sent ELSE path
  BY DEF Send, Receive
<1>3. CASE id = Absolute(path)
  <2>1. PICK k : k = KsPath(id)
    OBVIOUS
  <2>2. k = [valid |-> TRUE, go_up |-> 0, lead |-> "/", names |-> findSlashes(path)]
    BY <1>1, <1>3, <2>1, AbsoluteIsAbsolute
  <2>3. k.valid = TRUE /\ k.go_up = 0
    BY <2>2, Zenon
  <2>4. resolve(context, k) = k
    BY <2>3 DEF resolve
  <2>5. Resolved(id) = [path |-> k, result |-> "OK"]
    <3>1. CASE context.valid
      BY <2>1, <2>3, <2>4, <3>1, Zenon DEF Resolved
    <3>2. CASE ~ context.valid
      BY <2>1, <2>3, <3>2, Zenon DEF Resolved
    <3>. QED
      BY <3>1, <3>2
  <2>6. context' = k /\ result' = "OK"
    BY <1>2, <2>5
  <2>7. sent' = path
    <3>1. id.relative = FALSE
      BY <1>3, Zenon DEF Absolute
    <3>. QED
      BY <1>2, <3>1
  <2>. QED
    BY <1>1, <1>3, <2>1, <2>6, <2>7 DEF PathInv
<1>4. CASE id # Absolute(path)
  <2>1. sent # <<>> /\ id = relTo(path, sent)
    BY <1>2, <1>4 DEF Encoded
  <2>2. sent \in Seq(Components) /\ context = KsPath(Absolute(sent))
    BY <2>1 DEF PathInv
  <2>3. PICK common \in 1 .. Len(path) - 1 :
          /\ common < Len(sent) /\ \A i \in 1 .. common : path[i] = sent[i]
          /\ id = [relative |-> TRUE, up |-> Len(sent) - common - 1,
                   rest |-> SubSeq(path, common + 1, Len(path))]
    BY <1>1, <1>4, <2>1, <2>2, RelativeTo
  <2>4. PICK r : r = SubSeq(path, common + 1, Len(path))
    OBVIOUS
  <2>5. r[1].sep = "/"
    <3>1. r \in Seq(Components) /\ Len(r) >= 1
      BY <1>1, <2>4
    <3>. QED
      BY <3>1, ComponentsAreChildren
  <2>6. PICK k : k = KsPath(id)
    OBVIOUS
  <2>7. PICK up : up = Len(sent) - common
    OBVIOUS
  <2>8. k = [valid |-> TRUE, go_up |-> up, lead |-> "", names |-> findSlashes(r)]
    <3>1. /\ id.relative = TRUE /\ id.rest = r
      BY <2>3, <2>4, Zenon
    <3>2. id.up + 1 = up
      BY <1>1, <2>2, <2>3, <2>7
    <3>. QED
      BY <2>5, <2>6, <3>1, <3>2 DEF KsPath
  <2>9. k.valid = TRUE
    BY <2>8, Zenon
  <2>10. /\ context = [valid |-> TRUE, go_up |-> 0, lead |-> "/", names |-> findSlashes(sent)]
         /\ context.valid = TRUE
    <3>1. context = [valid |-> TRUE, go_up |-> 0, lead |-> "/", names |-> findSlashes(sent)]
      BY <2>1, <2>2, AbsoluteIsAbsolute
    <3>. QED
      BY <3>1, Zenon
  <2>11. PICK f : f = findSlashes(sent)
    OBVIOUS
  <2>12. Len(f) = Len(sent) /\ Len(sent) \in Nat
    BY <2>2, <2>11, NamesOfChildren
  <2>13. /\ k.go_up = up /\ k.names = findSlashes(r) /\ up # 0 /\ ~ up > Len(f)
         /\ Len(f) - up = common
    <3>1. k.go_up = up /\ k.names = findSlashes(r)
      BY <2>8
    <3>2. up # 0 /\ ~ up > Len(sent) /\ Len(sent) - up = common
      BY <1>1, <2>3, <2>7, <2>12
    <3>. QED
      BY <2>12, <3>1, <3>2
  <2>14. PICK c : c = KsPath(Absolute(path))
    OBVIOUS
  <2>15. resolve(context, k) = c
    <3>1. SubSeq(f, 1, common) \o k.names = findSlashes(path)
      <4>1. SubSeq(findSlashes(sent), 1, common)
               \o findSlashes(SubSeq(path, common + 1, Len(path))) = findSlashes(path)
        BY <1>1, <2>2, <2>3, NamesJoin
      <4>. QED
        BY <2>4, <2>11, <2>13, <4>1
    <3>2. context.names = f
      BY <2>10, <2>11
    <3>3. resolve(context, k) =
             [context EXCEPT !.go_up = 0, !.names = SubSeq(f, 1, common) \o k.names]
      BY <2>13, <3>2 DEF resolve
    <3>4. c = [valid |-> TRUE, go_up |-> 0, lead |-> "/", names |-> findSlashes(path)]
      BY <1>1, <2>14, AbsoluteIsAbsolute
    <3>. QED
      BY <2>10, <3>1, <3>3, <3>4
  <2>16. c.valid = TRUE
    <3>1. c = [valid |-> TRUE, go_up |-> 0, lead |-> "/", names |-> findSlashes(path)]
      BY <1>1, <2>14, AbsoluteIsAbsolute
    <3>. QED
      BY <3>1, Zenon
  <2>17. Resolved(id) = [path |-> c, result |-> "OK"]
    BY <2>6, <2>9, <2>10, <2>15, <2>16, Zenon DEF Resolved
  <2>18. context' = c /\ result' = "OK" /\ sent' = path
    BY <1>2, <2>1, <2>17
  <2>. QED
    BY <1>1, <2>14, <2>18 DEF PathInv
<1>. QED
  BY <1>3, <1>4

\* However the client shortens the paths of a request, the server resolves each to
\* the object that was meant, if objects have no parts and the client's first path
\* is absolute (KscPath::relTo, KsPath::resolvePaths).
THEOREM RelativePathsAreResolved ==
  ASSUME Separators = {"/"}, ~ RelativeFirst
  PROVE  PathSpec => []RelativePathsResolve
<1>1. PathInit => PathInv
  BY DEF PathInit, PathInv
<1>2. PathInv /\ [PathNext]_pathVars => PathInv'
  <2>. SUFFICES ASSUME PathInv, [PathNext]_pathVars PROVE PathInv'
    OBVIOUS
  <2>1. CASE NewRequest
    BY <2>1 DEF NewRequest, PathInv
  <2>2. ASSUME NEW path \in KscPath, Send(path) PROVE PathInv'
    BY <2>2, SendStep
  <2>3. CASE UNCHANGED pathVars
    BY <2>3 DEF pathVars, PathInv
  <2>. QED
    BY <2>1, <2>2, <2>3 DEF PathNext
<1>3. PathInv => RelativePathsResolve
  BY DEF PathInv, RelativePathsResolve
<1>4. QED
  BY <1>1, <1>2, <1>3, PTL DEF PathSpec

-----------------------------------------------------------------------------
(* Masks and names.                                                        *)

Masks == Seq(Tokens)
Names == Seq(Chars)
Answer == {"YES", "NO", "BAD", "LOOPS"}
Kinds == {"char", "any", "star", "set", "negated", "malformed"}

\* The kinds of tokens.
LEMMA TokenKinds ==
  ASSUME NEW msk \in Masks, NEW m \in 1 .. Len(msk)
  PROVE  msk[m].t \in Kinds
<1>1. msk[m] \in Tokens
  BY DEF Masks
<1>. QED
  BY <1>1, WildAssumption DEF Tokens, CharToken, Token, Kinds

\* Strong induction from the end of a sequence on.
FromTheEnd(n, D, S) ==
    n \in Nat /\ D = 1 .. n /\ \A i \in D : (\A j \in D : i < j => j \in S) => i \in S

\* What holds of an element if it holds of those behind it holds of all.
LEMMA EndInduction ==
  ASSUME NEW n, NEW D, NEW S, FromTheEnd(n, D, S)
  PROVE  D \subseteq S
<1>1. n \in Nat /\ D = 1 .. n
  BY DEF FromTheEnd
<1>2. PICK r : r = [i \in D |-> n - i]
  OBVIOUS
<1>3. r \in [D -> 0 .. n] /\ \A i, j \in D : i < j => r[j] < r[i]
  <2>1. \A i \in D : n - i \in 0 .. n
    BY <1>1
  <2>. QED
    BY <1>1, <1>2, <2>1
<1>4. \A i \in D : (\A j \in D : r[j] < r[i] => j \in S) => i \in S
  BY <1>3 DEF FromTheEnd
<1>5. n \in Nat /\ r \in [D -> 0 .. n]
  BY <1>1, <1>3
<1>. QED
  BY <1>4, <1>5, RankedInduction

\* The rows of a table that is filled from the end on.
Rank(L) == [m \in 1 .. L + 1 |-> L + 1 - m]

\* The rank falls towards the end.
LEMMA RankIs ==
  ASSUME NEW L \in Nat
  PROVE  /\ L + 1 \in Nat /\ Rank(L) \in [1 .. L + 1 -> 0 .. L + 1]
         /\ \A i, j \in 1 .. L + 1 : i < j <=> Rank(L)[j] < Rank(L)[i]
<1>1. PICK n : n = L + 1
  OBVIOUS
<1>2. n \in Nat /\ \A i \in 1 .. n : n - i \in 0 .. n
  BY <1>1
<1>3. Rank(L) = [m \in 1 .. n |-> n - m]
  BY <1>1 DEF Rank
<1>4. \A i, j \in 1 .. n : i < j <=> n - j < n - i
  BY <1>2
<1>. QED
  BY <1>1, <1>2, <1>3, <1>4

\* The places of the name, for the rest of the mask from m on.
Cut(nam, msk, f, m) ==
    IF m > Len(msk) THEN {Len(nam) + 1}
    ELSE IF msk[m].t = "star"
    THEN {n \in 1 .. Len(nam) + 1 : \E i \in f[m + 1] : n <= i}
    ELSE {n \in 1 .. Len(nam) : Stands(msk[m], nam[n]) /\ n + 1 \in f[m + 1]}

\* The sets of places exist and are found from the end of the mask on.
LEMMA PlacesAre ==
  ASSUME NEW nam \in Names, NEW msk \in Masks
  PROVE  \A m \in 1 .. Len(msk) + 1 :
            /\ Places(nam, msk)[m] \subseteq 1 .. Len(nam) + 1
            /\ Places(nam, msk)[m] = Cut(nam, msk, Places(nam, msk), m)
<1>1. PICK L, N : L = Len(msk) /\ N = Len(nam)
  OBVIOUS
<1>2. L \in Nat /\ N \in Nat
  BY <1>1 DEF Names, Masks
<1>3. PICK D, X, r : D = 1 .. L + 1 /\ X = SUBSET (1 .. N + 1) /\ r = Rank(L)
  OBVIOUS
<1>4. L + 1 \in Nat /\ r \in [D -> 0 .. L + 1] /\ \A i, j \in D : i < j <=> r[j] < r[i]
  BY <1>2, <1>3, RankIs
<1>5. PICK B : B = [q \in D \X [D -> X] |-> Cut(nam, msk, q[2], q[1])]
  OBVIOUS
<1>6. \A m \in D : \A f \in [D -> X] : B[<<m, f>>] = Cut(nam, msk, f, m)
  BY <1>5
<1>7. \A m, f : Cut(nam, msk, f, m) \in X
  <2>1. N + 1 \in 1 .. N + 1 /\ 1 .. N \subseteq 1 .. N + 1
    BY <1>2
  <2>. QED
    BY <1>1, <1>3, <2>1 DEF Cut
<1>8. B \in [D \X [D -> X] -> X]
  BY <1>5, <1>7
<1>9. LooksDown(D, X, r, B)
  <2>1. ASSUME NEW m \in D, NEW f \in [D -> X], NEW g \in [D -> X],
               \A j \in D : r[j] < r[m] => f[j] = g[j]
        PROVE  B[<<m, f>>] = B[<<m, g>>]
    <3>1. ~ (m > L) => f[m + 1] = g[m + 1]
      <4>1. ~ (m > L) => m + 1 \in D /\ m < m + 1
        BY <1>2, <1>3
      <4>. QED
        BY <1>4, <2>1, <4>1
    <3>2. Cut(nam, msk, f, m) = Cut(nam, msk, g, m)
      BY <1>1, <3>1 DEF Cut
    <3>. QED
      BY <1>6, <3>2
  <2>. QED
    BY <2>1 DEF LooksDown
<1>10. {} \in X
  BY <1>3
<1>11. PICK f : Recursive(f, D, X, B)
  BY <1>4, <1>8, <1>9, <1>10, RankedRecursion
<1>12. f \in [D -> X] /\ \A m \in D : f[m] = Cut(nam, msk, f, m)
  BY <1>6, <1>11 DEF Recursive
<1>. DEFINE Body(g) == [m \in 1 .. Len(msk) + 1 |->
                          IF m > Len(msk) THEN {Len(nam) + 1}
                          ELSE IF msk[m].t = "star"
                          THEN {n \in 1 .. Len(nam) + 1 : \E i \in g[m + 1] : n <= i}
                          ELSE {n \in 1 .. Len(nam) : Stands(msk[m], nam[n]) /\ n + 1 \in g[m + 1]}]
<1>13. \A g : Body(g) = [m \in D |-> Cut(nam, msk, g, m)]
  BY <1>1, <1>3 DEF Cut
<1>14. PICK c : c = CHOOSE g : g = Body(g)
  OBVIOUS
<1>15. Places(nam, msk) = c
  BY <1>14 DEF Places
<1>. HIDE DEF Body
<1>16. f = Body(f)
  BY <1>12, <1>13
<1>17. c = Body(c)
  BY <1>14, <1>16, Zenon
<1>18. \A m \in D : c[m] = Cut(nam, msk, c, m)
  BY <1>13, <1>17
<1>. QED
  BY <1>1, <1>3, <1>7, <1>15, <1>18

\* "*" in front of a token, the tokens it goes on to, and what a character may be.
LEMMA PlacesOfToken ==
  ASSUME NEW nam \in Names, NEW msk \in Masks, NEW m \in 1 .. Len(msk), NEW n
  PROVE  /\ m + 1 \in 1 .. Len(msk) + 1
         /\ msk[m].t = "star" => (n \in Places(nam, msk)[m] <=>
               n \in 1 .. Len(nam) + 1 /\ \E i \in Places(nam, msk)[m + 1] : n <= i)
         /\ msk[m].t # "star" => (n \in Places(nam, msk)[m] <=>
               /\ n \in 1 .. Len(nam) /\ Stands(msk[m], nam[n])
               /\ n + 1 \in Places(nam, msk)[m + 1])
<1>1. Len(msk) \in Nat
  BY DEF Masks
<1>2. m \in 1 .. Len(msk) + 1 /\ m + 1 \in 1 .. Len(msk) + 1 /\ ~ (m > Len(msk))
  BY <1>1
<1>3. Places(nam, msk)[m] = Cut(nam, msk, Places(nam, msk), m)
  BY <1>2, PlacesAre
<1>. QED
  BY <1>2, <1>3 DEF Cut

\* Behind the mask, the name must be at its end too.
LEMMA PlacesOfEnd ==
  ASSUME NEW nam \in Names, NEW msk \in Masks
  PROVE  Places(nam, msk)[Len(msk) + 1] = {Len(nam) + 1}
<1>1. Len(msk) \in Nat
  BY DEF Masks
<1>2. Len(msk) + 1 \in 1 .. Len(msk) + 1 /\ Len(msk) + 1 > Len(msk)
  BY <1>1
<1>. QED
  BY <1>2, PlacesAre DEF Cut

Jokers == {"any", "star"}

\* The tokens after a "*" up to the one that the mask goes on with.
LEMMA AfterJokersIs ==
  ASSUME NEW msk \in Masks, NEW m \in 1 .. Len(msk), NEW j, j = AfterJokers(msk, m)
  PROVE  /\ j \in m + 1 .. Len(msk) + 1
         /\ \A i \in m + 1 .. j - 1 : msk[i].t \in Jokers
         /\ j <= Len(msk) => msk[j].t \notin Jokers
<1>1. PICK L : L = Len(msk)
  OBVIOUS
<1>2. L \in Nat
  BY <1>1 DEF Masks
<1>3. PICK S : S = {i \in m + 1 .. L + 1 : i = L + 1 \/ msk[i].t \notin Jokers}
  OBVIOUS
<1>4. L + 1 \in S /\ S \subseteq Nat
  BY <1>1, <1>2, <1>3
<1>5. PICK k : k \in S /\ \A y \in S : k <= y
  BY <1>4, MinOfSet
<1>6. k \in m + 1 .. L + 1 /\ (k <= L => msk[k].t \notin Jokers)
  BY <1>2, <1>3, <1>5
<1>7. ASSUME NEW i \in m + 1 .. k - 1 PROVE msk[i].t \in Jokers
  <2>1. i \in m + 1 .. L + 1 /\ i < k
    BY <1>1, <1>2, <1>6
  <2>2. i \notin S
    BY <1>4, <1>5, <2>1
  <2>. QED
    BY <1>3, <2>1, <2>2
<1>8. \E x \in m + 1 .. Len(msk) + 1 :
         /\ \A i \in m + 1 .. x - 1 : msk[i].t \in {"any", "star"}
         /\ x <= Len(msk) => msk[x].t \notin {"any", "star"}
  BY <1>1, <1>6, <1>7 DEF Jokers
<1>. QED
  BY <1>8, Zenon DEF AfterJokers, Jokers

\* How many elements of an interval are in a set.
From(T, a, b) == {i \in a .. b : i \in T}

\* Counting from one element on.
LEMMA CountFrom ==
  ASSUME NEW T, NEW a \in Nat, NEW b \in Nat
  PROVE  /\ IsFiniteSet(From(T, a, b)) /\ Cardinality(From(T, a, b)) \in Nat
         /\ a > b => Cardinality(From(T, a, b)) = 0
         /\ a <= b /\ a \in T => Cardinality(From(T, a, b)) = Cardinality(From(T, a + 1, b)) + 1
         /\ a <= b /\ a \notin T => Cardinality(From(T, a, b)) = Cardinality(From(T, a + 1, b))
<1>1. \A x \in Nat : IsFiniteSet(From(T, x, b)) /\ Cardinality(From(T, x, b)) \in Nat
  <2>1. TAKE x \in Nat
  <2>2. IsFiniteSet(x .. b)
    BY FS_Interval
  <2>3. From(T, x, b) \subseteq x .. b
    BY DEF From
  <2>. QED
    BY <2>2, <2>3, FS_Subset, FS_CardinalityType
<1>2. ASSUME a > b PROVE Cardinality(From(T, a, b)) = 0
  <2>1. From(T, a, b) = {}
    BY <1>2 DEF From
  <2>. QED
    BY <2>1, FS_EmptySet
<1>3. ASSUME a <= b, a \in T PROVE Cardinality(From(T, a, b)) = Cardinality(From(T, a + 1, b)) + 1
  <2>1. From(T, a, b) = From(T, a + 1, b) \cup {a} /\ a \notin From(T, a + 1, b)
    BY <1>3 DEF From
  <2>2. IsFiniteSet(From(T, a + 1, b))
    BY <1>1
  <2>. QED
    BY <2>1, <2>2, FS_AddElement
<1>4. ASSUME a <= b, a \notin T PROVE Cardinality(From(T, a, b)) = Cardinality(From(T, a + 1, b))
  <2>1. From(T, a, b) = From(T, a + 1, b)
    BY <1>4 DEF From
  <2>. QED
    BY <2>1
<1>. QED
  BY <1>1, <1>2, <1>3, <1>4

Anys(msk, a, b) == Cardinality({i \in a .. b : msk[i].t = "any"})

\* Counting the tokens "?".
LEMMA CountAnys ==
  ASSUME NEW msk \in Masks, NEW a \in Nat, NEW b \in Nat
  PROVE  /\ Anys(msk, a, b) \in Nat
         /\ a > b => Anys(msk, a, b) = 0
         /\ a <= b /\ msk[a].t = "any" => Anys(msk, a, b) = Anys(msk, a + 1, b) + 1
         /\ a <= b /\ msk[a].t # "any" => Anys(msk, a, b) = Anys(msk, a + 1, b)
<1>1. PICK T : T = {i \in Nat : msk[i].t = "any"}
  OBVIOUS
<1>2. \A x \in Nat : Anys(msk, x, b) = Cardinality(From(T, x, b))
  <2>1. TAKE x \in Nat
  <2>2. {i \in x .. b : msk[i].t = "any"} = From(T, x, b)
    BY <1>1 DEF From
  <2>. QED
    BY <2>2 DEF Anys
<1>3. a \in T <=> msk[a].t = "any"
  BY <1>1
<1>4. a + 1 \in Nat
  OBVIOUS
<1>5. /\ Cardinality(From(T, a, b)) \in Nat
      /\ a > b => Cardinality(From(T, a, b)) = 0
      /\ a <= b /\ a \in T => Cardinality(From(T, a, b)) = Cardinality(From(T, a + 1, b)) + 1
      /\ a <= b /\ a \notin T => Cardinality(From(T, a, b)) = Cardinality(From(T, a + 1, b))
  BY CountFrom
<1>. QED
  BY <1>2, <1>3, <1>4, <1>5

\* The characters that the rest of a mask needs.
Needs(msk, j) == Cardinality({i \in j .. Len(msk) : msk[i].t # "star"})

\* They grow token by token.
LEMMA NeedsAre ==
  ASSUME NEW msk \in Masks, NEW m \in 1 .. Len(msk) + 1
  PROVE  /\ Needs(msk, m) \in Nat
         /\ m = Len(msk) + 1 => Needs(msk, m) = 0
         /\ m <= Len(msk) /\ msk[m].t # "star" =>
               Needs(msk, m) = Needs(msk, m + 1) + 1
         /\ m <= Len(msk) /\ msk[m].t = "star" => Needs(msk, m) = Needs(msk, m + 1)
<1>1. PICK T, L : T = {i \in Nat : msk[i].t # "star"} /\ L = Len(msk)
  OBVIOUS
<1>2. L \in Nat /\ m \in Nat /\ m + 1 \in Nat /\ (m = L + 1 => m > L)
  BY <1>1 DEF Masks
<1>3. \A x \in Nat : Needs(msk, x) = Cardinality(From(T, x, L))
  <2>1. TAKE x \in Nat
  <2>2. {i \in x .. L : msk[i].t # "star"} = From(T, x, L)
    BY <1>1 DEF From
  <2>. QED
    BY <1>1, <2>2 DEF Needs
<1>4. m \in T <=> msk[m].t # "star"
  BY <1>1, <1>2
<1>5. /\ Cardinality(From(T, m, L)) \in Nat
      /\ m > L => Cardinality(From(T, m, L)) = 0
      /\ m <= L /\ m \in T => Cardinality(From(T, m, L)) = Cardinality(From(T, m + 1, L)) + 1
      /\ m <= L /\ m \notin T => Cardinality(From(T, m, L)) = Cardinality(From(T, m + 1, L))
  BY <1>2, CountFrom
<1>. QED
  BY <1>1, <1>2, <1>3, <1>4, <1>5

\* Enough characters must be left for the rest of the mask.
LEMMA RestFits ==
  ASSUME NEW nam \in Names, NEW msk \in Masks
  PROVE  \A m \in 1 .. Len(msk) + 1 : \A n \in Places(nam, msk)[m] :
            n \in Nat /\ n + Needs(msk, m) <= Len(nam) + 1
<1>1. PICK L, N, P : L = Len(msk) /\ N = Len(nam) /\ P = Places(nam, msk)
  OBVIOUS
<1>2. L \in Nat /\ N \in Nat
  BY <1>1 DEF Names, Masks
<1>3. PICK S : S = {m \in 1 .. L + 1 : \A n \in P[m] : n + Needs(msk, m) <= N + 1}
  OBVIOUS
<1>4. \A m \in 1 .. L + 1 : P[m] \subseteq 1 .. N + 1
  BY <1>1, PlacesAre
<1>5. ASSUME NEW m \in 1 .. L + 1, \A j \in 1 .. L + 1 : m < j => j \in S PROVE m \in S
  <2>1. CASE m = L + 1
    <3>1. P[m] = {N + 1} /\ Needs(msk, m) = 0
      BY <1>1, <2>1, PlacesOfEnd, NeedsAre
    <3>. QED
      BY <1>2, <1>3, <3>1
  <2>2. CASE m # L + 1
    <3>1. m \in 1 .. L /\ m + 1 \in 1 .. L + 1
      BY <1>2, <2>2
    <3>2. m + 1 \in S
      BY <1>5, <3>1
    <3>3. PICK R, Q : R = Needs(msk, m) /\ Q = Needs(msk, m + 1)
      OBVIOUS
    <3>4. /\ R \in Nat /\ Q \in Nat
          /\ msk[m].t # "star" => R = Q + 1
          /\ msk[m].t = "star" => R = Q
      BY <1>1, <3>1, <3>3, NeedsAre
    <3>5. \A i \in P[m + 1] : i \in Nat /\ i + Q <= N + 1
      BY <1>3, <1>4, <3>1, <3>2, <3>3
    <3>6. ASSUME NEW n \in P[m] PROVE n + R <= N + 1
      <4>1. n \in Nat
        BY <1>4, <3>1, <3>6
      <4>2. CASE msk[m].t = "star"
        <5>1. PICK i \in P[m + 1] : n <= i
          BY <1>1, <3>1, <3>6, <4>2, PlacesOfToken
        <5>. QED
          BY <1>2, <3>4, <3>5, <4>1, <4>2, <5>1
      <4>3. CASE msk[m].t # "star"
        <5>1. n + 1 \in P[m + 1]
          BY <1>1, <3>1, <3>6, <4>3, PlacesOfToken
        <5>2. n + 1 + Q <= N + 1
          BY <3>5, <5>1
        <5>. QED
          BY <1>2, <3>4, <4>1, <4>3, <5>2
      <4>. QED
        BY <4>2, <4>3
    <3>. QED
      BY <1>3, <3>3, <3>6
  <2>. QED
    BY <2>1, <2>2
<1>6. FromTheEnd(L + 1, 1 .. L + 1, S)
  BY <1>2, <1>5 DEF FromTheEnd
<1>7. 1 .. L + 1 \subseteq S
  BY <1>6, EndInduction
<1>8. ASSUME NEW m \in 1 .. L + 1, NEW n \in P[m] PROVE n \in Nat /\ n + Needs(msk, m) <= N + 1
  BY <1>3, <1>4, <1>7, <1>8
<1>. QED
  BY <1>1, <1>8

\* What joker() counts is a number: no set is infinite.
LEMMA RestLengthIs ==
  ASSUME NEW msk \in Masks, NEW j \in 1 .. Len(msk) + 1
  PROVE  RestLength(msk, j) \in Nat
<1>1. PICK D, C : D = j .. Len(msk) /\ C = [i \in D |-> {i} \X (1 .. Counted(msk, j, i))]
  OBVIOUS
<1>2. Len(msk) \in Nat /\ j \in Nat
  BY DEF Masks
<1>3. IsFiniteSet(D)
  BY <1>1, <1>2, FS_Interval
<1>4. ASSUME NEW i \in D PROVE IsFiniteSet(C[i])
  <2>1. i \in 1 .. Len(msk) /\ i \in Nat
    BY <1>1, <1>2
  <2>2. msk[i] \in Tokens
    BY <2>1 DEF Masks
  <2>3. msk[i].t \in SetTokens => WrittenLength(msk[i]) \in Nat
    <3>1. HAVE msk[i].t \in SetTokens
    <3>2. msk[i] \in Wild
      BY <2>2, <3>1 DEF Tokens, CharToken, Token, SetTokens
    <3>3. IsFiniteSet(msk[i].cs)
      BY <3>2, WildAssumption
    <3>4. Cardinality(msk[i].cs \ {Backslash}) \in Nat
      BY <3>3, FS_Subset, FS_CardinalityType
    <3>5. [set |-> 2, negated |-> 3, malformed |-> 5][msk[i].t] \in Nat
      BY <3>1 DEF SetTokens
    <3>. QED
      BY <3>4, <3>5 DEF WrittenLength
  <2>4. Counted(msk, j, i) \in Nat
    BY <2>3 DEF Counted
  <2>5. IsFiniteSet({i}) /\ IsFiniteSet(1 .. Counted(msk, j, i))
    <3>1. PICK k \in Nat : k = Counted(msk, j, i)
      BY <2>4
    <3>2. IsFiniteSet(1 .. k)
      BY FS_Interval
    <3>. QED
      BY <3>1, <3>2, FS_Singleton
  <2>6. IsFiniteSet({i} \X (1 .. Counted(msk, j, i)))
    BY <2>5, FS_Product
  <2>. QED
    BY <1>1, <2>6
<1>5. PICK R : R = {C[i] : i \in D}
  OBVIOUS
<1>6. IsFiniteSet(R)
  <2>1. C \in Surjection(D, R)
    BY <1>1, <1>5 DEF Surjection
  <2>. QED
    BY <1>3, <2>1, FS_Surjection
<1>7. IsFiniteSet(UNION R)
  BY <1>4, <1>5, <1>6, FS_UNION
<1>8. RestLength(msk, j) = Cardinality(UNION R)
  <2>1. R = {{i} \X (1 .. Counted(msk, j, i)) : i \in j .. Len(msk)}
    BY <1>1, <1>5
  <2>. QED
    BY <2>1 DEF RestLength
<1>. QED
  BY <1>7, <1>8, FS_CardinalityType

\* joker() does not keep back more characters than the rest of the mask needs.
LEMMA NotTooManyKept ==
  ASSUME NEW msk \in Masks, Countable(msk), NEW j \in 1 .. Len(msk) + 1
  PROVE  RestLength(msk, j) <= Needs(msk, j)
<1>1. PICK T, U : T = {i \in j .. Len(msk) : msk[i].t # "star"}
                  /\ U = UNION {{i} \X (1 .. Counted(msk, j, i)) : i \in j .. Len(msk)}
  OBVIOUS
<1>2. Len(msk) \in Nat /\ j \in Nat
  BY DEF Masks
<1>3. ASSUME NEW i \in j .. Len(msk)
      PROVE  Counted(msk, j, i) \in {0, 1} /\ (msk[i].t = "star" => Counted(msk, j, i) = 0)
  <2>1. i \in 1 .. Len(msk) /\ (i > j => i \in 2 .. Len(msk))
    BY <1>2
  <2>2. ASSUME i > j, msk[i - 1] = CharToken(Backslash) PROVE msk[i].t \notin SetTokens \cup {"star"}
    BY <2>1, <2>2 DEF Countable
  <2>. QED
    BY <2>2 DEF Counted
<1>4. U \subseteq T \X {1}
  <2>1. ASSUME NEW x \in U PROVE x \in T \X {1}
    <3>1. PICK i \in j .. Len(msk) : x \in {i} \X (1 .. Counted(msk, j, i))
      BY <1>1
    <3>2. PICK y \in 1 .. Counted(msk, j, i) : x = <<i, y>>
      BY <3>1
    <3>3. y = 1 /\ msk[i].t # "star"
      BY <1>3
    <3>. QED
      BY <1>1, <3>2, <3>3
  <2>. QED
    BY <2>1
<1>5. IsFiniteSet(T) /\ Cardinality(T) \in Nat
  <2>1. IsFiniteSet(j .. Len(msk))
    BY <1>2, FS_Interval
  <2>2. T \subseteq j .. Len(msk)
    BY <1>1
  <2>. QED
    BY <2>1, <2>2, FS_Subset, FS_CardinalityType
<1>6. IsFiniteSet({1}) /\ Cardinality({1}) = 1
  BY FS_Singleton
<1>7. IsFiniteSet(T \X {1}) /\ Cardinality(T \X {1}) = Cardinality(T) * 1
  BY <1>5, <1>6, FS_Product
<1>8. Cardinality(U) <= Cardinality(T \X {1})
  BY <1>4, <1>7, FS_Subset
<1>. QED
  BY <1>1, <1>5, <1>7, <1>8 DEF RestLength, Needs

\* The tokens "?" and "*" in a row take at least as many characters as there are "?".
LEMMA RowOfJokers ==
  ASSUME NEW nam \in Names, NEW msk \in Masks, NEW j \in 1 .. Len(msk) + 1,
         NEW m \in 1 .. j, \A i \in m .. j - 1 : msk[i].t \in Jokers
  PROVE  \A k \in m .. j : \A n \in Nat :
            n > 0 => ((\E i \in Places(nam, msk)[k] : n <= i) <=>
                      \E i \in Places(nam, msk)[j] : n + Anys(msk, k, j - 1) <= i)
<1>1. PICK L, N, P, b : L = Len(msk) /\ N = Len(nam) /\ P = Places(nam, msk) /\ b = j - 1
  OBVIOUS
<1>2. L \in Nat /\ N \in Nat /\ j \in Nat /\ m \in Nat /\ m > 0 /\ b \in Nat /\ b + 1 = j /\ j <= L + 1
  BY <1>1 DEF Names, Masks
<1>. DEFINE Same(k, n) == (\E i \in P[k] : n <= i) <=> \E i \in P[j] : n + Anys(msk, k, b) <= i
<1>3. PICK S : S = {k \in 1 .. j : k >= m => \A n \in Nat : n > 0 => Same(k, n)}
  OBVIOUS
<1>4. \A k \in 1 .. L + 1 : P[k] \subseteq 1 .. N + 1
  BY <1>1, PlacesAre
<1>5. ASSUME NEW k \in 1 .. j, \A i \in 1 .. j : k < i => i \in S PROVE k \in S
  <2>0. SUFFICES ASSUME k >= m, NEW n \in Nat, n > 0 PROVE Same(k, n)
    BY <1>3
  <2>1. CASE k = j
    <3>1. Anys(msk, k, b) = 0
      BY <1>2, <2>1, CountAnys
    <3>. QED
      BY <2>0, <2>1, <3>1
  <2>2. CASE k # j
    <3>1. k \in 1 .. L /\ k + 1 \in 1 .. j /\ k + 1 \in 1 .. L + 1 /\ k \in m .. j - 1 /\ k <= b /\ k \in Nat
      BY <1>2, <2>0, <2>2
    <3>2. k + 1 \in S /\ k + 1 >= m
      BY <1>2, <1>5, <2>0, <3>1
    <3>3. PICK A, C : A = Anys(msk, k, b) /\ C = Anys(msk, k + 1, b)
      OBVIOUS
    <3>4. C \in Nat /\ (msk[k].t = "any" => A = C + 1) /\ (msk[k].t # "any" => A = C)
      <4>1. k \in Nat /\ k + 1 \in Nat /\ b \in Nat /\ k <= b
        BY <1>2, <3>1
      <4>2. /\ msk[k].t = "any" => Anys(msk, k, b) = Anys(msk, k + 1, b) + 1
            /\ msk[k].t # "any" => Anys(msk, k, b) = Anys(msk, k + 1, b)
        BY <4>1, CountAnys
      <4>3. Anys(msk, k + 1, b) \in Nat
        BY <4>1, CountAnys
      <4>. QED
        BY <3>3, <4>2, <4>3
    <3>5. \A x \in Nat : x > 0 => ((\E i \in P[k + 1] : x <= i) <=> \E i \in P[j] : x + C <= i)
      BY <1>3, <3>2, <3>3
    <3>6. msk[k].t \in Jokers
      BY <3>1
    <3>7. CASE msk[k].t = "star"
      <4>1. \A x : x \in P[k] <=> x \in 1 .. N + 1 /\ \E i \in P[k + 1] : x <= i
        BY <1>1, <3>1, <3>7, PlacesOfToken
      <4>2. (\E i \in P[k] : n <= i) <=> \E i \in P[k + 1] : n <= i
        BY <1>2, <1>4, <2>0, <3>1, <4>1
      <4>. QED
        BY <2>0, <3>3, <3>4, <3>5, <3>7, <4>2
    <3>8. CASE msk[k].t = "any"
      <4>1. \A x : x \in P[k] <=> x \in 1 .. N /\ x + 1 \in P[k + 1]
        BY <1>1, <3>1, <3>8, PlacesOfToken DEF Stands
      <4>2. (\E i \in P[k] : n <= i) <=> \E i \in P[k + 1] : n + 1 <= i
        <5>1. ASSUME NEW i \in P[k], n <= i PROVE \E x \in P[k + 1] : n + 1 <= x
          <6>1. i \in 1 .. N /\ i + 1 \in P[k + 1] /\ n + 1 <= i + 1
            BY <1>2, <2>0, <4>1, <5>1
          <6>. QED
            BY <6>1
        <5>2. ASSUME NEW i \in P[k + 1], n + 1 <= i PROVE \E x \in P[k] : n <= x
          <6>1. i - 1 \in 1 .. N /\ i - 1 + 1 = i /\ n <= i - 1
            BY <1>2, <1>4, <2>0, <3>1, <5>2
          <6>. QED
            BY <4>1, <6>1
        <5>. QED
          BY <5>1, <5>2
      <4>3. n + 1 \in Nat /\ n + 1 > 0 /\ n + 1 + C = n + A
        <5>1. C \in Nat /\ A = C + 1
          BY <3>4, <3>8
        <5>. QED
          BY <2>0, <5>1
      <4>. QED
        BY <3>3, <3>5, <4>2, <4>3
    <3>. QED
      BY <3>6, <3>7, <3>8 DEF Jokers
  <2>. QED
    BY <2>1, <2>2
<1>6. FromTheEnd(j, 1 .. j, S)
  BY <1>2, <1>5 DEF FromTheEnd
<1>7. 1 .. j \subseteq S
  BY <1>6, EndInduction
<1>8. ASSUME NEW k \in m .. j, NEW n \in Nat, n > 0 PROVE Same(k, n)
  <2>1. k \in 1 .. j /\ k >= m
    BY <1>2
  <2>. QED
    BY <1>3, <1>7, <1>8, <2>1
<1>. QED
  BY <1>1, <1>8

\* One place that joker() tries.
Tried(nam, msk, f, j, i) ==
    IF msk[j].t = "char"
    THEN IF nam[i] \in msk[j].cs THEN f[j + 1][i + 1] ELSE "NO"
    ELSE LET r == SetResult(msk[j], nam[i]) IN
         CASE r = "NO"  -> r
           [] r = "BAD" -> r
           [] r = "YES" -> IF msk[j].t = "set" THEN f[j + 1][i + 1] ELSE f[j][i]

\* joker() by the places it tries.
LEMMA JokerIs ==
  ASSUME NEW nam \in Names, NEW msk \in Masks, NEW m \in 1 .. Len(msk), NEW n \in Nat, NEW f,
         NEW j, j = AfterJokers(msk, m), NEW n1, n1 = n + Skipped(msk, m),
         NEW hi, hi = Len(nam) - RestLength(msk, j) + 1
  PROVE  joker(nam, msk, f, n, m) =
            IF n1 > Len(nam) + 1 THEN "NO"
            ELSE IF j > Len(msk) THEN "YES"
            ELSE IF n1 > Len(nam) THEN "NO"
            ELSE IF RestLength(msk, j) = 0 THEN "BAD"
            ELSE FirstAnswer([i \in n1 .. hi |-> Tried(nam, msk, f, j, i)], n1, hi)
<1>1. [i \in n1 .. hi |->
         IF msk[j].t = "char"
         THEN IF nam[i] \in msk[j].cs THEN f[j + 1][i + 1] ELSE "NO"
         ELSE LET r == SetResult(msk[j], nam[i]) IN
              CASE r = "NO"  -> r
                [] r = "BAD" -> r
                [] r = "YES" -> IF msk[j].t = "set" THEN f[j + 1][i + 1] ELSE f[j][i]]
      = [i \in n1 .. hi |-> Tried(nam, msk, f, j, i)]
  BY DEF Tried
<1>. QED
  BY <1>1 DEF joker

\* Where joker() tries, and how far the mask is then.
JokerTries(nam, msk, m, n, j, n1, hi) ==
    /\ n \in Nat /\ n > 0 /\ j = AfterJokers(msk, m) /\ n1 = n + Skipped(msk, m)
    /\ hi = Len(nam) - RestLength(msk, j) + 1

\* They are places of the name, behind the characters that "?" stands for.
LEMMA JokerPlaces ==
  ASSUME NEW nam \in Names, NEW msk \in Masks, NEW m \in 1 .. Len(msk), NEW n, NEW j, NEW n1,
         NEW hi, JokerTries(nam, msk, m, n, j, n1, hi)
  PROVE  /\ j \in m + 1 .. Len(msk) + 1 /\ n1 \in Nat /\ n1 > 0 /\ hi \in Int
         /\ Skipped(msk, m) = Anys(msk, m + 1, j - 1)
         /\ j <= Len(msk) => msk[j].t \notin Jokers
         /\ RestLength(msk, j) # 0 => n1 .. hi \subseteq 1 .. Len(nam)
<1>0. /\ n \in Nat /\ n > 0 /\ j = AfterJokers(msk, m) /\ n1 = n + Skipped(msk, m)
      /\ hi = Len(nam) - RestLength(msk, j) + 1
  BY DEF JokerTries
<1>1. PICK L, N, R : L = Len(msk) /\ N = Len(nam) /\ R = RestLength(msk, j)
  OBVIOUS
<1>2. L \in Nat /\ N \in Nat /\ m \in Nat
  BY <1>1 DEF Names, Masks
<1>3. j \in m + 1 .. L + 1 /\ (j <= L => msk[j].t \notin Jokers)
  BY <1>0, <1>1, AfterJokersIs
<1>4. Skipped(msk, m) = Anys(msk, m + 1, j - 1)
  <2>1. j - 1 = AfterJokers(msk, m) - 1
    BY <1>0
  <2>. QED
    BY <2>1 DEF Skipped, Anys
<1>5. m + 1 \in Nat /\ j - 1 \in Nat /\ j \in 1 .. L + 1
  BY <1>2, <1>3
<1>6. Skipped(msk, m) \in Nat
  BY <1>4, <1>5, CountAnys
<1>7. R \in Nat
  BY <1>1, <1>5, RestLengthIs
<1>8. ASSUME R # 0 PROVE n1 .. hi \subseteq 1 .. N
  <2>1. R >= 1 /\ hi = N - R + 1
    BY <1>0, <1>1, <1>7, <1>8
  <2>. QED
    BY <1>0, <1>2, <1>6, <1>7, <2>1
<1>9. n1 \in Nat /\ n1 > 0 /\ hi \in Int
  BY <1>0, <1>1, <1>2, <1>6, <1>7
<1>. QED
  BY <1>1, <1>3, <1>4, <1>8, <1>9

\* The first answer other than "NO" is one of the answers.
LEMMA FirstAnswerIs ==
  ASSUME NEW lo \in Nat, NEW hi \in Int, NEW f, NEW a, a = FirstAnswer(f, lo, hi)
  PROVE  \/ a = "NO" /\ \A i \in lo .. hi : f[i] = "NO"
         \/ \E i \in lo .. hi : a = f[i] /\ f[i] # "NO"
<1>1. PICK some : some = {i \in lo .. hi : f[i] # "NO"}
  OBVIOUS
<1>2. CASE some = {}
  BY <1>1, <1>2 DEF FirstAnswer
<1>3. CASE some # {}
  <2>1. PICK S : S = {hi - i : i \in some}
    OBVIOUS
  <2>2. S \subseteq Nat /\ S # {}
    BY <1>1, <1>3, <2>1
  <2>3. PICK d \in S : \A y \in S : d <= y
    BY <2>2, MinOfSet
  <2>4. PICK i \in some : d = hi - i
    BY <2>1, <2>3
  <2>5. \A j \in some : j <= i
    <3>1. TAKE j \in some
    <3>2. hi - i <= hi - j
      BY <2>1, <2>3, <2>4
    <3>3. i \in Int /\ j \in Int
      BY <1>1
    <3>. QED
      BY <3>2, <3>3
  <2>6. PICK k : k = CHOOSE x \in some : \A j \in some : j <= x
    OBVIOUS
  <2>7. k \in some
    BY <2>5, <2>6, Zenon
  <2>8. a = f[k]
    BY <1>1, <1>3, <2>6 DEF FirstAnswer
  <2>. QED
    BY <1>1, <2>7, <2>8
<1>. QED
  BY <1>2, <1>3

\* An answer is right: a "YES" always, a "NO" if joker() counts right.
Means(msk, a, isGlob) == (a = "YES" => isGlob) /\ (a = "NO" /\ Countable(msk) => ~ isGlob)

\* The answers of a row are right.
Right(nam, msk, f, k) ==
    \A n \in 1 .. Len(nam) + 1 : Means(msk, f[k][n], n \in Places(nam, msk)[k])

\* One place is tried right if the answers of the rest are.
LEMMA TriedIsRight ==
  ASSUME NEW nam \in Names, NEW msk \in Masks, NEW j \in 1 .. Len(msk), NEW i \in 1 .. Len(nam),
         msk[j].t \notin Jokers, NEW f, Right(nam, msk, f, j), Right(nam, msk, f, j + 1)
  PROVE  Means(msk, Tried(nam, msk, f, j, i), i \in Places(nam, msk)[j])
<1>1. PICK N, P, x, c : N = Len(nam) /\ P = Places(nam, msk) /\ x = msk[j] /\ c = nam[i]
  OBVIOUS
<1>2. N \in Nat
  BY <1>1 DEF Names
<1>3. i \in 1 .. N + 1 /\ i + 1 \in 1 .. N + 1
  BY <1>1, <1>2
<1>4. x.t \in {"char", "set", "negated", "malformed"}
  BY <1>1, TokenKinds DEF Kinds, Jokers
<1>5. i \in P[j] <=> Stands(x, c) /\ i + 1 \in P[j + 1]
  BY <1>1, <1>4, PlacesOfToken
<1>6. Means(msk, f[j][i], i \in P[j]) /\ Means(msk, f[j + 1][i + 1], i + 1 \in P[j + 1])
  BY <1>1, <1>3 DEF Right
<1>7. Stands(x, c) <=> IF x.t = "negated" THEN c \notin x.cs ELSE c \in x.cs
  BY <1>4 DEF Stands
<1>8. PICK a : a = Tried(nam, msk, f, j, i)
  OBVIOUS
<1>9. CASE x.t = "char"
  <2>1. a = IF c \in x.cs THEN f[j + 1][i + 1] ELSE "NO"
    BY <1>1, <1>8, <1>9 DEF Tried
  <2>. QED
    BY <1>1, <1>5, <1>6, <1>7, <1>8, <1>9, <2>1 DEF Means
<1>10. CASE x.t = "malformed"
  <2>1. SetResult(x, c) = "BAD"
    BY <1>10 DEF SetResult
  <2>2. a = "BAD"
    BY <1>1, <1>8, <1>10, <2>1 DEF Tried
  <2>. QED
    BY <1>1, <1>8, <2>2 DEF Means
<1>11. CASE x.t = "set"
  <2>1. SetResult(x, c) = IF c \in x.cs THEN "YES" ELSE "NO"
    BY <1>11 DEF SetResult
  <2>2. a = IF c \in x.cs THEN f[j + 1][i + 1] ELSE "NO"
    BY <1>1, <1>8, <1>11, <2>1 DEF Tried
  <2>. QED
    BY <1>1, <1>5, <1>6, <1>7, <1>8, <1>11, <2>2 DEF Means
<1>12. CASE x.t = "negated"
  <2>1. SetResult(x, c) = IF c \in x.cs THEN "NO" ELSE "YES"
    BY <1>12 DEF SetResult
  <2>2. a = IF c \in x.cs THEN "NO" ELSE f[j][i]
    BY <1>1, <1>8, <1>12, <2>1 DEF Tried
  <2>. QED
    BY <1>1, <1>5, <1>6, <1>7, <1>8, <1>12, <2>2 DEF Means
<1>. QED
  BY <1>4, <1>9, <1>10, <1>11, <1>12

\* joker() is right if the rest of the mask is: it leaves out no place that leaves
\* enough characters, and those that do not cannot match.
LEMMA JokerIsRight ==
  ASSUME NEW nam \in Names, NEW msk \in Masks, NEW m \in 1 .. Len(msk),
         NEW n \in 1 .. Len(nam) + 1, msk[m].t = "star",
         NEW f, \A k \in m + 1 .. Len(msk) + 1 : Right(nam, msk, f, k),
         NEW a, a = joker(nam, msk, f, n, m)
  PROVE  Means(msk, a, n \in Places(nam, msk)[m])
<1>1. PICK L, N, P : L = Len(msk) /\ N = Len(nam) /\ P = Places(nam, msk)
  OBVIOUS
<1>2. L \in Nat /\ N \in Nat /\ m \in Nat /\ n \in Nat /\ n > 0
  BY <1>1 DEF Names, Masks
<1>3. PICK j, n1, hi : j = AfterJokers(msk, m) /\ n1 = n + Skipped(msk, m)
                       /\ hi = N - RestLength(msk, j) + 1
  OBVIOUS
<1>4. /\ j \in m + 1 .. L + 1 /\ n1 \in Nat /\ n1 > 0 /\ hi \in Int
      /\ Skipped(msk, m) = Anys(msk, m + 1, j - 1)
      /\ j <= L => msk[j].t \notin Jokers
      /\ RestLength(msk, j) # 0 => n1 .. hi \subseteq 1 .. N
  <2>1. JokerTries(nam, msk, m, n, j, n1, hi)
    BY <1>1, <1>2, <1>3 DEF JokerTries
  <2>2. /\ j \in m + 1 .. Len(msk) + 1 /\ n1 \in Nat /\ n1 > 0 /\ hi \in Int
        /\ Skipped(msk, m) = Anys(msk, m + 1, j - 1)
        /\ j <= Len(msk) => msk[j].t \notin Jokers
        /\ RestLength(msk, j) # 0 => n1 .. hi \subseteq 1 .. Len(nam)
    BY <2>1, JokerPlaces
  <2>. QED
    BY <1>1, <2>2
<1>4a. j \in Nat /\ j <= L + 1 /\ n1 \in Nat /\ hi \in Int
  BY <1>2, <1>4
<1>4b. hi = N - RestLength(msk, j) + 1
  BY <1>3
<1>5. j \in 1 .. L + 1 /\ m + 1 \in 1 .. j /\ m + 1 \in m + 1 .. j
  BY <1>2, <1>4
<1>6. \A i \in m + 1 .. j - 1 : msk[i].t \in Jokers
  BY <1>3, AfterJokersIs
<1>7. n \in P[m] <=> \E i \in P[m + 1] : n <= i
  BY <1>1, PlacesOfToken
<1>8. (\E i \in P[m + 1] : n <= i) <=> \E i \in P[j] : n1 <= i
  BY <1>1, <1>2, <1>3, <1>4, <1>5, <1>6, RowOfJokers
<1>9. P[j] \subseteq 1 .. N + 1
  BY <1>1, <1>5, PlacesAre
<1>10. a = IF n1 > N + 1 THEN "NO"
           ELSE IF j > L THEN "YES"
           ELSE IF n1 > N THEN "NO"
           ELSE IF RestLength(msk, j) = 0 THEN "BAD"
           ELSE FirstAnswer([i \in n1 .. hi |-> Tried(nam, msk, f, j, i)], n1, hi)
  BY <1>1, <1>2, <1>3, JokerIs
<1>11. CASE n1 > N + 1
  BY <1>1, <1>2, <1>4a, <1>7, <1>8, <1>9, <1>10, <1>11 DEF Means
<1>12. CASE n1 <= N + 1 /\ j > L
  <2>1. j = L + 1
    BY <1>2, <1>4a, <1>12
  <2>2. P[j] = {N + 1}
    BY <1>1, <2>1, PlacesOfEnd
  <2>. QED
    BY <1>1, <1>2, <1>4a, <1>7, <1>8, <1>10, <1>12, <2>2 DEF Means
<1>13. ASSUME j <= L PROVE j \in 1 .. L /\ \A i \in P[j] : i \in 1 .. N
  <2>1. j \in 1 .. L
    BY <1>2, <1>5, <1>13
  <2>2. msk[j].t # "star"
    BY <1>4, <1>13 DEF Jokers
  <2>. QED
    BY <1>1, <2>1, <2>2, PlacesOfToken
<1>14. CASE n1 <= N + 1 /\ j <= L /\ n1 > N
  BY <1>1, <1>2, <1>4a, <1>7, <1>8, <1>10, <1>13, <1>14 DEF Means
<1>16. CASE n1 <= N + 1 /\ j <= L /\ n1 <= N /\ RestLength(msk, j) = 0
  <2>1. a = "BAD"
    BY <1>2, <1>4a, <1>10, <1>16
  <2>. QED
    BY <2>1 DEF Means
<1>15. CASE n1 <= N + 1 /\ j <= L /\ n1 <= N /\ RestLength(msk, j) # 0
  <2>1. PICK F : F = [i \in n1 .. hi |-> Tried(nam, msk, f, j, i)]
    OBVIOUS
  <2>2. a = FirstAnswer(F, n1, hi)
    BY <1>2, <1>4, <1>10, <1>15, <2>1
  <2>3. /\ j \in m + 1 .. Len(msk) + 1 /\ j + 1 \in m + 1 .. Len(msk) + 1
    BY <1>1, <1>2, <1>4, <1>15
  <2>4. Right(nam, msk, f, j) /\ Right(nam, msk, f, j + 1)
    BY <2>3
  <2>5. \A i \in n1 .. hi : Means(msk, F[i], i \in P[j])
    <3>1. TAKE i \in n1 .. hi
    <3>2. i \in 1 .. Len(nam) /\ j \in 1 .. Len(msk) /\ msk[j].t \notin Jokers
      BY <1>1, <1>4, <1>13, <1>15
    <3>3. F[i] = Tried(nam, msk, f, j, i)
      BY <2>1
    <3>. QED
      BY <1>1, <2>4, <3>2, <3>3, TriedIsRight
  <2>6. \/ a = "NO" /\ \A i \in n1 .. hi : F[i] = "NO"
        \/ \E i \in n1 .. hi : a = F[i] /\ F[i] # "NO"
    BY <1>4a, <2>2, FirstAnswerIs
  <2>7. ASSUME a = "YES" PROVE \E i \in P[j] : n1 <= i
    BY <1>4a, <2>5, <2>6, <2>7 DEF Means
  <2>8. ASSUME NEW i \in P[j], n1 <= i, Countable(msk) PROVE a # "NO"
    <3>1. i \in 1 .. N
      BY <1>13, <1>15
    <3>2. PICK R, Q : R = RestLength(msk, j) /\ Q = Needs(msk, j)
      OBVIOUS
    <3>3. i + Q <= N + 1
      BY <1>1, <1>5, <3>2, RestFits
    <3>4. R \in Nat /\ Q \in Nat /\ R <= Q
      BY <1>1, <1>5, <2>8, <3>2, RestLengthIs, NeedsAre, NotTooManyKept
    <3>5. i \in n1 .. hi
      BY <1>2, <1>4a, <1>4b, <2>8, <3>1, <3>2, <3>3, <3>4
    <3>6. F[i] # "NO"
      BY <2>5, <2>8, <3>5 DEF Means
    <3>. QED
      BY <2>6, <3>5, <3>6
  <2>. QED
    BY <1>1, <1>7, <1>8, <2>7, <2>8 DEF Means
<1>. QED
  BY <1>2, <1>4a, <1>11, <1>12, <1>14, <1>15, <1>16

\* So is m_loop().
LEMMA LoopIsRight ==
  ASSUME NEW nam \in Names, NEW msk \in Masks, NEW m \in 1 .. Len(msk) + 1,
         NEW n \in 1 .. Len(nam) + 1,
         NEW f, \A k \in m + 1 .. Len(msk) + 1 : Right(nam, msk, f, k),
         NEW a, a = m_loop(nam, msk, f, n, m)
  PROVE  Means(msk, a, n \in Places(nam, msk)[m])
<1>1. PICK L, N, P : L = Len(msk) /\ N = Len(nam) /\ P = Places(nam, msk)
  OBVIOUS
<1>2. L \in Nat /\ N \in Nat /\ m \in Nat /\ n \in Nat /\ n > 0
  BY <1>1 DEF Names, Masks
<1>3. CASE m > L
  <2>1. m = L + 1
    BY <1>1, <1>2, <1>3
  <2>2. P[m] = {N + 1}
    BY <1>1, <2>1, PlacesOfEnd
  <2>3. n > N <=> n = N + 1
    BY <1>1, <1>2
  <2>4. a = IF n > N THEN "YES" ELSE "NO"
    BY <1>1, <1>2, <1>3 DEF m_loop
  <2>. QED
    BY <1>1, <2>2, <2>3, <2>4 DEF Means
<1>4. CASE m <= L /\ msk[m].t = "star"
  <2>1. a = joker(nam, msk, f, n, m)
    BY <1>1, <1>2, <1>4 DEF m_loop
  <2>2. m \in 1 .. Len(msk)
    BY <1>1, <1>2, <1>4
  <2>. QED
    BY <1>1, <1>4, <2>1, <2>2, JokerIsRight
<1>5. CASE m <= L /\ msk[m].t # "star"
  <2>1. m \in 1 .. Len(msk) /\ m + 1 \in m + 1 .. Len(msk) + 1
    BY <1>1, <1>2, <1>5
  <2>2. n \in P[m] <=> n \in 1 .. N /\ Stands(msk[m], nam[n]) /\ n + 1 \in P[m + 1]
    BY <1>1, <1>5, <2>1, PlacesOfToken
  <2>3. CASE n > N
    <3>1. a = "NO"
      BY <1>1, <1>2, <1>5, <2>3 DEF m_loop
    <3>. QED
      BY <1>1, <1>2, <2>2, <2>3, <3>1 DEF Means
  <2>4. CASE n <= N
    <3>1. PICK x, c : x = msk[m] /\ c = nam[n]
      OBVIOUS
    <3>2. x.t \in Kinds
      BY <2>1, <3>1, TokenKinds
    <3>3. n \in 1 .. N /\ n + 1 \in 1 .. N + 1
      BY <1>2, <2>4
    <3>4. Means(msk, f[m + 1][n + 1], n + 1 \in P[m + 1])
      BY <1>1, <2>1, <3>3 DEF Right
    <3>5. a = CASE x.t = "star" -> joker(nam, msk, f, n, m)
                [] x.t = "any"  -> f[m + 1][n + 1]
                [] x.t = "char" -> IF c \in x.cs THEN f[m + 1][n + 1] ELSE "NO"
                [] x.t = "set"  -> IF SetResult(x, c) = "YES" THEN f[m + 1][n + 1] ELSE "NO"
                [] OTHER        -> IF SetResult(x, c) # "NO" THEN "LOOPS" ELSE "NO"
      BY <1>1, <1>2, <1>5, <2>4, <3>1 DEF m_loop
    <3>6. CASE x.t = "any"
      <4>1. a = f[m + 1][n + 1] /\ Stands(x, c)
        BY <3>5, <3>6 DEF Stands
      <4>. QED
        BY <1>1, <2>2, <3>1, <3>3, <3>4, <4>1 DEF Means
    <3>7. CASE x.t \in {"char", "set"}
      <4>1. a = IF c \in x.cs THEN f[m + 1][n + 1] ELSE "NO"
        BY <3>5, <3>7 DEF SetResult
      <4>2. Stands(x, c) <=> c \in x.cs
        BY <3>7 DEF Stands
      <4>. QED
        BY <1>1, <2>2, <3>1, <3>3, <3>4, <4>1, <4>2 DEF Means
    <3>8. CASE x.t = "malformed"
      <4>1. a = "LOOPS"
        BY <3>5, <3>8 DEF SetResult
      <4>. QED
        BY <4>1 DEF Means
    <3>9. CASE x.t = "negated"
      <4>1. a = IF c \in x.cs THEN "NO" ELSE "LOOPS"
        BY <3>5, <3>9 DEF SetResult
      <4>2. Stands(x, c) <=> c \notin x.cs
        BY <3>9 DEF Stands
      <4>. QED
        BY <1>1, <2>2, <3>1, <4>1, <4>2 DEF Means
    <3>. QED
      BY <1>5, <3>1, <3>2, <3>6, <3>7, <3>8, <3>9 DEF Kinds
  <2>. QED
    BY <1>2, <2>3, <2>4
<1>. QED
  BY <1>2, <1>3, <1>4, <1>5

\* What m_loop() answers at a place depends on the rest of the mask only, and is
\* an answer if the answers of the rest are.
Rows(nam) == [1 .. Len(nam) + 1 -> Answer]

\* Trying a place looks at the rest of the mask only.
LEMMA TriedLooksOn ==
  ASSUME NEW nam \in Names, NEW msk \in Masks, NEW j \in 1 .. Len(msk), NEW i \in 1 .. Len(nam),
         msk[j].t \notin Jokers, NEW f, NEW g
  PROVE  /\ f[j] = g[j] /\ f[j + 1] = g[j + 1] => Tried(nam, msk, f, j, i) = Tried(nam, msk, g, j, i)
         /\ f[j] \in Rows(nam) /\ f[j + 1] \in Rows(nam) => Tried(nam, msk, f, j, i) \in Answer
<1>1. msk[j].t \in {"char", "set", "negated", "malformed"}
  BY TokenKinds DEF Kinds, Jokers
<1>2. Len(nam) \in Nat
  BY DEF Names
<1>3. i \in 1 .. Len(nam) + 1 /\ i + 1 \in 1 .. Len(nam) + 1
  BY <1>2
<1>4. msk[j].t # "char" => SetResult(msk[j], nam[i]) \in {"YES", "NO", "BAD"}
  BY <1>1 DEF SetResult
<1>5. ASSUME f[j] = g[j], f[j + 1] = g[j + 1]
      PROVE  Tried(nam, msk, f, j, i) = Tried(nam, msk, g, j, i)
  BY <1>5 DEF Tried
<1>6. ASSUME f[j] \in Rows(nam), f[j + 1] \in Rows(nam) PROVE Tried(nam, msk, f, j, i) \in Answer
  <2>1. f[j][i] \in Answer /\ f[j + 1][i + 1] \in Answer
    BY <1>3, <1>6 DEF Rows
  <2>. QED
    BY <1>4, <2>1 DEF Tried, Answer
<1>. QED
  BY <1>5, <1>6

\* So does joker().
LEMMA JokerLooksOn ==
  ASSUME NEW nam \in Names, NEW msk \in Masks, NEW m \in 1 .. Len(msk),
         NEW n \in 1 .. Len(nam) + 1, NEW f, NEW g
  PROVE  /\ (\A k \in m + 1 .. Len(msk) + 1 : f[k] = g[k]) =>
               joker(nam, msk, f, n, m) = joker(nam, msk, g, n, m)
         /\ (\A k \in m + 1 .. Len(msk) + 1 : f[k] \in Rows(nam)) =>
               joker(nam, msk, f, n, m) \in Answer
<1>1. PICK L, N : L = Len(msk) /\ N = Len(nam)
  OBVIOUS
<1>2. L \in Nat /\ N \in Nat /\ m \in Nat /\ n \in Nat /\ n > 0
  BY <1>1 DEF Names, Masks
<1>3. PICK j, n1, hi : j = AfterJokers(msk, m) /\ n1 = n + Skipped(msk, m)
                       /\ hi = Len(nam) - RestLength(msk, j) + 1
  OBVIOUS
<1>4. /\ j \in m + 1 .. Len(msk) + 1 /\ n1 \in Nat /\ n1 > 0 /\ hi \in Int
      /\ Skipped(msk, m) = Anys(msk, m + 1, j - 1)
      /\ j <= Len(msk) => msk[j].t \notin Jokers
      /\ RestLength(msk, j) # 0 => n1 .. hi \subseteq 1 .. Len(nam)
  <2>1. JokerTries(nam, msk, m, n, j, n1, hi)
    BY <1>2, <1>3 DEF JokerTries
  <2>. QED
    BY <2>1, JokerPlaces
<1>5. ASSUME NEW h PROVE joker(nam, msk, h, n, m) =
            IF n1 > N + 1 THEN "NO"
            ELSE IF j > L THEN "YES"
            ELSE IF n1 > N THEN "NO"
            ELSE IF RestLength(msk, j) = 0 THEN "BAD"
            ELSE FirstAnswer([i \in n1 .. hi |-> Tried(nam, msk, h, j, i)], n1, hi)
  BY <1>1, <1>2, <1>3, JokerIs
<1>6. CASE j > L
  BY <1>5, <1>6 DEF Answer
<1>8. CASE ~ (j > L) /\ RestLength(msk, j) = 0
  BY <1>5, <1>8 DEF Answer
<1>7. CASE ~ (j > L) /\ RestLength(msk, j) # 0
  <2>1. j \in 1 .. Len(msk) /\ j \in m + 1 .. Len(msk) + 1 /\ j + 1 \in m + 1 .. Len(msk) + 1
    BY <1>1, <1>2, <1>4, <1>7
  <2>2. ASSUME NEW i \in n1 .. hi
        PROVE  /\ f[j] = g[j] /\ f[j + 1] = g[j + 1] =>
                     Tried(nam, msk, f, j, i) = Tried(nam, msk, g, j, i)
               /\ f[j] \in Rows(nam) /\ f[j + 1] \in Rows(nam) => Tried(nam, msk, f, j, i) \in Answer
    <3>1. i \in 1 .. Len(nam) /\ msk[j].t \notin Jokers
      BY <1>1, <1>4, <1>7, <2>1
    <3>. QED
      BY <2>1, <3>1, TriedLooksOn
  <2>3. PICK F, G : F = [i \in n1 .. hi |-> Tried(nam, msk, f, j, i)]
                    /\ G = [i \in n1 .. hi |-> Tried(nam, msk, g, j, i)]
    OBVIOUS
  <2>4. /\ joker(nam, msk, f, n, m) = IF n1 > N + 1 THEN "NO" ELSE IF n1 > N THEN "NO"
                                      ELSE FirstAnswer(F, n1, hi)
        /\ joker(nam, msk, g, n, m) = IF n1 > N + 1 THEN "NO" ELSE IF n1 > N THEN "NO"
                                      ELSE FirstAnswer(G, n1, hi)
    BY <1>5, <1>7, <2>3
  <2>5. ASSUME \A k \in m + 1 .. Len(msk) + 1 : f[k] = g[k] PROVE F = G
    <3>1. f[j] = g[j] /\ f[j + 1] = g[j + 1]
      BY <2>1, <2>5
    <3>. QED
      BY <2>2, <2>3, <3>1
  <2>6. ASSUME \A k \in m + 1 .. Len(msk) + 1 : f[k] \in Rows(nam)
        PROVE  FirstAnswer(F, n1, hi) \in Answer
    <3>1. f[j] \in Rows(nam) /\ f[j + 1] \in Rows(nam)
      BY <2>1, <2>6
    <3>2. \A i \in n1 .. hi : F[i] \in Answer
      BY <2>2, <2>3, <3>1
    <3>3. PICK a : a = FirstAnswer(F, n1, hi)
      OBVIOUS
    <3>4. a = "NO" \/ \E i \in n1 .. hi : a = F[i]
      BY <1>4, <3>3, FirstAnswerIs
    <3>. QED
      BY <3>2, <3>3, <3>4 DEF Answer
  <2>7. "NO" \in Answer
    BY DEF Answer
  <2>. QED
    BY <2>4, <2>5, <2>6, <2>7
<1>. QED
  BY <1>6, <1>7, <1>8

\* So does m_loop().
LEMMA LoopLooksOn ==
  ASSUME NEW nam \in Names, NEW msk \in Masks, NEW m \in 1 .. Len(msk) + 1,
         NEW n \in 1 .. Len(nam) + 1, NEW f, NEW g
  PROVE  /\ (\A k \in m + 1 .. Len(msk) + 1 : f[k] = g[k]) =>
               m_loop(nam, msk, f, n, m) = m_loop(nam, msk, g, n, m)
         /\ (\A k \in m + 1 .. Len(msk) + 1 : f[k] \in Rows(nam)) =>
               m_loop(nam, msk, f, n, m) \in Answer
<1>1. PICK L, N : L = Len(msk) /\ N = Len(nam)
  OBVIOUS
<1>2. L \in Nat /\ N \in Nat /\ m \in Nat /\ n \in Nat /\ n > 0
  BY <1>1 DEF Names, Masks
<1>3. CASE m > L
  BY <1>1, <1>2, <1>3 DEF m_loop, Answer
<1>4. CASE m <= L
  <2>1. m \in 1 .. Len(msk) /\ m + 1 \in m + 1 .. Len(msk) + 1
    BY <1>1, <1>2, <1>4
  <2>2. /\ (\A k \in m + 1 .. Len(msk) + 1 : f[k] = g[k]) =>
               joker(nam, msk, f, n, m) = joker(nam, msk, g, n, m)
        /\ (\A k \in m + 1 .. Len(msk) + 1 : f[k] \in Rows(nam)) =>
               joker(nam, msk, f, n, m) \in Answer
    BY <2>1, JokerLooksOn
  <2>3. ASSUME \A k \in m + 1 .. Len(msk) + 1 : f[k] = g[k]
        PROVE  m_loop(nam, msk, f, n, m) = m_loop(nam, msk, g, n, m)
    <3>1. f[m + 1] = g[m + 1] /\ joker(nam, msk, f, n, m) = joker(nam, msk, g, n, m)
      BY <2>1, <2>2, <2>3
    <3>. QED
      BY <3>1 DEF m_loop
  <2>4. ASSUME \A k \in m + 1 .. Len(msk) + 1 : f[k] \in Rows(nam)
        PROVE  m_loop(nam, msk, f, n, m) \in Answer
    <3>1. joker(nam, msk, f, n, m) \in Answer
      BY <2>2, <2>4
    <3>2. f[m + 1] \in Rows(nam)
      BY <2>1, <2>4
    <3>3. n <= N => f[m + 1][n + 1] \in Answer
      BY <1>1, <1>2, <3>2 DEF Rows
    <3>4. "NO" \in Answer /\ "LOOPS" \in Answer /\ "YES" \in Answer
      BY DEF Answer
    <3>. QED
      BY <1>1, <3>1, <3>3, <3>4 DEF m_loop
  <2>. QED
    BY <2>3, <2>4
<1>. QED
  BY <1>2, <1>3, <1>4

\* The answers exist and are computed from the end of the mask on.
LEMMA AnswersAre ==
  ASSUME NEW nam \in Names, NEW msk \in Masks
  PROVE  \A m \in 1 .. Len(msk) + 1 : \A n \in 1 .. Len(nam) + 1 :
            Answers(nam, msk)[m][n] = m_loop(nam, msk, Answers(nam, msk), n, m)
<1>1. PICK L, N : L = Len(msk) /\ N = Len(nam)
  OBVIOUS
<1>2. L \in Nat /\ N \in Nat
  BY <1>1 DEF Names, Masks
<1>3. PICK D, E, X, r : D = 1 .. L + 1 /\ E = 1 .. N + 1 /\ X = Rows(nam) /\ r = Rank(L)
  OBVIOUS
<1>4. L + 1 \in Nat /\ r \in [D -> 0 .. L + 1] /\ \A i, j \in D : i < j <=> r[j] < r[i]
  BY <1>2, <1>3, RankIs
<1>. DEFINE Row(f, m) == [n \in E |-> m_loop(nam, msk, f, n, m)]
<1>5. ASSUME NEW m \in D, NEW f, NEW g, \A k \in D : m < k => f[k] = g[k]
      PROVE  Row(f, m) = Row(g, m)
  <2>1. \A k \in m + 1 .. Len(msk) + 1 : f[k] = g[k]
    <3>1. TAKE k \in m + 1 .. Len(msk) + 1
    <3>2. k \in D /\ m < k
      BY <1>1, <1>2, <1>3
    <3>. QED
      BY <1>5, <3>2
  <2>2. m \in 1 .. Len(msk) + 1 /\ E = 1 .. Len(nam) + 1
    BY <1>1, <1>3
  <2>3. \A n \in E : m_loop(nam, msk, f, n, m) = m_loop(nam, msk, g, n, m)
    BY <2>1, <2>2, LoopLooksOn
  <2>. QED
    BY <2>3
<1>6. ASSUME NEW m \in D, NEW f \in [D -> X] PROVE Row(f, m) \in X
  <2>1. \A k \in m + 1 .. Len(msk) + 1 : f[k] \in Rows(nam)
    <3>1. TAKE k \in m + 1 .. Len(msk) + 1
    <3>2. k \in D
      BY <1>1, <1>2, <1>3
    <3>. QED
      BY <1>3, <1>6, <3>2
  <2>2. m \in 1 .. Len(msk) + 1 /\ E = 1 .. Len(nam) + 1
    BY <1>1, <1>3
  <2>3. \A n \in E : m_loop(nam, msk, f, n, m) \in Answer
    BY <2>1, <2>2, LoopLooksOn
  <2>. QED
    BY <1>3, <2>2, <2>3 DEF Rows
<1>7. PICK B : B = [q \in D \X [D -> X] |-> Row(q[2], q[1])]
  OBVIOUS
<1>8. \A m \in D : \A f \in [D -> X] : B[<<m, f>>] = Row(f, m)
  BY <1>7
<1>9. B \in [D \X [D -> X] -> X]
  <2>. HIDE DEF Row
  <2>. QED
    BY <1>6, <1>7
<1>10. LooksDown(D, X, r, B)
  <2>1. ASSUME NEW m \in D, NEW f \in [D -> X], NEW g \in [D -> X],
               \A j \in D : r[j] < r[m] => f[j] = g[j]
        PROVE  B[<<m, f>>] = B[<<m, g>>]
    <3>1. \A k \in D : m < k => f[k] = g[k]
      BY <1>4, <2>1
    <3>2. Row(f, m) = Row(g, m)
      BY <1>5, <3>1
    <3>. QED
      BY <1>8, <3>2
  <2>. QED
    BY <2>1 DEF LooksDown
<1>11. [n \in 1 .. Len(nam) + 1 |-> "NO"] \in X
  BY <1>3 DEF Rows, Answer
<1>12. PICK f : Recursive(f, D, X, B)
  BY <1>4, <1>9, <1>10, <1>11, RankedRecursion
<1>13. f \in [D -> X] /\ \A m \in D : f[m] = Row(f, m)
  BY <1>8, <1>12 DEF Recursive
<1>. DEFINE Body(g) == [m \in 1 .. Len(msk) + 1 |->
                          [n \in 1 .. Len(nam) + 1 |-> m_loop(nam, msk, g, n, m)]]
<1>14. \A g : Body(g) = [m \in D |-> Row(g, m)]
  BY <1>1, <1>3
<1>15. PICK c : c = CHOOSE g : g = Body(g)
  OBVIOUS
<1>16. Answers(nam, msk) = c
  BY <1>15 DEF Answers
<1>17. f = Body(f)
  <2>. HIDE DEF Body, Row
  <2>. QED
    BY <1>13, <1>14
<1>18. c = Body(c)
  <2>. HIDE DEF Body
  <2>. QED
    BY <1>15, <1>17, Zenon
<1>19. \A m \in D : \A n \in E : c[m][n] = m_loop(nam, msk, c, n, m)
  <2>1. \A m \in D : c[m] = Row(c, m)
    <3>. HIDE DEF Body, Row
    <3>. QED
      BY <1>14, <1>18
  <2>. QED
    BY <2>1
<1>. QED
  BY <1>1, <1>3, <1>16, <1>19

\* Whatever the name and the mask, the answer is right where it is one.
LEMMA AnswersAreRight ==
  ASSUME NEW nam \in Names, NEW msk \in Masks
  PROVE  Means(msk, Answers(nam, msk)[1][1], IsGlob(nam, msk))
<1>1. PICK L, c : L = Len(msk) /\ c = Answers(nam, msk)
  OBVIOUS
<1>2. L \in Nat /\ Len(nam) \in Nat
  BY <1>1 DEF Names, Masks
<1>3. PICK S : S = {m \in 1 .. L + 1 : Right(nam, msk, c, m)}
  OBVIOUS
<1>4. ASSUME NEW m \in 1 .. L + 1, \A j \in 1 .. L + 1 : m < j => j \in S PROVE m \in S
  <2>1. \A k \in m + 1 .. Len(msk) + 1 : Right(nam, msk, c, k)
    <3>1. TAKE k \in m + 1 .. Len(msk) + 1
    <3>2. k \in 1 .. L + 1 /\ m < k
      BY <1>1, <1>2
    <3>. QED
      BY <1>3, <1>4, <3>2
  <2>2. ASSUME NEW n \in 1 .. Len(nam) + 1
        PROVE  Means(msk, c[m][n], n \in Places(nam, msk)[m])
    <3>1. c[m][n] = m_loop(nam, msk, c, n, m)
      BY <1>1, AnswersAre
    <3>. QED
      BY <1>1, <2>1, <2>2, <3>1, LoopIsRight
  <2>3. Right(nam, msk, c, m)
    BY <2>2 DEF Right
  <2>. QED
    BY <1>3, <2>3
<1>5. FromTheEnd(L + 1, 1 .. L + 1, S)
  BY <1>2, <1>4 DEF FromTheEnd
<1>6. 1 .. L + 1 \subseteq S
  BY <1>5, EndInduction
<1>7. 1 \in 1 .. L + 1 /\ 1 \in 1 .. Len(nam) + 1
  BY <1>2
<1>8. Right(nam, msk, c, 1)
  BY <1>3, <1>6, <1>7
<1>. QED
  BY <1>1, <1>7, <1>8 DEF Right, IsGlob

\* The names and masks of the requests are sequences.
LEMMA AreSequences ==
  /\ \A nam \in SeqsUpTo(Chars, MaxName) : nam \in Names
  /\ \A msk \in SeqsUpTo(Tokens, MaxMask) : msk \in Masks
<1>1. ASSUME NEW S, NEW k, NEW s \in SeqsUpTo(S, k) PROVE s \in Seq(S)
  <2>1. PICK i \in 0 .. k : s \in [1 .. i -> S]
    BY DEF SeqsUpTo
  <2>. QED
    BY <2>1
<1>. QED
  BY <1>1 DEF Names, Masks

\* For names and masks of any length, over any characters and sets of them: when
\* KsMask::matches() answers yes, the name matches, and when it answers no, it does
\* not, unless a set or a "*" stands right behind an escaped backslash: elsewhere
\* joker() never keeps back more characters than the rest of the mask needs, and the
\* order in which it tries the places misses none.
THEOREM MasksAreGlobs == MaskSpec => []MatchIsGlob
<1>1. MaskInit => MatchIsGlob
  <2>1. HAVE MaskInit
  <2>2. << >> \in Names /\ << >> \in Masks /\ Len(<< >>) = 0
    BY DEF Names, Masks
  <2>3. Places(<< >>, << >>)[Len(<< >>) + 1] = {Len(<< >>) + 1}
    BY <2>2, PlacesOfEnd
  <2>4. IsGlob(<< >>, << >>)
    BY <2>2, <2>3 DEF IsGlob
  <2>. QED
    BY <2>1, <2>4 DEF MaskInit, MatchIsGlob
<1>2. MatchIsGlob /\ [MaskNext]_maskVars => MatchIsGlob'
  <2>1. SUFFICES ASSUME MatchIsGlob, [MaskNext]_maskVars PROVE MatchIsGlob'
    OBVIOUS
  <2>2. ASSUME NEW nam \in SeqsUpTo(Chars, MaxName), NEW msk \in SeqsUpTo(Tokens, MaxMask),
               matches(nam, msk)
        PROVE  MatchIsGlob'
    <3>1. PICK a : a = Answers(nam, msk)[1][1]
      OBVIOUS
    <3>2. Means(msk, a, IsGlob(nam, msk))
      BY <3>1, AreSequences, AnswersAreRight
    <3>3. maskName' = nam /\ mask' = msk /\ matched' = a
      BY <2>2, <3>1 DEF matches
    <3>. QED
      BY <3>2, <3>3 DEF MatchIsGlob, Means
  <2>3. ASSUME Forget PROVE MatchIsGlob'
    <3>2. maskName' = << >> /\ mask' = << >> /\ matched' = "YES"
      BY <2>3 DEF Forget
    <3>3. << >> \in Names /\ << >> \in Masks /\ Len(<< >>) = 0
      BY DEF Names, Masks
    <3>4. Places(<< >>, << >>)[Len(<< >>) + 1] = {Len(<< >>) + 1}
      BY <3>3, PlacesOfEnd
    <3>5. IsGlob(<< >>, << >>)
      BY <3>3, <3>4 DEF IsGlob
    <3>. QED
      BY <3>2, <3>5 DEF MatchIsGlob
  <2>4. ASSUME UNCHANGED maskVars PROVE MatchIsGlob'
    BY <2>1, <2>4 DEF maskVars, MatchIsGlob
  <2>. QED
    BY <2>1, <2>2, <2>3, <2>4 DEF MaskNext
<1>. QED
  BY <1>1, <1>2, PTL DEF MaskSpec

-----------------------------------------------------------------------------
(* The objects of a server.                                                *)

\* Along the sisters the rank falls.
Falls(n, r) ==
    /\ n \in Nat /\ r \in [Domains -> 0 .. n]
    /\ \A d \in Domains : _next_sister[d] # NoObject => r[_next_sister[d]] < r[d]

ObjectTypeOK ==
    /\ _children \in [Domains -> SUBSET CommObjects]
    /\ _next_sister \in [Domains -> SubDomains \cup {NoObject}]

\* What GetEPIsTrue is not inductive without: the sisters of a domain are not a
\* circle, so that both searches through them come to an end.
ObjectInv == ObjectTypeOK /\ \E n, r : Falls(n, r)

\* A sister is a domain.
LEMMA SisterIsDomain ==
  ASSUME ObjectTypeOK, NEW d \in Domains
  PROVE  _next_sister[d] # NoObject => _next_sister[d] \in Domains
BY DEF ObjectTypeOK, Domains

\* getChildById() at one domain.
ChildStep(f, e, id) ==
    IF Own(e, id) # {} THEN CHOOSE o \in Own(e, id) : TRUE
    ELSE IF _next_sister[e] # NoObject THEN f[_next_sister[e]]
    ELSE NoObject

\* An own child is an object of its identifier.
LEMMA OwnChild ==
  ASSUME ObjectTypeOK, NEW e \in Domains, NEW id, Own(e, id) # {}
  PROVE  LET o == CHOOSE x \in Own(e, id) : TRUE IN o \in CommObjects /\ idOf[o] = id
<1>1. PICK o : o = CHOOSE x \in Own(e, id) : TRUE
  OBVIOUS
<1>2. o \in Own(e, id)
  BY <1>1, Zenon
<1>3. Own(e, id) \subseteq _children[e] /\ idOf[o] = id
  BY <1>2 DEF Own
<1>4. o \in CommObjects
  BY <1>2, <1>3 DEF ObjectTypeOK
<1>. QED
  BY <1>1, <1>3, <1>4

\* It finds an own child, or else what it finds at the sister.
LEMMA ChildIs ==
  ASSUME ObjectInv, NEW id
  PROVE  \A d \in Domains :
            getChildById(d, id) = IF Own(d, id) # {} THEN CHOOSE o \in Own(d, id) : TRUE
                                  ELSE IF _next_sister[d] # NoObject
                                  THEN getChildById(_next_sister[d], id)
                                  ELSE NoObject
<1>1. ObjectTypeOK
  BY DEF ObjectInv
<1>2. PICK n, r : Falls(n, r)
  BY DEF ObjectInv
<1>3. /\ n \in Nat /\ r \in [Domains -> 0 .. n]
      /\ \A d \in Domains : _next_sister[d] # NoObject => r[_next_sister[d]] < r[d]
  BY <1>2 DEF Falls
<1>4. PICK X : X = CommObjects \cup {NoObject}
  OBVIOUS
<1>5. PICK B : B = [q \in Domains \X [Domains -> X] |-> ChildStep(q[2], q[1], id)]
  OBVIOUS
<1>6. \A d \in Domains : \A f \in [Domains -> X] : B[<<d, f>>] = ChildStep(f, d, id)
  BY <1>5
<1>7. ASSUME NEW d \in Domains, NEW f \in [Domains -> X] PROVE ChildStep(f, d, id) \in X
  <2>1. CASE Own(d, id) # {}
    BY <1>1, <1>4, <2>1, OwnChild DEF ChildStep
  <2>2. CASE Own(d, id) = {}
    <3>1. _next_sister[d] # NoObject => f[_next_sister[d]] \in X
      BY <1>1, SisterIsDomain
    <3>. QED
      BY <1>4, <2>2, <3>1 DEF ChildStep
  <2>. QED
    BY <2>1, <2>2
<1>8. B \in [Domains \X [Domains -> X] -> X]
  BY <1>5, <1>7
<1>9. LooksDown(Domains, X, r, B)
  <2>1. ASSUME NEW d \in Domains, NEW f \in [Domains -> X], NEW g \in [Domains -> X],
               \A j \in Domains : r[j] < r[d] => f[j] = g[j]
        PROVE  B[<<d, f>>] = B[<<d, g>>]
    <3>1. _next_sister[d] # NoObject => f[_next_sister[d]] = g[_next_sister[d]]
      BY <1>1, <1>3, <2>1, SisterIsDomain
    <3>2. ChildStep(f, d, id) = ChildStep(g, d, id)
      BY <3>1 DEF ChildStep
    <3>. QED
      BY <1>6, <3>2
  <2>. QED
    BY <2>1 DEF LooksDown
<1>10. NoObject \in X
  BY <1>4
<1>11. PICK f : Recursive(f, Domains, X, B)
  BY <1>3, <1>8, <1>9, <1>10, RankedRecursion
<1>12. f \in [Domains -> X] /\ \A d \in Domains : f[d] = ChildStep(f, d, id)
  BY <1>6, <1>11 DEF Recursive
<1>. DEFINE Body(g) == [e \in Domains |->
                          IF Own(e, id) # {} THEN CHOOSE o \in Own(e, id) : TRUE
                          ELSE IF _next_sister[e] # NoObject THEN g[_next_sister[e]]
                          ELSE NoObject]
<1>13. \A g : Body(g) = [d \in Domains |-> ChildStep(g, d, id)]
  BY DEF ChildStep
<1>14. PICK c : c = CHOOSE g : g = Body(g)
  OBVIOUS
<1>15. \A d : getChildById(d, id) = c[d]
  BY <1>14 DEF getChildById
<1>. HIDE DEF Body
<1>16. f = Body(f)
  BY <1>12, <1>13
<1>17. c = Body(c)
  BY <1>14, <1>16, Zenon
<1>18. \A d \in Domains : c[d] = ChildStep(c, d, id)
  BY <1>13, <1>17
<1>. QED
  BY <1>15, <1>18 DEF ChildStep

\* What it finds is an object of that identifier.
LEMMA ChildHasId ==
  ASSUME ObjectInv, NEW id, NEW d \in Domains, getChildById(d, id) # NoObject
  PROVE  getChildById(d, id) \in CommObjects /\ idOf[getChildById(d, id)] = id
<1>1. ObjectTypeOK
  BY DEF ObjectInv
<1>2. PICK n, r : Falls(n, r)
  BY DEF ObjectInv
<1>3. /\ n \in Nat /\ r \in [Domains -> 0 .. n]
      /\ \A e \in Domains : _next_sister[e] # NoObject => r[_next_sister[e]] < r[e]
  BY <1>2 DEF Falls
<1>4. PICK S : S = {e \in Domains : getChildById(e, id) # NoObject =>
                       getChildById(e, id) \in CommObjects /\ idOf[getChildById(e, id)] = id}
  OBVIOUS
<1>5. ASSUME NEW e \in Domains, \A j \in Domains : r[j] < r[e] => j \in S PROVE e \in S
  <2>1. PICK o : o = CHOOSE x \in Own(e, id) : TRUE
    OBVIOUS
  <2>2. getChildById(e, id) = IF Own(e, id) # {} THEN o
                              ELSE IF _next_sister[e] # NoObject
                              THEN getChildById(_next_sister[e], id)
                              ELSE NoObject
    BY <2>1, ChildIs
  <2>3. Own(e, id) # {} => o \in CommObjects /\ idOf[o] = id
    BY <1>1, <2>1, OwnChild
  <2>4. _next_sister[e] # NoObject => _next_sister[e] \in S
    BY <1>1, <1>3, <1>5, SisterIsDomain
  <2>. QED
    BY <1>4, <2>2, <2>3, <2>4
<1>6. Domains \subseteq S
  <2>1. n \in Nat /\ r \in [Domains -> 0 .. n]
    BY <1>3
  <2>. QED
    BY <1>5, <2>1, RankedInduction
<1>. QED
  BY <1>4, <1>6

\* The iterator at one domain.
ListStep(f, e) ==
    IF _next_sister[e] # NoObject /\ _children[e] # {}
    THEN _children[e] \cup f[_next_sister[e]]
    ELSE _children[e]

\* It lists the own children, and then what it lists at the sister.
LEMMA ListedIs ==
  ASSUME ObjectInv
  PROVE  \A d \in Domains :
            Listed(d) = IF _next_sister[d] # NoObject /\ _children[d] # {}
                        THEN _children[d] \cup Listed(_next_sister[d])
                        ELSE _children[d]
<1>1. ObjectTypeOK
  BY DEF ObjectInv
<1>2. PICK n, r : Falls(n, r)
  BY DEF ObjectInv
<1>3. /\ n \in Nat /\ r \in [Domains -> 0 .. n]
      /\ \A d \in Domains : _next_sister[d] # NoObject => r[_next_sister[d]] < r[d]
  BY <1>2 DEF Falls
<1>4. PICK X : X = SUBSET CommObjects
  OBVIOUS
<1>5. PICK B : B = [q \in Domains \X [Domains -> X] |-> ListStep(q[2], q[1])]
  OBVIOUS
<1>6. \A d \in Domains : \A f \in [Domains -> X] : B[<<d, f>>] = ListStep(f, d)
  BY <1>5
<1>7. ASSUME NEW d \in Domains, NEW f \in [Domains -> X] PROVE ListStep(f, d) \in X
  <2>1. _next_sister[d] # NoObject => f[_next_sister[d]] \in X
    BY <1>1, SisterIsDomain
  <2>2. _children[d] \in X
    BY <1>1, <1>4 DEF ObjectTypeOK
  <2>. QED
    BY <1>4, <2>1, <2>2 DEF ListStep
<1>8. B \in [Domains \X [Domains -> X] -> X]
  BY <1>5, <1>7
<1>9. LooksDown(Domains, X, r, B)
  <2>1. ASSUME NEW d \in Domains, NEW f \in [Domains -> X], NEW g \in [Domains -> X],
               \A j \in Domains : r[j] < r[d] => f[j] = g[j]
        PROVE  B[<<d, f>>] = B[<<d, g>>]
    <3>1. _next_sister[d] # NoObject => f[_next_sister[d]] = g[_next_sister[d]]
      BY <1>1, <1>3, <2>1, SisterIsDomain
    <3>2. ListStep(f, d) = ListStep(g, d)
      BY <3>1 DEF ListStep
    <3>. QED
      BY <1>6, <3>2
  <2>. QED
    BY <2>1 DEF LooksDown
<1>10. {} \in X
  BY <1>4
<1>11. PICK f : Recursive(f, Domains, X, B)
  BY <1>3, <1>8, <1>9, <1>10, RankedRecursion
<1>12. f \in [Domains -> X] /\ \A d \in Domains : f[d] = ListStep(f, d)
  BY <1>6, <1>11 DEF Recursive
<1>. DEFINE Body(g) == [e \in Domains |->
                          IF _next_sister[e] # NoObject /\ _children[e] # {}
                          THEN _children[e] \cup g[_next_sister[e]]
                          ELSE _children[e]]
<1>13. \A g : Body(g) = [d \in Domains |-> ListStep(g, d)]
  BY DEF ListStep
<1>14. PICK c : c = CHOOSE g : g = Body(g)
  OBVIOUS
<1>15. \A d : Listed(d) = c[d]
  BY <1>14 DEF Listed
<1>. HIDE DEF Body
<1>16. f = Body(f)
  BY <1>12, <1>13
<1>17. c = Body(c)
  BY <1>14, <1>16, Zenon
<1>18. \A d \in Domains : c[d] = ListStep(c, d)
  BY <1>13, <1>17
<1>. QED
  BY <1>15, <1>18 DEF ListStep

\* What is listed is found.
LEMMA ListedAreFound ==
  ASSUME ObjectInv, NEW d \in Domains, NEW o \in Listed(d)
  PROVE  o \in CommObjects /\ getChildById(d, idOf[o]) # NoObject
<1>1. ObjectTypeOK
  BY DEF ObjectInv
<1>2. PICK n, r : Falls(n, r)
  BY DEF ObjectInv
<1>3. /\ n \in Nat /\ r \in [Domains -> 0 .. n]
      /\ \A e \in Domains : _next_sister[e] # NoObject => r[_next_sister[e]] < r[e]
  BY <1>2 DEF Falls
<1>4. PICK S : S = {e \in Domains : o \in Listed(e) =>
                       o \in CommObjects /\ getChildById(e, idOf[o]) # NoObject}
  OBVIOUS
<1>5. ASSUME NEW e \in Domains, \A j \in Domains : r[j] < r[e] => j \in S PROVE e \in S
  <2>1. PICK id, u : id = idOf[o] /\ u = CHOOSE x \in Own(e, id) : TRUE
    OBVIOUS
  <2>2. getChildById(e, id) = IF Own(e, id) # {} THEN u
                              ELSE IF _next_sister[e] # NoObject
                              THEN getChildById(_next_sister[e], id)
                              ELSE NoObject
    BY <2>1, ChildIs
  <2>3. Own(e, id) # {} => u # NoObject
    BY <1>1, <2>1, OwnChild, ObjectAssumption DEF CommObjects
  <2>4. _next_sister[e] # NoObject => _next_sister[e] \in S
    BY <1>1, <1>3, <1>5, SisterIsDomain
  <2>5. ASSUME o \in _children[e] PROVE o \in CommObjects /\ Own(e, id) # {}
    BY <1>1, <2>1, <2>5 DEF ObjectTypeOK, Own
  <2>6. o \in Listed(e) => \/ o \in _children[e]
                           \/ _next_sister[e] # NoObject /\ o \in Listed(_next_sister[e])
    BY ListedIs
  <2>7. ASSUME o \in _children[e] PROVE o \in CommObjects /\ getChildById(e, id) # NoObject
    BY <2>2, <2>3, <2>5, <2>7
  <2>8. ASSUME _next_sister[e] # NoObject, o \in Listed(_next_sister[e])
        PROVE  o \in CommObjects /\ getChildById(e, id) # NoObject
    <3>1. o \in CommObjects /\ getChildById(_next_sister[e], id) # NoObject
      BY <1>4, <2>1, <2>4, <2>8
    <3>. QED
      BY <2>2, <2>3, <2>8, <3>1
  <2>9. o \in Listed(e) => o \in CommObjects /\ getChildById(e, id) # NoObject
    BY <2>6, <2>7, <2>8
  <2>10. getChildById(e, id) = getChildById(e, idOf[o])
    BY <2>1
  <2>11. o \in Listed(e) => o \in CommObjects /\ getChildById(e, idOf[o]) # NoObject
    BY <2>9, <2>10
  <2>. QED
    BY <1>4, <1>5, <2>11, Zenon
<1>6. Domains \subseteq S
  <2>1. n \in Nat /\ r \in [Domains -> 0 .. n]
    BY <1>3
  <2>. QED
    BY <1>5, <2>1, RankedInduction
<1>. QED
  BY <1>4, <1>6

\* What is found is listed, unless an empty domain hides its sister.
LEMMA FoundAreListed ==
  ASSUME ObjectInv, \A e \in Domains : _next_sister[e] # NoObject => _children[e] # {},
         NEW d \in Domains, NEW id, getChildById(d, id) # NoObject
  PROVE  getChildById(d, id) \in Listed(d)
<1>1. ObjectTypeOK
  BY DEF ObjectInv
<1>2. PICK n, r : Falls(n, r)
  BY DEF ObjectInv
<1>3. /\ n \in Nat /\ r \in [Domains -> 0 .. n]
      /\ \A e \in Domains : _next_sister[e] # NoObject => r[_next_sister[e]] < r[e]
  BY <1>2 DEF Falls
<1>4. PICK S : S = {e \in Domains : getChildById(e, id) # NoObject =>
                                        getChildById(e, id) \in Listed(e)}
  OBVIOUS
<1>5. ASSUME NEW e \in Domains, \A j \in Domains : r[j] < r[e] => j \in S PROVE e \in S
  <2>1. PICK u : u = CHOOSE x \in Own(e, id) : TRUE
    OBVIOUS
  <2>2. getChildById(e, id) = IF Own(e, id) # {} THEN u
                              ELSE IF _next_sister[e] # NoObject
                              THEN getChildById(_next_sister[e], id)
                              ELSE NoObject
    BY <2>1, ChildIs
  <2>3. Own(e, id) # {} => u \in _children[e]
    <3>1. Own(e, id) # {} => u \in Own(e, id)
      BY <2>1, Zenon
    <3>. QED
      BY <3>1 DEF Own
  <2>4. _next_sister[e] # NoObject => _next_sister[e] \in S
    BY <1>1, <1>3, <1>5, SisterIsDomain
  <2>5. Listed(e) = IF _next_sister[e] # NoObject
                    THEN _children[e] \cup Listed(_next_sister[e]) ELSE _children[e]
    BY ListedIs
  <2>. QED
    BY <1>4, <2>2, <2>3, <2>4, <2>5
<1>6. Domains \subseteq S
  <2>1. n \in Nat /\ r \in [Domains -> 0 .. n]
    BY <1>3
  <2>. QED
    BY <1>5, <2>1, RankedInduction
<1>. QED
  BY <1>4, <1>6

\* Both together.
LEMMA ListingIsTrue ==
  ASSUME ObjectInv, NEW d \in Domains
  PROVE  ListedIsFound(d)
<1>1. SUFFICES ASSUME \A e \in Domains : _next_sister[e] # NoObject => _children[e] # {}
      PROVE {idOf[o] : o \in Listed(d)} = {id \in Identifiers : getChildById(d, id) # NoObject}
  BY DEF ListedIsFound
<1>2. ASSUME NEW o \in Listed(d)
      PROVE  idOf[o] \in Identifiers /\ getChildById(d, idOf[o]) # NoObject
  BY ListedAreFound DEF Identifiers
<1>3. ASSUME NEW id \in Identifiers, getChildById(d, id) # NoObject
      PROVE  \E o \in Listed(d) : idOf[o] = id
  BY <1>1, <1>3, FoundAreListed, ChildHasId
<1>. QED
  BY <1>2, <1>3

\* The objects that a path leads to, one after the other.
LEMMA ReachedIs ==
  ASSUME ObjectInv, NEW path, Len(path) \in Nat
  PROVE  /\ Reached(path)[0] = Root
         /\ \A i \in 1 .. Len(path) :
               Reached(path)[i] = IF Reached(path)[i - 1] \in Domains
                                  THEN getChildById(Reached(path)[i - 1], path[i]) ELSE NoObject
<1>1. PICK k, X : k = Len(path) /\ X = CommObjects \cup {Root, NoObject}
  OBVIOUS
<1>2. k \in Nat /\ Root \in X /\ NoObject \in X
  BY <1>1
<1>. DEFINE Step(x, i) == IF x \in Domains THEN getChildById(x, path[i]) ELSE NoObject
<1>3. PICK F : F = [q \in (1 .. k) \X X |-> Step(q[2], q[1])]
  OBVIOUS
<1>4. \A i \in 1 .. k, x \in X : F[<<i, x>>] = Step(x, i)
  BY <1>3
<1>5. \A x, i : Step(x, i) \in X
  BY <1>1, ChildHasId
<1>6. F \in StepsOn(k, X)
  <2>. HIDE DEF Step
  <2>. QED
    BY <1>3, <1>5 DEF StepsOn
<1>7. PICK f : Iteration(f, k, X, Root, F)
  BY <1>2, <1>6, Iterated
<1>8. f \in [0 .. k -> X] /\ f[0] = Root /\ \A i \in 1 .. k : f[i] = F[<<i, f[i - 1]>>]
  BY <1>7 DEF Iteration
<1>9. \A i \in 1 .. k : f[i] = Step(f[i - 1], i)
  <2>1. TAKE i \in 1 .. k
  <2>2. i - 1 \in 0 .. k
    BY <1>2
  <2>3. f[i - 1] \in X
    BY <1>8, <2>2
  <2>. HIDE DEF Step
  <2>. QED
    BY <1>4, <1>8, <2>3
<1>. DEFINE Body(g) == [i \in 0 .. Len(path) |->
                          IF i = 0 THEN Root
                          ELSE IF g[i - 1] \in Domains THEN getChildById(g[i - 1], path[i])
                          ELSE NoObject]
<1>10. \A g : Body(g) = [i \in 0 .. k |-> IF i = 0 THEN Root ELSE Step(g[i - 1], i)]
  BY <1>1
<1>11. PICK c : c = CHOOSE g : g = Body(g)
  OBVIOUS
<1>12. Reached(path) = c
  BY <1>11 DEF Reached
<1>13. f = Body(f)
  <2>1. f = [i \in 0 .. k |-> IF i = 0 THEN Root ELSE Step(f[i - 1], i)]
    <3>1. \A i \in 0 .. k : f[i] = IF i = 0 THEN Root ELSE Step(f[i - 1], i)
      <4>1. TAKE i \in 0 .. k
      <4>2. i = 0 \/ i \in 1 .. k
        BY <1>2
      <4>. HIDE DEF Step, Body
      <4>. QED
        BY <1>8, <1>9, <4>2
    <3>. HIDE DEF Step, Body
    <3>. QED
      BY <1>8, <3>1
  <2>. HIDE DEF Step, Body
  <2>. QED
    BY <1>10, <2>1
<1>14. c = Body(c)
  <2>. HIDE DEF Body
  <2>. QED
    BY <1>11, <1>13, Zenon
<1>15. c[0] = Root /\ \A i \in 1 .. k : c[i] = Step(c[i - 1], i)
  <2>1. c = [i \in 0 .. k |-> IF i = 0 THEN Root ELSE Step(c[i - 1], i)]
    <3>. HIDE DEF Step, Body
    <3>. QED
      BY <1>10, <1>14
  <2>2. 0 \in 0 .. k
    BY <1>2
  <2>3. \A i \in 1 .. k : i \in 0 .. k /\ i # 0
    BY <1>2
  <2>. HIDE DEF Step, Body
  <2>. QED
    BY <2>1, <2>2, <2>3
<1>. QED
  BY <1>1, <1>12, <1>15

\* The last identifier of a path leads on from what the path before it leads to.
LEMMA LastReached ==
  ASSUME ObjectInv, NEW path \in Seq(Identifiers), NEW k \in Nat, k > 0, Len(path) = k,
         NEW front, front = SubSeq(path, 1, k - 1)
  PROVE  Object(path) = IF Object(front) \in Domains THEN getChildById(Object(front), path[k])
                        ELSE NoObject
<1>1. Len(front) = k - 1 /\ \A i \in 1 .. k - 1 : front[i] = path[i]
  OBVIOUS
<1>2. PICK m, f, g : m = k - 1 /\ f = Reached(front) /\ g = Reached(path)
  OBVIOUS
<1>3. m \in Nat /\ Len(front) = m /\ Len(path) = m + 1 /\ m + 1 = k
  BY <1>1, <1>2
<1>4. /\ f[0] = Root
      /\ \A i \in 1 .. m : f[i] = IF f[i - 1] \in Domains
                                  THEN getChildById(f[i - 1], front[i]) ELSE NoObject
  BY <1>2, <1>3, ReachedIs
<1>5. /\ g[0] = Root
      /\ \A i \in 1 .. m + 1 : g[i] = IF g[i - 1] \in Domains
                                      THEN getChildById(g[i - 1], path[i]) ELSE NoObject
  BY <1>2, <1>3, ReachedIs
<1>6. PICK S : S = {i \in 0 .. m : f[i] = g[i]}
  OBVIOUS
<1>7. 0 \in S
  BY <1>3, <1>4, <1>5, <1>6
<1>8. ASSUME NEW i \in 0 .. m - 1, i \in S PROVE i + 1 \in S
  <2>1. PICK j : j = i + 1
    OBVIOUS
  <2>2. j \in 1 .. m /\ j \in 1 .. m + 1 /\ j - 1 = i /\ j \in 0 .. m /\ j \in 1 .. k - 1
    BY <1>3, <2>1
  <2>3. f[i] = g[i] /\ front[j] = path[j]
    BY <1>1, <1>6, <1>8, <2>2
  <2>4. f[j] = IF f[i] \in Domains THEN getChildById(f[i], front[j]) ELSE NoObject
    BY <1>4, <2>2
  <2>5. g[j] = IF g[i] \in Domains THEN getChildById(g[i], path[j]) ELSE NoObject
    BY <1>5, <2>2
  <2>. QED
    BY <1>6, <2>1, <2>2, <2>3, <2>4, <2>5
<1>9. \A i \in 0 .. m : i \in S
  BY <1>3, <1>7, <1>8, CountingUp
<1>10. f[m] = g[m]
  BY <1>3, <1>6, <1>9
<1>11. k \in 1 .. m + 1 /\ k - 1 = m
  BY <1>3
<1>12. g[k] = IF g[m] \in Domains THEN getChildById(g[m], path[k]) ELSE NoObject
  BY <1>5, <1>11
<1>13. Object(path) = g[k] /\ Object(front) = f[m]
  BY <1>2, <1>3 DEF Object
<1>. QED
  BY <1>10, <1>12, <1>13

\* What is listed under an identifier leads to an object that is listed, too.
LEMMA LeadsToListed ==
  ASSUME ObjectInv, NEW id, NEW d \in Domains, NEW o \in Listed(d), idOf[o] = id
  PROVE  getChildById(d, id) \in Listed(d)
<1>1. ObjectTypeOK
  BY DEF ObjectInv
<1>2. PICK n, r : Falls(n, r)
  BY DEF ObjectInv
<1>3. /\ n \in Nat /\ r \in [Domains -> 0 .. n]
      /\ \A e \in Domains : _next_sister[e] # NoObject => r[_next_sister[e]] < r[e]
  BY <1>2 DEF Falls
<1>4. PICK S : S = {e \in Domains : o \in Listed(e) => getChildById(e, id) \in Listed(e)}
  OBVIOUS
<1>5. ASSUME NEW e \in Domains, \A j \in Domains : r[j] < r[e] => j \in S PROVE e \in S
  <2>1. PICK u : u = CHOOSE x \in Own(e, id) : TRUE
    OBVIOUS
  <2>2. getChildById(e, id) = IF Own(e, id) # {} THEN u
                              ELSE IF _next_sister[e] # NoObject
                              THEN getChildById(_next_sister[e], id)
                              ELSE NoObject
    BY <2>1, ChildIs
  <2>3. Own(e, id) # {} => u \in _children[e]
    <3>1. Own(e, id) # {} => u \in Own(e, id)
      BY <2>1, Zenon
    <3>. QED
      BY <3>1 DEF Own
  <2>4. _next_sister[e] # NoObject => _next_sister[e] \in S
    BY <1>1, <1>3, <1>5, SisterIsDomain
  <2>5. Listed(e) = IF _next_sister[e] # NoObject /\ _children[e] # {}
                    THEN _children[e] \cup Listed(_next_sister[e]) ELSE _children[e]
    BY ListedIs
  <2>6. ASSUME o \in _children[e] PROVE Own(e, id) # {}
    BY <2>6 DEF Own
  <2>7. ASSUME o \in Listed(e), Own(e, id) = {} PROVE getChildById(e, id) \in Listed(e)
    <3>1. _next_sister[e] # NoObject /\ o \in Listed(_next_sister[e]) /\ _children[e] # {}
      BY <2>5, <2>6, <2>7
    <3>2. getChildById(_next_sister[e], id) \in Listed(_next_sister[e])
      BY <1>4, <2>4, <3>1
    <3>. QED
      BY <2>2, <2>5, <2>7, <3>1, <3>2
  <2>8. Own(e, id) # {} => getChildById(e, id) \in Listed(e)
    BY <2>2, <2>3, <2>5
  <2>9. o \in Listed(e) => getChildById(e, id) \in Listed(e)
    BY <2>7, <2>8
  <2>. QED
    BY <1>4, <1>5, <2>9
<1>6. Domains \subseteq S
  <2>1. n \in Nat /\ r \in [Domains -> 0 .. n]
    BY <1>3
  <2>. QED
    BY <1>5, <2>1, RankedInduction
<1>. QED
  BY <1>4, <1>6

\* Nothing that is listed hides another object of the same identifier.
NoneIsHidden == \A d \in Domains : \A o, u \in Listed(d) : idOf[o] = idOf[u] => o = u

\* What is listed under an identifier is the object that the path leads to.
LEMMA AccessIsTrue ==
  ASSUME ObjectInv, NoneIsHidden, NEW path \in ObjectPaths, NEW access \in AccessModes
  PROVE  AccessIsGranted(path, access)
<1>1. PICK k, front : k = Len(path) /\ front = SubSeq(path, 1, Len(path) - 1)
  OBVIOUS
<1>2. path \in Seq(Identifiers) /\ k \in Nat /\ k > 0
  <2>1. PICK n \in 1 .. 2 : path \in [1 .. n -> Identifiers]
    BY DEF ObjectPaths
  <2>2. Len(path) = n /\ n \in Nat
    BY <2>1
  <2>. QED
    BY <1>1, <2>1, <2>2
<1>3. Object(path) = IF Object(front) \in Domains THEN getChildById(Object(front), path[k])
                     ELSE NoObject
  <2>1. Len(path) = k /\ front = SubSeq(path, 1, k - 1)
    BY <1>1
  <2>. QED
    BY <1>2, <2>1, LastReached
<1>4. SUFFICES ASSUME Object(path) \in SimpleVariables,
                      NEW item \in GetEPItems(access, front, Identifiers, CommObjects),
                      item.id = path[k]
               PROVE  /\ "READ" \in item.access => GetVarResult(access, path) # "NOACCESS"
                      /\ "WRITE" \in item.access => SetVarResult(access, path) # "NOACCESS"
  BY <1>1 DEF AccessIsGranted
<1>5. PICK d, o : d = Object(front) /\ o \in Listed(d) /\ d \in Domains
                  /\ item = [id |-> idOf[o], access |-> Granted(o, access)]
  BY <1>4 DEF GetEPItems, GetEPResult
<1>6. o \in CommObjects /\ getChildById(d, idOf[o]) # NoObject /\ idOf[o] = path[k]
  BY <1>4, <1>5, ListedAreFound
<1>7. o = Object(path)
  <2>1. Object(path) = getChildById(d, idOf[o])
    BY <1>3, <1>5, <1>6
  <2>2. Object(path) \in Listed(d) /\ idOf[Object(path)] = idOf[o]
    BY <1>5, <1>6, <2>1, LeadsToListed, ChildHasId
  <2>. QED
    BY <1>5, <2>2 DEF NoneIsHidden
<1>8. item.access = access \cap ({"READ"} \cup IF o \in unlocked THEN {"WRITE"} ELSE {})
  BY <1>4, <1>5, <1>7 DEF Granted, getAccessMode
<1>9. ASSUME "READ" \in item.access PROVE GetVarResult(access, path) # "NOACCESS"
  BY <1>8, <1>9 DEF GetVarResult
<1>10. ASSUME "WRITE" \in item.access PROVE SetVarResult(access, path) # "NOACCESS"
  <2>1. "WRITE" \in access /\ Object(path) \in unlocked
    BY <1>7, <1>8, <1>10
  <2>. QED
    BY <2>1 DEF SetVarResult
<1>. QED
  BY <1>9, <1>10

-----------------------------------------------------------------------------
(* Each action keeps the invariant.                                        *)

\* As long as the sisters stay, their chains do.
LEMMA SameSisters ==
  ASSUME ObjectInv, UNCHANGED _next_sister, _children' \in [Domains -> SUBSET CommObjects]
  PROVE  ObjectInv'
<1>1. PICK n, r : Falls(n, r)
  BY DEF ObjectInv
<1>2. Falls(n, r)'
  BY <1>1 DEF Falls
<1>. QED
  BY <1>2 DEF ObjectInv, ObjectTypeOK

\* A sister that is nobody's sister and has none itself makes no circle.
LEMMA SisterStep ==
  ASSUME ObjectInv, NEW d \in Domains, NEW s \in SubDomains, setNextSister(d, s)
  PROVE  ObjectInv'
<1>1. ObjectTypeOK
  BY DEF ObjectInv
<1>2. /\ s \notin Placed /\ d # s /\ _next_sister[d] = NoObject /\ _next_sister[s] = NoObject
      /\ _next_sister' = [_next_sister EXCEPT ![d] = s] /\ UNCHANGED _children
  BY DEF setNextSister
<1>3. PICK n, r : Falls(n, r)
  BY DEF ObjectInv
<1>4. /\ n \in Nat /\ r \in [Domains -> 0 .. n]
      /\ \A e \in Domains : _next_sister[e] # NoObject => r[_next_sister[e]] < r[e]
  BY <1>3 DEF Falls
<1>5. s \in Domains /\ s \in CommObjects /\ s # NoObject
  BY ObjectAssumption DEF Domains, CommObjects
<1>6. \A e \in Domains : _next_sister[e] # s
  BY <1>2, <1>5 DEF Placed
<1>7. PICK q : q = [e \in Domains |-> IF e = s THEN 0 ELSE r[e] + 1]
  OBVIOUS
<1>8. q \in [Domains -> 0 .. n + 1]
  <2>1. \A e \in Domains : r[e] \in 0 .. n
    BY <1>4
  <2>. QED
    BY <1>4, <1>7, <2>1
<1>9. ASSUME NEW e \in Domains, _next_sister'[e] # NoObject PROVE q[_next_sister'[e]] < q[e]
  <2>1. CASE e = d
    <3>1. _next_sister'[e] = s /\ r[e] \in 0 .. n
      BY <1>1, <1>2, <1>4, <2>1 DEF ObjectTypeOK
    <3>. QED
      BY <1>2, <1>5, <1>7, <2>1, <3>1
  <2>2. CASE e # d
    <3>1. _next_sister'[e] = _next_sister[e]
      BY <1>1, <1>2, <2>2 DEF ObjectTypeOK
    <3>2. PICK f : f = _next_sister[e]
      OBVIOUS
    <3>3. f \in Domains /\ f # s /\ e # s /\ r[f] < r[e]
      BY <1>1, <1>2, <1>4, <1>6, <1>9, <3>1, <3>2, SisterIsDomain
    <3>4. r[f] \in 0 .. n /\ r[e] \in 0 .. n
      BY <1>4, <3>3
    <3>5. q[f] = r[f] + 1 /\ q[e] = r[e] + 1
      BY <1>7, <3>3
    <3>. QED
      BY <3>1, <3>2, <3>3, <3>4, <3>5
  <2>. QED
    BY <2>1, <2>2
<1>10. Falls(n + 1, q)'
  BY <1>4, <1>8, <1>9 DEF Falls
<1>11. ObjectTypeOK'
  BY <1>1, <1>2 DEF ObjectTypeOK
<1>. QED
  BY <1>10, <1>11 DEF ObjectInv

\* At first no domain has a sister.
LEMMA ObjectsStart == ObjectInit => ObjectInv
<1>1. HAVE ObjectInit
<1>2. ObjectTypeOK
  BY <1>1 DEF ObjectInit, ObjectTypeOK
<1>3. Falls(0, [d \in Domains |-> 0])
  BY <1>1 DEF ObjectInit, Falls
<1>. QED
  BY <1>2, <1>3 DEF ObjectInv

\* Each operation keeps the invariant.
LEMMA ObjectStep == ObjectInv /\ [ObjectNext]_objectVars => ObjectInv'
<1>1. SUFFICES ASSUME ObjectInv, [ObjectNext]_objectVars PROVE ObjectInv'
  OBVIOUS
<1>2. ObjectTypeOK
  BY <1>1 DEF ObjectInv
<1>3. ASSUME NEW access, NEW path, NEW x, setVar(access, path, x) PROVE ObjectInv'
  BY <1>1, <1>2, <1>3, SameSisters DEF setVar, ObjectTypeOK
<1>4. ASSUME NEW path, NEW o \in CommObjects, addCommObject(path, o) PROVE ObjectInv'
  <2>1. _children' \in [Domains -> SUBSET CommObjects]
    BY <1>2, <1>4 DEF addCommObject, ObjectTypeOK
  <2>. QED
    BY <1>1, <1>4, <2>1, SameSisters DEF addCommObject
<1>5. ASSUME NEW path, NEW id, removeCommObject(path, id) PROVE ObjectInv'
  <2>1. _children' \in [Domains -> SUBSET CommObjects]
    BY <1>2, <1>5 DEF removeCommObject, ObjectTypeOK
  <2>. QED
    BY <1>1, <1>5, <2>1, SameSisters DEF removeCommObject
<1>6. ASSUME NEW d \in Domains, NEW o \in SimpleVariables, addChild(d, o) PROVE ObjectInv'
  <2>1. _children' \in [Domains -> SUBSET CommObjects]
    BY <1>2, <1>6 DEF addChild, ObjectTypeOK, CommObjects
  <2>. QED
    BY <1>1, <1>6, <2>1, SameSisters DEF addChild
<1>7. ASSUME NEW d \in Domains, NEW s \in SubDomains, setNextSister(d, s) PROVE ObjectInv'
  BY <1>1, <1>7, SisterStep
<1>8. ASSUME NEW v, lock(v) PROVE ObjectInv'
  BY <1>1, <1>2, <1>8, SameSisters DEF lock, ObjectTypeOK
<1>9. ASSUME UNCHANGED objectVars PROVE ObjectInv'
  BY <1>1, <1>2, <1>9, SameSisters DEF objectVars, ObjectTypeOK
<1>. QED
  BY <1>1, <1>3, <1>4, <1>5, <1>6, <1>7, <1>8, <1>9 DEF ObjectNext

\* In every tree of a KsSimpleServer, also through sisters of sisters, GETEP lists
\* the objects that the other services find, with the access they grant, as long as
\* no child of a sister has the identifier of a child of the domain: then both are
\* listed, but only the domain's own one is found.
THEOREM GetEPStaysTrue == ObjectSpec => [](NoneIsHidden => GetEPIsTrue)
<1>1. ObjectInv => (NoneIsHidden => GetEPIsTrue)
  BY ListingIsTrue, AccessIsTrue DEF GetEPIsTrue
<1>. QED
  BY <1>1, ObjectsStart, ObjectStep, PTL DEF ObjectSpec

\* What is listed is found, and what is found is listed, whatever the identifiers.
THEOREM ListingsStayTrue == ObjectSpec => [](\A d \in Domains : ListedIsFound(d))
<1>1. ObjectInv => \A d \in Domains : ListedIsFound(d)
  BY ListingIsTrue
<1>. QED
  BY <1>1, ObjectsStart, ObjectStep, PTL DEF ObjectSpec
=============================================================================
