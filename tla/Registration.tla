---------------------------- MODULE Registration ----------------------------
(***************************************************************************)
(* KS servers that keep themselves registered with the KS manager of their *)
(* host (KsServer in ks/src/server.cpp).  A server registers when it is    *)
(* started, again when about three quarters of its time to live are over,  *)
(* and sooner when a call has failed; when it stops it unregisters.  Calls *)
(* are ONC/RPC calls over UDP on the loopback interface: requests may get  *)
(* lost, answers may come too late, and a request is sent a second time    *)
(* after a second and given up after two.  Servers and the manager may     *)
(* crash at any time; the manager has no persistent state.                 *)
(*                                                                         *)
(* The unit of time is long compared to a call: Tick waits until nobody    *)
(* has anything left to do.                                                *)
(***************************************************************************)
EXTENDS Manager, Sequences, SequencesExt

CONSTANTS
    DescOf,      \* name and version of a server process
    TtlOf,       \* its time to live
    MinTtl,      \* MIN_TTL
    MaxSock      \* how many requests the manager's socket holds

Slots == Ports   \* every server process has a port of its own

ASSUME RegistrationAssumption ==
    /\ DescOf \in [Slots -> Desc] /\ TtlOf \in [Slots -> Ttls]
    /\ MinTtl \in Nat \ {0} /\ MaxSock \in Nat
    /\ \A s \in Slots : TtlOf[s] > MinTtl

VARIABLES
    st,      \* st[s]: "off", "run", or waiting for an answer: "reg", "unreg"
    timer,   \* time left until KsReregisterServerEvent triggers
    tries,   \* how often the request of the current call was sent
    missed,  \* calls that failed since the last success; -1: no success yet
    up,      \* the manager is running
    sock     \* requests in the manager's UDP socket

srvVars == <<st, timer, tries, missed>>
regVars == <<mgrVars, srvVars, up, sock>>

RegInit ==
    /\ ManagerInit
    /\ st = [s \in Slots |-> "off"]
    /\ timer = [s \in Slots |-> 0]
    /\ tries = [s \in Slots |-> 0]
    /\ missed = [s \in Slots |-> -1]
    /\ up = TRUE
    /\ sock = << >>

-----------------------------------------------------------------------------
\* A request is sent; it is lost when the manager is not there or when its
\* socket is full.
Send(s, op) ==
    \/ /\ "loss" \in Faults \/ ~up \/ Len(sock) >= MaxSock
       /\ UNCHANGED sock
    \/ /\ up /\ Len(sock) < MaxSock
       /\ sock' = Append(sock, [srv |-> s, op |-> op, fresh |-> TRUE])

\* Nobody waits for an answer to the requests of s any more: every call has
\* its own socket (createLocalClient).
Stale(q, s) == [i \in DOMAIN q |-> IF q[i].srv = s THEN [q[i] EXCEPT !.fresh = FALSE]
                                   ELSE q[i]]

\* Slip: a quarter of the time to live is not kept in reserve.
Interval_Whole(s) == TtlOf[s]

\* When to register again after a success.
Interval(s) == LET secs == 3 * (TtlOf[s] \div 4)
               IN  IF secs < MinTtl THEN MinTtl ELSE secs

\* Bound: more failures than these mean that the entry may be gone.
MaxMissed(s) == (2 * TtlOf[s] - Interval(s)) \div MinTtl

\* Slip: a call that failed is repeated no sooner than one that succeeded.
Return_Patient(s, ok) ==
    /\ st' = [st EXCEPT ![s] = IF @ = "reg" THEN "run" ELSE "off"]
    /\ timer' = [timer EXCEPT ![s] = IF st[s] = "unreg" THEN 0 ELSE Interval(s)]
    /\ tries' = [tries EXCEPT ![s] = 0]
    /\ missed' = [missed EXCEPT ![s] = IF st[s] = "unreg" THEN -1
                                       ELSE IF ok THEN 0
                                       ELSE IF @ = -1 \/ @ >= MaxMissed(s) THEN -1
                                       ELSE @ + 1]

\* The call of s returns.
Return(s, ok) ==
    /\ st' = [st EXCEPT ![s] = IF @ = "reg" THEN "run" ELSE "off"]
    /\ timer' = [timer EXCEPT ![s] = IF st[s] = "unreg" THEN 0
                                     ELSE IF ok THEN Interval(s) ELSE MinTtl]
    /\ tries' = [tries EXCEPT ![s] = 0]
    /\ missed' = [missed EXCEPT ![s] = IF st[s] = "unreg" THEN -1
                                       ELSE IF ok THEN 0
                                       ELSE IF @ = -1 \/ @ >= MaxMissed(s) THEN -1
                                       ELSE @ + 1]

-----------------------------------------------------------------------------
\* Only one process at a time runs as a server of some name and version.
startServer(s) ==
    /\ st[s] = "off" /\ Cardinality(DOMAIN events) < MaxEvents
    /\ \A t \in Slots : DescOf[t] = DescOf[s] => st[t] = "off"
    /\ st' = [st EXCEPT ![s] = "run"]
    /\ UNCHANGED <<mgrVars, timer, tries, missed, up, sock>>

Call(s, op, next) ==
    /\ Send(s, op)
    /\ st' = [st EXCEPT ![s] = next]
    /\ tries' = [tries EXCEPT ![s] = 1]
    /\ UNCHANGED <<mgrVars, up>>

register_server(s) ==
    /\ st[s] = "run" /\ timer[s] = 0
    /\ Call(s, "REGISTER", "reg")
    /\ UNCHANGED <<timer, missed>>

stopServer(s) ==
    /\ st[s] = "run"
    /\ Call(s, "UNREGISTER", "unreg")
    /\ timer' = [timer EXCEPT ![s] = 0]
    /\ missed' = [missed EXCEPT ![s] = -1]

Retransmit(s) ==
    /\ st[s] \in {"reg", "unreg"} /\ tries[s] = 1
    /\ Send(s, IF st[s] = "reg" THEN "REGISTER" ELSE "UNREGISTER")
    /\ tries' = [tries EXCEPT ![s] = 2]
    /\ UNCHANGED <<mgrVars, st, timer, missed, up>>

CallTimesOut(s) ==
    /\ st[s] \in {"reg", "unreg"} /\ tries[s] = 2
    /\ Return(s, FALSE)
    /\ sock' = Stale(sock, s)
    /\ UNCHANGED <<mgrVars, up>>

\* The manager answers request r; the answer may come too late.
Reply(r, res) ==
    \/ r.fresh /\ Return(r.srv, res = "OK") /\ sock' = Stale(Tail(sock), r.srv)
    \/ /\ ~r.fresh \/ "loss" \in Faults
       /\ UNCHANGED srvVars /\ sock' = Tail(sock)

\* The manager takes a request from its socket, when no event is due.
Handle(op) ==
    /\ up /\ sock # << >> /\ Head(sock).op = op
    /\ \A e \in DOMAIN events : events[e].due > 0

HandleRegister ==
    /\ Handle("REGISTER")
    /\ \E res \in {"OK", "GENERIC", "BADPARAM"} :
         /\ registerServer(DescOf[Head(sock).srv], Head(sock).srv, TtlOf[Head(sock).srv], res)
         /\ Reply(Head(sock), res)
    /\ UNCHANGED up

HandleUnregister ==
    /\ Handle("UNREGISTER")
    /\ \E res \in {"OK", "SERVERUNKNOWN", "BADPARAM"} :
         /\ unregisterServer(DescOf[Head(sock).srv], res)
         /\ Reply(Head(sock), res)
    /\ UNCHANGED up

Expire ==
    /\ up
    /\ \E e \in DOMAIN events : trigger(e)
    /\ UNCHANGED <<srvVars, up, sock>>

-----------------------------------------------------------------------------
ServerCrashes(s) ==
    /\ st[s] # "off"
    /\ st' = [st EXCEPT ![s] = "off"]
    /\ timer' = [timer EXCEPT ![s] = 0]
    /\ tries' = [tries EXCEPT ![s] = 0]
    /\ missed' = [missed EXCEPT ![s] = -1]
    /\ sock' = Stale(sock, s)
    /\ UNCHANGED <<mgrVars, up>>

ManagerCrashes ==
    /\ up
    /\ up' = FALSE
    /\ sock' = << >>
    /\ table' = [d \in {} |-> {}]
    /\ tree' = [n \in {Self} |-> {SelfVersion}]
    /\ events' = [e \in {} |-> {}]
    /\ missed' = [s \in Slots |-> -1]
    /\ UNCHANGED <<st, timer, tries>>

ManagerStarts ==
    /\ ~up
    /\ up' = TRUE
    /\ UNCHANGED <<mgrVars, srvVars, sock>>

\* Time passes when nothing is left to do.
Tick ==
    /\ sock = << >>
    /\ \A e \in DOMAIN events : events[e].due > 0
    /\ \A s \in Slots : st[s] = "off" \/ (st[s] = "run" /\ timer[s] > 0)
    /\ TimePasses
    /\ timer' = [s \in Slots |-> IF timer[s] > 0 THEN timer[s] - 1 ELSE 0]
    /\ UNCHANGED <<table, tree, st, tries, missed, up, sock>>

ServerStep(s) == register_server(s) \/ Retransmit(s) \/ CallTimesOut(s)

RegNext ==
    \/ \E s \in Slots : \/ startServer(s) \/ ServerStep(s) \/ stopServer(s)
                        \/ ServerCrashes(s)
    \/ HandleRegister \/ HandleUnregister \/ Expire
    \/ ManagerCrashes \/ ManagerStarts \/ Tick

RegSpec == RegInit /\ [][RegNext]_regVars

\* Processes go on, time passes, and not every request and every answer of a
\* server is lost.
Answered(s) == Handle("REGISTER") /\ Head(sock).srv = s /\ Head(sock).fresh
               /\ st'[s] = "run"

RegFairness ==
    /\ WF_regVars(HandleRegister \/ HandleUnregister \/ Expire)
    /\ WF_regVars(Tick)
    /\ \A s \in Slots : /\ WF_regVars(ServerStep(s))
                        /\ SF_regVars(register_server(s) /\ sock' # sock)
                        /\ SF_regVars(HandleRegister /\ Answered(s))

RegFairSpec == RegSpec /\ RegFairness

-----------------------------------------------------------------------------
RegTypeOK ==
    /\ ManagerTypeOK
    /\ st \in [Slots -> {"off", "run", "reg", "unreg"}]
    /\ timer \in [Slots -> Nat]
    /\ tries \in [Slots -> 0 .. 2]
    /\ missed \in [Slots -> Int]
    /\ up \in BOOLEAN
    /\ sock \in Seq([srv : Slots, op : {"REGISTER", "UNREGISTER"}, fresh : BOOLEAN])

Listed(s) == DescOf[s] \in DOMAIN table /\ table[DescOf[s]].port = s

\* A running server whose last registration succeeded is listed as living,
\* with its port, until its next registration has been answered: neither its
\* own retransmitted requests, nor late requests of a predecessor of the same
\* name, nor expiry events of earlier registrations take the entry away.
ConfirmedIsListed ==
    \A s \in Slots : missed[s] = 0 /\ st[s] \in {"run", "reg"} =>
        Listed(s) /\ table[DescOf[s]].living

\* A server whose registrations fail is kept for twice its time to live: its
\* repeated attempts are in time to save the entry.
LossesAreTolerated ==
    \A s \in Slots :
        /\ missed[s] >= 0 /\ st[s] \in {"run", "reg"}
        /\ Interval(s) + missed[s] * MinTtl < 2 * TtlOf[s]
        => Listed(s)

\* The table of a manager that runs follows the servers: one that runs is listed
\* again and again, also when the manager has been restarted meanwhile, and one
\* that is gone is forgotten, also when it could not unregister.
TableFollowsServers ==
    /\ \A s \in Slots : <>[](up /\ st[s] \in {"run", "reg"}) => []<>Listed(s)
    /\ \A d \in Desc :
          <>[](up /\ \A s \in Slots : DescOf[s] = d => st[s] = "off")
              => <>[](d \notin DOMAIN table)

-----------------------------------------------------------------------------
(***************************************************************************)
(* Why the properties above hold: the inductive invariant.                 *)
(***************************************************************************)
Serves(s) == st[s] \in {"run", "reg"}

\* A predecessor is gone when its successor starts.
OneServerPerName ==
    \A s, t \in Slots : s # t /\ DescOf[s] = DescOf[t] => st[s] = "off" \/ st[t] = "off"

TimersAreBounded ==
    \A s \in Slots : /\ missed[s] >= -1 /\ timer[s] <= Interval(s)
                     /\ st[s] \in {"reg", "unreg"} => timer[s] = 0
                     /\ ~Serves(s) => missed[s] = -1

\* Somebody waits for the answer to a fresh request.
FreshIsAwaited ==
    \A i \in DOMAIN sock :
        sock[i].fresh => st[sock[i].srv] = IF sock[i].op = "REGISTER" THEN "reg" ELSE "unreg"

Repeats(i, s) == DescOf[sock[i].srv] = DescOf[s] => sock[i].srv = s /\ sock[i].op = "REGISTER"

\* Requests stay in order: what comes after a registration that is awaited,
\* or waits after one that was answered, repeats it.
LaterRequestsRepeat ==
    /\ \A i, j \in DOMAIN sock :
           i < j /\ sock[i].fresh /\ sock[i].op = "REGISTER" => Repeats(j, sock[i].srv)
    /\ \A s \in Slots, i \in DOMAIN sock : missed[s] >= 0 => Repeats(i, s)

\* The event of an entry is due after its server registers again.
OutlastsTimer(s) ==
    missed[s] = 0 => /\ Listed(s) /\ table[DescOf[s]].living
                     /\ events[table[DescOf[s]].ev].due > timer[s]

EntryOutlastsTimer == \A s \in Slots : OutlastsTimer(s)

\* The time until an entry is removed: it may be marked as dead before.
Life(d) == events[table[d].ev].due + IF table[d].living THEN table[d].ttl ELSE 0

OutlastsRetries(s) ==
    missed[s] >= 0 /\ Interval(s) + missed[s] * MinTtl < 2 * TtlOf[s]
        => /\ Listed(s)
           /\ Life(DescOf[s]) + Interval(s) + missed[s] * MinTtl >= 2 * TtlOf[s] + timer[s]

EntryOutlastsRetries ==
    \A s \in Slots :
        /\ OutlastsRetries(s)
        /\ DescOf[s] \in DOMAIN table => table[DescOf[s]].ttl = TtlOf[s]

RequestInv == /\ OneServerPerName /\ TimersAreBounded
              /\ FreshIsAwaited /\ LaterRequestsRepeat

RegInv == RegTypeOK /\ ManagerInv /\ RequestInv /\ EntryOutlastsTimer

=============================================================================
