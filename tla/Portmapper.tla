----------------------------- MODULE Portmapper -----------------------------
(***************************************************************************)
(* How a KS manager keeps itself known to the portmapper of its host, so   *)
(* that servers (by UDP) and clients (by TCP) find it: KsManager and       *)
(* KsmExpireManagerEvent in ks/src/manager.cpp.  Every call of the         *)
(* portmapper is a step: other managers and the portmapper itself may be   *)
(* started, stopped or killed between any two calls.  The portmapper loses *)
(* its table when it goes away; a manager that goes away leaves its entry. *)
(***************************************************************************)
EXTENDS Naturals, FiniteSets

CONSTANTS
    Managers,     \* manager processes
    None,         \* no entry
    Gone,         \* the port of a manager that does not exist any more
    MaxRunning    \* how many managers may run at the same time

ASSUME PortmapperAssumption ==
    None \notin Managers /\ Gone \notin Managers /\ None # Gone /\ MaxRunning \in Nat

VARIABLES
    pm,           \* pm[p]: whose port is registered for protocol p
    pmUp,         \* the portmapper is running
    pc,           \* what a manager does next
    registered    \* _registered of a manager

vars == <<pm, pmUp, pc, registered>>

Protocols == {"tcp", "udp"}
Empty == [p \in Protocols |-> None]

Init ==
    /\ pm = Empty
    /\ pmUp = TRUE
    /\ pc = [x \in Managers |-> "off"]
    /\ registered = [x \in Managers |-> FALSE]

Running == {x \in Managers : pc[x] # "off"}

-----------------------------------------------------------------------------
\* PMAPPROC_UNSET removes the entries of all protocols, whoever made them, and
\* tells whether there was one.  The managers call it a second time then.
pmap_unset(x, again, next) ==
    /\ pm' = IF pmUp THEN Empty ELSE pm
    /\ pc' = [pc EXCEPT ![x] = IF pmUp /\ pm # Empty THEN again ELSE next]

\* PMAPPROC_SET fails when there is an entry with another port.
SetSucceeds(x, p) == pmUp /\ pm[p] \in {None, x}

pmap_set(x, p) ==
    /\ pm' = IF SetSucceeds(x, p) THEN [pm EXCEPT ![p] = x] ELSE pm
    /\ registered' = [registered EXCEPT ![x] = @ \/ SetSucceeds(x, p)]

Goto(x, next) == pc' = [pc EXCEPT ![x] = next]

\* What is left in the table when manager x is no more.
Abandoned(x) == [p \in Protocols |-> IF pm[p] = x THEN Gone ELSE pm[p]]

-----------------------------------------------------------------------------
\* startServer(): remove old entries, then register both transports.
startManager(x) ==
    /\ pc[x] = "off" /\ Cardinality(Running) < MaxRunning
    /\ Goto(x, "unset")
    /\ UNCHANGED <<pm, pmUp, registered>>

StartUnset(x) ==
    /\ \/ pc[x] = "unset"  /\ pmap_unset(x, "unset2", "tcp")
       \/ pc[x] = "unset2" /\ pmap_unset(x, "tcp", "tcp")
    /\ registered' = [registered EXCEPT ![x] = FALSE]
    /\ UNCHANGED pmUp

SetTcp(x) ==
    /\ pc[x] \in {"tcp", "checktcp"}
    /\ pmap_set(x, "tcp")
    /\ Goto(x, IF pc[x] = "tcp" THEN "udp" ELSE "checkudp")
    /\ UNCHANGED pmUp

StartSetUdp(x) ==
    /\ pc[x] = "udp"
    /\ pmap_set(x, "udp")
    /\ Goto(x, "idle")
    /\ UNCHANGED pmUp

\* KsmExpireManagerEvent::trigger(): a manager that is not registered tries
\* to, and when neither transport could be registered it tries again later.
Check(x) ==
    /\ pc[x] = "idle"
    /\ Goto(x, IF registered[x] THEN "getport" ELSE "checktcp")
    /\ UNCHANGED <<pm, pmUp, registered>>

CheckSetUdp(x) ==
    /\ pc[x] = "checkudp"
    /\ pmap_set(x, "udp")
    /\ Goto(x, IF registered'[x] THEN "getport" ELSE "idle")
    /\ UNCHANGED pmUp

\* Slip: the port is not compared.
GetPort_Any(x) ==
    /\ pc[x] = "getport"
    /\ Goto(x, IF pmUp /\ pm["tcp"] # None THEN "idle" ELSE "checkunset")
    /\ UNCHANGED <<pm, pmUp, registered>>

\* The entry for TCP is looked at: it is the manager's own, or there is none
\* (or no portmapper), or another manager has taken over.
GetPort(x) ==
    /\ pc[x] = "getport"
    /\ \/ /\ pmUp /\ pm["tcp"] = x
          /\ Goto(x, "idle")
          /\ UNCHANGED registered
       \/ /\ ~pmUp \/ pm["tcp"] = None
          /\ Goto(x, "checkunset")
          /\ UNCHANGED registered
       \/ /\ pmUp /\ pm["tcp"] \notin {x, None}
          /\ Goto(x, "down")
          /\ registered' = [registered EXCEPT ![x] = FALSE]
    /\ UNCHANGED <<pm, pmUp>>

\* Slip: the manager still thinks that it is registered.
CheckUnset_Registered(x) ==
    /\ \/ pc[x] = "checkunset"  /\ pmap_unset(x, "checkunset2", "idle")
       \/ pc[x] = "checkunset2" /\ pmap_unset(x, "idle", "idle")
    /\ UNCHANGED <<registered, pmUp>>

CheckUnset(x) ==
    /\ \/ pc[x] = "checkunset"  /\ pmap_unset(x, "checkunset2", "idle")
       \/ pc[x] = "checkunset2" /\ pmap_unset(x, "idle", "idle")
    /\ registered' = [registered EXCEPT ![x] = (pc'[x] = "checkunset2" /\ @)]
    /\ UNCHANGED pmUp

\* A signal stops the manager, or it has given up: stopServer(), cleanup().
downServer(x) ==
    /\ pc[x] = "idle"
    /\ Goto(x, "down")
    /\ UNCHANGED <<pm, pmUp, registered>>

Leave(x) ==
    /\ pm' = Abandoned(x)
    /\ Goto(x, "off")
    /\ registered' = [registered EXCEPT ![x] = FALSE]
    /\ UNCHANGED pmUp

stopManager(x) ==
    \/ /\ pc[x] = "down" /\ registered[x]
       /\ pmap_unset(x, "down2", "leave")
       /\ UNCHANGED <<registered, pmUp>>
    \/ /\ pc[x] = "down2"
       /\ pmap_unset(x, "leave", "leave")
       /\ UNCHANGED <<registered, pmUp>>
    \/ /\ pc[x] = "leave" \/ (pc[x] = "down" /\ ~registered[x])
       /\ Leave(x)

ManagerDies(x) == pc[x] # "off" /\ Leave(x)

PortmapperCrashes ==
    /\ pmUp
    /\ pmUp' = FALSE
    /\ pm' = Empty
    /\ UNCHANGED <<pc, registered>>

PortmapperStarts ==
    /\ ~pmUp
    /\ pmUp' = TRUE
    /\ UNCHANGED <<pm, pc, registered>>

Step(x) == \/ StartUnset(x) \/ SetTcp(x) \/ StartSetUdp(x)
           \/ Check(x) \/ CheckSetUdp(x) \/ GetPort(x) \/ CheckUnset(x)
           \/ stopManager(x)

Next == \/ \E x \in Managers : \/ startManager(x) \/ Step(x) \/ downServer(x)
                               \/ ManagerDies(x)
        \/ PortmapperCrashes \/ PortmapperStarts

Spec == Init /\ [][Next]_vars

\* A manager goes on, and its check event triggers again and again.
Fairness == \A x \in Managers : WF_vars(Step(x))

FairSpec == Spec /\ Fairness

-----------------------------------------------------------------------------
\* A manager that finds its TCP entry in place can be reached by UDP as well
\* (manager.cpp: "Looking at the TCP port registration should be sufficient").
TcpCheckIsSufficient ==
    \A x \in Managers : pc[x] = "getport" /\ pmUp /\ pm["tcp"] = x => pm["udp"] = x

\* A manager that is running and not about to stop.
Alive(x) == pc[x] \notin {"off", "down", "down2", "leave"}

\* A manager that goes on running alone stays registered in the end, whatever
\* became of the portmapper and of other managers before.  Its entry for UDP
\* may be the one that a manager it raced with has left.  The only thing that
\* can keep it out for good are the entries of a manager that was killed after
\* it was started: only startServer() removes such entries.
ManagerIsReachable ==
    \A x \in Managers :
        <>[](pmUp /\ Alive(x) /\ Running = {x})
            => \/ <>[](pm["tcp"] = x /\ pm["udp"] \in {x, Gone})
               \/ <>[](~registered[x] /\ \A p \in Protocols : pm[p] = Gone)

\* When several managers run, all but one notice that they are not, or no
\* longer, the one that is registered (comment in KsmExpireManagerEvent: "No
\* client can reach us anymore, so exit").
OneManagerStaysRegistered ==
    <>[]pmUp => []<>(Cardinality({x \in Managers : registered[x]}) <= 1)

=============================================================================
