----------------------------- MODULE MCProtocols -----------------------------
(***************************************************************************)
(* Small instances, for TLC, of the protocols that must come to an end or  *)
(* go on for ever: calls over UDP, the lookup of an interserver            *)
(* connection, the requests of a client, the registration of servers with  *)
(* the manager and of managers with the portmapper, and the threads of a   *)
(* Windows service.  A behaviour chooses one of them at first, which then  *)
(* makes all the steps; the fairness is that of the module concerned.      *)
(***************************************************************************)
EXTENDS UdpConnection, InterserverLookup, ClientServer, Registration, Portmapper,
        NtService

CONSTANTS c1, c2    \* clients

VARIABLE part

protocolVars == <<part, udpVars, lookupVars, clientVars, regVars, vars,
                  serviceVars>>

ProtocolsInit ==
    /\ part \in {"udp", "lookup", "client", "registration", "portmapper", "service"}
    /\ UdpInit /\ LookupInit /\ ClientInit /\ RegInit /\ Init /\ ServiceInit
    /\ part # "lookup" => peer = [hostPort |-> TRUE, known |-> PeerVersions]
    /\ part # "client" => \A n \in HostAndNames : real[n].version = MinProtocolVersion

ProtocolsNext ==
    /\ UNCHANGED part
    /\ IF part = "udp" THEN UdpNext ELSE UNCHANGED udpVars
    /\ IF part = "lookup" THEN LookupNext ELSE UNCHANGED lookupVars
    /\ IF part = "client" THEN ClientNext ELSE UNCHANGED clientVars
    /\ IF part = "registration" THEN RegNext ELSE UNCHANGED regVars
    /\ IF part = "portmapper" THEN Next ELSE UNCHANGED vars
    /\ IF part = "service" THEN ServiceNext ELSE UNCHANGED serviceVars

\* The fairness of each module, for the behaviours that have chosen it.
Go(p, A) == part = p /\ A

ProtocolsFairness ==
    /\ WF_udpVars(Go("udp", serverDispatch)) /\ WF_udpVars(Go("udp", serverSend))
    /\ \A c \in Clients : /\ WF_udpVars(Go("udp", clientSend(c)))
                          /\ WF_udpVars(Go("udp", RetryOver(c)))
    /\ WF_lookupVars(Go("lookup", Progress)) /\ WF_lookupVars(Go("lookup", attention))
    /\ WF_lookupVars(Go("lookup", CallReturns))
    /\ WF_clientVars(Go("client", Client))
    /\ WF_regVars(Go("registration", HandleRegister \/ HandleUnregister \/ Expire))
    /\ WF_regVars(Go("registration", Tick))
    /\ \A s \in Slots : /\ WF_regVars(Go("registration", ServerStep(s)))
                        /\ SF_regVars(Go("registration", register_server(s) /\ sock' # sock))
                        /\ SF_regVars(Go("registration", HandleRegister /\ Answered(s)))
    /\ \A x \in Managers : WF_vars(Go("portmapper", Step(x)))
    /\ WF_serviceVars(Go("service", MainStep)) /\ WF_serviceVars(Go("service", RunStep))
    /\ WF_serviceVars(Go("service", ControlStep))

ProtocolsSpec == ProtocolsInit /\ [][ProtocolsNext]_protocolVars /\ ProtocolsFairness

-----------------------------------------------------------------------------
MCMaxRequests == [c \in Clients |-> IF c = c1 THEN 2 ELSE 1]
MCDescOf == [s \in Ports |-> [name |-> "S", version |-> 1]]

\* The shortest one that leaves time to renew a registration.
MCShortTtlOf == [s \in Ports |-> 2]
=============================================================================
