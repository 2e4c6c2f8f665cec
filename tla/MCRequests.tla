----------------------------- MODULE MCRequests -----------------------------
(***************************************************************************)
(* Small instances, for TLC, of what a request goes through: the package   *)
(* that is split into one request per server, the paths in its items and   *)
(* where they come from, the masks of a GETEP, the server object that      *)
(* retries it, what is written and read, the records or datagrams this     *)
(* travels in, and the objects of the server.  A behaviour chooses one of  *)
(* them at first, which then makes all the steps: the state space is the   *)
(* sum of theirs.                                                          *)
(***************************************************************************)
EXTENDS ClientPaths, PathParser, NameMask, ClientPackage, TcpRecords,
        ServerObjects, UdpConnection, ClientServer, Messages, MessageSamples

CONSTANTS
    d1, d2,        \* domains
    v1, v2, v3,    \* variables
    c1, c2         \* clients

VARIABLE part

requestVars == <<part, pathVars, parserVars, maskVars, packageVars, recordVars,
                 objectVars, udpVars, clientVars, messageVars>>

RequestsInit ==
    /\ part \in {"paths", "mask", "package", "records", "objects", "udp",
                "client", "parser", "messages"}
    /\ PathInit /\ MaskInit /\ PackageInit /\ RecordsInit /\ ObjectInit
    /\ UdpInit /\ ClientInit /\ ParserInit /\ MessageInit
    /\ part # "messages" => serverKind = "manager"
    /\ part # "parser" => locator = [names |-> <<"host">>, path |-> <<>>]
    /\ \A n \in HostAndNames :
          part # "client" \/ n \notin Crashing => real[n].version = MinProtocolVersion

RequestsNext ==
    /\ UNCHANGED part
    /\ IF part = "paths" THEN PathNext ELSE UNCHANGED pathVars
    /\ IF part = "parser" THEN ParserNext ELSE UNCHANGED parserVars
    /\ IF part = "mask" THEN MaskNext ELSE UNCHANGED maskVars
    /\ IF part = "package" THEN PackageNext ELSE UNCHANGED packageVars
    /\ IF part = "records" THEN RecordsNext ELSE UNCHANGED recordVars
    /\ IF part = "objects" THEN ObjectNext ELSE UNCHANGED objectVars
    /\ IF part = "udp" THEN UdpNext ELSE UNCHANGED udpVars
    /\ IF part = "client" THEN ClientNext ELSE UNCHANGED clientVars
    /\ IF part = "messages" THEN MessageNext ELSE UNCHANGED messageVars

RequestsSpec == RequestsInit /\ [][RequestsNext]_requestVars

-----------------------------------------------------------------------------
MCWild == {Token("any", {}), Token("star", {}), Token("set", {"a"}),
           Token("negated", {"a"}), Token("malformed", {})}

\* Two variables of one server, one of another.
MCBucketOf == [v \in Variables |-> IF v = v3 THEN 2 ELSE 1]

MCParamSamples == [s \in DOMAIN Services |-> SamplesOf(Services[s].params, 10)]
MCResultSamples == [s \in DOMAIN Services |-> SamplesOf(Services[s].result, 10)]

\* A client whose second call may be sent the answer to its first one.
MCMaxRequests == [c \in Clients |-> IF c = c1 THEN 2 ELSE 1]

\* Different identifiers.
MCIdOf == [o \in CommObjects |->
              CASE o = v1 -> "a" [] o = v2 -> "b" [] o = d1 -> "c" [] o = d2 -> "d"]
=============================================================================
