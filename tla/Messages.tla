------------------------------ MODULE Messages ------------------------------
(***************************************************************************)
(* A request on its way to the service function and its answer on the way  *)
(* back (rpcproto.cpp, avticket.cpp, avmodule.cpp, avsimplemodule.cpp,     *)
(* svrbase.cpp, manager.cpp, client.cpp): RPC header, ticket, parameters;  *)
(* RPC header, ticket, result.  The server finds out what it can read,     *)
(* answers with an error if that is not all, and else runs the service.    *)
(*                                                                         *)
(* Besides the client of this library there may be another ONC/RPC client, *)
(* that pings or sends credentials, and a datagram may be cut at the end   *)
(* of a buffer.  How requests travel is the subject of other modules.      *)
(***************************************************************************)
EXTENDS WireFormats

CONSTANTS
    ServerKinds,       \* of {"base", "manager", "extended"}
    Negotiators,       \* of {"none", "simple", "other"}
    ParamSamples,      \* the parameters of a service that are tried out
    ResultSamples,     \* what its service function may return
    AddressLost        \* may there be no memory for the client's address

VARIABLES
    stage,             \* where the message is
    serverKind,
    asked,             \* what the client asks for
    inFlight,          \* the words on the wire
    cut,               \* has a part of them been lost
    ran,               \* the service the server ran
    got                \* what the client makes of the answer

messageVars == <<stage, serverKind, asked, inFlight, cut, ran, got>>

NotRun  == [params |-> <<>>]
NoReply == [ok |-> FALSE]

-----------------------------------------------------------------------------
(* RPC headers.                                                            *)

CALL == 0
REPLY == 1
MSGACCEPTED == 0
SUCCESS == 0
PROGMISMATCH == 2
GARBAGEARGS == 4
AUTHNONE == 0

RpcCall ==
    LET order == <<"rpc_version", "prog_number", "prog_version", "procedure",
                   "cred", "cred_length", "verf", "verf_length">>
    IN Members([rpc_version |-> OneOf({2}), prog_number |-> Number,
                prog_version |-> Number, procedure |-> Number,
                cred |-> OneOf({AUTHNONE}), cred_length |-> OneOf({0}),
                verf |-> OneOf({AUTHNONE}), verf_length |-> OneOf({0})],
               order, order)

RpcAccepted ==
    LET order == When(<<"verf", "verf_length", "accept_status">>, {PROGMISMATCH},
                      <<"low", "high">>)
    IN Class([verf |-> OneOf({AUTHNONE}), verf_length |-> OneOf({0}),
              accept_status |-> OneOf(0..5), low |-> Number, high |-> Number],
             order, order)

RpcDenied ==
    KsXdrUnion(0 :> Members([low |-> Number, high |-> Number],
                            <<"low", "high">>, <<"low", "high">>)
               @@ 1 :> Sole("auth_error", Number), Empty)

RpcReply == KsXdrUnion(MSGACCEPTED :> Sole("accepted", RpcAccepted)
                       @@ 1 :> Sole("denied", RpcDenied), Empty)

KsRpcHeader ==
    Members([xid |-> Number,
             body |-> KsXdrUnion(CALL :> RpcCall @@ REPLY :> Sole("reply", RpcReply),
                                 Empty)],
            <<"xid", "body">>, <<"xid", "body">>)

setRequest(xid, program, version, procedure, cred) ==
    [xid |-> xid,
     body |-> [tag |-> CALL, rpc_version |-> 2, prog_number |-> program,
               prog_version |-> version, procedure |-> procedure,
               cred |-> cred, cred_length |-> 0, verf |-> AUTHNONE, verf_length |-> 0]]

AcceptedWith(xid, status) ==
    [xid |-> xid,
     body |-> [tag |-> REPLY,
               reply |-> [tag |-> MSGACCEPTED,
                          accepted |-> [verf |-> AUTHNONE, verf_length |-> 0,
                                        accept_status |-> status]]]]

acceptCall(xid)     == AcceptedWith(xid, SUCCESS)
setDecodeError(xid) == AcceptedWith(xid, GARBAGEARGS)

-----------------------------------------------------------------------------
(* Services.                                                               *)

KS_NULL == 0
KS_GETPP == 1
KS_GETEP == 2
KS_GETCANONICALPATH == 3
KS_GETVAR == 257
KS_SETVAR == 258
KS_EXGDATA == 259
KS_CREATEOBJECT == 513
KS_DELETEOBJECT == 514
KS_RENAMEOBJECT == 515
KS_LINK == 769
KS_UNLINK == 770
KS_GETHIST == 1025
KS_REGISTER == 65281
KS_UNREGISTER == 65282
KS_GETSERVER == 65283

\* The parameters and the result of every service.
Service(params, result) == [params |-> params, result |-> result]

Services ==
    KS_GETPP :> Service(KsGetPPParams, KsGetPPResult)
    @@ KS_GETEP :> Service(KsGetEPParams, KsGetEPResult)
    @@ KS_GETCANONICALPATH :> Service(KsGetCanonicalPathParams, KsGetCanonicalPathResult)
    @@ KS_GETVAR :> Service(KsGetVarParams, KsGetVarResult)
    @@ KS_SETVAR :> Service(KsSetVarParams, KsSetVarResult)
    @@ KS_EXGDATA :> Service(KsExgDataParams, KsExgDataResult)
    @@ KS_CREATEOBJECT :> Service(KsCreateObjParams, KsCreateObjResult)
    @@ KS_DELETEOBJECT :> Service(KsDeleteObjParams, KsDeleteObjResult)
    @@ KS_RENAMEOBJECT :> Service(KsRenameObjParams, KsRenameObjResult)
    @@ KS_LINK :> Service(KsLinkParams, KsLinkResult)
    @@ KS_UNLINK :> Service(KsUnlinkParams, KsUnlinkResult)
    @@ KS_GETHIST :> Service(KsGetHistParams, KsGetHistResult)
    @@ KS_REGISTER :> Service(KsRegistrationParams, KsResult)
    @@ KS_UNREGISTER :> Service(KsUnregistrationParams, KsResult)
    @@ KS_GETSERVER :> Service(KsUnregistrationParams, KsGetServerResult)

\* The cases of dispatch(); an extended server adds its own to them.
BaseServices == {KS_GETVAR, KS_SETVAR, KS_GETPP, KS_GETEP, KS_EXGDATA}
LocalServices == {KS_REGISTER, KS_UNREGISTER}

Dispatched(kind) ==
    CASE kind = "base" -> BaseServices
      [] kind = "manager" -> BaseServices \cup LocalServices \cup {KS_GETSERVER}
      [] kind = "extended" -> DOMAIN Services \ (LocalServices \cup {KS_GETSERVER})

-----------------------------------------------------------------------------
(* Tickets.                                                                *)

KS_ERR_GENERIC == 1
KS_ERR_NOTIMPLEMENTED == 3
KS_ERR_UNKNOWNAUTH == 5
KS_ERR_NOREMOTE == 32

KS_AUTH_NONE == 0
KS_AUTH_SIMPLE == 1
AuthOther == 2                  \* a module that the server does not know

\* The client's side: what goes before the parameters, and which type of
\* ticket it puts up with before a result.
NegotiatorWords(n) ==
    CASE n = "none" -> <<KS_AUTH_NONE>>
      [] n = "simple" -> <<KS_AUTH_SIMPLE>> \o Encode(String, <<97, 98>>)
      [] n = "other" -> <<AuthOther, 99>>

Acceptable(n) ==
    CASE n = "none" -> {KS_AUTH_NONE}
      [] n = "simple" -> {KS_AUTH_NONE, KS_AUTH_SIMPLE}
      [] n = "other" -> {KS_AUTH_NONE, AuthOther}

Ticket(type, result, rest) == [type |-> type, result |-> result, rest |-> rest]

emergencyTicket == Ticket(KS_AUTH_NONE, KS_ERR_GENERIC, <<>>)

\* KsAvTicket::xdrNew.  The words of an unknown ticket are not skipped.
getTicket(w) ==
    IF w = <<>> THEN emergencyTicket
    ELSE CASE w[1] = KS_AUTH_NONE -> Ticket(KS_AUTH_NONE, KS_ERR_OK, Tail(w))
           [] w[1] = KS_AUTH_SIMPLE ->
                LET id == Decode(String, Tail(w))
                IN IF id.ok THEN Ticket(KS_AUTH_SIMPLE, KS_ERR_OK, id.rest)
                            ELSE emergencyTicket
           [] OTHER -> Ticket(KS_AUTH_NONE, KS_ERR_UNKNOWNAUTH, Tail(w))

\* Slip: the id is sent back.
TicketWords_Id(ticket) ==
    IF ticket.type = KS_AUTH_SIMPLE THEN <<ticket.type>> \o Encode(String, <<97, 98>>)
                                    ELSE <<ticket.type>>

\* In a reply a ticket is only its type: the id is not sent back.
TicketWords(ticket) == <<ticket.type>>

-----------------------------------------------------------------------------
(* A GETPP of an old client is a GETEP for the children, with properties   *)
(* of the old kind; there are none for a structure.                        *)

Project(v, fields) == [f \in fields |-> v[f]]

CommonV1 == {"tag", "identifier", "creation_time", "comment", "access_mode"}

PropsV1(v) ==
    CASE v.tag = KS_OT_DOMAIN -> Project(v, CommonV1)
      [] v.tag = KS_OT_VARIABLE -> Project(v, CommonV1 \cup {"tech_unit", "type"})
      [] v.tag = KS_OT_LINK ->
           Project(v, CommonV1 \cup {"link_type", "opposite_role_identifier"})
           @@ [class_identifier |-> v.association_identifier]
      [] v.tag = KS_OT_HISTORY ->
           Project(v, CommonV1 \cup DOMAIN KsHistoryEngProps.of)

HasV1(v) ==
    \/ v.tag \in {KS_OT_DOMAIN, KS_OT_VARIABLE}
    \/ V1PlusCompatible /\ v.tag \in {KS_OT_LINK, KS_OT_HISTORY}

\* Slip: the list ends at the first object of another kind.
PPItems_Stop(items) ==
    LET stop == {i \in DOMAIN items : ~HasV1(items[i])}
        known == SubSeq(items, 1, IF stop = {} THEN Len(items) ELSE Min(stop) - 1)
    IN [i \in DOMAIN known |-> PropsV1(known[i])]

PPItems(items) ==
    LET known == SelectSeq(items, HasV1) IN [i \in DOMAIN known |-> PropsV1(known[i])]

\* The answers that the service function may have for a request.
Found(service) == IF service = KS_GETPP THEN ResultSamples[KS_GETEP]
                                        ELSE ResultSamples[service]

Answer(service, found) ==
    IF service = KS_GETPP /\ found.result = KS_ERR_OK
    THEN [found EXCEPT !.items = PPItems(@)] ELSE found

-----------------------------------------------------------------------------
MessageInit ==
    /\ stage = "client" /\ serverKind \in ServerKinds
    /\ asked = [service |-> KS_NULL, params |-> <<>>, negotiator |-> "none",
               cred |-> AUTHNONE]
    /\ inFlight = <<>> /\ cut = FALSE /\ ran = NotRun /\ got = NoReply

\* requestByOpcode().
RequestWords(service, params, negotiator) ==
    Encode(KsRpcHeader, setRequest(7, 300664, 2, service, AUTHNONE))
    \o NegotiatorWords(negotiator)
    \o Encode(Services[service].params, params)

Ask ==
    /\ stage = "client"
    /\ \E service \in DOMAIN Services, negotiator \in Negotiators :
         \E params \in ParamSamples[service] :
            LET words == RequestWords(service, params, negotiator)
            IN /\ asked' = [service |-> service, params |-> params,
                            negotiator |-> negotiator, cred |-> AUTHNONE]
               /\ stage' = IF Encodable(words) THEN "request" ELSE "lost"
               /\ inFlight' = words
    /\ UNCHANGED <<serverKind, cut, ran, got>>

\* Another client pings, with or without credentials.
Ping(cred) ==
    /\ stage = "client"
    /\ asked' = [asked EXCEPT !.cred = cred]
    /\ stage' = "request"
    /\ inFlight' = Encode(KsRpcHeader, setRequest(7, 300664, 2, KS_NULL, cred))
    /\ UNCHANGED <<serverKind, cut, ran, got>>

Cut ==
    /\ stage = "request" /\ ~cut /\ asked.service # KS_NULL
    /\ \E n \in 10..(Len(inFlight) - 1) : inFlight' = SubSeq(inFlight, 1, n)
    /\ cut' = TRUE
    /\ UNCHANGED <<stage, serverKind, asked, ran, got>>

-----------------------------------------------------------------------------
\* The reply is sent if it can be encoded, otherwise the connection is reset.
Transmit(words) ==
    IF Encodable(words) THEN stage' = "reply" /\ inFlight' = words
                        ELSE stage' = "lost" /\ UNCHANGED inFlight

sendErrorReply(h, ticket, error) ==
    /\ Transmit(Encode(KsRpcHeader, acceptCall(h.xid)) \o TicketWords(ticket)
            \o <<IF error = KS_ERR_OK THEN KS_ERR_GENERIC ELSE error>>)
    /\ UNCHANGED ran

sendResult(h, ticket, layout, result) ==
    Transmit(Encode(KsRpcHeader, acceptCall(h.xid)) \o TicketWords(ticket)
         \o Encode(layout, result))

\* A registration is not accepted from another host.
dispatch(h, service, ticket) ==
    LET params == Decode(Services[service].params, ticket.rest)
    IN IF service \notin Dispatched(serverKind)
       THEN sendErrorReply(h, ticket, KS_ERR_NOTIMPLEMENTED)
       ELSE IF ~params.ok THEN sendErrorReply(h, ticket, KS_ERR_GENERIC)
       ELSE \/ /\ service \in LocalServices
               /\ sendErrorReply(h, ticket, KS_ERR_NOREMOTE)
            \/ \E found \in Found(service) :
                  /\ ran' = [service |-> service, params |-> params.value,
                             found |-> found, answer |-> Answer(service, found)]
                  /\ sendResult(h, ticket, Services[service].result, Answer(service, found))

dispatchTransport(h, w) ==
    LET ticket == getTicket(w)
    IN IF h.body.procedure = KS_NULL
       THEN Transmit(Encode(KsRpcHeader, acceptCall(h.xid))) /\ UNCHANGED ran
       ELSE IF ticket.result # KS_ERR_OK THEN sendErrorReply(h, ticket, ticket.result)
       ELSE \/ dispatch(h, h.body.procedure, ticket)
            \/ AddressLost /\ stage' = "lost" /\ UNCHANGED <<inFlight, ran>>

Serve ==
    LET header == Decode(KsRpcHeader, inFlight)
    IN /\ stage = "request"
       /\ IF header.ok THEN dispatchTransport(header.value, header.rest)
          ELSE Transmit(Encode(KsRpcHeader, setDecodeError(inFlight[1]))) /\ UNCHANGED ran
       /\ UNCHANGED <<serverKind, asked, cut, got>>

-----------------------------------------------------------------------------
\* The client: ticket and result follow the header of an accepted call.
Understand ==
    LET header == Decode(KsRpcHeader, inFlight)
        success == header.ok /\ header.value = acceptCall(7)
        result  == Decode(Services[asked.service].result, Tail(header.rest))
    IN /\ stage = "reply"
       /\ stage' = "done"
       /\ got' = IF ~success THEN NoReply
                 ELSE IF asked.service = KS_NULL THEN [ok |-> TRUE]
                 ELSE IF header.rest # <<>>
                         /\ header.rest[1] \in Acceptable(asked.negotiator) /\ result.ok
                 THEN [ok |-> TRUE, result |-> result.value] ELSE NoReply
       /\ UNCHANGED <<serverKind, asked, inFlight, cut, ran>>

MessageNext ==
    \/ Ask
    \/ \E cred \in {AUTHNONE, 1} : Ping(cred)
    \/ Cut
    \/ Serve
    \/ Understand

MessageSpec == MessageInit /\ [][MessageNext]_messageVars

-----------------------------------------------------------------------------
\* The service the server runs is the one asked for, with the parameters
\* the client gave; a result without error is what this service returned;
\* without a reason (a part is lost, the ticket is not known, the server has
\* no such service, or not for clients of another host) nothing is refused;
\* and every answer to a request of this library's clients can be read.
MessagesAreUnderstood ==
    /\ ran # NotRun => ran.service = asked.service /\ ran.params = asked.params
    /\ stage = "done" /\ got.ok /\ asked.service # KS_NULL =>
          IF ran # NotRun THEN got.result = ran.answer
          ELSE /\ got.result.result # KS_ERR_OK
               /\ \/ cut \/ asked.negotiator = "other"
                  \/ asked.service \in LocalServices
                  \/ asked.service \notin Dispatched(serverKind)
    /\ stage = "done" /\ asked.cred = AUTHNONE => got.ok

\* An old client that asks for projected properties gets those of every
\* object that the old protocol knows, in the order of the objects, and
\* those of no other.
OldClientsAreServed ==
    LET Known(item) == item.tag \notin {KS_OT_STRUCTURE, Unbound.tag}
        Names(items) == [i \in DOMAIN items |-> <<items[i].tag, items[i].identifier>>]
    IN /\ V1PlusCompatible /\ stage = "done" /\ got.ok
       /\ asked.service = KS_GETPP /\ got.result.result = KS_ERR_OK
       => Names(got.result.items) = Names(SelectSeq(ran.found.items, Known))
=============================================================================
