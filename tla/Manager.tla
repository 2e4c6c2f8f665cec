------------------------------ MODULE Manager ------------------------------
(***************************************************************************)
(* The KS manager's book-keeping of servers (ks/src/manager.cpp).  A       *)
(* registered server is kept in three places, which must agree:            *)
(*   table   _server_table: an object for every registered (name, version) *)
(*   tree    the domain /servers: the versions below every name            *)
(*   events  the timer queue: the expiry events, also those that belong to *)
(*           no server any more ("inactive") and wait to be deleted        *)
(* A server object and its event point to each other (pevent, pserver).    *)
(***************************************************************************)
EXTENDS Integers, FiniteSets

CONSTANTS
    Names, Versions,   \* of servers
    Ports, Ttls,       \* what they register with
    Self,              \* the manager's own name
    SelfVersion,       \* and version
    NoServer,          \* a null pointer pserver
    Faults,            \* "event", "tree": no memory for an event, for the tree
    MaxEvents          \* bound: servers come while there are fewer events

Desc == [name : Names, version : Versions]
NoEvent == 0           \* a null pointer pevent

ASSUME ManagerAssumption ==
    /\ Self \in Names /\ SelfVersion \in Versions /\ NoServer \notin Desc
    /\ Versions \subseteq Nat /\ Ttls \subseteq Nat
    /\ IsFiniteSet(Versions) /\ MaxEvents \in Nat

VARIABLES table, tree, events

mgrVars == <<table, tree, events>>

KsmServer == [port : Ports, ttl : Ttls, living : BOOLEAN, ev : Nat]
KsmExpireServerEvent == [srv : Desc \cup {NoServer}, due : Nat]

\* The constructor of KsManager puts the manager itself into the tree.
ManagerInit ==
    /\ table  = [d \in {} |-> {}]
    /\ tree   = [n \in {Self} |-> {SelfVersion}]
    /\ events = [e \in {} |-> {}]

-----------------------------------------------------------------------------
Without(f, x) == [y \in DOMAIN f \ {x} |-> f[y]]

With(f, x, v) == [y \in DOMAIN f \cup {x} |-> IF y = x THEN v ELSE f[y]]

\* A new expiry event, that is an address no other event has.
NewEvent == CHOOSE e \in 1 .. Cardinality(DOMAIN events) + 1 : e \notin DOMAIN events

\* pevent->pserver = 0
Inactivate(evs, e) == [evs EXCEPT ![e].srv = NoServer]

\* Slip: the old event is left active.
registerKnown_Active(d, port, ttl) ==
    /\ d \in DOMAIN table /\ table[d].ev # NoEvent
    /\ table' = [table EXCEPT ![d].port = port, ![d].living = TRUE, ![d].ev = NewEvent]
    /\ events' = With(events, NewEvent, [srv |-> d, due |-> ttl])
    /\ UNCHANGED tree

\* Slip: the port of the first registration is kept.
registerKnown_Port(d, port, ttl) ==
    /\ d \in DOMAIN table /\ table[d].ev # NoEvent
    /\ table' = [table EXCEPT ![d].living = TRUE, ![d].ev = NewEvent]
    /\ events' = With(Inactivate(events, table[d].ev), NewEvent, [srv |-> d, due |-> ttl])
    /\ UNCHANGED tree

\* registerServer() for a server that is known: it gets a new event, and the
\* old event is inactivated.  The time to live of the object stays as it is.
registerKnown(d, port, ttl) ==
    /\ d \in DOMAIN table /\ table[d].ev # NoEvent
    /\ table' = [table EXCEPT ![d].port = port, ![d].living = TRUE, ![d].ev = NewEvent]
    /\ events' = With(Inactivate(events, table[d].ev), NewEvent, [srv |-> d, due |-> ttl])
    /\ UNCHANGED tree

\* The domain of the new version, below a new or an existing domain.
AddToTree(d) == With(tree, d.name, IF d.name \in DOMAIN tree
                                   THEN tree[d.name] \cup {d.version} ELSE {d.version})

\* registerServer() for a server that is unknown.
registerUnknown(d, port, ttl) ==
    /\ d \notin DOMAIN table
    /\ table' = With(table, d, [port |-> port, ttl |-> ttl, living |-> TRUE,
                                ev |-> NewEvent])
    /\ events' = With(events, NewEvent, [srv |-> d, due |-> ttl])
    /\ tree' = AddToTree(d)

\* There is no memory for the event, or for the server object and its place
\* in the table; in the second case the event is already in the queue.
registerNoMemory(d, ttl) ==
    /\ "event" \in Faults
    /\ \/ UNCHANGED events
       \/ /\ d \notin DOMAIN table
          /\ events' = With(events, NewEvent, [srv |-> NoServer, due |-> ttl])
    /\ UNCHANGED <<table, tree>>

\* There is no memory for the place in the tree.  The object stays in the
\* table, without an event.  Only when the domain of the name is an old one,
\* and just the new version could not be added, this is reported as success.
registerNoTree(d, port, ttl, res) ==
    LET entry(e) == [port |-> port, ttl |-> ttl, living |-> TRUE, ev |-> e]
    IN  /\ "tree" \in Faults /\ d \notin DOMAIN table
        /\ \/ /\ res = "GENERIC" /\ d.name \notin DOMAIN tree
              /\ table' = With(table, d, entry(NoEvent))
              /\ events' = With(events, NewEvent, [srv |-> NoServer, due |-> ttl])
           \/ /\ res = "OK" /\ d.name \in DOMAIN tree
              /\ table' = With(table, d, entry(NewEvent))
              /\ events' = With(events, NewEvent, [srv |-> d, due |-> ttl])
        /\ UNCHANGED tree

registerServer(d, port, ttl, res) ==
    \/ /\ d.version < 1 \/ d.name = Self
       /\ res = "BADPARAM" /\ UNCHANGED mgrVars
    \/ /\ d.version >= 1 /\ d.name # Self
       /\ \/ res = "OK" /\ (registerKnown(d, port, ttl) \/ registerUnknown(d, port, ttl))
          \/ res = "GENERIC" /\ registerNoMemory(d, ttl)
          \/ registerNoTree(d, port, ttl, res)

\* Slip: other versions of the server are not looked for.
RemoveFromTree_Subtree(d) == Without(tree, d.name)

\* What removeServer() does to the tree: the last version takes the domain of
\* the name with it.
RemoveFromTree(d) ==
    IF Cardinality(tree[d.name]) = 1 THEN Without(tree, d.name)
    ELSE [tree EXCEPT ![d.name] = @ \ {d.version}]

unregisterServer(d, res) ==
    \/ d.name = Self /\ res = "BADPARAM" /\ UNCHANGED mgrVars
    \/ /\ d.name # Self /\ d \notin DOMAIN table
       /\ res = "SERVERUNKNOWN" /\ UNCHANGED mgrVars
    \/ /\ d.name # Self /\ d \in DOMAIN table /\ table[d].ev # NoEvent /\ res = "OK"
       /\ table' = Without(table, d)
       /\ events' = Inactivate(events, table[d].ev)
       /\ tree' = RemoveFromTree(d)

-----------------------------------------------------------------------------
\* KsmExpireServerEvent::trigger(): an event that belongs to no server...
TriggerInactive(e) ==
    /\ events[e].srv = NoServer
    /\ events' = Without(events, e)
    /\ UNCHANGED <<table, tree>>

\* Slip: the server is not marked.
TriggerLiving_Unmarked(e) ==
    /\ events[e].srv # NoServer /\ table[events[e].srv].living
    /\ events' = [events EXCEPT ![e].due = table[events[e].srv].ttl]
    /\ UNCHANGED <<table, tree>>

\* ...a server that has not registered again in time is marked as dead...
TriggerLiving(e) ==
    /\ events[e].srv # NoServer /\ table[events[e].srv].living
    /\ table' = [table EXCEPT ![events[e].srv].living = FALSE]
    /\ events' = [events EXCEPT ![e].due = table[events[e].srv].ttl]
    /\ UNCHANGED tree

\* ...and removed when it does not come back.
TriggerDead(e) ==
    /\ events[e].srv # NoServer /\ ~table[events[e].srv].living
    /\ table' = Without(table, events[e].srv)
    /\ events' = Without(events, e)
    /\ tree' = RemoveFromTree(events[e].srv)

trigger(e) ==
    /\ e \in DOMAIN events /\ events[e].due = 0
    /\ \/ TriggerInactive(e)
       \/ TriggerLiving(e)
       \/ TriggerDead(e)

\* Time passes: events that are due stay due until the manager comes to them.
TimePasses ==
    events' = [e \in DOMAIN events |->
                 [events[e] EXCEPT !.due = IF @ > 0 THEN @ - 1 ELSE 0]]

ManagerNext ==
    \/ \E d \in Desc, port \in Ports, ttl \in Ttls, res \in {"OK", "GENERIC", "BADPARAM"} :
         Cardinality(DOMAIN events) < MaxEvents /\ registerServer(d, port, ttl, res)
    \/ \E d \in Desc, res \in {"OK", "SERVERUNKNOWN", "BADPARAM"} : unregisterServer(d, res)
    \/ \E e \in DOMAIN events : trigger(e)
    \/ TimePasses /\ UNCHANGED <<table, tree>>

ManagerSpec == ManagerInit /\ [][ManagerNext]_mgrVars

-----------------------------------------------------------------------------
ManagerTypeOK ==
    /\ DOMAIN table \subseteq Desc /\ \A d \in DOMAIN table : table[d] \in KsmServer
    /\ DOMAIN tree \subseteq Names /\ \A n \in DOMAIN tree : tree[n] \subseteq Versions
    /\ DOMAIN events \subseteq Nat \ {NoEvent} /\ IsFiniteSet(DOMAIN events)
    /\ \A e \in DOMAIN events : events[e] \in KsmExpireServerEvent

\* The versions of server n in the table; the manager counts for itself.
VersionsOf(n) == {v \in Versions : [name |-> n, version |-> v] \in DOMAIN table}
                 \cup (IF n = Self THEN {SelfVersion} ELSE {})

\* /servers shows exactly the servers in the table, and the manager itself,
\* and no name without a version: unregistering, expiring or registering one
\* version of a server does not disturb its other versions.
TreeMatchesTable ==
    \A n \in Names :
        IF n \in DOMAIN tree THEN tree[n] = VersionsOf(n) /\ VersionsOf(n) # {}
        ELSE VersionsOf(n) = {}

\* Every registered server has one event that will expire it, in spite of
\* registrations that are renewed, withdrawn and expired in any order: the
\* pointers pevent and pserver are each other's inverse (assertion in
\* KsmExpireServerEvent::trigger), and no event points to a deleted object.
EventsAreLinked ==
    /\ \A d \in DOMAIN table : table[d].ev \in DOMAIN events /\ events[table[d].ev].srv = d
    /\ \A e \in DOMAIN events :
           events[e].srv # NoServer =>
               events[e].srv \in DOMAIN table /\ table[events[e].srv].ev = e

\* The manager never has an entry for itself in the table.
SelfIsNotRegistered == \A d \in DOMAIN table : d.name # Self

ManagerInv == ManagerTypeOK /\ TreeMatchesTable /\ EventsAreLinked /\ SelfIsNotRegistered

=============================================================================
