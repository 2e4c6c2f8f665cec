--------------------------- MODULE ManagerProofs ---------------------------
(***************************************************************************)
(* The server table, the tree and the expiry events of the KS manager      *)
(* agree, for all names, versions, ports and times to live, as long as the *)
(* tree does not run out of memory; and the servers that register with it  *)
(* are in its table, whatever requests and answers get lost or come late   *)
(* and whichever of them crash.                                            *)
(***************************************************************************)
EXTENDS Registration, FiniteSetTheorems, SequenceTheorems, TLAPS

\* A new event has an address of its own.
LEMMA NewEventIsNew ==
    ASSUME ManagerTypeOK
    PROVE  NewEvent \in Nat \ {NoEvent} /\ NewEvent \notin DOMAIN events
<1> DEFINE n == Cardinality(DOMAIN events)
<1>1. n \in Nat
  BY FS_CardinalityType DEF ManagerTypeOK
<1>2. IsFiniteSet(1 .. n + 1) /\ Cardinality(1 .. n + 1) = n + 1
  BY <1>1, FS_Interval
<1>3. \E e \in 1 .. n + 1 : e \notin DOMAIN events
  <2>1. SUFFICES ASSUME (1 .. n + 1) \subseteq DOMAIN events PROVE FALSE
    OBVIOUS
  <2>2. n + 1 <= n
    <3>1. IsFiniteSet(DOMAIN events)
      BY DEF ManagerTypeOK
    <3>2. Cardinality(1 .. n + 1) <= Cardinality(DOMAIN events)
      BY <2>1, <3>1, FS_Subset
    <3>3. QED
      BY <3>2, <1>2
  <2>3. QED
    BY <2>2, <1>1
<1>4. NewEvent \in 1 .. n + 1 /\ NewEvent \notin DOMAIN events
  BY <1>3 DEF NewEvent
<1>5. QED
  BY <1>4, <1>1 DEF NoEvent

\* The tree stays right when the table keeps its entries.
LEMMA TreeUnchanged ==
    ASSUME TreeMatchesTable, tree' = tree, DOMAIN table' = DOMAIN table
    PROVE  TreeMatchesTable'
BY DEF TreeMatchesTable, VersionsOf

\* The tree stays right when an entry is added to both.
LEMMA TreeAdds ==
    ASSUME TreeMatchesTable, ManagerTypeOK, NEW d \in Desc, d.name # Self,
           DOMAIN table' = DOMAIN table \cup {d}, tree' = AddToTree(d)
    PROVE  TreeMatchesTable'
<1>1. SUFFICES ASSUME NEW n \in Names
               PROVE  IF n \in DOMAIN tree'
                      THEN tree'[n] = VersionsOf(n)' /\ VersionsOf(n)' # {}
                      ELSE VersionsOf(n)' = {}
  BY DEF TreeMatchesTable
<1>2. /\ DOMAIN tree' = DOMAIN tree \cup {d.name}
      /\ \A m \in DOMAIN tree \ {d.name} : tree'[m] = tree[m]
      /\ tree'[d.name] = IF d.name \in DOMAIN tree THEN tree[d.name] \cup {d.version}
                         ELSE {d.version}
  BY DEF AddToTree, With
<1>3. d.name \in Names /\ d.version \in Versions /\ d = [name |-> d.name, version |-> d.version]
  BY DEF Desc
<1>4. CASE n = d.name
  <2>1. VersionsOf(n)' = VersionsOf(n) \cup {d.version}
    BY <1>3, <1>4 DEF VersionsOf
  <2>2. QED
    BY <2>1, <1>2, <1>3, <1>4 DEF TreeMatchesTable
<1>5. CASE n # d.name
  <2>1. VersionsOf(n)' = VersionsOf(n)
    BY <1>3, <1>5 DEF VersionsOf
  <2>2. QED
    BY <2>1, <1>2, <1>5 DEF TreeMatchesTable
<1>6. QED
  BY <1>4, <1>5

\* The tree stays right when an entry is removed from both.
LEMMA TreeRemoves ==
    ASSUME TreeMatchesTable, ManagerTypeOK, NEW d \in DOMAIN table, d.name # Self,
           DOMAIN table' = DOMAIN table \ {d}, tree' = RemoveFromTree(d)
    PROVE  TreeMatchesTable'
<1>1. d \in Desc
  BY DEF ManagerTypeOK
<1>2. d.name \in Names /\ d.version \in Versions /\ d = [name |-> d.name, version |-> d.version]
  BY <1>1 DEF Desc
<1>3. d.version \in VersionsOf(d.name)
  BY <1>2 DEF VersionsOf
<1>4. d.name \in DOMAIN tree /\ tree[d.name] = VersionsOf(d.name)
  BY <1>2, <1>3 DEF TreeMatchesTable
<1>5. VersionsOf(d.name)' = VersionsOf(d.name) \ {d.version}
  BY <1>2 DEF VersionsOf
<1>6. \A n \in Names \ {d.name} : VersionsOf(n)' = VersionsOf(n)
  BY <1>2 DEF VersionsOf
<1>7. IsFiniteSet(tree[d.name])
  BY <1>2, <1>4, ManagerAssumption, FS_Subset DEF ManagerTypeOK
<1>8. CASE Cardinality(tree[d.name]) = 1
  <2>1. tree' = Without(tree, d.name)
    BY <1>8 DEF RemoveFromTree
  <2>2. \E v : tree[d.name] = {v}
    BY <1>7, <1>8, FS_Singleton
  <2>3. VersionsOf(d.name)' = {}
    BY <2>2, <1>3, <1>4, <1>5
  <2>4. QED
    BY <2>1, <2>3, <1>6 DEF TreeMatchesTable, Without
<1>9. CASE Cardinality(tree[d.name]) # 1
  <2>1. tree' = [tree EXCEPT ![d.name] = @ \ {d.version}]
    BY <1>9 DEF RemoveFromTree
  <2>2. tree[d.name] # {d.version}
    BY <1>9, FS_Singleton
  <2>3. VersionsOf(d.name)' # {}
    BY <2>2, <1>3, <1>4, <1>5
  <2>4. QED
    BY <2>1, <2>3, <1>4, <1>5, <1>6 DEF TreeMatchesTable
<1>10. QED
  BY <1>8, <1>9

-----------------------------------------------------------------------------
\* A registration that is renewed.
LEMMA KnownKeeps ==
    ASSUME ManagerInv, NEW d \in Desc, NEW port \in Ports, NEW ttl \in Ttls,
           registerKnown(d, port, ttl)
    PROVE  ManagerInv'
<1> DEFINE e == NewEvent
           old == table[d].ev
<1> USE DEF ManagerInv
<1>1. e \in Nat \ {NoEvent} /\ e \notin DOMAIN events
  BY NewEventIsNew
<1> HIDE DEF e
<1>2. /\ d \in DOMAIN table /\ old # e
      /\ old \in DOMAIN events /\ events[old].srv = d
  BY <1>1 DEF registerKnown, EventsAreLinked
<1>3. /\ DOMAIN table' = DOMAIN table
      /\ \A x \in DOMAIN table : x # d => table'[x] = table[x]
      /\ table'[d] = [table[d] EXCEPT !.port = port, !.living = TRUE, !.ev = e]
  BY DEF registerKnown, e
<1>4. table[d] \in KsmServer
  BY <1>2 DEF ManagerTypeOK
<1>5. table'[d].ev = e /\ table'[d] \in KsmServer
  BY <1>1, <1>3, <1>4 DEF KsmServer
<1>6. /\ DOMAIN events' = DOMAIN events \cup {e}
      /\ events'[e] = [srv |-> d, due |-> ttl]
      /\ \A i \in DOMAIN events : i # old => events'[i] = events[i]
      /\ events'[old] = [events[old] EXCEPT !.srv = NoServer]
  BY <1>1, <1>2 DEF registerKnown, With, Inactivate, e
<1>7. events[old] \in KsmExpireServerEvent
  BY <1>2 DEF ManagerTypeOK
<1> HIDE DEF old
<1>8. events'[old].srv = NoServer /\ events'[old] \in KsmExpireServerEvent
  BY <1>6, <1>7 DEF KsmExpireServerEvent
<1>8a. events'[e].srv = d
  BY <1>6
<1>9. ManagerTypeOK'
  <2>1. tree' = tree
    BY DEF registerKnown
  <2>2. IsFiniteSet(DOMAIN events')
    BY <1>6, FS_AddElement DEF ManagerTypeOK
  <2>3. events'[e] \in KsmExpireServerEvent
    BY <1>6, ManagerAssumption DEF KsmExpireServerEvent
  <2>4. QED
    BY <2>1, <2>2, <2>3, <1>1, <1>3, <1>5, <1>6, <1>8 DEF ManagerTypeOK
<1>10. TreeMatchesTable'
  BY <1>3, TreeUnchanged DEF registerKnown
<1>11. EventsAreLinked'
  <2>1. \A x \in DOMAIN table : x # d => table[x].ev # old
    BY <1>2 DEF EventsAreLinked
  <2>2. ASSUME NEW x \in DOMAIN table'
        PROVE  table'[x].ev \in DOMAIN events' /\ events'[table'[x].ev].srv = x
    <3>1. CASE x = d
      BY <3>1, <1>5, <1>6, <1>8a
    <3>2. CASE x # d
      <4>1. x \in DOMAIN table /\ table'[x] = table[x] /\ table[x].ev # old
        BY <3>2, <2>1, <1>3
      <4>2. table[x].ev \in DOMAIN events /\ events[table[x].ev].srv = x
        BY <4>1 DEF EventsAreLinked
      <4>3. QED
        BY <4>1, <4>2, <1>6
    <3>3. QED
      BY <3>1, <3>2
  <2>3. ASSUME NEW i \in DOMAIN events', events'[i].srv # NoServer
        PROVE  events'[i].srv \in DOMAIN table' /\ table'[events'[i].srv].ev = i
    <3>1. CASE i = e
      BY <3>1, <1>2, <1>3, <1>5, <1>8a
    <3>2. CASE i # e
      <4>1. i \in DOMAIN events /\ i # old /\ events'[i] = events[i]
        BY <2>3, <3>2, <1>6, <1>8
      <4>2. events[i].srv \in DOMAIN table /\ table[events[i].srv].ev = i
        BY <2>3, <4>1 DEF EventsAreLinked
      <4>3. events[i].srv # d
        BY <4>1, <4>2 DEF old
      <4>4. QED
        BY <4>1, <4>2, <4>3, <1>3
    <3>3. QED
      BY <3>1, <3>2
  <2>4. QED
    BY <2>2, <2>3 DEF EventsAreLinked
<1>12. SelfIsNotRegistered'
  BY <1>3 DEF SelfIsNotRegistered
<1>13. QED
  BY <1>9, <1>10, <1>11, <1>12

\* The first registration.
LEMMA UnknownKeeps ==
    ASSUME ManagerInv, NEW d \in Desc, d.name # Self,
           NEW port \in Ports, NEW ttl \in Ttls, registerUnknown(d, port, ttl)
    PROVE  ManagerInv'
<1> DEFINE e == NewEvent
<1> USE DEF ManagerInv
<1>1. e \in Nat \ {NoEvent} /\ e \notin DOMAIN events
  BY NewEventIsNew
<1> HIDE DEF e
<1>2. /\ d \notin DOMAIN table
      /\ DOMAIN table' = DOMAIN table \cup {d}
      /\ \A x \in DOMAIN table : table'[x] = table[x]
      /\ table'[d] = [port |-> port, ttl |-> ttl, living |-> TRUE, ev |-> e]
  BY DEF registerUnknown, With, e
<1>3. /\ DOMAIN events' = DOMAIN events \cup {e}
      /\ events'[e] = [srv |-> d, due |-> ttl]
      /\ \A i \in DOMAIN events : events'[i] = events[i]
  BY <1>1 DEF registerUnknown, With, e
<1>4. table'[d] \in KsmServer /\ table'[d].ev = e
  BY <1>1, <1>2, ManagerAssumption DEF KsmServer
<1>5. events'[e] \in KsmExpireServerEvent /\ events'[e].srv = d
  BY <1>3, ManagerAssumption DEF KsmExpireServerEvent
<1>6. ManagerTypeOK'
  <2>1. DOMAIN tree' \subseteq Names /\ \A n \in DOMAIN tree' : tree'[n] \subseteq Versions
    BY DEF registerUnknown, AddToTree, With, ManagerTypeOK, Desc
  <2>2. IsFiniteSet(DOMAIN events')
    BY <1>3, FS_AddElement DEF ManagerTypeOK
  <2>3. QED
    BY <2>1, <2>2, <1>1, <1>2, <1>3, <1>4, <1>5 DEF ManagerTypeOK
<1>7. TreeMatchesTable'
  BY <1>2, TreeAdds DEF registerUnknown
<1>8. EventsAreLinked'
  BY <1>1, <1>2, <1>3, <1>4, <1>5 DEF EventsAreLinked
<1>9. SelfIsNotRegistered'
  BY <1>2 DEF SelfIsNotRegistered
<1>10. QED
  BY <1>6, <1>7, <1>8, <1>9

\* An inactive event that stays behind does no harm.
LEMMA NoMemoryKeeps ==
    ASSUME ManagerInv, NEW d \in Desc, NEW ttl \in Ttls, registerNoMemory(d, ttl)
    PROVE  ManagerInv'
<1> DEFINE e == NewEvent
<1> USE DEF ManagerInv
<1>1. e \in Nat \ {NoEvent} /\ e \notin DOMAIN events
  BY NewEventIsNew
<1> HIDE DEF e
<1>2. table' = table /\ tree' = tree
  BY DEF registerNoMemory
<1>3. CASE events' = events
  BY <1>2, <1>3, TreeUnchanged
       DEF ManagerTypeOK, EventsAreLinked, SelfIsNotRegistered
<1>4. CASE events' = With(events, e, [srv |-> NoServer, due |-> ttl])
  <2>1. /\ DOMAIN events' = DOMAIN events \cup {e}
        /\ events'[e] = [srv |-> NoServer, due |-> ttl]
        /\ \A i \in DOMAIN events : events'[i] = events[i]
    BY <1>1, <1>4 DEF With
  <2>2. events'[e] \in KsmExpireServerEvent /\ events'[e].srv = NoServer
    BY <2>1, ManagerAssumption DEF KsmExpireServerEvent
  <2>3. IsFiniteSet(DOMAIN events')
    BY <2>1, FS_AddElement DEF ManagerTypeOK
  <2>4. ManagerTypeOK'
    BY <2>1, <2>2, <2>3, <1>1, <1>2 DEF ManagerTypeOK
  <2>5. EventsAreLinked'
    BY <2>1, <2>2, <1>1, <1>2 DEF EventsAreLinked
  <2>6. QED
    BY <2>4, <2>5, <1>2, TreeUnchanged DEF SelfIsNotRegistered
<1>5. QED
  BY <1>3, <1>4 DEF registerNoMemory, e

\* A server that unregisters: its event is left behind, inactive.
LEMMA UnregisterKeeps ==
    ASSUME ManagerInv, NEW d \in Desc, NEW res, unregisterServer(d, res)
    PROVE  ManagerInv'
<1> USE DEF ManagerInv
<1>1. CASE UNCHANGED mgrVars
  BY <1>1 DEF mgrVars, ManagerTypeOK, TreeMatchesTable, VersionsOf, EventsAreLinked,
              SelfIsNotRegistered
<1>2. CASE /\ d.name # Self /\ d \in DOMAIN table
           /\ table' = Without(table, d)
           /\ events' = Inactivate(events, table[d].ev)
           /\ tree' = RemoveFromTree(d)
  <2> DEFINE old == table[d].ev
  <2>1. old \in DOMAIN events /\ events[old].srv = d
    BY <1>2 DEF EventsAreLinked
  <2>2. /\ DOMAIN table' = DOMAIN table \ {d}
        /\ \A x \in DOMAIN table' : table'[x] = table[x]
    BY <1>2 DEF Without
  <2>3. /\ DOMAIN events' = DOMAIN events
        /\ \A i \in DOMAIN events : i # old => events'[i] = events[i]
        /\ events'[old] = [events[old] EXCEPT !.srv = NoServer]
    BY <1>2, <2>1 DEF Inactivate
  <2>4. \A x \in DOMAIN table' : table[x].ev # old
    BY <2>1, <2>2 DEF EventsAreLinked
  <2>5. \A i \in DOMAIN events : events[i].srv = d => i = old
    BY <1>2, ManagerAssumption DEF EventsAreLinked
  <2> HIDE DEF old
  <2>6. events'[old] \in KsmExpireServerEvent /\ events'[old].srv = NoServer
    <3>1. events[old] \in KsmExpireServerEvent
      BY <2>1 DEF ManagerTypeOK
    <3>2. QED
      BY <3>1, <2>3 DEF KsmExpireServerEvent
  <2>7. DOMAIN tree' \subseteq Names /\ \A n \in DOMAIN tree' : tree'[n] \subseteq Versions
    BY <1>2 DEF RemoveFromTree, Without, ManagerTypeOK
  <2>8. ManagerTypeOK'
    BY <2>2, <2>3, <2>6, <2>7 DEF ManagerTypeOK
  <2>9. TreeMatchesTable'
    BY <1>2, <2>2, TreeRemoves
  <2>10. EventsAreLinked'
    <3>1. ASSUME NEW x \in DOMAIN table'
          PROVE  table'[x].ev \in DOMAIN events' /\ events'[table'[x].ev].srv = x
      <4>1. x \in DOMAIN table /\ table'[x] = table[x] /\ table[x].ev # old
        BY <2>2, <2>4
      <4>2. table[x].ev \in DOMAIN events /\ events[table[x].ev].srv = x
        BY <4>1 DEF EventsAreLinked
      <4>3. QED
        BY <4>1, <4>2, <2>3
    <3>2. ASSUME NEW i \in DOMAIN events', events'[i].srv # NoServer
          PROVE  events'[i].srv \in DOMAIN table' /\ table'[events'[i].srv].ev = i
      <4>1. i \in DOMAIN events /\ events'[i] = events[i] /\ events[i].srv # d
        BY <3>2, <2>3, <2>5, <2>6
      <4>2. events[i].srv \in DOMAIN table /\ table[events[i].srv].ev = i
        BY <3>2, <4>1 DEF EventsAreLinked
      <4>3. QED
        BY <4>1, <4>2, <2>2
    <3>3. QED
      BY <3>1, <3>2 DEF EventsAreLinked
  <2>11. SelfIsNotRegistered'
    BY <2>2 DEF SelfIsNotRegistered
  <2>12. QED
    BY <2>8, <2>9, <2>10, <2>11
<1>3. QED
  BY <1>1, <1>2 DEF unregisterServer

-----------------------------------------------------------------------------
\* An inactive event is deleted.
LEMMA TriggerInactiveKeeps ==
    ASSUME ManagerInv, NEW e \in DOMAIN events, TriggerInactive(e)
    PROVE  ManagerInv'
<1> USE DEF ManagerInv
<1>1. /\ DOMAIN events' = DOMAIN events \ {e}
      /\ \A i \in DOMAIN events' : events'[i] = events[i]
      /\ events[e].srv = NoServer
      /\ table' = table /\ tree' = tree
  BY DEF TriggerInactive, Without
<1>2. \A d \in DOMAIN table : table[d].ev # e
  BY <1>1, ManagerAssumption DEF EventsAreLinked, ManagerTypeOK
<1>3. IsFiniteSet(DOMAIN events')
  BY <1>1, FS_RemoveElement DEF ManagerTypeOK
<1>4. ManagerTypeOK'
  BY <1>1, <1>3 DEF ManagerTypeOK
<1>5. EventsAreLinked'
  BY <1>1, <1>2 DEF EventsAreLinked
<1>6. QED
  BY <1>1, <1>4, <1>5, TreeUnchanged DEF SelfIsNotRegistered

\* A living server is marked as dead; its event waits once more.
LEMMA TriggerLivingKeeps ==
    ASSUME ManagerInv, NEW e \in DOMAIN events, TriggerLiving(e)
    PROVE  ManagerInv'
<1> DEFINE d == events[e].srv
<1> USE DEF ManagerInv
<1>1. d \in DOMAIN table /\ table[d].ev = e
  BY DEF TriggerLiving, EventsAreLinked
<1>2. table[d] \in KsmServer /\ events[e] \in KsmExpireServerEvent
  BY <1>1 DEF ManagerTypeOK
<1>3. /\ table' = [table EXCEPT ![d].living = FALSE]
      /\ events' = [events EXCEPT ![e].due = table[d].ttl]
      /\ tree' = tree
  BY DEF TriggerLiving
<1>4. /\ DOMAIN table' = DOMAIN table
      /\ \A x \in DOMAIN table : x # d => table'[x] = table[x]
      /\ table'[d] = [table[d] EXCEPT !.living = FALSE]
  BY <1>1, <1>3
<1>5. /\ DOMAIN events' = DOMAIN events
      /\ \A i \in DOMAIN events : i # e => events'[i] = events[i]
      /\ events'[e] = [events[e] EXCEPT !.due = table[d].ttl]
  BY <1>3
<1>6. table'[d] \in KsmServer /\ table'[d].ev = table[d].ev
  BY <1>2, <1>4 DEF KsmServer
<1>7. events'[e] \in KsmExpireServerEvent /\ events'[e].srv = d
  BY <1>2, <1>5, ManagerAssumption DEF KsmServer, KsmExpireServerEvent
<1> HIDE DEF d
<1>8. \A x \in DOMAIN table : table'[x].ev = table[x].ev /\ table'[x] \in KsmServer
  BY <1>4, <1>6 DEF ManagerTypeOK
<1>9. \A i \in DOMAIN events : /\ events'[i].srv = events[i].srv
                              /\ events'[i] \in KsmExpireServerEvent
  BY <1>5, <1>7 DEF ManagerTypeOK, d
<1>10. ManagerTypeOK'
  BY <1>3, <1>4, <1>5, <1>8, <1>9 DEF ManagerTypeOK
<1>11. EventsAreLinked'
  BY <1>4, <1>5, <1>8, <1>9 DEF EventsAreLinked
<1>12. QED
  BY <1>3, <1>4, <1>10, <1>11, TreeUnchanged DEF SelfIsNotRegistered

\* A dead server is removed together with its event.
LEMMA TriggerDeadKeeps ==
    ASSUME ManagerInv, NEW e \in DOMAIN events, TriggerDead(e)
    PROVE  ManagerInv'
<1> DEFINE d == events[e].srv
<1> USE DEF ManagerInv
<1>1. d \in DOMAIN table /\ table[d].ev = e /\ d # NoServer
  BY DEF TriggerDead, EventsAreLinked
<1>2. /\ table' = Without(table, d)
      /\ events' = Without(events, e)
      /\ tree' = RemoveFromTree(d)
  BY DEF TriggerDead
<1> HIDE DEF d
<1>3. /\ DOMAIN table' = DOMAIN table \ {d}
      /\ \A x \in DOMAIN table' : table'[x] = table[x]
  BY <1>2 DEF Without
<1>4. /\ DOMAIN events' = DOMAIN events \ {e}
      /\ \A i \in DOMAIN events' : events'[i] = events[i]
  BY <1>2 DEF Without
<1>5. \A x \in DOMAIN table' : table[x].ev # e
  BY <1>3 DEF EventsAreLinked, d
<1>6. \A i \in DOMAIN events' : events[i].srv # d
  BY <1>1, <1>4 DEF EventsAreLinked
<1>7. DOMAIN tree' \subseteq Names /\ \A n \in DOMAIN tree' : tree'[n] \subseteq Versions
  BY <1>2 DEF RemoveFromTree, Without, ManagerTypeOK
<1>8. IsFiniteSet(DOMAIN events')
  BY <1>4, FS_RemoveElement DEF ManagerTypeOK
<1>9. ManagerTypeOK'
  BY <1>3, <1>4, <1>7, <1>8 DEF ManagerTypeOK
<1>10. TreeMatchesTable'
  BY <1>1, <1>2, <1>3, TreeRemoves DEF SelfIsNotRegistered
<1>11. EventsAreLinked'
  BY <1>3, <1>4, <1>5, <1>6 DEF EventsAreLinked
<1>12. QED
  BY <1>3, <1>9, <1>10, <1>11 DEF SelfIsNotRegistered

\* Time passes.
LEMMA TimePassesKeeps ==
    ASSUME ManagerInv, TimePasses, UNCHANGED <<table, tree>>
    PROVE  ManagerInv'
<1> USE DEF ManagerInv
<1>1. DOMAIN events' = DOMAIN events
  BY DEF TimePasses
<1>2. ASSUME NEW i \in DOMAIN events
      PROVE  events'[i].srv = events[i].srv /\ events'[i] \in KsmExpireServerEvent
  <2>1. events[i] \in KsmExpireServerEvent
    BY DEF ManagerTypeOK
  <2>2. events'[i] = [events[i] EXCEPT !.due = IF @ > 0 THEN @ - 1 ELSE 0]
    BY DEF TimePasses
  <2>3. QED
    BY <2>1, <2>2 DEF KsmExpireServerEvent
<1>3. ManagerTypeOK'
  BY <1>1, <1>2 DEF ManagerTypeOK
<1>4. EventsAreLinked'
  BY <1>1, <1>2 DEF EventsAreLinked
<1>5. QED
  BY <1>3, <1>4, TreeUnchanged DEF SelfIsNotRegistered

-----------------------------------------------------------------------------
\* A manager that has just been started is consistent.
LEMMA InitInv == ManagerInit => ManagerInv
<1> SUFFICES ASSUME ManagerInit PROVE ManagerInv
  OBVIOUS
<1>1. DOMAIN table = {} /\ DOMAIN events = {}
  BY DEF ManagerInit
<1>2. DOMAIN tree = {Self} /\ tree[Self] = {SelfVersion}
  BY DEF ManagerInit
<1>3. ManagerTypeOK
  BY <1>1, <1>2, ManagerAssumption, FS_EmptySet DEF ManagerTypeOK
<1>4. TreeMatchesTable
  BY <1>1, <1>2 DEF TreeMatchesTable, VersionsOf
<1>5. QED
  BY <1>1, <1>3, <1>4 DEF ManagerInv, EventsAreLinked, SelfIsNotRegistered

\* Every call and every event keeps the manager consistent.
LEMMA NextKeepsInv ==
    ASSUME ManagerInv, [ManagerNext]_mgrVars, "tree" \notin Faults
    PROVE  ManagerInv'
<1>1. ASSUME NEW d \in Desc, NEW port \in Ports, NEW ttl \in Ttls, NEW res,
             registerServer(d, port, ttl, res), ~UNCHANGED mgrVars
      PROVE  ManagerInv'
  <2>1. d.name # Self
    BY <1>1 DEF registerServer
  <2>2. registerKnown(d, port, ttl) \/ registerUnknown(d, port, ttl)
            \/ registerNoMemory(d, ttl)
    BY <1>1 DEF registerServer, registerNoTree
  <2>3. QED
    BY <2>1, <2>2, KnownKeeps, UnknownKeeps, NoMemoryKeeps
<1>2. ASSUME NEW e \in DOMAIN events, trigger(e)
      PROVE  ManagerInv'
  BY <1>2, TriggerInactiveKeeps, TriggerLivingKeeps, TriggerDeadKeeps DEF trigger
<1>3. CASE UNCHANGED mgrVars
  BY <1>3 DEF mgrVars, ManagerInv, ManagerTypeOK, TreeMatchesTable, VersionsOf,
              EventsAreLinked, SelfIsNotRegistered
<1>4. QED
  BY <1>1, <1>2, <1>3, UnregisterKeeps, TimePassesKeeps DEF ManagerNext

\* The three places in which the manager keeps its servers agree at all times,
\* whatever servers register, renew, withdraw or let expire, in any order.
THEOREM ManagerIsConsistent ==
    ASSUME "tree" \notin Faults
    PROVE  ManagerSpec => []ManagerInv
<1>1. ManagerInv /\ [ManagerNext]_mgrVars => ManagerInv'
  BY NextKeepsInv
<1>2. QED
  BY InitInv, <1>1, PTL DEF ManagerSpec

\* /servers shows exactly the servers in the table.
THEOREM TreeIsCurrent ==
    ASSUME "tree" \notin Faults
    PROVE  ManagerSpec => []TreeMatchesTable
<1>1. ManagerInv => TreeMatchesTable
  BY DEF ManagerInv
<1>2. QED
  BY <1>1, ManagerIsConsistent, PTL

\* Servers and their expiry events point to each other; no event points to a
\* server object that has been deleted.
THEOREM EventsStayLinked ==
    ASSUME "tree" \notin Faults
    PROVE  ManagerSpec => []EventsAreLinked
<1>1. ManagerInv => EventsAreLinked
  BY DEF ManagerInv
<1>2. QED
  BY <1>1, ManagerIsConsistent, PTL

-----------------------------------------------------------------------------
(***************************************************************************)
(* What the steps of the manager do to the entry of a server.              *)
(***************************************************************************)
EntryKept(d) == /\ d \in DOMAIN table' /\ table'[d] = table[d]
                /\ events'[table[d].ev].due = events[table[d].ev].due

EntryRenewed(d, port, ttl) ==
    /\ d \in DOMAIN table' /\ table'[d].port = port /\ table'[d].living
    /\ table'[d].ttl = IF d \in DOMAIN table THEN table[d].ttl ELSE ttl
    /\ events'[table'[d].ev].due = ttl

\* An entry and its event have the types of their fields.
LEMMA EntryType ==
    ASSUME ManagerInv, NEW d \in DOMAIN table
    PROVE  /\ d \in Desc /\ table[d] \in KsmServer /\ table[d].ttl \in Nat
           /\ table[d].living \in BOOLEAN /\ table[d].ev \in DOMAIN events
           /\ events[table[d].ev].due \in Nat
BY ManagerAssumption DEF ManagerInv, ManagerTypeOK, EventsAreLinked, KsmServer,
                         KsmExpireServerEvent

\* A registration that succeeds renews the entry; it leaves the others alone.
LEMMA RegisterEffect ==
    ASSUME ManagerInv, "tree" \notin Faults, NEW d \in Desc, NEW port \in Ports,
           NEW ttl \in Ttls, NEW res, registerServer(d, port, ttl, res)
    PROVE  /\ ManagerInv'
           /\ \A x \in DOMAIN table : x # d \/ res # "OK" => EntryKept(x)
           /\ res = "OK" => EntryRenewed(d, port, ttl) /\ DOMAIN table' = DOMAIN table \cup {d}
           /\ res # "OK" => DOMAIN table' = DOMAIN table
<1> DEFINE e == NewEvent
<1>1. e \in Nat \ {NoEvent} /\ e \notin DOMAIN events
  BY NewEventIsNew DEF ManagerInv
<1> HIDE DEF e
<1>2. ManagerInv'
  <2>1. CASE UNCHANGED mgrVars
    BY <2>1 DEF mgrVars, ManagerInv, ManagerTypeOK, TreeMatchesTable, VersionsOf,
                EventsAreLinked, SelfIsNotRegistered
  <2>2. CASE d.name # Self /\ (registerKnown(d, port, ttl) \/ registerUnknown(d, port, ttl)
                                 \/ registerNoMemory(d, ttl))
    BY <2>2, KnownKeeps, UnknownKeeps, NoMemoryKeeps
  <2>. QED
    BY <2>1, <2>2 DEF registerServer, registerNoTree
<1>3. CASE UNCHANGED mgrVars /\ res = "BADPARAM"
  BY <1>2, <1>3 DEF mgrVars, EntryKept
<1>4. CASE res = "OK" /\ registerKnown(d, port, ttl)
  <2> DEFINE old == table[d].ev
  <2>1. d \in DOMAIN table /\ table[d] \in KsmServer /\ old \in DOMAIN events
    BY <1>4, EntryType DEF registerKnown
  <2>2. /\ DOMAIN table' = DOMAIN table
        /\ \A x \in DOMAIN table : x # d => table'[x] = table[x]
        /\ table'[d] = [table[d] EXCEPT !.port = port, !.living = TRUE, !.ev = e]
    BY <1>4 DEF registerKnown, e
  <2>3. /\ table'[d].port = port /\ table'[d].living /\ table'[d].ev = e
        /\ table'[d].ttl = table[d].ttl
    BY <2>1, <2>2 DEF KsmServer
  <2>4. /\ events'[e] = [srv |-> d, due |-> ttl]
        /\ \A i \in DOMAIN events : i # old => events'[i] = events[i]
    BY <1>1, <1>4, <2>1 DEF registerKnown, With, Inactivate, e
  <2>5. \A x \in DOMAIN table : x # d => table[x].ev \in DOMAIN events /\ table[x].ev # old
    BY <2>1 DEF ManagerInv, EventsAreLinked
  <2>6. \A x \in DOMAIN table : x # d => EntryKept(x)
    <3>. HIDE DEF old
    <3>. QED
      BY <2>2, <2>4, <2>5 DEF EntryKept
  <2>7. events'[e].due = ttl
    BY <2>4
  <2>8. EntryRenewed(d, port, ttl)
    BY <2>1, <2>2, <2>3, <2>7 DEF EntryRenewed
  <2>. QED
    BY <1>2, <1>4, <2>1, <2>2, <2>6, <2>8
<1>5. CASE res = "OK" /\ registerUnknown(d, port, ttl)
  <2>1. /\ d \notin DOMAIN table /\ DOMAIN table' = DOMAIN table \cup {d}
        /\ \A x \in DOMAIN table : table'[x] = table[x]
        /\ table'[d] = [port |-> port, ttl |-> ttl, living |-> TRUE, ev |-> e]
    BY <1>5 DEF registerUnknown, With, e
  <2>2. /\ events'[e] = [srv |-> d, due |-> ttl]
        /\ \A i \in DOMAIN events : events'[i] = events[i]
    BY <1>1, <1>5 DEF registerUnknown, With, e
  <2>3. EntryRenewed(d, port, ttl)
    BY <2>1, <2>2 DEF EntryRenewed
  <2>4. \A x \in DOMAIN table : EntryKept(x)
    BY <2>1, <2>2, EntryType DEF EntryKept
  <2>. QED
    BY <1>2, <1>5, <2>1, <2>3, <2>4
<1>6. CASE res = "GENERIC" /\ registerNoMemory(d, ttl)
  <2>1. table' = table /\ \A i \in DOMAIN events : events'[i] = events[i]
    BY <1>1, <1>6 DEF registerNoMemory, With, e
  <2>. QED
    BY <1>2, <1>6, <2>1, EntryType DEF EntryKept
<1>. QED
  BY <1>3, <1>4, <1>5, <1>6 DEF registerServer, registerNoTree

\* A server that withdraws leaves the other entries alone.
LEMMA UnregisterEffect ==
    ASSUME ManagerInv, NEW d \in Desc, NEW res, unregisterServer(d, res)
    PROVE  /\ ManagerInv' /\ DOMAIN table' \subseteq DOMAIN table
           /\ \A x \in DOMAIN table : x # d => EntryKept(x)
<1>1. ManagerInv'
  BY UnregisterKeeps
<1>2. CASE UNCHANGED mgrVars
  BY <1>1, <1>2 DEF mgrVars, EntryKept
<1>3. CASE /\ d \in DOMAIN table
           /\ table' = Without(table, d)
           /\ events' = Inactivate(events, table[d].ev)
  <2> DEFINE old == table[d].ev
  <2>1. DOMAIN table' = DOMAIN table \ {d} /\ \A x \in DOMAIN table' : table'[x] = table[x]
    BY <1>3 DEF Without
  <2>2. \A i \in DOMAIN events : i # old => events'[i] = events[i]
    BY <1>3 DEF Inactivate
  <2>3. \A x \in DOMAIN table : x # d => table[x].ev \in DOMAIN events /\ table[x].ev # old
    BY <1>3 DEF ManagerInv, EventsAreLinked
  <2>. HIDE DEF old
  <2>. QED
    BY <1>1, <2>1, <2>2, <2>3 DEF EntryKept
<1>. QED
  BY <1>2, <1>3 DEF unregisterServer

\* An event that is due marks its server as dead, and waits for the time to
\* live of the server, or removes one that is dead already.
LEMMA TriggerEffect ==
    ASSUME ManagerInv, NEW e \in DOMAIN events, trigger(e)
    PROVE  /\ ManagerInv' /\ DOMAIN table' \subseteq DOMAIN table
           /\ \A x \in DOMAIN table : table'[x].ttl = table[x].ttl \/ x \notin DOMAIN table'
           /\ \A x \in DOMAIN table :
                 \/ EntryKept(x)
                 \/ /\ events[table[x].ev].due = 0 /\ table[x].living
                    /\ x \in DOMAIN table' /\ table'[x].port = table[x].port
                    /\ table'[x].living = FALSE
                    /\ events'[table'[x].ev].due = table[x].ttl
                 \/ events[table[x].ev].due = 0 /\ ~table[x].living
<1> DEFINE d == events[e].srv
<1>1. ManagerInv'
  BY TriggerInactiveKeeps, TriggerLivingKeeps, TriggerDeadKeeps DEF trigger
<1>2. events[e].due = 0
  BY DEF trigger
<1>3. d # NoServer => d \in DOMAIN table /\ table[d].ev = e
  BY DEF ManagerInv, EventsAreLinked
<1>4. \A x \in DOMAIN table : /\ table[x].ev \in DOMAIN events
                              /\ events[table[x].ev].srv = x /\ x # NoServer
  BY ManagerAssumption DEF ManagerInv, EventsAreLinked, ManagerTypeOK
<1>5. \A x \in DOMAIN table : x # d => table[x].ev # e
  BY <1>4
<1>6. CASE TriggerInactive(e)
  <2>1. table' = table /\ \A i \in DOMAIN events : i # e => events'[i] = events[i]
    BY <1>6 DEF TriggerInactive, Without
  <2>2. \A x \in DOMAIN table : table[x].ev # e
    BY <1>4, <1>6 DEF TriggerInactive
  <2>. QED
    BY <1>1, <1>4, <2>1, <2>2 DEF EntryKept
<1>7. CASE TriggerLiving(e)
  <2>1. d \in DOMAIN table /\ table[d].ev = e /\ table[d].living
    BY <1>3, <1>7 DEF TriggerLiving
  <2>2. table[d] \in KsmServer /\ events[e] \in KsmExpireServerEvent
    BY <2>1, EntryType DEF ManagerInv, ManagerTypeOK
  <2>3. /\ DOMAIN table' = DOMAIN table
        /\ \A x \in DOMAIN table : x # d => table'[x] = table[x]
        /\ table'[d] = [table[d] EXCEPT !.living = FALSE]
    BY <1>7, <2>1 DEF TriggerLiving
  <2>4. /\ \A i \in DOMAIN events : i # e => events'[i] = events[i]
        /\ events'[e] = [events[e] EXCEPT !.due = table[d].ttl]
    BY <1>7 DEF TriggerLiving
  <2>5. /\ table'[d].living = FALSE /\ table'[d].ev = e
        /\ table'[d].port = table[d].port /\ table'[d].ttl = table[d].ttl
    BY <2>1, <2>2, <2>3 DEF KsmServer
  <2>6. events'[e].due = table[d].ttl
    BY <2>2, <2>4 DEF KsmExpireServerEvent
  <2> HIDE DEF d
  <2>7. ASSUME NEW x \in DOMAIN table, x # d PROVE EntryKept(x)
    BY <1>4, <1>5, <2>3, <2>4, <2>7 DEF EntryKept
  <2>8. \A x \in DOMAIN table : table'[x].ttl = table[x].ttl
    BY <2>3, <2>5
  <2>. QED
    BY <1>1, <1>2, <2>1, <2>3, <2>5, <2>6, <2>7, <2>8
<1>8. CASE TriggerDead(e)
  <2>1. d \in DOMAIN table /\ table[d].ev = e /\ ~table[d].living
    BY <1>3, <1>8 DEF TriggerDead
  <2>2. DOMAIN table' = DOMAIN table \ {d} /\ \A x \in DOMAIN table' : table'[x] = table[x]
    BY <1>8 DEF TriggerDead, Without
  <2>3. \A i \in DOMAIN events : i # e => events'[i] = events[i]
    BY <1>8 DEF TriggerDead, Without
  <2> HIDE DEF d
  <2>4. ASSUME NEW x \in DOMAIN table, x # d PROVE EntryKept(x)
    BY <1>4, <1>5, <2>2, <2>3, <2>4 DEF EntryKept
  <2>. QED
    BY <1>1, <1>2, <2>1, <2>2, <2>4
<1>. QED
  BY <1>6, <1>7, <1>8 DEF trigger

-----------------------------------------------------------------------------
(***************************************************************************)
(* The requests in the socket of the manager.                              *)
(***************************************************************************)
Request == [srv : Slots, op : {"REGISTER", "UNREGISTER"}, fresh : BOOLEAN]

\* Requests are taken from the front, and answers are no longer awaited.
Passed(off) ==
    \A i \in DOMAIN sock' :
        /\ i + off \in DOMAIN sock
        /\ sock'[i].srv = sock[i + off].srv /\ sock'[i].op = sock[i + off].op
        /\ sock'[i].fresh => sock[i + off].fresh /\ st'[sock'[i].srv] = st[sock'[i].srv]

\* Giving up a call leaves its requests where they are.
LEMMA StaleProperties ==
    ASSUME NEW q \in Seq(Request), NEW s \in Slots
    PROVE  /\ Stale(q, s) \in Seq(Request) /\ DOMAIN Stale(q, s) = DOMAIN q
           /\ \A i \in DOMAIN q : /\ Stale(q, s)[i].srv = q[i].srv
                                  /\ Stale(q, s)[i].op = q[i].op
                                  /\ Stale(q, s)[i].fresh => q[i].fresh /\ q[i].srv # s
<1>1. DOMAIN q = 1 .. Len(q) /\ Len(q) \in Nat
  BY LenProperties
<1>2. \A i \in DOMAIN q : q[i] \in Request
  BY <1>1, ElementOfSeq
<1>3. ASSUME NEW i \in DOMAIN q
      PROVE  /\ Stale(q, s)[i] \in Request
             /\ Stale(q, s)[i].srv = q[i].srv /\ Stale(q, s)[i].op = q[i].op
             /\ Stale(q, s)[i].fresh => q[i].fresh /\ q[i].srv # s
  <2>1. Stale(q, s)[i] = IF q[i].srv = s THEN [q[i] EXCEPT !.fresh = FALSE] ELSE q[i]
    BY DEF Stale
  <2>2. q[i] \in Request
    BY <1>2
  <2>. QED
    BY <2>1, <2>2 DEF Request
<1>4. DOMAIN Stale(q, s) = 1 .. Len(q)
  BY <1>1 DEF Stale
<1>5. Stale(q, s) \in [1 .. Len(q) -> Request]
  <2>1. Stale(q, s) = [i \in 1 .. Len(q) |-> Stale(q, s)[i]]
    BY <1>1 DEF Stale
  <2>. QED
    BY <1>1, <1>3, <2>1
<1>6. Stale(q, s) \in Seq(Request)
  BY <1>1, <1>5, SeqDef
<1>. QED
  BY <1>1, <1>3, <1>4, <1>6

\* A request that is sent comes after all others.
LEMMA SendProperties ==
    ASSUME sock \in Seq(Request), NEW s \in Slots,
           NEW op \in {"REGISTER", "UNREGISTER"}, Send(s, op)
    PROVE  /\ sock' \in Seq(Request)
           /\ \/ sock' = sock
              \/ /\ DOMAIN sock' = DOMAIN sock \cup {Len(sock) + 1}
                 /\ \A i \in DOMAIN sock : i < Len(sock) + 1 /\ sock'[i] = sock[i]
                 /\ sock'[Len(sock) + 1] = [srv |-> s, op |-> op, fresh |-> TRUE]
<1> DEFINE r == [srv |-> s, op |-> op, fresh |-> TRUE]
<1>1. r \in Request
  BY DEF Request
<1> HIDE DEF r
<1>2. CASE sock' = Append(sock, r)
  <2>1. DOMAIN sock = 1 .. Len(sock) /\ Len(sock) \in Nat
    BY LenProperties
  <2>2. /\ sock' \in Seq(Request) /\ Len(sock') = Len(sock) + 1
        /\ \A i \in 1 .. Len(sock) : sock'[i] = sock[i]
        /\ sock'[Len(sock) + 1] = r
    BY <1>1, <1>2, AppendProperties
  <2>3. DOMAIN sock' = 1 .. Len(sock) + 1
    BY <2>2, LenProperties
  <2>. QED
    BY <2>1, <2>2, <2>3 DEF r
<1>. QED
  BY <1>2 DEF Send, r

\* Requests that are taken or given up stay in order.
LEMMA PassedKeepsRequests ==
    ASSUME RegTypeOK, FreshIsAwaited, LaterRequestsRepeat,
           NEW off \in {0, 1}, Passed(off),
           sock' \in Seq(Request), missed' \in [Slots -> Int],
           \A s \in Slots : missed'[s] >= 0 =>
               \/ missed[s] >= 0
               \/ /\ off = 1 /\ sock # << >> /\ sock[1].fresh
                  /\ sock[1].op = "REGISTER" /\ sock[1].srv = s
    PROVE  FreshIsAwaited' /\ LaterRequestsRepeat'
<1>1. /\ DOMAIN sock = 1 .. Len(sock) /\ Len(sock) \in Nat
      /\ DOMAIN sock' = 1 .. Len(sock') /\ Len(sock') \in Nat
  BY LenProperties DEF RegTypeOK
<1>2. \A i \in DOMAIN sock' : sock'[i].srv \in Slots
  <2>1. \A i \in DOMAIN sock' : sock'[i] \in Request
    BY <1>1, ElementOfSeq
  <2>. QED
    BY <2>1 DEF Request
<1>3. FreshIsAwaited'
  BY DEF FreshIsAwaited, Passed
<1>4. ASSUME NEW i \in DOMAIN sock', NEW j \in DOMAIN sock', i < j,
             sock'[i].fresh, sock'[i].op = "REGISTER"
      PROVE  Repeats(j, sock[i].srv)'
  <2>1. /\ i + off \in DOMAIN sock /\ j + off \in DOMAIN sock /\ i + off < j + off
        /\ sock[i + off].fresh /\ sock[i + off].op = "REGISTER"
        /\ sock'[i].srv = sock[i + off].srv
        /\ sock'[j].srv = sock[j + off].srv /\ sock'[j].op = sock[j + off].op
    BY <1>1, <1>4 DEF Passed
  <2>2. Repeats(j + off, sock[i + off].srv)
    BY <2>1 DEF LaterRequestsRepeat
  <2>. QED
    BY <2>1, <2>2 DEF Repeats
<1>5. ASSUME NEW s \in Slots, NEW i \in DOMAIN sock', missed'[s] >= 0
      PROVE  Repeats(i, s)'
  <2>1. /\ i + off \in DOMAIN sock
        /\ sock'[i].srv = sock[i + off].srv /\ sock'[i].op = sock[i + off].op
    BY DEF Passed
  <2>2. Repeats(i + off, s)
    <3>1. CASE missed[s] >= 0
      BY <2>1, <3>1 DEF LaterRequestsRepeat
    <3>2. CASE /\ off = 1 /\ sock # << >> /\ sock[1].fresh
               /\ sock[1].op = "REGISTER" /\ sock[1].srv = s
      <4>1. 1 \in DOMAIN sock /\ 1 < i + off
        BY <1>1, <2>1, <3>2
      <4>. QED
        BY <2>1, <3>2, <4>1 DEF LaterRequestsRepeat
    <3>. QED
      BY <1>5, <3>1, <3>2
  <2>. QED
    BY <2>1, <2>2 DEF Repeats
<1>6. \A s \in Slots, i \in DOMAIN sock' : missed'[s] >= 0 => Repeats(i, s)'
  BY <1>5
<1>7. \A i, j \in DOMAIN sock' :
          i < j /\ sock'[i].fresh /\ sock'[i].op = "REGISTER" => Repeats(j, sock[i].srv)'
  BY <1>4
<1>8. LaterRequestsRepeat'
  BY <1>6, <1>7 DEF LaterRequestsRepeat, Repeats
<1>. QED
  BY <1>3, <1>8

\* A server that sends a request is the only one of its name; it withdraws
\* only when it does not rely on its registration any more.
LEMMA SendKeepsRequests ==
    ASSUME RegTypeOK, RequestInv, NEW s \in Slots, NEW op \in {"REGISTER", "UNREGISTER"},
           Send(s, op), st[s] # "off",
           st'[s] = (IF op = "REGISTER" THEN "reg" ELSE "unreg"),
           \A t \in Slots : t # s => st'[t] = st[t],
           st'[s] # st[s] => st[s] = "run",
           missed' \in [Slots -> Int],
           \A t \in Slots : missed'[t] >= 0 =>
               missed[t] >= 0 /\ (t = s => op = "REGISTER")
    PROVE  sock' \in Seq(Request) /\ FreshIsAwaited' /\ LaterRequestsRepeat'
<1>0. sock \in Seq(Request) /\ DOMAIN sock = 1 .. Len(sock) /\ Len(sock) \in Nat
  BY LenProperties DEF RegTypeOK, Request
<1>1. \A i \in DOMAIN sock : sock[i] \in Request /\ sock[i].srv \in Slots
  <2>1. \A i \in DOMAIN sock : sock[i] \in Request
    BY <1>0, ElementOfSeq
  <2>. QED
    BY <2>1 DEF Request
<1>2. sock' \in Seq(Request)
  BY <1>0, SendProperties
<1>3. \A i \in DOMAIN sock : sock[i].fresh => st'[sock[i].srv] = st[sock[i].srv]
  BY <1>1 DEF RequestInv, FreshIsAwaited
<1>4. \A t \in Slots : missed[t] >= 0 /\ DescOf[t] = DescOf[s] => t = s
  <2>1. \A t \in Slots : missed[t] >= 0 => Serves(t)
    BY DEF RequestInv, TimersAreBounded
  <2>. QED
    BY <2>1 DEF RequestInv, OneServerPerName, Serves
<1>5. CASE sock' = sock
  <2>1. FreshIsAwaited'
    BY <1>3, <1>5 DEF RequestInv, FreshIsAwaited
  <2>2. LaterRequestsRepeat'
    BY <1>5 DEF RequestInv, LaterRequestsRepeat, Repeats
  <2>. QED
    BY <1>2, <2>1, <2>2
<1>6. CASE /\ DOMAIN sock' = DOMAIN sock \cup {Len(sock) + 1}
           /\ \A i \in DOMAIN sock : i < Len(sock) + 1 /\ sock'[i] = sock[i]
           /\ sock'[Len(sock) + 1] = [srv |-> s, op |-> op, fresh |-> TRUE]
  <2> DEFINE n == Len(sock) + 1
  <2>1. /\ sock'[n].srv = s /\ sock'[n].op = op /\ sock'[n].fresh
        /\ n \in Nat /\ n \notin DOMAIN sock
    BY <1>0, <1>6
  <2>2. FreshIsAwaited'
    BY <1>3, <1>6, <2>1 DEF RequestInv, FreshIsAwaited
  <2>3. ASSUME NEW i \in DOMAIN sock', NEW j \in DOMAIN sock', i < j,
               sock'[i].fresh, sock'[i].op = "REGISTER"
        PROVE  Repeats(j, sock[i].srv)'
    <3>1. i \in DOMAIN sock /\ sock'[i] = sock[i] /\ sock[i].srv \in Slots
      BY <1>0, <1>1, <1>6, <2>3
    <3>2. CASE j \in DOMAIN sock
      BY <1>6, <2>3, <3>1, <3>2 DEF RequestInv, LaterRequestsRepeat, Repeats
    <3>3. CASE j = n
      <4>1. st[sock[i].srv] = "reg"
        BY <2>3, <3>1 DEF RequestInv, FreshIsAwaited
      <4>2. DescOf[s] = DescOf[sock[i].srv] => sock[i].srv = s
        BY <3>1, <4>1 DEF RequestInv, OneServerPerName
      <4>3. sock[i].srv = s => op = "REGISTER"
        BY <4>1
      <4>. QED
        BY <2>1, <3>1, <3>3, <4>2, <4>3 DEF Repeats
    <3>. QED
      BY <1>6, <3>2, <3>3
  <2>4. ASSUME NEW t \in Slots, NEW i \in DOMAIN sock', missed'[t] >= 0
        PROVE  Repeats(i, t)'
    <3>1. CASE i \in DOMAIN sock
      BY <1>6, <2>4, <3>1 DEF RequestInv, LaterRequestsRepeat, Repeats
    <3>2. CASE i = n
      BY <1>4, <2>1, <2>4, <3>2 DEF Repeats
    <3>. QED
      BY <1>6, <3>1, <3>2
  <2>5. \A t \in Slots, i \in DOMAIN sock' : missed'[t] >= 0 => Repeats(i, t)'
    BY <2>4
  <2>6. \A i, j \in DOMAIN sock' :
            i < j /\ sock'[i].fresh /\ sock'[i].op = "REGISTER" => Repeats(j, sock[i].srv)'
    BY <2>3
  <2>7. LaterRequestsRepeat'
    BY <2>5, <2>6 DEF LaterRequestsRepeat, Repeats
  <2>. QED
    BY <1>2, <2>2, <2>7
<1>. QED
  BY <1>0, <1>5, <1>6, SendProperties

-----------------------------------------------------------------------------
(***************************************************************************)
(* The entries of the servers that rely on their registration.             *)
(***************************************************************************)
\* A registration is renewed before it expires.
LEMMA IntervalFacts ==
    ASSUME NEW s \in Slots
    PROVE  /\ TtlOf[s] \in Nat /\ MinTtl \in Nat \ {0} /\ Interval(s) \in Nat
           /\ MinTtl <= Interval(s) /\ Interval(s) < TtlOf[s]
<1>1. TtlOf[s] \in Nat /\ MinTtl \in Nat \ {0} /\ TtlOf[s] > MinTtl
  BY ManagerAssumption, RegistrationAssumption
<1>2. \A t \in Nat \ {0} : 3 * (t \div 4) \in Nat /\ 3 * (t \div 4) < t
  OBVIOUS
<1>. QED
  BY <1>1, <1>2 DEF Interval

\* A server that does not rely on its registration, or whose entry stays as it
\* is.
LEMMA EntryStays ==
    ASSUME NEW s \in Slots, missed' \in [Slots -> Int],
           missed'[s] >= 0 =>
               /\ missed'[s] = missed[s] /\ timer'[s] = timer[s]
               /\ DescOf[s] \in DOMAIN table => EntryKept(DescOf[s])
    PROVE  /\ OutlastsTimer(s) => OutlastsTimer(s)'
           /\ OutlastsRetries(s) => OutlastsRetries(s)'
<1>1. missed'[s] \in Int
  OBVIOUS
<1>2. CASE missed'[s] < 0
  BY <1>1, <1>2 DEF OutlastsTimer, OutlastsRetries
<1>3. CASE missed'[s] >= 0
  BY <1>3 DEF OutlastsTimer, OutlastsRetries, EntryKept, Listed, Life, Interval
<1>. QED
  BY <1>1, <1>2, <1>3

\* A registration that fails is tried again before the entry is removed.
LEMMA EntrySurvivesFailure ==
    ASSUME RegTypeOK, ManagerInv, TimersAreBounded, NEW s \in Slots, Return(s, FALSE),
           st[s] \in {"reg", "unreg"}, \A x \in DOMAIN table : EntryKept(x)
    PROVE  /\ OutlastsTimer(s) => OutlastsTimer(s)'
           /\ OutlastsRetries(s) => OutlastsRetries(s)'
<1> DEFINE m == missed[s]
           c == m * MinTtl
<1>1. m \in Int /\ MinTtl \in Nat \ {0} /\ c \in Int /\ (m + 1) * MinTtl = c + MinTtl
  BY IntervalFacts DEF RegTypeOK
<1>2. missed'[s] = -1 \/ (missed'[s] = m + 1 /\ m # -1 /\ st[s] # "unreg")
  BY DEF Return, RegTypeOK
<1>3. CASE missed'[s] = -1
  BY <1>3 DEF OutlastsTimer, OutlastsRetries
<1>4. CASE missed'[s] = m + 1 /\ m # -1 /\ st[s] # "unreg"
  <2>1. m >= 0 /\ st[s] = "reg" /\ timer[s] = 0
    BY <1>1, <1>4 DEF TimersAreBounded
  <2>2. timer'[s] = MinTtl
    BY <1>4 DEF Return, RegTypeOK
  <2>3. OutlastsTimer(s)'
    BY <1>1, <1>4, <2>1 DEF OutlastsTimer
  <2>4. ASSUME OutlastsRetries(s), Interval(s) + (m + 1) * MinTtl < 2 * TtlOf[s]
        PROVE  /\ Listed(s)'
               /\ Life(DescOf[s])' + Interval(s) + (m + 1) * MinTtl >= 2 * TtlOf[s] + MinTtl
    <3>1. Interval(s) + c < 2 * TtlOf[s]
      BY <1>1, <2>4, IntervalFacts
    <3>2. Listed(s) /\ Life(DescOf[s]) + Interval(s) + c >= 2 * TtlOf[s]
      BY <2>1, <2>4, <3>1, IntervalFacts DEF OutlastsRetries
    <3>3. EntryKept(DescOf[s])
      BY <3>2 DEF Listed
    <3>4. Listed(s)' /\ Life(DescOf[s])' = Life(DescOf[s])
      BY <3>2, <3>3 DEF Listed, EntryKept, Life
    <3>5. Life(DescOf[s]) \in Int
      BY <3>2, EntryType DEF Listed, Life
    <3>. HIDE DEF c
    <3>. QED
      BY <1>1, <3>2, <3>4, <3>5, IntervalFacts
  <2>5. OutlastsRetries(s) => OutlastsRetries(s)'
    BY <1>4, <2>2, <2>4 DEF OutlastsRetries, Interval
  <2>. QED
    BY <2>3, <2>5
<1>. QED
  BY <1>2, <1>3, <1>4

\* A registration that succeeds is good for twice the time to live.
LEMMA EntryIsRenewed ==
    ASSUME NEW s \in Slots, missed' \in [Slots -> Int], missed'[s] >= 0,
           timer'[s] \in Nat, timer'[s] <= Interval(s),
           EntryRenewed(DescOf[s], s, TtlOf[s])
    PROVE  /\ OutlastsTimer(s)'
           /\ (DescOf[s] \in DOMAIN table => table[DescOf[s]].ttl = TtlOf[s])
                  => OutlastsRetries(s)'
<1> DEFINE d == DescOf[s]
           c == missed'[s] * MinTtl
<1>1. /\ d \in DOMAIN table' /\ table'[d].port = s /\ table'[d].living
      /\ events'[table'[d].ev].due = TtlOf[s]
  BY DEF EntryRenewed
<1>2. OutlastsTimer(s)'
  BY <1>1, IntervalFacts DEF OutlastsTimer, Listed
<1>3. c \in Nat
  <2>1. \A a, b \in Nat : a * b \in Nat
    OBVIOUS
  <2>2. missed'[s] \in Nat
    OBVIOUS
  <2>. QED
    BY <2>1, <2>2, IntervalFacts
<1>4. ASSUME d \in DOMAIN table => table[d].ttl = TtlOf[s]
      PROVE  OutlastsRetries(s)'
  <2>1. Life(d)' = 2 * TtlOf[s]
    BY <1>1, <1>4, IntervalFacts DEF EntryRenewed, Life
  <2>2. Life(d)' + Interval(s) + c >= 2 * TtlOf[s] + timer'[s]
    <3>. HIDE DEF c
    <3>. QED
      BY <1>3, <2>1, IntervalFacts
  <2>3. Listed(s)'
    BY <1>1 DEF Listed
  <2>. QED
    BY <2>2, <2>3 DEF OutlastsRetries, Interval
<1>. QED
  BY <1>2, <1>4

\* An event that is due may mark the server as dead, but not remove it.
LEMMA EntrySurvivesExpiry ==
    ASSUME RegTypeOK, ManagerInv, NEW s \in Slots, NEW e \in DOMAIN events, trigger(e),
           UNCHANGED srvVars
    PROVE  /\ OutlastsTimer(s) => OutlastsTimer(s)'
           /\ OutlastsRetries(s)
                 /\ (DescOf[s] \in DOMAIN table => table[DescOf[s]].ttl = TtlOf[s])
              => OutlastsRetries(s)'
<1> DEFINE d == DescOf[s]
           c == missed[s] * MinTtl
<1>1. missed' = missed /\ timer' = timer /\ missed' \in [Slots -> Int] /\ timer[s] \in Nat
  BY DEF srvVars, RegTypeOK
<1>2. CASE d \in DOMAIN table => EntryKept(d)
  BY <1>1, <1>2, EntryStays
<1>3. CASE d \in DOMAIN table /\ ~EntryKept(d)
  <2>1. events[table[d].ev].due = 0
    BY <1>3, TriggerEffect
  <2>2. OutlastsTimer(s) => OutlastsTimer(s)'
    BY <1>1, <2>1 DEF OutlastsTimer
  <2>3. ASSUME OutlastsRetries(s), table[d].ttl = TtlOf[s], missed[s] >= 0,
               Interval(s) + c < 2 * TtlOf[s]
        PROVE  /\ Listed(s)'
               /\ Life(d)' + Interval(s) + c >= 2 * TtlOf[s] + timer[s]
    <3>1. Listed(s) /\ Life(d) + Interval(s) + c >= 2 * TtlOf[s] + timer[s]
      BY <2>3 DEF OutlastsRetries
    <3>2. Life(d) \in Int /\ c \in Int
      BY <1>1, <1>3, EntryType, IntervalFacts DEF Life
    <3>3. Life(d) > 0
      <4>. HIDE DEF c
      <4>. QED
        BY <1>1, <2>3, <3>1, <3>2, IntervalFacts
    <3>4. table[d].living
      BY <2>1, <3>3 DEF Life
    <3>5. /\ d \in DOMAIN table' /\ table'[d].port = table[d].port
          /\ table'[d].living = FALSE /\ events'[table'[d].ev].due = table[d].ttl
      BY <1>3, <3>4, TriggerEffect
    <3>6. Listed(s)' /\ Life(d)' = Life(d)
      BY <1>3, <2>1, <3>1, <3>4, <3>5, EntryType DEF Listed, Life
    <3>. QED
      BY <3>1, <3>6
  <2>4. OutlastsRetries(s) /\ table[d].ttl = TtlOf[s] => OutlastsRetries(s)'
    BY <1>1, <2>3 DEF OutlastsRetries, Interval
  <2>. QED
    BY <1>3, <2>2, <2>4
<1>. QED
  BY <1>2, <1>3

\* Time passes for the timer of the server and for its event alike.
LEMMA EntryAges ==
    ASSUME RegTypeOK, ManagerInv, TimersAreBounded, NEW s \in Slots, Tick
    PROVE  /\ OutlastsTimer(s) => OutlastsTimer(s)'
           /\ OutlastsRetries(s) => OutlastsRetries(s)'
<1> DEFINE d == DescOf[s]
           c == missed[s] * MinTtl
<1>1. /\ missed' = missed /\ missed[s] \in Int /\ timer[s] \in Nat /\ table' = table
      /\ timer'[s] = IF timer[s] > 0 THEN timer[s] - 1 ELSE 0
  BY DEF Tick, RegTypeOK
<1>2. CASE missed[s] < 0
  BY <1>1, <1>2 DEF OutlastsTimer, OutlastsRetries
<1>3. CASE missed[s] >= 0
  <2>1. Serves(s)
    BY <1>1, <1>3 DEF TimersAreBounded
  <2>2. timer'[s] = timer[s] - 1
    BY <1>1, <2>1 DEF Tick, Serves
  <2>3. d \in DOMAIN table =>
            /\ events[table[d].ev].due \in Nat
            /\ events'[table[d].ev].due = events[table[d].ev].due - 1
    <3>1. SUFFICES ASSUME d \in DOMAIN table
                   PROVE  /\ events[table[d].ev].due \in Nat
                          /\ events'[table[d].ev].due = events[table[d].ev].due - 1
      OBVIOUS
    <3>2. table[d].ev \in DOMAIN events /\ events[table[d].ev].due \in Nat
      BY <3>1, EntryType
    <3>3. events[table[d].ev] \in KsmExpireServerEvent
      BY <3>2 DEF ManagerInv, ManagerTypeOK
    <3>4. events[table[d].ev].due > 0
      BY <3>2 DEF Tick
    <3>5. events'[table[d].ev] = [events[table[d].ev] EXCEPT !.due = IF @ > 0 THEN @ - 1 ELSE 0]
      BY <3>2 DEF Tick, TimePasses
    <3>. QED
      BY <3>2, <3>3, <3>4, <3>5 DEF KsmExpireServerEvent
  <2>4. OutlastsTimer(s) => OutlastsTimer(s)'
    BY <1>1, <2>2, <2>3 DEF OutlastsTimer, Listed
  <2>5. ASSUME OutlastsRetries(s), Interval(s) + c < 2 * TtlOf[s]
        PROVE  /\ Listed(s)'
               /\ Life(d)' + Interval(s) + c >= 2 * TtlOf[s] + timer'[s]
    <3>1. Listed(s) /\ Life(d) + Interval(s) + c >= 2 * TtlOf[s] + timer[s]
      BY <1>3, <2>5 DEF OutlastsRetries
    <3>2. d \in DOMAIN table
      BY <3>1 DEF Listed
    <3>3. Life(d) \in Int /\ c \in Int
      BY <1>1, <3>2, EntryType, IntervalFacts DEF Life
    <3>4. Life(d)' = Life(d) - 1
      BY <1>1, <2>3, <3>2, EntryType DEF Life
    <3>5. Listed(s)'
      BY <1>1, <3>1 DEF Listed
    <3>. HIDE DEF c
    <3>. QED
      BY <1>1, <2>2, <3>1, <3>3, <3>4, <3>5, IntervalFacts
  <2>6. OutlastsRetries(s) => OutlastsRetries(s)'
    BY <1>1, <1>3, <2>5 DEF OutlastsRetries, Interval
  <2>. QED
    BY <2>4, <2>6
<1>. QED
  BY <1>1, <1>2, <1>3

\* Steps that leave the entries of the servers that rely on them alone.
LEMMA EntriesStay ==
    ASSUME RegInv, missed' \in [Slots -> Int], DOMAIN table' \subseteq DOMAIN table,
           \A x \in DOMAIN table' : table'[x].ttl = table[x].ttl,
           \A s \in Slots : missed'[s] >= 0 =>
               /\ missed'[s] = missed[s] /\ timer'[s] = timer[s]
               /\ DescOf[s] \in DOMAIN table => EntryKept(DescOf[s])
    PROVE  EntryOutlastsTimer' /\ (EntryOutlastsRetries => EntryOutlastsRetries')
<1>1. ASSUME NEW s \in Slots
      PROVE  /\ OutlastsTimer(s)'
             /\ OutlastsRetries(s) => OutlastsRetries(s)'
  BY EntryStays DEF RegInv, EntryOutlastsTimer
<1>2. EntryOutlastsTimer'
  BY <1>1 DEF EntryOutlastsTimer
<1>3. EntryOutlastsRetries => EntryOutlastsRetries'
  BY <1>1 DEF EntryOutlastsRetries
<1>. QED
  BY <1>2, <1>3

-----------------------------------------------------------------------------
(***************************************************************************)
(* The steps.                                                              *)
(***************************************************************************)
\* All servers of the same name and version register with the same time to
\* live.
SameTtl == \A s, t \in Slots : DescOf[s] = DescOf[t] => TtlOf[s] = TtlOf[t]

StepKeeps == RegInv' /\ (SameTtl /\ EntryOutlastsRetries => EntryOutlastsRetries')

\* What is unchanged stays as it is.
LEMMA ManagerIdle == ASSUME ManagerInv, UNCHANGED mgrVars
                     PROVE  /\ ManagerInv' /\ DOMAIN table' \subseteq DOMAIN table
                            /\ \A x \in DOMAIN table : EntryKept(x)
                            /\ \A x \in DOMAIN table' : table'[x].ttl = table[x].ttl
BY DEF mgrVars, EntryKept, ManagerInv, ManagerTypeOK, TreeMatchesTable, VersionsOf,
       EventsAreLinked, SelfIsNotRegistered

\* Putting the parts together.
LEMMA StepParts ==
    ASSUME ManagerInv', sock' \in Seq(Request),
           st' \in [Slots -> {"off", "run", "reg", "unreg"}], timer' \in [Slots -> Nat],
           tries' \in [Slots -> 0 .. 2], missed' \in [Slots -> Int], up' \in BOOLEAN,
           OneServerPerName', TimersAreBounded', FreshIsAwaited', LaterRequestsRepeat',
           EntryOutlastsTimer', EntryOutlastsRetries => (SameTtl => EntryOutlastsRetries')
    PROVE  StepKeeps
BY DEF StepKeeps, RegInv, RegTypeOK, ManagerInv, RequestInv, Request

\* The parts of the invariant.
LEMMA InvParts ==
    ASSUME RegInv
    PROVE  /\ ManagerInv /\ sock \in Seq(Request)
           /\ DOMAIN sock = 1 .. Len(sock) /\ Len(sock) \in Nat
           /\ \A i \in DOMAIN sock : sock[i] \in Request
           /\ st \in [Slots -> {"off", "run", "reg", "unreg"}] /\ timer \in [Slots -> Nat]
           /\ tries \in [Slots -> 0 .. 2] /\ missed \in [Slots -> Int] /\ up \in BOOLEAN
           /\ OneServerPerName /\ TimersAreBounded /\ FreshIsAwaited /\ LaterRequestsRepeat
           /\ RegTypeOK /\ RequestInv
<1>1. sock \in Seq(Request)
  BY DEF RegInv, RegTypeOK, Request
<1>2. \A i \in 1 .. Len(sock) : sock[i] \in Request
  BY <1>1, ElementOfSeq
<1>3. DOMAIN sock = 1 .. Len(sock) /\ Len(sock) \in Nat
  BY <1>1, LenProperties
<1>. QED
  BY <1>1, <1>2, <1>3 DEF RegInv, RegTypeOK, RequestInv

\* A server starts, after its predecessors have gone.
LEMMA StartKeeps ==
    ASSUME RegInv, NEW s \in Slots, startServer(s) PROVE StepKeeps
<1>1. /\ UNCHANGED <<timer, tries, missed, up, sock>> /\ UNCHANGED mgrVars
      /\ st[s] = "off" /\ st' = [st EXCEPT ![s] = "run"]
      /\ \A t \in Slots : DescOf[t] = DescOf[s] => st[t] = "off"
  BY DEF startServer
<1>2. OneServerPerName' /\ TimersAreBounded'
  BY <1>1, InvParts DEF OneServerPerName, TimersAreBounded, Serves, Interval
<1>3. Passed(0)
  <2>1. \A i \in DOMAIN sock : sock[i].fresh => sock[i].srv # s /\ sock[i].srv \in Slots
    BY <1>1, InvParts DEF FreshIsAwaited, Request
  <2>2. \A i \in DOMAIN sock : i + 0 = i
    BY InvParts
  <2>. QED
    BY <1>1, <2>1, <2>2, InvParts DEF Passed
<1>4. FreshIsAwaited' /\ LaterRequestsRepeat'
  <2>1. \A t \in Slots : missed'[t] >= 0 => missed[t] >= 0
    BY <1>1
  <2>. QED
    BY <1>1, <1>3, <2>1, InvParts, PassedKeepsRequests
<1>5. EntryOutlastsTimer' /\ (EntryOutlastsRetries => EntryOutlastsRetries')
  BY <1>1, InvParts, ManagerIdle, EntriesStay
<1>. QED
  BY <1>1, <1>2, <1>4, <1>5, InvParts, ManagerIdle, StepParts

\* A server sends a request, for the first or for the second time.
LEMMA SendKeeps ==
    ASSUME RegInv, NEW s \in Slots, NEW op \in {"REGISTER", "UNREGISTER"},
           Send(s, op), st[s] # "off", UNCHANGED mgrVars, up' = up,
           st' = [st EXCEPT ![s] = IF op = "REGISTER" THEN "reg" ELSE "unreg"],
           st'[s] # st[s] => st[s] = "run", tries' \in [Slots -> 0 .. 2],
           \/ op = "REGISTER" /\ timer[s] = 0 /\ UNCHANGED <<timer, missed>>
           \/ /\ op = "UNREGISTER"
              /\ timer' = [timer EXCEPT ![s] = 0] /\ missed' = [missed EXCEPT ![s] = -1]
    PROVE  StepKeeps
<1>1. /\ missed' \in [Slots -> Int] /\ timer' \in [Slots -> Nat]
      /\ \A t \in Slots \ {s} : /\ missed'[t] = missed[t] /\ timer'[t] = timer[t]
                                /\ st'[t] = st[t]
      /\ st'[s] = IF op = "REGISTER" THEN "reg" ELSE "unreg"
      /\ timer'[s] = 0
      /\ missed'[s] = IF op = "REGISTER" THEN missed[s] ELSE -1
      /\ missed'[s] >= 0 => timer'[s] = timer[s]
      /\ st' \in [Slots -> {"off", "run", "reg", "unreg"}]
  BY InvParts
<1>2. OneServerPerName'
  BY <1>1, InvParts DEF OneServerPerName
<1>3. TimersAreBounded'
  <2>1. ASSUME NEW t \in Slots, t # s
        PROVE  /\ missed'[t] >= -1 /\ timer'[t] <= Interval(t)
               /\ st'[t] \in {"reg", "unreg"} => timer'[t] = 0
               /\ ~Serves(t)' => missed'[t] = -1
    BY <1>1, <2>1, InvParts DEF TimersAreBounded, Serves
  <2>2. /\ missed'[s] >= -1 /\ timer'[s] <= Interval(s)
        /\ st'[s] \in {"reg", "unreg"} => timer'[s] = 0
        /\ ~Serves(s)' => missed'[s] = -1
    BY <1>1, InvParts, IntervalFacts DEF TimersAreBounded, Serves
  <2>. QED
    BY <2>1, <2>2 DEF TimersAreBounded, Interval
<1>4. sock' \in Seq(Request) /\ FreshIsAwaited' /\ LaterRequestsRepeat'
  <2>1. \A t \in Slots : missed'[t] >= 0 => missed[t] >= 0 /\ (t = s => op = "REGISTER")
    BY <1>1
  <2>2. \A t \in Slots : t # s => st'[t] = st[t]
    BY <1>1
  <2>3. RegTypeOK /\ RequestInv /\ st'[s] = (IF op = "REGISTER" THEN "reg" ELSE "unreg")
    BY <1>1, InvParts
  <2>4. missed' \in [Slots -> Int]
    BY <1>1
  <2>. QED
    BY <2>1, <2>2, <2>3, <2>4, SendKeepsRequests
<1>5. EntryOutlastsTimer' /\ (EntryOutlastsRetries => EntryOutlastsRetries')
  <2>1. \A t \in Slots : missed'[t] >= 0 => missed'[t] = missed[t] /\ timer'[t] = timer[t]
    BY <1>1
  <2>. QED
    BY <1>1, <2>1, InvParts, ManagerIdle, EntriesStay
<1>. QED
  BY <1>1, <1>2, <1>3, <1>4, <1>5, InvParts, ManagerIdle, StepParts

\* The two requests, and their second copies.
LEMMA SendersKeep ==
    ASSUME RegInv, NEW s \in Slots, register_server(s) \/ stopServer(s) \/ Retransmit(s)
    PROVE  StepKeeps
<1>1. CASE register_server(s)
  <2>1. st[s] = "run" /\ timer[s] = 0 /\ Send(s, "REGISTER") /\ UNCHANGED mgrVars /\ up' = up
    BY <1>1 DEF register_server, Call
  <2>2. st' = [st EXCEPT ![s] = "reg"] /\ UNCHANGED <<timer, missed>>
    BY <1>1 DEF register_server, Call
  <2>3. tries' \in [Slots -> 0 .. 2] /\ st'[s] = "reg"
    BY <1>1, <2>2, InvParts DEF register_server, Call
  <2>. QED
    BY <2>1, <2>2, <2>3, SendKeeps
<1>2. CASE stopServer(s)
  <2>1. st[s] = "run" /\ Send(s, "UNREGISTER") /\ UNCHANGED mgrVars /\ up' = up
    BY <1>2 DEF stopServer, Call
  <2>2. /\ st' = [st EXCEPT ![s] = "unreg"]
        /\ timer' = [timer EXCEPT ![s] = 0] /\ missed' = [missed EXCEPT ![s] = -1]
    BY <1>2 DEF stopServer, Call
  <2>3. tries' \in [Slots -> 0 .. 2]
    BY <1>2, InvParts DEF stopServer, Call
  <2>. QED
    BY <2>1, <2>2, <2>3, SendKeeps
<1>3. CASE Retransmit(s)
  <2>1. /\ st[s] \in {"reg", "unreg"} /\ UNCHANGED mgrVars /\ up' = up
        /\ UNCHANGED <<st, timer, missed>>
        /\ Send(s, IF st[s] = "reg" THEN "REGISTER" ELSE "UNREGISTER")
    BY <1>3 DEF Retransmit
  <2>2. tries' \in [Slots -> 0 .. 2]
    BY <1>3, InvParts DEF Retransmit
  <2>3. st' = [st EXCEPT ![s] = st[s]]
    BY <2>1, InvParts
  <2>4. CASE st[s] = "reg"
    <3>1. timer[s] = 0 /\ Send(s, "REGISTER")
      BY <2>1, <2>4, InvParts DEF TimersAreBounded
    <3>. QED
      BY <2>1, <2>2, <2>3, <2>4, <3>1, SendKeeps
  <2>5. CASE st[s] = "unreg"
    <3>1. Send(s, "UNREGISTER") /\ missed[s] = -1 /\ timer[s] = 0
      BY <2>1, <2>5, InvParts DEF TimersAreBounded, Serves
    <3>2. timer' = [timer EXCEPT ![s] = 0] /\ missed' = [missed EXCEPT ![s] = -1]
      BY <2>1, <3>1, InvParts
    <3>. QED
      BY <2>1, <2>2, <2>3, <2>5, <3>1, <3>2, SendKeeps
  <2>. QED
    BY <2>1, <2>4, <2>5
<1>. QED
  BY <1>1, <1>2, <1>3

\* What the return of a call assigns.
LEMMA ReturnEffect ==
    ASSUME RegInv, NEW s \in Slots, NEW ok \in BOOLEAN, Return(s, ok),
           st[s] \in {"reg", "unreg"}
    PROVE  /\ st' \in [Slots -> {"off", "run", "reg", "unreg"}]
           /\ timer' \in [Slots -> Nat]
           /\ tries' \in [Slots -> 0 .. 2] /\ missed' \in [Slots -> Int]
           /\ \A t \in Slots : t # s => /\ st'[t] = st[t] /\ timer'[t] = timer[t]
                                        /\ missed'[t] = missed[t]
           /\ st[s] = "unreg" => st'[s] = "off" /\ timer'[s] = 0 /\ missed'[s] = -1
           /\ st[s] = "reg" => /\ st'[s] = "run"
                               /\ ok => timer'[s] = Interval(s) /\ missed'[s] = 0
                               /\ ~ok => /\ timer'[s] = MinTtl
                                         /\ \/ missed'[s] = -1
                                            \/ missed[s] >= 0 /\ missed'[s] = missed[s] + 1
<1>1. /\ st \in [Slots -> {"off", "run", "reg", "unreg"}] /\ timer \in [Slots -> Nat]
      /\ tries \in [Slots -> 0 .. 2] /\ missed \in [Slots -> Int] /\ missed[s] >= -1
  BY InvParts DEF TimersAreBounded
<1>2. Interval(s) \in Nat /\ MinTtl \in Nat
  BY IntervalFacts
<1>3. /\ st'[s] = IF st[s] = "reg" THEN "run" ELSE "off"
      /\ \A t \in Slots : t # s => st'[t] = st[t]
      /\ st' \in [Slots -> {"off", "run", "reg", "unreg"}]
  BY <1>1 DEF Return
<1>4. /\ timer'[s] = IF st[s] = "unreg" THEN 0 ELSE IF ok THEN Interval(s) ELSE MinTtl
      /\ \A t \in Slots : t # s => timer'[t] = timer[t]
      /\ timer' \in [Slots -> Nat]
  BY <1>1, <1>2 DEF Return
<1>5. tries' \in [Slots -> 0 .. 2]
  BY <1>1 DEF Return
<1>6. /\ missed'[s] = IF st[s] = "unreg" THEN -1
                      ELSE IF ok THEN 0
                      ELSE IF missed[s] = -1 \/ missed[s] >= MaxMissed(s) THEN -1
                      ELSE missed[s] + 1
      /\ \A t \in Slots : t # s => missed'[t] = missed[t]
      /\ missed' \in [Slots -> Int]
  BY <1>1 DEF Return
<1>. QED
  BY <1>1, <1>3, <1>4, <1>5, <1>6

\* The end of a call, with the request that has been answered, if any, taken
\* from the socket.
LEMMA ReturnKeepsRequests ==
    ASSUME RegInv, NEW s \in Slots, NEW ok \in BOOLEAN, Return(s, ok),
           st[s] \in {"reg", "unreg"},
           NEW off \in {0, 1}, NEW q \in Seq(Request), sock' = Stale(q, s),
           \A i \in DOMAIN q : i + off \in DOMAIN sock /\ q[i] = sock[i + off],
           ok /\ st[s] = "reg" => /\ off = 1 /\ sock # << >> /\ sock[1].fresh
                                  /\ sock[1].op = "REGISTER" /\ sock[1].srv = s
    PROVE  /\ OneServerPerName' /\ TimersAreBounded' /\ sock' \in Seq(Request)
           /\ FreshIsAwaited' /\ LaterRequestsRepeat'
<1>1. OneServerPerName'
  <2>1. \A t \in Slots : st'[t] = "off" \/ st[t] # "off"
    BY ReturnEffect
  <2>. QED
    BY <2>1, InvParts DEF OneServerPerName
<1>2. TimersAreBounded'
  <2>1. ASSUME NEW t \in Slots, t # s
        PROVE  /\ missed'[t] >= -1 /\ timer'[t] <= Interval(t)
               /\ st'[t] \in {"reg", "unreg"} => timer'[t] = 0
               /\ ~Serves(t)' => missed'[t] = -1
    BY <2>1, InvParts, ReturnEffect DEF TimersAreBounded, Serves
  <2>2. /\ missed'[s] >= -1 /\ timer'[s] <= Interval(s)
        /\ st'[s] \in {"reg", "unreg"} => timer'[s] = 0
        /\ ~Serves(s)' => missed'[s] = -1
    <3>1. missed[s] \in Int
      BY InvParts
    <3>. QED
      BY <3>1, ReturnEffect, IntervalFacts DEF Serves
  <2>. QED
    BY <2>1, <2>2 DEF TimersAreBounded, Interval
<1>3. /\ sock' \in Seq(Request) /\ DOMAIN sock' = DOMAIN q
      /\ \A i \in DOMAIN q : /\ sock'[i].srv = q[i].srv /\ sock'[i].op = q[i].op
                             /\ sock'[i].fresh => q[i].fresh /\ q[i].srv # s
  BY StaleProperties
<1>4. Passed(off)
  <2>1. \A i \in DOMAIN q : q[i].srv \in Slots
    BY InvParts DEF Request
  <2>2. \A i \in DOMAIN q : q[i].srv # s => st'[q[i].srv] = st[q[i].srv]
    BY <2>1, ReturnEffect
  <2>. QED
    BY <1>3, <2>2 DEF Passed
<1>5. FreshIsAwaited' /\ LaterRequestsRepeat'
  <2>1. \A t \in Slots : missed'[t] >= 0 =>
               \/ missed[t] >= 0
               \/ /\ off = 1 /\ sock # << >> /\ sock[1].fresh
                  /\ sock[1].op = "REGISTER" /\ sock[1].srv = t
    BY ReturnEffect
  <2>2. RegTypeOK /\ FreshIsAwaited /\ LaterRequestsRepeat /\ missed' \in [Slots -> Int]
    BY InvParts, ReturnEffect
  <2>. QED
    BY <1>3, <1>4, <2>1, <2>2, PassedKeepsRequests
<1>. QED
  BY <1>1, <1>2, <1>3, <1>5

\* A call that fails, and does not change the entries.
LEMMA FailureKeepsEntries ==
    ASSUME RegInv, NEW s \in Slots, Return(s, FALSE), st[s] \in {"reg", "unreg"},
           DOMAIN table' \subseteq DOMAIN table, \A x \in DOMAIN table : EntryKept(x)
    PROVE  EntryOutlastsTimer' /\ (EntryOutlastsRetries => EntryOutlastsRetries')
<1>1. ASSUME NEW t \in Slots
      PROVE  /\ OutlastsTimer(t)'
             /\ OutlastsRetries(t) => OutlastsRetries(t)'
  <2>1. OutlastsTimer(t)
    BY DEF RegInv, EntryOutlastsTimer
  <2>2. CASE t = s
    BY <2>1, <2>2, InvParts, EntrySurvivesFailure
  <2>3. CASE t # s
    <3>1. missed'[t] = missed[t] /\ timer'[t] = timer[t] /\ missed' \in [Slots -> Int]
      BY <2>3, ReturnEffect
    <3>. QED
      BY <2>1, <3>1, EntryStays
  <2>. QED
    BY <2>2, <2>3
<1>2. EntryOutlastsTimer'
  BY <1>1 DEF EntryOutlastsTimer
<1>3. EntryOutlastsRetries => EntryOutlastsRetries'
  BY <1>1 DEF EntryOutlastsRetries, EntryKept
<1>. QED
  BY <1>2, <1>3

\* A call is given up.
LEMMA TimeoutKeeps ==
    ASSUME RegInv, NEW s \in Slots, CallTimesOut(s) PROVE StepKeeps
<1>1. /\ st[s] \in {"reg", "unreg"} /\ Return(s, FALSE) /\ sock' = Stale(sock, s)
      /\ UNCHANGED mgrVars /\ up' = up
  BY DEF CallTimesOut
<1>2. \A i \in DOMAIN sock : i + 0 \in DOMAIN sock /\ sock[i] = sock[i + 0]
  BY InvParts
<1>3. /\ OneServerPerName' /\ TimersAreBounded' /\ sock' \in Seq(Request)
      /\ FreshIsAwaited' /\ LaterRequestsRepeat'
  BY <1>1, <1>2, InvParts, ReturnKeepsRequests
<1>4. EntryOutlastsTimer' /\ (EntryOutlastsRetries => EntryOutlastsRetries')
  BY <1>1, InvParts, ManagerIdle, FailureKeepsEntries
<1>. QED
  BY <1>1, <1>3, <1>4, InvParts, ManagerIdle, ReturnEffect, StepParts

\* A server crashes.
LEMMA CrashKeeps ==
    ASSUME RegInv, NEW s \in Slots, ServerCrashes(s) PROVE StepKeeps
<1>1. /\ sock' = Stale(sock, s) /\ UNCHANGED mgrVars /\ up' = up
      /\ st' \in [Slots -> {"off", "run", "reg", "unreg"}] /\ timer' \in [Slots -> Nat]
      /\ tries' \in [Slots -> 0 .. 2] /\ missed' \in [Slots -> Int]
      /\ st'[s] = "off" /\ timer'[s] = 0 /\ missed'[s] = -1
      /\ \A t \in Slots : t # s => /\ st'[t] = st[t] /\ timer'[t] = timer[t]
                                   /\ missed'[t] = missed[t]
  BY InvParts DEF ServerCrashes
<1>2. OneServerPerName'
  BY <1>1, InvParts DEF OneServerPerName
<1>3. TimersAreBounded'
  <2>1. ASSUME NEW t \in Slots
        PROVE  /\ missed'[t] >= -1 /\ timer'[t] <= Interval(t)
               /\ st'[t] \in {"reg", "unreg"} => timer'[t] = 0
               /\ ~Serves(t)' => missed'[t] = -1
    BY <1>1, InvParts, IntervalFacts DEF TimersAreBounded, Serves
  <2>. QED
    BY <2>1 DEF TimersAreBounded, Interval
<1>4. /\ sock' \in Seq(Request) /\ DOMAIN sock' = DOMAIN sock
      /\ \A i \in DOMAIN sock : /\ sock'[i].srv = sock[i].srv /\ sock'[i].op = sock[i].op
                                /\ sock'[i].fresh => sock[i].fresh /\ sock[i].srv # s
  BY <1>1, InvParts, StaleProperties
<1>5. Passed(0)
  <2>1. \A i \in DOMAIN sock : sock[i].srv \in Slots /\ i + 0 = i
    BY InvParts DEF Request
  <2>. QED
    BY <1>1, <1>4, <2>1 DEF Passed
<1>6. FreshIsAwaited' /\ LaterRequestsRepeat'
  <2>1. \A t \in Slots : missed'[t] >= 0 => missed[t] >= 0
    BY <1>1
  <2>. QED
    BY <1>1, <1>4, <1>5, <2>1, InvParts, PassedKeepsRequests
<1>7. EntryOutlastsTimer' /\ (EntryOutlastsRetries => EntryOutlastsRetries')
  <2>1. \A t \in Slots : missed'[t] >= 0 => missed'[t] = missed[t] /\ timer'[t] = timer[t]
    BY <1>1
  <2>. QED
    BY <1>1, <2>1, InvParts, ManagerIdle, EntriesStay
<1>. QED
  BY <1>1, <1>2, <1>3, <1>4, <1>6, <1>7, InvParts, ManagerIdle, StepParts

\* The manager has taken a registration from its socket.
LEMMA RegisterKeeps ==
    ASSUME RegInv, "tree" \notin Faults, HandleRegister PROVE StepKeeps
<1> DEFINE r == Head(sock)
           d == DescOf[r.srv]
<1>1. /\ sock # << >> /\ r = sock[1] /\ r \in Request /\ r.op = "REGISTER" /\ up' = up
      /\ 1 \in DOMAIN sock
  BY InvParts DEF HandleRegister, Handle
<1>2. PICK res \in {"OK", "GENERIC", "BADPARAM"} :
         registerServer(d, r.srv, TtlOf[r.srv], res) /\ Reply(r, res)
  BY DEF HandleRegister
<1>3. /\ Tail(sock) \in Seq(Request)
      /\ \A i \in DOMAIN Tail(sock) : i + 1 \in DOMAIN sock /\ Tail(sock)[i] = sock[i + 1]
  <2>1. /\ Tail(sock) \in Seq(Request) /\ Len(Tail(sock)) = Len(sock) - 1
        /\ \A i \in 1 .. Len(Tail(sock)) : Tail(sock)[i] = sock[i + 1]
    BY <1>1, InvParts, HeadTailProperties
  <2>2. DOMAIN Tail(sock) = 1 .. Len(Tail(sock))
    BY <2>1, LenProperties
  <2>. QED
    BY <2>1, <2>2, InvParts
<1> HIDE DEF r
<1> DEFINE s == r.srv
<1>4. s \in Slots /\ d \in Desc /\ TtlOf[s] \in Ttls
  BY <1>1, RegistrationAssumption DEF Request
<1>5. /\ ManagerInv'
      /\ \A x \in DOMAIN table : x # d \/ res # "OK" => EntryKept(x)
      /\ res = "OK" => EntryRenewed(d, s, TtlOf[s]) /\ DOMAIN table' = DOMAIN table \cup {d}
      /\ res # "OK" => DOMAIN table' = DOMAIN table
  BY <1>2, <1>4, InvParts, RegisterEffect DEF Slots
<1>6. \A t \in Slots : missed[t] >= 0 /\ DescOf[t] = d => t = s
  BY <1>1, InvParts DEF LaterRequestsRepeat, Repeats
<1>7. SameTtl /\ (\A t \in Slots : DescOf[t] \in DOMAIN table => table[DescOf[t]].ttl = TtlOf[t])
        => \A t \in Slots : DescOf[t] \in DOMAIN table' => table'[DescOf[t]].ttl = TtlOf[t]
  BY <1>4, <1>5 DEF SameTtl, EntryKept, EntryRenewed
<1>8. ASSUME NEW t \in Slots, missed' \in [Slots -> Int], missed'[t] = missed[t],
             timer'[t] = timer[t]
      PROVE  /\ OutlastsTimer(t)'
             /\ EntryOutlastsRetries => OutlastsRetries(t)'
  <2>1. OutlastsTimer(t)
    BY DEF RegInv, EntryOutlastsTimer
  <2>2. EntryOutlastsRetries => OutlastsRetries(t)
    BY DEF EntryOutlastsRetries
  <2>3. CASE DescOf[t] \in DOMAIN table /\ missed'[t] >= 0 => EntryKept(DescOf[t])
    BY <1>8, <2>1, <2>2, <2>3, EntryStays
  <2>4. CASE missed[t] >= 0 /\ DescOf[t] = d /\ res = "OK"
    <3>1. t = s
      BY <1>6, <2>4
    <3>2. timer'[t] \in Nat /\ timer'[t] <= Interval(t)
      BY <1>8, InvParts DEF TimersAreBounded
    <3>. QED
      BY <1>5, <1>8, <2>4, <3>1, <3>2, EntryIsRenewed DEF EntryOutlastsRetries
  <2>. QED
    BY <1>5, <1>8, <2>3, <2>4
<1>9. CASE r.fresh /\ Return(s, res = "OK") /\ sock' = Stale(Tail(sock), s)
  <2>1. st[s] = "reg"
    BY <1>1, <1>9, InvParts DEF FreshIsAwaited
  <2>2. /\ OneServerPerName' /\ TimersAreBounded' /\ sock' \in Seq(Request)
        /\ FreshIsAwaited' /\ LaterRequestsRepeat'
    BY <1>1, <1>3, <1>4, <1>9, <2>1, ReturnKeepsRequests
  <2>3. /\ st' \in [Slots -> {"off", "run", "reg", "unreg"}] /\ timer' \in [Slots -> Nat]
        /\ tries' \in [Slots -> 0 .. 2] /\ missed' \in [Slots -> Int]
        /\ \A t \in Slots : t # s => missed'[t] = missed[t] /\ timer'[t] = timer[t]
        /\ res = "OK" => timer'[s] = Interval(s) /\ missed'[s] = 0
    BY <1>4, <1>9, <2>1, ReturnEffect
  <2>4. CASE res = "OK"
    <3>1. ASSUME NEW t \in Slots
          PROVE  /\ OutlastsTimer(t)'
                 /\ EntryOutlastsRetries => OutlastsRetries(t)'
      <4>1. CASE t = s
        BY <1>4, <1>5, <2>3, <2>4, <4>1, EntryIsRenewed, IntervalFacts
           DEF EntryOutlastsRetries
      <4>2. CASE t # s
        BY <1>8, <2>3, <4>2
      <4>. QED
        BY <4>1, <4>2
    <3>2. EntryOutlastsTimer' /\ (EntryOutlastsRetries => (SameTtl => EntryOutlastsRetries'))
      BY <1>7, <3>1 DEF EntryOutlastsTimer, EntryOutlastsRetries
    <3>. QED
      BY <1>1, <1>5, <2>2, <2>3, <3>2, InvParts, StepParts
  <2>5. CASE res # "OK"
    <3>1. EntryOutlastsTimer' /\ (EntryOutlastsRetries => EntryOutlastsRetries')
      BY <1>4, <1>5, <1>9, <2>1, <2>5, FailureKeepsEntries
    <3>. QED
      BY <1>1, <1>5, <2>2, <2>3, <3>1, InvParts, StepParts
  <2>. QED
    BY <2>4, <2>5
<1>10. CASE UNCHANGED srvVars /\ sock' = Tail(sock)
  <2>1. st' = st /\ timer' = timer /\ tries' = tries /\ missed' = missed
    BY <1>10 DEF srvVars
  <2>2. OneServerPerName' /\ TimersAreBounded'
    BY <2>1, InvParts DEF OneServerPerName, TimersAreBounded, Serves, Interval
  <2>3. Passed(1)
    BY <1>3, <1>10, <2>1 DEF Passed
  <2>4. FreshIsAwaited' /\ LaterRequestsRepeat'
    BY <1>3, <1>10, <2>1, <2>3, InvParts, PassedKeepsRequests
  <2>5. EntryOutlastsTimer' /\ (EntryOutlastsRetries => (SameTtl => EntryOutlastsRetries'))
    BY <1>7, <1>8, <2>1, InvParts DEF EntryOutlastsTimer, EntryOutlastsRetries
  <2>. QED
    BY <1>1, <1>3, <1>5, <1>10, <2>1, <2>2, <2>4, <2>5, InvParts, StepParts
<1>. QED
  BY <1>2, <1>9, <1>10 DEF Reply

\* The manager has taken a deregistration from its socket.  It cannot be for
\* a server that relies on its registration.
LEMMA UnregisterKeepsInv ==
    ASSUME RegInv, HandleUnregister PROVE StepKeeps
<1> DEFINE r == Head(sock)
           d == DescOf[r.srv]
<1>1. /\ sock # << >> /\ r = sock[1] /\ r \in Request /\ r.op = "UNREGISTER" /\ up' = up
      /\ 1 \in DOMAIN sock
  BY InvParts DEF HandleUnregister, Handle
<1>2. PICK res \in {"OK", "SERVERUNKNOWN", "BADPARAM"} :
         unregisterServer(d, res) /\ Reply(r, res)
  BY DEF HandleUnregister
<1>3. /\ Tail(sock) \in Seq(Request)
      /\ \A i \in DOMAIN Tail(sock) : i + 1 \in DOMAIN sock /\ Tail(sock)[i] = sock[i + 1]
  <2>1. /\ Tail(sock) \in Seq(Request) /\ Len(Tail(sock)) = Len(sock) - 1
        /\ \A i \in 1 .. Len(Tail(sock)) : Tail(sock)[i] = sock[i + 1]
    BY <1>1, InvParts, HeadTailProperties
  <2>2. DOMAIN Tail(sock) = 1 .. Len(Tail(sock))
    BY <2>1, LenProperties
  <2>. QED
    BY <2>1, <2>2, InvParts
<1> HIDE DEF r
<1> DEFINE s == r.srv
<1>4. s \in Slots /\ d \in Desc
  BY <1>1, RegistrationAssumption DEF Request
<1>5. /\ ManagerInv' /\ DOMAIN table' \subseteq DOMAIN table
      /\ \A x \in DOMAIN table : x # d => EntryKept(x)
  BY <1>2, <1>4, InvParts, UnregisterEffect
<1>6. \A x \in DOMAIN table' : table'[x].ttl = table[x].ttl
  <2>1. d \notin DOMAIN table' \/ table'[d] = table[d]
    BY <1>2 DEF unregisterServer, mgrVars, Without
  <2>. QED
    BY <1>5, <2>1 DEF EntryKept
<1>7. \A t \in Slots : missed[t] >= 0 => DescOf[t] # d
  BY <1>1, InvParts DEF LaterRequestsRepeat, Repeats
<1>8. ASSUME missed' \in [Slots -> Int],
             \A t \in Slots : missed'[t] >= 0 => missed'[t] = missed[t] /\ timer'[t] = timer[t]
      PROVE  EntryOutlastsTimer' /\ (EntryOutlastsRetries => EntryOutlastsRetries')
  BY <1>5, <1>6, <1>7, <1>8, EntriesStay
<1>9. CASE r.fresh /\ Return(s, res = "OK") /\ sock' = Stale(Tail(sock), s)
  <2>1. st[s] = "unreg"
    BY <1>1, <1>9, InvParts DEF FreshIsAwaited
  <2>2. /\ OneServerPerName' /\ TimersAreBounded' /\ sock' \in Seq(Request)
        /\ FreshIsAwaited' /\ LaterRequestsRepeat'
    BY <1>3, <1>4, <1>9, <2>1, ReturnKeepsRequests
  <2>3. /\ st' \in [Slots -> {"off", "run", "reg", "unreg"}] /\ timer' \in [Slots -> Nat]
        /\ tries' \in [Slots -> 0 .. 2] /\ missed' \in [Slots -> Int]
        /\ \A t \in Slots : t # s => missed'[t] = missed[t] /\ timer'[t] = timer[t]
        /\ missed'[s] = -1
    BY <1>4, <1>9, <2>1, ReturnEffect
  <2>. QED
    BY <1>1, <1>5, <1>8, <2>2, <2>3, InvParts, StepParts
<1>10. CASE UNCHANGED srvVars /\ sock' = Tail(sock)
  <2>1. st' = st /\ timer' = timer /\ tries' = tries /\ missed' = missed
    BY <1>10 DEF srvVars
  <2>2. OneServerPerName' /\ TimersAreBounded'
    BY <2>1, InvParts DEF OneServerPerName, TimersAreBounded, Serves, Interval
  <2>3. Passed(1)
    BY <1>3, <1>10, <2>1 DEF Passed
  <2>4. FreshIsAwaited' /\ LaterRequestsRepeat'
    BY <1>3, <1>10, <2>1, <2>3, InvParts, PassedKeepsRequests
  <2>. QED
    BY <1>1, <1>3, <1>5, <1>8, <1>10, <2>1, <2>2, <2>4, InvParts, StepParts
<1>. QED
  BY <1>2, <1>9, <1>10 DEF Reply

\* Steps that change neither the requests nor the calls of the servers.
LEMMA RequestsIdle ==
    ASSUME RegInv, st' = st, sock' = sock \/ sock' = << >>,
           timer' \in [Slots -> Nat], missed' \in [Slots -> Int],
           \A s \in Slots : /\ timer'[s] <= timer[s]
                            /\ missed'[s] = missed[s] \/ missed'[s] = -1
    PROVE  /\ OneServerPerName' /\ TimersAreBounded' /\ sock' \in Seq(Request)
           /\ FreshIsAwaited' /\ LaterRequestsRepeat'
<1>1. OneServerPerName'
  BY InvParts DEF OneServerPerName
<1>2. TimersAreBounded'
  <2>1. ASSUME NEW s \in Slots
        PROVE  /\ missed'[s] >= -1 /\ timer'[s] <= Interval(s)
               /\ st'[s] \in {"reg", "unreg"} => timer'[s] = 0
               /\ ~Serves(s)' => missed'[s] = -1
    <3>1. timer[s] \in Nat /\ timer'[s] \in Nat /\ missed[s] \in Int
      BY InvParts
    <3>. QED
      BY <3>1, InvParts, IntervalFacts DEF TimersAreBounded, Serves
  <2>. QED
    BY <2>1 DEF TimersAreBounded, Interval
<1>3. sock' \in Seq(Request)
  <2>1. << >> \in Seq(Request)
    OBVIOUS
  <2>. QED
    BY <2>1, InvParts
<1>4. Passed(0)
  <2>1. \A i \in DOMAIN sock : i + 0 = i
    BY InvParts
  <2>2. DOMAIN << >> = {}
    OBVIOUS
  <2>. QED
    BY <2>1, <2>2 DEF Passed
<1>5. FreshIsAwaited' /\ LaterRequestsRepeat'
  <2>1. \A t \in Slots : missed'[t] >= 0 => missed[t] >= 0
    OBVIOUS
  <2>. QED
    BY <1>3, <1>4, <2>1, InvParts, PassedKeepsRequests
<1>. QED
  BY <1>1, <1>2, <1>3, <1>5

\* An event of the manager is due.
LEMMA ExpireKeeps ==
    ASSUME RegInv, Expire PROVE StepKeeps
<1>1. /\ sock' = sock /\ up' = up /\ st' = st /\ timer' = timer /\ tries' = tries
      /\ missed' = missed /\ UNCHANGED srvVars
  BY DEF Expire, srvVars
<1>2. PICK e \in DOMAIN events : trigger(e)
  BY DEF Expire
<1>3. /\ OneServerPerName' /\ TimersAreBounded' /\ sock' \in Seq(Request)
      /\ FreshIsAwaited' /\ LaterRequestsRepeat'
  <2>1. \A s \in Slots : timer[s] \in Nat
    BY InvParts
  <2>2. \A s \in Slots : timer'[s] <= timer[s]
    BY <1>1, <2>1
  <2>. QED
    BY <1>1, <2>2, InvParts, RequestsIdle
<1>4. /\ ManagerInv' /\ DOMAIN table' \subseteq DOMAIN table
      /\ \A x \in DOMAIN table' : table'[x].ttl = table[x].ttl
  BY <1>2, InvParts, TriggerEffect
<1>5. EntryOutlastsTimer' /\ (EntryOutlastsRetries => EntryOutlastsRetries')
  <2>1. ASSUME NEW s \in Slots
        PROVE  /\ OutlastsTimer(s)'
               /\ EntryOutlastsRetries => OutlastsRetries(s)'
    BY <1>1, <1>2, InvParts, EntrySurvivesExpiry
       DEF RegInv, EntryOutlastsTimer, EntryOutlastsRetries
  <2>. QED
    BY <1>4, <2>1 DEF EntryOutlastsTimer, EntryOutlastsRetries
<1>. QED
  BY <1>1, <1>3, <1>4, <1>5, InvParts, StepParts

\* The manager crashes: no server can rely on its registration any more.
LEMMA ManagerCrashKeeps ==
    ASSUME RegInv, ManagerCrashes PROVE StepKeeps
<1>1. /\ sock' = << >> /\ up' = FALSE /\ st' = st /\ timer' = timer /\ tries' = tries
      /\ missed' = [s \in Slots |-> -1] /\ missed' \in [Slots -> Int] /\ DOMAIN table' = {}
  BY DEF ManagerCrashes
<1>2. ManagerInv'
  <2>1. ManagerInit'
    BY DEF ManagerCrashes, ManagerInit
  <2>2. ManagerInit' => ManagerInv'
    BY InitInv, PTL
  <2>. QED
    BY <2>1, <2>2
<1>3. /\ OneServerPerName' /\ TimersAreBounded' /\ sock' \in Seq(Request)
      /\ FreshIsAwaited' /\ LaterRequestsRepeat'
  <2>1. \A s \in Slots : timer[s] \in Nat
    BY InvParts
  <2>2. \A s \in Slots : timer'[s] <= timer[s]
    BY <1>1, <2>1
  <2>. QED
    BY <1>1, <2>2, InvParts, RequestsIdle
<1>4. EntryOutlastsTimer' /\ (EntryOutlastsRetries => EntryOutlastsRetries')
  <2>1. \A s \in Slots : ~(missed'[s] >= 0)
    BY <1>1
  <2>. QED
    BY <1>1, <2>1, EntriesStay
<1>. QED
  BY <1>1, <1>2, <1>3, <1>4, InvParts, StepParts

\* The manager is started again.
LEMMA ManagerStartKeeps ==
    ASSUME RegInv, ManagerStarts PROVE StepKeeps
<1>1. /\ sock' = sock /\ up' = TRUE /\ st' = st /\ timer' = timer /\ tries' = tries
      /\ missed' = missed /\ UNCHANGED mgrVars
  BY DEF ManagerStarts, srvVars
<1>2. /\ OneServerPerName' /\ TimersAreBounded' /\ sock' \in Seq(Request)
      /\ FreshIsAwaited' /\ LaterRequestsRepeat'
  <2>1. \A s \in Slots : timer[s] \in Nat
    BY InvParts
  <2>2. \A s \in Slots : timer'[s] <= timer[s]
    BY <1>1, <2>1
  <2>. QED
    BY <1>1, <2>2, InvParts, RequestsIdle
<1>3. EntryOutlastsTimer' /\ (EntryOutlastsRetries => EntryOutlastsRetries')
  BY <1>1, InvParts, ManagerIdle, EntriesStay
<1>. QED
  BY <1>1, <1>2, <1>3, InvParts, ManagerIdle, StepParts

\* Time passes.
LEMMA TickKeeps ==
    ASSUME RegInv, Tick PROVE StepKeeps
<1>1. /\ sock' = sock /\ up' = up /\ st' = st /\ tries' = tries
      /\ missed' = missed /\ table' = table /\ UNCHANGED <<table, tree>> /\ TimePasses
      /\ timer' = [s \in Slots |-> IF timer[s] > 0 THEN timer[s] - 1 ELSE 0]
  BY DEF Tick
<1>2. /\ timer' \in [Slots -> Nat] /\ \A s \in Slots : timer'[s] <= timer[s]
  BY <1>1, InvParts
<1>3. /\ OneServerPerName' /\ TimersAreBounded' /\ sock' \in Seq(Request)
      /\ FreshIsAwaited' /\ LaterRequestsRepeat'
  BY <1>1, <1>2, InvParts, RequestsIdle
<1>4. ManagerInv'
  BY <1>1, InvParts, TimePassesKeeps
<1>5. EntryOutlastsTimer' /\ (EntryOutlastsRetries => EntryOutlastsRetries')
  <2>1. ASSUME NEW s \in Slots
        PROVE  /\ OutlastsTimer(s)'
               /\ EntryOutlastsRetries => OutlastsRetries(s)'
    BY InvParts, EntryAges DEF RegInv, EntryOutlastsTimer, EntryOutlastsRetries
  <2>. QED
    BY <1>1, <2>1 DEF EntryOutlastsTimer, EntryOutlastsRetries
<1>. QED
  BY <1>1, <1>2, <1>3, <1>4, <1>5, InvParts, StepParts

-----------------------------------------------------------------------------
(***************************************************************************)
(* The theorems.                                                           *)
(***************************************************************************)
\* Nobody has registered yet.
LEMMA RegInitInv == RegInit => RegInv /\ EntryOutlastsRetries
<1> SUFFICES ASSUME RegInit PROVE RegInv /\ EntryOutlastsRetries
  OBVIOUS
<1>1. ManagerInv /\ DOMAIN table = {}
  BY InitInv DEF RegInit, ManagerInit
<1>2. /\ \A s \in Slots : st[s] = "off" /\ timer[s] = 0 /\ missed[s] = -1
      /\ sock = << >> /\ DOMAIN sock = {} /\ sock \in Seq(Request)
      /\ st \in [Slots -> {"off", "run", "reg", "unreg"}] /\ timer \in [Slots -> Nat]
      /\ tries \in [Slots -> 0 .. 2] /\ missed \in [Slots -> Int] /\ up \in BOOLEAN
  BY DEF RegInit
<1>3. RegTypeOK
  BY <1>1, <1>2 DEF RegTypeOK, ManagerInv, Request
<1>4. OneServerPerName /\ FreshIsAwaited /\ LaterRequestsRepeat
  BY <1>2 DEF OneServerPerName, FreshIsAwaited, LaterRequestsRepeat
<1>5. TimersAreBounded
  BY <1>2, IntervalFacts DEF TimersAreBounded, Serves
<1>6. EntryOutlastsTimer /\ EntryOutlastsRetries
  BY <1>1, <1>2 DEF EntryOutlastsTimer, EntryOutlastsRetries, OutlastsTimer, OutlastsRetries
<1>. QED
  BY <1>1, <1>3, <1>4, <1>5, <1>6 DEF RegInv, RequestInv

\* Every step of a server, of the manager and of the network.
LEMMA RegNextKeeps ==
    ASSUME RegInv, [RegNext]_regVars, "tree" \notin Faults
    PROVE  StepKeeps
<1>1. ASSUME NEW s \in Slots, \/ startServer(s) \/ ServerStep(s) \/ stopServer(s)
                              \/ ServerCrashes(s)
      PROVE  StepKeeps
  BY <1>1, StartKeeps, SendersKeep, TimeoutKeeps, CrashKeeps DEF ServerStep
<1>2. CASE HandleRegister \/ HandleUnregister \/ Expire
  BY <1>2, RegisterKeeps, UnregisterKeepsInv, ExpireKeeps
<1>3. CASE ManagerCrashes \/ ManagerStarts \/ Tick
  BY <1>3, ManagerCrashKeeps, ManagerStartKeeps, TickKeeps
<1>4. CASE UNCHANGED regVars
  <2>1. UNCHANGED mgrVars /\ UNCHANGED srvVars /\ up' = up /\ sock' = sock
    BY <1>4 DEF regVars
  <2>2. st' = st /\ timer' = timer /\ tries' = tries /\ missed' = missed
    BY <2>1 DEF srvVars
  <2>3. /\ OneServerPerName' /\ TimersAreBounded' /\ sock' \in Seq(Request)
        /\ FreshIsAwaited' /\ LaterRequestsRepeat'
    <3>1. \A s \in Slots : timer[s] \in Nat
      BY InvParts
    <3>2. \A s \in Slots : timer'[s] <= timer[s]
      BY <2>2, <3>1
    <3>. QED
      BY <2>1, <2>2, <3>2, InvParts, RequestsIdle
  <2>4. EntryOutlastsTimer' /\ (EntryOutlastsRetries => EntryOutlastsRetries')
    BY <2>1, <2>2, InvParts, ManagerIdle, EntriesStay
  <2>. QED
    BY <2>1, <2>2, <2>3, <2>4, InvParts, ManagerIdle, StepParts
<1>. QED
  BY <1>1, <1>2, <1>3, <1>4 DEF RegNext

\* The manager, its servers and the requests between them stay in agreement:
\* whatever is lost, sent twice, answered too late or crashes.
THEOREM RegistrationIsConsistent ==
    ASSUME "tree" \notin Faults
    PROVE  RegSpec => []RegInv
<1>1. RegInv /\ [RegNext]_regVars => RegInv'
  BY RegNextKeeps DEF StepKeeps
<1>. QED
  BY RegInitInv, <1>1, PTL DEF RegSpec

\* A running server whose last registration succeeded is listed as living,
\* with its port, until its next registration has been answered.
THEOREM ConfirmedStaysListed ==
    ASSUME "tree" \notin Faults
    PROVE  RegSpec => []ConfirmedIsListed
<1>1. RegInv => ConfirmedIsListed
  BY DEF RegInv, EntryOutlastsTimer, OutlastsTimer, ConfirmedIsListed
<1>. QED
  BY <1>1, RegistrationIsConsistent, PTL

\* A server whose registrations fail is kept for twice its time to live.  That
\* needs that its predecessors had the same time to live: the manager does not
\* change the one of an entry that it knows.
THEOREM RetriesAreInTime ==
    ASSUME "tree" \notin Faults, SameTtl
    PROVE  RegSpec => []LossesAreTolerated
<1>1. RegInv /\ EntryOutlastsRetries /\ [RegNext]_regVars => RegInv' /\ EntryOutlastsRetries'
  BY RegNextKeeps DEF StepKeeps
<1>2. EntryOutlastsRetries => LossesAreTolerated
  BY DEF EntryOutlastsRetries, OutlastsRetries, LossesAreTolerated
<1>. QED
  BY RegInitInv, <1>1, <1>2, PTL DEF RegSpec

=============================================================================
