-------------------------- MODULE ServerLoopProofs --------------------------
(***************************************************************************)
(* Proofs about the event loop: for any number of descriptors, any size of *)
(* the table, any timeouts and any faults,                                 *)
(*   - all variables keep their types,                                     *)
(*   - select() watches exactly what the connections asked for,            *)
(*   - no reported descriptor is stale when the loop comes to it,          *)
(*   - the lists of the connection manager are sound and ordered,          *)
(*   - no connection that needs attention is forgotten,                    *)
(* and, as long as the faults that break it do not happen,                 *)
(*   - no dead connection stays in the table, no descriptor leaks and no   *)
(*     request is dispatched twice.                                        *)
(* These facts need each other.  The inductive invariant IInv is split     *)
(* into what concerns connections, descriptors and the manager (WorldInv,  *)
(* module InterserverProofs) and what concerns the loop itself (LoopOK).   *)
(***************************************************************************)
EXTENDS ServerLoop, InterserverProofs, TLAPS

\* The part of the invariant that is about the loop.
LoopOK ==
    /\ pc \in Places
    /\ todoW \in SUBSET Items /\ todoR \in SUBSET Items /\ todoT \in Seq(Items)
    /\ left \in Int /\ hasTo \in BOOLEAN /\ timer \in Nat
    /\ down \in BOOLEAN /\ pending \in Int /\ flushed \in BOOLEAN
    /\ ReportedStayRegistered /\ WorkBelongsToLoop
    /\ pc = "stopped" => lfd = NoFd

\* The connections, the descriptors and the manager are consistent.
WorldOK == WorldInv(World, lfd)

LoopInv == WorldOK /\ LoopOK

\* The fields of World.
LEMMA WorldFields ==
  /\ World.m = m /\ World.cs = cs /\ World.open = open /\ World.up = up
  /\ World.cfd = cfd /\ World.isc = isc
  /\ World \in World0 <=> /\ m \in ManagerState /\ cs \in [FD -> ConnectionState]
                          /\ open \in SUBSET FD /\ up \in [FD -> BOOLEAN]
                          /\ cfd \in FD \cup {NoFd} /\ isc \in {"CLOSED", "OPEN", "BUSY"}
  /\ \A fd : KindIn(World, lfd, fd) = Kind(fd)
<1>1. /\ World.m = m /\ World.cs = cs /\ World.open = open /\ World.up = up
      /\ World.cfd = cfd /\ World.isc = isc
  BY DEF World
<1>2. World \in World0 <=> /\ m \in ManagerState /\ cs \in [FD -> ConnectionState]
                          /\ open \in SUBSET FD /\ up \in [FD -> BOOLEAN]
                          /\ cfd \in FD \cup {NoFd} /\ isc \in {"CLOSED", "OPEN", "BUSY"}
  BY DEF World, World0
<1>3. \A fd : KindIn(World, lfd, fd) = Kind(fd)
  BY <1>1 DEF KindIn, Kind
<1>. QED
  BY <1>1, <1>2, <1>3

\* What WorldOK says, in terms of the variables.
WorldParts ==
    /\ m \in ManagerState /\ cs \in [FD -> ConnectionState]
    /\ open \in SUBSET FD /\ up \in [FD -> BOOLEAN]
    /\ cfd \in FD \cup {NoFd} /\ isc \in {"CLOSED", "OPEN", "BUSY"}
    /\ lfd \in FD \cup {NoFd}
    /\ ManagerInv(m)
    /\ \A fd \in m.reg :
          /\ SoundState(Kind(fd), cs[fd])
          /\ SameWatch(m.last[fd], getIoMode(Kind(fd), cs[fd]))
          /\ Kind(fd) = "SERVER" /\ "decode" \notin Faults => cs[fd] # "DEAD"
          /\ "ATTENTION" \in getIoMode(Kind(fd), cs[fd]) => fd \in ToSet(m.svc)
    /\ m.reg \subseteq open
    /\ {lfd, cfd} \subseteq open \cup {NoFd}
    /\ lfd = cfd => lfd = NoFd
    /\ lfd \notin ToSet(m.svc)
    /\ isc = "CLOSED" => cfd = NoFd
    /\ SealedUnlessSetupFails

\* WorldOK is the conjunction of its parts, expanded,
LEMMA WorldOKParts == WorldOK <=> WorldParts
<1>1. \A fd : SoundConnection(World, lfd, fd) /\ Waits(World, lfd, fd) <=>
                 /\ SoundState(Kind(fd), cs[fd])
                 /\ SameWatch(m.last[fd], getIoMode(Kind(fd), cs[fd]))
                 /\ Kind(fd) = "SERVER" /\ "decode" \notin Faults => cs[fd] # "DEAD"
                 /\ "ATTENTION" \in getIoMode(Kind(fd), cs[fd]) => fd \in ToSet(m.svc)
  BY WorldFields DEF SoundConnection, Waits
<1>2. m \in ManagerState => m.reg \ {NoFd} = m.reg
  BY DescriptorFacts DEF ManagerState
<1>3. Sealed(World) <=> SealedUnlessSetupFails
  BY WorldFields DEF Sealed, SealedUnlessSetupFails, NoDescriptorLeak
<1>. QED
  BY <1>1, <1>2, <1>3, WorldFields DEF WorldOK, WorldInv, WorldBut, WorldParts

\* also after a step.
LEMMA WorldOKPartsPrimed == WorldOK' <=> WorldParts'
  BY WorldOKParts, PTL

\* IInv is the conjunction of the two parts.
LEMMA IInvSplits == IInv <=> LoopInv
<1>1. ASSUME m \in ManagerState, cs \in [FD -> ConnectionState],
             lfd = cfd => lfd = NoFd, NEW fd \in m.reg
      PROVE  /\ SoundState(Kind(fd), cs[fd])
             /\ Kind(fd) = "SERVER" /\ "decode" \notin Faults => cs[fd] # "DEAD"
             <=>
             /\ cs[fd] # "NONE"
             /\ cs[fd] = "CONNECTING" => fd = cfd
             /\ cs[fd] = "DEAD" => /\ fd # cfd
                                   /\ Kind(fd) = "SERVER" => "decode" \in Faults
  <2>1. fd \in FD /\ fd # NoFd /\ cs[fd] \in ConnectionState
    BY <1>1, DescriptorFacts DEF ManagerState
  <2>2. Kind(fd) = "CLIENT" <=> fd = cfd
    BY <1>1, <2>1 DEF Kind
  <2>. QED
    BY <2>1, <2>2 DEF SoundState
<1>2. m \in ManagerState =>
        (ManagerInv(m) <=> FdSetsFollowModes /\ ListsHoldItems /\ m.count >= Len(m.svc))
  <2>1. m \in ManagerState => (Len(m.svc) <= m.count <=> m.count >= Len(m.svc))
    BY DEF ManagerState
  <2>2. OrderedBy(m.active, m.due) <=>
          \A i, j \in DOMAIN m.active : i < j => m.due[m.active[i]] <= m.due[m.active[j]]
    BY DEF OrderedBy
  <2>. QED
    BY <2>1, <2>2 DEF ManagerInv, FdSetsFollowModes, ListsHoldItems, SoundLists
<1>3. ASSUME IInv PROVE LoopInv
  <2>1. WorldOK
    BY <1>1, <1>2, <1>3, WorldOKParts
       DEF IInv, TypeOK, ModesFollowStates, DescriptorsAreOwned, ConnectionsAreSound,
           AttentionNotLost, WorldParts
  <2>2. LoopOK
    BY <1>3 DEF IInv, TypeOK, LoopOK, DescriptorsAreOwned
  <2>. QED
    BY <2>1, <2>2 DEF LoopInv
<1>4. ASSUME LoopInv PROVE IInv
  <2>1. TypeOK /\ DescriptorsAreOwned /\ ReportedStayRegistered /\ WorkBelongsToLoop
    BY <1>4, WorldOKParts DEF LoopInv, LoopOK, TypeOK, DescriptorsAreOwned, WorldParts
  <2>2. /\ FdSetsFollowModes /\ ListsHoldItems /\ ModesFollowStates
        /\ AttentionNotLost /\ SealedUnlessSetupFails
    BY <1>2, <1>4, WorldOKParts
       DEF LoopInv, ModesFollowStates, AttentionNotLost, WorldParts
  <2>3. ConnectionsAreSound
    BY <1>1, <1>4, WorldOKParts DEF LoopInv, ConnectionsAreSound, WorldParts
  <2>. QED
    BY <2>1, <2>2, <2>3 DEF IInv
<1>. QED
  BY <1>3, <1>4

-----------------------------------------------------------------------------
\* An operation on a connection that keeps or destroys it.
Effect(fd, r) == Survives(m, fd, Kind(fd), r) \/ Gone(m, fd, Kind(fd), r)

\* The outcome of such an operation may take effect.  Only a connection that
\* was accepted can disappear from the table.
LEMMA ApplyKeepsWorld ==
  ASSUME WorldOK, NEW fd \in m.reg, NEW r, Effect(fd, r), Apply(fd, r),
         UNCHANGED <<lfd, cfd, isc>>
  PROVE  WorldOK' /\ (m'.reg = m.reg \/ (m'.reg = m.reg \ {fd} /\ fd # cfd))
<1>1. /\ cs \in [FD -> ConnectionState] /\ up \in [FD -> BOOLEAN] /\ open \in SUBSET FD
      /\ cfd \in FD \cup {NoFd} /\ isc \in {"CLOSED", "OPEN", "BUSY"}
  BY WorldOKParts DEF WorldParts
<1>2. ManagerInv(r.m) /\ r.m \in ManagerState /\ r.st \in ConnectionState
  BY DEF Effect, Survives, Kept, Gone, ManagerInv, SoundState, ConnectionState
<1>3. /\ m' = r.m /\ cs' = [cs EXCEPT ![fd] = r.st]
      /\ open' = IF r.st = "NONE" THEN open \ {fd} ELSE open
      /\ up' \in [FD -> BOOLEAN]
  BY <1>1 DEF Apply
<1>4. /\ World'.m = m' /\ World'.cs = cs' /\ World'.open = open' /\ World'.up = up'
      /\ World'.cfd = cfd /\ World'.isc = isc
  BY DEF World
<1>5. World' \in World0
  BY <1>1, <1>2, <1>3 DEF World, World0
<1>6. After(World, fd, r, World')
  BY <1>3, <1>4, <1>5, WorldFields DEF After
<1>7. /\ Survives(World.m, fd, KindIn(World, lfd, fd), r)
         \/ Gone(World.m, fd, KindIn(World, lfd, fd), r)
      /\ fd \in World.m.reg /\ WorldBut(World, lfd, fd)
  BY WorldFields, WorldInvIsWorldBut DEF Effect, WorldOK
<1>8. WorldInv(World', lfd)
  BY <1>6, <1>7, EffectKeepsWorld
<1>9. m'.reg = m.reg \/ (m'.reg = m.reg \ {fd} /\ fd # cfd)
  <2>1. Kind(fd) = "SERVER" => fd # cfd
    BY DEF Kind
  <2>. QED
    BY <1>3, <2>1 DEF Effect, Survives, Kept, Gone
<1>. QED
  BY <1>8, <1>9 DEF WorldOK

\* What is known of a registered connection.
LEMMA RegisteredFacts ==
  ASSUME WorldOK, NEW fd \in m.reg
  PROVE  /\ fd \in FD /\ fd \in Items /\ Kind(fd) \in Kinds
         /\ ManagerInv(m) /\ up[fd] \in BOOLEAN
         /\ SoundState(Kind(fd), cs[fd])
<1>1. fd \in Items /\ fd \in FD
  BY WorldOKParts, DescriptorFacts DEF ManagerState, WorldParts
<1>2. Kind(fd) \in Kinds
  BY DEF Kind, Kinds
<1>. QED
  BY <1>1, <1>2, WorldOKParts DEF WorldParts

\* What the methods of a registered connection may leave it with.
LEMMA RegisteredProper ==
  ASSUME WorldOK, NEW fd \in m.reg,
         NEW o \in receive(Kind(fd), cs[fd], up[fd]) \cup send(Kind(fd), cs[fd], up[fd])
                     \cup {timedOut(Kind(fd), cs[fd])}
  PROVE  Proper(m, fd, Kind(fd), cs[fd], o)
<1>1. Kind(fd) \in Kinds /\ up[fd] \in BOOLEAN /\ SoundState(Kind(fd), cs[fd])
  BY RegisteredFacts
<1>2. SoundOutcome(Kind(fd), o)
  BY <1>1, ReceiveIsSound, SendIsSound, TimedOutIsSound
<1>3. FollowsFrom(Kind(fd), cs[fd], o)
  BY <1>1, MethodsFollow
<1>. QED
  BY <1>2, <1>3, WorldOKParts DEF WorldParts, Proper

\* A method of the connection is called, and its outcome is tracked.
LEMMA TrackAndReapKeepsWorld ==
  ASSUME WorldOK, NEW fd \in m.reg, NEW o, Proper(m, fd, Kind(fd), cs[fd], o),
         NEW r \in TrackAndReap(m, fd, Kind(fd), up[fd], o), Apply(fd, r),
         UNCHANGED <<lfd, cfd, isc>>
  PROVE  WorldOK' /\ (m'.reg = m.reg \/ (m'.reg = m.reg \ {fd} /\ fd # cfd))
<1>1. Effect(fd, r)
  BY RegisteredFacts, TrackAndReapEffect DEF Effect
<1>. QED
  BY <1>1, ApplyKeepsWorld

\* The same in the flush loop of shutdownConnections().
LEMMA FlushResultEffect ==
  ASSUME WorldOK, NEW fd \in m.reg, NEW o, Proper(m, fd, Kind(fd), cs[fd], o),
         NEW r \in FlushResult(fd, o)
  PROVE  Effect(fd, r)
<1>. DEFINE kind == Kind(fd)
            T == trackCnxIoMode(m, fd, kind, up[fd], o.st, o.io)
<1>1. kind \in Kinds /\ ManagerInv(m) /\ up[fd] \in BOOLEAN
  BY RegisteredFacts
<1>2. ASSUME NEW q \in T
      PROVE  Kept(m, fd, kind, q) /\ ("DEAD" \notin o.io => Survives(m, fd, kind, q))
  BY <1>1, TrackProper
<1>3. CASE r \in T /\ "DEAD" \notin o.io
  BY <1>2, <1>3 DEF Effect
<1>4. CASE isAutoDestroyable(kind) /\ \E q \in T : r = Destroy(q.m, fd)
  <2>1. PICK q \in T : r = Destroy(q.m, fd)
    BY <1>4
  <2>2. /\ ManagerInv(q.m) /\ q.m.reg = m.reg
        /\ \A g \in m.reg \ {fd} : q.m.last[g] = m.last[g]
        /\ ToSet(m.svc) \ {fd} \subseteq ToSet(q.m.svc)
        /\ ToSet(q.m.svc) \subseteq ToSet(m.svc) \cup {fd}
    BY <1>2 DEF Kept
  <2>3. Gone(m, fd, "SERVER", r)
    BY <2>1, <2>2, DestroyIsGone
  <2>. QED
    BY <1>4, <2>3 DEF Effect, isAutoDestroyable
<1>5. CASE /\ ~ isAutoDestroyable(kind)
           /\ \E q \in T : r \in trackCnxIoMode(q.m, fd, kind, up[fd],
                                   reset(kind, q.st).st, reset(kind, q.st).io)
  <2>1. PICK q \in T : r \in trackCnxIoMode(q.m, fd, kind, up[fd],
                                reset(kind, q.st).st, reset(kind, q.st).io)
    BY <1>5
  <2>2. Kept(m, fd, kind, q)
    BY <1>2
  <2>3. Kept(m, fd, kind, r)
    BY <1>1, <2>1, <2>2, ResetKeeps
  <2>. QED
    BY <1>5, <2>3 DEF Effect, Survives, isAutoDestroyable
<1>. QED
  BY <1>3, <1>4, <1>5 DEF FlushResult

\* The rendezvous socket l stays readable.
LEMMA ListenerKeepsWorld ==
  ASSUME NEW w, NEW l, WorldInv(w, l), l \in w.m.reg, w.cs[l] # "DEAD", NEW x,
         x = [w EXCEPT !.m = TrackIoMode(w.m, l, "LISTENER", {"READABLE"})]
  PROVE  WorldInv(x, l) /\ x.m.reg = w.m.reg
<1>. DEFINE n == TrackIoMode(w.m, l, "LISTENER", {"READABLE"})
            r == [m |-> n, st |-> w.cs[l]]
<1>1. /\ w \in World0 /\ w.cs \in [FD -> ConnectionState] /\ ManagerInv(w.m)
      /\ l \in FD /\ l # w.cfd /\ l \in Items /\ w.m.last \in [Items -> SUBSET IoFlags]
      /\ w.m.reg \subseteq Items
  BY DescriptorFacts DEF WorldInv, WorldBut, World0, ManagerInv, ManagerState
<1>2. KindIn(w, l, l) = "LISTENER" /\ "LISTENER" \in Kinds
  BY <1>1, KindFacts DEF Kinds
<1>3. {"READABLE"} \in SUBSET IoFlags /\ "ATTENTION" \notin {"READABLE"}
  BY DEF IoFlags
<1>4. ModeTracked(w.m, l, {"READABLE"}, n)
  BY <1>1, <1>2, <1>3, TrackIoModeInv
<1>. HIDE DEF n
<1>5. SoundState("LISTENER", w.cs[l])
  <2>1. SoundConnection(w, l, l)
    BY <1>1, DescriptorFacts DEF WorldInv, WorldBut
  <2>. QED
    BY <1>2, <2>1 DEF SoundConnection
<1>6. Survives(w.m, l, "LISTENER", r)
  <2>1. r.m = n /\ r.st = w.cs[l]
    OBVIOUS
  <2>2. getIoMode("LISTENER", w.cs[l]) = {"READABLE"}
    BY DEF getIoMode, ListenIoMode
  <2>3. n.last[l] = {"READABLE"} /\ \A g \in w.m.reg \ {l} : n.last[g] = w.m.last[g]
    BY <1>1, <1>4 DEF ModeTracked
  <2>. HIDE DEF r
  <2>4. SameWatch(r.m.last[l], getIoMode("LISTENER", r.st))
    BY <2>1, <2>2, <2>3 DEF SameWatch
  <2>. QED
    BY <1>3, <1>4, <1>5, <2>1, <2>2, <2>3, <2>4 DEF Survives, Kept, ModeTracked
<1>7. After(w, l, r, x)
  <2>1. [w.cs EXCEPT ![l] = w.cs[l]] = w.cs
    BY <1>1
  <2>2. n \in ManagerState
    BY <1>4 DEF ModeTracked, ManagerInv
  <2>3. r.m = n /\ r.st = w.cs[l] /\ r.st # "NONE"
    BY <1>5 DEF SoundState
  <2>4. /\ x \in World0 /\ x.m = n /\ x.cfd = w.cfd /\ x.isc = w.isc
        /\ x.cs = w.cs /\ x.open = w.open
    BY <1>1, <2>2 DEF World0, n
  <2>. QED
    BY <2>1, <2>3, <2>4 DEF After
<1>8. WorldInv(x, l)
  BY <1>2, <1>6, <1>7, WorldInvIsWorldBut, EffectKeepsWorld
<1>9. x.m.reg = w.m.reg
  BY <1>6, <1>7 DEF After, Survives, Kept
<1>. QED
  BY <1>8, <1>9

\* When a new connection cannot be set up, its descriptor stays open without
\* belonging to anybody.
LEMMA MoreOpenKeepsWorld ==
  ASSUME NEW w, NEW l, WorldInv(w, l), NEW fd \in FD, NEW u \in [FD -> BOOLEAN],
         "setup" \in Faults
  PROVE  WorldInv([w EXCEPT !.open = @ \cup {fd}, !.up = u], l)
<1>. DEFINE x == [w EXCEPT !.open = @ \cup {fd}, !.up = u]
<1>1. w \in World0
  BY DEF WorldInv, WorldBut
<1>2. /\ x \in World0 /\ x.m = w.m /\ x.cs = w.cs /\ x.open = w.open \cup {fd}
      /\ x.cfd = w.cfd /\ x.isc = w.isc
  BY <1>1 DEF World0
<1>. HIDE DEF x
<1>3. \A g : SoundConnection(w, l, g) => SoundConnection(x, l, g)
  BY <1>2 DEF SoundConnection, KindIn
<1>4. (\A g : Waits(w, l, g) => Waits(x, l, g)) /\ Sealed(x)
  BY <1>2 DEF Waits, KindIn, Sealed
<1>5. WorldInv(x, l)
  BY <1>2, <1>3, <1>4 DEF WorldInv, WorldBut
<1>. QED
  BY <1>5 DEF x

\* receive() of the rendezvous socket.
LEMMA AcceptKeepsWorld ==
  ASSUME WorldOK, lfd \in m.reg, cs[lfd] # "DEAD", Accept(lfd), UNCHANGED <<lfd, cfd, isc>>
  PROVE  WorldOK' /\ m.reg \subseteq m'.reg
<1>. DEFINE Tracked(n) == TrackIoMode(n, lfd, "LISTENER", {"READABLE"})
<1>1. /\ World \in World0 /\ WorldInv(World, lfd) /\ ManagerInv(m)
      /\ cs \in [FD -> ConnectionState] /\ up \in [FD -> BOOLEAN] /\ open \in SUBSET FD
      /\ lfd \in open /\ lfd \in FD
      /\ cfd \in FD \cup {NoFd} /\ isc \in {"CLOSED", "OPEN", "BUSY"}
  BY WorldOKParts, WorldFields, RegisteredFacts DEF WorldOK, WorldParts
<1>2. /\ World.m = m /\ World.cs = cs /\ World.open = open /\ World.up = up
      /\ World.cfd = cfd /\ World.isc = isc
  BY WorldFields
<1>3. ASSUME NEW w, WorldInv(w, lfd), lfd \in w.m.reg, w.cs[lfd] # "DEAD",
             m.reg \subseteq w.m.reg, m' = Tracked(w.m), cs' = w.cs, open' = w.open,
             up' = w.up, cfd = w.cfd, isc = w.isc
      PROVE  WorldOK' /\ m.reg \subseteq m'.reg
  <2>. DEFINE n == Tracked(w.m)
              x == [w EXCEPT !.m = n]
  <2>1. WorldInv(x, lfd) /\ x.m.reg = w.m.reg
    BY <1>3, ListenerKeepsWorld
  <2>2. w \in World0
    BY <1>3 DEF WorldInv, WorldBut
  <2>3. m' = n
    BY <1>3
  <2>. HIDE DEF n
  <2>4. World' = x /\ x.m = m'
    BY <1>3, <2>2, <2>3 DEF World, World0
  <2>. HIDE DEF x
  <2>. QED
    BY <1>3, <2>1, <2>4 DEF WorldOK
<1>. HIDE DEF Tracked
<1>4. CASE m' = Tracked(m) /\ UNCHANGED <<cs, open, up>>
  BY <1>1, <1>2, <1>3, <1>4
<1>. DEFINE new == LowestFree(open)
            u == [up EXCEPT ![new] = TRUE]
<1>5. ASSUME open # FD
      PROVE  new \in FD \ open /\ new # lfd /\ u \in [FD -> BOOLEAN]
  BY <1>1, <1>5, LowestFreeIsFree
<1>. HIDE DEF new
<1>6. CASE /\ open # FD /\ open' = open \cup {new} /\ up' = u
           /\ "setup" \in Faults /\ m' = Tracked(m) /\ UNCHANGED cs
  <2>. DEFINE w == [World EXCEPT !.open = @ \cup {new}, !.up = u]
  <2>1. WorldInv(w, lfd)
    BY <1>1, <1>5, <1>6, MoreOpenKeepsWorld
  <2>. HIDE DEF u
  <2>2. /\ w.m = m /\ w.cs = cs /\ w.open = open \cup {new} /\ w.up = u /\ w.cfd = cfd
        /\ w.isc = isc
    BY DEF World
  <2>. HIDE DEF w
  <2>. QED
    BY <1>3, <1>6, <2>1, <2>2
<1>7. ASSUME open # FD, open' = open \cup {new}, up' = u,
             NEW r \in addConnection(m, new, "SERVER", TRUE, "IDLE"),
             m' = Tracked(r.m), cs' = IF r.ok THEN [cs EXCEPT ![new] = r.st] ELSE cs
      PROVE  WorldOK' /\ m.reg \subseteq m'.reg
  <2>. DEFINE w == [m |-> r.m, cs |-> cs', open |-> open \cup {new}, up |-> u,
                    cfd |-> cfd, isc |-> isc]
  <2>1. SoundState("SERVER", "IDLE") /\ "SERVER" \in Kinds /\ TRUE \in BOOLEAN
    BY DEF SoundState, ConnectionState, LiveStates, Kinds
  <2>2. Added(m, new, "SERVER", "IDLE", r)
    BY <1>1, <2>1, AddConnectionEffect
  <2>3. /\ r.m \in ManagerState /\ r.st \in ConnectionState /\ m.reg \subseteq r.m.reg
    BY <2>2 DEF Added, ManagerInv, SoundState
  <2>4. /\ new \in FD \ open /\ new # lfd /\ u \in [FD -> BOOLEAN]
    BY <1>5, <1>7
  <2>5. cs' \in [FD -> ConnectionState] /\ cs'[lfd] = cs[lfd]
    BY <1>1, <1>7, <2>3, <2>4
  <2>. HIDE DEF u
  <2>6. w \in World0
    BY <1>1, <2>3, <2>4, <2>5 DEF World0
  <2>7. /\ w.m = r.m /\ w.cs = cs' /\ w.open = open \cup {new} /\ w.up = u
        /\ w.cfd = cfd /\ w.isc = isc
    OBVIOUS
  <2>. HIDE DEF w
  <2>8. WithNew(World, new, "SERVER", r, w)
    BY <1>2, <1>7, <2>6, <2>7 DEF WithNew
  <2>9. WorldInv(w, lfd)
    <3>1. /\ new \in FD \ World.open /\ Added(World.m, new, "SERVER", "IDLE", r)
          /\ "SERVER" \in {"SERVER", "CLIENT"} /\ "SERVER" # "CLIENT"
      BY <1>2, <2>2, <2>4
    <3>. QED
      BY <1>1, <2>8, <3>1, NewConnectionKeepsWorld
  <2>10. w.cs[lfd] # "DEAD" /\ lfd \in w.m.reg /\ m.reg \subseteq w.m.reg
    BY <2>3, <2>5, <2>7
  <2>. QED
    BY <1>3, <1>7, <2>7, <2>9, <2>10
<1>. QED
  BY <1>4, <1>6, <1>7 DEF Accept, Tracked, new

\* startServer()
LEMMA StartServerKeepsWorld ==
  ASSUME WorldOK, lfd = NoFd, StartServer
  PROVE  WorldOK' /\ m.reg \subseteq m'.reg
<1>b. PICK fd : fd = LowestFree(open)
  OBVIOUS
<1>1. /\ cs \in [FD -> ConnectionState] /\ up \in [FD -> BOOLEAN] /\ open \in SUBSET FD
      /\ cfd \in FD \cup {NoFd} /\ isc \in {"CLOSED", "OPEN", "BUSY"} /\ ManagerInv(m)
      /\ m.reg \subseteq open /\ cfd \in open \cup {NoFd} /\ NoFd \notin FD
      /\ ToSet(m.svc) \subseteq m.reg
      /\ isc = "CLOSED" => cfd = NoFd
  BY WorldOKParts, DescriptorFacts DEF ManagerInv, WorldParts
<1>2. fd \in FD \ open
  BY <1>1, <1>b, LowestFreeIsFree DEF StartServer
<1>a. PICK st \in {"IDLE", "DEAD"} :
        \E r \in addConnection(m, fd, "LISTENER", TRUE, st) :
          /\ r.ok /\ m' = r.m /\ cs' = [cs EXCEPT ![fd] = r.st]
          /\ open' = open \cup {fd} /\ lfd' = fd
  BY <1>b DEF StartServer
<1>3. PICK r \in addConnection(m, fd, "LISTENER", TRUE, st) :
        /\ r.ok /\ m' = r.m /\ cs' = [cs EXCEPT ![fd] = r.st]
        /\ open' = open \cup {fd} /\ lfd' = fd
  BY <1>a
<1>4. up' = up /\ cfd' = cfd /\ isc' = isc
  BY DEF StartServer
<1>5. SoundState("LISTENER", st) /\ "LISTENER" \in Kinds /\ TRUE \in BOOLEAN
  BY DEF SoundState, ConnectionState, LiveStates, Kinds
<1>6. Added(m, fd, "LISTENER", st, r)
  BY <1>1, <1>5, AddConnectionEffect
<1>7. /\ ManagerInv(m') /\ m' \in ManagerState /\ m'.reg = m.reg \cup {fd}
      /\ SoundState("LISTENER", r.st) /\ r.st \in ConnectionState
      /\ SameWatch(m'.last[fd], getIoMode("LISTENER", r.st))
      /\ \A g \in m.reg \ {fd} : m'.last[g] = m.last[g]
      /\ ToSet(m'.svc) \subseteq ToSet(m.svc)
      /\ ToSet(m.svc) \ {fd} \subseteq ToSet(m'.svc)
      /\ "ATTENTION" \in getIoMode("LISTENER", r.st) => fd \in ToSet(m'.svc)
  BY <1>3, <1>6 DEF Added, ManagerInv, SoundState
<1>8. cs' \in [FD -> ConnectionState] /\ cs'[fd] = r.st /\ Kind(fd)' = "LISTENER"
  BY <1>1, <1>2, <1>3, <1>4, <1>7 DEF Kind
<1>9. ASSUME NEW g \in m.reg
      PROVE  /\ SoundState(Kind(g)', cs'[g])
             /\ SameWatch(m'.last[g], getIoMode(Kind(g)', cs'[g]))
             /\ Kind(g)' = "SERVER" /\ "decode" \notin Faults => cs'[g] # "DEAD"
             /\ "ATTENTION" \in getIoMode(Kind(g)', cs'[g]) => g \in ToSet(m'.svc)
  <2>1. g \in FD /\ g # fd /\ g # NoFd
    BY <1>1, <1>2
  <2>2. Kind(g)' = Kind(g)
    BY <1>3, <1>4, <2>1 DEF Kind
  <2>3. cs'[g] = cs[g] /\ m'.last[g] = m.last[g]
    BY <1>1, <1>3, <1>7, <2>1
  <2>. QED
    BY <1>7, <2>1, <2>2, <2>3, WorldOKParts DEF WorldParts
<1>10. WorldOK'
  <2>1. \A g \in m'.reg :
          /\ SoundState(Kind(g)', cs'[g])
          /\ SameWatch(m'.last[g], getIoMode(Kind(g)', cs'[g]))
          /\ Kind(g)' = "SERVER" /\ "decode" \notin Faults => cs'[g] # "DEAD"
          /\ "ATTENTION" \in getIoMode(Kind(g)', cs'[g]) => g \in ToSet(m'.svc)
    BY <1>7, <1>8, <1>9
  <2>2. lfd' \notin ToSet(m'.svc)
    BY <1>1, <1>2, <1>3, <1>7
  <2>3. /\ {lfd', cfd'} \subseteq open' \cup {NoFd} /\ lfd' # cfd' /\ lfd' \in FD
        /\ m'.reg \subseteq open' /\ open' \in SUBSET FD
    BY <1>1, <1>2, <1>3, <1>4, <1>7
  <2>4. SealedUnlessSetupFails'
    <3>1. r.st # "NONE"
      BY <1>7 DEF SoundState
    <3>. QED
      BY <1>1, <1>2, <1>3, <3>1, WorldOKParts
         DEF WorldParts, SealedUnlessSetupFails, NoDescriptorLeak
  <2>. QED
    BY <1>1, <1>4, <1>7, <1>8, <2>1, <2>2, <2>3, <2>4, WorldOKPartsPrimed DEF WorldParts
<1>. QED
  BY <1>7, <1>10

\* The end of stopServer(): the rendezvous socket is removed.
LEMMA FlushEndKeepsWorld ==
  ASSUME WorldOK, FlushEnd
  PROVE  WorldOK'
<1>1. /\ cs \in [FD -> ConnectionState] /\ up \in [FD -> BOOLEAN] /\ open \in SUBSET FD
      /\ cfd \in FD \cup {NoFd} /\ isc \in {"CLOSED", "OPEN", "BUSY"} /\ ManagerInv(m)
      /\ m.reg \subseteq open /\ cfd \in open \cup {NoFd} /\ NoFd \notin FD
      /\ lfd = cfd => lfd = NoFd
      /\ isc = "CLOSED" => cfd = NoFd
  BY WorldOKParts, DescriptorFacts DEF WorldParts
<1>2. /\ m' = removeConnection(m, lfd) /\ cs' = [cs EXCEPT ![lfd] = "NONE"]
      /\ open' = open \ {lfd} /\ up' = [up EXCEPT ![lfd] = FALSE]
      /\ lfd' = NoFd /\ cfd' = cfd /\ isc' = isc
  BY DEF FlushEnd, Apply, Destroy
<1>3. /\ ManagerInv(m') /\ m'.reg = m.reg \ {lfd} /\ m'.last = m.last
      /\ ToSet(m.svc) \ {lfd} \subseteq ToSet(m'.svc)
  BY <1>1, <1>2, RemoveConnectionInv
<1>4. cs' \in [FD -> ConnectionState] /\ up' \in [FD -> BOOLEAN]
  BY <1>1, <1>2 DEF ConnectionState
<1>5. ASSUME NEW g \in m'.reg
      PROVE  /\ SoundState(Kind(g)', cs'[g])
             /\ SameWatch(m'.last[g], getIoMode(Kind(g)', cs'[g]))
             /\ Kind(g)' = "SERVER" /\ "decode" \notin Faults => cs'[g] # "DEAD"
             /\ "ATTENTION" \in getIoMode(Kind(g)', cs'[g]) => g \in ToSet(m'.svc)
  <2>1. g \in m.reg /\ g \in FD /\ g # lfd /\ g # NoFd
    BY <1>1, <1>3
  <2>2. Kind(g)' = Kind(g)
    BY <1>2, <2>1 DEF Kind
  <2>3. cs'[g] = cs[g] /\ m'.last[g] = m.last[g]
    BY <1>1, <1>2, <1>3, <2>1
  <2>. QED
    BY <1>3, <2>1, <2>2, <2>3, WorldOKParts DEF WorldParts
<1>6. m' \in ManagerState /\ NoFd \notin ToSet(m'.svc)
  BY <1>1, <1>3 DEF ManagerInv
<1>7. SealedUnlessSetupFails'
  <2>1. lfd \in FD => cs'[lfd] = "NONE"
    BY <1>1, <1>2
  <2>2. \A g \in FD \ {lfd} : cs'[g] = cs[g]
    BY <1>1, <1>2
  <2>. QED
    BY <1>1, <1>2, <2>1, <2>2, WorldOKParts
       DEF WorldParts, SealedUnlessSetupFails, NoDescriptorLeak
<1>. QED
  BY <1>1, <1>2, <1>3, <1>4, <1>5, <1>6, <1>7, WorldOKPartsPrimed DEF WorldParts

-----------------------------------------------------------------------------
\* The interserver connection has changed the world.
LEMMA BecomeKeepsWorld ==
  ASSUME NEW w, WorldInv(w, lfd), Become(w), lfd' = lfd
  PROVE  WorldOK'
<1>1. w \in World0
  BY DEF WorldInv, WorldBut
<1>2. World' = w
  BY <1>1 DEF World, Become, World0
<1>. QED
  BY <1>2 DEF WorldOK

\* Taking a connection from the list of serviceable connections.
LEMMA TakenKeepsWorld ==
  ASSUME WorldOK, m.svc # << >>
  PROVE  LET taken == getNextServiceableConnection(m)
         IN  /\ WorldBut([World EXCEPT !.m = taken], lfd, Head(m.svc))
             /\ ManagerInv(taken) /\ taken.reg = m.reg /\ taken.last = m.last
             /\ ToSet(taken.svc) = ToSet(m.svc) \ {Head(m.svc)}
             /\ Head(m.svc) \in m.reg /\ Head(m.svc) # lfd
<1>. DEFINE taken == getNextServiceableConnection(m)
            w == [World EXCEPT !.m = taken]
<1>1. /\ World \in World0 /\ WorldInv(World, lfd) /\ ManagerInv(m)
      /\ lfd \notin ToSet(m.svc) /\ m.svc \in Seq(Items) /\ IsInjective(m.svc)
  BY WorldOKParts, WorldFields
     DEF WorldOK, WorldParts, ManagerInv, ManagerState, SoundLists
<1>2. /\ Head(m.svc) \in m.reg /\ ManagerInv(taken) /\ taken.reg = m.reg
      /\ taken.last = m.last /\ ToSet(taken.svc) = ToSet(m.svc) \ {Head(m.svc)}
  BY <1>1, NextServiceable
<1>3. Head(m.svc) # lfd
  BY <1>1, TailProperties
<1>. HIDE DEF taken
<1>4. taken \in ManagerState
  BY <1>2 DEF ManagerInv
<1>5. /\ w \in World0 /\ w.m = taken /\ w.cs = World.cs /\ w.open = World.open
      /\ w.cfd = World.cfd /\ w.isc = World.isc
  BY <1>1, <1>4 DEF World0
<1>. HIDE DEF w
<1>6. \A g : SoundConnection(World, lfd, g) => SoundConnection(w, lfd, g)
  BY <1>2, <1>5, WorldFields DEF SoundConnection, KindIn
<1>7. \A g \in m.reg \ {Head(m.svc)} : Waits(World, lfd, g) => Waits(w, lfd, g)
  BY <1>2, <1>5, WorldFields DEF Waits, KindIn
<1>8. WorldBut(World, lfd, Head(m.svc)) /\ (Sealed(World) => Sealed(w))
  BY <1>1, <1>5, WorldInvIsWorldBut DEF Sealed
<1>9. WorldBut(w, lfd, Head(m.svc))
  BY <1>1, <1>2, <1>5, <1>6, <1>7, <1>8, WorldFields DEF WorldBut
<1>. QED
  BY <1>2, <1>3, <1>9 DEF taken, w

\* A connection is given attention.
LEMMA AttendKeepsWorld ==
  ASSUME WorldOK, m.svc # << >>, Attend, lfd' = lfd
  PROVE  WorldOK'
<1>. DEFINE fd == Head(m.svc)
            taken == getNextServiceableConnection(m)
            w == [World EXCEPT !.m = taken]
<1>1. /\ WorldBut(w, lfd, fd) /\ ManagerInv(taken) /\ taken.reg = m.reg
      /\ taken.last = m.last /\ ToSet(taken.svc) = ToSet(m.svc) \ {fd}
      /\ fd \in m.reg /\ fd # lfd
  BY TakenKeepsWorld
<1>2. /\ w.m = taken /\ w.cs = cs /\ w.open = open /\ w.up = up /\ w.cfd = cfd
      /\ w.isc = isc
  BY DEF World
<1>3. /\ fd \in FD /\ Kind(fd) \in Kinds /\ up[fd] \in BOOLEAN
      /\ SoundState(Kind(fd), cs[fd])
  BY <1>1, RegisteredFacts
<1>4. CASE Kind(fd) = "CLIENT"
  <2>1. PICK x \in attention(w) : Become(x)
    BY <1>4 DEF Attend
  <2>2. w.cfd \in w.m.reg /\ WorldBut(w, lfd, w.cfd)
    BY <1>1, <1>2, <1>4 DEF Kind
  <2>. HIDE DEF w
  <2>3. WorldInv(x, lfd)
    BY <2>2, AttentionKeepsWorld
  <2>. QED
    BY <2>1, <2>3, BecomeKeepsWorld
<1>5. CASE Kind(fd) # "CLIENT"
  <2>1. PICK st \in dispatchTransport(Kind(fd), cs[fd]) :
          \E r \in trackConnection(taken, fd, Kind(fd), up[fd], st) : Apply(fd, r)
    BY <1>5 DEF Attend
  <2>2. PICK r \in trackConnection(taken, fd, Kind(fd), up[fd], st) : Apply(fd, r)
    BY <2>1
  <2>3. cfd' = cfd /\ isc' = isc
    BY <1>5 DEF Attend
  <2>4. Kind(fd) = "SERVER" /\ "SERVER" \in Kinds
    BY <1>1, <1>5 DEF Kind, Kinds
  <2>5. SoundState("SERVER", st)
    <3>1. SoundState("SERVER", ResetState("SERVER", cs[fd]))
      BY <1>3, <2>4, ResetIsSound
    <3>2. SoundState("SERVER", "SENDING") /\ SoundState("SERVER", "DEAD")
      BY DEF SoundState, ConnectionState, LiveStates
    <3>. QED
      BY <2>1, <2>4, <3>1, <3>2 DEF dispatchTransport
  <2>6. Survives(taken, fd, "SERVER", r) \/ Gone(taken, fd, "SERVER", r)
    <3>1. isAutoDestroyable("SERVER") /\ fd \in taken.reg
      BY <1>1 DEF isAutoDestroyable
    <3>. HIDE DEF taken, fd
    <3>. QED
      BY <1>1, <1>3, <2>2, <2>4, <2>5, <3>1, TrackConnectionEffect
  <2>7. Effect(fd, r)
    <3>. HIDE DEF taken, fd
    <3>. QED
      BY <1>1, <2>4, <2>6 DEF Effect, Survives, Kept, Gone
  <2>. HIDE DEF fd
  <2>. QED
    BY <1>1, <2>2, <2>3, <2>7, ApplyKeepsWorld
<1>. QED
  BY <1>4, <1>5

-----------------------------------------------------------------------------
\* Nothing changes but where the loop is.
LEMMA WorldStays ==
  ASSUME WorldOK, UNCHANGED <<conVars, up, lfd, cfd, isc>>
  PROVE  WorldOK' /\ m' = m
<1>1. World' = World /\ lfd' = lfd /\ m' = m
  BY DEF World, conVars
<1>. QED
  BY <1>1 DEF WorldOK

\* The invariant holds before startServer().
LEMMA InitLoopInv == Init => LoopInv
<1>. SUFFICES ASSUME Init PROVE LoopInv
  OBVIOUS
<1>1. << >> \in Seq(Items) /\ ToSet(<< >>) = {} /\ IsInjective(<< >>)
      /\ DOMAIN << >> = {}
  <2>1. << >> \in Seq(Items) /\ DOMAIN << >> = {}
    OBVIOUS
  <2>. QED
    BY <2>1 DEF ToSet, IsInjective
<1>2. NewManager \in ManagerState
  BY <1>1 DEF NewManager, ManagerState, IoFlags
<1>3. ManagerInv(NewManager)
  <2>1. /\ NewManager.reg = {} /\ NewManager.rfds = {} /\ NewManager.wfds = {}
        /\ NewManager.active = << >> /\ NewManager.svc = << >>
        /\ NewManager.count = 0
    BY DEF NewManager
  <2>2. SoundLists(NewManager)
    BY <1>1, <2>1 DEF SoundLists, OrderedBy
  <2>. QED
    BY <1>1, <1>2, <2>1, <2>2 DEF ManagerInv
<1>4. NewManager.reg = {} /\ NewManager.svc = << >>
  BY DEF NewManager
<1>a. SealedUnlessSetupFails
  BY DEF Init, SealedUnlessSetupFails, NoDescriptorLeak
<1>5. WorldOK
  BY <1>1, <1>2, <1>3, <1>4, <1>a, WorldOKParts DEF WorldParts, Init, ConnectionState
<1>6. LoopOK
  <2>1. ReportedStayRegistered
    BY <1>1 DEF Init, ReportedStayRegistered
  <2>2. WorkBelongsToLoop
    BY <1>1, Zenon DEF Init, WorkBelongsToLoop
  <2>3. hasTo \in BOOLEAN /\ down \in BOOLEAN /\ flushed \in BOOLEAN
    BY Zenon DEF Init
  <2>4. /\ pc \in Places /\ todoW \in SUBSET Items /\ todoR \in SUBSET Items
        /\ left \in Int /\ timer \in Nat /\ pending \in Int /\ lfd = NoFd
    BY DEF Init, Places
  <2>5. todoT \in Seq(Items)
    BY <1>1, Zenon DEF Init
  <2>. QED
    BY <2>1, <2>2, <2>3, <2>4, <2>5 DEF LoopOK
<1>. QED
  BY <1>5, <1>6 DEF LoopInv

\* The steps that only move the loop on.
LEMMA MovesKeepInv ==
  ASSUME LoopInv,
         Run \/ TriggerTimer \/ serveRequests \/ EnterSelect \/ WriteDone \/ ReadDone
         \/ ServeDone \/ TimeoutDone \/ ShutdownDone \/ FlushAgain \/ downServer
  PROVE  LoopInv'
<1>. USE DEF LoopInv, LoopOK, loopVars, stopVars, ReportedStayRegistered,
             WorkBelongsToLoop, Places
<1>0. m \in ManagerState /\ m.count \in Int
  BY WorldOKParts DEF WorldParts, ManagerState
<1>1. CASE Run
  BY <1>1, WorldStays DEF Run
<1>2. CASE TriggerTimer
  BY <1>2, WorldStays, GcAssumption DEF TriggerTimer
<1>3. CASE serveRequests
  BY <1>3, WorldStays DEF serveRequests
<1>4. CASE EnterSelect
  BY <1>4, WorldStays DEF EnterSelect
<1>5. CASE WriteDone
  BY <1>5, WorldStays DEF WriteDone
<1>6. CASE ReadDone
  BY <1>0, <1>6, WorldStays DEF ReadDone
<1>7. CASE ServeDone
  BY <1>7, WorldStays DEF ServeDone
<1>8. CASE TimeoutDone
  BY <1>8, WorldStays DEF TimeoutDone
<1>9. CASE ShutdownDone
  BY <1>9, WorldStays DEF ShutdownDone
<1>10. CASE FlushAgain
  BY <1>10, WorldStays DEF FlushAgain
<1>11. CASE downServer
  BY <1>11, WorldStays DEF downServer
<1>. QED
  BY <1>1, <1>2, <1>3, <1>4, <1>5, <1>6, <1>7, <1>8, <1>9, <1>10, <1>11

\* The least descriptor that is still to be handled.
LEMMA NextReported ==
  ASSUME NEW S \in SUBSET Items, S # {}
  PROVE  Min(S) \in S
  BY MinOfSet, DescriptorFacts

\* The loops of processConnections() and of processTimeout().
LEMMA WriteOneKeepsInv ==
  ASSUME LoopInv, WriteOne
  PROVE  LoopInv'
<1>1. PICK fd : fd = Min(todoW)
  OBVIOUS
<1>2. /\ WorldOK /\ pc = "write" /\ fd \in todoW /\ fd \in m.reg
      /\ todoW' = todoW \ {fd}
      /\ UNCHANGED <<lfd, cfd, isc, pc, todoR, todoT, left, hasTo, timer, stopVars>>
  BY <1>1, NextReported DEF LoopInv, LoopOK, WriteOne, ReportedStayRegistered
<1>3. PICK o \in send(Kind(fd), cs[fd], up[fd]) :
        \E r \in TrackAndReap(m, fd, Kind(fd), up[fd], o) : Apply(fd, r)
  BY <1>1 DEF WriteOne
<1>4. PICK r \in TrackAndReap(m, fd, Kind(fd), up[fd], o) : Apply(fd, r)
  BY <1>3
<1>5. Proper(m, fd, Kind(fd), cs[fd], o)
  BY <1>2, <1>3, RegisteredProper
<1>6. WorldOK' /\ (m'.reg = m.reg \/ (m'.reg = m.reg \ {fd} /\ fd # cfd))
  BY <1>2, <1>4, <1>5, TrackAndReapKeepsWorld
<1>7. LoopOK'
  <2>1. ReportedStayRegistered' /\ WorkBelongsToLoop'
    BY <1>2, <1>6 DEF LoopInv, LoopOK, ReportedStayRegistered, WorkBelongsToLoop
  <2>. QED
    BY <1>2, <2>1 DEF LoopInv, LoopOK, stopVars
<1>. QED
  BY <1>6, <1>7 DEF LoopInv

\* Handling a readable descriptor keeps the invariant.
LEMMA ReadOneKeepsInv ==
  ASSUME LoopInv, ReadOne
  PROVE  LoopInv'
<1>1. PICK fd : fd = Min(todoR)
  OBVIOUS
<1>2. /\ WorldOK /\ pc = "read" /\ fd \in todoR /\ fd \in m.reg
      /\ todoR' = todoR \ {fd} /\ todoW = {}
      /\ UNCHANGED <<lfd, cfd, isc, pc, todoW, todoT, left, hasTo, timer, stopVars>>
  BY <1>1, NextReported
     DEF LoopInv, LoopOK, ReadOne, ReportedStayRegistered, WorkBelongsToLoop
<1>3. WorldOK' /\ m.reg \ {fd} \subseteq m'.reg
  <2>1. CASE fd = lfd /\ cs[fd] # "DEAD"
    <3>1. Accept(lfd)
      BY <1>1, <2>1 DEF ReadOne
    <3>. QED
      BY <1>2, <2>1, <3>1, AcceptKeepsWorld
  <2>2. CASE ~ (fd = lfd /\ cs[fd] # "DEAD")
    <3>1. PICK o \in receive(Kind(fd), cs[fd], up[fd]) :
            \E r \in TrackAndReap(m, fd, Kind(fd), up[fd], o) : Apply(fd, r)
      BY <1>1, <2>2 DEF ReadOne
    <3>2. PICK r \in TrackAndReap(m, fd, Kind(fd), up[fd], o) : Apply(fd, r)
      BY <3>1
    <3>3. Proper(m, fd, Kind(fd), cs[fd], o)
      BY <1>2, <3>1, RegisteredProper
    <3>4. WorldOK' /\ (m'.reg = m.reg \/ (m'.reg = m.reg \ {fd} /\ fd # cfd))
      BY <1>2, <3>2, <3>3, TrackAndReapKeepsWorld
    <3>. QED
      BY <3>4
  <2>. QED
    BY <2>1, <2>2
<1>4. LoopOK'
  <2>1. ReportedStayRegistered' /\ WorkBelongsToLoop'
    BY <1>2, <1>3 DEF LoopInv, LoopOK, ReportedStayRegistered, WorkBelongsToLoop
  <2>. QED
    BY <1>2, <2>1 DEF LoopInv, LoopOK, stopVars
<1>. QED
  BY <1>3, <1>4 DEF LoopInv

\* Handling a connection that is due keeps the invariant.
LEMMA TimeoutOneKeepsInv ==
  ASSUME LoopInv, TimeoutOne
  PROVE  LoopInv'
<1>1. PICK fd : fd = Head(todoT)
  OBVIOUS
<1>2. /\ todoT \in Seq(Items) /\ todoT # << >> /\ IsInjective(todoT)
      /\ ToSet(todoT) \subseteq m.reg
  BY ToSetOfSeq
     DEF LoopInv, LoopOK, TimeoutOne, ReportedStayRegistered, WorkBelongsToLoop
<1>3. /\ fd \in ToSet(todoT) /\ Tail(todoT) \in Seq(Items)
      /\ ToSet(Tail(todoT)) = ToSet(todoT) \ {fd} /\ IsInjective(Tail(todoT))
  BY <1>1, <1>2, TailProperties
<1>4. /\ WorldOK /\ pc = "timeout" /\ fd \in m.reg /\ todoT' = Tail(todoT)
      /\ todoW = {} /\ todoR = {}
      /\ UNCHANGED <<lfd, cfd, isc, pc, todoW, todoR, left, hasTo, timer, stopVars>>
  BY <1>2, <1>3 DEF LoopInv, LoopOK, TimeoutOne, WorkBelongsToLoop
<1>5. PICK r \in TrackAndReap(m, fd, Kind(fd), up[fd], timedOut(Kind(fd), cs[fd])) :
        Apply(fd, r)
  BY <1>1 DEF TimeoutOne
<1>6. Proper(m, fd, Kind(fd), cs[fd], timedOut(Kind(fd), cs[fd]))
  BY <1>4, RegisteredProper
<1>7. WorldOK' /\ (m'.reg = m.reg \/ (m'.reg = m.reg \ {fd} /\ fd # cfd))
  BY <1>4, <1>5, <1>6, TrackAndReapKeepsWorld
<1>8. LoopOK'
  <2>. DEFINE T == Tail(todoT)
  <2>1. /\ T \in Seq(Items) /\ IsInjective(T) /\ todoT' = T
        /\ \A i \in DOMAIN T : T[i] \in m'.reg
    <3>1. ToSet(T) \subseteq m'.reg
      BY <1>2, <1>3, <1>7
    <3>2. \A i \in DOMAIN T : T[i] \in ToSet(T)
      BY <1>3 DEF ToSet
    <3>. QED
      BY <1>3, <1>4, <3>1, <3>2
  <2>. HIDE DEF T
  <2>2. ReportedStayRegistered' /\ WorkBelongsToLoop'
    BY <1>4, <2>1 DEF LoopInv, LoopOK, ReportedStayRegistered, WorkBelongsToLoop
  <2>. QED
    BY <1>4, <2>1, <2>2 DEF LoopInv, LoopOK, stopVars
<1>. QED
  BY <1>7, <1>8 DEF LoopInv

\* The loops of shutdownConnections().
LEMMA ShutdownOneKeepsInv ==
  ASSUME LoopInv, ShutdownOne
  PROVE  LoopInv'
<1>1. PICK fd : fd = Min(todoW)
  OBVIOUS
<1>2. /\ WorldOK /\ pc = "shutdown" /\ fd \in todoW /\ fd \in m.reg
      /\ todoW' = todoW \ {fd} /\ todoR = {} /\ todoT = << >> /\ pending' \in Int
      /\ UNCHANGED <<lfd, cfd, isc, pc, todoR, todoT, left, hasTo, timer, down, flushed>>
  BY <1>1, NextReported
     DEF LoopInv, LoopOK, ShutdownOne, ReportedStayRegistered, WorkBelongsToLoop
<1>3. WorldOK' /\ m.reg \ {fd} \subseteq m'.reg
  <2>1. CASE UNCHANGED <<conVars, up>>
    BY <1>2, <2>1, WorldStays
  <2>2. CASE isAutoDestroyable(Kind(fd)) /\ Apply(fd, Destroy(m, fd))
    <3>1. Effect(fd, Destroy(m, fd))
      <4>1. ManagerInv(m)
        BY <1>2, RegisteredFacts
      <4>2. Gone(m, fd, "SERVER", Destroy(m, fd))
        BY <4>1, DestroyIsGone
      <4>. QED
        BY <2>2, <4>2 DEF Effect, isAutoDestroyable
    <3>2. WorldOK' /\ (m'.reg = m.reg \/ (m'.reg = m.reg \ {fd} /\ fd # cfd))
      BY <1>2, <2>2, <3>1, ApplyKeepsWorld
    <3>. QED
      BY <3>2
  <2>. QED
    BY <1>1, <2>1, <2>2 DEF ShutdownOne
<1>4. LoopOK'
  <2>1. ReportedStayRegistered' /\ WorkBelongsToLoop'
    BY <1>2, <1>3 DEF LoopInv, LoopOK, ReportedStayRegistered, WorkBelongsToLoop
  <2>. QED
    BY <1>2, <2>1 DEF LoopInv, LoopOK
<1>. QED
  BY <1>3, <1>4 DEF LoopInv

\* Sending the rest of a reply while shutting down keeps the invariant.
LEMMA FlushOneKeepsInv ==
  ASSUME LoopInv, FlushOne
  PROVE  LoopInv'
<1>1. PICK fd : fd = Min(todoW)
  OBVIOUS
<1>2. /\ WorldOK /\ pc = "flushwrite" /\ fd \in todoW /\ fd \in m.reg
      /\ todoW' = todoW \ {fd} /\ todoR = {} /\ todoT = << >> /\ pending' \in Int
      /\ UNCHANGED <<lfd, cfd, isc, pc, todoR, todoT, left, hasTo, timer, down, flushed>>
  BY <1>1, NextReported
     DEF LoopInv, LoopOK, FlushOne, ReportedStayRegistered, WorkBelongsToLoop
<1>3. PICK o \in send(Kind(fd), cs[fd], up[fd]) :
        \E r \in FlushResult(fd, o) : Apply(fd, r)
  BY <1>1 DEF FlushOne
<1>4. PICK r \in FlushResult(fd, o) : Apply(fd, r)
  BY <1>3
<1>5. Proper(m, fd, Kind(fd), cs[fd], o)
  BY <1>2, <1>3, RegisteredProper
<1>6. Effect(fd, r)
  BY <1>2, <1>4, <1>5, FlushResultEffect
<1>7. WorldOK' /\ (m'.reg = m.reg \/ (m'.reg = m.reg \ {fd} /\ fd # cfd))
  BY <1>2, <1>4, <1>6, ApplyKeepsWorld
<1>8. LoopOK'
  <2>1. ReportedStayRegistered' /\ WorkBelongsToLoop'
    BY <1>2, <1>7 DEF LoopInv, LoopOK, ReportedStayRegistered, WorkBelongsToLoop
  <2>. QED
    BY <1>2, <2>1 DEF LoopInv, LoopOK
<1>. QED
  BY <1>7, <1>8 DEF LoopInv

\* While nothing is left to do, the loop need not care what happens to the
\* connections.
LEMMA IdleLoop ==
  ASSUME LoopInv, pc \in {"stopped", "started", "run", "drain", "select", "serve", "flush"}
  PROVE  todoW = {} /\ todoR = {} /\ todoT = << >>
  BY DEF LoopInv, LoopOK, WorkBelongsToLoop

\* A step that reports nothing leaves an idle loop idle.
LEMMA IdleLoopStays ==
  ASSUME LoopInv, pc \in {"stopped", "started", "run", "drain", "select", "serve", "flush"},
         UNCHANGED <<todoW, todoR, todoT>>
  PROVE  ReportedStayRegistered' /\ WorkBelongsToLoop'
<1>1. todoW' = {} /\ todoR' = {} /\ todoT' = << >>
  BY IdleLoop
<1>2. IsInjective(todoT')
  BY DEF LoopInv, LoopOK, WorkBelongsToLoop
<1>. QED
  BY <1>1, <1>2 DEF ReportedStayRegistered, WorkBelongsToLoop

\* Connections are served while the loop is idle.
LEMMA ServingKeepsInv ==
  ASSUME LoopInv, StartServer \/ UserEvent \/ Drain \/ Serve \/ FlushEnd
  PROVE  LoopInv'
<1>. USE DEF LoopInv, LoopOK, loopVars, stopVars, Places
<1>1. CASE StartServer
  <2>1. WorldOK'
    BY <1>1, StartServerKeepsWorld DEF StartServer
  <2>2. ReportedStayRegistered' /\ WorkBelongsToLoop'
    BY <1>1, IdleLoopStays DEF StartServer
  <2>. QED
    BY <1>1, <2>1, <2>2, GcAssumption DEF StartServer
<1>2. CASE UserEvent
  <2>1. PICK w \in openServerConnection(World) \cup sendCall(World)
                   \cup {closeConnection(World)} : Become(w)
    BY <1>2 DEF UserEvent
  <2>2. WorldInv(w, lfd)
    <3>1. WorldInv(World, lfd) /\ WorldBut(World, lfd, World.cfd)
      BY WorldInvIsWorldBut DEF WorldOK
    <3>. QED
      BY <2>1, <3>1, OpenKeepsWorld, SendKeepsWorld, CloseKeepsWorld
  <2>3. WorldOK'
    BY <1>2, <2>1, <2>2, BecomeKeepsWorld DEF UserEvent
  <2>4. ReportedStayRegistered' /\ WorkBelongsToLoop'
    BY <1>2, IdleLoopStays DEF UserEvent
  <2>. QED
    BY <1>2, <2>3, <2>4 DEF UserEvent
<1>3. CASE Drain
  <2>1. WorldOK'
    BY <1>3, AttendKeepsWorld DEF Drain
  <2>2. ReportedStayRegistered' /\ WorkBelongsToLoop'
    BY <1>3, IdleLoopStays DEF Drain
  <2>. QED
    BY <1>3, <2>1, <2>2 DEF Drain
<1>4. CASE Serve
  <2>1. WorldOK'
    BY <1>4, AttendKeepsWorld DEF Serve
  <2>2. ReportedStayRegistered' /\ WorkBelongsToLoop'
    BY <1>4, IdleLoopStays DEF Serve
  <2>. QED
    BY <1>4, <2>1, <2>2 DEF Serve
<1>5. CASE FlushEnd
  <2>1. WorldOK'
    BY <1>5, FlushEndKeepsWorld
  <2>2. ReportedStayRegistered' /\ WorkBelongsToLoop'
    BY <1>5, IdleLoopStays DEF FlushEnd
  <2>3. flushed' \in BOOLEAN
    BY <1>5, Zenon DEF FlushEnd
  <2>. QED
    BY <1>5, <2>1, <2>2, <2>3 DEF FlushEnd
<1>. QED
  BY <1>1, <1>2, <1>3, <1>4, <1>5

\* Only the interserver connection, while it is connecting, is watched for
\* both reading and writing.
LEMMA WatchedForBoth ==
  ASSUME WorldOK, NEW fd \in m.rfds \cap m.wfds
  PROVE  fd = cfd
<1>1. /\ fd \in m.reg /\ "READABLE" \in m.last[fd] /\ "WRITEABLE" \in m.last[fd]
      /\ SameWatch(m.last[fd], getIoMode(Kind(fd), cs[fd]))
      /\ SoundState(Kind(fd), cs[fd])
  BY WorldOKParts DEF WorldParts, ManagerInv
<1>2. /\ "READABLE" \in getIoMode(Kind(fd), cs[fd])
      /\ "WRITEABLE" \in getIoMode(Kind(fd), cs[fd])
  BY <1>1 DEF SameWatch, Watched
<1>3. cs[fd] = "CONNECTING"
  BY <1>1, <1>2 DEF getIoMode, ListenIoMode, TcpIoMode, SoundState, ConnectionState,
                    LiveStates
<1>4. Kind(fd) = "CLIENT"
  BY <1>1, <1>3 DEF SoundState
<1>. QED
  BY <1>4 DEF Kind

\* select() returns, in run() and in shutdownConnections().
LEMMA SelectKeepsInv ==
  ASSUME LoopInv,
         SelectReady \/ SelectTimeout \/ SelectInterrupted \/ StopServer \/ FlushSelect
  PROVE  LoopInv'
<1>. USE DEF stopVars
<1>1. /\ WorldOK /\ ManagerInv(m) /\ m.rfds \subseteq m.reg /\ m.wfds \subseteq m.reg
      /\ m.reg \subseteq Items
  BY WorldOKParts DEF LoopInv, WorldParts, ManagerInv, ManagerState
<1>2. CASE SelectReady
  <2>1. /\ todoR' \subseteq m.rfds /\ todoW' \subseteq m.wfds /\ pc' = "write"
        /\ UNCHANGED <<conVars, up, lfd, cfd, isc, todoT, left, hasTo, timer, stopVars>>
        /\ todoT = << >>
    BY <1>2, IdleLoop DEF SelectReady
  <2>2. WorldOK' /\ m' = m
    BY <1>1, <2>1, WorldStays
  <2>3. todoW' \cap todoR' \subseteq {cfd}
    BY <1>1, <2>1, WatchedForBoth
  <2>4. todoW' \subseteq m.reg /\ todoR' \subseteq m.reg
    BY <1>1, <2>1
  <2>5. ReportedStayRegistered' /\ WorkBelongsToLoop'
    BY <2>1, <2>2, <2>3, <2>4
       DEF LoopInv, LoopOK, ReportedStayRegistered, WorkBelongsToLoop
  <2>6. LoopOK'
    BY <1>1, <2>1, <2>4, <2>5 DEF LoopInv, LoopOK, Places
  <2>. QED
    BY <2>2, <2>6 DEF LoopInv
<1>3. CASE SelectTimeout \/ SelectInterrupted
  <2>1. /\ UNCHANGED <<conVars, up, lfd, cfd, isc, todoW, todoR, left, hasTo, timer,
                       stopVars>>
        /\ todoW = {} /\ todoR = {} /\ todoT = << >> /\ pc = "select"
        /\ \/ todoT' = DuePrefix(m) /\ pc' = "timeout"
           \/ todoT' = todoT /\ pc' = "run"
    BY <1>3, IdleLoop DEF SelectTimeout, SelectInterrupted, NothingReady
  <2>2. WorldOK' /\ m' = m
    BY <1>1, <2>1, WorldStays
  <2>3. ReportedStayRegistered' /\ WorkBelongsToLoop' /\ todoT' \in Seq(Items)
    <3>1. CASE todoT' = DuePrefix(m) /\ pc' = "timeout"
      <4>1. /\ todoT' \in Seq(Items) /\ IsInjective(todoT')
            /\ ToSet(todoT') \subseteq m.reg
        BY <1>1, <3>1, DuePrefixInList
      <4>2. \A i \in DOMAIN todoT' : todoT'[i] \in m.reg
        BY <4>1 DEF ToSet
      <4>. QED
        BY <2>1, <2>2, <3>1, <4>1, <4>2 DEF ReportedStayRegistered, WorkBelongsToLoop
    <3>2. CASE todoT' = todoT /\ pc' = "run"
      <4>1. ReportedStayRegistered' /\ WorkBelongsToLoop'
        BY <2>1, <3>2, IdleLoopStays
      <4>. QED
        BY <3>2, <4>1 DEF LoopInv, LoopOK
    <3>. QED
      BY <2>1, <3>1, <3>2
  <2>4. LoopOK'
    BY <2>1, <2>3 DEF LoopInv, LoopOK, Places
  <2>. QED
    BY <2>2, <2>4 DEF LoopInv
<1>4. CASE StopServer \/ FlushSelect
  <2>1. /\ UNCHANGED <<conVars, up, lfd, cfd, isc, todoR, todoT, left, hasTo, timer,
                       down, flushed>>
        /\ todoR = {} /\ todoT = << >> /\ todoW' \subseteq m.reg
        /\ pc' \in {"shutdown", "flushwrite"} /\ pending' \in Int
    BY <1>1, <1>4, IdleLoop DEF StopServer, FlushSelect, LoopInv, LoopOK
  <2>2. WorldOK' /\ m' = m
    BY <1>1, <2>1, WorldStays
  <2>3. ReportedStayRegistered' /\ WorkBelongsToLoop'
    BY <2>1, <2>2 DEF LoopInv, LoopOK, ReportedStayRegistered, WorkBelongsToLoop
  <2>4. LoopOK'
    BY <1>1, <2>1, <2>3 DEF LoopInv, LoopOK, Places
  <2>. QED
    BY <2>2, <2>4 DEF LoopInv
<1>. QED
  BY <1>2, <1>3, <1>4

\* Peers and time.
LEMMA EnvironmentKeepsInv ==
  ASSUME LoopInv, PeerCloses \/ Tick
  PROVE  LoopInv'
<1>1. /\ m.reg \subseteq Items /\ ManagerInv(m) /\ up \in [FD -> BOOLEAN]
  BY WorldOKParts DEF LoopInv, WorldParts, ManagerState
<1>2. CASE PeerCloses
  <2>1. /\ UNCHANGED <<m, cs, open, lfd, cfd, isc, pc, loopVars, timer, stopVars>>
        /\ up' \in [FD -> BOOLEAN]
    BY <1>1, <1>2 DEF PeerCloses, conVars
  <2>2. \A g : Kind(g)' = Kind(g)
    BY <2>1 DEF Kind
  <2>3. WorldOK'
    BY <2>1, <2>2, WorldOKParts, WorldOKPartsPrimed
       DEF WorldParts, LoopInv, SealedUnlessSetupFails, NoDescriptorLeak
  <2>4. LoopOK'
    BY <2>1 DEF LoopInv, LoopOK, loopVars, stopVars, ReportedStayRegistered,
                WorkBelongsToLoop
  <2>. QED
    BY <2>3, <2>4 DEF LoopInv
<1>3. CASE Tick
  <2>1. /\ UNCHANGED <<cs, open, up, lfd, cfd, isc, pc, loopVars, stopVars>>
        /\ m' = Elapse(m) /\ timer' \in Nat /\ pc = "select"
    BY <1>3 DEF Tick, LoopInv, LoopOK
  <2>2. /\ ManagerInv(m') /\ m'.reg = m.reg /\ m'.last = m.last /\ m'.svc = m.svc
        /\ m' \in ManagerState
    BY <1>1, <2>1, ElapseInv DEF ManagerInv
  <2>3. \A g : Kind(g)' = Kind(g)
    BY <2>1 DEF Kind
  <2>4. WorldOK'
    BY <2>1, <2>2, <2>3, WorldOKParts, WorldOKPartsPrimed
       DEF WorldParts, LoopInv, SealedUnlessSetupFails, NoDescriptorLeak
  <2>5. LoopOK'
    BY <2>1, <2>2 DEF LoopInv, LoopOK, loopVars, stopVars, ReportedStayRegistered,
                      WorkBelongsToLoop
  <2>. QED
    BY <2>4, <2>5 DEF LoopInv
<1>. QED
  BY <1>2, <1>3

\* Every step keeps the invariant.
LEMMA NextKeepsInv == LoopInv /\ [Next]_vars => LoopInv'
<1>. SUFFICES ASSUME LoopInv, [Next]_vars PROVE LoopInv'
  OBVIOUS
<1>1. CASE UNCHANGED vars
  BY <1>1, WorldStays DEF vars, conVars, LoopInv, LoopOK, ReportedStayRegistered,
                          WorkBelongsToLoop
<1>. QED
  BY <1>1, MovesKeepInv, WriteOneKeepsInv, ReadOneKeepsInv, TimeoutOneKeepsInv,
     ShutdownOneKeepsInv, FlushOneKeepsInv, ServingKeepsInv, SelectKeepsInv,
     EnvironmentKeepsInv DEF Next, Work

-----------------------------------------------------------------------------
\* IInv is an invariant of the server: connections, descriptors, manager and
\* event loop stay consistent with each other whatever peers, signals and
\* time do (KsServerBase::run with KssConnectionManager).
THEOREM InductiveInvariant == Spec => []IInv
<1>1. Init => LoopInv
  BY InitLoopInv
<1>2. LoopInv /\ [Next]_vars => LoopInv'
  BY NextKeepsInv
<1>3. LoopInv => IInv
  BY IInvSplits
<1>. QED
  BY <1>1, <1>2, <1>3, PTL DEF Spec

\* All variables keep their types; in particular the items the lists of the
\* connection manager hold lie inside its table.
THEOREM TypesAreKept == Spec => []TypeOK
<1>1. IInv => TypeOK
  BY DEF IInv
<1>. QED
  BY <1>1, InductiveInvariant, PTL

\* The fd_sets that trackCnxIoMode() and removeConnection() maintain always
\* hold exactly the descriptors whose connections asked to be watched.
THEOREM FdSetsAreExact == Spec => []FdSetsFollowModes
<1>1. IInv => FdSetsFollowModes
  BY DEF IInv
<1>. QED
  BY <1>1, InductiveInvariant, PTL

\* The I/O mode remembered for a connection is the one it is in, after every
\* callback, fast write, reset and timeout.
THEOREM ModesAreCurrent == Spec => []ModesFollowStates
<1>1. IInv => ModesFollowStates
  BY DEF IInv
<1>. QED
  BY <1>1, InductiveInvariant, PTL

\* processConnections(), processTimeout() and shutdownConnections() never
\* come to an item whose connection has been destroyed in the same round.
THEOREM NoStaleReport == Spec => []ReportedStayRegistered
<1>1. IInv => ReportedStayRegistered
  BY DEF IInv
<1>. QED
  BY <1>1, InductiveInvariant, PTL

\* A table item is in one list of the connection manager at most, at most
\* once, and the timeout list is ordered by due time: this is what the
\* earliest timeout and the removal of items rely on (_active_connections and
\* _serviceable_connections of KssConnectionManager).
THEOREM ListsStaySound == Spec => []ListsAreSound
<1>1. IInv => ListsAreSound
  <2>. SUFFICES ASSUME IInv PROVE ListsAreSound
    OBVIOUS
  <2>1. /\ m.active \in Seq(Items) /\ m.svc \in Seq(Items) /\ ListsHoldItems
    BY DEF IInv, TypeOK, ManagerState
  <2>2. IsInjective(m.active \o m.svc)
    BY <2>1, ConcatInjective DEF ListsHoldItems
  <2>. QED
    BY <2>1, <2>2 DEF ListsHoldItems, ListsAreSound
<1>. QED
  BY <1>1, InductiveInvariant, PTL

\* Every connection that needs attention waits for it in the list the serve
\* loop takes it from, and the counter that bounds the loop covers the list.
THEOREM NoAttentionIsLost == Spec => []AttentionNotLost
<1>1. IInv => AttentionNotLost
  BY DEF IInv
<1>. QED
  BY <1>1, InductiveInvariant, PTL

\* Without telegrams whose RPC header does not decode, every accepted
\* connection that dies is destroyed in the step it dies in, so that none is
\* left for select() to wait for (trackConnection, processConnections).
THEOREM DeadConnectionsAreReaped ==
  ASSUME "decode" \notin Faults
  PROVE  Spec => []NoDeadConnectionWaits
<1>1. IInv => NoDeadConnectionWaits
  BY DEF IInv, ConnectionsAreSound, NoDeadConnectionWaits, isAutoDestroyable
<1>. QED
  BY <1>1, InductiveInvariant, PTL

\* When new connections can always be set up and the table has room for every
\* descriptor, the process has exactly the descriptors of its connection
\* objects open.
THEOREM DescriptorsAreClosed ==
  ASSUME "setup" \notin Faults, FD \subseteq Items
  PROVE  Spec => []NoDescriptorLeak
<1>1. IInv => NoDescriptorLeak
  BY DEF IInv, SealedUnlessSetupFails
<1>. QED
  BY <1>1, InductiveInvariant, PTL

\* Tracking an accepted connection that is sending or dead never makes it
\* ready to be dispatched.
LEMMA SentIsNotReady ==
  ASSUME NEW n, NEW fd, NEW u \in BOOLEAN, NEW st \in {"SENDING", "DEAD"},
         NEW r \in trackConnection(n, fd, "SERVER", u, st)
  PROVE  r.st # "READY"
<1>1. CASE st = "DEAD"
  BY <1>1 DEF trackConnection, isAutoDestroyable, Destroy
<1>2. CASE st # "DEAD"
  <2>1. PICK q \in trackCnxIoMode(n, fd, "SERVER", u, st, getIoMode("SERVER", st)) :
          r = IF q.st = "DEAD" /\ isAutoDestroyable("SERVER")
              THEN Destroy(q.m, fd) ELSE q
    BY <1>2 DEF trackConnection
  <2>2. q.st # "READY"
    <3>1. \A o \in send("SERVER", "SENDING", u) : o.st # "READY"
      BY DEF send, Enter, Broken, ResetState
    <3>. QED
      BY <1>2, <2>1, <3>1 DEF trackCnxIoMode, FastWrite
  <2>. QED
    BY <2>1, <2>2 DEF Destroy
<1>. QED
  BY <1>1, <1>2

\* A request that has been dispatched is not presented for dispatch again, if
\* every reply fits into the fragment pool (KsServerBase::serveRequests).
THEOREM EachRequestOnce ==
  ASSUME "encode" \notin Faults
  PROVE  Spec => DispatchedOnce
<1>1. IInv /\ [Next]_vars =>
        [Drain \/ Serve =>
            LET fd == Head(m.svc)
            IN  Kind(fd) = "SERVER" => cs'[fd] # "READY"]_vars
  <2>. SUFFICES ASSUME IInv, Drain \/ Serve, Kind(Head(m.svc)) = "SERVER"
                PROVE  cs'[Head(m.svc)] # "READY"
    OBVIOUS
  <2>1. PICK fd : fd = Head(m.svc)
    OBVIOUS
  <2>2. m.svc \in Seq(Items) /\ m.svc # << >> /\ IsInjective(m.svc)
    BY DEF IInv, TypeOK, ManagerState, ListsHoldItems, Drain, Serve
  <2>3. fd \in FD /\ up[fd] \in BOOLEAN /\ cs \in [FD -> ConnectionState]
    <3>1. fd \in Items
      BY <2>1, <2>2
    <3>. QED
      BY <3>1, DescriptorFacts DEF IInv, TypeOK
  <2>. DEFINE taken == getNextServiceableConnection(m)
  <2>4. PICK st \in dispatchTransport("SERVER", cs[fd]) :
          \E r \in trackConnection(taken, fd, "SERVER", up[fd], st) : Apply(fd, r)
    BY <2>1 DEF Attend, Drain, Serve
  <2>5. PICK r \in trackConnection(taken, fd, "SERVER", up[fd], st) : Apply(fd, r)
    BY <2>4
  <2>6. st \in {"SENDING", "DEAD"}
    BY <2>4 DEF dispatchTransport
  <2>. HIDE DEF taken
  <2>7. r.st # "READY"
    BY <2>3, <2>5, <2>6, SentIsNotReady
  <2>. QED
    BY <2>1, <2>3, <2>5, <2>7 DEF Apply
<1>. QED
  BY <1>1, InductiveInvariant, PTL DEF Spec, DispatchedOnce

=============================================================================
