------------------------- MODULE InterserverProofs -------------------------
(***************************************************************************)
(* What the methods of the connections, of the connection manager and of   *)
(* the interserver connection preserve, for any number of descriptors and  *)
(* any timeouts: every single operation on a connection keeps the          *)
(* connections, the descriptors and the connection manager consistent with *)
(* each other.                                                             *)
(***************************************************************************)
EXTENDS Interserver, ListLemmas

-----------------------------------------------------------------------------
(* Connections and the connection manager.                                 *)

\* An outcome o of a method of a connection of the given kind is sound: it
\* leaves a connection object, only a client connection is connecting and a
\* client connection never dies, the mode never asks for attention and for a
\* timeout at once, the rendezvous socket never asks for attention, and the
\* mode is, as far as the manager acts on it, the mode of the state.
SoundState(kind, st) ==
    /\ st \in ConnectionState \ {"NONE"}
    /\ st = "CONNECTING" => kind = "CLIENT"
    /\ st = "DEAD" => kind # "CLIENT"

SoundMode(kind, st, io) ==
    /\ io \in SUBSET IoFlags
    /\ "ATTENTION" \in io => "NEED_TIMEOUT" \notin io /\ kind # "LISTENER"
    /\ SameWatch(io, getIoMode(kind, st))

SoundOutcome(kind, o) == SoundState(kind, o.st) /\ SoundMode(kind, o.st, o.io)

\* getIoMode() of every state is a sound mode.
LEMMA IoModeIsSound ==
  ASSUME NEW kind \in Kinds, NEW st \in ConnectionState
  PROVE  SoundMode(kind, st, getIoMode(kind, st))
<1>1. ListenIoMode(st) \in SUBSET IoFlags /\ "ATTENTION" \notin ListenIoMode(st)
  BY DEF ListenIoMode, IoFlags
<1>2. /\ TcpIoMode(st) \in SUBSET IoFlags
      /\ "ATTENTION" \in TcpIoMode(st) => "NEED_TIMEOUT" \notin TcpIoMode(st)
  BY DEF TcpIoMode, IoFlags, ConnectionState, LiveStates
<1>. QED
  BY <1>1, <1>2 DEF SoundMode, getIoMode, SameWatch

\* So a method that ends by entering a sound state has a sound outcome.
LEMMA EnterIsSound ==
  ASSUME NEW kind \in Kinds, NEW st, SoundState(kind, st)
  PROVE  SoundOutcome(kind, Enter(kind, st))
  BY IoModeIsSound DEF SoundState, SoundOutcome, Enter

\* reset() has a sound outcome in every state.
LEMMA ResetIsSound ==
  ASSUME NEW kind \in Kinds, NEW st, SoundState(kind, st)
  PROVE  SoundState(kind, ResetState(kind, st)) /\ SoundOutcome(kind, reset(kind, st))
<1>1. SoundState(kind, ResetState(kind, st))
  BY DEF SoundState, ResetState, ConnectionState, LiveStates, Kinds
<1>. QED
  BY <1>1, EnterIsSound DEF reset

\* timedOut() has a sound outcome in every state.
LEMMA TimedOutIsSound ==
  ASSUME NEW kind \in Kinds, NEW st, SoundState(kind, st)
  PROVE  SoundOutcome(kind, timedOut(kind, st))
<1>. DEFINE new == CASE kind = "LISTENER" \/ st = "DEAD"        -> st
                     [] kind = "CLIENT" /\ st = "CONNECTING"    -> "CONN_FAILED"
                     [] kind = "CLIENT" /\ st # "CONNECTING"    -> "READY_FAILED"
                     [] OTHER                                   -> "IDLE"
<1>1. SoundState(kind, new)
  BY DEF SoundState, ConnectionState, LiveStates, Kinds
<1>2. timedOut(kind, st) = Enter(kind, new)
  BY DEF timedOut
<1>. HIDE DEF new
<1>. QED
  BY <1>1, <1>2, EnterIsSound

\* The result of a pending connect() is a sound outcome.
LEMMA ConnectIsSound ==
  ASSUME NEW kind \in Kinds, NEW st, SoundState(kind, st), NEW up \in BOOLEAN,
         NEW o \in Connect(kind, st, up)
  PROVE  SoundOutcome(kind, o)
<1>1. CASE st = "CONNECTING"
  <2>1. o = Enter(kind, "CONN_FAILED") \/ o = [st |-> "CONNECTED", io |-> {"ATTENTION"}]
    BY <1>1 DEF Connect
  <2>2. kind = "CLIENT"
    BY <1>1 DEF SoundState
  <2>3. SoundState(kind, "CONN_FAILED") /\ SoundState(kind, "CONNECTED")
    BY DEF SoundState, ConnectionState, LiveStates
  <2>4. SoundMode("CLIENT", "CONNECTED", {"ATTENTION"})
    BY DEF SoundMode, getIoMode, TcpIoMode, SameWatch, Watched, IoFlags
  <2>5. SoundOutcome(kind, Enter(kind, "CONN_FAILED"))
    BY <2>3, EnterIsSound
  <2>6. SoundOutcome(kind, [st |-> "CONNECTED", io |-> {"ATTENTION"}])
    BY <2>2, <2>3, <2>4 DEF SoundOutcome
  <2>. QED
    BY <2>1, <2>5, <2>6, Zenon
<1>2. CASE st # "CONNECTING"
  <2>1. o = [st |-> st, io |-> getIoMode(kind, st) \ {"ATTENTION"}]
    BY <1>2 DEF Connect
  <2>2. SoundMode(kind, st, getIoMode(kind, st))
    BY IoModeIsSound DEF SoundState
  <2>. QED
    BY <2>1, <2>2 DEF SoundOutcome, SoundMode, SameWatch, Watched
<1>. QED
  BY <1>1, <1>2

\* receive() has sound outcomes.
LEMMA ReceiveIsSound ==
  ASSUME NEW kind \in Kinds, NEW st, SoundState(kind, st), NEW up \in BOOLEAN,
         NEW o \in receive(kind, st, up)
  PROVE  SoundOutcome(kind, o)
<1>0. CASE kind = "LISTENER"
  BY <1>0, EnterIsSound DEF receive
<1>1. CASE kind # "LISTENER" /\ st \in {"CONNECTING", "CONNECTED", "CONN_FAILED"}
  BY <1>1, ConnectIsSound DEF receive
<1>2. CASE kind # "LISTENER" /\ st \notin {"CONNECTING", "CONNECTED", "CONN_FAILED"}
  <2>1. PICK s : /\ o = Enter(kind, s)
                 /\ s \in {Broken(kind), st, "RECEIVING", ResetState(kind, st)}
                          \cup Complete(kind)
    BY <1>2 DEF receive
  <2>2. \A t \in Complete(kind) : SoundState(kind, t)
    <3>1. SoundState(kind, "SENDING")
      BY DEF SoundState, ConnectionState, LiveStates
    <3>. QED
      BY <3>1, ResetIsSound
      DEF Complete, SoundState, ConnectionState, LiveStates
  <2>3. SoundState(kind, Broken(kind)) /\ SoundState(kind, "RECEIVING")
    BY DEF Broken, SoundState, ConnectionState, LiveStates
  <2>4. SoundState(kind, s)
    BY <2>1, <2>2, <2>3, ResetIsSound
  <2>. QED
    BY <2>1, <2>4, EnterIsSound
<1>. QED
  BY <1>0, <1>1, <1>2

\* send() has sound outcomes.
LEMMA SendIsSound ==
  ASSUME NEW kind \in Kinds, NEW st, SoundState(kind, st), NEW up \in BOOLEAN,
         NEW o \in send(kind, st, up)
  PROVE  SoundOutcome(kind, o)
<1>1. CASE kind = "LISTENER"
  BY <1>1, EnterIsSound DEF send
<1>2. CASE kind # "LISTENER" /\ st \in {"CONNECTING", "CONNECTED", "CONN_FAILED"}
  BY <1>2, ConnectIsSound DEF send
<1>3. CASE kind # "LISTENER" /\ st \notin {"CONNECTING", "CONNECTED", "CONN_FAILED"}
  <2>1. PICK s : /\ o = Enter(kind, s)
                 /\ s \in {Broken(kind), st, "WAITING", ResetState(kind, st)}
    BY <1>3 DEF send
  <2>2. SoundState(kind, Broken(kind)) /\ SoundState(kind, "WAITING")
    BY DEF Broken, SoundState, ConnectionState, LiveStates
  <2>3. SoundState(kind, s)
    BY <2>1, <2>2, ResetIsSound
  <2>. QED
    BY <2>1, <2>3, EnterIsSound
<1>. QED
  BY <1>1, <1>2, <1>3

\* Outcome o follows from state st: it asks for attention when its state does,
\* unless the connection has been waiting for attention already.  And without
\* telegrams that do not decode, an accepted connection reports its death,
\* and becomes writeable only when it was.
FollowsFrom(kind, st, o) ==
    /\ "ATTENTION" \in getIoMode(kind, o.st) => "ATTENTION" \in o.io \/ o.st = st
    /\ kind = "SERVER" /\ "decode" \notin Faults =>
          /\ o.st = "DEAD" => "DEAD" \in o.io
          /\ "WRITEABLE" \in o.io => "WRITEABLE" \in getIoMode(kind, st)

\* Connect() follows from the state; accepted connections are not connecting.
LEMMA ConnectFollows ==
  ASSUME NEW kind \in Kinds, NEW st, SoundState(kind, st), NEW up \in BOOLEAN,
         st \in {"CONNECTING", "CONNECTED", "CONN_FAILED"},
         NEW o \in Connect(kind, st, up)
  PROVE  FollowsFrom(kind, st, o)
<1>1. CASE st = "CONNECTING"
  <2>1. kind # "SERVER"
    BY <1>1 DEF SoundState
  <2>2. o = Enter(kind, "CONN_FAILED") \/ o = [st |-> "CONNECTED", io |-> {"ATTENTION"}]
    BY <1>1 DEF Connect
  <2>. QED
    BY <2>1, <2>2 DEF FollowsFrom, Enter
<1>2. CASE st # "CONNECTING"
  <2>1. o = [st |-> st, io |-> getIoMode(kind, st) \ {"ATTENTION"}]
    BY <1>2 DEF Connect
  <2>2. st # "DEAD"
    OBVIOUS
  <2>. QED
    BY <2>1, <2>2 DEF FollowsFrom
<1>. QED
  BY <1>1, <1>2

\* receive(), send() and timedOut() follow from the state.
LEMMA MethodsFollow ==
  ASSUME NEW kind \in Kinds, NEW st, SoundState(kind, st), NEW up \in BOOLEAN,
         NEW o \in receive(kind, st, up) \cup send(kind, st, up) \cup {timedOut(kind, st)}
  PROVE  FollowsFrom(kind, st, o)
<1>. DEFINE Tame(s) == kind = "SERVER" /\ "decode" \notin Faults =>
                          s \notin {"SENDING", "CONNECTING"} \/ s = st
<1>1. ASSUME NEW s, o = Enter(kind, s), Tame(s)
      PROVE  FollowsFrom(kind, st, o)
  <2>1. o.st = s /\ o.io = getIoMode(kind, s)
    BY <1>1 DEF Enter
  <2>2. kind = "SERVER" /\ s = "DEAD" => "DEAD" \in getIoMode(kind, s)
    BY DEF getIoMode, TcpIoMode
  <2>3. kind = "SERVER" /\ "WRITEABLE" \in getIoMode(kind, s) => s \in {"SENDING", "CONNECTING"}
    BY DEF getIoMode, TcpIoMode
  <2>. QED
    BY <1>1, <2>1, <2>2, <2>3 DEF FollowsFrom
<1>2. CASE kind = "LISTENER" /\ o \in receive(kind, st, up) \cup send(kind, st, up)
  BY <1>1, <1>2 DEF receive, send
<1>3. CASE /\ kind # "LISTENER" /\ st \in {"CONNECTING", "CONNECTED", "CONN_FAILED"}
           /\ o \in receive(kind, st, up) \cup send(kind, st, up)
  BY <1>3, ConnectFollows DEF receive, send
<1>4. CASE o = timedOut(kind, st)
  <2>. DEFINE new == CASE kind = "LISTENER" \/ st = "DEAD"        -> st
                       [] kind = "CLIENT" /\ st = "CONNECTING"    -> "CONN_FAILED"
                       [] kind = "CLIENT" /\ st # "CONNECTING"    -> "READY_FAILED"
                       [] OTHER                                   -> "IDLE"
  <2>1. o = Enter(kind, new)
    BY <1>4 DEF timedOut
  <2>2. Tame(new)
    OBVIOUS
  <2>. HIDE DEF new, Tame
  <2>. QED
    BY <1>1, <2>1, <2>2
<1>5. Tame(ResetState(kind, st)) /\ Tame(Broken(kind)) /\ Tame(st)
  BY DEF ResetState, Broken
<1>6. CASE /\ kind # "LISTENER" /\ st \notin {"CONNECTING", "CONNECTED", "CONN_FAILED"}
           /\ o \in send(kind, st, up)
  <2>1. PICK s : /\ o = Enter(kind, s)
                 /\ s \in {Broken(kind), st, ResetState(kind, st)} \/ s = "WAITING"
    BY <1>6 DEF send
  <2>2. Tame(s)
    BY <1>5, <2>1
  <2>. HIDE DEF Tame
  <2>. QED
    BY <1>1, <2>1, <2>2
<1>7. CASE /\ kind # "LISTENER" /\ st \notin {"CONNECTING", "CONNECTED", "CONN_FAILED"}
           /\ o \in receive(kind, st, up)
  <2>1. PICK s : /\ o = Enter(kind, s)
                 /\ \/ s \in {Broken(kind), st, ResetState(kind, st)} \/ s = "RECEIVING"
                    \/ s \in Complete(kind)
    BY <1>7 DEF receive
  <2>2. s \in Complete(kind) => Tame(s)
    BY DEF Complete
  <2>3. Tame(s)
    BY <1>5, <2>1, <2>2
  <2>. HIDE DEF Tame
  <2>. QED
    BY <1>1, <2>1, <2>3
<1>. QED
  BY <1>2, <1>3, <1>4, <1>6, <1>7

-----------------------------------------------------------------------------
\* No item is linked twice, the timeout list is ordered, and the counter of
\* serviceable items covers them.
SoundLists(m) ==
    /\ IsInjective(m.active) /\ IsInjective(m.svc)
    /\ ToSet(m.active) \cap ToSet(m.svc) = {}
    /\ OrderedBy(m.active, m.due)
    /\ Len(m.svc) <= m.count

\* The state of the connection manager is consistent in itself.
ManagerInv(m) ==
    /\ m \in ManagerState
    /\ m.rfds = {fd \in m.reg : "READABLE" \in m.last[fd]}
    /\ m.wfds = {fd \in m.reg : "WRITEABLE" \in m.last[fd]}
    /\ SoundLists(m)
    /\ ToSet(m.svc) \subseteq m.reg
    /\ ToSet(m.active) = {fd \in m.reg : "NEED_TIMEOUT" \in m.last[fd]}

\* The managers m and n differ at most in their lists and due times.
SameButLists(m, n) ==
    n.reg = m.reg /\ n.last = m.last /\ n.rfds = m.rfds /\ n.wfds = m.wfds

\* remove() takes an item out of the list it is in.
LEMMA UnlinkLists ==
  ASSUME NEW m \in ManagerState, SoundLists(m), NEW fd
  PROVE  LET u == Unlink(m, fd)
         IN  /\ u \in ManagerState /\ SoundLists(u) /\ SameButLists(m, u)
             /\ ToSet(u.active) = ToSet(m.active) \ {fd}
             /\ ToSet(u.svc) = ToSet(m.svc) \ {fd}
             /\ fd \in ToSet(m.active) => u.svc = m.svc
             /\ u.due = m.due /\ u.count = m.count
<1>1. m.active \in Seq(Items) /\ m.svc \in Seq(Items) /\ m.count \in Int
  BY DEF ManagerState
<1>2. /\ RemoveFirst(m.active, fd) \in Seq(Items)
      /\ ToSet(RemoveFirst(m.active, fd)) = ToSet(m.active) \ {fd}
      /\ IsInjective(RemoveFirst(m.active, fd))
      /\ OrderedBy(RemoveFirst(m.active, fd), m.due)
  BY <1>1, RemoveFirstProperties, RemoveFirstOrdered DEF SoundLists
<1>3. /\ RemoveFirst(m.svc, fd) \in Seq(Items)
      /\ ToSet(RemoveFirst(m.svc, fd)) = ToSet(m.svc) \ {fd}
      /\ IsInjective(RemoveFirst(m.svc, fd))
  BY <1>1, RemoveFirstProperties DEF SoundLists
<1>a. Len(RemoveFirst(m.svc, fd)) <= m.count
  <2>1. Len(RemoveFirst(m.svc, fd)) <= Len(m.svc)
    <3>. DEFINE w == [i \in Items |-> 0]
    <3>1. OrderedBy(m.svc, w)
      <4>1. \A i \in DOMAIN m.svc : m.svc[i] \in Items
        BY <1>1
      <4>. QED
        BY <4>1 DEF OrderedBy
    <3>. QED
      BY <1>1, <3>1, RemoveFirstOrdered
  <2>2. Len(RemoveFirst(m.svc, fd)) \in Nat /\ Len(m.svc) \in Nat /\ Len(m.svc) <= m.count
    BY <1>1, <1>3 DEF SoundLists
  <2>. QED
    BY <1>1, <2>1, <2>2
<1>b. fd \in ToSet(m.active) => RemoveFirst(m.svc, fd) = m.svc
  <2>1. fd \in ToSet(m.active) => fd \notin ToSet(m.svc)
    BY DEF SoundLists
  <2>2. fd \notin ToSet(m.svc) => RemoveFirst(m.svc, fd) = m.svc
    BY <1>1, RemoveFirstCases, ToSetOfSeq
  <2>. QED
    BY <2>1, <2>2
<1>. DEFINE u == Unlink(m, fd)
<1>4. /\ u \in ManagerState
      /\ u.active = RemoveFirst(m.active, fd) /\ u.svc = RemoveFirst(m.svc, fd)
      /\ SameButLists(m, u) /\ u.due = m.due /\ u.count = m.count
  BY <1>2, <1>3 DEF Unlink, ManagerState, SameButLists
<1>. HIDE DEF u
<1>5. SoundLists(u)
  BY <1>2, <1>3, <1>a, <1>4 DEF SoundLists
<1>. QED
  BY <1>2, <1>3, <1>b, <1>4, <1>5 DEF u

\* Queueing an item for attention.
LEMMA TrackAttentionLists ==
  ASSUME NEW m \in ManagerState, SoundLists(m), NEW fd \in Items, NEW io
  PROVE  LET a == TrackAttention(m, fd, io)
         IN  /\ a \in ManagerState /\ SoundLists(a) /\ SameButLists(m, a)
             /\ "ATTENTION" \notin io => a = m
             /\ "ATTENTION" \in io =>
                   /\ ToSet(a.active) = ToSet(m.active) \ {fd}
                   /\ ToSet(a.svc) = ToSet(m.svc) \cup {fd}
<1>1. CASE "ATTENTION" \notin io
  BY <1>1 DEF TrackAttention, SameButLists
<1>2. CASE "ATTENTION" \in io
  <2>. DEFINE u == Unlink(m, fd)
              a == TrackAttention(m, fd, io)
              x == <<fd>> \o u.svc
              c == u.count + 1
  <2>1. /\ u \in ManagerState /\ SoundLists(u) /\ SameButLists(m, u)
        /\ ToSet(u.active) = ToSet(m.active) \ {fd}
        /\ ToSet(u.svc) = ToSet(m.svc) \ {fd}
        /\ u.due = m.due /\ u.count = m.count
    BY UnlinkLists
  <2>2. a = [u EXCEPT !.svc = x, !.count = c]
    BY <1>2 DEF TrackAttention
  <2>. HIDE DEF u, a
  <2>3. u.svc \in Seq(Items) /\ IsInjective(u.svc) /\ fd \notin ToSet(u.svc)
    BY <2>1 DEF ManagerState, SoundLists
  <2>4. x \in Seq(Items) /\ ToSet(x) = ToSet(u.svc) \cup {fd} /\ IsInjective(x)
    BY <2>3, ConsProperties
  <2>c. c \in Int /\ Len(x) <= c
    <3>1. Len(x) = Len(u.svc) + 1
      <4>1. <<fd>> \in Seq(Items) /\ Len(<<fd>>) = 1
        OBVIOUS
      <4>. QED
        BY <2>3, <4>1, ConcatProperties
    <3>2. u.count \in Int /\ Len(u.svc) \in Nat /\ Len(u.svc) <= u.count
      BY <2>1, <2>3 DEF ManagerState, SoundLists
    <3>. QED
      BY <3>1, <3>2
  <2>. HIDE DEF x, c
  <2>5. /\ a \in ManagerState /\ SameButLists(u, a)
        /\ a.active = u.active /\ a.svc = x /\ a.due = u.due /\ a.count = c
    BY <2>1, <2>2, <2>4, <2>c DEF ManagerState, SameButLists
  <2>6. SoundLists(a)
    BY <2>1, <2>4, <2>c, <2>5 DEF SoundLists
  <2>7. ToSet(a.active) = ToSet(m.active) \ {fd} /\ ToSet(a.svc) = ToSet(m.svc) \cup {fd}
    BY <2>1, <2>4, <2>5
  <2>8. SameButLists(m, a)
    BY <2>1, <2>5 DEF SameButLists
  <2>. QED
    BY <1>2, <2>5, <2>6, <2>7, <2>8 DEF a
<1>. QED
  BY <1>1, <1>2

\* The place found in the timeout list is one between its items.
LEMMA InsertPointInList ==
  ASSUME NEW m \in ManagerState, NEW d
  PROVE  InsertPoint(m, d) \in 1 .. Len(m.active) + 1
<1>. DEFINE E == {i \in DOMAIN m.active : m.due[m.active[i]] <= d}
<1>1. m.active \in Seq(Items) /\ Len(m.active) \in Nat
      /\ DOMAIN m.active = 1 .. Len(m.active)
  BY DEF ManagerState
<1>2. CASE E = {}
  BY <1>1, <1>2 DEF InsertPoint
<1>3. CASE E # {}
  <2>1. E \subseteq 0 .. Len(m.active) /\ E \subseteq 1 .. Len(m.active)
    BY <1>1
  <2>2. InsertPoint(m, d) = Max(E) + 1
    BY <1>3 DEF InsertPoint
  <2>. HIDE DEF E
  <2>3. Max(E) \in E
    BY <1>1, <1>3, <2>1, MaxOfSet
  <2>4. Max(E) \in 1 .. Len(m.active)
    BY <2>1, <2>3
  <2>. QED
    BY <1>1, <2>2, <2>4
<1>. QED
  BY <1>2, <1>3

\* It is right behind the items that are not due later than the new one.
LEMMA InsertPointOrders ==
  ASSUME NEW m \in ManagerState, OrderedBy(m.active, m.due), NEW d \in Nat,
         NEW i \in 1 .. Len(m.active)
  PROVE  IF i < InsertPoint(m, d) THEN m.due[m.active[i]] <= d
                                  ELSE d <= m.due[m.active[i]]
<1>. DEFINE E == {j \in DOMAIN m.active : m.due[m.active[j]] <= d}
<1>1. /\ m.active \in Seq(Items) /\ Len(m.active) \in Nat
      /\ DOMAIN m.active = 1 .. Len(m.active)
      /\ \A j \in 1 .. Len(m.active) : m.due[m.active[j]] \in Nat
  <2>1. /\ m.active \in Seq(Items) /\ Len(m.active) \in Nat
        /\ DOMAIN m.active = 1 .. Len(m.active) /\ m.due \in [Items -> Nat]
    BY DEF ManagerState
  <2>2. \A j \in 1 .. Len(m.active) : m.active[j] \in Items
    BY <2>1
  <2>. QED
    BY <2>1, <2>2
<1>2. CASE E = {}
  <2>1. InsertPoint(m, d) = 1
    BY <1>2 DEF InsertPoint
  <2>2. ~ (m.due[m.active[i]] <= d)
    BY <1>1, <1>2
  <2>. QED
    BY <1>1, <2>1, <2>2
<1>3. CASE E # {}
  <2>1. E \subseteq 0 .. Len(m.active) /\ E \subseteq 1 .. Len(m.active)
    BY <1>1
  <2>2. InsertPoint(m, d) = Max(E) + 1
    BY <1>3 DEF InsertPoint
  <2>3. Max(E) \in E /\ \A j \in E : j <= Max(E)
    <3>. HIDE DEF E
    <3>. QED
      BY <1>1, <1>3, <2>1, MaxOfSet
  <2>4. m.due[m.active[Max(E)]] <= d /\ Max(E) \in 1 .. Len(m.active)
    BY <2>1, <2>3
  <2>5. CASE i <= Max(E)
    <3>1. m.due[m.active[i]] <= m.due[m.active[Max(E)]]
      <4>. HIDE DEF E
      <4>. QED
        BY <1>1, <2>4, <2>5 DEF OrderedBy
    <3>. HIDE DEF E
    <3>. QED
      BY <1>1, <2>2, <2>4, <2>5, <3>1
  <2>6. CASE ~(i <= Max(E))
    <3>1. i \notin E
      BY <2>3, <2>6
    <3>2. ~(m.due[m.active[i]] <= d)
      BY <1>1, <3>1
    <3>. HIDE DEF E
    <3>. QED
      BY <1>1, <2>2, <2>4, <2>6, <3>2
  <2>. QED
    BY <2>5, <2>6
<1>. QED
  BY <1>2, <1>3

\* Moving an item into or out of the timeout list.
LEMMA TrackTimeoutLists ==
  ASSUME NEW m \in ManagerState, SoundLists(m), NEW fd \in Items, NEW io,
         NEW timeout \in Nat, Changes(m, fd, io, "NEED_TIMEOUT"),
         NEW t, t = TrackTimeout(m, fd, io, timeout)
  PROVE  /\ t \in ManagerState /\ SoundLists(t) /\ SameButLists(m, t)
         /\ ToSet(m.svc) \ {fd} \subseteq ToSet(t.svc)
         /\ ToSet(t.svc) \subseteq ToSet(m.svc)
         /\ "NEED_TIMEOUT" \in io => ToSet(t.active) = ToSet(m.active) \cup {fd}
         /\ "NEED_TIMEOUT" \notin io /\ "ATTENTION" \in io => t = m
         /\ "NEED_TIMEOUT" \notin io /\ "ATTENTION" \notin io =>
               ToSet(t.active) = ToSet(m.active) \ {fd}
<1>. DEFINE u == Unlink(m, fd)
<1>1. /\ u \in ManagerState /\ SoundLists(u) /\ SameButLists(m, u)
      /\ ToSet(u.active) = ToSet(m.active) \ {fd}
      /\ ToSet(u.svc) = ToSet(m.svc) \ {fd} /\ u.count = m.count
  BY UnlinkLists
<1>2. CASE "NEED_TIMEOUT" \in io
  <2>. DEFINE k == InsertPoint(u, timeout)
              x == InsertAt(u.active, k, fd)
  <2>1. t = [u EXCEPT !.due[fd] = timeout, !.active = x]
    BY <1>2 DEF TrackTimeout
  <2>. HIDE DEF u
  <2>2. k \in 1 .. Len(u.active) + 1
    BY <1>1, InsertPointInList
  <2>. HIDE DEF k
  <2>3. u.active \in Seq(Items) /\ IsInjective(u.active) /\ fd \notin ToSet(u.active)
    BY <1>1 DEF ManagerState, SoundLists
  <2>4. x \in Seq(Items)
    BY <2>2, <2>3, InsertAtProperties
  <2>5. ToSet(x) = ToSet(u.active) \cup {fd} /\ IsInjective(x)
    BY <2>2, <2>3, InsertAtSet
  <2>a. OrderedBy(x, [u.due EXCEPT ![fd] = timeout])
    <3>1. OrderedBy(u.active, u.due) /\ u.due \in [Items -> Nat] /\ u \in ManagerState
      BY <1>1 DEF SoundLists, ManagerState
    <3>2. \A i \in 1 .. Len(u.active) :
            IF i < k THEN u.due[u.active[i]] <= timeout ELSE timeout <= u.due[u.active[i]]
      BY <3>1, InsertPointOrders DEF k
    <3>. QED
      BY <2>2, <2>3, <3>1, <3>2, InsertAtOrdered
  <2>. HIDE DEF x
  <2>6. /\ t \in ManagerState /\ SameButLists(u, t)
        /\ t.active = x /\ t.svc = u.svc /\ t.count = u.count
        /\ t.due = [u.due EXCEPT ![fd] = timeout]
    <3>. DEFINE d == [u.due EXCEPT ![fd] = timeout]
    <3>1. t = [u EXCEPT !.due = d, !.active = x]
      BY <2>1
    <3>2. d \in [Items -> Nat]
      BY <1>1 DEF ManagerState
    <3>. HIDE DEF d
    <3>3. /\ t \in ManagerState /\ SameButLists(u, t)
          /\ t.active = x /\ t.svc = u.svc /\ t.count = u.count /\ t.due = d
      BY <1>1, <2>4, <3>1, <3>2 DEF ManagerState, SameButLists
    <3>. QED
      BY <3>3 DEF d
  <2>7. SoundLists(t)
    BY <1>1, <2>5, <2>a, <2>6 DEF SoundLists
  <2>8. /\ ToSet(t.active) = ToSet(m.active) \cup {fd} /\ ToSet(t.svc) \subseteq ToSet(m.svc)
        /\ ToSet(m.svc) \ {fd} \subseteq ToSet(t.svc)
    BY <1>1, <2>5, <2>6
  <2>9. SameButLists(m, t)
    BY <1>1, <2>6 DEF SameButLists
  <2>. QED
    BY <1>2, <2>6, <2>7, <2>8, <2>9
<1>3. CASE "NEED_TIMEOUT" \notin io /\ "ATTENTION" \in io
  BY <1>3 DEF TrackTimeout, SameButLists
<1>4. CASE "NEED_TIMEOUT" \notin io /\ "ATTENTION" \notin io
  <2>1. t = u
    BY <1>4 DEF TrackTimeout
  <2>. QED
    BY <1>1, <1>4, <2>1
<1>. QED
  BY <1>2, <1>3, <1>4

\* Manager n is what m becomes when it tracks mode io of connection fd.
ModeTracked(m, fd, io, n) ==
    /\ ManagerInv(n) /\ n.reg = m.reg
    /\ n.last = [m.last EXCEPT ![fd] = io]
    /\ ToSet(m.svc) \ {fd} \subseteq ToSet(n.svc)
    /\ ToSet(n.svc) \subseteq ToSet(m.svc) \cup {fd}
    /\ "ATTENTION" \notin io => ToSet(n.svc) \subseteq ToSet(m.svc)
    /\ "ATTENTION" \in io => fd \in ToSet(n.svc)
    /\ "NEED_TIMEOUT" \notin io /\ fd \in ToSet(m.svc) => fd \in ToSet(n.svc)

\* Tracking the I/O mode of a registered connection keeps the manager
\* consistent.
LEMMA TrackIoModeInv ==
  ASSUME NEW m, ManagerInv(m), NEW fd \in m.reg, NEW kind \in Kinds,
         NEW io \in SUBSET IoFlags, "ATTENTION" \in io => "NEED_TIMEOUT" \notin io
  PROVE  ModeTracked(m, fd, io, TrackIoMode(m, fd, kind, io))
<1>. DEFINE a == TrackAttention(m, fd, io)
            t == TrackTimeout(a, fd, io, Timeout[kind])
            n == TrackIoMode(m, fd, kind, io)
            lst == [m.last EXCEPT ![fd] = io]
            r == TrackSet(m, m.rfds, fd, io, "READABLE")
            w == TrackSet(m, m.wfds, fd, io, "WRITEABLE")
<1>1. /\ m \in ManagerState /\ SoundLists(m) /\ fd \in Items
      /\ m.reg \subseteq Items /\ m.last \in [Items -> SUBSET IoFlags]
  BY DEF ManagerInv, ManagerState
<1>2. /\ a \in ManagerState /\ SoundLists(a) /\ SameButLists(m, a)
      /\ "ATTENTION" \notin io => a = m
      /\ "ATTENTION" \in io => /\ ToSet(a.active) = ToSet(m.active) \ {fd}
                               /\ ToSet(a.svc) = ToSet(m.svc) \cup {fd}
  BY <1>1, TrackAttentionLists
<1>3. Timeout[kind] \in Nat
  BY TimeoutAssumption
<1>. HIDE DEF a
<1>4. Changes(a, fd, io, "NEED_TIMEOUT") <=> Changes(m, fd, io, "NEED_TIMEOUT")
  BY <1>2 DEF Changes, SameButLists
<1>5. /\ t \in ManagerState /\ SoundLists(t) /\ SameButLists(m, t)
      /\ ToSet(t.svc) \subseteq m.reg
      /\ ToSet(t.svc) \subseteq ToSet(a.svc)
      /\ ToSet(a.svc) \ {fd} \subseteq ToSet(t.svc)
      /\ "ATTENTION" \in io => fd \in ToSet(t.svc)
      /\ "NEED_TIMEOUT" \notin io /\ fd \in ToSet(m.svc) => fd \in ToSet(t.svc)
      /\ ToSet(t.active) = {g \in m.reg : "NEED_TIMEOUT" \in lst[g]}
  <2>. DEFINE A == {g \in m.reg : "NEED_TIMEOUT" \in lst[g]}
  <2>1. ToSet(m.svc) \subseteq m.reg
        /\ ToSet(m.active) = {g \in m.reg : "NEED_TIMEOUT" \in m.last[g]}
    BY DEF ManagerInv
  <2>2. CASE Changes(m, fd, io, "NEED_TIMEOUT")
    <3>1. /\ t \in ManagerState /\ SoundLists(t) /\ SameButLists(a, t)
          /\ ToSet(a.svc) \ {fd} \subseteq ToSet(t.svc)
          /\ ToSet(t.svc) \subseteq ToSet(a.svc)
          /\ "NEED_TIMEOUT" \in io => ToSet(t.active) = ToSet(a.active) \cup {fd}
          /\ "NEED_TIMEOUT" \notin io /\ "ATTENTION" \in io => t = a
          /\ "NEED_TIMEOUT" \notin io /\ "ATTENTION" \notin io =>
                ToSet(t.active) = ToSet(a.active) \ {fd}
      <4>1. /\ a \in ManagerState /\ SoundLists(a) /\ fd \in Items /\ Timeout[kind] \in Nat
            /\ Changes(a, fd, io, "NEED_TIMEOUT")
        BY <1>1, <1>2, <1>3, <1>4, <2>2
      <4>2. t = TrackTimeout(a, fd, io, Timeout[kind])
        OBVIOUS
      <4>. HIDE DEF t, A, lst, n, r, w
      <4>. QED
        BY <4>1, <4>2, TrackTimeoutLists
    <3>. HIDE DEF t
    <3>2. "NEED_TIMEOUT" \in io => A = ToSet(m.active) \cup {fd}
      BY <1>1, <2>1
    <3>3. "NEED_TIMEOUT" \notin io => A = ToSet(m.active) \ {fd}
      BY <1>1, <2>1
    <3>4. ToSet(t.active) = A
      BY <1>2, <3>1, <3>2, <3>3
    <3>5. ToSet(t.svc) \subseteq m.reg
      BY <1>2, <2>1, <3>1
    <3>6. "ATTENTION" \in io => fd \in ToSet(t.svc)
      BY <1>2, <3>1
    <3>7. "NEED_TIMEOUT" \notin io => fd \notin ToSet(m.svc)
      <4>1. "NEED_TIMEOUT" \notin io => fd \in ToSet(m.active)
        BY <2>1, <2>2 DEF Changes
      <4>. QED
        BY <1>1, <4>1 DEF SoundLists
    <3>. QED
      BY <1>2, <3>1, <3>4, <3>5, <3>6, <3>7 DEF SameButLists
  <2>3. CASE ~ Changes(m, fd, io, "NEED_TIMEOUT")
    <3>1. t = a
      BY <1>4, <2>3 DEF TrackTimeout
    <3>2. ("NEED_TIMEOUT" \in io) <=> ("NEED_TIMEOUT" \in m.last[fd])
      BY <2>3 DEF Changes
    <3>3. A = ToSet(m.active)
      BY <1>1, <2>1, <3>2
    <3>4. "ATTENTION" \in io => fd \notin ToSet(m.active)
      BY <2>1, <3>2
    <3>5. ToSet(t.active) = A /\ ToSet(t.svc) \subseteq m.reg
      BY <1>2, <2>1, <3>1, <3>3, <3>4
    <3>6. /\ "ATTENTION" \in io => fd \in ToSet(t.svc)
          /\ fd \in ToSet(m.svc) => fd \in ToSet(t.svc)
      BY <1>2, <3>1
    <3>. QED
      BY <1>2, <3>1, <3>5, <3>6
  <2>. QED
    BY <2>2, <2>3
<1>6. r = {g \in m.reg : "READABLE" \in lst[g]}
  BY <1>1 DEF TrackSet, Changes, ManagerInv
<1>7. w = {g \in m.reg : "WRITEABLE" \in lst[g]}
  BY <1>1 DEF TrackSet, Changes, ManagerInv
<1>8. n = [t EXCEPT !.rfds = r, !.wfds = w, !.last[fd] = io]
  <2>1. t.rfds = m.rfds /\ t.wfds = m.wfds
    BY <1>5 DEF SameButLists
  <2>. QED
    BY <2>1 DEF TrackIoMode, a
<1>. HIDE DEF t, n, r, w
<1>9. r \in SUBSET Items /\ w \in SUBSET Items /\ lst \in [Items -> SUBSET IoFlags]
  BY <1>1, <1>6, <1>7
<1>10. /\ n \in ManagerState /\ n.reg = m.reg /\ n.last = lst
       /\ n.rfds = r /\ n.wfds = w /\ n.active = t.active /\ n.svc = t.svc
       /\ n.due = t.due /\ n.count = t.count
  BY <1>5, <1>8, <1>9 DEF ManagerState, SameButLists
<1>11. SoundLists(n)
  BY <1>5, <1>10 DEF SoundLists
<1>. HIDE DEF lst
<1>12. ManagerInv(n)
  BY <1>5, <1>6, <1>7, <1>10, <1>11 DEF ManagerInv
<1>13. /\ ToSet(m.svc) \ {fd} \subseteq ToSet(n.svc)
       /\ ToSet(n.svc) \subseteq ToSet(m.svc) \cup {fd}
       /\ "ATTENTION" \notin io => ToSet(n.svc) \subseteq ToSet(m.svc)
       /\ "ATTENTION" \in io => fd \in ToSet(n.svc)
       /\ "NEED_TIMEOUT" \notin io /\ fd \in ToSet(m.svc) => fd \in ToSet(n.svc)
  BY <1>2, <1>5, <1>10
<1>. QED
  BY <1>10, <1>12, <1>13 DEF n, lst, ModeTracked

-----------------------------------------------------------------------------
\* The outcome r = [m, st] of an operation on connection fd, from manager m:
\* the connection is still registered, in a state its mode agrees with, ...
Kept(m, fd, kind, r) ==
    /\ ManagerInv(r.m) /\ r.m.reg = m.reg
    /\ \A g \in m.reg \ {fd} : r.m.last[g] = m.last[g]
    /\ SoundState(kind, r.st)
    /\ SameWatch(r.m.last[fd], getIoMode(kind, r.st))
    /\ "ATTENTION" \in getIoMode(kind, r.st) => fd \in ToSet(r.m.svc)
    /\ ToSet(m.svc) \ {fd} \subseteq ToSet(r.m.svc)
    /\ ToSet(r.m.svc) \subseteq ToSet(m.svc) \cup {fd}
    /\ kind = "LISTENER" => ToSet(r.m.svc) \subseteq ToSet(m.svc)

\* ... it has been destroyed, ...
Gone(m, fd, kind, r) ==
    /\ kind = "SERVER" /\ r.st = "NONE"
    /\ ManagerInv(r.m) /\ r.m.reg = m.reg \ {fd}
    /\ \A g \in m.reg \ {fd} : r.m.last[g] = m.last[g]
    /\ ToSet(m.svc) \ {fd} \subseteq ToSet(r.m.svc)
    /\ ToSet(r.m.svc) \subseteq ToSet(m.svc) \cup {fd}

\* ... or it survives: it is not left in the table when it is dead.
Survives(m, fd, kind, r) ==
    /\ Kept(m, fd, kind, r)
    /\ kind = "SERVER" /\ "decode" \notin Faults => r.st # "DEAD"

\* A connection in state st, whose method has returned mode io, either asks for
\* the attention it needs or already waits for it.
Heeded(m, fd, kind, st, io) ==
    "ATTENTION" \in getIoMode(kind, st) => "ATTENTION" \in io \/ fd \in ToSet(m.svc)

\* trackCnxIoMode() keeps the connection.
LEMMA TrackCnxIoModeKeeps ==
  ASSUME NEW m, ManagerInv(m), NEW fd \in m.reg, NEW kind \in Kinds,
         NEW up \in BOOLEAN, NEW st, NEW io, SoundState(kind, st),
         SoundMode(kind, st, io), Heeded(m, fd, kind, st, io),
         NEW r \in trackCnxIoMode(m, fd, kind, up, st, io)
  PROVE  Kept(m, fd, kind, r)
<1>. DEFINE t == TrackIoMode(m, fd, kind, io)
<1>1. fd \in Items /\ m.reg \subseteq Items /\ m.last \in [Items -> SUBSET IoFlags]
  BY DEF ManagerInv, ManagerState
<1>. io \in SUBSET IoFlags /\ ("ATTENTION" \in io => "NEED_TIMEOUT" \notin io)
  BY DEF SoundMode
<1>2. ModeTracked(m, fd, io, t)
  BY TrackIoModeInv
<1>a. \A s \in ConnectionState : \A jo :
        SameWatch(jo, getIoMode(kind, s)) /\ "ATTENTION" \in getIoMode(kind, s) =>
            "NEED_TIMEOUT" \notin jo /\ "WRITEABLE" \notin jo
  <2>1. \A s : "ATTENTION" \in getIoMode(kind, s) => getIoMode(kind, s) = {"ATTENTION"}
    BY DEF getIoMode, TcpIoMode, ListenIoMode
  <2>. QED
    BY <2>1 DEF SameWatch, Watched
<1>3. CASE ~ FastWrite(m, fd, io)
  <2>1. r = [m |-> t, st |-> st]
    BY <1>3 DEF trackCnxIoMode
  <2>. HIDE DEF t
  <2>2. "ATTENTION" \in getIoMode(kind, st) => fd \in ToSet(t.svc)
    BY <1>2, <1>a DEF Heeded, SoundState, SoundMode, ModeTracked
  <2>. QED
    BY <1>1, <1>2, <2>1, <2>2 DEF Kept, SoundMode, ModeTracked
<1>4. CASE FastWrite(m, fd, io)
  <2>1. PICK o \in send(kind, st, up) :
            r = [m |-> TrackIoMode(t, fd, kind, o.io), st |-> o.st]
    BY <1>4 DEF trackCnxIoMode
  <2>2. SoundOutcome(kind, o)
    BY SendIsSound
  <2>. HIDE DEF t
  <2>. DEFINE n == TrackIoMode(t, fd, kind, o.io)
  <2>a. /\ o.io \in SUBSET IoFlags
        /\ "ATTENTION" \in o.io => "NEED_TIMEOUT" \notin o.io
    BY <2>2 DEF SoundOutcome, SoundMode
  <2>3. ModeTracked(t, fd, o.io, n)
    <3>1. ManagerInv(t) /\ fd \in t.reg
      BY <1>2 DEF ModeTracked
    <3>. QED
      BY <2>a, <3>1, TrackIoModeInv
  <2>4. r.m = n /\ r.st = o.st
    BY <2>1
  <2>. HIDE DEF n
  <2>5. r.m.last[fd] = o.io /\ \A g \in m.reg \ {fd} : r.m.last[g] = m.last[g]
    BY <1>1, <1>2, <2>3, <2>4 DEF ModeTracked
  <2>6. /\ ToSet(r.m.svc) \subseteq ToSet(m.svc) \cup {fd}
        /\ kind = "LISTENER" => ToSet(r.m.svc) \subseteq ToSet(m.svc)
        /\ ToSet(m.svc) \ {fd} \subseteq ToSet(r.m.svc)
    BY <1>2, <2>2, <2>3, <2>4 DEF ModeTracked, SoundOutcome, SoundMode
  <2>7. "ATTENTION" \in getIoMode(kind, r.st) => fd \in ToSet(r.m.svc)
    <3>1. "ATTENTION" \notin getIoMode(kind, st)
      BY <1>4, <1>a DEF FastWrite, SoundState, SoundMode
    <3>2. "ATTENTION" \in getIoMode(kind, o.st) => "ATTENTION" \in o.io
      BY <3>1, MethodsFollow DEF FollowsFrom
    <3>. QED
      BY <2>3, <2>4, <3>2 DEF ModeTracked
  <2>. QED
    BY <1>2, <2>2, <2>3, <2>4, <2>5, <2>6, <2>7
    DEF Kept, SoundOutcome, SoundMode, ModeTracked
<1>. QED
  BY <1>3, <1>4

\* removeConnection() keeps the manager consistent.
LEMMA RemoveConnectionInv ==
  ASSUME NEW m, ManagerInv(m), NEW fd
  PROVE  LET n == removeConnection(m, fd)
         IN  /\ ManagerInv(n) /\ n.reg = m.reg \ {fd} /\ n.last = m.last
             /\ ToSet(m.svc) \ {fd} \subseteq ToSet(n.svc)
             /\ ToSet(n.svc) \subseteq ToSet(m.svc)
<1>1. CASE fd \notin m.reg
  BY <1>1 DEF removeConnection
<1>2. CASE fd \in m.reg
  <2>. DEFINE u == Unlink(m, fd)
              n == removeConnection(m, fd)
  <2>1. /\ u \in ManagerState /\ SoundLists(u) /\ SameButLists(m, u)
        /\ ToSet(u.active) = ToSet(m.active) \ {fd}
        /\ ToSet(u.svc) = ToSet(m.svc) \ {fd}
        /\ u.due = m.due /\ u.count = m.count
    BY UnlinkLists DEF ManagerInv
  <2>2. n = [u EXCEPT !.rfds = @ \ {fd}, !.wfds = @ \ {fd}, !.reg = @ \ {fd}]
    BY <1>2 DEF removeConnection
  <2>. HIDE DEF u, n
  <2>3. /\ n \in ManagerState /\ n.reg = m.reg \ {fd} /\ n.last = m.last
        /\ n.rfds = m.rfds \ {fd} /\ n.wfds = m.wfds \ {fd}
        /\ n.active = u.active /\ n.svc = u.svc /\ n.due = u.due /\ n.count = u.count
    BY <2>1, <2>2 DEF ManagerState, SameButLists
  <2>4. SoundLists(n)
    BY <2>1, <2>3 DEF SoundLists
  <2>5. /\ n.rfds = {g \in n.reg : "READABLE" \in n.last[g]}
        /\ n.wfds = {g \in n.reg : "WRITEABLE" \in n.last[g]}
    BY <2>3 DEF ManagerInv
  <2>6. /\ ToSet(n.svc) \subseteq n.reg
        /\ ToSet(n.active) = {g \in n.reg : "NEED_TIMEOUT" \in n.last[g]}
    BY <2>1, <2>3 DEF ManagerInv
  <2>7. ManagerInv(n)
    BY <2>3, <2>4, <2>5, <2>6 DEF ManagerInv
  <2>. QED
    BY <2>1, <2>3, <2>7 DEF n
<1>. QED
  BY <1>1, <1>2

\* So destroying an accepted connection does what it should.
LEMMA DestroyIsGone ==
  ASSUME NEW m, NEW n, ManagerInv(n), NEW fd, n.reg = m.reg,
         \A g \in m.reg \ {fd} : n.last[g] = m.last[g],
         ToSet(m.svc) \ {fd} \subseteq ToSet(n.svc),
         ToSet(n.svc) \subseteq ToSet(m.svc) \cup {fd}
  PROVE  Gone(m, fd, "SERVER", Destroy(n, fd))
<1>. DEFINE r == Destroy(n, fd)
<1>1. r.m = removeConnection(n, fd) /\ r.st = "NONE"
  BY DEF Destroy
<1>2. /\ ManagerInv(r.m) /\ r.m.reg = n.reg \ {fd} /\ r.m.last = n.last
      /\ ToSet(n.svc) \ {fd} \subseteq ToSet(r.m.svc)
      /\ ToSet(r.m.svc) \subseteq ToSet(n.svc)
  BY <1>1, RemoveConnectionInv
<1>. QED
  BY <1>1, <1>2 DEF Gone

\* Two operations on the same connection in a row.
LEMMA KeptTwice ==
  ASSUME NEW m, NEW fd, NEW kind, NEW q, NEW r,
         Kept(m, fd, kind, q), Kept(q.m, fd, kind, r)
  PROVE  Kept(m, fd, kind, r)
  BY DEF Kept

\* Resetting a connection that has been kept keeps it.
LEMMA ResetKeeps ==
  ASSUME NEW m, NEW fd \in m.reg, NEW kind \in Kinds, NEW up \in BOOLEAN,
         NEW q, Kept(m, fd, kind, q),
         NEW r \in trackCnxIoMode(q.m, fd, kind, up, reset(kind, q.st).st,
                                  reset(kind, q.st).io)
  PROVE  Kept(m, fd, kind, r)
<1>. DEFINE n == q.m
            o == reset(kind, q.st)
<1>1. SoundOutcome(kind, o)
  BY ResetIsSound DEF Kept
<1>2. ManagerInv(n) /\ fd \in n.reg
  BY DEF Kept
<1>3. SoundState(kind, o.st) /\ SoundMode(kind, o.st, o.io)
  BY <1>1 DEF SoundOutcome
<1>4. r \in trackCnxIoMode(n, fd, kind, up, o.st, o.io)
  OBVIOUS
<1>a. Heeded(n, fd, kind, o.st, o.io)
  BY DEF Heeded, reset, Enter
<1>. HIDE DEF n, o
<1>5. Kept(n, fd, kind, r)
  BY <1>2, <1>3, <1>4, <1>a, TrackCnxIoModeKeeps
<1>. QED
  BY <1>5, KeptTwice DEF n

\* What the registered connection fd in state st may be left with by a method.
Proper(m, fd, kind, st, o) ==
    /\ SoundOutcome(kind, o) /\ FollowsFrom(kind, st, o)
    /\ SameWatch(m.last[fd], getIoMode(kind, st))
    /\ "ATTENTION" \in getIoMode(kind, st) => fd \in ToSet(m.svc)

\* Tracking it keeps the connection, and no connection dies unnoticed.
LEMMA TrackProper ==
  ASSUME NEW m, ManagerInv(m), NEW fd \in m.reg, NEW kind \in Kinds,
         NEW up \in BOOLEAN, NEW st, NEW o, Proper(m, fd, kind, st, o),
         NEW r \in trackCnxIoMode(m, fd, kind, up, o.st, o.io)
  PROVE  /\ Kept(m, fd, kind, r)
         /\ "DEAD" \notin o.io => Survives(m, fd, kind, r)
<1>1. SoundState(kind, o.st) /\ SoundMode(kind, o.st, o.io)
  BY DEF Proper, SoundOutcome
<1>2. Heeded(m, fd, kind, o.st, o.io)
  BY DEF Heeded, Proper, FollowsFrom
<1>3. Kept(m, fd, kind, r)
  BY <1>1, <1>2, TrackCnxIoModeKeeps
<1>4. ASSUME "DEAD" \notin o.io, kind = "SERVER", "decode" \notin Faults
      PROVE  r.st # "DEAD"
  <2>1. /\ o.st # "DEAD"
        /\ "WRITEABLE" \in o.io => "WRITEABLE" \in getIoMode(kind, st)
    BY <1>4 DEF Proper, FollowsFrom
  <2>2. "WRITEABLE" \in o.io => "WRITEABLE" \in m.last[fd]
    BY <2>1 DEF Proper, SameWatch, Watched
  <2>3. r.st = o.st
    BY <2>2 DEF trackCnxIoMode, FastWrite
  <2>. QED
    BY <2>1, <2>3
<1>. QED
  BY <1>3, <1>4 DEF Survives

\* processConnections() and processTimeout() keep the connection, or destroy
\* it if it is an accepted one.
LEMMA TrackAndReapEffect ==
  ASSUME NEW m, ManagerInv(m), NEW fd \in m.reg, NEW kind \in Kinds,
         NEW up \in BOOLEAN, NEW st, NEW o, Proper(m, fd, kind, st, o),
         NEW r \in TrackAndReap(m, fd, kind, up, o)
  PROVE  Survives(m, fd, kind, r) \/ Gone(m, fd, kind, r)
<1>. DEFINE T == trackCnxIoMode(m, fd, kind, up, o.st, o.io)
<1>1. ASSUME NEW q \in T
      PROVE  Kept(m, fd, kind, q) /\ ("DEAD" \notin o.io => Survives(m, fd, kind, q))
  BY TrackProper
<1>2. CASE "DEAD" \notin o.io
  <2>1. r \in T
    BY <1>2 DEF TrackAndReap
  <2>. QED
    BY <1>1, <1>2, <2>1
<1>3. CASE "DEAD" \in o.io /\ isAutoDestroyable(kind)
  <2>1. PICK q \in T : r = Destroy(q.m, fd)
    BY <1>3 DEF TrackAndReap
  <2>2. Kept(m, fd, kind, q) /\ kind = "SERVER"
    BY <1>1, <1>3 DEF isAutoDestroyable
  <2>3. Gone(m, fd, "SERVER", Destroy(q.m, fd))
    BY <2>2, DestroyIsGone DEF Kept
  <2>. QED
    BY <2>1, <2>2, <2>3
<1>4. CASE "DEAD" \in o.io /\ ~ isAutoDestroyable(kind)
  <2>1. PICK q \in T :
          r \in trackCnxIoMode(q.m, fd, kind, up, reset(kind, q.st).st,
                               reset(kind, q.st).io)
    BY <1>4 DEF TrackAndReap
  <2>2. Kept(m, fd, kind, r)
    BY <1>1, <2>1, ResetKeeps
  <2>. QED
    BY <1>4, <2>2 DEF Survives, isAutoDestroyable
<1>. QED
  BY <1>2, <1>3, <1>4

\* A connection that is found dead after tracking is destroyed.
LEMMA ReapEffect ==
  ASSUME NEW m, NEW fd, NEW kind, NEW q, Kept(m, fd, kind, q),
         NEW r, r = IF q.st = "DEAD" /\ isAutoDestroyable(kind)
                    THEN Destroy(q.m, fd) ELSE q
  PROVE  Survives(m, fd, kind, r) \/ Gone(m, fd, kind, r)
<1>1. CASE q.st = "DEAD" /\ isAutoDestroyable(kind)
  <2>1. kind = "SERVER" /\ r = Destroy(q.m, fd)
    BY <1>1 DEF isAutoDestroyable
  <2>2. Gone(m, fd, "SERVER", Destroy(q.m, fd))
    BY DestroyIsGone DEF Kept
  <2>. QED
    BY <2>1, <2>2
<1>2. CASE ~ (q.st = "DEAD" /\ isAutoDestroyable(kind))
  BY <1>2 DEF Survives, isAutoDestroyable
<1>. QED
  BY <1>1, <1>2

\* trackConnection() after the state of a connection has been changed behind
\* the back of the manager.  A dead connection of the server's own is not
\* tracked; there is none that waits for attention.
LEMMA TrackConnectionEffect ==
  ASSUME NEW m, ManagerInv(m), NEW fd \in m.reg, NEW kind \in Kinds,
         NEW up \in BOOLEAN, NEW st, SoundState(kind, st),
         st = "DEAD" => isAutoDestroyable(kind),
         NEW r \in trackConnection(m, fd, kind, up, st)
  PROVE  Survives(m, fd, kind, r) \/ Gone(m, fd, kind, r)
<1>1. CASE st = "DEAD"
  <2>1. r = Destroy(m, fd) /\ kind = "SERVER"
    BY <1>1 DEF trackConnection, isAutoDestroyable
  <2>2. Gone(m, fd, "SERVER", Destroy(m, fd))
    BY DestroyIsGone
  <2>. QED
    BY <2>1, <2>2
<1>2. CASE st # "DEAD"
  <2>1. PICK q \in trackCnxIoMode(m, fd, kind, up, st, getIoMode(kind, st)) :
          r = IF q.st = "DEAD" /\ isAutoDestroyable(kind) THEN Destroy(q.m, fd) ELSE q
    BY <1>2 DEF trackConnection
  <2>2. SoundMode(kind, st, getIoMode(kind, st))
    BY IoModeIsSound DEF SoundState
  <2>a. Heeded(m, fd, kind, st, getIoMode(kind, st))
    BY DEF Heeded
  <2>3. Kept(m, fd, kind, q)
    BY <2>2, <2>a, TrackCnxIoModeKeeps
  <2>. QED
    BY <2>1, <2>3, ReapEffect
<1>. QED
  BY <1>1, <1>2

\* resetConnection() of a client connection keeps it.
LEMMA ResetConnectionKeeps ==
  ASSUME NEW m, ManagerInv(m), NEW fd \in m.reg, NEW up \in BOOLEAN,
         NEW st, SoundState("CLIENT", st),
         NEW r \in resetConnection(m, fd, "CLIENT", up, st)
  PROVE  Survives(m, fd, "CLIENT", r)
<1>. DEFINE o == reset("CLIENT", st)
<1>1. r \in trackCnxIoMode(m, fd, "CLIENT", up, o.st, o.io)
  BY DEF resetConnection, isAutoDestroyable
<1>2. "CLIENT" \in Kinds
  BY DEF Kinds
<1>3. SoundState("CLIENT", o.st) /\ SoundMode("CLIENT", o.st, o.io)
  BY <1>2, ResetIsSound DEF SoundOutcome
<1>4. Heeded(m, fd, "CLIENT", o.st, o.io)
  BY DEF Heeded, reset, Enter
<1>. HIDE DEF o
<1>5. Kept(m, fd, "CLIENT", r)
  BY <1>1, <1>2, <1>3, <1>4, TrackCnxIoModeKeeps
<1>. QED
  BY <1>5 DEF Survives

\* The outcome r = [m, st, ok] of adding connection fd: it is registered, or
\* the manager is left alone.
Added(m, fd, kind, st, r) ==
    /\ ManagerInv(r.m) /\ SoundState(kind, r.st)
    /\ \A g \in m.reg \ {fd} : r.m.last[g] = m.last[g]
    /\ ToSet(m.svc) \ {fd} \subseteq ToSet(r.m.svc)
    /\ ToSet(r.m.svc) \subseteq ToSet(m.svc) \cup {fd}
    /\ kind = "LISTENER" => ToSet(r.m.svc) \subseteq ToSet(m.svc)
    /\ kind = "SERVER" /\ st = "IDLE" => r.st = "IDLE"
    /\ \/ /\ r.ok /\ fd \in Items \ m.reg /\ r.m.reg = m.reg \cup {fd}
          /\ SameWatch(r.m.last[fd], getIoMode(kind, r.st))
          /\ "ATTENTION" \in getIoMode(kind, r.st) => fd \in ToSet(r.m.svc)
       \/ ~ r.ok /\ r.m = m /\ r.st = st /\ fd \notin Items \ m.reg

\* addConnection() registers the connection or leaves the manager alone.
LEMMA AddConnectionEffect ==
  ASSUME NEW m, ManagerInv(m), NEW fd, NEW kind \in Kinds, NEW up \in BOOLEAN,
         NEW st, SoundState(kind, st), NEW r \in addConnection(m, fd, kind, up, st)
  PROVE  Added(m, fd, kind, st, r)
<1>1. CASE fd \in Items \ m.reg
  <2>. DEFINE n == [m EXCEPT !.reg = @ \cup {fd}, !.last[fd] = {}]
  <2>1. PICK q \in trackCnxIoMode(n, fd, kind, up, st, getIoMode(kind, st)) :
          r = [m |-> q.m, st |-> q.st, ok |-> TRUE]
    BY <1>1 DEF addConnection
  <2>2. /\ m \in ManagerState /\ m.reg \subseteq Items
        /\ m.last \in [Items -> SUBSET IoFlags]
    BY DEF ManagerInv, ManagerState
  <2>3. /\ n \in ManagerState /\ n.reg = m.reg \cup {fd}
        /\ n.last = [m.last EXCEPT ![fd] = {}]
        /\ n.rfds = m.rfds /\ n.wfds = m.wfds
        /\ n.active = m.active /\ n.svc = m.svc
        /\ n.due = m.due /\ n.count = m.count
    BY <1>1, <2>2 DEF ManagerState
  <2>. HIDE DEF n
  <2>4. \A g \in m.reg : n.last[g] = m.last[g]
    BY <1>1, <2>2, <2>3
  <2>5. n.last[fd] = {}
    BY <1>1, <2>2, <2>3
  <2>6. ManagerInv(n)
    <3>1. SoundLists(n)
      BY <2>3 DEF SoundLists, ManagerInv
    <3>. QED
      BY <1>1, <2>3, <2>4, <2>5, <3>1 DEF ManagerInv
  <2>7. SoundMode(kind, st, getIoMode(kind, st)) /\ fd \in n.reg
    BY <2>3, IoModeIsSound DEF SoundState
  <2>a. Heeded(n, fd, kind, st, getIoMode(kind, st))
    BY DEF Heeded
  <2>8. Kept(n, fd, kind, q)
    BY <2>6, <2>7, <2>a, TrackCnxIoModeKeeps
  <2>9. \A g \in m.reg \ {fd} : q.m.last[g] = m.last[g]
    BY <2>3, <2>4, <2>8 DEF Kept
  <2>10. r.m = q.m /\ r.st = q.st /\ r.ok
    BY <2>1
  <2>11. kind = "SERVER" /\ st = "IDLE" => q.st = "IDLE"
    <3>1. "WRITEABLE" \notin getIoMode("SERVER", "IDLE")
      BY DEF getIoMode, TcpIoMode
    <3>. QED
      BY <2>1, <3>1 DEF trackCnxIoMode, FastWrite
  <2>. QED
    BY <1>1, <2>3, <2>8, <2>9, <2>10, <2>11 DEF Kept, Added
<1>2. CASE fd \notin Items \ m.reg
  <2>1. r = [m |-> m, st |-> st, ok |-> FALSE]
    BY <1>2 DEF addConnection
  <2>. QED
    BY <1>2, <2>1 DEF Added
<1>. QED
  BY <1>1, <1>2

\* getNextServiceableConnection() takes the first item out of its list.
LEMMA NextServiceable ==
  ASSUME NEW m, ManagerInv(m), m.svc # << >>
  PROVE  LET n == getNextServiceableConnection(m)
         IN  /\ Head(m.svc) \in m.reg
             /\ ManagerInv(n) /\ n.reg = m.reg /\ n.last = m.last
             /\ ToSet(n.svc) = ToSet(m.svc) \ {Head(m.svc)}
<1>. DEFINE n == getNextServiceableConnection(m)
            tl == Tail(m.svc)
            c == m.count - 1
<1>1. /\ m \in ManagerState /\ m.svc \in Seq(Items) /\ IsInjective(m.svc)
      /\ ToSet(m.svc) \subseteq m.reg
  BY DEF ManagerInv, ManagerState, SoundLists
<1>2. /\ Head(m.svc) \in ToSet(m.svc) /\ tl \in Seq(Items) /\ IsInjective(tl)
      /\ ToSet(tl) = ToSet(m.svc) \ {Head(m.svc)}
  BY <1>1, TailProperties
<1>3. n = [m EXCEPT !.svc = tl, !.count = c]
  BY DEF getNextServiceableConnection
<1>4. c \in Int /\ Len(tl) <= c
  <2>1. m.count \in Int /\ Len(m.svc) <= m.count
    BY DEF ManagerInv, ManagerState, SoundLists
  <2>2. Len(m.svc) \in Nat /\ Len(tl) = Len(m.svc) - 1
    BY <1>1, HeadTailProperties
  <2>. QED
    BY <2>1, <2>2
<1>. HIDE DEF n, tl, c
<1>5. /\ n \in ManagerState /\ n.reg = m.reg /\ n.last = m.last
      /\ n.rfds = m.rfds /\ n.wfds = m.wfds
      /\ n.active = m.active /\ n.svc = tl /\ n.due = m.due /\ n.count = c
  BY <1>1, <1>2, <1>3, <1>4 DEF ManagerState
<1>6. SoundLists(n)
  BY <1>2, <1>4, <1>5 DEF SoundLists, ManagerInv
<1>7. ManagerInv(n)
  BY <1>1, <1>2, <1>5, <1>6 DEF ManagerInv
<1>. QED
  BY <1>1, <1>2, <1>5, <1>7 DEF n

\* Time passing changes due times only.
LEMMA ElapseInv ==
  ASSUME NEW m, ManagerInv(m)
  PROVE  /\ ManagerInv(Elapse(m)) /\ Elapse(m).reg = m.reg
         /\ Elapse(m).last = m.last /\ Elapse(m).svc = m.svc
<1>. DEFINE n == Elapse(m)
            d == [fd \in Items |-> IF m.due[fd] > 0 THEN m.due[fd] - 1 ELSE 0]
<1>1. m \in ManagerState /\ m.due \in [Items -> Nat]
  BY DEF ManagerInv, ManagerState
<1>2. d \in [Items -> Nat]
  BY <1>1
<1>3. n = [m EXCEPT !.due = d]
  BY DEF Elapse
<1>. HIDE DEF n, d
<1>4. /\ n \in ManagerState /\ n.reg = m.reg /\ n.last = m.last
      /\ n.rfds = m.rfds /\ n.wfds = m.wfds
      /\ n.active = m.active /\ n.svc = m.svc
      /\ n.due = d /\ n.count = m.count
  BY <1>1, <1>2, <1>3 DEF ManagerState
<1>5. OrderedBy(n.active, n.due)
  <2>1. /\ OrderedBy(m.active, m.due) /\ DOMAIN m.active = 1 .. Len(m.active)
        /\ \A i \in DOMAIN m.active : m.active[i] \in Items
    BY <1>1 DEF ManagerInv, SoundLists, ManagerState
  <2>2. \A f, g \in Items : m.due[f] <= m.due[g] => d[f] <= d[g]
    BY <1>1 DEF d
  <2>. QED
    BY <1>4, <2>1, <2>2 DEF OrderedBy
<1>6. ManagerInv(n)
  <2>1. SoundLists(n)
    BY <1>4, <1>5 DEF ManagerInv, SoundLists
  <2>. QED
    BY <1>4, <2>1 DEF ManagerInv
<1>. QED
  BY <1>4, <1>6 DEF n

\* The items processTimeout() looks at are registered, and none comes twice.
LEMMA DuePrefixInList ==
  ASSUME NEW m, ManagerInv(m)
  PROVE  /\ DuePrefix(m) \in Seq(Items) /\ IsInjective(DuePrefix(m))
         /\ ToSet(DuePrefix(m)) \subseteq m.reg
<1>. DEFINE late == {i \in DOMAIN m.active : m.due[m.active[i]] > 0}
<1>1. /\ m.active \in Seq(Items) /\ IsInjective(m.active)
      /\ ToSet(m.active) \subseteq m.reg
      /\ Len(m.active) \in Nat /\ DOMAIN m.active = 1 .. Len(m.active)
  BY DEF ManagerInv, ManagerState, SoundLists
<1>2. CASE late = {}
  BY <1>1, <1>2 DEF DuePrefix
<1>3. CASE late # {}
  <2>1. late \subseteq Nat /\ late \subseteq 1 .. Len(m.active)
    BY <1>1
  <2>2. DuePrefix(m) = SubSeq(m.active, 1, Min(late) - 1)
    BY <1>3 DEF DuePrefix
  <2>. HIDE DEF late
  <2>3. Min(late) \in 1 .. Len(m.active)
    BY <1>3, <2>1, MinOfSet
  <2>4. Min(late) - 1 \in 0 .. Len(m.active)
    BY <1>1, <2>3
  <2>5. /\ SubSeq(m.active, 1, Min(late) - 1) \in Seq(Items)
        /\ ToSet(SubSeq(m.active, 1, Min(late) - 1)) \subseteq ToSet(m.active)
        /\ IsInjective(SubSeq(m.active, 1, Min(late) - 1))
    BY <1>1, <2>4, PrefixProperties
  <2>. QED
    BY <1>1, <2>2, <2>5
<1>. QED
  BY <1>2, <1>3

-----------------------------------------------------------------------------
(* The interserver connection and the operations on a connection.          *)

World0 == [m : ManagerState, cs : [FD -> ConnectionState], open : SUBSET FD,
           up : [FD -> BOOLEAN], cfd : FD \cup {NoFd},
           isc : {"CLOSED", "OPEN", "BUSY"}]

\* The kind of connection fd when l is the rendezvous socket.
KindIn(w, l, fd) == CASE fd = l     -> "LISTENER"
                      [] fd = w.cfd -> "CLIENT"
                      [] OTHER      -> "SERVER"

\* The connection with descriptor fd is sound.
SoundConnection(w, l, fd) ==
    /\ SoundState(KindIn(w, l, fd), w.cs[fd])
    /\ SameWatch(w.m.last[fd], getIoMode(KindIn(w, l, fd), w.cs[fd]))
    /\ KindIn(w, l, fd) = "SERVER" /\ "decode" \notin Faults => w.cs[fd] # "DEAD"

\* It waits in the list of serviceable connections if it needs attention.
Waits(w, l, fd) ==
    "ATTENTION" \in getIoMode(KindIn(w, l, fd), w.cs[fd]) => fd \in ToSet(w.m.svc)

\* If every new connection can be set up and put under control of the
\* manager, the open descriptors are those of connection objects.
Sealed(w) ==
    "setup" \notin Faults /\ FD \subseteq Items =>
        w.open = {fd \in FD : w.cs[fd] # "NONE"}

\* Connections, descriptors and manager of world w, with rendezvous socket l;
\* f is a connection that has been taken from the list of serviceable ones.
WorldBut(w, l, f) ==
    /\ w \in World0 /\ l \in FD \cup {NoFd}
    /\ ManagerInv(w.m)
    /\ \A fd \in w.m.reg : SoundConnection(w, l, fd)
    /\ w.m.reg \subseteq w.open
    /\ {l, w.cfd} \subseteq w.open \cup {NoFd}
    /\ l = w.cfd => l = NoFd
    /\ l \notin ToSet(w.m.svc)
    /\ w.isc = "CLOSED" => w.cfd = NoFd
    /\ \A fd \in w.m.reg \ {f} : Waits(w, l, fd)
    /\ Sealed(w)

WorldInv(w, l) == WorldBut(w, l, NoFd)

\* Descriptors are numbers, and NoFd is none of them.
LEMMA DescriptorFacts ==
  /\ FD \subseteq Nat /\ Items \subseteq FD /\ NoFd \notin FD
  BY FdAssumption DEF FD, Items, NoFd

\* A descriptor that is not open can be found when one is left.
LEMMA LowestFreeIsFree ==
  ASSUME NEW openFds \in SUBSET FD, openFds # FD
  PROVE  LowestFree(openFds) \in FD \ openFds
<1>1. FD \ openFds \subseteq Nat /\ FD \ openFds # {}
  BY DescriptorFacts
<1>. QED
  BY <1>1, MinOfSet DEF LowestFree

\* What the kind of a connection says about it.
LEMMA KindFacts ==
  ASSUME NEW w, NEW l, NEW fd
  PROVE  /\ KindIn(w, l, fd) \in Kinds
         /\ fd = l /\ fd # w.cfd => KindIn(w, l, fd) = "LISTENER"
         /\ fd = w.cfd /\ fd # l => KindIn(w, l, fd) = "CLIENT"
         /\ fd \notin {l, w.cfd} <=> KindIn(w, l, fd) = "SERVER"
  BY DEF KindIn, Kinds

\* When all connections wait for the attention they need, all but one do.
LEMMA WorldInvIsWorldBut ==
  ASSUME NEW w, NEW l, WorldInv(w, l), NEW f
  PROVE  WorldBut(w, l, f)
<1>1. w.m.reg \ {f} \subseteq w.m.reg \ {NoFd}
  BY DescriptorFacts DEF WorldInv, WorldBut, ManagerInv, ManagerState
<1>. QED
  BY <1>1 DEF WorldInv, WorldBut

\* World x is world w after operation r on connection fd.
After(w, fd, r, x) ==
    /\ x \in World0 /\ x.m = r.m /\ x.cfd = w.cfd /\ x.isc = w.isc
    /\ x.cs = [w.cs EXCEPT ![fd] = r.st]
    /\ x.open = IF r.st = "NONE" THEN w.open \ {fd} ELSE w.open

\* An operation that keeps or destroys a connection keeps everything sound.
LEMMA EffectKeepsWorld ==
  ASSUME NEW w, NEW l, NEW fd, WorldBut(w, l, fd), fd \in w.m.reg, NEW r, NEW x,
         Survives(w.m, fd, KindIn(w, l, fd), r) \/ Gone(w.m, fd, KindIn(w, l, fd), r),
         After(w, fd, r, x)
  PROVE  WorldInv(x, l)
<1>. DEFINE kind == KindIn(w, l, fd)
<1>1. /\ w \in World0 /\ w.m.reg \subseteq w.open /\ w.cs \in [FD -> ConnectionState]
      /\ w.m.reg \subseteq FD /\ x \in World0 /\ x.m = r.m /\ x.cfd = w.cfd
      /\ NoFd \notin FD /\ x.isc = w.isc
  BY DescriptorFacts DEF WorldBut, World0, After, ManagerInv, ManagerState
<1>2. \A g : KindIn(x, l, g) = KindIn(w, l, g)
  BY <1>1 DEF KindIn
<1>3. ASSUME NEW g \in w.m.reg \ {fd}, r.m.last[g] = w.m.last[g]
      PROVE  SoundConnection(x, l, g)
  <2>1. x.cs[g] = w.cs[g] /\ x.m.last[g] = w.m.last[g]
    BY <1>1, <1>3 DEF After
  <2>2. SoundConnection(w, l, g)
    BY DEF WorldBut
  <2>. QED
    BY <1>2, <2>1, <2>2 DEF SoundConnection
<1>a. ASSUME NEW g \in w.m.reg \ {fd}, r.m.last[g] = w.m.last[g],
             ToSet(w.m.svc) \ {fd} \subseteq ToSet(r.m.svc)
      PROVE  Waits(x, l, g)
  <2>1. x.cs[g] = w.cs[g]
    BY <1>1 DEF After
  <2>2. Waits(w, l, g)
    BY DEF WorldBut
  <2>. QED
    BY <1>1, <1>2, <1>a, <2>1, <2>2 DEF Waits
<1>4. CASE Survives(w.m, fd, kind, r)
  <2>1. ManagerInv(x.m) /\ x.m.reg = w.m.reg /\ x.cs[fd] = r.st /\ x.open = w.open
    BY <1>1, <1>4 DEF Survives, Kept, After, SoundState
  <2>2. SoundConnection(x, l, fd)
    BY <1>1, <1>2, <1>4, <2>1 DEF Survives, Kept, SoundConnection
  <2>3. \A g \in x.m.reg : SoundConnection(x, l, g)
    BY <1>3, <1>4, <2>1, <2>2 DEF Survives, Kept
  <2>4. l \notin ToSet(x.m.svc)
    <3>1. l = fd => kind = "LISTENER"
      BY <1>1, KindFacts DEF WorldBut
    <3>. QED
      BY <1>1, <1>4, <3>1 DEF Survives, Kept, WorldBut
  <2>5. \A g \in x.m.reg : Waits(x, l, g)
    <3>1. Waits(x, l, fd)
      BY <1>1, <1>2, <1>4, <2>1 DEF Survives, Kept, Waits
    <3>. QED
      BY <1>a, <1>4, <2>1, <3>1 DEF Survives, Kept
  <2>6. Sealed(x)
    <3>1. r.st # "NONE" /\ w.cs[fd] # "NONE"
      BY <1>4 DEF Survives, Kept, SoundState, WorldBut, SoundConnection
    <3>. QED
      BY <1>1, <2>1, <3>1 DEF Sealed, WorldBut, After
  <2>. QED
    BY <1>1, <2>1, <2>3, <2>4, <2>5, <2>6 DEF WorldBut, WorldInv
<1>5. CASE Gone(w.m, fd, kind, r)
  <2>1. fd \notin {l, w.cfd}
    BY <1>5, KindFacts DEF Gone
  <2>2. ManagerInv(x.m) /\ x.m.reg = w.m.reg \ {fd} /\ x.open = w.open \ {fd}
    BY <1>1, <1>5 DEF Gone, After
  <2>3. \A g \in x.m.reg : SoundConnection(x, l, g)
    BY <1>3, <1>5, <2>2 DEF Gone
  <2>4. l \notin ToSet(x.m.svc)
    BY <1>1, <1>5, <2>1 DEF Gone, WorldBut
  <2>5. \A g \in x.m.reg : Waits(x, l, g)
    BY <1>a, <1>5, <2>2 DEF Gone
  <2>6. Sealed(x)
    <3>1. x.cs[fd] = "NONE"
      BY <1>1, <1>5 DEF After, Gone
    <3>2. \A g \in FD \ {fd} : x.cs[g] = w.cs[g]
      BY <1>1 DEF After
    <3>. QED
      BY <2>2, <3>1, <3>2 DEF Sealed, WorldBut
  <2>. QED
    BY <1>1, <2>1, <2>2, <2>3, <2>4, <2>5, <2>6 DEF WorldBut, WorldInv
<1>. QED
  BY <1>4, <1>5

\* The macro state of the interserver connection only says whether there is
\* a connection object.
LEMMA IscIsFree ==
  ASSUME NEW w, NEW l, NEW f, WorldBut(w, l, f), NEW s \in {"CLOSED", "OPEN", "BUSY"},
         s = "CLOSED" => w.cfd = NoFd
  PROVE  WorldBut([w EXCEPT !.isc = s], l, f)
<1>. DEFINE x == [w EXCEPT !.isc = s]
<1>1. /\ x \in World0 /\ x.m = w.m /\ x.cs = w.cs /\ x.open = w.open
      /\ x.cfd = w.cfd /\ x.isc = s
  BY DEF WorldBut, World0
<1>. HIDE DEF x
<1>2. \A g : SoundConnection(w, l, g) => SoundConnection(x, l, g)
  BY <1>1 DEF SoundConnection, KindIn
<1>a. (\A g : Waits(w, l, g) => Waits(x, l, g)) /\ (Sealed(w) => Sealed(x))
  BY <1>1 DEF Waits, KindIn, Sealed
<1>3. WorldBut(x, l, f)
  BY <1>1, <1>2, <1>a DEF WorldBut
<1>. QED
  BY <1>3 DEF x

-----------------------------------------------------------------------------
\* closeConnection()
LEMMA CloseKeepsWorld ==
  ASSUME NEW w, NEW l, WorldBut(w, l, w.cfd)
  PROVE  WorldInv(closeConnection(w), l)
<1>1. CASE w.cfd = NoFd
  BY <1>1, IscIsFree DEF closeConnection, WorldInv
<1>2. CASE w.cfd # NoFd
  <2>. DEFINE x == closeConnection(w)
              n == removeConnection(w.m, w.cfd)
  <2>1. /\ w \in World0 /\ w.cfd \in FD /\ w.m.reg \subseteq FD /\ ManagerInv(w.m)
        /\ w.cs \in [FD -> ConnectionState] /\ NoFd \notin FD
    BY <1>2, DescriptorFacts DEF WorldBut, World0, ManagerInv, ManagerState
  <2>2. /\ ManagerInv(n) /\ n.reg = w.m.reg \ {w.cfd} /\ n.last = w.m.last
        /\ ToSet(w.m.svc) \ {w.cfd} \subseteq ToSet(n.svc)
        /\ ToSet(n.svc) \subseteq ToSet(w.m.svc)
    BY <2>1, RemoveConnectionInv
  <2>3. n \in ManagerState
    BY <2>2 DEF ManagerInv
  <2>4. x = [w EXCEPT !.m = n, !.cs = [@ EXCEPT ![w.cfd] = "NONE"],
                      !.open = @ \ {w.cfd}, !.cfd = NoFd, !.isc = "CLOSED"]
    BY <1>2 DEF closeConnection
  <2>. HIDE DEF x, n
  <2>5. /\ x \in World0 /\ x.m = n /\ x.cfd = NoFd /\ x.open = w.open \ {w.cfd}
        /\ x.cs = [w.cs EXCEPT ![w.cfd] = "NONE"]
    BY <2>1, <2>3, <2>4 DEF World0, ConnectionState
  <2>6. ASSUME NEW g \in x.m.reg PROVE SoundConnection(x, l, g) /\ Waits(x, l, g)
    <3>1. g \in w.m.reg /\ g # w.cfd /\ g \in FD
      BY <2>1, <2>2, <2>5
    <3>2. x.cs[g] = w.cs[g] /\ x.m.last[g] = w.m.last[g]
      BY <2>1, <2>2, <2>5, <3>1
    <3>3. KindIn(x, l, g) = KindIn(w, l, g)
      BY <2>1, <2>5, <3>1 DEF KindIn
    <3>4. SoundConnection(w, l, g) /\ Waits(w, l, g)
      BY <3>1 DEF WorldBut
    <3>. QED
      BY <2>2, <2>5, <3>1, <3>2, <3>3, <3>4 DEF SoundConnection, Waits
  <2>a. Sealed(x)
    <3>1. x.cs[w.cfd] = "NONE" /\ \A g \in FD \ {w.cfd} : x.cs[g] = w.cs[g]
      BY <2>1, <2>5
    <3>. QED
      BY <2>5, <3>1 DEF Sealed, WorldBut
  <2>7. WorldInv(x, l)
    BY <2>1, <2>2, <2>5, <2>6, <2>a DEF WorldBut, WorldInv
  <2>. QED
    BY <2>7 DEF x
<1>. QED
  BY <1>1, <1>2

\* World x is world w with a new connection of the given kind, whose
\* addConnection() had the outcome r.
WithNew(w, fd, kind, r, x) ==
    /\ x \in World0 /\ x.m = r.m /\ x.open = w.open \cup {fd}
    /\ x.cfd = IF kind = "CLIENT" THEN fd ELSE w.cfd
    /\ x.isc = IF kind = "CLIENT" THEN "BUSY" ELSE w.isc
    /\ x.cs = IF kind = "CLIENT" \/ r.ok THEN [w.cs EXCEPT ![fd] = r.st] ELSE w.cs

\* A new connection, registered or not, takes a descriptor that was free.
LEMMA NewConnectionKeepsWorld ==
  ASSUME NEW w, NEW l, WorldInv(w, l), NEW fd \in FD \ w.open,
         NEW kind \in {"SERVER", "CLIENT"}, kind = "CLIENT" => w.cfd = NoFd,
         NEW st, kind = "SERVER" => st = "IDLE", NEW r, Added(w.m, fd, kind, st, r),
         NEW x, WithNew(w, fd, kind, r, x)
  PROVE  WorldInv(x, l)
<1>1. /\ w \in World0 /\ w.m.reg \subseteq FD /\ ManagerInv(w.m) /\ fd \notin w.m.reg
      /\ w.cs \in [FD -> ConnectionState] /\ NoFd \notin FD /\ fd \in FD
      /\ kind \in Kinds /\ fd # l /\ fd # w.cfd
  BY DescriptorFacts DEF WorldBut, WorldInv, World0, ManagerInv, ManagerState, Kinds
<1>2. /\ ManagerInv(r.m) /\ SoundState(kind, r.st)
      /\ \A g \in w.m.reg : r.m.last[g] = w.m.last[g]
      /\ ToSet(w.m.svc) \subseteq ToSet(r.m.svc)
      /\ ToSet(r.m.svc) \subseteq ToSet(w.m.svc) \cup {fd}
      /\ kind = "SERVER" => r.st # "DEAD" \/ ~ r.ok
      /\ \/ /\ r.ok /\ r.m.reg = w.m.reg \cup {fd}
            /\ SameWatch(r.m.last[fd], getIoMode(kind, r.st))
            /\ "ATTENTION" \in getIoMode(kind, r.st) => fd \in ToSet(r.m.svc)
         \/ ~ r.ok /\ r.m = w.m /\ fd \notin Items
  <2>1. fd \notin ToSet(w.m.svc)
    BY <1>1 DEF ManagerInv
  <2>. QED
    BY <1>1, <2>1 DEF Added
<1>a. /\ x \in World0 /\ x.m = r.m /\ x.open = w.open \cup {fd}
      /\ x.cfd = IF kind = "CLIENT" THEN fd ELSE w.cfd
      /\ x.isc = IF kind = "CLIENT" THEN "BUSY" ELSE w.isc
      /\ x.cs = IF kind = "CLIENT" \/ r.ok THEN [w.cs EXCEPT ![fd] = r.st] ELSE w.cs
  BY DEF WithNew
<1>3. ASSUME NEW g \in w.m.reg PROVE SoundConnection(x, l, g) /\ Waits(x, l, g)
  <2>1. g # fd /\ x.cs[g] = w.cs[g] /\ x.m.last[g] = w.m.last[g]
    BY <1>1, <1>a, <1>2
  <2>2. KindIn(x, l, g) = KindIn(w, l, g)
    BY <1>1, <1>a, <2>1 DEF KindIn
  <2>3. SoundConnection(w, l, g) /\ Waits(w, l, g)
    BY <1>1 DEF WorldBut, WorldInv
  <2>. QED
    BY <1>2, <1>a, <2>1, <2>2, <2>3 DEF SoundConnection, Waits
<1>4. r.ok => SoundConnection(x, l, fd) /\ Waits(x, l, fd)
  <2>1. KindIn(x, l, fd) = kind
    BY <1>1, <1>a DEF KindIn
  <2>2. r.ok => x.cs[fd] = r.st /\ x.m.last[fd] = r.m.last[fd]
    BY <1>1, <1>a
  <2>. QED
    BY <1>1, <1>a, <1>2, <2>1, <2>2 DEF SoundConnection, Waits
<1>5. \A g \in x.m.reg : SoundConnection(x, l, g) /\ Waits(x, l, g) /\ g \in x.open
  <2>1. w.m.reg \subseteq w.open
    BY DEF WorldBut, WorldInv
  <2>2. x.m.reg = w.m.reg \/ (r.ok /\ x.m.reg = w.m.reg \cup {fd})
    BY <1>a, <1>2
  <2>3. x.open = w.open \cup {fd}
    BY <1>a
  <2>4. \A g \in w.m.reg : SoundConnection(x, l, g) /\ Waits(x, l, g)
    BY <1>3
  <2>. SUFFICES ASSUME NEW g \in x.m.reg
                PROVE  SoundConnection(x, l, g) /\ Waits(x, l, g) /\ g \in x.open
    OBVIOUS
  <2>5. CASE g \in w.m.reg
    BY <2>1, <2>3, <2>4, <2>5
  <2>6. CASE g = fd /\ r.ok
    BY <1>4, <2>3, <2>6
  <2>. QED
    BY <2>2, <2>5, <2>6
<1>6. l \notin ToSet(x.m.svc)
  BY <1>1, <1>a, <1>2 DEF WorldBut, WorldInv
<1>7. /\ {l, x.cfd} \subseteq x.open \cup {NoFd} /\ (l = x.cfd => l = NoFd)
      /\ x.isc = "CLOSED" => x.cfd = NoFd
  BY <1>1, <1>a DEF WorldBut, WorldInv
<1>8. Sealed(x)
  <2>1. r.st # "NONE"
    BY <1>2 DEF SoundState
  <2>2. FD \subseteq Items => x.cs = [w.cs EXCEPT ![fd] = r.st]
    BY <1>1, <1>2, <1>a
  <2>. QED
    BY <1>1, <1>a, <2>1, <2>2 DEF Sealed, WorldInv, WorldBut
<1>. QED
  BY <1>a, <1>2, <1>5, <1>6, <1>7, <1>8 DEF WorldBut, WorldInv

\* open() and openServerConnection()
LEMMA OpenKeepsWorld ==
  ASSUME NEW w, NEW l, WorldInv(w, l), NEW x \in openServerConnection(w)
  PROVE  WorldInv(x, l)
<1>1. CASE x = w
  BY <1>1
<1>2. CASE x # w
  <2>. DEFINE fd == LowestFree(w.open)
  <2>1. /\ w.isc = "CLOSED" /\ w.open # FD
        /\ \E r \in addConnection(w.m, fd, "CLIENT", TRUE, "CONNECTING") :
             x = [m |-> r.m, cs |-> [w.cs EXCEPT ![fd] = r.st],
                  open |-> w.open \cup {fd}, up |-> [w.up EXCEPT ![fd] = TRUE],
                  cfd |-> fd, isc |-> "BUSY"]
    BY <1>2 DEF openServerConnection
  <2>2. w \in World0 /\ w.open \in SUBSET FD /\ ManagerInv(w.m)
    BY DEF WorldInv, WorldBut, World0
  <2>3. fd \in FD \ w.open
    BY <2>1, <2>2, LowestFreeIsFree
  <2>. HIDE DEF fd
  <2>4. PICK r \in addConnection(w.m, fd, "CLIENT", TRUE, "CONNECTING") :
             x = [m |-> r.m, cs |-> [w.cs EXCEPT ![fd] = r.st],
                  open |-> w.open \cup {fd}, up |-> [w.up EXCEPT ![fd] = TRUE],
                  cfd |-> fd, isc |-> "BUSY"]
    BY <2>1
  <2>5. SoundState("CLIENT", "CONNECTING") /\ "CLIENT" \in Kinds
    BY DEF SoundState, ConnectionState, LiveStates, Kinds
  <2>a. TRUE \in BOOLEAN
    OBVIOUS
  <2>b. Added(w.m, fd, "CLIENT", "CONNECTING", r)
    BY <2>2, <2>5, <2>a, AddConnectionEffect
  <2>6. ManagerInv(r.m) /\ SoundState("CLIENT", r.st)
    BY <2>b DEF Added
  <2>7. x \in World0
    BY <2>2, <2>3, <2>4, <2>6 DEF World0, ManagerInv, SoundState
  <2>8. WithNew(w, fd, "CLIENT", r, x)
    BY <2>4, <2>7 DEF WithNew
  <2>9. w.cfd = NoFd
    BY <2>1 DEF WorldInv, WorldBut
  <2>. QED
    BY <2>3, <2>b, <2>8, <2>9, NewConnectionKeepsWorld
<1>. QED
  BY <1>1, <1>2

\* trackConnection() of the interserver connection after its state has been
\* set to st.
LEMMA RetrackKeepsWorld ==
  ASSUME NEW w, NEW l, WorldBut(w, l, w.cfd), NEW st, SoundState("CLIENT", st),
         NEW x \in Retrack([w EXCEPT !.cs = [@ EXCEPT ![w.cfd] = st]])
  PROVE  WorldInv(x, l)
<1>. DEFINE y == [w EXCEPT !.cs = [@ EXCEPT ![w.cfd] = st]]
<1>1. /\ w \in World0 /\ ManagerInv(w.m) /\ w.m.reg \subseteq FD /\ NoFd \notin FD
      /\ w.cs \in [FD -> ConnectionState] /\ w.up \in [FD -> BOOLEAN]
      /\ st \in ConnectionState
  BY DescriptorFacts DEF WorldBut, World0, ManagerInv, ManagerState, SoundState
<1>2. /\ y \in World0 /\ y.m = w.m /\ y.open = w.open /\ y.up = w.up
      /\ y.cfd = w.cfd /\ y.isc = w.isc
      /\ y.cs = [w.cs EXCEPT ![w.cfd] = st]
  BY <1>1 DEF World0
<1>3. x \in Retrack(y)
  OBVIOUS
<1>. HIDE DEF y
<1>4. CASE w.cfd \notin w.m.reg
  <2>1. x = y
    BY <1>2, <1>3, <1>4 DEF Retrack
  <2>2. ASSUME NEW g \in w.m.reg PROVE SoundConnection(x, l, g) /\ Waits(x, l, g)
    <3>1. x.cs[g] = w.cs[g] /\ KindIn(x, l, g) = KindIn(w, l, g)
      BY <1>1, <1>2, <1>4, <2>1 DEF KindIn
    <3>2. SoundConnection(w, l, g) /\ Waits(w, l, g)
      BY <1>4 DEF WorldBut
    <3>. QED
      BY <1>2, <2>1, <3>1, <3>2 DEF SoundConnection, Waits
  <2>3. Sealed(x)
    <3>1. st # "NONE" /\ w.cfd \in w.open \cup {NoFd}
      BY DEF SoundState, WorldBut
    <3>. QED
      BY <1>1, <1>2, <2>1, <3>1 DEF Sealed, WorldBut
  <2>. QED
    BY <1>2, <2>1, <2>2, <2>3 DEF WorldBut, WorldInv
<1>5. CASE w.cfd \in w.m.reg
  <2>. DEFINE fd == w.cfd
  <2>1. fd \in FD /\ fd # l /\ y.cs[fd] = st /\ w.up[fd] \in BOOLEAN
    BY <1>1, <1>2, <1>5 DEF WorldBut
  <2>2. KindIn(w, l, fd) = "CLIENT" /\ "CLIENT" \in Kinds
    BY <2>1, KindFacts DEF Kinds
  <2>a. Retrack(y) = {[y EXCEPT !.m = r.m, !.cs = [@ EXCEPT ![fd] = r.st]] :
                        r \in trackConnection(w.m, fd, "CLIENT", w.up[fd], st)}
    <3>1. /\ y.cfd = fd /\ y.m = w.m /\ y.up = w.up /\ y.cs[fd] = st
          /\ ~(fd \notin w.m.reg)
      BY <1>2, <1>5, <2>1
    <3>. HIDE DEF fd
    <3>. QED
      BY <3>1, Zenon DEF Retrack
  <2>3. PICK r \in trackConnection(w.m, fd, "CLIENT", w.up[fd], st) :
          x = [y EXCEPT !.m = r.m, !.cs = [@ EXCEPT ![fd] = r.st]]
    BY <1>3, <2>a
  <2>4. Survives(w.m, fd, "CLIENT", r) \/ Gone(w.m, fd, "CLIENT", r)
    <3>1. st = "DEAD" => isAutoDestroyable("CLIENT")
      BY DEF SoundState
    <3>. QED
      BY <1>1, <1>5, <2>1, <2>2, <3>1, TrackConnectionEffect
  <2>5. r.m \in ManagerState /\ r.st \in ConnectionState /\ r.st # "NONE"
    BY <2>4 DEF Survives, Kept, Gone, ManagerInv, SoundState
  <2>6. x \in World0 /\ x.m = r.m /\ x.cfd = fd /\ x.isc = w.isc /\ x.open = w.open
        /\ x.cs = [y.cs EXCEPT ![fd] = r.st]
    BY <1>2, <2>3, <2>5 DEF World0
  <2>7. x.cs = [w.cs EXCEPT ![fd] = r.st]
    BY <1>1, <1>2, <2>6
  <2>8. After(w, fd, r, x)
    BY <2>5, <2>6, <2>7 DEF After
  <2>. QED
    BY <1>5, <2>2, <2>4, <2>8, EffectKeepsWorld
<1>. QED
  BY <1>4, <1>5

\* The same without a change of state.
LEMMA RetrackSameKeepsWorld ==
  ASSUME NEW w, NEW l, WorldBut(w, l, w.cfd), NEW x \in Retrack(w)
  PROVE  WorldInv(x, l)
<1>1. CASE w.cfd \notin w.m.reg
  BY <1>1 DEF Retrack, WorldBut, WorldInv
<1>2. CASE w.cfd \in w.m.reg
  <2>1. /\ w \in World0 /\ w.m.reg \subseteq FD /\ NoFd \notin FD
        /\ w.cs \in [FD -> ConnectionState]
    BY DescriptorFacts DEF WorldBut, World0, ManagerInv, ManagerState
  <2>2. w.cfd \in FD /\ w.cfd # l
    BY <1>2, <2>1 DEF WorldBut
  <2>. DEFINE st == w.cs[w.cfd]
  <2>3. SoundState("CLIENT", st)
    <3>1. SoundConnection(w, l, w.cfd) /\ KindIn(w, l, w.cfd) = "CLIENT"
      BY <1>2, <2>2, KindFacts DEF WorldBut
    <3>. QED
      BY <3>1 DEF SoundConnection
  <2>4. [w EXCEPT !.cs = [@ EXCEPT ![w.cfd] = st]] = w
    <3>1. [w.cs EXCEPT ![w.cfd] = st] = w.cs
      BY <2>1, <2>2
    <3>. QED
      BY <2>1, <3>1 DEF World0
  <2>. QED
    BY <2>3, <2>4, RetrackKeepsWorld
<1>. QED
  BY <1>1, <1>2

\* send()
LEMMA SendKeepsWorld ==
  ASSUME NEW w, NEW l, WorldBut(w, l, w.cfd), NEW x \in sendCall(w)
  PROVE  x = w \/ WorldInv(x, l)
<1>1. CASE x = w
  BY <1>1
<1>2. CASE x # w
  <2>1. PICK y \in Retrack([w EXCEPT !.cs = [@ EXCEPT ![w.cfd] = "SENDING"]]) :
          x = [y EXCEPT !.isc = "BUSY"]
    BY <1>2 DEF sendCall
  <2>2. SoundState("CLIENT", "SENDING")
    BY DEF SoundState, ConnectionState, LiveStates
  <2>3. WorldInv(y, l)
    BY <2>2, RetrackKeepsWorld
  <2>. QED
    BY <2>1, <2>3, IscIsFree DEF WorldInv
<1>. QED
  BY <1>1, <1>2

\* receive(): an RPC error leaves everything as it is.
LEMMA ReceiveKeepsWorld ==
  ASSUME NEW w, NEW l, WorldBut(w, l, w.cfd), w.cfd \in w.m.reg, NEW x \in receiveReply(w)
  PROVE  x = w \/ WorldInv(x, l)
<1>. SUFFICES ASSUME x # w PROVE WorldInv(x, l)
  OBVIOUS
<1>1. /\ w \in World0 /\ ManagerInv(w.m) /\ w.m.reg \subseteq FD /\ NoFd \notin FD
      /\ w.up \in [FD -> BOOLEAN] /\ w.cs \in [FD -> ConnectionState]
  BY DescriptorFacts DEF WorldBut, World0, ManagerInv, ManagerState
<1>. DEFINE fd == w.cfd
<1>2. fd \in FD /\ fd # l /\ w.up[fd] \in BOOLEAN
  BY <1>1 DEF WorldBut
<1>3. KindIn(w, l, fd) = "CLIENT" /\ SoundState("CLIENT", w.cs[fd])
  <2>1. KindIn(w, l, fd) = "CLIENT" /\ SoundConnection(w, l, fd)
    BY <1>2, KindFacts DEF WorldBut
  <2>. QED
    BY <2>1 DEF SoundConnection
<1>4. PICK r \in resetConnection(w.m, fd, "CLIENT", w.up[fd], w.cs[fd]) :
        x = [w EXCEPT !.m = r.m, !.cs = [@ EXCEPT ![fd] = r.st]]
  BY DEF receiveReply
<1>5. Survives(w.m, fd, "CLIENT", r)
  BY <1>1, <1>2, <1>3, ResetConnectionKeeps
<1>6. r.m \in ManagerState /\ r.st \in ConnectionState /\ r.st # "NONE"
  BY <1>5 DEF Survives, Kept, ManagerInv, SoundState
<1>7. After(w, fd, r, x)
  BY <1>1, <1>4, <1>6 DEF After, World0
<1>. QED
  BY <1>3, <1>5, <1>7, EffectKeepsWorld

\* The callback closes the connection and may open it again.
LEMMA CloseInCallbackKeepsWorld ==
  ASSUME NEW w, NEW l, WorldBut(w, l, w.cfd), NEW x \in CloseInCallback(w)
  PROVE  WorldInv(x, l)
<1>1. WorldInv(closeConnection(w), l)
  BY CloseKeepsWorld
<1>. QED
  BY <1>1, OpenKeepsWorld DEF CloseInCallback

\* attention()
LEMMA AttentionKeepsWorld ==
  ASSUME NEW w, NEW l, WorldBut(w, l, w.cfd), w.cfd \in w.m.reg, NEW x \in attention(w)
  PROVE  WorldInv(x, l)
<1>. DEFINE opened == [w EXCEPT !.isc = "OPEN"]
<1>1. WorldBut(opened, l, opened.cfd) /\ opened.cfd \in opened.m.reg
  <2>1. opened.cfd = w.cfd /\ opened.m = w.m
    BY DEF WorldBut, World0
  <2>2. WorldBut(opened, l, w.cfd)
    BY IscIsFree
  <2>. HIDE DEF opened
  <2>. QED
    BY <2>1, <2>2
<1>2. x \in CloseInCallback(w) \/ x \in CloseInCallback(opened)
      \/ \E y \in {opened} \cup receiveReply(opened) :
            \E z \in sendCall(y) : x \in Retrack(z)
  BY DEF attention
<1>. HIDE DEF opened
<1>3. ASSUME NEW y \in {opened} \cup receiveReply(opened) PROVE WorldBut(y, l, y.cfd)
  BY <1>1, ReceiveKeepsWorld, WorldInvIsWorldBut
<1>4. ASSUME NEW y \in {opened} \cup receiveReply(opened),
             NEW z \in sendCall(y), x \in Retrack(z)
      PROVE  WorldInv(x, l)
  <2>1. WorldBut(z, l, z.cfd)
    BY <1>3, SendKeepsWorld, WorldInvIsWorldBut
  <2>. QED
    BY <1>4, <2>1, RetrackSameKeepsWorld
<1>. QED
  BY <1>1, <1>2, <1>4, CloseInCallbackKeepsWorld
=============================================================================
