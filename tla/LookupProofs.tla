---------------------------- MODULE LookupProofs ----------------------------
(***************************************************************************)
(* The lookup of an interserver connection implements the asynchronous     *)
(* connection its user sees, and never holds more than one connection, for *)
(* all protocol versions and whichever step of it fails.  At the end, the  *)
(* threads of a Windows service (NtService) are shown to take turns in a   *)
(* way that never uses a deleted server.                                   *)
(***************************************************************************)
EXTENDS InterserverLookup, NtService, TLAPS

ConnectionRecord ==
    [protocol : {"UDP", "TCP"}, managed : BOOLEAN,
     st : {"CONNECTING", "CONNECTED", "CONN_FAILED", "SENDING", "READY", "READY_FAILED",
           "PASSIVE"},
     attention : BOOLEAN, rejected : BOOLEAN]

\* A connection is not NoConnection.
LEMMA NoConnectionIsNone == \A c \in ConnectionRecord : c # NoConnection
BY NoConnectionAssumption DEF ConnectionRecord

\* isc, cln_con and sockets between two connections and with one.
LookupRecord ==
    [state : {"CLOSED", "OPEN", "BUSY"}, sub : {"NONE", "PMAP", "MANAGER", "SERVER"},
     version : Nat]
LookupState ==
    [i : LookupRecord, c : ConnectionRecord \cup {NoConnection}, n : Nat]

\* No version above the one that is asked for is known, and the one a server is
\* connected with is known.
RightVersion(i) ==
    /\ \A v \in peer.known : v <= i.version
    /\ i.sub = "SERVER" => i.version \in peer.known

\* A record whose connection was closed, or which has one under way.
Closed(y) == y \in LookupState /\ y.i.state = "CLOSED" /\ y.c = NoConnection /\ y.n = 0
Connected(y) == y \in LookupState /\ y.c # NoConnection /\ y.n = 1

\* Of a request to the server, and only of that, send() is what is reported.
Operation(y) ==
    IF y.i.sub = "SERVER" /\ y.c.st \in {"SENDING", "READY", "READY_FAILED", "PASSIVE"}
    THEN "CALL" ELSE "OPEN"

Busy(y) ==
    /\ Connected(y) /\ y.i.state = "BUSY" /\ y.i.sub # "NONE" /\ RightVersion(y.i)
    /\ y.c.attention => y.c.st \in {"CONNECTED", "CONN_FAILED", "READY", "READY_FAILED"}
    /\ y.c.rejected => y.c.st = "READY"

\* An open connection only asks for attention with an RPC error left in it.
Open(y) ==
    /\ Connected(y) /\ y.i.state = "OPEN" /\ y.i.sub = "SERVER" /\ RightVersion(y.i)
    /\ y.c.attention = y.c.rejected
    /\ y.c.st = IF y.c.rejected THEN "READY" ELSE "CONNECTED"

\* Each macro state has its connection and the operation that is owed to the user.
LookupInv ==
    /\ peer \in [hostPort : BOOLEAN, known : SUBSET PeerVersions]
    /\ callback \in {"NONE", "OPEN", "CALL"}
    /\ \/ Closed(Now) /\ accepted = "NONE"
       \/ Open(Now) /\ accepted = "NONE"
       \/ Busy(Now) /\ accepted = Operation(Now)

\* closeConnection() leaves neither a socket nor a connection behind.
LEMMA CloseCloses ==
    ASSUME NEW y \in LookupState, Closed(y) \/ Connected(y)
    PROVE  /\ Closed(closeConnection(y))
           /\ closeConnection(y).i = [y.i EXCEPT !.state = "CLOSED"]
BY DEF Closed, Connected, closeConnection, LookupState, LookupRecord

\* A further connection is under way, or there is none.
LEMMA OpenOpens ==
    ASSUME LookupInv, NEW y, Closed(y), NEW sub \in {"PMAP", "MANAGER", "SERVER"},
           NEW protocol \in {"UDP", "TCP"}, RightVersion([y.i EXCEPT !.sub = sub]),
           NEW z \in openConnection(y, sub, protocol)
    PROVE  \/ Closed(z)
           \/ Busy(z) /\ z.c.st \in {"CONNECTING", "CONNECTED"}
<1>1. CASE z \in {y, [y EXCEPT !.i.sub = sub]}
  BY <1>1 DEF Closed, LookupState, LookupRecord
<1>2. ASSUME NEW managed \in BOOLEAN,
             z = [i |-> [y.i EXCEPT !.sub = sub, !.state = "BUSY"],
                  c |-> [protocol |-> protocol, managed |-> managed,
                         st |-> IF protocol = "UDP" THEN "CONNECTED" ELSE "CONNECTING",
                         attention |-> protocol = "UDP" /\ managed, rejected |-> FALSE],
                  n |-> y.n + 1]
      PROVE  Busy(z) /\ z.c.st \in {"CONNECTING", "CONNECTED"}
  <2>1. z.c \in ConnectionRecord /\ z.c # NoConnection
    <3>1. (protocol = "UDP" /\ managed) \in BOOLEAN
      OBVIOUS
    <3>2. z.c \in ConnectionRecord
      BY <1>2, <3>1 DEF ConnectionRecord
    <3>3. QED
      BY <3>2, NoConnectionIsNone
  <2>2. /\ z.i.state = "BUSY" /\ z.i.sub = sub /\ z.i.version = y.i.version
        /\ z.i \in LookupRecord
    BY <1>2 DEF Closed, LookupState, LookupRecord
  <2>3. z.n = 1 /\ z = [i |-> z.i, c |-> z.c, n |-> z.n]
    BY <1>2 DEF Closed
  <2>4. z \in LookupState
    BY <2>1, <2>2, <2>3 DEF LookupState, LookupRecord
  <2>5. RightVersion(z.i)
    BY <2>2 DEF RightVersion, Closed, LookupState, LookupRecord
  <2>6. /\ z.c.st \in {"CONNECTING", "CONNECTED"} /\ (z.c.attention => z.c.st = "CONNECTED")
        /\ z.c.rejected = FALSE
    BY <1>2
  <2>7. QED
    BY <2>1, <2>2, <2>3, <2>4, <2>5, <2>6 DEF Busy, Connected
<1>3. QED
  BY <1>1, <1>2 DEF openConnection

\* What a result of attention() may be, when y is owed its operation.
Fits(r, y) ==
    \/ r.op = "NONE" /\ Busy(r.y) /\ Operation(r.y) = Operation(y)
    \/ r.op = Operation(y) /\ Closed(r.y)
    \/ r.op = Operation(y) /\ Open(r.y) /\ (r.y.c.rejected => r.op = "CALL")

\* An operation that fails closes the connection and is reported.
LEMMA FailureFits ==
    ASSUME NEW y, Busy(y) \/ Closed(y), NEW x, Operation(x) = "OPEN"
    PROVE  Fits(Failure(y), x)
BY CloseCloses DEF Fits, Failure, Told, Busy, Closed, Connected

\* A lookup goes on with a further connection, or fails.
LEMMA GoesFits ==
    ASSUME LookupInv, NEW y, Closed(y), NEW sub \in {"PMAP", "MANAGER", "SERVER"},
           NEW protocol \in {"UDP", "TCP"}, RightVersion([y.i EXCEPT !.sub = sub]),
           NEW x, Operation(x) = "OPEN",
           NEW r \in Goes(openConnection(y, sub, protocol))
    PROVE  Fits(r, x)
<1>1. PICK z \in openConnection(y, sub, protocol) :
        r = IF z.i.state = "BUSY" THEN Silent(z) ELSE Failure(z)
  BY DEF Goes
<1>2. Closed(z) \/ (Busy(z) /\ z.c.st \in {"CONNECTING", "CONNECTED"})
  BY OpenOpens
<1>3. CASE Closed(z)
  BY <1>1, <1>3, FailureFits DEF Closed
<1>4. CASE Busy(z) /\ z.c.st \in {"CONNECTING", "CONNECTED"}
  BY <1>1, <1>4 DEF Fits, Silent, Told, Operation, Busy
<1>5. QED
  BY <1>2, <1>3, <1>4

\* openFirst() asks the portmapper, or the manager when its port is given.
LEMMA OpenFirstIs ==
    ASSUME NEW y
    PROVE  openFirst(y) = openConnection(y, "MANAGER", "TCP")
           \/ openFirst(y) = openConnection(y, "PMAP", "UDP")
BY DEF openFirst

-----------------------------------------------------------------------------
\* The cases of attention().

\* The connection failed, or the answer did not come.
LEMMA ConnectionFailedFits ==
    ASSUME LookupInv, NEW y, Busy(y), y.c.st \in {"CONN_FAILED", "READY_FAILED"},
           NEW r \in ConnectionFailed(y)
    PROVE  Fits(r, y)
<1>1. /\ r.y = closeConnection(y)
      /\ r.op = IF y.c.st = "READY_FAILED" /\ y.i.sub = "SERVER" THEN "CALL" ELSE "OPEN"
  BY DEF ConnectionFailed, Told
<1>2. Closed(r.y)
  BY <1>1, CloseCloses DEF Busy, Connected
<1>3. r.op = Operation(y)
  BY <1>1 DEF Operation
<1>4. QED
  BY <1>2, <1>3 DEF Fits

\* The request of a lookup is sent.
LEMMA SendingFits ==
    ASSUME NEW y, Busy(y), y.i.sub # "SERVER", y.c.attention = FALSE
    PROVE  /\ y.c.st = "CONNECTED" => Fits(Silent(Sending(y)), y)
           /\ Operation(y) = "OPEN"
<1> DEFINE z == Sending(y)
<1>1. y.c \in ConnectionRecord
  BY DEF Busy, Connected, LookupState, LookupRecord
<1>2. z.i = y.i /\ z.n = y.n /\ z.c = [y.c EXCEPT !.st = "SENDING"]
  BY DEF Sending, Busy, Connected, LookupState, LookupRecord
<1>3. z.c \in ConnectionRecord /\ z.c # NoConnection
  BY <1>1, <1>2, NoConnectionIsNone DEF ConnectionRecord
<1>4. z \in LookupState
  BY <1>2, <1>3 DEF Sending, Busy, Connected, LookupState, LookupRecord
<1>5. z.c.attention = FALSE /\ z.c.rejected = y.c.rejected
  BY <1>1, <1>2 DEF ConnectionRecord
<1> HIDE DEF z
<1>6. /\ y.c.st = "CONNECTED" => Busy(z) /\ Operation(z) = "OPEN"
      /\ Operation(y) = "OPEN"
  BY <1>2, <1>3, <1>4, <1>5 DEF Busy, Connected, Operation
<1>7. QED
  BY <1>6 DEF z, Fits, Silent, Told

\* The answer of the portmapper.
LEMMA PortmapperFits ==
    ASSUME LookupInv, NEW y, Busy(y), y.i.sub = "PMAP", y.c.attention = FALSE,
           NEW r \in PortmapperAttention(y)
    PROVE  Fits(r, y)
<1>1. /\ y.c.st = "CONNECTED" => Fits(Silent(Sending(y)), y)
      /\ Operation(y) = "OPEN"
  BY SendingFits
<1>2. Fits(Failure(y), y)
  BY <1>1, FailureFits
<1> DEFINE x == closeConnection(y)
<1>3. Closed(x) /\ x.i = [y.i EXCEPT !.state = "CLOSED"]
  BY CloseCloses DEF Busy, Connected
<1>4. RightVersion([x.i EXCEPT !.sub = "MANAGER"])
  BY <1>3 DEF RightVersion, Busy, Connected, LookupState, LookupRecord
<1> HIDE DEF x
<1>5. \A q \in Goes(openConnection(x, "MANAGER", "UDP")) : Fits(q, y)
  BY <1>1, <1>3, <1>4, GoesFits
<1>6. QED
  BY <1>1, <1>2, <1>5 DEF PortmapperAttention, x

\* A lower version is asked for only when the present one is not known.
LEMMA ManagerFits ==
    ASSUME LookupInv, NEW y, Busy(y), y.i.sub = "MANAGER", y.c.attention = FALSE,
           NEW r \in ManagerAttention(y)
    PROVE  Fits(r, y)
<1>1. /\ y.c.st = "CONNECTED" => Fits(Silent(Sending(y)), y)
      /\ Operation(y) = "OPEN"
  BY SendingFits
<1>2. Fits(Failure(y), y)
  BY <1>1, FailureFits
<1>3. CASE y.i.version \in peer.known
  <2> DEFINE x == closeConnection(y)
  <2>1. Closed(x) /\ x.i = [y.i EXCEPT !.state = "CLOSED"]
    BY CloseCloses DEF Busy, Connected
  <2>2. RightVersion([x.i EXCEPT !.sub = "SERVER"])
    BY <1>3, <2>1 DEF RightVersion, Busy, Connected, LookupState, LookupRecord
  <2> HIDE DEF x
  <2>3. \A q \in Goes(openConnection(x, "SERVER", "TCP")) : Fits(q, y)
    BY <1>1, <2>1, <2>2, GoesFits
  <2>4. QED
    BY <1>1, <1>2, <1>3, <2>3 DEF ManagerAttention, x
<1>4. CASE y.i.version \notin peer.known
  <2> DEFINE lower == y.i.version - 1
             w == [y EXCEPT !.i.version = lower]
             x == closeConnection(w)
  <2>1. SUFFICES ASSUME lower >= KS_MINPROTOCOL_VERSION, r \in Goes(openFirst(x))
                 PROVE  Fits(r, y)
    BY <1>1, <1>2, <1>4 DEF ManagerAttention
  <2>2. lower \in Nat /\ y.i.version \in Nat
    BY <2>1, VersionsAssumption DEF Busy, Connected, LookupState, LookupRecord
  <2>3. /\ w.i = [y.i EXCEPT !.version = lower] /\ w.c = y.c /\ w.n = y.n
        /\ w \in LookupState
    BY <2>2 DEF Busy, Connected, LookupState, LookupRecord
  <2>4. Connected(w)
    BY <2>3 DEF Busy, Connected
  <2> HIDE DEF w
  <2>5. Closed(x) /\ x.i = [w.i EXCEPT !.state = "CLOSED"]
    BY <2>3, <2>4, CloseCloses
  <2>6. \A v \in peer.known : v <= lower
    <3>1. \A v \in peer.known : v \in Nat /\ v <= y.i.version /\ v # y.i.version
      BY <1>4, VersionsAssumption DEF LookupInv, PeerVersions, Busy, RightVersion
    <3>2. QED
      BY <3>1, <2>2
  <2>7. \A sub \in {"PMAP", "MANAGER"} : RightVersion([x.i EXCEPT !.sub = sub])
    BY <2>3, <2>5, <2>6 DEF RightVersion, LookupState, LookupRecord
  <2> HIDE DEF x
  <2>8. \/ r \in Goes(openConnection(x, "MANAGER", "TCP"))
        \/ r \in Goes(openConnection(x, "PMAP", "UDP"))
    BY <2>1, OpenFirstIs
  <2>9. QED
    BY <1>1, <2>5, <2>7, <2>8, GoesFits
<1>5. QED
  BY <1>3, <1>4

\* The connection to the server itself.
LEMMA ServerFits ==
    ASSUME LookupInv, NEW y, Busy(y), y.i.sub = "SERVER", y.c.attention = FALSE,
           y.c.st \in {"CONNECTED", "READY"}, NEW r \in ServerAttention(y)
    PROVE  Fits(r, y)
<1> DEFINE z == r.y
<1>1. y.c \in ConnectionRecord /\ y \in LookupState
  BY DEF Busy, Connected, LookupState, LookupRecord
<1> DEFINE opened == [y EXCEPT !.i.state = "OPEN"]
<1>2. /\ opened.i = [y.i EXCEPT !.state = "OPEN"] /\ opened.n = y.n /\ opened.c = y.c
      /\ opened = [i |-> opened.i, c |-> opened.c, n |-> opened.n]
  BY <1>1 DEF LookupState
<1>3. z = CASE y.c.st = "CONNECTED" -> opened
            [] y.c.st = "READY" /\ ~ y.c.rejected -> [opened EXCEPT !.c.st = "CONNECTED"]
            [] OTHER -> [opened EXCEPT !.c.attention = TRUE]
  BY DEF ServerAttention, Told
<1> HIDE DEF opened, z
<1>4. /\ z.i = [y.i EXCEPT !.state = "OPEN"] /\ z.n = y.n
       /\ z = [i |-> z.i, c |-> z.c, n |-> z.n]
       /\ z.c = CASE y.c.st = "CONNECTED" -> y.c
                  [] y.c.st = "READY" /\ ~ y.c.rejected -> [y.c EXCEPT !.st = "CONNECTED"]
                  [] OTHER -> [y.c EXCEPT !.attention = TRUE]
  <2>1. CASE y.c.st = "CONNECTED"
    BY <1>2, <1>3, <2>1
  <2>2. CASE y.c.st = "READY" /\ ~ y.c.rejected
    BY <1>2, <1>3, <2>2
  <2>3. CASE y.c.st = "READY" /\ y.c.rejected
    BY <1>2, <1>3, <2>3
  <2>4. QED
    BY <2>1, <2>2, <2>3
<1>5. r.op = IF y.c.st = "CONNECTED" THEN "OPEN" ELSE "CALL"
  BY DEF ServerAttention, Told
<1>6. /\ z.c \in ConnectionRecord /\ z.c # NoConnection
      /\ z.c.rejected = y.c.rejected /\ z.c.attention = z.c.rejected
      /\ z.c.st = IF z.c.rejected THEN "READY" ELSE "CONNECTED"
  <2>1. y.c.rejected => y.c.st = "READY"
    BY DEF Busy
  <2>2. z.c \in ConnectionRecord
    BY <1>1, <1>4 DEF ConnectionRecord
  <2>3. /\ z.c.rejected = y.c.rejected /\ z.c.attention = z.c.rejected
        /\ z.c.st = IF z.c.rejected THEN "READY" ELSE "CONNECTED"
    BY <1>1, <1>4, <2>1 DEF ConnectionRecord
  <2>4. QED
    BY <2>2, <2>3, NoConnectionIsNone
<1>7. z.i \in LookupRecord
      /\ z.i.state = "OPEN" /\ z.i.sub = "SERVER" /\ z.i.version = y.i.version
  BY <1>1, <1>4 DEF LookupState, LookupRecord
<1>8. z \in LookupState
  BY <1>1, <1>4, <1>6, <1>7 DEF LookupState
<1>9. Open(z)
  BY <1>4, <1>6, <1>7, <1>8 DEF Open, Connected, Busy, RightVersion
<1>10. r.op = Operation(y) /\ (z.c.rejected => r.op = "CALL")
  <2>1. y.c.rejected => y.c.st = "READY"
    BY DEF Busy
  <2>2. QED
    BY <1>5, <1>6, <2>1 DEF Operation
<1>11. QED
  BY <1>9, <1>10 DEF Fits, z

-----------------------------------------------------------------------------
\* One step of the proof for every action: the invariant, and a step of Async.

\* The next state is what the operator says.
LEMMA BecomesIs ==
    ASSUME NEW y \in LookupState, Becomes(y)
    PROVE  Now' = y
BY DEF Becomes, Now, LookupState, LookupRecord

\* At first there is no connection.
LEMMA LookupInitially == LookupInit => LookupInv /\ Async!Init
<1> SUFFICES ASSUME LookupInit PROVE LookupInv /\ Async!Init
  OBVIOUS
<1>1. Closed(Now)
  BY DEF LookupInit, Closed, Now, LookupState, LookupRecord
<1>2. QED
  BY <1>1 DEF LookupInit, LookupInv, Async!Init, toReport

\* The user opens the connection.
LEMMA OpenStep ==
    ASSUME LookupInv, open
    PROVE  LookupInv' /\ [Async!Next]_(Async!vars)
<1> DEFINE w == [Now EXCEPT !.i.version = KS_PROTOCOL_VERSION]
<1>1. PICK y \in openFirst(w) :
        /\ Becomes(y)
        /\ accepted' = IF y.i.state = "BUSY" THEN "OPEN" ELSE accepted
  BY DEF open
<1>2. Closed(Now) /\ accepted = "NONE"
  BY DEF LookupInv, open, Now, Open, Busy
<1>3. Closed(w) /\ w.i = [isc EXCEPT !.version = KS_PROTOCOL_VERSION]
  BY <1>2, VersionsAssumption DEF Closed, LookupState, LookupRecord, Now
<1>4. \A sub \in {"PMAP", "MANAGER"} : RightVersion([w.i EXCEPT !.sub = sub])
  BY <1>2, <1>3, VersionsAssumption
     DEF RightVersion, Closed, LookupState, LookupRecord, Now, LookupInv, PeerVersions
<1> HIDE DEF w
<1>5. y \in openConnection(w, "MANAGER", "TCP") \/ y \in openConnection(w, "PMAP", "UDP")
  BY <1>1, OpenFirstIs
<1>6. Closed(y) \/ (Busy(y) /\ y.c.st \in {"CONNECTING", "CONNECTED"})
  BY <1>3, <1>4, <1>5, OpenOpens
<1>7. Now' = y /\ isc' = y.i
  BY <1>1, <1>6, BecomesIs DEF Closed, Busy, Connected, Becomes
<1>8. peer' = peer /\ callback' = callback /\ isc.state = "CLOSED"
  BY DEF open
<1>9. CASE Closed(y)
  <2>1. Closed(Now)' /\ accepted' = "NONE"
    BY <1>1, <1>2, <1>7, <1>9 DEF Closed
  <2>2. QED
    BY <2>1, <1>1, <1>7, <1>8, <1>9 DEF LookupInv, Async!vars, Closed, toReport
<1>10. CASE Busy(y) /\ y.c.st \in {"CONNECTING", "CONNECTED"}
  <2>1. Busy(Now)' /\ accepted' = "OPEN" /\ Operation(Now)' = "OPEN" /\ isc'.state = "BUSY"
    BY <1>1, <1>7, <1>8, <1>10 DEF Busy, Connected, RightVersion, Operation
  <2>2. LookupInv'
    BY <2>1, <1>8 DEF LookupInv
  <2>3. Async!open
    BY <2>1, <1>8 DEF Async!open, toReport
  <2>4. QED
    BY <2>2, <2>3 DEF Async!Next
<1>11. QED
  BY <1>6, <1>9, <1>10

\* The user sends a request.
LEMMA SendStep ==
    ASSUME LookupInv, send
    PROVE  LookupInv' /\ [Async!Next]_(Async!vars)
<1>1. Open(Now) /\ isc.state = "OPEN" /\ cln_con \in ConnectionRecord
  BY DEF LookupInv, send, Now, Closed, Open, Busy, Connected, LookupState, LookupRecord
<1> DEFINE y == [Now EXCEPT !.i.state = "BUSY", !.c.st = "SENDING", !.c.attention = FALSE,
                            !.c.rejected = FALSE]
<1>2. y.i = [isc EXCEPT !.state = "BUSY"] /\ y.n = sockets /\ Becomes(y)
  BY DEF Now, send
<1>3. /\ y.c \in ConnectionRecord /\ y.c # NoConnection
      /\ y.c.st = "SENDING" /\ y.c.attention = FALSE /\ y.c.rejected = FALSE
  <2>1. y.c \in ConnectionRecord
    BY <1>1 DEF Now, ConnectionRecord
  <2>2. y.c.st = "SENDING" /\ y.c.attention = FALSE /\ y.c.rejected = FALSE
    BY <1>1 DEF Now, ConnectionRecord
  <2>3. QED
    BY <2>1, <2>2, NoConnectionIsNone
<1>4. y \in LookupState
  <2>1. isc \in LookupRecord /\ sockets \in Nat
    BY <1>1 DEF Now, Open, Busy, Connected, LookupState, LookupRecord
  <2>2. QED
    BY <1>1, <2>1 DEF Now, LookupState, LookupRecord, ConnectionRecord
<1> HIDE DEF y
<1>5. y.i.state = "BUSY" /\ y.i.sub = "SERVER" /\ y.i.version = isc.version /\ y.n = 1
  BY <1>1, <1>2 DEF Open, Connected, LookupState, LookupRecord, Now
<1>7. Now' = y /\ isc' = y.i
  BY <1>2, <1>4, BecomesIs DEF Becomes
<1>8. peer' = peer /\ callback' = callback /\ accepted' = "CALL"
  BY DEF send
<1>9. Busy(Now)' /\ Operation(Now)' = "CALL"
  BY <1>1, <1>3, <1>4, <1>5, <1>7, <1>8
     DEF Busy, Connected, Open, RightVersion, Operation, Now
<1>10. LookupInv'
  BY <1>8, <1>9 DEF LookupInv
<1>11. Async!send
  BY <1>1, <1>5, <1>7, <1>8 DEF Async!send, toReport
<1>12. QED
  BY <1>10, <1>11 DEF Async!Next

\* The user closes the connection.
LEMMA CloseStep ==
    ASSUME LookupInv, close
    PROVE  LookupInv' /\ [Async!Next]_(Async!vars)
<1>1. Closed(closeConnection(Now))
  BY CloseCloses DEF LookupInv, Closed, Open, Busy, Connected
<1>2. Now' = closeConnection(Now) /\ isc' = closeConnection(Now).i
  BY <1>1, BecomesIs DEF close, Closed, Becomes
<1>3. Closed(Now)' /\ isc'.state = "CLOSED"
  BY <1>1, <1>2 DEF Closed
<1>4. LookupInv'
  BY <1>3 DEF LookupInv, close
<1>5. Async!close
  BY <1>3 DEF close, Async!close, toReport
<1>6. QED
  BY <1>4, <1>5 DEF Async!Next

\* What comes of the connection does not change what is owed.
LEMMA ProgressStep ==
    ASSUME LookupInv, Progress
    PROVE  LookupInv' /\ [Async!Next]_(Async!vars)
<1>1. PICK st \in Outcomes(cln_con), rejected \in BOOLEAN :
        /\ rejected => st = "READY"
        /\ Becomes([Now EXCEPT !.c.st = st, !.c.attention = st # "PASSIVE",
                               !.c.rejected = rejected])
  BY DEF Progress
<1>2. /\ cln_con.st \in {"CONNECTING", "SENDING"}
      /\ cln_con.st = "CONNECTING" => st \in {"CONNECTED", "CONN_FAILED"}
      /\ cln_con.st = "SENDING" => st \in {"READY", "READY_FAILED", "PASSIVE"}
  BY <1>1 DEF Outcomes
<1>3. Busy(Now) /\ accepted = Operation(Now) /\ cln_con \in ConnectionRecord
  BY <1>2 DEF LookupInv, Progress, Now, Closed, Open, Busy, Connected, LookupState, LookupRecord
<1> DEFINE y == [Now EXCEPT !.c.st = st, !.c.attention = st # "PASSIVE",
                            !.c.rejected = rejected]
<1>4. y.i = isc /\ y.n = sockets /\ Becomes(y)
  BY <1>1 DEF Now
<1>5. /\ y.c \in ConnectionRecord /\ y.c # NoConnection
      /\ y.c.st = st /\ (y.c.attention => st # "PASSIVE")
      /\ y.c.rejected = rejected
  <2>1. y.c \in ConnectionRecord
    BY <1>2, <1>3 DEF Now, ConnectionRecord
  <2>2. y.c.st = st /\ (y.c.attention => st # "PASSIVE") /\ y.c.rejected = rejected
    BY <1>2, <1>3 DEF Now, ConnectionRecord
  <2>3. QED
    BY <2>1, <2>2, NoConnectionIsNone
<1>6. y \in LookupState
  <2>1. isc \in LookupRecord /\ sockets \in Nat
    BY <1>3 DEF Now, Open, Busy, Connected, LookupState, LookupRecord
  <2>2. QED
    BY <1>2, <1>3, <2>1 DEF Now, LookupState, LookupRecord, ConnectionRecord
<1> HIDE DEF y
<1>7. Now' = y /\ isc' = isc
  BY <1>4, <1>6, BecomesIs DEF Becomes
<1>8. peer' = peer /\ callback' = callback /\ accepted' = accepted
  BY DEF Progress
<1>9. Busy(Now)' /\ Operation(Now)' = Operation(Now) /\ isc.state = "BUSY"
  BY <1>1, <1>2, <1>3, <1>4, <1>5, <1>6, <1>7, <1>8
     DEF Busy, Connected, RightVersion, Operation, Now
<1>10. QED
  BY <1>3, <1>7, <1>8, <1>9 DEF LookupInv, Async!vars, toReport

\* The client connection asks for attention.
LEMMA AttentionStep ==
    ASSUME LookupInv, attention
    PROVE  LookupInv' /\ [Async!Next]_(Async!vars)
<1> DEFINE y == [Now EXCEPT !.c.attention = FALSE]
<1>1. /\ \/ Busy(Now) /\ accepted = Operation(Now)
         \/ Open(Now) /\ accepted = "NONE"
      /\ cln_con \in ConnectionRecord
      /\ cln_con.attention = TRUE
  <2>1. cln_con # NoConnection /\ cln_con.attention /\ Now.c = cln_con
    BY DEF attention, Now
  <2>2. ~ Closed(Now)
    BY <2>1 DEF Closed
  <2>3. \/ Busy(Now) /\ accepted = Operation(Now)
        \/ Open(Now) /\ accepted = "NONE"
    BY <2>2 DEF LookupInv
  <2>4. cln_con \in ConnectionRecord
    BY <2>1, <2>3 DEF Open, Busy, Connected, LookupState
  <2>5. cln_con.attention \in BOOLEAN
    BY <2>4 DEF ConnectionRecord
  <2>6. QED
    BY <2>1, <2>3, <2>4, <2>5
<1>2. y.i = isc /\ y.n = sockets
  BY DEF Now
<1>3. /\ y.c \in ConnectionRecord /\ y.c # NoConnection
      /\ y.c = [cln_con EXCEPT !.attention = FALSE]
  <2>1. y.c \in ConnectionRecord
    BY <1>1 DEF Now, ConnectionRecord
  <2>2. y.c = [cln_con EXCEPT !.attention = FALSE]
    BY <1>1 DEF Now, ConnectionRecord
  <2>3. QED
    BY <2>1, <2>2, NoConnectionIsNone
<1>4. y \in LookupState
  <2>1. Now \in LookupState
    BY <1>1 DEF Open, Busy, Connected
  <2>2. isc \in LookupRecord /\ sockets \in Nat
    BY <2>1 DEF Now, LookupState
  <2>3. QED
    BY <1>1, <2>2 DEF Now, LookupState, LookupRecord, ConnectionRecord
<1> HIDE DEF y
<1>5. PICK r : /\ \/ /\ y.c.st \in {"CONN_FAILED", "READY_FAILED"}
                     /\ r \in ConnectionFailed(y)
                  \/ /\ y.c.st \notin {"CONN_FAILED", "READY_FAILED"}
                     /\ \/ y.i.sub = "PMAP" /\ r \in PortmapperAttention(y)
                        \/ y.i.sub = "MANAGER" /\ r \in ManagerAttention(y)
                        \/ y.i.sub = "SERVER" /\ r \in ServerAttention(y)
               /\ Becomes(r.y) /\ callback' = r.op
               /\ accepted' = IF r.op = accepted THEN "NONE" ELSE accepted
  <2>1. y.i.sub \in {"PMAP", "MANAGER", "SERVER"}
    BY <1>1, <1>2 DEF Busy, Open, Connected, LookupState, LookupRecord, Now
  <2>2. QED
    BY <2>1 DEF attention, y
<1>6. peer' = peer /\ callback = "NONE"
  BY DEF attention
<1>7. CASE Busy(Now) /\ accepted = Operation(Now)
  <2>1. /\ isc.state = "BUSY"
        /\ y.c.st = cln_con.st /\ y.c.attention = FALSE /\ y.c.rejected = cln_con.rejected
        /\ y.c.st \in {"CONNECTED", "CONN_FAILED", "READY", "READY_FAILED"}
    BY <1>1, <1>3, <1>7 DEF Busy, Now, ConnectionRecord
  <2>2. Busy(y) /\ accepted = Operation(y) /\ accepted \in {"OPEN", "CALL"}
    BY <1>2, <1>3, <1>4, <1>7, <2>1 DEF Busy, Connected, RightVersion, Operation, Now
  <2>3. Fits(r, y)
    BY <1>5, <2>1, <2>2, ConnectionFailedFits, PortmapperFits, ManagerFits, ServerFits
  <2>4. Now' = r.y /\ isc' = r.y.i /\ cln_con' = r.y.c
    BY <1>5, <2>3, BecomesIs DEF Fits, Busy, Closed, Open, Connected, Becomes
  <2>5. CASE r.op = "NONE" /\ Busy(r.y) /\ Operation(r.y) = Operation(y)
    <3>1. /\ Busy(Now)' /\ accepted' = accepted /\ callback' = "NONE"
          /\ Operation(Now)' = Operation(y) /\ isc'.state = "BUSY"
      BY <1>5, <1>6, <2>2, <2>4, <2>5 DEF Busy, Connected, RightVersion, Operation
    <3>2. LookupInv'
      BY <3>1, <2>2, <1>6 DEF LookupInv
    <3>3. UNCHANGED Async!vars
      BY <3>1, <1>6, <2>1 DEF Async!vars, toReport
    <3>4. QED
      BY <3>2, <3>3
  <2>6. CASE r.op = Operation(y) /\ Closed(r.y)
    <3>1. Closed(Now)' /\ accepted' = "NONE" /\ callback' = accepted /\ isc'.state = "CLOSED"
      BY <1>5, <2>2, <2>4, <2>6 DEF Closed
    <3>2. LookupInv'
      BY <3>1, <2>2, <1>6 DEF LookupInv
    <3>3. Async!async_attention(accepted)
      BY <3>1, <1>6, <2>1 DEF Async!async_attention, toReport
    <3>4. QED
      BY <3>2, <3>3, <2>2 DEF Async!Next
  <2>7. CASE r.op = Operation(y) /\ Open(r.y) /\ (r.y.c.rejected => r.op = "CALL")
    <3>1. /\ Open(Now)' /\ accepted' = "NONE" /\ callback' = accepted
          /\ isc'.state = "OPEN" /\ (cln_con'.rejected => accepted = "CALL")
      BY <1>5, <1>6, <2>2, <2>4, <2>7 DEF Open, Connected, RightVersion
    <3>2. LookupInv'
      BY <3>1, <2>2, <1>6 DEF LookupInv
    <3>3. Async!async_attention(accepted)
      BY <3>1, <1>6, <2>1 DEF Async!async_attention, toReport
    <3>4. QED
      BY <3>2, <3>3, <2>2 DEF Async!Next
  <2>8. QED
    BY <2>3, <2>5, <2>6, <2>7 DEF Fits
\* An RPC error is left in the connection: it is reported once more.
<1>8. CASE Open(Now) /\ accepted = "NONE"
  <2>1. /\ isc.state = "OPEN" /\ isc.sub = "SERVER"
        /\ cln_con.rejected /\ cln_con.st = "READY"
    BY <1>1, <1>8 DEF Open, Now, ConnectionRecord
  <2>2. y.c.st = "READY" /\ y.c.rejected /\ y.i = isc
    BY <1>1, <1>2, <1>3, <2>1 DEF ConnectionRecord
  <2>3. r = Told("CALL", [[y EXCEPT !.i.state = "OPEN"] EXCEPT !.c.attention = TRUE])
    BY <1>5, <2>1, <2>2 DEF ServerAttention
  <2>4. r.op = "CALL" /\ r.y.i = isc /\ r.y.c = cln_con /\ r.y.n = sockets
    <3>1. y = [i |-> isc, c |-> y.c, n |-> sockets] /\ isc \in LookupRecord
      BY <1>2, <1>4 DEF LookupState
    <3>2. r.op = "CALL" /\ r.y.i = [isc EXCEPT !.state = "OPEN"] /\ r.y.n = sockets
          /\ r.y.c = [y.c EXCEPT !.attention = TRUE]
      <4> DEFINE opened == [y EXCEPT !.i.state = "OPEN"]
      <4>1. opened = [i |-> [isc EXCEPT !.state = "OPEN"], c |-> y.c, n |-> sockets]
        BY <3>1
      <4>2. r = Told("CALL", [opened EXCEPT !.c.attention = TRUE])
        BY <2>3
      <4> HIDE DEF opened
      <4>3. QED
        BY <4>1, <4>2 DEF Told
    <3>3. [isc EXCEPT !.state = "OPEN"] = isc
      BY <2>1, <3>1 DEF LookupRecord
    <3>4. [y.c EXCEPT !.attention = TRUE] = cln_con
      <4>1. cln_con = [cln_con EXCEPT !.attention = TRUE]
        BY <1>1, Zenon DEF ConnectionRecord
      <4>2. [y.c EXCEPT !.attention = TRUE] = [cln_con EXCEPT !.attention = TRUE]
        BY <1>1, <1>3 DEF ConnectionRecord
      <4>3. QED
        BY <4>1, <4>2
    <3>5. QED
      BY <3>2, <3>3, <3>4
  <2>5. isc' = isc /\ cln_con' = cln_con /\ sockets' = sockets
    BY <1>5, <2>4 DEF Becomes
  <2>6. callback' = "CALL" /\ accepted' = accepted
    BY <1>5, <1>8, <2>4
  <2>7. LookupInv'
    BY <1>6, <1>8, <2>5, <2>6 DEF LookupInv, Now, Closed, Open, Busy, Connected, RightVersion
  <2>8. Async!again
    BY <1>6, <2>1, <2>5, <2>6 DEF Async!again, toReport
  <2>9. QED
    BY <2>7, <2>8 DEF Async!Next
<1>9. QED
  BY <1>1, <1>7, <1>8

\* The call of the user returns.
LEMMA CallReturnsStep ==
    ASSUME LookupInv, CallReturns
    PROVE  LookupInv' /\ [Async!Next]_(Async!vars)
<1>1. LookupInv'
  BY DEF LookupInv, CallReturns, Now, Closed, Open, Busy, Connected, RightVersion,
         Operation
<1>2. Async!returns
  BY DEF CallReturns, Async!returns, toReport
<1>3. QED
  BY <1>1, <1>2 DEF Async!Next

\* Every step.
LEMMA LookupStep ==
    LookupInv /\ [LookupNext]_lookupVars => LookupInv' /\ [Async!Next]_(Async!vars)
<1> SUFFICES ASSUME LookupInv, [LookupNext]_lookupVars
             PROVE  LookupInv' /\ [Async!Next]_(Async!vars)
  OBVIOUS
<1>1. CASE UNCHANGED lookupVars
  BY <1>1 DEF lookupVars, LookupInv, Now, Closed, Open, Busy, Connected, RightVersion,
              Operation, Async!vars, toReport
<1>2. QED
  BY <1>1, OpenStep, SendStep, CloseStep, ProgressStep, AttentionStep, CallReturnsStep
     DEF LookupNext

\* The macro state, the connection and the operation owed to the user agree.
THEOREM LookupIsConsistent == LookupSpec => []LookupInv
<1>1. QED
  BY LookupInitially, LookupStep, PTL DEF LookupSpec

\* Every operation of an interserver connection that was accepted is reported as
\* what it was, and none after close(); it is reported once, but a call that ended
\* in an RPC error again and again until the user closes the connection or sends
\* (attention() and receive() in interserver.cpp).
THEOREM LookupIsAsyncConnection == LookupSpec => IsAsyncConnection
<1>1. QED
  BY LookupInitially, LookupStep, LookupIsConsistent, PTL
     DEF LookupSpec, IsAsyncConnection, Async!Spec

\* A lookup leaves no connection behind, and an open connection is to a server of
\* the highest protocol version by which the manager knows it.
THEOREM TheRightConnection == LookupSpec => []TheOneConnectionIsRight
<1>1. LookupInv => TheOneConnectionIsRight
  BY DEF LookupInv, TheOneConnectionIsRight, Closed, Open, Busy, Connected, RightVersion,
         Now
<1>2. QED
  BY <1>1, LookupIsConsistent, PTL

-----------------------------------------------------------------------------
\* The threads of NtService

\* The controller owes nobody anything; neither does anybody else.
Attentive == controller.at \in {"idle", "look"}
Quiet == Attentive /\ ~ one_shot /\ ~ service_done

\* The server is made; then it is started, which nobody disturbs.
Made ==
    /\ serviceMain \in {"create", "begin", "failed"} /\ serviceRun.at = "none"
    /\ dwCurrentState = "START_PENDING" /\ controller.at = "idle" /\ Quiet
    /\ _my_server # "deleted" /\ (serviceMain = "begin" => _my_server = "idle")
BeingStarted ==
    /\ serviceMain \in {"report", "wait"} /\ Quiet
    /\ serviceRun.at \in {"spinup", "report", "start", "started", "run"}
    /\ _my_server = IF serviceRun.at \in {"started", "run"} THEN "started" ELSE "idle"
    /\ dwCurrentState \in {"START_PENDING", "CONTINUE_PENDING", "RUNNING"}
    /\ serviceRun.at = "report" =>
          serviceRun.state \in {"START_PENDING", "CONTINUE_PENDING", "RUNNING"}
    /\ serviceRun.at = "run" => dwCurrentState = "RUNNING"

\* It runs until a request is carried out that is reported as pending.
Running ==
    /\ serviceRun.at = "running" /\ _my_server = "started"
    /\ ~ one_shot /\ ~ service_done
    /\ \/ /\ serviceMain \in {"report", "wait"} /\ Attentive /\ ~ shutdown_flag
          /\ dwCurrentState = "RUNNING"
       \/ /\ serviceMain = "wait" /\ dwCurrentState \in {"PAUSE_PENDING", "STOP_PENDING"}
          /\ \/ controller.at = "down" /\ ~ shutdown_flag
             \/ Attentive /\ shutdown_flag
BeingStopped ==
    /\ serviceMain = "wait" /\ Quiet
    /\ serviceRun.at \in {"spindown", "reportdown", "stop", "down", "done"}
    /\ _my_server = IF serviceRun.at \in {"down", "done"} THEN "idle" ELSE "started"
    /\ dwCurrentState \in {"PAUSE_PENDING", "STOP_PENDING"}
    /\ serviceRun.at = "reportdown" => serviceRun.state = dwCurrentState
    /\ serviceRun.at = "done" => dwCurrentState = "STOP_PENDING"

\* While the workhorse sleeps at most one event is owed to somebody.
Sleeping ==
    /\ serviceRun.at = "sleep" /\ _my_server = "idle"
    /\ \/ serviceMain = "wait" /\ dwCurrentState = "PAUSED" /\ Quiet
       \/ /\ serviceMain = "wait" /\ dwCurrentState = "CONTINUE_PENDING" /\ ~ service_done
          /\ \/ controller.at = "shot" /\ ~ one_shot
             \/ Attentive /\ one_shot
       \/ /\ serviceMain = "wait" /\ dwCurrentState = "STOP_PENDING" /\ ~ one_shot
          /\ \/ controller.at = "done" /\ ~ service_done
             \/ Attentive /\ service_done
       \/ serviceMain = "terminate" /\ dwCurrentState = "STOP_PENDING" /\ Quiet
Ending ==
    /\ serviceMain \in {"delete", "stopped", "ended"} /\ serviceRun.at = "terminated"
    /\ dwCurrentState \in {"STOP_PENDING", "STOPPED"} /\ Quiet

\* The service is in one of these phases, in which the three threads and what the
\* service manager was told belong together.
ServiceInv ==
    /\ shutdown_flag \in BOOLEAN /\ one_shot \in BOOLEAN /\ service_done \in BOOLEAN
    /\ controller \in [at : {"idle", "look", "down", "done", "shot"},
                       request : ServiceRequests \cup {"none"}]
    /\ Made \/ BeingStarted \/ Running \/ BeingStopped \/ Sleeping \/ Ending

\* A new service: the server object is still to be made (serviceMain()).
LEMMA ServiceInitially == ServiceInit => ServiceInv
<1> SUFFICES ASSUME ServiceInit PROVE ServiceInv
  OBVIOUS
<1>1. /\ shutdown_flag \in BOOLEAN /\ one_shot \in BOOLEAN /\ service_done \in BOOLEAN
      /\ ~ one_shot /\ ~ service_done
  BY ZenonT(10) DEF ServiceInit
<1>2. controller \in [at : {"idle", "look", "down", "done", "shot"},
                     request : ServiceRequests \cup {"none"}]
  BY DEF ServiceInit, NoControl
<1>3. Made
  BY <1>1 DEF ServiceInit, Made, Attentive, Quiet, Standing, NoControl
<1>4. QED
  BY <1>1, <1>2, <1>3 DEF ServiceInv

\* The thread that makes and deletes the server object.
LEMMA MainKeepsServiceInv == ServiceInv /\ MainStep => ServiceInv'
<1> SUFFICES ASSUME ServiceInv, MainStep PROVE ServiceInv'
  OBVIOUS
<1> USE DEF ServiceInv, Made, BeingStarted, Running, BeingStopped, Sleeping, Ending,
            Attentive, Quiet, reportServiceStatus, Standing, myServerVars, signalVars
<1>1. CASE mainCreates
  BY <1>1 DEF mainCreates, MainGoes
<1>2. CASE mainBegins
  BY <1>2 DEF mainBegins, MainGoes
<1>3. CASE mainReports
  BY <1>3 DEF mainReports, MainGoes
<1>4. CASE mainWaits
  BY <1>4 DEF mainWaits, MainGoes
<1>5. CASE mainTerminates
  BY <1>5 DEF mainTerminates, MainGoes
<1>6. CASE mainDeletes
  BY <1>6 DEF mainDeletes, MainGoes
<1>7. CASE mainEnds
  BY <1>7 DEF mainEnds, MainGoes
<1>8. QED
  BY <1>1, <1>2, <1>3, <1>4, <1>5, <1>6, <1>7 DEF MainStep

\* The workhorse: nobody ends the server but serviceController().
LEMMA RunKeepsServiceInv == ~ StopsByItself /\ ServiceInv /\ RunStep => ServiceInv'
<1> SUFFICES ASSUME ~ StopsByItself, ServiceInv, RunStep PROVE ServiceInv'
  OBVIOUS
<1> USE DEF ServiceInv, Made, BeingStarted, Running, BeingStopped, Sleeping, Ending,
            Attentive, Quiet, reportServiceStatus, Standing, myServerVars, signalVars
<1>1. CASE ReadState("spinup", "report")
  BY <1>1 DEF ReadState
<1>2. CASE WriteState("report", "start")
  BY <1>2 DEF WriteState, RunGoes
<1>3. CASE runStarts
  BY <1>3 DEF runStarts, RunGoes
<1>4. CASE runReports
  BY <1>4 DEF runReports, RunGoes
<1>5. CASE runResets
  BY <1>5 DEF runResets, RunGoes
<1>6. CASE runEnds
  BY <1>6 DEF runEnds, RunGoes
<1>7. CASE ReadState("spindown", "reportdown")
  BY <1>7 DEF ReadState
<1>8. CASE WriteState("reportdown", "stop")
  BY <1>8 DEF WriteState, RunGoes
<1>9. CASE runStops
  BY <1>9 DEF runStops, RunGoes
<1>10. CASE runReportsDown
  BY <1>10 DEF runReportsDown, RunGoes
<1>11. CASE runSignals
  BY <1>11 DEF runSignals, RunGoes
<1>12. CASE runWakes
  BY <1>12 DEF runWakes, RunGoes
<1>13. QED
  BY <1>1, <1>2, <1>3, <1>4, <1>5, <1>6, <1>7, <1>8, <1>9, <1>10, <1>11, <1>12
     DEF RunStep

\* The service manager, which asks only a server that is up or down.
LEMMA ControlKeepsServiceInv ==
    ASSUME ~ EarlyControls, ServiceInv,
           ControlStep \/ \E r \in ServiceRequests : controlArrives(r)
    PROVE  ServiceInv'
<1> USE DEF ServiceInv, Made, BeingStarted, Running, BeingStopped, Sleeping, Ending,
            Attentive, Quiet, reportServiceStatus, Standing, myServerVars, signalVars
<1>1. CASE controlLooks
  BY <1>1 DEF controlLooks, ControllerGoes, UpOrDown, ControlAnswer
<1>2. CASE controlDowns
  BY <1>2 DEF controlDowns, ControllerGoes, UpOrDown, NoControl
<1>3. CASE controlSignals
  BY <1>3 DEF controlSignals, ControllerGoes, NoControl
<1>4. CASE \E r \in ServiceRequests : controlArrives(r)
  BY <1>4 DEF controlArrives, ControllerGoes, UpOrDown
<1>5. QED
  BY <1>1, <1>2, <1>3, <1>4 DEF ControlStep

\* The server object of a Windows service is not used after it was deleted, and its
\* workhorse is terminated only while it sleeps with the server stopped, however the
\* three threads take turns (serviceMain(), serviceRun() and serviceController() in
\* ntservice.cpp).
THEOREM ServiceStaysSafe ==
    ASSUME ~ EarlyControls, ~ StopsByItself
    PROVE  ServiceSpec => []ServerIsSafe
<1>1. ServiceInv /\ [ServiceNext]_serviceVars => ServiceInv'
  <2>1. ServiceInv /\ UNCHANGED serviceVars => ServiceInv'
    BY DEF serviceVars, ServiceInv, Made, BeingStarted, Running, BeingStopped, Sleeping,
           Ending, Attentive, Quiet
  <2>2. QED
    BY <2>1, MainKeepsServiceInv, RunKeepsServiceInv, ControlKeepsServiceInv DEF ServiceNext
<1>2. ServiceInv => ServerIsSafe
  BY DEF ServiceInv, ServerIsSafe, Made, BeingStarted, Running, BeingStopped, Sleeping,
         Ending, Attentive, Quiet
<1>3. QED
  BY <1>1, <1>2, ServiceInitially, PTL DEF ServiceSpec
=============================================================================
