----------------------------- MODULE TcpRecords -----------------------------
(***************************************************************************)
(* How KssTCPXDRConnection (xdrtcpcon.cpp) puts RPC messages on a byte     *)
(* stream and takes them from it: each message is a record of fragments,   *)
(* and each fragment is preceded by a mark that tells its length and       *)
(* whether it is the last.  A client connection and the connection that    *)
(* was accepted for it are modelled, with the byte streams between them.   *)
(* Every word is transmitted in two halves, so that reads and writes may   *)
(* end within a mark.                                                      *)
(***************************************************************************)
EXTENDS Integers, Sequences, SequencesExt

CONSTANTS
    MaxCalls,          \* bound on the requests of the client
    MaxFragments,      \* bound on the fragments of a request
    ServerTimesOut,    \* whether the server gives up on a request or a reply
    NoMemory,          \* whether the fragment pool may be exhausted
    Undecodable        \* whether requests may be sent that cannot be decoded

ASSUME RecordsAssumption == MaxCalls \in Nat /\ MaxFragments \in Nat \ {0}

VARIABLES
    con,               \* of each end: its connection, see Fresh
    wire,              \* of each end: the halves on their way to it
    requested,         \* the requests that were sent and can be decoded
    arrived            \* the requests the server has presented to be served

recordVars == <<con, wire, requested, arrived>>

Ends == {"CLIENT", "SERVER"}
Other(e) == IF e = "CLIENT" THEN "SERVER" ELSE "CLIENT"

\* A word of the call with that number: a mark, or part of a message.
Word(is, n) == [is |-> is, n |-> n]
Mark(len, last) == [is |-> "mark", n |-> 0, len |-> len, last |-> last]
Halves(ws) == [i \in 1 .. 2 * Len(ws) |-> [word |-> ws[(i + 1) \div 2], half |-> (i + 1) % 2]]
Whole(hs) ==
    /\ Len(hs) % 2 = 0
    /\ \A i \in 1 .. Len(hs) : hs[i].half = (i + 1) % 2
    /\ \A i \in 1 .. Len(hs) \div 2 : hs[2 * i - 1].word = hs[2 * i].word
WordsOf(hs) == [i \in 1 .. Len(hs) \div 2 |-> hs[2 * i].word]

Request(n, args) == <<Word("xid", n), Word("CALL", n)>> \o [i \in 1 .. args |-> Word("arg", n)]
Garbage(n) == <<Word("xid", n), Word("junk", n)>>
Reply(n) == <<Word("xid", n), Word("REPLY", n), Word("result", n)>>

\* xdrDecode() of the header; a client also compares the transaction ids.
Decodes(e, x) ==
    LET ws == WordsOf(x.xdrs)
    IN  /\ Whole(x.xdrs) /\ Len(ws) >= 2 /\ ws[1].is = "xid"
        /\ IF e = "SERVER" THEN ws[2].is = "CALL" ELSE ws[2].is = "REPLY" /\ ws[1].n = x.xid

\* _fragment_state, _remaining_len, _fragment_header and _last_fragment, with an
\* empty stream.
HeaderNext(x) == [x EXCEPT !.fragment = "HEADER", !.remaining = 2, !.header = <<>>]
Cleared(x) == HeaderNext([x EXCEPT !.xdrs = <<>>])

Fresh(state) ==
    [state |-> state, fragment |-> "HEADER", remaining |-> 2, header |-> <<>>, last |-> FALSE,
     xdrs |-> <<>>, xid |-> 0]

RecordsInit ==
    /\ con = [e \in Ends |-> Fresh(IF e = "CLIENT" THEN "CONNECTED" ELSE "IDLE")]
    /\ wire = [e \in Ends |-> <<>>]
    /\ requested = <<>> /\ arrived = <<>>

Become(e, x) == con' = [con EXCEPT ![e] = x]
Failed(e, x) == [x EXCEPT !.state = IF e = "CLIENT" THEN "READY_FAILED" ELSE "DEAD"]
Gone(e) == con[e].state \in {"DEAD", "CLOSED"}

\* enterSendingState(): the first word of the stream becomes the mark.
EnterSending(x, ws) ==
    [x EXCEPT !.state = "SENDING", !.fragment = "BODY", !.remaining = 2 * Len(ws),
              !.xdrs = Halves(<<Mark(Len(ws) - 1, TRUE)>> \o Tail(ws))]
Room == Word("room", 0)

-----------------------------------------------------------------------------
\* Receiving

\* The marks that those two halves are taken for; when they do not belong
\* together, there is no telling.
MarksOf(hs) ==
    IF Whole(hs) /\ hs[1].word.is = "mark" THEN {hs[1].word}
    ELSE {Mark(len, last) : len \in 0 .. 1, last \in BOOLEAN}

\* Slip: an empty fragment ends the header, last or not.
AfterHeader_Empty(x, m) ==
    LET y == [x EXCEPT !.last = m.last, !.remaining = 2 * m.len]
    IN  IF m.len > 0 THEN [y EXCEPT !.fragment = "BODY"] ELSE [y EXCEPT !.last = TRUE]

\* The mark is complete.  An empty fragment is followed by another mark, unless
\* it is the last.
AfterHeader(x, m) ==
    LET y == [x EXCEPT !.last = m.last, !.remaining = 2 * m.len]
    IN  IF m.len > 0 THEN [y EXCEPT !.fragment = "BODY"]
        ELSE IF m.last THEN y ELSE HeaderNext(y)

\* Results of reading up to n halves of a mark.
ReadHeader(x, hs) ==
    LET y == [x EXCEPT !.header = @ \o hs, !.remaining = @ - Len(hs)]
    IN  IF y.remaining > 0 THEN {y} ELSE {AfterHeader(y, m) : m \in MarksOf(y.header)}

ReadBody(x, hs) ==
    LET y == [x EXCEPT !.xdrs = @ \o hs, !.remaining = @ - Len(hs)]
    IN  IF y.remaining = 0 /\ ~ y.last THEN HeaderNext(y) ELSE y

\* The record is complete: the header is decoded.  The error reply a server
\* sends when that fails is encoded without room for the mark.
Received(e, x) ==
    IF ~ x.last \/ x.remaining > 0 THEN [x EXCEPT !.state = "RECEIVING"]
    ELSE IF Decodes(e, x) THEN [x EXCEPT !.state = "READY"]
    ELSE IF e = "CLIENT" THEN [x EXCEPT !.state = "READY_FAILED"]
    ELSE LET n == IF x.xdrs = <<>> THEN 0 ELSE x.xdrs[1].word.n
         IN  EnterSending(x, <<Word("xid", n), Word("REPLY", n)>>)

Least(a, b) == IF a < b THEN a ELSE b

\* ENOMEM: reset(), which kills a connection that was receiving.
Exhausted(e, y) ==
    IF NoMemory /\ y.fragment = "BODY"
    THEN {IF e = "CLIENT" \/ y.state = "RECEIVING" THEN Failed(e, Cleared(y)) ELSE Cleared(y)}
    ELSE {}

\* receive(): when n halves have arrived, they are taken for the rest of the
\* mark first, then for what it announces.
receive(e, n) ==
    LET x == con[e]
        k == IF x.fragment = "HEADER" THEN Least(x.remaining, n) ELSE 0
        afterMark == IF k = 0 THEN {x} ELSE ReadHeader(x, SubSeq(wire[e], 1, k))
    IN  /\ x.state \in {"IDLE", "WAITING", "RECEIVING"}
        /\ n \in 1 .. Len(wire[e])
        /\ \E y \in afterMark :
             LET m == IF y.fragment = "BODY" THEN Least(y.remaining, n - k) ELSE 0
                 body == IF m = 0 THEN y ELSE ReadBody(y, SubSeq(wire[e], k + 1, k + m))
             IN  /\ \E z \in {Received(e, body)} \cup Exhausted(e, y) : Become(e, z)
                 /\ wire' = [wire EXCEPT ![e] = SubSeq(@, k + m + 1, Len(@))]
                 /\ arrived' = IF e = "SERVER" /\ con'[e].state = "READY"
                               THEN Append(arrived, WordsOf(con'[e].xdrs)) ELSE arrived
    /\ UNCHANGED requested

\* The other end has closed the connection.
receiveEnd(e) ==
    /\ con[e].state \in {"IDLE", "WAITING", "RECEIVING"}
    /\ wire[e] = <<>> /\ Gone(Other(e))
    /\ Become(e, Failed(e, con[e]))
    /\ UNCHANGED <<wire, requested, arrived>>

-----------------------------------------------------------------------------
\* Sending

\* send(): the system takes n halves; then a server waits for a request, a client
\* for the reply.
send(e, n) ==
    LET x == con[e]
        sent == Len(x.xdrs) - x.remaining
    IN  /\ x.state = "SENDING" /\ n \in 1 .. x.remaining /\ ~ Gone(Other(e))
        /\ wire' = [wire EXCEPT ![Other(e)] = @ \o SubSeq(x.xdrs, sent + 1, sent + n)]
        /\ Become(e, IF n < x.remaining THEN [x EXCEPT !.remaining = @ - n]
                     ELSE [Cleared(x) EXCEPT
                             !.state = IF e = "CLIENT" THEN "WAITING" ELSE "IDLE"])
        /\ UNCHANGED <<requested, arrived>>

sendFails(e) ==
    /\ con[e].state = "SENDING" /\ Gone(Other(e))
    /\ Become(e, Failed(e, con[e]))
    /\ UNCHANGED <<wire, requested, arrived>>

\* A foreign client may send a request in more than one fragment, also in empty
\* ones: cut[i] is how many of the words the first i fragments have.
Cuts(len) ==
    {cut \in UNION {[1 .. f -> 0 .. len] : f \in 1 .. MaxFragments} :
       /\ cut[Len(cut)] = len
       /\ \A i, k \in 1 .. Len(cut) : i < k => cut[i] <= cut[k]}

Before(cut, i) == IF i = 1 THEN 0 ELSE cut[i - 1]

\* Fragment i is the i-th mark and then its words.
Fragmented(ws, cut) ==
    [p \in 1 .. Len(ws) + Len(cut) |->
       LET i == CHOOSE i \in 1 .. Len(cut) : p \in Before(cut, i) + i .. cut[i] + i
       IN  IF p = Before(cut, i) + i THEN Mark(cut[i] - Before(cut, i), i = Len(cut))
           ELSE ws[p - i]]

\* beginRequest(), sendRequest(), also after the reply was read and reset() was
\* called.
sendRequest ==
    LET x == con["CLIENT"]
        n == x.xid + 1
    IN  /\ x.state \in {"CONNECTED", "READY"} /\ n <= MaxCalls
        /\ \E ws \in {Request(n, 0), Request(n, 1)} \cup
                     (IF Undecodable THEN {Garbage(n)} ELSE {}) :
             /\ \E cut \in Cuts(Len(ws)) :
                  Become("CLIENT",
                    LET y == EnterSending([x EXCEPT !.xid = n], <<Room>> \o ws)
                        hs == Halves(Fragmented(ws, cut))
                    IN  [y EXCEPT !.xdrs = hs, !.remaining = Len(hs)])
             /\ requested' = IF ws = Garbage(n) THEN requested ELSE Append(requested, ws)
        /\ UNCHANGED <<wire, arrived>>

\* dispatch(), sendReply(): the reply can be encoded.
sendReply ==
    LET x == con["SERVER"]
    IN  /\ x.state = "READY"
        /\ Become("SERVER", EnterSending(x, <<Room>> \o Reply(WordsOf(x.xdrs)[1].n)))
        /\ UNCHANGED <<wire, requested, arrived>>

\* Slip: a client connection may be used again after it has timed out.
timedOut_Usable(e) ==
    LET x == con[e]
    IN  /\ x.state \in {"SENDING", "WAITING", "RECEIVING"}
        /\ e = "SERVER" => ServerTimesOut
        /\ Become(e, [Cleared(x) EXCEPT
                        !.state = IF e = "CLIENT" THEN "CONNECTED" ELSE "IDLE"])
        /\ UNCHANGED <<wire, requested, arrived>>

\* timedOut(): a server connection becomes idle, whatever it was doing.
timedOut(e) ==
    LET x == con[e]
    IN  /\ x.state \in {"SENDING", "WAITING", "RECEIVING"}
        /\ e = "SERVER" => ServerTimesOut
        /\ Become(e, [Cleared(x) EXCEPT
                        !.state = IF e = "CLIENT" THEN "READY_FAILED" ELSE "IDLE"])
        /\ UNCHANGED <<wire, requested, arrived>>

\* The owner of a client connection closes it when it has failed, or at will.
close ==
    /\ con["CLIENT"].state \in {"READY_FAILED", "READY", "CONNECTED"}
    /\ Become("CLIENT", [con["CLIENT"] EXCEPT !.state = "CLOSED"])
    /\ UNCHANGED <<wire, requested, arrived>>

RecordsNext ==
    \/ sendRequest \/ sendReply \/ close
    \/ \E e \in Ends :
         \/ receiveEnd(e) \/ sendFails(e) \/ timedOut(e)
         \/ \E n \in 1 .. Len(wire[e]) : receive(e, n)
         \/ \E n \in 1 .. Len(con[e].xdrs) : send(e, n)

RecordsSpec == RecordsInit /\ [][RecordsNext]_recordVars

-----------------------------------------------------------------------------
\* Properties

\* A connection that waits for a record finds a mark next: the fragment automaton
\* is never reset in the middle of a record, so that it can receive new data.
FramingIsKept ==
    \A e \in Ends :
        con[e].state \in {"IDLE", "WAITING"} /\ wire[e] # <<>> =>
            Head(wire[e]).word.is = "mark" /\ Head(wire[e]).half = 0

\* The server serves the requests that were sent, whole, in their order, none
\* twice and none made of parts of others: wherever the stream is cut into reads
\* and fragments, and whenever the client gives up.  And the reply a client is
\* presented is the whole reply to its last request.
RecordsArriveWhole ==
    /\ FramingIsKept
    /\ IsPrefix(arrived, requested)
    /\ con["CLIENT"].state = "READY" =>
          WordsOf(con["CLIENT"].xdrs) = Reply(con["CLIENT"].xid)
=============================================================================
