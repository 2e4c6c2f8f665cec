----------------------------- MODULE WordStreams -----------------------------
(***************************************************************************)
(* What the XDR memory streams of a KS server promise (xdrmemstream.h): a  *)
(* stream is written, rewound, and then read or sent from its beginning.   *)
(* Writing may fail for want of memory, after some of the words at most.   *)
(***************************************************************************)
EXTENDS Naturals, Sequences

CONSTANTS
    Streams,
    Words,
    NoStream,
    MaxWords       \* in one operation

VARIABLES
    stream,        \* of each stream: its content, and how much of it was read
    result         \* of the last operation

vars == <<stream, result>>

Telegrams == UNION {[1 .. n -> Words] : n \in 0 .. MaxWords}
Live == {s \in Streams : stream[s] # NoStream}
Result(ok, out) == result' = [ok |-> ok, out |-> out]
Become(s, r) == stream' = [stream EXCEPT ![s] = r]
New == [content |-> <<>>, pos |-> 0, reading |-> FALSE]

Init ==
    /\ stream = [s \in Streams |-> NoStream]
    /\ result = [ok |-> TRUE, out |-> <<>>]

create(s) ==
    \/ s \notin Live /\ Become(s, New) /\ Result(TRUE, <<>>)
    \/ s \notin Live /\ UNCHANGED stream /\ Result(FALSE, <<>>)

destroy(s) == s \in Live /\ Become(s, NoStream) /\ Result(TRUE, <<>>)
clear(s) == s \in Live /\ Become(s, New) /\ Result(TRUE, <<>>)

write(s, ws) ==
    /\ s \in Live /\ ~ stream[s].reading
    /\ \E n \in 0 .. Len(ws), ok \in BOOLEAN :
         /\ ok => n = Len(ws)
         /\ Become(s, [stream[s] EXCEPT !.content = @ \o SubSeq(ws, 1, n)])
         /\ Result(ok, <<>>)

\* Tells the length of the content.
rewind(s) ==
    /\ s \in Live
    /\ Become(s, [stream[s] EXCEPT !.pos = 0, !.reading = TRUE])
    /\ Result(TRUE, <<Len(stream[s].content)>>)

\* The record mark is filled in when the content is complete.
mark(s, w) ==
    /\ s \in Live /\ stream[s].reading /\ stream[s].pos = 0 /\ stream[s].content # <<>>
    /\ Become(s, [stream[s] EXCEPT !.content[1] = w, !.pos = 1])
    /\ Result(TRUE, <<>>)

read(s, n) ==
    /\ s \in Live /\ stream[s].reading
    /\ LET end == stream[s].pos + n
           ok == end <= Len(stream[s].content)
       IN  /\ Become(s, [stream[s] EXCEPT !.pos = IF ok THEN end ELSE Len(stream[s].content)])
           /\ Result(ok, IF ok THEN SubSeq(stream[s].content, stream[s].pos + 1, end) ELSE <<>>)

Next == \E s \in Streams :
    \/ create(s) \/ destroy(s) \/ clear(s) \/ rewind(s)
    \/ \E ws \in Telegrams : write(s, ws)
    \/ \E w \in Words : mark(s, w)
    \/ \E n \in 1 .. MaxWords : read(s, n)

Spec == Init /\ [][Next]_vars
=============================================================================
