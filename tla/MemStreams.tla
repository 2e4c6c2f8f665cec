----------------------------- MODULE MemStreams -----------------------------
(***************************************************************************)
(* The XDR memory streams of xdrmemstream.cpp: each is a chain of          *)
(* fragments of a fixed size from a common pool, which keeps the free ones *)
(* and has a quota.  The unit is the XDR word.  A pointer is the number of *)
(* a fragment in its chain, 0 when it is null.                             *)
(***************************************************************************)
EXTENDS Naturals, Sequences, FiniteSets

CONSTANTS
    Streams,
    Words,
    NoStream,
    MaxWords,            \* bound on the words of one operation
    MemStreamBufferSize, FragmentQuota, FragmentWatermark, FreePercentage

FragmentStates == [words : Seq(Words), used : Nat]
StreamStates == [chain : Seq(FragmentStates), current : Nat, handy : Nat, decode : BOOLEAN,
                 length : Nat, fragment_count : Nat]

ASSUME MemAssumption ==
    /\ MemStreamBufferSize \in Nat \ {0} /\ MaxWords \in Nat
    /\ FragmentQuota \in Nat /\ FragmentWatermark \in Nat /\ FreePercentage \in 0 .. 100
    /\ NoStream \notin StreamStates \cup [content : Seq(Words), reading : BOOLEAN, pos : Nat]

VARIABLES
    fragments,     \* count, free: FragmentCount and FreeFragmentCount
    xdrs,          \* of each stream: chain, current, handy, decode, length, fragment_count
    xdrResult      \* of the last operation

memVars == <<fragments, xdrs, xdrResult>>

Telegrams == UNION {[1 .. n -> Words] : n \in 0 .. MaxWords}
Fragment == [words |-> <<>>, used |-> MemStreamBufferSize]

\* The operations take what they change: the pool p, the stream x and whether
\* all went well so far.
At(s) == [p |-> fragments, x |-> xdrs[s], ok |-> TRUE, out |-> <<>>]
Then(s, y) ==
    /\ fragments' = y.p
    /\ xdrs' = [xdrs EXCEPT ![s] = y.x]
    /\ xdrResult' = [ok |-> y.ok, out |-> IF y.ok THEN y.out ELSE <<>>]

\* AllocateMemoryStreamFragment(): a free fragment or else a new one.
Taken(p) == IF p.free > 0 THEN [p EXCEPT !.free = @ - 1] ELSE [p EXCEPT !.count = @ + 1]

Extended(x) == [x EXCEPT !.chain = Append(@, Fragment), !.current = Len(x.chain) + 1,
                         !.handy = MemStreamBufferSize, !.fragment_count = @ + 1]

Allocate(y) ==
    IF y.p.free = 0 /\ y.p.count >= FragmentQuota THEN [y EXCEPT !.ok = FALSE]
    ELSE [y EXCEPT !.p = Taken(@), !.x = Extended(@)]

\* Slip: a fragment that was freed is still counted as in use.
Free_Lost(p, n) == p

Free(p, n) == [p EXCEPT !.free = @ + n]

Blank == [chain |-> <<>>, current |-> 0, handy |-> 0, decode |-> FALSE,
          length |-> 0, fragment_count |-> 0]

create(s) ==
    /\ xdrs[s] = NoStream
    /\ LET y == Allocate([At(s) EXCEPT !.x = Blank])
       IN  Then(s, IF y.ok THEN y ELSE [y EXCEPT !.x = NoStream])

destroy(s) ==
    /\ xdrs[s] # NoStream
    /\ Then(s, [At(s) EXCEPT !.x = NoStream, !.p = Free(@, Len(xdrs[s].chain))])

\* The first fragment is kept.
Cleared(x) == [x EXCEPT !.chain = <<Fragment>>, !.current = 1, !.handy = MemStreamBufferSize,
                        !.decode = FALSE, !.fragment_count = 1]

clear(s) ==
    /\ xdrs[s] # NoStream
    /\ Then(s, [At(s) EXCEPT !.p = Free(@, Len(xdrs[s].chain) - 1), !.x = Cleared(@)])

Stored(x, w) == [x EXCEPT !.chain[x.current].words = Append(@, w), !.handy = @ - 1]

\* MemStreamPutLong(), also one turn of MemStreamPutBytes(); nothing more is
\* written after a failure.
PutLong(y, w) ==
    LET z == IF y.ok /\ y.x.handy = 0 THEN Allocate(y) ELSE y
    IN  IF ~ z.ok THEN z
        ELSE [z EXCEPT !.x = Stored(@, w)]

Puts(y, ws) ==
    LET put[i \in 0 .. Len(ws)] == IF i = 0 THEN y ELSE PutLong(put[i - 1], ws[i])
    IN  put

putBytes(s, ws) ==
    /\ xdrs[s] # NoStream /\ ~ xdrs[s].decode
    /\ Then(s, Puts(At(s), ws)[Len(ws)])

\* xdrmemstream_read_from_fd(): what there is to read; when that ends with a
\* fragment, the next one is allocated before the end is noticed.
readFromFd(s, ws) ==
    /\ xdrs[s] # NoStream /\ ~ xdrs[s].decode
    /\ LET y == Puts(At(s), ws)[Len(ws)]
       IN  Then(s, IF y.ok /\ y.x.handy = 0 THEN Allocate(y) ELSE y)

\* Slip: the last fragment counts as full.
Rewound_Full(x) ==
    [x EXCEPT !.current = 1, !.handy = x.chain[1].used, !.decode = TRUE,
              !.length = IF x.decode THEN @ ELSE x.fragment_count * MemStreamBufferSize - x.handy]

\* The forecast of the last fragment is put right.
Rewound(x) ==
    LET chain == IF x.decode THEN x.chain ELSE [x.chain EXCEPT ![x.current].used = @ - x.handy]
    IN  [x EXCEPT !.chain = chain, !.current = 1, !.handy = chain[1].used, !.decode = TRUE,
                  !.length = IF x.decode THEN @ ELSE x.fragment_count * MemStreamBufferSize - x.handy]

\* rewind(XDR_DECODE), get_length().
rewind(s) ==
    /\ xdrs[s] # NoStream
    /\ LET x == Rewound(xdrs[s])
       IN  Then(s, [At(s) EXCEPT !.x = x, !.out = <<x.length>>])

Filled(x, w) == [x EXCEPT !.chain[1].words[1] = w, !.handy = @ - 1]

\* xdr_inline() and IXDR_PUT_LONG() of enterSendingState().
mark(s, w) ==
    /\ xdrs[s] # NoStream /\ xdrs[s].decode
    /\ xdrs[s].current = 1 /\ xdrs[s].handy > 0 /\ xdrs[s].handy = xdrs[s].chain[1].used
    /\ Then(s, [At(s) EXCEPT !.x = Filled(@, w)])

AdvanceToNextFragment(y) ==
    LET next == y.x.current + 1
    IN  IF next > Len(y.x.chain)
        THEN [y EXCEPT !.x.current = 0, !.ok = FALSE]
        ELSE [y EXCEPT !.x.current = next, !.x.handy = y.x.chain[next].used,
                       !.ok = y.x.chain[next].used > 0]

\* MemStreamGetLong(), and one turn of MemStreamGetBytes() or write_to_fd().
GetLong(y) ==
    LET z == IF y.ok /\ y.x.handy = 0 THEN AdvanceToNextFragment(y) ELSE y
        f == z.x.chain[z.x.current]
    IN  IF ~ z.ok THEN z
        ELSE [z EXCEPT !.out = Append(@, f.words[f.used - z.x.handy + 1]), !.x.handy = @ - 1]

Gets(y, n) ==
    LET got[i \in 0 .. n] == IF i = 0 THEN y ELSE GetLong(got[i - 1])
    IN  got

\* After the end was passed the pointer to the current fragment is null, and
\* nothing more may be read.
getBytes(s, n) ==
    /\ xdrs[s] # NoStream /\ xdrs[s].decode /\ xdrs[s].current # 0
    /\ Then(s, Gets(At(s), n)[n])

freegarbage ==
    /\ fragments.free > FragmentWatermark
    /\ LET surplus == fragments.free - FragmentWatermark
           part == (surplus * FreePercentage) \div 100
           toFree == IF part = 0 THEN surplus ELSE part
       IN  fragments' = [count |-> fragments.count - toFree, free |-> fragments.free - toFree]
    /\ UNCHANGED <<xdrs, xdrResult>>

MemInit ==
    /\ fragments = [count |-> 0, free |-> 0]
    /\ xdrs = [s \in Streams |-> NoStream]
    /\ xdrResult = [ok |-> TRUE, out |-> <<>>]

MemNext ==
    \/ freegarbage
    \/ \E s \in Streams :
         \/ create(s) \/ destroy(s) \/ clear(s) \/ rewind(s)
         \/ \E ws \in Telegrams : putBytes(s, ws) \/ readFromFd(s, ws)
         \/ \E w \in Words : mark(s, w)
         \/ \E n \in 1 .. MaxWords : getBytes(s, n)

MemSpec == MemInit /\ [][MemNext]_memVars

-----------------------------------------------------------------------------
\* Properties

Open == {s \in Streams : xdrs[s] # NoStream}
InUse == UNION {{s} \X DOMAIN xdrs[s].chain : s \in Open}

\* The quota is kept, and every fragment that was ever allocated is either free
\* or in the chain of exactly one stream: none is lost when streams fail, are
\* cleared or destroyed.
FragmentsAreConserved ==
    /\ fragments.count = fragments.free + Cardinality(InUse)
    /\ fragments.count <= FragmentQuota
    /\ \A s \in Open : xdrs[s].fragment_count = Len(xdrs[s].chain)

\* AdvanceToNextFragment() at the end of a chain means to "make sure that the
\* next request will fail too": a further request finds a current fragment.
NextRequestFailsToo ==
    \A s \in Open : xdrs[s].current # 0

\* The words up to each fragment of a chain.
Joined(chain) ==
    LET joined[i \in 0 .. Len(chain)] == IF i = 0 THEN <<>> ELSE joined[i - 1] \o chain[i].words
    IN  joined

Content(x) == Joined(x.chain)[Len(x.chain)]
Position(x) == IF x.current = 0 THEN Len(Content(x)) ELSE Len(Joined(x.chain)[x.current]) - x.handy

AsWords(x) ==
    [content |-> Content(x), reading |-> x.decode, pos |-> IF x.decode THEN Position(x) ELSE 0]

\* The streams give back, in order, the words that were written, each once,
\* wherever the borders of the fragments are, and tell their length correctly.
Stream == INSTANCE WordStreams WITH
    stream <- [s \in Streams |-> IF xdrs[s] = NoStream THEN NoStream ELSE AsWords(xdrs[s])],
    result <- xdrResult
AreWordStreams == Stream!Spec
=============================================================================
