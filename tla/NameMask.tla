------------------------------ MODULE NameMask ------------------------------
(***************************************************************************)
(* KsMask (mask.cpp): whether the name of an object matches the mask of a  *)
(* GETEP or browse request.  A mask is a sequence of tokens: a character   *)
(* (the backslash itself always escaped, others escaped or not), "?", "*", *)
(* a set "[...]" that lists its characters, a negated set "[^...]" or a    *)
(* set that is malformed: a range of two kinds, as in "[a-5]".  Left out   *)
(* are an escaped "[" right after a "*", a lone backslash at the end, and  *)
(* sets that list a "*" or a "[" or end in a backslash.                    *)
(***************************************************************************)
EXTENDS Integers, Sequences, FiniteSets

CONSTANTS
    Chars,             \* characters of names and masks
    Backslash,         \* the one that escapes others in a mask
    MaxName, MaxMask,  \* bounds: their lengths
    Wild               \* tokens other than characters that a mask may have

VARIABLES
    maskName, mask,    \* the question
    matched            \* and its answer: "YES", "NO", "BAD" for a bad mask, or "LOOPS"

maskVars == <<maskName, mask, matched>>

ASSUME WildAssumption ==
    /\ Wild \subseteq [t : {"any", "star", "set", "negated", "malformed"}, cs : SUBSET Chars]
    /\ \A tok \in Wild : IsFiniteSet(tok.cs)

Token(t, cs) == [t |-> t, cs |-> cs]
CharToken(c) == Token("char", {c})
Tokens == {CharToken(c) : c \in Chars} \cup Wild
SetTokens == {"set", "negated", "malformed"}

SeqsUpTo(S, n) == UNION {[1 .. i -> S] : i \in 0 .. n}

\* set(): the bracket at m against the character at n.  A negated set that
\* matches reports success without going on in either.
SetResult(tok, c) ==
    CASE tok.t = "malformed" -> "BAD"
      [] tok.t = "set"       -> IF c \in tok.cs THEN "YES" ELSE "NO"
      [] tok.t = "negated"   -> IF c \in tok.cs THEN "NO" ELSE "YES"

\* The first answer other than "NO" of a function on lo .. hi, from hi down.
FirstAnswer(f, lo, hi) ==
    LET some == {i \in lo .. hi : f[i] # "NO"}
    IN  IF some = {} THEN "NO" ELSE f[CHOOSE i \in some : \A j \in some : j <= i]

\* The tokens "?" and "*" that follow the "*" at m end before this index.
AfterJokers(msk, m) ==
    CHOOSE j \in m + 1 .. Len(msk) + 1 :
        /\ \A i \in m + 1 .. j - 1 : msk[i].t \in {"any", "star"}
        /\ j <= Len(msk) => msk[j].t \notin {"any", "star"}

\* Slip: the characters that "?" stands for are not left out.
Skipped_None(msk, m) == 0
Skipped(msk, m) ==
    Cardinality({i \in m + 1 .. AfterJokers(msk, m) - 1 : msk[i].t = "any"})

\* Slip: "*" counts as one of the characters that must remain.
RestLength_Stars(msk, j) == Len(msk) - j + 1

\* The characters of a set in the mask, brackets included, that are not a backslash.
WrittenLength(tok) ==
    Cardinality(tok.cs \ {Backslash}) + [set |-> 2, negated |-> 3, malformed |-> 5][tok.t]

\* What the token at i adds to l_rest when the count starts at j.  The count goes
\* by the characters of the mask, looking back by one: it leaves out backslashes,
\* and right behind an escaped one it takes a bracket and a "*" for characters.
Counted(msk, j, i) ==
    LET behindBackslash == i > j /\ msk[i - 1] = CharToken(Backslash)
    IN  CASE msk[i] = CharToken(Backslash)                  -> 0
          [] msk[i].t = "star" /\ ~behindBackslash          -> 0
          [] msk[i].t \in SetTokens /\ behindBackslash      -> WrittenLength(msk[i])
          [] OTHER                                          -> 1

\* l_rest: how many characters the rest of the mask is taken to need.
RestLength(msk, j) ==
    Cardinality(UNION {{i} \X (1 .. Counted(msk, j, i)) : i \in j .. Len(msk)})

\* The mask goes on at j with a token that one character must match; all the
\* places that leave enough characters are tried, the last one first.
joker(nam, msk, from, n, m) ==
    LET j == AfterJokers(msk, m)
        n1 == n + Skipped(msk, m)
        hi == Len(nam) - RestLength(msk, j) + 1
        At(i) == IF msk[j].t = "char"
                 THEN IF nam[i] \in msk[j].cs THEN from[j + 1][i + 1] ELSE "NO"
                 ELSE LET r == SetResult(msk[j], nam[i]) IN
                      CASE r = "NO"  -> r
                        [] r = "BAD" -> r
                        [] r = "YES" -> IF msk[j].t = "set" THEN from[j + 1][i + 1]
                                        ELSE from[j][i]
    IN  IF n1 > Len(nam) + 1 THEN "NO"
        ELSE IF j > Len(msk) THEN "YES"
        ELSE IF n1 > Len(nam) THEN "NO"
        ELSE IF RestLength(msk, j) = 0 THEN "BAD"
        ELSE FirstAnswer([i \in n1 .. hi |-> At(i)], n1, hi)

\* From the characters n and m (from 1) on; from[k][i] is the answer of the rest
\* of the mask from k and of the name from i.  A bad set makes m_loop() try the
\* same token again, for ever.
m_loop(nam, msk, from, n, m) ==
    IF n <= Len(nam) /\ m <= Len(msk)
    THEN LET tok == msk[m] IN
         CASE tok.t = "star" -> joker(nam, msk, from, n, m)
           [] tok.t = "any"  -> from[m + 1][n + 1]
           [] tok.t = "char" -> IF nam[n] \in tok.cs THEN from[m + 1][n + 1] ELSE "NO"
           [] tok.t = "set"  -> IF SetResult(tok, nam[n]) = "YES"
                                THEN from[m + 1][n + 1] ELSE "NO"
           [] OTHER          -> IF SetResult(tok, nam[n]) # "NO" THEN "LOOPS" ELSE "NO"
    ELSE IF n > Len(nam) /\ m > Len(msk) THEN "YES"
    ELSE IF m <= Len(msk) /\ msk[m].t = "star" THEN joker(nam, msk, from, n, m)
    ELSE "NO"

\* The calls of m_loop() for a name and a mask.
Answers(nam, msk) ==
    LET from[m \in 1 .. Len(msk) + 1] ==
            [n \in 1 .. Len(nam) + 1 |-> m_loop(nam, msk, from, n, m)]
    IN  from

-----------------------------------------------------------------------------
MaskInit == maskName = <<>> /\ mask = <<>> /\ matched = "YES"

Idle == maskName = <<>> /\ mask = <<>>

\* An object of this name and a request with this mask.
matches(nam, msk) ==
    /\ maskName' = nam /\ mask' = msk
    /\ matched' = Answers(nam, msk)[1][1]

\* The next request.
Forget == ~ Idle /\ maskName' = <<>> /\ mask' = <<>> /\ matched' = "YES"

MaskNext ==
    \/ /\ Idle
       /\ \E nam \in SeqsUpTo(Chars, MaxName), msk \in SeqsUpTo(Tokens, MaxMask) :
              matches(nam, msk)
    \/ Forget

MaskSpec == MaskInit /\ [][MaskNext]_maskVars

-----------------------------------------------------------------------------
\* Properties

\* The reference: one character may be what a token stands for.
Stands(tok, c) ==
    CASE tok.t = "any"     -> TRUE
      [] tok.t = "negated" -> c \notin tok.cs
      [] OTHER             -> c \in tok.cs

\* From which places of the name on the rest of the mask from m can be cut off it,
\* one piece for each of its tokens.
Places(nam, msk) ==
    LET from[m \in 1 .. Len(msk) + 1] ==
            IF m > Len(msk) THEN {Len(nam) + 1}
            ELSE IF msk[m].t = "star"
            THEN {n \in 1 .. Len(nam) + 1 : \E i \in from[m + 1] : n <= i}
            ELSE {n \in 1 .. Len(nam) : Stands(msk[m], nam[n]) /\ n + 1 \in from[m + 1]}
    IN  from

IsGlob(nam, msk) == 1 \in Places(nam, msk)[1]

\* No set and no "*" stands right behind an escaped backslash.
Countable(msk) ==
    \A i \in 2 .. Len(msk) :
        msk[i - 1] = CharToken(Backslash) => msk[i].t \notin SetTokens \cup {"star"}

\* When matches() answers yes, the name matches.  When it answers no, it does not,
\* unless a set or a "*" stands right behind an escaped backslash: only there does
\* it keep back more characters for the rest of the mask than this needs.  Those it
\* fails to keep back, and the order it tries the places in, do no harm.
MatchIsGlob ==
    /\ matched = "YES" => IsGlob(maskName, mask)
    /\ matched = "NO" /\ Countable(mask) => ~ IsGlob(maskName, mask)

\* matches() comes to an end.
MatchingEnds == matched # "LOOPS"
=============================================================================
