---------------------------- MODULE ClientPaths ----------------------------
(***************************************************************************)
(* The paths of one service request: the client sends every path relative  *)
(* to the one before (KscPath::relTo(), clntpath.cpp; optimizePaths(),     *)
(* package.cpp), the server resolves them again one after the other        *)
(* (KsPath::resolvePaths(), path.cpp).  A path is a sequence of components *)
(* that begin with "/" or, for a part, with "."; the server only splits at *)
(* "/".                                                                    *)
(***************************************************************************)
EXTENDS Integers, Sequences, FiniteSets

CONSTANTS
    PathNames,         \* of the components
    Separators,        \* {"/"}, or {"/", "."} with parts
    KSC_MAX_REL_DEPTH,
    MaxComponents,     \* bound: components of a path
    RelativeFirst      \* whether a client may begin with a relative path

ASSUME PathAssumption == KSC_MAX_REL_DEPTH \in Nat /\ MaxComponents \in Nat

VARIABLES
    sent,              \* the path last sent, or <<>> before the first one
    context,           \* the KsPath the next path is resolved against
    result             \* the KS_RESULT of the last path

pathVars == <<sent, context, result>>

KscPath == UNION {[1 .. n -> [sep : Separators, name : PathNames]] : n \in 1 .. MaxComponents}

-----------------------------------------------------------------------------
\* The client.

\* The part of the root counts twice in slash_count, for "/" and for ".".
countComponents(path) == Len(path) + IF path[1].sep = "." THEN 1 ELSE 0

CommonPrefix(p, q) ==
    CHOOSE n \in 0 .. Len(p) :
        /\ n <= Len(q) /\ \A i \in 1 .. n : p[i] = q[i]
        /\ n < Len(p) /\ n < Len(q) => p[n + 1] # q[n + 1]

\* The delimiters at the same place in both, less one; the component after the
\* common ones is the first that is sent.
inCommon(p, q) ==
    LET n == CommonPrefix(p, q) IN (IF n < Len(p) /\ n < Len(q) THEN n + 1 ELSE n) - 1

Absolute(path) == [relative |-> FALSE, up |-> 0, rest |-> path]

relTo(path, to) ==
    LET common == inCommon(path, to)
        up == countComponents(to) - common - 1
    IN IF common > 0 /\ up <= KSC_MAX_REL_DEPTH
       THEN [relative |-> TRUE, up |-> up, rest |-> SubSeq(path, common + 1, Len(path))]
       ELSE Absolute(path)

-----------------------------------------------------------------------------
\* The server.  A KsPath has the levels it goes up, what is written before its
\* first component, and its components: they are separated by "/" only, so
\* that a part stays within the component of its object, after its name.
BadPath == [valid |-> FALSE]

findSlashes(components) ==
    LET starts == {i \in 1 .. Len(components) : i = 1 \/ components[i].sep = "/"}
        count == Cardinality(starts)
        Start(k) == CHOOSE i \in starts : Cardinality({j \in starts : j <= i}) = k
        End(k) == IF k = count THEN Len(components) ELSE Start(k + 1) - 1
    IN [k \in 1 .. count |-> [x \in 1 .. End(k) - Start(k) + 1 |->
                                 components[Start(k) + x - 1].name]]

\* checkAndCount(): a "." not followed by "/" is no good in a relative path.
KsPath(id) ==
    IF id.relative /\ id.rest[1].sep = "." THEN BadPath
    ELSE [valid |-> TRUE,
          go_up |-> IF id.relative THEN id.up + 1 ELSE 0,
          lead |-> IF id.relative THEN "" ELSE IF id.rest[1].sep = "." THEN "/." ELSE "/",
          names |-> findSlashes(id.rest)]

\* Slip: the name of the context is not gone up from.
resolve_Below(abs, rel) ==
    IF rel.go_up = 0 THEN rel
    ELSE [abs EXCEPT !.names = SubSeq(@, 1, Len(@) - rel.go_up + 1) \o rel.names]

resolve(abs, rel) ==
    IF rel.go_up = 0 THEN rel
    ELSE IF rel.go_up > Len(abs.names) THEN BadPath
    ELSE [abs EXCEPT !.go_up = 0,
                     !.names = SubSeq(@, 1, Len(@) - rel.go_up) \o rel.names]

\* One round of resolvePaths(): the path is the context of the next one in any
\* case, also a relative path that could not be resolved.
Resolved(id) ==
    LET path == KsPath(id) IN
    IF ~ path.valid THEN [path |-> path, result |-> "BADPATH"]
    ELSE IF context.valid
         THEN LET p == resolve(context, path)
              IN [path |-> p, result |-> IF p.valid THEN "OK" ELSE "BADPATH"]
    ELSE [path |-> path, result |-> IF path.go_up = 0 THEN "OK" ELSE "BADPATH"]

-----------------------------------------------------------------------------
PathInit == sent = <<>> /\ context = BadPath /\ result = "OK"

Receive(id) == LET r == Resolved(id) IN context' = r.path /\ result' = r.result

\* What is sent for a path; a client of another kind may begin its request with
\* a relative one.
Encoded(path) ==
    IF sent # <<>> THEN {relTo(path, sent)}
    ELSE {Absolute(path)} \cup
         IF RelativeFirst THEN {[relative |-> TRUE, up |-> 0, rest |-> path]} ELSE {}

\* copySetVarParams(), fillGetVarParams(): a path of the request, which becomes
\* the reference of the next one once it was sent as an absolute path.
Send(path) == \E id \in Encoded(path) :
    /\ Receive(id)
    /\ sent' = IF sent = <<>> /\ id.relative THEN sent ELSE path

\* The next request.
NewRequest == sent' = <<>> /\ context' = BadPath /\ result' = "OK"

PathNext == NewRequest \/ \E path \in KscPath : Send(path)

PathSpec == PathInit /\ [][PathNext]_pathVars

-----------------------------------------------------------------------------
\* However the client shortens a path, the server finds the object the client
\* meant: relTo() and resolvePaths() undo each other along a whole request.
RelativePathsResolve ==
    sent # <<>> => result = "OK" /\ context = KsPath(Absolute(sent))

\* The precondition of resolve(), path.cpp:303: its context is absolute.
ContextsAreAbsolute == context.valid => context.go_up = 0
=============================================================================
