--------------------------- MODULE ServerObjects ---------------------------
(***************************************************************************)
(* The communication objects of a server that is a KsSimpleServer and its  *)
(* services on them (simpleserver.cpp, svrobjects.cpp,                     *)
(* svrsimpleobjects.cpp): a tree of domains and variables, where a domain  *)
(* may have a sister whose children count as its own, and where the A/V    *)
(* ticket of a request limits what it can do.                              *)
(***************************************************************************)
EXTENDS Integers, Sequences, FiniteSets

CONSTANTS
    Root, SubDomains,      \* the domains, some of them only sisters
    SimpleVariables,
    idOf,                  \* the identifier of every object
    ObjectValues,
    NoObject

ASSUME ObjectAssumption ==
    /\ SubDomains \cap SimpleVariables = {} /\ Root \notin SubDomains \cup SimpleVariables
    /\ NoObject \notin {Root} \cup SubDomains \cup SimpleVariables

VARIABLES
    _children,             \* of each domain, at most one for an identifier
    _next_sister,          \* of each domain, or NoObject
    _value, unlocked       \* of the variables: value, and those that can be written

objectVars == <<_children, _next_sister, _value, unlocked>>

Domains == {Root} \cup SubDomains
CommObjects == SubDomains \cup SimpleVariables
Identifiers == {idOf[o] : o \in CommObjects}
ObjectPaths == UNION {[1 .. n -> Identifiers] : n \in 1 .. 2}
AccessModes == SUBSET {"READ", "WRITE"}

Own(d, id) == {o \in _children[d] : idOf[o] = id}

\* getChildById(): an own child, or else one of the sister.
getChildById(d, id) ==
    LET of[e \in Domains] ==
            IF Own(e, id) # {} THEN CHOOSE o \in Own(e, id) : TRUE
            ELSE IF _next_sister[e] # NoObject THEN of[_next_sister[e]]
            ELSE NoObject
    IN  of[d]

\* getChildByPath(): the object that each identifier of the path leads to.
Reached(path) ==
    LET at[i \in 0 .. Len(path)] ==
            IF i = 0 THEN Root
            ELSE IF at[i - 1] \in Domains THEN getChildById(at[i - 1], path[i])
            ELSE NoObject
    IN  at

Object(path) == Reached(path)[Len(path)]

\* Slip: the iterator stops behind the last child of its own.
Listed_Own(d) == _children[d]

\* KssSimpleDomainIterator: it goes on with the sister when the own children
\* are through, but does not begin with her.
Listed(d) ==
    LET of[e \in Domains] ==
            IF _next_sister[e] # NoObject /\ _children[e] # {}
            THEN _children[e] \cup of[_next_sister[e]]
            ELSE _children[e]
    IN  of[d]

getAccessMode(o) ==
    IF o \in SimpleVariables THEN {"READ"} \cup IF o \in unlocked THEN {"WRITE"} ELSE {}
    ELSE {"READ"}

\* Slip: the ticket does not limit what is listed.
Granted_All(o, access) == getAccessMode(o)

\* The access mode that GETEP tells a client with this ticket.
Granted(o, access) == getAccessMode(o) \cap access

-----------------------------------------------------------------------------
\* The services.  A ticket is the access it grants, to all objects alike.

GetVarResult(access, path) ==
    IF "READ" \notin access THEN "NOACCESS"
    ELSE IF Object(path) = NoObject THEN "BADPATH"
    ELSE IF Object(path) \notin SimpleVariables THEN "BADTYPE" ELSE "OK"

SetVarResult(access, path) ==
    IF "WRITE" \notin access THEN "NOACCESS"
    ELSE IF Object(path) = NoObject THEN "BADPATH"
    ELSE IF Object(path) \notin SimpleVariables THEN "BADTYPE"
    ELSE IF Object(path) \notin unlocked THEN "NOACCESS" ELSE "OK"

GetEPResult(access, path) ==
    IF access = {} THEN "NOACCESS"
    ELSE IF Object(path) = NoObject THEN "BADPATH"
    ELSE IF Object(path) \notin Domains THEN "BADPATH" ELSE "OK"

\* The children that a mask of names and types leaves: what cannot be seen is
\* left out without a word.
GetEPItems(access, path, names, types) ==
    IF GetEPResult(access, path) # "OK" THEN {}
    ELSE {[id |-> idOf[o], access |-> Granted(o, access)] :
             o \in {c \in Listed(Object(path)) : idOf[c] \in names /\ c \in types}}

\* The only service that changes an object; GETVAR and GETEP have the results
\* above and leave the tree alone.
setVar(access, path, x) ==
    /\ _value' = IF SetVarResult(access, path) = "OK"
                 THEN [_value EXCEPT ![Object(path)] = x] ELSE _value
    /\ UNCHANGED <<_children, _next_sister, unlocked>>

-----------------------------------------------------------------------------
\* The program changes its objects.

\* A domain has one place in the tree, as a child or as a sister.
Placed == {o \in CommObjects : \E d \in Domains : o \in _children[d] \/ _next_sister[d] = o}

\* The tree goes two levels deep.
addCommObject(path, o) ==
    LET d == Object(path) IN
    /\ o \notin Placed /\ (o \in SubDomains => path = <<>>)
    /\ _children' = IF d \in Domains /\ getChildById(d, idOf[o]) = NoObject
                    THEN [_children EXCEPT ![d] = @ \cup {o}] ELSE _children
    /\ UNCHANGED <<_next_sister, _value, unlocked>>

removeCommObject(path, id) ==
    LET d == Object(path) IN
    /\ _children' = IF d \in Domains THEN [_children EXCEPT ![d] = @ \ Own(d, id)] ELSE _children
    /\ UNCHANGED <<_next_sister, _value, unlocked>>

\* The children of a sister are put there directly (KssSimpleDomain::addChild()).
addChild(d, o) ==
    /\ o \in SimpleVariables \ Placed /\ Own(d, idOf[o]) = {}
    /\ _children' = [_children EXCEPT ![d] = @ \cup {o}]
    /\ UNCHANGED <<_next_sister, _value, unlocked>>

setNextSister(d, s) ==
    /\ s \notin Placed /\ d # s /\ _next_sister[d] = NoObject /\ _next_sister[s] = NoObject
    /\ _next_sister' = [_next_sister EXCEPT ![d] = s]
    /\ UNCHANGED <<_children, _value, unlocked>>

\* lock() and unlock().
lock(v) ==
    /\ unlocked' = IF v \in unlocked THEN unlocked \ {v} ELSE unlocked \cup {v}
    /\ UNCHANGED <<_children, _next_sister, _value>>

ObjectInit ==
    /\ _children = [d \in Domains |-> {}]
    /\ _next_sister = [d \in Domains |-> NoObject]
    /\ _value = [v \in SimpleVariables |-> CHOOSE x \in ObjectValues : TRUE]
    /\ unlocked = SimpleVariables

ObjectNext ==
    \/ \E access \in AccessModes, path \in ObjectPaths, x \in ObjectValues :
          setVar(access, path, x)
    \/ \E path \in {<<>>} \cup ObjectPaths :
          \/ \E o \in CommObjects : addCommObject(path, o)
          \/ \E id \in Identifiers : removeCommObject(path, id)
    \/ \E d \in Domains : \/ \E o \in SimpleVariables : addChild(d, o)
                          \/ \E s \in SubDomains : setNextSister(d, s)
    \/ \E v \in SimpleVariables : lock(v)

ObjectSpec == ObjectInit /\ [][ObjectNext]_objectVars

-----------------------------------------------------------------------------
\* Properties

\* What GETEP lists below a domain is what the other services find there: the
\* iterator and getChildById() agree, through sisters of sisters, except for an
\* empty domain, whose sister is searched but not listed.
ListedIsFound(d) ==
    (\A e \in Domains : _next_sister[e] # NoObject => _children[e] # {}) =>
        {idOf[o] : o \in Listed(d)} = {id \in Identifiers : getChildById(d, id) # NoObject}

\* The access mode it tells is what the client then gets with the same ticket.
AccessIsGranted(path, access) ==
    Object(path) \in SimpleVariables =>
        \A item \in GetEPItems(access, SubSeq(path, 1, Len(path) - 1),
                               Identifiers, CommObjects) :
            item.id = path[Len(path)] =>
                /\ "READ" \in item.access => GetVarResult(access, path) # "NOACCESS"
                /\ "WRITE" \in item.access => SetVarResult(access, path) # "NOACCESS"

\* A client can rely on GETEP: the objects it lists are there, with the access it
\* tells, and no others are.
GetEPIsTrue ==
    /\ \A d \in Domains : ListedIsFound(d)
    /\ \A path \in ObjectPaths, access \in AccessModes : AccessIsGranted(path, access)
=============================================================================
