--------------------------- MODULE ClientPackage ---------------------------
(***************************************************************************)
(* Reading and writing variables from a client: KscVariable::getUpdate()   *)
(* and setUpdate() (commobject.cpp), the same for whole packages           *)
(* (package.cpp), which are sorted into one request for each server and    *)
(* A/V module (sorter.cpp), and the exchange of two packages.  Any request *)
(* may fail as a whole or for some of its variables.                       *)
(***************************************************************************)
EXTENDS Integers, FiniteSets

CONSTANTS
    Variables,      \* variable objects, of different paths
    VarValues,
    Packages,       \* the packages of the program
    bucketOf,       \* the server and A/V module each variable needs
    OutOfMemory,    \* whether the parameters of a request may not fit in memory
    Overlap         \* whether a variable may be in both packages of an exchange

ASSUME PackageAssumption ==
    Packages \subseteq SUBSET Variables /\ VarValues # {}

VARIABLES
    curr_props,     \* the value of each variable object
    fDirty,         \* whether it was changed since
    varResult,      \* _last_result of the variable object
    confirmed,      \* history: the value the server last gave or accepted
    call            \* the call of getUpdate(), setUpdate() or doExchange()

packageVars == <<curr_props, fDirty, varResult, confirmed, call>>

Items == {"get", "set"} \X Variables
PackageErrors == {"NETWORKERROR"} \cup IF OutOfMemory THEN {"GENERIC"} ELSE {}
Of(items, op) == {v \in Variables : <<op, v>> \in items}

NoCall == [wanted |-> {}, todo |-> {}, served |-> {}, ok |-> TRUE, result |-> "OK"]

PackageInit ==
    /\ curr_props = [v \in Variables |-> CHOOSE x \in VarValues : TRUE]
    /\ confirmed = curr_props
    /\ fDirty = [v \in Variables |-> FALSE]
    /\ varResult = [v \in Variables |-> "ERROR"]
    /\ call = NoCall

Busy == call.todo # {}

\* The program gives a variable a new value.
setCurrProps(v, x) ==
    /\ ~ Busy
    /\ curr_props' = [curr_props EXCEPT ![v] = x]
    /\ fDirty' = [fDirty EXCEPT ![v] = TRUE]
    /\ call' = NoCall
    /\ UNCHANGED <<varResult, confirmed>>

-----------------------------------------------------------------------------
(* A call on a single variable object.                                     *)

Called(op, v, served) ==
    [NoCall EXCEPT !.wanted = {<<op, v>>}, !.ok = served,
                   !.served = IF served THEN {<<op, v>>} ELSE {}]

\* The request failed, or was not granted, or its answer is about something
\* else: no or several objects, or none that is a variable.
NotServed(op, v) ==
    /\ ~ Busy
    /\ varResult' = [varResult EXCEPT ![v] = "ERROR"]
    /\ call' = Called(op, v, FALSE)
    /\ UNCHANGED <<curr_props, fDirty, confirmed>>

Served(op, v, dirty) ==
    /\ ~ Busy
    /\ varResult' = [varResult EXCEPT ![v] = "OK"]
    /\ fDirty' = [fDirty EXCEPT ![v] = dirty]
    /\ call' = Called(op, v, TRUE)

getVariable(v) ==
    \/ NotServed("get", v)
    \/ /\ Served("get", v, FALSE)
       /\ \E x \in VarValues : /\ curr_props' = [curr_props EXCEPT ![v] = x]
                               /\ confirmed' = [confirmed EXCEPT ![v] = x]

setVariable(v) ==
    \/ NotServed("set", v)
    \/ /\ Served("set", v, FALSE)
       /\ confirmed' = [confirmed EXCEPT ![v] = curr_props[v]]
       /\ UNCHANGED curr_props

\* The engineered properties are not the value: a change remains.
getEngPropsUpdate(v) ==
    \/ NotServed("props", v)
    \/ Served("props", v, fDirty[v]) /\ UNCHANGED <<curr_props, confirmed>>

-----------------------------------------------------------------------------
(* Packages.                                                               *)

\* The sorter: what is asked of each bucket.
Sorted(gets, sets) == {"get"} \X gets \cup {"set"} \X sets
BucketItems(items, b) == {i \in items : bucketOf[i[2]] = b}

Begin(items) ==
    /\ ~ Busy
    /\ call' = [NoCall EXCEPT !.wanted = items, !.todo = items]
    /\ UNCHANGED <<curr_props, fDirty, varResult, confirmed>>

getUpdate(pkg) == Begin(Sorted(pkg, {}))

\* Unless forced, only the variables that were changed are sent.
ToSend(pkg, force) == {v \in pkg : force \/ fDirty[v]}
setUpdate(pkg, force) == Begin(Sorted({}, ToSend(pkg, force)))

doExchange(getPkg, setPkg, force) ==
    /\ Overlap \/ getPkg \cap setPkg = {}
    /\ Begin(Sorted(getPkg, ToSend(setPkg, force)))

\* Buckets to read from come first, each with what is to be written to it.
NextBuckets ==
    LET gets == {i \in call.todo : i[1] = "get"}
    IN  {bucketOf[i[2]] : i \in IF gets # {} THEN gets ELSE call.todo}

\* The request fails as a whole: the error goes to all its variables, except
\* when the parameters could not be set up.
RequestFailed(items, error) ==
    /\ call' = [call EXCEPT !.todo = @ \ items, !.ok = FALSE, !.result = error]
    /\ varResult' = [v \in Variables |->
           IF error # "GENERIC" /\ \E i \in items : i[2] = v THEN "ERROR" ELSE varResult[v]]
    /\ UNCHANGED <<curr_props, fDirty, confirmed>>

\* Slip: a variable that could not be written is clean.
Written_All(sets, good) == sets

\* copySetVarResults(): only what the server accepted is clean.
Written(sets, good) == good

\* Slip: the outcome of reading is overwritten by that of writing.
Success_Last(items, good) ==
    LET last == IF Of(items, "set") # {} THEN "set" ELSE "get"
    IN  \A i \in items : i[1] = last => i \in good
Success(items, good) == items = good

\* copyGetVarResults(), then copySetVarResults(): each item of the answer is
\* copied into its variable, writing last.
Answered(items, good, read) ==
    LET got == Of(good, "get")
        sets == Of(items, "set")
        taken == Of(good, "set")
        Result(v) == IF v \in sets THEN IF v \in taken THEN "OK" ELSE "ERROR"
                     ELSE IF v \in got THEN "OK" ELSE "ERROR"
    IN  /\ curr_props' = [v \in Variables |-> IF v \in got THEN read[v] ELSE curr_props[v]]
        /\ fDirty' = [v \in Variables |-> fDirty[v] /\ v \notin got \cup Written(sets, taken)]
        /\ varResult' = [v \in Variables |->
               IF v \in Of(items, "get") \cup sets THEN Result(v) ELSE varResult[v]]
        /\ confirmed' = [v \in Variables |-> IF v \in got THEN read[v]
                                             ELSE IF v \in taken THEN curr_props[v]
                                             ELSE confirmed[v]]
        /\ call' = [call EXCEPT !.todo = @ \ items, !.served = @ \cup good,
                                !.ok = @ /\ Success(items, good)]

\* What the server reads: it writes first, and other clients may have written
\* anything else.
Readable(good) ==
    {x \in [Variables -> VarValues] :
        \A v \in Variables : /\ v \notin Of(good, "get") => x[v] = curr_props[v]
                             /\ v \in Of(good, "set") => x[v] = curr_props[v]}

SimpleUpdate == \E b \in NextBuckets :
    LET items == BucketItems(call.todo, b) IN
    \/ \E error \in PackageErrors : RequestFailed(items, error)
    \/ \E good \in SUBSET items : \E read \in Readable(good) : Answered(items, good, read)

PackageNext ==
    \/ \E v \in Variables, x \in VarValues : setCurrProps(v, x)
    \/ \E v \in Variables : getVariable(v) \/ setVariable(v) \/ getEngPropsUpdate(v)
    \/ \E pkg \in Packages :
          \/ getUpdate(pkg)
          \/ \E force \in BOOLEAN :
                \/ setUpdate(pkg, force)
                \/ \E getPkg \in Packages : doExchange(getPkg, pkg, force)
    \/ SimpleUpdate

PackageSpec == PackageInit /\ [][PackageNext]_packageVars

-----------------------------------------------------------------------------
\* Properties

\* The program can tell from a package what happened to every variable.
\* A variable object that is not dirty has the value its server last gave or
\* accepted, whichever requests failed and were repeated since, so that
\* setUpdate() without force, which leaves it out, loses no write.  When a
\* call returns TRUE everything was read and written; otherwise the result of
\* the package or that of every variable concerned says so
\* (KscPackage::getUpdate(), package.cpp:299-313, KscVariable in commobject.cpp).
OutcomesAreKnown ==
    /\ \A v \in Variables : ~ fDirty[v] => curr_props[v] = confirmed[v]
    /\ ~ Busy =>
          /\ call.ok <=> call.served = call.wanted
          /\ call.ok => \A i \in call.wanted : varResult[i[2]] = "OK"
          /\ call.result = "OK" =>
                \A i \in call.wanted \ call.served : varResult[i[2]] # "OK"
=============================================================================
