----------------------------- MODULE WireFormats -----------------------------
(***************************************************************************)
(* What the objects of a request look like on the wire (xdr.h, xdr.cpp and *)
(* the xdrEncode and xdrDecode functions of the data types).  The wire is  *)
(* a sequence of words.  A layout says how a value is written and, quite   *)
(* apart from that, how it is read: a class names the members it writes    *)
(* and those it reads, each in the order of the function that does so.     *)
(*                                                                         *)
(* A string or a vector of bytes takes a word per character; the padding   *)
(* to four bytes and the sign of a word are not modelled.  A value of a    *)
(* union is the record of its members and of the "tag" that selects them.  *)
(* Members that are not written, because a result is an error, are not in  *)
(* the record either.                                                      *)
(***************************************************************************)
EXTENDS Integers, SequencesExt, TLC

CONSTANT
    V1PlusCompatible   \* PLT_SOURCE_V1PLUS_BC

RECURSIVE Encode(_, _), Decode(_, _)

-----------------------------------------------------------------------------
(* Layouts.                                                                *)

Number   == [kind |-> "word"]
OneOf(S) == [kind |-> "oneof", of |-> S]     \* anything else is an error
UShort   == [kind |-> "ushort"]
Bool     == [kind |-> "bool"]
Double   == [kind |-> "double"]
String   == [kind |-> "string"]
KsTime   == [kind |-> "time"]
KsTimeSpan == [kind |-> "timespan"]
KsArray(T) == [kind |-> "list", of |-> T]
KsList(T)  == [kind |-> "list", of |-> T]
KsPtrHandle(T) == [kind |-> "handle", of |-> T]

\* "first" always; "then" only when the last of "first" is one of "values".
Always(first) == [first |-> first, values |-> {}, then |-> <<>>]
When(first, values, then) == [first |-> first, values |-> values, then |-> then]

Class(of, encode, decode) ==
    [kind |-> "class", of |-> of, encode |-> encode, decode |-> decode]

Members(of, encode, decode) == Class(of, Always(encode), Always(decode))

KS_ERR_OK           == 0
KS_ERR_BADINITPARAM == 50

\* A class derived from KsResult: the members only if there is no error.
KsResultWith(of, encode, decode) ==
    Class([result |-> Number] @@ of,
          When(<<"result">>, {KS_ERR_OK}, encode),
          When(<<"result">>, {KS_ERR_OK}, decode))

\* A class of a single member, or none.
Sole(member, T) == Members(member :> T, <<member>>, <<member>>)
Empty == Members(<<>>, <<>>, <<>>)

KsResult == Sole("result", Number)

KsXdrUnion(variants, common) ==
    [kind |-> "union", variants |-> variants, common |-> common]

-----------------------------------------------------------------------------
(* Writing.  What cannot be written is marked: the caller then gives up.   *)

Refused == -1
Unbound == [tag |-> -1]      \* a handle that is bound to nothing

FieldsOf(order, v) ==
    order.first \o IF order.first # <<>> /\ v[Last(order.first)] \in order.values
                   THEN order.then ELSE <<>>

EncodeClass(T, v) ==
    FlattenSeq([i \in DOMAIN FieldsOf(T.encode, v) |->
                  Encode(T.of[FieldsOf(T.encode, v)[i]], v[FieldsOf(T.encode, v)[i]])])

Encode(T, v) ==
    CASE T.kind \in {"word", "oneof", "ushort", "bool"} -> <<v>>
      [] T.kind = "double" -> v
      [] T.kind \in {"time", "timespan"} -> <<v.sec, v.usec>>
      [] T.kind = "string" -> <<Len(v)>> \o v
      [] T.kind = "list" ->
           <<Len(v)>> \o FlattenSeq([i \in DOMAIN v |-> Encode(T.of, v[i])])
      [] T.kind = "handle" -> IF v = Unbound THEN <<Refused>> ELSE Encode(T.of, v)
      [] T.kind = "class" -> EncodeClass(T, v)
      [] T.kind = "union" ->
           <<v.tag>> \o Encode(T.variants[v.tag], v) \o Encode(T.common, v)

Encodable(w) == Refused \notin {w[i] : i \in DOMAIN w}

-----------------------------------------------------------------------------
(* Reading: the value and the rest of the words, or a failure.             *)

Unreadable == [ok |-> FALSE]
Read(v, w) == [ok |-> TRUE, value |-> v, rest |-> w]
Drop(w, n) == SubSeq(w, n + 1, Len(w))

\* KsTime::xdrDecode normalises what it has read, KsTimeSpan's does not.
Normalized(t) == [sec |-> t.sec + t.usec \div 1000000, usec |-> t.usec % 1000000]

\* The next words are read too, and taken together with what was read before.
ThenRead(d, T, take(_, _)) ==
    IF ~d.ok THEN Unreadable
    ELSE LET e == Decode(T, d.rest)
         IN IF e.ok THEN Read(take(d.value, e.value), e.rest) ELSE Unreadable

DecodeMembers(T, members, d) ==
    FoldLeft(LAMBDA r, m : ThenRead(r, T.of[m], LAMBDA v, x : v @@ (m :> x)),
             d, members)

DecodeClass(T, w) ==
    LET d == DecodeMembers(T, T.decode.first, Read(<<>>, w))
    IN IF d.ok /\ T.decode.first # <<>>
          /\ d.value[Last(T.decode.first)] \in T.decode.values
       THEN DecodeMembers(T, T.decode.then, d) ELSE d

\* Every element takes a word at least.
DecodeList(T, count, w) ==
    IF count > Len(w) THEN Unreadable
    ELSE FoldLeft(LAMBDA r, i : ThenRead(r, T, Append),
                  Read(<<>>, w), [i \in 1..count |-> i])

\* xdrNew: the constructor of the variant, then the members common to all.
DecodeUnion(T, w) ==
    IF w = <<>> \/ w[1] \notin DOMAIN T.variants THEN Unreadable
    ELSE LET d == Decode(T.variants[w[1]], Tail(w))
         IN IF ~d.ok THEN Unreadable
            ELSE ThenRead(Read([tag |-> w[1]] @@ d.value, d.rest), T.common,
                          LAMBDA v, x : v @@ x)

Decode(T, w) ==
    CASE T.kind = "word" -> IF w = <<>> THEN Unreadable ELSE Read(w[1], Tail(w))
      [] T.kind = "oneof" ->
           IF w = <<>> \/ w[1] \notin T.of THEN Unreadable ELSE Read(w[1], Tail(w))
      [] T.kind = "ushort" ->
           IF w = <<>> THEN Unreadable ELSE Read(w[1] % 65536, Tail(w))
      [] T.kind = "bool" ->
           IF w = <<>> THEN Unreadable ELSE Read(IF w[1] = 0 THEN 0 ELSE 1, Tail(w))
      [] T.kind = "double" ->
           IF Len(w) < 2 THEN Unreadable ELSE Read(<<w[1], w[2]>>, Drop(w, 2))
      [] T.kind = "timespan" ->
           IF Len(w) < 2 THEN Unreadable
           ELSE Read([sec |-> w[1], usec |-> w[2]], Drop(w, 2))
      [] T.kind = "time" ->
           IF Len(w) < 2 THEN Unreadable
           ELSE Read(Normalized([sec |-> w[1], usec |-> w[2]]), Drop(w, 2))
      [] T.kind = "string" ->
           IF w = <<>> \/ w[1] >= Len(w) THEN Unreadable
           ELSE Read(SubSeq(w, 2, w[1] + 1), Drop(w, w[1] + 1))
      [] T.kind = "list" ->
           IF w = <<>> THEN Unreadable ELSE DecodeList(T.of, w[1], Tail(w))
      [] T.kind = "handle" -> Decode(T.of, w)
      [] T.kind = "class" -> DecodeClass(T, w)
      [] T.kind = "union" -> DecodeUnion(T, w)

-----------------------------------------------------------------------------
(* Values.                                                                 *)

KsVoidValue        == Empty
KsBoolValue        == Sole("bool", Bool)
KsIntValue         == Sole("int", Number)
KsUIntValue        == Sole("uint", Number)
KsSingleValue      == Sole("single", Number)
KsDoubleValue      == Sole("double", Double)
KsStringValue      == Sole("string", String)
KsTimeValue        == Sole("time", KsTime)
KsTimeSpanValue    == Sole("span", KsTimeSpan)
KsStateValue       == Sole("state", Number)
KsByteVecValue     == Sole("bytes", String)
KsBoolVecValue     == Sole("bools", KsArray(Bool))
KsIntVecValue      == Sole("ints", KsArray(Number))
KsUIntVecValue     == Sole("uints", KsArray(Number))
KsSingleVecValue   == Sole("singles", KsArray(Number))
KsDoubleVecValue   == Sole("doubles", KsArray(Double))
KsStringVecValue   == Sole("strings", KsArray(String))
KsTimeVecValue     == Sole("times", KsArray(KsTime))
KsTimeSpanVecValue == Sole("spans", KsArray(KsTimeSpan))
KsStateVecValue    == Sole("states", KsArray(Number))

KsValue ==
    KsXdrUnion(0 :> KsVoidValue @@ 2 :> KsBoolValue @@ 16 :> KsIntValue
               @@ 17 :> KsUIntValue @@ 32 :> KsSingleValue @@ 33 :> KsDoubleValue
               @@ 48 :> KsStringValue @@ 49 :> KsTimeValue
               @@ 50 :> KsTimeSpanValue @@ 56 :> KsStateValue
               @@ 129 :> KsByteVecValue @@ 130 :> KsBoolVecValue
               @@ 144 :> KsIntVecValue @@ 145 :> KsUIntVecValue
               @@ 160 :> KsSingleVecValue @@ 161 :> KsDoubleVecValue
               @@ 176 :> KsStringVecValue @@ 177 :> KsTimeVecValue
               @@ 178 :> KsTimeSpanVecValue @@ 184 :> KsStateVecValue,
               Empty)

-----------------------------------------------------------------------------
(* Engineered and current properties.                                      *)

KS_OT_DOMAIN    == 1
KS_OT_VARIABLE  == 2
KS_OT_HISTORY   == 4
KS_OT_LINK      == 8
KS_OT_STRUCTURE == 16

KsVarEngProps ==
    Members([tech_unit |-> String, type |-> Number],
            <<"tech_unit", "type">>, <<"tech_unit", "type">>)

KsDomainEngProps == Sole("class_identifier", String)

KsLinkEngProps ==
    Members([link_type |-> Number, opposite_role_identifier |-> String,
             association_identifier |-> String],
            <<"link_type", "opposite_role_identifier", "association_identifier">>,
            <<"link_type", "opposite_role_identifier", "association_identifier">>)

KsHistoryEngProps ==
    Members([history_type |-> Number, default_interpolation |-> Number,
             supported_interpolations |-> Number, type_identifier |-> String],
            <<"history_type", "default_interpolation", "supported_interpolations",
              "type_identifier">>,
            <<"history_type", "default_interpolation", "supported_interpolations",
              "type_identifier">>)

KsStructureEngProps == Sole("structure_flags", Number)

EngPropsCommon ==
    Members([identifier |-> String, creation_time |-> KsTime,
             comment |-> String, access_mode |-> Number, semantic_flags |-> Number],
            <<"identifier", "creation_time", "comment", "access_mode",
              "semantic_flags">>,
            <<"identifier", "creation_time", "comment", "access_mode",
              "semantic_flags">>)

KsEngProps ==
    KsXdrUnion(KS_OT_VARIABLE :> KsVarEngProps @@ KS_OT_DOMAIN :> KsDomainEngProps
               @@ KS_OT_LINK :> KsLinkEngProps @@ KS_OT_HISTORY :> KsHistoryEngProps
               @@ KS_OT_STRUCTURE :> KsStructureEngProps,
               EngPropsCommon)

\* The properties as they were in version 1 of the protocol.
KsLinkEngPropsV1 ==
    Members([link_type |-> Number, opposite_role_identifier |-> String,
             class_identifier |-> String],
            <<"link_type", "opposite_role_identifier", "class_identifier">>,
            <<"link_type", "opposite_role_identifier", "class_identifier">>)

EngPropsCommonV1 ==
    Members([identifier |-> String, creation_time |-> KsTime,
             comment |-> String, access_mode |-> Number],
            <<"identifier", "creation_time", "comment", "access_mode">>,
            <<"identifier", "creation_time", "comment", "access_mode">>)

KsEngPropsV1 ==
    KsXdrUnion(KS_OT_VARIABLE :> KsVarEngProps @@ KS_OT_DOMAIN :> Empty
               @@ IF V1PlusCompatible
                  THEN KS_OT_LINK :> KsLinkEngPropsV1
                       @@ KS_OT_HISTORY :> KsHistoryEngProps
                  ELSE <<>>,
               EngPropsCommonV1)

KsVarCurrProps ==
    Members([value |-> KsPtrHandle(KsValue), time |-> KsTime, state |-> Number],
            <<"value", "time", "state">>, <<"value", "time", "state">>)

KsCurrProps ==
    KsXdrUnion(KS_OT_VARIABLE :> KsVarCurrProps @@ KS_OT_DOMAIN :> Empty, Empty)

-----------------------------------------------------------------------------
(* Parameters and results of the basic services.                           *)

KsGetPPParams ==
    Members([path |-> String, type_mask |-> Number, name_mask |-> String],
            <<"path", "type_mask", "name_mask">>,
            <<"path", "type_mask", "name_mask">>)

KsGetPPResult ==
    KsResultWith([items |-> KsList(KsPtrHandle(KsEngPropsV1))], <<"items">>, <<"items">>)

KsGetEPParams ==
    Members([path |-> String, type_mask |-> Number, name_mask |-> String,
             scope_flags |-> Number],
            <<"path", "type_mask", "name_mask", "scope_flags">>,
            <<"path", "type_mask", "name_mask", "scope_flags">>)

KsGetEPResult ==
    KsResultWith([items |-> KsList(KsPtrHandle(KsEngProps))], <<"items">>, <<"items">>)

KsGetVarParams == Sole("identifiers", KsArray(String))

KsGetVarItemResult ==
    KsResultWith([item |-> KsPtrHandle(KsCurrProps)], <<"item">>, <<"item">>)

KsGetVarResult == KsResultWith([items |-> KsArray(KsGetVarItemResult)], <<"items">>, <<"items">>)

KsSetVarItem ==
    Members([path_and_name |-> String, curr_props |-> KsPtrHandle(KsCurrProps)],
            <<"path_and_name", "curr_props">>, <<"path_and_name", "curr_props">>)

KsSetVarParams == Sole("items", KsArray(KsSetVarItem))

KsSetVarResult == KsResultWith([results |-> KsArray(KsResult)], <<"results">>, <<"results">>)

KsExgDataParams ==
    Members([set_vars |-> KsArray(KsSetVarItem), get_vars |-> KsArray(String)],
            <<"set_vars", "get_vars">>, <<"set_vars", "get_vars">>)

KsExgDataResult ==
    KsResultWith([results |-> KsArray(KsResult), items |-> KsArray(KsGetVarItemResult)],
           <<"results", "items">>, <<"results", "items">>)

-----------------------------------------------------------------------------
(* Histories.                                                              *)

KsAbsRelTime ==
    KsXdrUnion([type \in {0, 1} |->
                  Members([sec |-> Number, usec |-> Number],
                          <<"sec", "usec">>, <<"sec", "usec">>)], Empty)

KsTimeSel ==
    Members([ip_mode |-> Number, from |-> KsAbsRelTime, to |-> KsAbsRelTime,
             delta |-> KsTimeSpan],
            <<"ip_mode", "from", "to", "delta">>, <<"ip_mode", "from", "to", "delta">>)

KsSelector ==
    KsXdrUnion(0 :> Empty @@ 1 :> KsTimeSel @@ 2 :> Sole("mask", String), Empty)

KsGetHistItem ==
    Members([part_id |-> String, sel |-> KsPtrHandle(KsSelector)],
            <<"part_id", "sel">>, <<"part_id", "sel">>)

KsGetHistParams ==
    Members([paths |-> KsArray(String), max_entries |-> Number,
             items |-> KsArray(KsGetHistItem)],
            <<"paths", "max_entries", "items">>, <<"paths", "max_entries", "items">>)

KsGetHistResultItem ==
    KsResultWith([value |-> KsPtrHandle(KsValue)], <<"value">>, <<"value">>)

KsGetHistSingleResult ==
    KsResultWith([items |-> KsArray(KsGetHistResultItem)], <<"items">>, <<"items">>)

KsGetHistResult ==
    KsResultWith([replies |-> KsArray(KsGetHistSingleResult)], <<"replies">>, <<"replies">>)

-----------------------------------------------------------------------------
(* Object management.                                                      *)

KS_PMH_BEFORE == 3
KS_PMH_AFTER  == 4

KsPlacementHint ==
    Class([hint |-> Number, place_path |-> String],
          When(<<"hint">>, {KS_PMH_BEFORE, KS_PMH_AFTER}, <<"place_path">>),
          When(<<"hint">>, {KS_PMH_BEFORE, KS_PMH_AFTER}, <<"place_path">>))

KsLinkItem ==
    Members([link_path |-> String, element_path |-> String,
             place |-> KsPlacementHint, opposite_place |-> KsPlacementHint],
            <<"link_path", "element_path", "place", "opposite_place">>,
            <<"link_path", "element_path", "place", "opposite_place">>)

KsUnlinkItem ==
    Members([link_path |-> String, element_path |-> String],
            <<"link_path", "element_path">>, <<"link_path", "element_path">>)

KsCreateObjItem ==
    Members([factory_path |-> String, new_path |-> String,
             place |-> KsPlacementHint, parameters |-> KsArray(KsSetVarItem),
             links |-> KsArray(KsLinkItem)],
            <<"factory_path", "new_path", "place", "parameters", "links">>,
            <<"factory_path", "new_path", "place", "parameters", "links">>)

KsCreateObjParams == Sole("items", KsArray(KsCreateObjItem))

KsCreateObjResultItem ==
    Class([result |-> Number, param_results |-> KsArray(Number),
           link_results |-> KsArray(Number)],
          When(<<"result">>, {KS_ERR_BADINITPARAM}, <<"param_results", "link_results">>),
          When(<<"result">>, {KS_ERR_BADINITPARAM}, <<"param_results", "link_results">>))

KsCreateObjResult ==
    KsResultWith([obj_results |-> KsArray(KsCreateObjResultItem)],
           <<"obj_results">>, <<"obj_results">>)

KsDeleteObjParams == Sole("paths", KsArray(String))
KsDeleteObjResult == KsResultWith([results |-> KsArray(Number)], <<"results">>, <<"results">>)

KsLinkParams   == Sole("items", KsArray(KsLinkItem))
KsLinkResult   == KsResultWith([results |-> KsArray(Number)], <<"results">>, <<"results">>)
KsUnlinkParams == Sole("items", KsArray(KsUnlinkItem))
KsUnlinkResult == KsResultWith([results |-> KsArray(Number)], <<"results">>, <<"results">>)

KsGetCanonicalPathParams == Sole("paths", KsArray(String))

KsGetCanonicalPathResultItem ==
    KsResultWith([canonical_path |-> String], <<"canonical_path">>, <<"canonical_path">>)

KsGetCanonicalPathResult ==
    KsResultWith([results |-> KsArray(KsGetCanonicalPathResultItem)],
           <<"results">>, <<"results">>)

KsRenameObjItem ==
    Members([old_path |-> String, new_path |-> String,
             new_place |-> KsPlacementHint],
            <<"old_path", "new_path", "new_place">>,
            <<"old_path", "new_path", "new_place">>)

KsRenameObjParams == Sole("items", KsArray(KsRenameObjItem))
KsRenameObjResult == KsResultWith([results |-> KsArray(Number)], <<"results">>, <<"results">>)

-----------------------------------------------------------------------------
(* Registration with the manager.                                          *)

KsServerDesc ==
    Members([name |-> String, protocol_version |-> UShort],
            <<"name", "protocol_version">>, <<"name", "protocol_version">>)

KsRegistrationParams ==
    Members([server |-> KsServerDesc, port |-> UShort, time_to_live |-> Number],
            <<"server", "port", "time_to_live">>, <<"server", "port", "time_to_live">>)

KsUnregistrationParams == Sole("server", KsServerDesc)

KsGetServerResult ==
    KsResultWith([server |-> KsServerDesc, port |-> UShort, expires_at |-> KsTime,
            living |-> Bool],
           <<"server", "port", "expires_at", "living">>,
           <<"server", "port", "expires_at", "living">>)
=============================================================================
