-------------------------- MODULE TransferableTypes --------------------------
(***************************************************************************)
(* The types of leptos_workers/src/messages/transferable_types: what they   *)
(* become in JavaScript, which of their objects have to be transferred, and *)
(* how they are made again on the other side.                               *)
(*                                                                          *)
(* An implementation of the trait TransferableType is a record with its     *)
(* values and, as functions on them, its three methods; that of a container *)
(* is made from that of the type it contains, as the code makes it.  `kept` *)
(* are the values that JavaScript can tell apart.                           *)
(***************************************************************************)
EXTENDS FiniteSets, SequencesExt

\* The key under which an object of JavaScript has its prototype: setting it
\* makes no property.
Proto == "__proto__"

(***************************************************************************)
(* The values of JavaScript, with the objects they consist of, buffers of   *)
(* views included.                                                          *)
(***************************************************************************)
JsNull == [js |-> "null", objects |-> {}]

JsLeaf(kind, o) == [js |-> kind, object |-> o, objects |-> {o}]

JsArray(s) == [js |-> "array", items |-> s, objects |-> UNION {s[i].objects : i \in DOMAIN s}]

JsRecord(f) == [js |-> "record", entries |-> f, objects |-> UNION {f[k].objects : k \in DOMAIN f}]

-----------------------------------------------------------------------------
\* The signatures of the three methods.
TransferableType(T, objects) ==
    /\ T.kept \subseteq T.values
    /\ T.underlying \in [T.values -> Seq(objects)]
    /\ T.to_js \in [T.values -> DOMAIN T.from_js]
    /\ T.from_js \in [DOMAIN T.from_js -> T.values]

-----------------------------------------------------------------------------
(***************************************************************************)
(* "object" is JsValue and the types of base.rs, "view" is Uint8Array, the  *)
(* view of a buffer, which is the object that is transferred.  The casts of *)
(* from_js_value are unchecked.                                             *)
(***************************************************************************)
Leaf(kind, objects) ==
    [values     |-> objects,
     kept       |-> objects,
     underlying |-> [o \in objects |-> <<o>>],
     to_js      |-> [o \in objects |-> JsLeaf(kind, o)],
     from_js    |-> [j \in {JsLeaf(kind, o) : o \in objects} |-> j.object]]

-----------------------------------------------------------------------------
(* Option: None is <<>>, Some(v) is <<v>>.                                 *)

OptionValues(T) == {<<>>} \union {<<v>> : v \in T.values}

OptionUnderlying(T) ==
    [v \in OptionValues(T) |-> IF v = <<>> THEN <<>> ELSE T.underlying[v[1]]]

OptionToJs(T) == [v \in OptionValues(T) |-> IF v = <<>> THEN JsNull ELSE T.to_js[v[1]]]

OptionFromJs(T) ==
    [j \in {JsNull} \union DOMAIN T.from_js |-> IF j = JsNull THEN <<>> ELSE <<T.from_js[j]>>]

\* Some of a value that is null in JavaScript, as Some(None), comes back as None.
OptionOf(T) ==
    [values     |-> OptionValues(T),
     kept       |-> {<<>>} \union {<<v>> : v \in {w \in T.kept : T.to_js[w] # JsNull}},
     underlying |-> OptionUnderlying(T),
     to_js      |-> OptionToJs(T),
     from_js    |-> OptionFromJs(T)]

-----------------------------------------------------------------------------
(* Vec, of up to n elements.                                               *)

\* Plausible bug: a container does not ask its elements.
VecUnderlyingNothing(T, n) == [v \in BoundedSeq(T.values, n) |-> <<>>]

VecUnderlying(T, n) ==
    [v \in BoundedSeq(T.values, n) |-> FlattenSeq([i \in DOMAIN v |-> T.underlying[v[i]]])]

\* Plausible bug: unshift for push.
VecToJsUnshifts(T, n) ==
    [v \in BoundedSeq(T.values, n) |-> JsArray(Reverse([i \in DOMAIN v |-> T.to_js[v[i]]]))]

VecToJs(T, n) ==
    [v \in BoundedSeq(T.values, n) |-> JsArray([i \in DOMAIN v |-> T.to_js[v[i]]])]

VecFromJs(T, n) ==
    [j \in Range(VecToJs(T, n)) |-> [i \in DOMAIN j.items |-> T.from_js[j.items[i]]]]

VecOf(T, n) ==
    [values     |-> BoundedSeq(T.values, n),
     kept       |-> BoundedSeq(T.kept, n),
     underlying |-> VecUnderlying(T, n),
     to_js      |-> VecToJs(T, n),
     from_js    |-> VecFromJs(T, n)]

-----------------------------------------------------------------------------
(* HashMap, with some of the given keys.                                   *)

Maps(keys, S) == UNION {[K -> S] : K \in {K \in SUBSET keys : IsFiniteSet(K)}}

\* The order of a HashMap is arbitrary; one is chosen.
MapUnderlying(T, keys) ==
    [v \in Maps(keys, T.values) |->
        LET order == SetToSeq(DOMAIN v) IN
        FlattenSeq([i \in DOMAIN order |-> T.underlying[v[order[i]]]])]

MapToJs(T, keys) ==
    [v \in Maps(keys, T.values) |-> JsRecord([k \in DOMAIN v \ {Proto} |-> T.to_js[v[k]]])]

MapFromJs(T, keys) ==
    [j \in Range(MapToJs(T, keys)) |-> [k \in DOMAIN j.entries |-> T.from_js[j.entries[k]]]]

\* The value under the key of the prototype does not come back.
MapOf(T, keys) ==
    [values     |-> Maps(keys, T.values),
     kept       |-> Maps(keys \ {Proto}, T.kept),
     underlying |-> MapUnderlying(T, keys),
     to_js      |-> MapToJs(T, keys),
     from_js    |-> MapFromJs(T, keys)]
=============================================================================
