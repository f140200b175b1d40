---------------------------- MODULE TransferStore ----------------------------
(***************************************************************************)
(* The thread-local store of leptos_workers/src/messages/transferable.rs,   *)
(* in which the objects of a message are collected while it is serialized,  *)
(* and the posting of the message (worker_message.rs).                      *)
(*                                                                          *)
(* Serialization calls the Serialize implementations of the user, and those *)
(* may post messages of their own: serializations nest.  The stack holds    *)
(* the calls of serialize_to_worker_msg that have not returned.  A panic is *)
(* a trap, which abandons all of them and leaves the store as it is.        *)
(***************************************************************************)
EXTENDS Naturals, TransferableTypes

CONSTANTS
    Objects,     \* the transferable objects of the thread
    Impls,       \* the types of the fields of messages: how each is transferable
    IdCount,     \* how many values a store id has, 2^64 in the code
    MaxMessages, \* how many messages are begun
    MaxFields,   \* how many fields they have, all together
    MayNest,     \* whether a Serialize implementation posts a message
    MayFail      \* whether a Serialize implementation returns an error

\* Ids come back only after more serializations than are ever begun.
ASSUME IdAssumption ==
    /\ IdCount \in Nat \ {0, 1} /\ MaxMessages \in Nat
    /\ IdCount > 2 * MaxMessages
ASSUME ImplsAssumption == \A T \in DOMAIN Impls : TransferableType(Impls[T], Objects)

ASSUME FieldAssumption == MaxFields \in Nat /\ MayNest \in BOOLEAN /\ MayFail \in BOOLEAN

VARIABLES
    store,      \* TRANSFER_STORE_SERIALIZATION
    counter,    \* the COUNTER of unique_id
    stack,      \* per call: the id of its store, and the fields it has serialized
    attached,   \* the objects that are still this thread's
    message,    \* the message that was posted last
    begun,      \* how many serializations were begun
    fields      \* how many fields were serialized

vars == <<store, counter, stack, attached, message, begun, fields>>

Types == DOMAIN Impls

\* Impls as a definition, which TLC evaluates once.
Methods == Impls

Field == UNION {[type : {T}, value : Methods[T].values] : T \in Types}

\* The methods of the type of a field.
Underlying(f) == Methods[f.type].underlying[f.value]

ToJs(f) == Methods[f.type].to_js[f.value]

FromJs(f, j) == Methods[f.type].from_js[j]

Kept(f) == f.value \in Methods[f.type].kept

TypeOK ==
    /\ store.objects \in Seq(Objects) /\ store.id \in 0..(IdCount - 1)
    /\ counter \in 0..(IdCount - 1)
    /\ \A i \in DOMAIN stack : stack[i].id \in 0..(IdCount - 1) /\ stack[i].fields \in Seq(Field)
    /\ attached \subseteq Objects
    /\ message.fields \in Seq(Field) /\ message.transfers \in Seq(Objects)
    /\ begun \in 0..MaxMessages /\ fields \in 0..MaxFields

\* Plausible bug: the counter does not roll.
NoRoll(n) == n + 1

\* fetch_add wraps.
AfterId(n) == (n + 1) % IdCount

\* A thread that is new, and one whose ids are about to roll.
Init ==
    /\ \E n \in {0, IdCount - 2} : store = [objects |-> <<>>, id |-> n] /\ counter = n + 1
    /\ stack = <<>>
    /\ attached = Objects
    /\ message = [fields |-> <<>>, data |-> <<>>, transfers |-> <<>>]
    /\ begun = 0 /\ fields = 0

Frame == Last(stack)

MayBegin ==
    /\ stack = <<>> \/ MayNest
    /\ begun < MaxMessages

\* Plausible bug: what is in the store is left there.
BeginKeepsStore ==
    /\ MayBegin
    /\ stack' = Append(stack, [id |-> store.id, fields |-> <<>>])
    /\ begun' = begun + 1
    /\ UNCHANGED <<store, counter, attached, message, fields>>

\* serialize_to_worker_msg up to to_value.
Begin ==
    /\ MayBegin
    /\ store' = [objects |-> <<>>, id |-> counter]
    /\ counter' = AfterId(counter)
    /\ stack' = Append(stack, [id |-> counter, fields |-> <<>>])
    /\ begun' = begun + 1
    /\ UNCHANGED <<attached, message, fields>>

\* serialize, for one field of the message that is serialized now.
Serialize(f) ==
    /\ stack # <<>>
    /\ fields < MaxFields
    /\ store' = [store EXCEPT !.objects = @ \o Underlying(f)]
    /\ stack' = [stack EXCEPT ![Len(stack)].fields = Append(@, f)]
    /\ fields' = fields + 1
    /\ UNCHANGED <<counter, attached, message, begun>>

SerializeFails ==
    /\ MayFail
    /\ stack # <<>>
    /\ stack' = <<>>
    /\ UNCHANGED <<store, counter, attached, message, begun, fields>>

\* The store is taken out, which leaves one with a new id.
Take ==
    /\ stack # <<>>
    /\ store' = [objects |-> <<>>, id |-> counter]
    /\ counter' = AfterId(counter)

\* The message that is finished.
Message ==
    [fields    |-> Frame.fields,
     data      |-> [i \in DOMAIN Frame.fields |-> ToJs(Frame.fields[i])],
     transfers |-> store.objects]

DataObjects(m) == UNION {m.data[i].objects : i \in DOMAIN m.data}

\* postMessage refuses an object that is listed twice or was transferred before.
Accepted(m) ==
    /\ IsInjective(m.transfers)
    /\ Range(m.transfers) \union DataObjects(m) \subseteq attached

\* The rest of serialize_to_worker_msg, and post.
Post ==
    /\ Take
    /\ store.id = Frame.id
    /\ Accepted(Message)
    /\ message' = Message
    /\ attached' = attached \ Range(store.objects)
    /\ stack' = Front(stack)
    /\ UNCHANGED <<begun, fields>>

\* The assertion on the id of the store, or postMessage, panics.
PostPanics ==
    /\ Take
    /\ store.id # Frame.id \/ ~Accepted(Message)
    /\ stack' = <<>>
    /\ UNCHANGED <<attached, message, begun, fields>>

Next ==
    \/ Begin \/ SerializeFails \/ Post \/ PostPanics
    \/ \E T \in Types : \E v \in Methods[T].values : Serialize([type |-> T, value |-> v])

Spec == Init /\ [][Next]_vars

-----------------------------------------------------------------------------
\* A message is posted with the objects of its own fields, in their order, and no
\* others: none of a serialization that failed before it, of one within it, or of
\* one it is within.  (The assertion on the id of the store.)
OwnObjects ==
    message.transfers =
        FlattenSeq([i \in DOMAIN message.fields |-> Underlying(message.fields[i])])

\* "Transferred to other threads without copying": every object that is part of a
\* message is on its list, and every object on the list arrives as part of it,
\* except under the key of the prototype.
NothingCopied ==
    /\ DataObjects(message) \subseteq Range(message.transfers)
    /\ (\A i \in DOMAIN message.fields : Kept(message.fields[i]))
        => DataObjects(message) = Range(message.transfers)

\* deserialize returns what serialize was given, for the values JavaScript can
\* tell apart.
Intact ==
    \A i \in DOMAIN message.fields :
        LET f == message.fields[i] IN
        Kept(f) => FromJs(f, message.data[i]) = f.value
=============================================================================
