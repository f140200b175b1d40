----------------------------- MODULE WorkerBoot -----------------------------
(***************************************************************************)
(* The start of a worker: the files it is made of                           *)
(* (leptos_workers/src/plumbing/create_worker.rs), its script, the loading  *)
(* of the wasm module and the installation of the message handler           *)
(* (leptos_workers/src/plumbing/unifunctional_worker.rs).                   *)
(*                                                                          *)
(* Requests may be posted as soon as the worker exists.  The browser holds  *)
(* them until the script has run; the script's own onmessage then queues    *)
(* them, until init_workers replaces it and replays the queue.              *)
(*                                                                          *)
(* An event is a request, numbered in the order of posting.  A page's head, *)
(* what the build knew of the name of its output, and the worker that is    *)
(* started are fixed in the initial state.                                  *)
(***************************************************************************)
EXTENDS Integers, Sequences, FiniteSets

CONSTANTS
    Heads,      \* the sequences of <link> tags a page's head may hold
    MaxEvents,  \* how many requests are posted
    Faults      \* what may fail: "create", "script", "load", "init"

Flavours == {"future", "stream", "callback", "channel"}

\* A link is one of this build's own, one of a build whose name contains the name of
\* this one, or any other.
Link == [type : {"js", "wasm"}, build : {"own", "similar", "other"}]

ASSUME HeadsAssumption == Heads \subseteq Seq(Link)
ASSUME EventsAssumption == MaxEvents \in Nat
ASSUME FaultsAssumption == Faults \subseteq {"create", "script", "load", "init"}

VARIABLES
    head,       \* the <link> tags of the page
    named,      \* whether LEPTOS_OUTPUT_NAME or CARGO_BIN_NAME was set
    flavour,    \* which executor method the requests are posted by
    exported,   \* the flavours the module exports WORKERS_<flavour>_<name> for
    bad,        \* the requests whose data does not decode
    files,      \* the builds of the script and of the wasm module, when found
    stage,      \* how far the worker has got
    posted,     \* how many requests were posted
    port,       \* the events that have not reached the worker's onmessage
    queue,      \* the array `queue` of the script
    handled     \* the events init_workers' handler was called with, in order

page == <<head, named, flavour, exported, bad>>
vars == <<head, named, flavour, exported, bad, files, stage, posted, port, queue, handled>>

(***************************************************************************)
(* absent       not created            refused      CreateWorkerError       *)
(* starting     the script has not run broken       it could not be run     *)
(* loading      awaiting init()        unloaded     load() was rejected     *)
(* serving      handler installed      uninstalled  init_workers panicked   *)
(***************************************************************************)
Stages == {"absent", "refused", "starting", "broken", "loading", "unloaded",
           "uninstalled", "serving"}

Members(s) == {s[i] : i \in DOMAIN s}

Events == 1..posted

Builds == {"own", "similar", "other", "unknown"}

TypeOK ==
    /\ head \in Heads
    /\ named \in BOOLEAN
    /\ flavour \in Flavours
    /\ exported \subseteq Flavours
    /\ bad \subseteq 1..MaxEvents
    /\ files \in {<<>>} \union (Builds \X Builds)
    /\ stage \in Stages
    /\ posted \in 0..MaxEvents
    /\ port \in Seq(Events) /\ queue \in Seq(Events) /\ handled \in Seq(Events)

Init ==
    /\ head \in Heads
    /\ named \in BOOLEAN
    /\ flavour \in Flavours
    /\ exported \in {{}, {flavour}}
    /\ bad \in SUBSET (1..MaxEvents)
    /\ files = <<>>
    /\ stage = "absent"
    /\ posted = 0
    /\ port = <<>> /\ queue = <<>> /\ handled = <<>>

-----------------------------------------------------------------------------
(* The creation of the worker.                                             *)

\* The selector asks for an href that contains the name of the output, if the build
\* knew it: [href*='name'].
Selected(type) ==
    {i \in DOMAIN head : head[i].type = type /\ (named => head[i].build \in {"own", "similar"})}

\* query_selector returns the first.
First(type) == head[CHOOSE i \in Selected(type) : \A j \in Selected(type) : i <= j].build

\* What is served under the name of the output is its own; the default names of
\* a build without one are a guess.
Default == IF named THEN "own" ELSE "unknown"

\* find_js_wasm_urls: both from the head, or neither.
FindFiles ==
    IF Selected("js") # {} /\ Selected("wasm") # {}
    THEN <<First("js"), First("wasm")>>
    ELSE <<Default, Default>>

CreateWorker ==
    /\ stage = "absent"
    /\ files' = FindFiles
    /\ stage' = "starting"
    /\ UNCHANGED <<page, posted, port, queue, handled>>

CreateFails ==
    /\ "create" \in Faults
    /\ stage = "absent"
    /\ stage' = "refused"
    /\ UNCHANGED <<page, files, posted, port, queue, handled>>

Post ==
    /\ stage \notin {"absent", "refused"}
    /\ posted < MaxEvents
    /\ posted' = posted + 1
    /\ port' = Append(port, posted + 1)
    /\ UNCHANGED <<page, files, stage, queue, handled>>

-----------------------------------------------------------------------------
(* The script of web_module.                                               *)

\* The import, the first onmessage, and load() up to its first await.
RunScript ==
    /\ stage = "starting"
    /\ stage' = "loading"
    /\ UNCHANGED <<page, files, posted, port, queue, handled>>

ScriptFails ==
    /\ "script" \in Faults
    /\ stage = "starting"
    /\ stage' = "broken"
    /\ UNCHANGED <<page, files, posted, port, queue, handled>>

\* The first onmessage stays when loading fails.
Arrive ==
    /\ stage \in {"loading", "unloaded", "uninstalled"}
    /\ port # <<>>
    /\ queue' = Append(queue, Head(port))
    /\ port' = Tail(port)
    /\ UNCHANGED <<page, files, stage, posted, handled>>

\* A script and a module of different builds do not fit together.
LoadFails ==
    /\ stage = "loading"
    /\ "load" \in Faults \/ files[1] # files[2]
    /\ stage' = "unloaded"
    /\ UNCHANGED <<page, files, posted, port, queue, handled>>

\* The module has already set a tracing subscriber when init_workers sets one.
InitPanics ==
    /\ "init" \in Faults
    /\ stage = "loading"
    /\ files[1] = files[2]
    /\ stage' = "uninstalled"
    /\ UNCHANGED <<page, files, posted, port, queue, handled>>

-----------------------------------------------------------------------------
(* init_workers and its handler.                                           *)

(***************************************************************************)
(* Requests to futures and streams are decoded in a task of their own; the  *)
(* others within the handler, which panics when the flavour was not         *)
(* registered or the data does not decode.                                  *)
(***************************************************************************)
Panics(e) ==
    /\ flavour \in {"callback", "channel"}
    /\ flavour \notin exported \/ e \in bad

\* Plausible bugs: the queue is replayed from its end, or passed on as one event.
ReplayedBackwards(q) == [i \in DOMAIN q |-> q[Len(q) + 1 - i]]

ReplayedAtOnce(q) == <<q>>

\* The loop of set_onmessage: a panic of the handler leaves it, so that an event is
\* replayed when none before it panicked.
Replayed(q) ==
    LET reached == {i \in DOMAIN q : \A j \in 1..(i - 1) : ~Panics(q[j])} IN
    SubSeq(q, 1, Cardinality(reached))

\* Plausible bug: the handler is installed and the queue never replayed.
InitForgetsQueue ==
    /\ stage = "loading"
    /\ files[1] = files[2]
    /\ stage' = "serving"
    /\ UNCHANGED <<page, files, posted, port, queue, handled>>

(***************************************************************************)
(* load() from its await to its end, in one go: the flavours the module     *)
(* exports are registered, the handler installed and the queue replayed.    *)
(* The queue is emptied only when no event panics.                          *)
(***************************************************************************)
InitWorkers ==
    /\ stage = "loading"
    /\ files[1] = files[2]
    /\ stage' = "serving"
    /\ handled' = handled \o Replayed(queue)
    /\ queue' = IF \E e \in Members(queue) : Panics(e) THEN queue ELSE <<>>
    /\ UNCHANGED <<page, files, posted, port>>

Handle ==
    /\ stage = "serving"
    /\ port # <<>>
    /\ handled' = Append(handled, Head(port))
    /\ port' = Tail(port)
    /\ UNCHANGED <<page, files, stage, posted, queue>>

-----------------------------------------------------------------------------
Boot == RunScript \/ ScriptFails \/ LoadFails \/ InitPanics \/ InitWorkers

Next == CreateWorker \/ CreateFails \/ Post \/ Arrive \/ Boot \/ Handle

Spec == Init /\ [][Next]_vars

\* The browser runs the script, settles init(), and delivers messages.
FairSpec == Spec /\ WF_vars(Boot) /\ WF_vars(Arrive \/ Handle)

-----------------------------------------------------------------------------
\* No event is handled twice or after one that was posted later, whether it was
\* queued by the script or reached the handler itself.
HandledInOrder ==
    \A i, j \in DOMAIN handled : i < j => handled[i] < handled[j]

\* An event on which the handler panicked while the queue was replayed.
PanickedInReplay(p) == p \in Members(handled) /\ p \in Members(queue) /\ Panics(p)

\* An event is lost only when it was queued behind one on which the handler
\* panicked: the loop of set_onmessage ended there.  (Once the handler is
\* installed nothing reads the queue.)
LostOnlyBehindPanic ==
    \A e \in Events :
        \/ e \in Members(handled) \union Members(port)
        \/ stage # "serving" /\ e \in Members(queue)
        \/ \E p \in Members(queue) : p < e /\ PanickedInReplay(p)

\* Every request gets to the handler, unless the worker could not be started, or
\* the request was queued behind one on which the handler panicked.
EventuallyHandled ==
    \A e \in 1..MaxEvents :
        posted >= e ~> \/ e \in Members(handled)
                       \/ stage \in {"broken", "unloaded", "uninstalled"}
                       \/ \E p \in Members(queue) : p < e /\ PanickedInReplay(p)
=============================================================================
