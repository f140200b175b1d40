---------------------------- MODULE PoolExecutor ----------------------------
(***************************************************************************)
(* The worker pool of leptos_workers/src/executors/pool_executor.rs, seen   *)
(* from the main thread: the vector of slots, the calls that take a slot,   *)
(* the futures, streams and proxy tasks that give it back, and abort().     *)
(*                                                                          *)
(* JavaScript runs one task at a time, so every section of the code between *)
(* two awaits is one action.  A run is one call of run / stream /           *)
(* stream_callback / channel; its phase says how far the value the call     *)
(* returned has got.                                                        *)
(*                                                                          *)
(* Workers are numbered in the order they are started.  A slot is a         *)
(* WorkerPoolState behind its mutex; its `id` is its position in the vector *)
(* and decides nothing, so it is left out.  A mutex that a panic left       *)
(* locked (a trap in wasm32 runs no destructor) is the field `locked`.      *)
(***************************************************************************)
EXTENDS Integers, Sequences, FiniteSets

CONSTANTS
    Runs,           \* the calls made on the pool
    Kind,           \* the flavour of the worker the pool is for
    InitialSize,    \* the argument of PoolExecutor::new
    MaxOutstanding, \* how many runs the client lets be outstanding at once
    Aborts,         \* what the client does with abort handles, see MayAbort
    CanDrop,        \* whether the client drops futures and streams unfinished
    Faults          \* what may fail, see the three names below

ASSUME RunsAssumption == IsFiniteSet(Runs)
ASSUME KindAssumption == Kind \in {"future", "stream", "callback", "channel"}
ASSUME SizeAssumption == InitialSize \in Nat /\ MaxOutstanding \in Nat
ASSUME ClientAssumption ==
    /\ Aborts \in {"never", "careful", "any"}
    /\ CanDrop \in BOOLEAN
    \* A channel has no future to drop: its proxy task always runs to its end.
    /\ Kind = "channel" => Aborts # "careful" /\ ~CanDrop
\* create: CreateWorkerError::NewWorker.  unexpected: any other
\* CreateWorkerError.  post: serializing or posting a request panics.
ASSUME FaultsAssumption == Faults \subseteq {"create", "unexpected", "post"}

VARIABLES
    pool,       \* "unset", or how PoolExecutor::new ended: "ok" or "err"
    slots,      \* PoolExecutor::workers
    created,    \* how many workers were ever started
    terminated, \* the workers on which terminate() was called
    phase,      \* phase[r]: how far run r has got
    ticket      \* ticket[r]: the slot, generation and worker run r was given

vars == <<pool, slots, created, terminated, phase, ticket>>

(***************************************************************************)
(* new        the call was not made           done      the slot given back *)
(* failed     it returned an error            dropped   dropped unfinished  *)
(* crashed    it panicked, holding the slot   panicked  panicked when polled*)
(* held       running                         aborted   aborted and dropped *)
(* ready      its answer has arrived          by a careful client           *)
(***************************************************************************)
Phases == {"new", "failed", "crashed", "held", "ready", "done", "dropped",
           "panicked", "aborted"}

Slot == [handle : Nat, available : BOOLEAN, generation : Nat, locked : BOOLEAN]

Ticket == [slot : Nat, generation : Nat, handle : Nat]

NoTicket == [slot |-> 0, generation |-> 0, handle |-> 0]

\* The runs that took a slot and have not given it back.
Outstanding ==
    {r \in Runs : phase[r] \in {"crashed", "held", "ready", "dropped", "panicked"}}

\* The runs whose caller was given an AbortHandle.
HasHandle(r) ==
    phase[r] \in {"held", "ready", "done", "dropped", "panicked", "aborted"}

TypeOK ==
    /\ pool \in {"unset", "ok", "err"}
    /\ slots \in Seq(Slot)
    /\ created \in Nat
    /\ terminated \subseteq Nat
    /\ phase \in [Runs -> Phases]
    /\ ticket \in [Runs -> Ticket]

Init ==
    /\ pool = "unset"
    /\ slots = <<>>
    /\ created = 0
    /\ terminated = {}
    /\ phase = [r \in Runs |-> "new"]
    /\ ticket = [r \in Runs |-> NoTicket]

-----------------------------------------------------------------------------
(* The pool and its slots.                                                 *)

WorkerPoolState(w) ==
    [handle |-> w, available |-> TRUE, generation |-> 0, locked |-> FALSE]

(***************************************************************************)
(* new starts the workers one by one.  When one cannot be started the       *)
(* handles of those before it are dropped, which does not stop the workers. *)
(***************************************************************************)
NewPool ==
    /\ pool = "unset"
    /\ pool' = "ok"
    /\ slots' = [i \in 1..InitialSize |-> WorkerPoolState(i)]
    /\ created' = InitialSize
    /\ UNCHANGED <<terminated, phase, ticket>>

NewPoolFails ==
    /\ pool = "unset"
    /\ Faults \cap {"create", "unexpected"} # {}
    /\ pool' = "err"
    /\ created' \in 0..(InitialSize - 1)
    /\ UNCHANGED <<slots, terminated, phase, ticket>>

\* Plausible bug: the search forgets to look at `available`.
FreeIfUnlocked(i) == ~slots[i].locked

\* What the search of get_or_create_worker stops at: try_lock succeeds and the
\* slot is available.
Free(i) == ~slots[i].locked /\ slots[i].available

FirstFree(i) == Free(i) /\ \A j \in 1..(i - 1) : ~Free(j)

\* Plausible bug: the pool grows as soon as its first slot is busy.
FirstNotFree == \A i \in DOMAIN slots : i = 1 => ~Free(i)

NoneFree == \A i \in DOMAIN slots : ~Free(i)

-----------------------------------------------------------------------------
(* The calls.                                                              *)

MayCall(r) ==
    /\ pool = "ok"
    /\ phase[r] = "new"
    /\ Cardinality(Outstanding) < MaxOutstanding

(***************************************************************************)
(* stream and channel post their first message inside the call, with the    *)
(* slot's mutex held; run and stream_callback post it when first polled.    *)
(***************************************************************************)
PostsInCall == Kind \in {"stream", "channel"}

\* Plausible bugs: the generation is not stored, or counts down.
NotBumped(s, crash) == [s EXCEPT !.locked = crash]

BumpedDown(s, crash) == [s EXCEPT !.generation = @ - 1, !.locked = crash]

Bumped(s, crash) == [s EXCEPT !.generation = @ + 1, !.locked = crash]

\* Plausible bug: the handle is made before the generation is raised.
DispatchEarly(r, i, s, crash) ==
    /\ crash => "post" \in Faults /\ PostsInCall
    /\ phase' = [phase EXCEPT ![r] = IF crash THEN "crashed" ELSE "held"]
    /\ ticket' = [ticket EXCEPT ![r] = [slot       |-> i,
                                        generation |-> s.generation,
                                        handle     |-> s.handle]]

\* The part of a call after get_or_create_worker gave it slot i in state s.
Dispatch(r, i, s, crash) ==
    /\ crash => "post" \in Faults /\ PostsInCall
    /\ phase' = [phase EXCEPT ![r] = IF crash THEN "crashed" ELSE "held"]
    /\ ticket' = [ticket EXCEPT ![r] = [slot       |-> i,
                                        generation |-> s.generation + 1,
                                        handle     |-> s.handle]]

\* Plausible bug: the slot that is found stays available.
ReuseKeepsAvailable(r) ==
    /\ MayCall(r)
    /\ \E i \in DOMAIN slots, crash \in BOOLEAN :
        /\ FirstFree(i)
        /\ Dispatch(r, i, slots[i], crash)
        /\ slots' = [slots EXCEPT ![i] = Bumped(slots[i], crash)]
    /\ UNCHANGED <<pool, created, terminated>>

Reuse(r) ==
    /\ MayCall(r)
    /\ \E i \in DOMAIN slots, crash \in BOOLEAN :
        LET s == [slots[i] EXCEPT !.available = FALSE] IN
        /\ FirstFree(i)
        /\ Dispatch(r, i, s, crash)
        /\ slots' = [slots EXCEPT ![i] = Bumped(s, crash)]
    /\ UNCHANGED <<pool, created, terminated>>

\* The new worker is used at once, and is pushed as WorkerPoolState::new made
\* it: available.
Expand(r) ==
    /\ MayCall(r)
    /\ NoneFree
    /\ \E crash \in BOOLEAN :
        LET s == WorkerPoolState(created + 1) IN
        /\ Dispatch(r, Len(slots) + 1, s, crash)
        /\ slots' = Append(slots, Bumped(s, crash))
    /\ created' = created + 1
    /\ UNCHANGED <<pool, terminated>>

ExpandFails(r) ==
    /\ MayCall(r)
    /\ NoneFree
    /\ Faults \cap {"create", "unexpected"} # {}
    /\ phase' = [phase EXCEPT ![r] = "failed"]
    /\ UNCHANGED <<pool, slots, created, terminated, ticket>>

\* The functions #[worker] generates keep the outcome of PoolExecutor::new in a
\* thread-local, and answer every later call with a clone of its error.
CallRefused(r) ==
    /\ pool = "err"
    /\ phase[r] = "new"
    /\ phase' = [phase EXCEPT ![r] = "failed"]
    /\ UNCHANGED <<pool, slots, created, terminated, ticket>>

-----------------------------------------------------------------------------
(* The value the call returned, as its owner polls or drops it.            *)

\* The first poll of run or stream_callback posts the request.
PollPanics(r) ==
    /\ "post" \in Faults
    /\ ~PostsInCall
    /\ phase[r] = "held"
    /\ phase' = [phase EXCEPT ![r] = "panicked"]
    /\ UNCHANGED <<pool, slots, created, terminated, ticket>>

(***************************************************************************)
(* The last message of the run reached the main thread; a worker that was   *)
(* terminated delivers none.  A channel ends instead when the client drops  *)
(* the sender, whatever its worker does.  At this level any held run may    *)
(* complete: which do, once two share a worker, depends on the messages.    *)
(***************************************************************************)
Complete(r) ==
    /\ phase[r] = "held"
    /\ Kind = "channel" \/ ticket[r].handle \notin terminated
    /\ phase' = [phase EXCEPT ![r] = "ready"]
    /\ UNCHANGED <<pool, slots, created, terminated, ticket>>

\* Plausible bug: the run ends and the slot stays taken.
ReleaseForgets(r) ==
    /\ phase[r] = "ready"
    /\ ~slots[ticket[r].slot].locked
    /\ phase' = [phase EXCEPT ![r] = "done"]
    /\ UNCHANGED <<pool, slots, created, terminated, ticket>>

\* release_worker_after_future, release_worker_after_stream and the end of the
\* channel's proxy task: whatever the slot holds by now becomes available.
Release(r) ==
    LET i == ticket[r].slot IN
    /\ phase[r] = "ready"
    /\ ~slots[i].locked
    /\ slots' = [slots EXCEPT ![i].available = TRUE]
    /\ phase' = [phase EXCEPT ![r] = "done"]
    /\ UNCHANGED <<pool, created, terminated, ticket>>

\* lock() on a mutex that is never unlocked again panics.
ReleasePanics(r) ==
    /\ phase[r] = "ready"
    /\ slots[ticket[r].slot].locked
    /\ phase' = [phase EXCEPT ![r] = "panicked"]
    /\ UNCHANGED <<pool, slots, created, terminated, ticket>>

\* Plausible bug: dropping the future frees the slot while its worker works on.
DropFrees(r) ==
    /\ CanDrop
    /\ phase[r] \in {"held", "ready"}
    /\ phase' = [phase EXCEPT ![r] = "dropped"]
    /\ slots' = [slots EXCEPT ![ticket[r].slot].available = TRUE]
    /\ UNCHANGED <<pool, created, terminated, ticket>>

Drop(r) ==
    /\ CanDrop
    /\ phase[r] \in {"held", "ready"}
    /\ phase' = [phase EXCEPT ![r] = "dropped"]
    /\ UNCHANGED <<pool, slots, created, terminated, ticket>>

-----------------------------------------------------------------------------
(* AbortHandle::abort.                                                     *)

(***************************************************************************)
(* any      a handle is used at any time, any number of times               *)
(* careful  it is used once, on a run whose answer has not arrived, and the *)
(*          future or stream is dropped together with it                    *)
(***************************************************************************)
MayAbort(r) ==
    \/ Aborts = "any" /\ HasHandle(r)
    \/ Aborts = "careful" /\ phase[r] = "held"

Left(r, p) ==
    phase' = IF Aborts = "careful" THEN [phase EXCEPT ![r] = p] ELSE phase

\* Plausible bug: a slot that was given back is not spared.
ArmedWhenAvailable(r) ==
    LET s == slots[ticket[r].slot] IN
    ~s.locked /\ s.generation = ticket[r].generation

\* The condition under which abort() does anything at all.
Armed(r) ==
    LET s == slots[ticket[r].slot] IN
    ~s.locked /\ ~s.available /\ s.generation = ticket[r].generation

\* Plausible bug: the worker is replaced without being terminated.
KillForgets(r) == UNCHANGED terminated

Kill(r) == terminated' = terminated \union {slots[ticket[r].slot].handle}

Abort(r) ==
    /\ MayAbort(r)
    /\ Armed(r)
    /\ Kill(r)
    /\ slots' = [slots EXCEPT ![ticket[r].slot] = WorkerPoolState(created + 1)]
    /\ created' = created + 1
    /\ Left(r, "aborted")
    /\ UNCHANGED <<pool, ticket>>

\* Plausible bug: the slot is offered again although no worker replaced it.
AbortUnreplacedOffers(r) ==
    /\ "create" \in Faults
    /\ MayAbort(r)
    /\ Armed(r)
    /\ Kill(r)
    /\ Left(r, "dropped")
    /\ slots' = [slots EXCEPT ![ticket[r].slot].available = TRUE]
    /\ UNCHANGED <<pool, created, ticket>>

\* No worker to replace it with: the slot keeps the dead one.
AbortUnreplaced(r) ==
    /\ "create" \in Faults
    /\ MayAbort(r)
    /\ Armed(r)
    /\ Kill(r)
    /\ Left(r, "dropped")
    /\ UNCHANGED <<pool, slots, created, ticket>>

AbortPanics(r) ==
    /\ "unexpected" \in Faults
    /\ MayAbort(r)
    /\ Armed(r)
    /\ Kill(r)
    /\ slots' = [slots EXCEPT ![ticket[r].slot].locked = TRUE]
    /\ Left(r, "panicked")
    /\ UNCHANGED <<pool, created, ticket>>

-----------------------------------------------------------------------------
Step(r) ==
    \/ Reuse(r) \/ Expand(r) \/ ExpandFails(r) \/ CallRefused(r)
    \/ PollPanics(r) \/ Complete(r) \/ Release(r) \/ ReleasePanics(r) \/ Drop(r)
    \/ Abort(r) \/ AbortUnreplaced(r) \/ AbortPanics(r)

Next == NewPool \/ NewPoolFails \/ \E r \in Runs : Step(r)

Spec == Init /\ [][Next]_vars

-----------------------------------------------------------------------------
(* Properties that hold for every client and every fault.                  *)

\* A slot that the search passes over, because it is unavailable or its mutex
\* is stuck, was taken by a run that has not given it back, and by no run since:
\* a slot is never lost except to a run that still owes it.
BusySlotIsOwed ==
    \A i \in DOMAIN slots : ~Free(i) =>
        \E r \in Outstanding :
            ticket[r] = [slot       |-> i,
                         generation |-> slots[i].generation,
                         handle     |-> slots[i].handle]

\* The pool grows no further than the largest number of runs outstanding at
\* once: "allowed to expand infinitely if necessary", and only if necessary.
PoolSizeBounded ==
    \/ Len(slots) <= InitialSize
    \/ Len(slots) <= MaxOutstanding

\* A worker the pool was created with serves one run at a time, whatever is
\* aborted, dropped or fails: two outstanding runs never share it.
OriginalExclusive ==
    \A r, q \in Outstanding :
        r # q /\ ticket[r].handle = ticket[q].handle =>
            ticket[r].handle > InitialSize

\* The generation counter tells apart all the runs one worker was ever given,
\* finished or not, so a handle is never armed for another run of its worker.
GenerationsDistinct ==
    \A r, q \in Runs :
        r # q /\ ticket[r].handle # 0 /\ ticket[r].handle = ticket[q].handle =>
            ticket[r].generation # ticket[q].generation

\* No worker is leaked by calls, aborts and failed replacements: each one
\* started is terminated or still in its slot (unless new itself failed).
WorkersAccountedFor ==
    pool = "ok" =>
        \A w \in 1..created :
            w \in terminated \/ \E i \in DOMAIN slots : slots[i].handle = w

\* abort() only ever terminates a worker that an outstanding run was given,
\* never one that sits idle in the pool.
AbortSparesIdle ==
    [][\A w \in terminated' \ terminated :
        \E r \in Outstanding : ticket[r].handle = w]_vars

-----------------------------------------------------------------------------
(* Properties that hold for a client that keeps MaxOutstanding <= InitialSize*)
(* and aborts with care, and fail for others.                              *)

\* "This executor will run requests on the first available worker": no two
\* outstanding runs are on the same worker.
Exclusive ==
    \A r, q \in Outstanding : r # q => ticket[r].handle # ticket[q].handle

\* A slot is made available only after the run that has its worker is done
\* (the comment on the sentinel of release_worker_after_stream).
AvailableAfterDone ==
    \A i \in DOMAIN slots : slots[i].available =>
        \A r \in Outstanding : ticket[r].handle # slots[i].handle

\* abort() leads to "creation of a new worker in the pool to replace it": a
\* slot that is offered to the next call holds a live worker.
AvailableIsAlive ==
    \A i \in DOMAIN slots : slots[i].available => slots[i].handle \notin terminated

\* A handle that would terminate something would terminate the worker of its
\* own run, and that run is still outstanding.
ArmedHandleIsCurrent ==
    \A r \in Runs : HasHandle(r) /\ Armed(r) =>
        /\ r \in Outstanding
        /\ slots[ticket[r].slot].handle = ticket[r].handle

\* The handle "can be used to abort a running worker immediately": while a run
\* is in progress on the live worker of an unlocked slot, its handle is armed.
RunningIsAbortable ==
    \A r \in Runs :
        LET s == slots[ticket[r].slot] IN
        phase[r] = "held" /\ s.handle = ticket[r].handle /\ ~s.locked => Armed(r)

\* A slot that was taken is given back, if nothing fails and nobody drops or
\* aborts (checked with the fairness of PoolMessages).
SlotsComeBack ==
    \A i \in 1..InitialSize :
        i \in DOMAIN slots /\ ~slots[i].available ~>
            i \in DOMAIN slots /\ slots[i].available
=============================================================================
