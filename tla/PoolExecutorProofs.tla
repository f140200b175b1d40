------------------------- MODULE PoolExecutorProofs -------------------------
(***************************************************************************)
(* Theorems about PoolExecutor, for every set of runs, pool size, client    *)
(* and set of faults.                                                       *)
(***************************************************************************)
EXTENDS PoolExecutor, TLAPS, SequenceTheorems, FiniteSetTheorems

-----------------------------------------------------------------------------
(* What writing one slot, or pushing one, does to the vector.              *)

\* Writing slot i of a vector of slots keeps its length and the other slots.
LEMMA PutSlot ==
    ASSUME NEW s \in Seq(Slot), NEW i \in DOMAIN s, NEW t \in Slot
    PROVE  LET p == [s EXCEPT ![i] = t] IN
           /\ p \in Seq(Slot)
           /\ Len(p) = Len(s)
           /\ DOMAIN p = DOMAIN s
           /\ \A j \in DOMAIN s : p[j] = IF j = i THEN t ELSE s[j]
  BY ExceptSeq

\* Pushing a slot makes the vector one longer and keeps the slots it had.
LEMMA PushSlot ==
    ASSUME NEW s \in Seq(Slot), NEW t \in Slot
    PROVE  LET p == Append(s, t) IN
           /\ p \in Seq(Slot)
           /\ Len(p) = Len(s) + 1
           /\ DOMAIN p = DOMAIN s \union {Len(s) + 1}
           /\ p[Len(s) + 1] = t
           /\ \A j \in DOMAIN s : p[j] = s[j]
  BY AppendProperties, LenProperties

\* The vector that new makes.
LEMMA NewSlots ==
    LET p == [i \in 1..InitialSize |-> WorkerPoolState(i)] IN
    /\ p \in Seq(Slot)
    /\ Len(p) = InitialSize
    /\ DOMAIN p = 1..InitialSize
    /\ \A j \in 1..InitialSize : p[j] = WorkerPoolState(j)
  BY SizeAssumption, IsASeq DEF WorkerPoolState, Slot
-----------------------------------------------------------------------------
(* Types.                                                                  *)

\* A run that was given a slot was given one of the slots there are.
TicketsValid ==
    \A r \in Runs : phase[r] \notin {"new", "failed"} => ticket[r].slot \in DOMAIN slots

\* Before there is a pool there is nothing else.
NoPoolNoRuns ==
    pool # "ok" =>
        /\ slots = <<>>
        /\ terminated = {}
        /\ \A r \in Runs : phase[r] \in {"new", "failed"}

Typed == TypeOK /\ TicketsValid /\ NoPoolNoRuns

\* What WorkerPoolState::new makes, and what a call and abort() change in it.
LEMMA NewState ==
    ASSUME NEW w \in Nat
    PROVE  /\ WorkerPoolState(w) \in Slot
           /\ WorkerPoolState(w).handle = w
           /\ WorkerPoolState(w).generation = 0
           /\ WorkerPoolState(w).available
           /\ ~WorkerPoolState(w).locked
  BY DEF WorkerPoolState, Slot

LEMMA BumpedState ==
    ASSUME NEW s \in Slot, NEW crash \in BOOLEAN
    PROVE  /\ Bumped(s, crash) \in Slot
           /\ Bumped(s, crash).handle = s.handle
           /\ Bumped(s, crash).generation = s.generation + 1
           /\ Bumped(s, crash).available = s.available
           /\ Bumped(s, crash).locked = crash
<1> DEFINE raised == [s EXCEPT !.generation = @ + 1]
<1>1. /\ raised \in Slot
      /\ raised.handle = s.handle
      /\ raised.generation = s.generation + 1
      /\ raised.available = s.available
  BY DEF Slot
<1>2. Bumped(s, crash) = [raised EXCEPT !.locked = crash]
  BY DEF Bumped
<1> HIDE DEF raised
<1> QED
  BY <1>1, <1>2 DEF Slot

LEMMA FlaggedState ==
    ASSUME NEW s \in Slot, NEW b \in BOOLEAN
    PROVE  /\ [s EXCEPT !.available = b] \in Slot
           /\ [s EXCEPT !.available = b].handle = s.handle
           /\ [s EXCEPT !.available = b].generation = s.generation
           /\ [s EXCEPT !.available = b].available = b
           /\ [s EXCEPT !.available = b].locked = s.locked
           /\ [s EXCEPT !.locked = b] \in Slot
           /\ [s EXCEPT !.locked = b].handle = s.handle
           /\ [s EXCEPT !.locked = b].generation = s.generation
           /\ [s EXCEPT !.locked = b].available = s.available
           /\ [s EXCEPT !.locked = b].locked = b
  BY DEF Slot

\* A vector of slots is a function on its positions.
LEMMA SlotAt ==
    ASSUME TypeOK
    PROVE  /\ Len(slots) \in Nat
           /\ DOMAIN slots = 1..Len(slots)
           /\ \A i \in DOMAIN slots : slots[i] \in Slot
  BY LenProperties DEF TypeOK

LEMMA InitTyped == Init => Typed
  BY DEF Init, Typed, TypeOK, TicketsValid, NoPoolNoRuns, Phases, Ticket, NoTicket

\* The phases a called run goes through without touching its slot.
LEMMA PhaseTyped ==
    ASSUME Typed, NEW r \in Runs, NEW p \in Phases \ {"new"},
           pool = "ok" \/ p = "failed",
           p = "failed" \/ phase[r] \notin {"new", "failed"},
           phase' = [phase EXCEPT ![r] = p],
           UNCHANGED <<pool, slots, created, terminated, ticket>>
    PROVE  Typed'
  BY DEF Typed, TypeOK, TicketsValid, NoPoolNoRuns, Phases

LEMMA NextTyped == Typed /\ [Next]_vars => Typed'
<1> SUFFICES ASSUME Typed, [Next]_vars PROVE Typed'
  OBVIOUS
<1>1. CASE NewPool
  <2>1. slots' \in Seq(Slot)
    BY <1>1, NewSlots DEF NewPool
  <2> QED
    BY <1>1, <2>1, SizeAssumption
    DEF NewPool, Typed, TypeOK, TicketsValid, NoPoolNoRuns
<1>2. CASE NewPoolFails
  BY <1>2, SizeAssumption
  DEF NewPoolFails, Typed, TypeOK, TicketsValid, NoPoolNoRuns
<1>3. ASSUME NEW r \in Runs, CallRefused(r) PROVE Typed'
  BY <1>3, PhaseTyped DEF CallRefused, Phases
<1>4. ASSUME NEW r \in Runs, Step(r), ~CallRefused(r) PROVE Typed'
  <2> USE DEF Typed
  <2>0. pool = "ok"
    BY <1>4 DEF Step, Reuse, Expand, ExpandFails, MayCall, PollPanics, Complete,
         Release, ReleasePanics, Drop, Abort, AbortUnreplaced, AbortPanics, MayAbort,
         HasHandle, NoPoolNoRuns
  <2>1. CASE Reuse(r)
    <3>1. PICK i \in DOMAIN slots, crash \in BOOLEAN :
            /\ Dispatch(r, i, [slots[i] EXCEPT !.available = FALSE], crash)
            /\ slots' = [slots EXCEPT ![i] = Bumped([slots[i] EXCEPT !.available = FALSE], crash)]
      BY <2>1 DEF Reuse
    <3>2. slots[i] \in Slot /\ i \in Nat
      BY SlotAt
    <3>3. slots' \in Seq(Slot) /\ DOMAIN slots' = DOMAIN slots
      BY <3>1, <3>2, PutSlot, FlaggedState, BumpedState DEF TypeOK
    <3>4. /\ phase' \in [Runs -> Phases] /\ ticket' \in [Runs -> Ticket]
          /\ ticket'[r].slot = i /\ \A q \in Runs \ {r} : ticket'[q] = ticket[q]
          /\ \A q \in Runs \ {r} : phase'[q] = phase[q]
      <4>1. PICK p \in {"crashed", "held"}, k \in Ticket :
              /\ phase' = [phase EXCEPT ![r] = p] /\ ticket' = [ticket EXCEPT ![r] = k]
              /\ k.slot = i
        <5> DEFINE k == [slot |-> i, generation |-> slots[i].generation + 1,
                         handle |-> slots[i].handle]
        <5>1. k \in Ticket /\ k.slot = i
          BY <3>2 DEF Ticket, Slot
        <5>2. ticket' = [ticket EXCEPT ![r] = k]
          BY <3>1, <3>2 DEF Dispatch, Slot
        <5>3. \E p \in {"crashed", "held"} : phase' = [phase EXCEPT ![r] = p]
          BY <3>1 DEF Dispatch
        <5> QED
          BY <5>1, <5>2, <5>3
      <4> QED
        BY <4>1 DEF TypeOK, Phases
    <3>5. UNCHANGED <<pool, created, terminated>>
      BY <2>1 DEF Reuse
    <3> QED
      BY <2>0, <3>1, <3>3, <3>4, <3>5 DEF TypeOK, TicketsValid, NoPoolNoRuns
  <2>2. CASE Expand(r)
    <3> DEFINE s == WorkerPoolState(created + 1)
    <3>1. PICK crash \in BOOLEAN :
            /\ Dispatch(r, Len(slots) + 1, s, crash)
            /\ slots' = Append(slots, Bumped(s, crash))
      BY <2>2 DEF Expand
    <3>2. s \in Slot /\ s.handle = created + 1 /\ s.generation = 0
      BY NewState DEF TypeOK
    <3> HIDE DEF s
    <3>3. slots' \in Seq(Slot) /\ DOMAIN slots' = DOMAIN slots \union {Len(slots) + 1}
      BY <3>1, <3>2, PushSlot, BumpedState DEF TypeOK
    <3> QED
      BY <2>0, <2>2, <3>1, <3>2, <3>3, SlotAt
      DEF Expand, Dispatch, TypeOK, TicketsValid, NoPoolNoRuns, Phases, Ticket
  <2>3. CASE ExpandFails(r)
    BY <2>0, <2>3, PhaseTyped DEF ExpandFails, Phases
  <2>4. CASE PollPanics(r)
    BY <2>0, <2>4, PhaseTyped DEF PollPanics, Phases
  <2>5. CASE Complete(r)
    BY <2>0, <2>5, PhaseTyped DEF Complete, Phases
  <2>6. CASE ReleasePanics(r)
    BY <2>0, <2>6, PhaseTyped DEF ReleasePanics, Phases
  <2>7. CASE Drop(r)
    BY <2>0, <2>7, PhaseTyped DEF Drop, Phases
  <2>8. CASE Release(r)
    <3> DEFINE i == ticket[r].slot
    <3>1. i \in DOMAIN slots
      BY <2>8 DEF Release, TicketsValid
    <3>2. slots' \in Seq(Slot) /\ DOMAIN slots' = DOMAIN slots
      BY <2>8, <3>1, SlotAt, PutSlot, FlaggedState DEF Release, TypeOK
    <3> QED
      BY <2>0, <2>8, <3>2 DEF Release, TypeOK, TicketsValid, NoPoolNoRuns, Phases
  <2>9. ASSUME MayAbort(r), Kill(r), NEW p \in {"aborted", "dropped", "panicked"}, Left(r, p)
        PROVE  /\ ticket[r].slot \in DOMAIN slots
               /\ slots[ticket[r].slot] \in Slot
               /\ terminated' \subseteq Nat
               /\ phase' \in [Runs -> Phases]
               /\ \A q \in Runs : phase'[q] \notin {"new", "failed"} =>
                                      phase[q] \notin {"new", "failed"}
    BY <2>9, SlotAt DEF MayAbort, HasHandle, Left, Kill, TypeOK, TicketsValid, Phases, Slot
  <2>10. CASE Abort(r)
    <3>1. slots' \in Seq(Slot) /\ DOMAIN slots' = DOMAIN slots
      BY <2>9, <2>10, PutSlot, NewState DEF Abort, TypeOK
    <3> QED
      BY <2>0, <2>9, <2>10, <3>1 DEF Abort, TypeOK, TicketsValid, NoPoolNoRuns
  <2>11. CASE AbortUnreplaced(r)
    BY <2>0, <2>9, <2>11 DEF AbortUnreplaced, TypeOK, TicketsValid, NoPoolNoRuns
  <2>12. CASE AbortPanics(r)
    <3>1. slots' \in Seq(Slot) /\ DOMAIN slots' = DOMAIN slots
      BY <2>9, <2>12, PutSlot, FlaggedState DEF AbortPanics, TypeOK
    <3> QED
      BY <2>0, <2>9, <2>12, <3>1 DEF AbortPanics, TypeOK, TicketsValid, NoPoolNoRuns
  <2> QED
    BY <1>4, <2>1, <2>2, <2>3, <2>4, <2>5, <2>6, <2>7, <2>8, <2>10, <2>11, <2>12 DEF Step
<1>5. CASE UNCHANGED vars
  BY <1>5 DEF vars, Typed, TypeOK, TicketsValid, NoPoolNoRuns
<1> QED
  BY <1>1, <1>2, <1>3, <1>4, <1>5 DEF Next

\* Every reachable state is well typed, and every run that took a slot holds a
\* ticket for a slot of the vector: no index or generation ever goes astray.
THEOREM Typing == Spec => []TypeOK
<1>1. Typed => TypeOK
  BY DEF Typed
<1> QED
  BY InitTyped, NextTyped, <1>1, PTL DEF Spec
-----------------------------------------------------------------------------
(***************************************************************************)
(* What each operation does, slot by slot.                                  *)
(***************************************************************************)

LEMMA ReuseEffect ==
    ASSUME Typed, NEW r \in Runs, Reuse(r)
    PROVE  \E i \in DOMAIN slots :
             /\ Free(i)
             /\ DOMAIN slots' = DOMAIN slots
             /\ \A j \in DOMAIN slots \ {i} : slots'[j] = slots[j]
             /\ slots'[i].handle = slots[i].handle
             /\ slots'[i].generation = slots[i].generation + 1
             /\ ~slots'[i].available
             /\ phase[r] = "new"
             /\ phase' \in {[phase EXCEPT ![r] = "held"], [phase EXCEPT ![r] = "crashed"]}
             /\ ticket' = [ticket EXCEPT ![r] = [slot       |-> i,
                                                 generation |-> slots[i].generation + 1,
                                                 handle     |-> slots[i].handle]]
<1>1. PICK i \in DOMAIN slots, crash \in BOOLEAN :
        /\ FirstFree(i)
        /\ Dispatch(r, i, [slots[i] EXCEPT !.available = FALSE], crash)
        /\ slots' = [slots EXCEPT ![i] = Bumped([slots[i] EXCEPT !.available = FALSE], crash)]
  BY DEF Reuse
<1> DEFINE s == [slots[i] EXCEPT !.available = FALSE]
<1>2. /\ s \in Slot
      /\ s.handle = slots[i].handle
      /\ s.generation = slots[i].generation
      /\ ~s.available
  BY SlotAt, FlaggedState DEF Typed
<1>3. slots' = [slots EXCEPT ![i] = Bumped(s, crash)] /\ Dispatch(r, i, s, crash)
  BY <1>1
<1> HIDE DEF s
<1>4. /\ DOMAIN slots' = DOMAIN slots
      /\ slots'[i] = Bumped(s, crash)
      /\ \A j \in DOMAIN slots \ {i} : slots'[j] = slots[j]
  BY <1>2, <1>3, PutSlot, BumpedState DEF Typed, TypeOK
<1>5. /\ Bumped(s, crash).handle = slots[i].handle
      /\ Bumped(s, crash).generation = slots[i].generation + 1
      /\ ~Bumped(s, crash).available
  BY <1>2, BumpedState
<1>6. /\ phase[r] = "new"
      /\ phase' \in {[phase EXCEPT ![r] = "held"], [phase EXCEPT ![r] = "crashed"]}
  BY <1>3 DEF Dispatch, Reuse, MayCall
<1>7. ticket' = [ticket EXCEPT ![r] = [slot       |-> i,
                                       generation |-> slots[i].generation + 1,
                                       handle     |-> slots[i].handle]]
  BY <1>2, <1>3 DEF Dispatch
<1> WITNESS i \in DOMAIN slots
<1> QED
  BY <1>1, <1>4, <1>5, <1>6, <1>7 DEF FirstFree

LEMMA ExpandEffect ==
    ASSUME Typed, NEW r \in Runs, Expand(r)
    PROVE  /\ Len(slots) + 1 \notin DOMAIN slots
           /\ Len(slots') = Len(slots) + 1
           /\ DOMAIN slots' = DOMAIN slots \union {Len(slots) + 1}
           /\ \A j \in DOMAIN slots : slots'[j] = slots[j]
           /\ slots'[Len(slots) + 1].handle = created + 1
           /\ slots'[Len(slots) + 1].generation = 1
           /\ phase[r] = "new"
           /\ phase' \in {[phase EXCEPT ![r] = "held"], [phase EXCEPT ![r] = "crashed"]}
           /\ ticket' = [ticket EXCEPT ![r] = [slot       |-> Len(slots) + 1,
                                               generation |-> 1,
                                               handle     |-> created + 1]]
<1> DEFINE s == WorkerPoolState(created + 1)
<1>1. PICK crash \in BOOLEAN :
        /\ Dispatch(r, Len(slots) + 1, s, crash)
        /\ slots' = Append(slots, Bumped(s, crash))
  BY DEF Expand
<1>2. s \in Slot /\ s.handle = created + 1 /\ s.generation = 0
  BY NewState DEF Typed, TypeOK
<1> HIDE DEF s
<1>3. /\ Len(slots') = Len(slots) + 1
      /\ DOMAIN slots' = DOMAIN slots \union {Len(slots) + 1}
      /\ slots'[Len(slots) + 1] = Bumped(s, crash)
      /\ \A j \in DOMAIN slots : slots'[j] = slots[j]
  BY <1>1, <1>2, PushSlot, BumpedState DEF Typed, TypeOK
<1>4. /\ Bumped(s, crash).handle = created + 1
      /\ Bumped(s, crash).generation = 1
  BY <1>2, BumpedState
<1>5. /\ phase[r] = "new"
      /\ phase' \in {[phase EXCEPT ![r] = "held"], [phase EXCEPT ![r] = "crashed"]}
  BY <1>1 DEF Dispatch, Expand, MayCall
<1>6. ticket' = [ticket EXCEPT ![r] = [slot       |-> Len(slots) + 1,
                                       generation |-> 1,
                                       handle     |-> created + 1]]
  BY <1>1, <1>2 DEF Dispatch
<1>7. Len(slots) + 1 \notin DOMAIN slots
  BY SlotAt DEF Typed
<1> QED
  BY <1>3, <1>4, <1>5, <1>6, <1>7

LEMMA ReleaseEffect ==
    ASSUME Typed, NEW r \in Runs, Release(r)
    PROVE  /\ ticket[r].slot \in DOMAIN slots
           /\ DOMAIN slots' = DOMAIN slots
           /\ \A j \in DOMAIN slots \ {ticket[r].slot} : slots'[j] = slots[j]
           /\ slots'[ticket[r].slot].handle = slots[ticket[r].slot].handle
           /\ slots'[ticket[r].slot].generation = slots[ticket[r].slot].generation
           /\ slots'[ticket[r].slot].available
           /\ ~slots'[ticket[r].slot].locked
<1> DEFINE i == ticket[r].slot
<1>1. i \in DOMAIN slots
  BY DEF Release, Typed, TicketsValid
<1>2. slots' = [slots EXCEPT ![i] = [slots[i] EXCEPT !.available = TRUE]]
  BY DEF Release
<1>3. slots[i] \in Slot /\ ~slots[i].locked
  BY <1>1, SlotAt DEF Release, Typed
<1> HIDE DEF i
<1>4. /\ DOMAIN slots' = DOMAIN slots
      /\ slots'[i] = [slots[i] EXCEPT !.available = TRUE]
      /\ \A j \in DOMAIN slots \ {i} : slots'[j] = slots[j]
  BY <1>1, <1>2, <1>3, PutSlot, FlaggedState DEF Typed, TypeOK
<1> QED
  BY <1>1, <1>3, <1>4, FlaggedState DEF i

LEMMA ArmedEffect ==
    ASSUME Typed, NEW r \in Runs, MayAbort(r), Armed(r)
    PROVE  /\ ticket[r].slot \in DOMAIN slots
           /\ slots[ticket[r].slot] \in Slot
           /\ slots[ticket[r].slot].generation = ticket[r].generation
           /\ ~slots[ticket[r].slot].available
           /\ ~slots[ticket[r].slot].locked
           /\ phase[r] \notin {"new", "failed", "crashed"}
<1>1. phase[r] \notin {"new", "failed", "crashed"}
  BY DEF MayAbort, HasHandle
<1> QED
  BY <1>1, SlotAt DEF Armed, Typed, TicketsValid

LEMMA AbortEffect ==
    ASSUME Typed, NEW r \in Runs, Abort(r)
    PROVE  /\ DOMAIN slots' = DOMAIN slots
           /\ \A j \in DOMAIN slots \ {ticket[r].slot} : slots'[j] = slots[j]
           /\ slots'[ticket[r].slot].handle = created + 1
           /\ slots'[ticket[r].slot].generation = 0
           /\ slots'[ticket[r].slot].available
           /\ ~slots'[ticket[r].slot].locked
<1> DEFINE i == ticket[r].slot
           s == WorkerPoolState(created + 1)
<1>1. i \in DOMAIN slots
  BY ArmedEffect DEF Abort
<1>2. slots' = [slots EXCEPT ![i] = s]
  BY DEF Abort
<1>3. s \in Slot /\ s.handle = created + 1 /\ s.generation = 0 /\ s.available /\ ~s.locked
  BY NewState DEF Typed, TypeOK
<1> HIDE DEF i, s
<1>4. /\ DOMAIN slots' = DOMAIN slots
      /\ slots'[i] = s
      /\ \A j \in DOMAIN slots \ {i} : slots'[j] = slots[j]
  BY <1>1, <1>2, <1>3, PutSlot DEF Typed, TypeOK
<1> QED
  BY <1>3, <1>4 DEF i

LEMMA AbortPanicsEffect ==
    ASSUME Typed, NEW r \in Runs, AbortPanics(r)
    PROVE  /\ DOMAIN slots' = DOMAIN slots
           /\ \A j \in DOMAIN slots \ {ticket[r].slot} : slots'[j] = slots[j]
           /\ slots'[ticket[r].slot].handle = slots[ticket[r].slot].handle
           /\ slots'[ticket[r].slot].generation = slots[ticket[r].slot].generation
           /\ slots'[ticket[r].slot].available = slots[ticket[r].slot].available
           /\ slots'[ticket[r].slot].locked
<1> DEFINE i == ticket[r].slot
<1>1. i \in DOMAIN slots /\ slots[i] \in Slot
  BY ArmedEffect DEF AbortPanics
<1>2. slots' = [slots EXCEPT ![i] = [slots[i] EXCEPT !.locked = TRUE]]
  BY DEF AbortPanics
<1> HIDE DEF i
<1>3. /\ DOMAIN slots' = DOMAIN slots
      /\ slots'[i] = [slots[i] EXCEPT !.locked = TRUE]
      /\ \A j \in DOMAIN slots \ {i} : slots'[j] = slots[j]
  BY <1>1, <1>2, PutSlot, FlaggedState DEF Typed, TypeOK
<1> QED
  BY <1>1, <1>3, FlaggedState DEF i
-----------------------------------------------------------------------------
(***************************************************************************)
(* The inductive invariant.  A worker never changes slot, and the workers a *)
(* slot holds in turn, original first, carry rising numbers; that makes a   *)
(* ticket tell whether its slot still holds its worker.                     *)
(***************************************************************************)

Called(r) == phase[r] \notin {"new", "failed"}

\* Every slot has a worker of its own, the original ones in order.
SlotWorkers ==
    \A i \in DOMAIN slots :
        /\ slots[i].handle \in 1..created
        /\ slots[i].handle <= InitialSize => slots[i].handle = i
        /\ \A j \in DOMAIN slots : slots[j].handle = slots[i].handle => j = i

\* A ticket names its worker's slot, was issued no later than the slot's last
\* generation on that worker, and the slot's worker is no older than its own.
TicketWorkers ==
    \A r \in Runs :
        /\ ~Called(r) => ticket[r].handle = 0
        /\ Called(r) =>
              /\ ticket[r].handle \in 1..slots[ticket[r].slot].handle
              /\ ticket[r].handle <= InitialSize => ticket[r].handle = ticket[r].slot
              /\ \A i \in DOMAIN slots : slots[i].handle = ticket[r].handle =>
                    i = ticket[r].slot /\ ticket[r].generation <= slots[i].generation

\* Nothing else is offered a worker of the original pool while a run has it.
OriginalHeld ==
    \A r \in Outstanding :
        ticket[r].handle <= InitialSize /\ slots[ticket[r].slot].handle = ticket[r].handle
            => ~Free(ticket[r].slot)

AllStarted == pool = "ok" => InitialSize <= created /\ InitialSize <= Len(slots)

IInv ==
    /\ Typed
    /\ SlotWorkers
    /\ TicketWorkers
    /\ OriginalHeld
    /\ OriginalExclusive
    /\ AllStarted
    /\ GenerationsDistinct
    /\ BusySlotIsOwed
    /\ WorkersAccountedFor

LEMMA InitIInv == Init => IInv
<1> SUFFICES ASSUME Init PROVE IInv
  OBVIOUS
<1>1. Typed /\ DOMAIN slots = {}
  BY InitTyped DEF Init
<1>2. /\ pool = "unset"
      /\ \A r \in Runs : ~Called(r) /\ ticket[r].handle = 0 /\ r \notin Outstanding
  BY DEF Init, Called, NoTicket, Outstanding
<1>3. SlotWorkers /\ BusySlotIsOwed
  BY <1>1 DEF SlotWorkers, BusySlotIsOwed
<1>4. TicketWorkers /\ GenerationsDistinct
  BY <1>2 DEF TicketWorkers, GenerationsDistinct
<1>5. OriginalHeld /\ OriginalExclusive
  BY <1>2 DEF OriginalHeld, OriginalExclusive, Outstanding
<1>6. AllStarted /\ WorkersAccountedFor
  BY <1>2 DEF AllStarted, WorkersAccountedFor
<1> QED
  BY <1>1, <1>3, <1>4, <1>5, <1>6 DEF IInv

\* The handlers that leave the slots alone: they only move a run from one phase
\* to another in which it still owes its slot, or owes none as before.
LEMMA QuietStep ==
    ASSUME IInv, Typed',
           UNCHANGED <<pool, slots, created, ticket>>,
           terminated \subseteq terminated',
           Outstanding' = Outstanding,
           \A r \in Runs : Called(r)' = Called(r)
    PROVE  IInv'
<1>1. SlotWorkers' /\ AllStarted' /\ WorkersAccountedFor'
  BY DEF IInv, SlotWorkers, AllStarted, WorkersAccountedFor
<1>2. TicketWorkers' /\ GenerationsDistinct'
  BY DEF IInv, TicketWorkers, GenerationsDistinct
<1>3. OriginalHeld' /\ OriginalExclusive' /\ BusySlotIsOwed'
  BY DEF IInv, OriginalHeld, OriginalExclusive, BusySlotIsOwed, Free
<1> QED
  BY <1>1, <1>2, <1>3 DEF IInv

\* Which runs have a slot, in terms of one run's phase.
LEMMA OutstandingAfter ==
    ASSUME TypeOK, NEW r \in Runs, NEW p \in Phases, phase' = [phase EXCEPT ![r] = p]
    PROVE  /\ Outstanding' = IF p \in {"crashed", "held", "ready", "dropped", "panicked"}
                             THEN Outstanding \union {r}
                             ELSE Outstanding \ {r}
           /\ \A q \in Runs \ {r} : phase'[q] = phase[q]
           /\ phase'[r] = p
           /\ \A q \in Runs \ {r} : Called(q)' = Called(q)
           /\ Called(r)' = (p \notin {"new", "failed"})
  BY DEF TypeOK, Outstanding, Called

LEMMA NewPoolStep == IInv /\ Typed' /\ NewPool => IInv'
<1> SUFFICES ASSUME IInv, Typed', NewPool PROVE IInv'
  OBVIOUS
<1>1. /\ DOMAIN slots' = 1..InitialSize
      /\ Len(slots') = InitialSize
      /\ created' = InitialSize
      /\ \A i \in 1..InitialSize :
            slots'[i].handle = i /\ slots'[i].available /\ ~slots'[i].locked
  BY NewSlots, NewState, SizeAssumption DEF NewPool
<1>2. /\ \A r \in Runs : phase'[r] \in {"new", "failed"} /\ ticket'[r].handle = 0
      /\ \A r \in Runs : ~Called(r)'
      /\ Outstanding' = {}
  BY DEF NewPool, IInv, Typed, NoPoolNoRuns, TicketWorkers, Called, Outstanding
<1>3. SlotWorkers' /\ AllStarted'
  BY <1>1, SizeAssumption DEF SlotWorkers, AllStarted
<1>4. TicketWorkers' /\ GenerationsDistinct'
  BY <1>2 DEF TicketWorkers, GenerationsDistinct
<1>5. OriginalHeld' /\ OriginalExclusive'
  BY <1>2 DEF OriginalHeld, OriginalExclusive
<1>6. BusySlotIsOwed' /\ WorkersAccountedFor'
  BY <1>1 DEF BusySlotIsOwed, WorkersAccountedFor, Free
<1> QED
  BY <1>3, <1>4, <1>5, <1>6 DEF IInv

LEMMA NewPoolFailsStep == IInv /\ Typed' /\ NewPoolFails => IInv'
<1> SUFFICES ASSUME IInv, Typed', NewPoolFails PROVE IInv'
  OBVIOUS
<1>1. /\ pool' = "err" /\ DOMAIN slots' = {}
      /\ \A r \in Runs : phase'[r] \in {"new", "failed"} /\ ticket'[r].handle = 0
      /\ \A r \in Runs : ~Called(r)'
      /\ Outstanding' = {}
  BY DEF NewPoolFails, IInv, Typed, NoPoolNoRuns, TicketWorkers, Called, Outstanding
<1>2. SlotWorkers' /\ AllStarted' /\ BusySlotIsOwed' /\ WorkersAccountedFor'
  BY <1>1 DEF SlotWorkers, AllStarted, BusySlotIsOwed, WorkersAccountedFor
<1>3. TicketWorkers' /\ GenerationsDistinct' /\ OriginalHeld' /\ OriginalExclusive'
  BY <1>1 DEF TicketWorkers, GenerationsDistinct, OriginalHeld, OriginalExclusive
<1> QED
  BY <1>2, <1>3 DEF IInv

\* A slot that nobody is served by is taken: no other outstanding run has its
\* original worker, and no ticket has the generation it is raised to.
LEMMA ReuseStep ==
    ASSUME IInv, Typed', NEW r \in Runs, Reuse(r)
    PROVE  IInv'
<1> USE DEF IInv
<1>1. PICK i \in DOMAIN slots :
        /\ Free(i)
        /\ DOMAIN slots' = DOMAIN slots
        /\ \A j \in DOMAIN slots \ {i} : slots'[j] = slots[j]
        /\ slots'[i].handle = slots[i].handle
        /\ slots'[i].generation = slots[i].generation + 1
        /\ ~slots'[i].available
        /\ phase[r] = "new"
        /\ phase' \in {[phase EXCEPT ![r] = "held"], [phase EXCEPT ![r] = "crashed"]}
        /\ ticket' = [ticket EXCEPT ![r] = [slot       |-> i,
                                            generation |-> slots[i].generation + 1,
                                            handle     |-> slots[i].handle]]
  BY ReuseEffect
<1>2. UNCHANGED <<pool, created, terminated>>
  BY DEF Reuse
<1>3. /\ Outstanding' = Outstanding \union {r}
      /\ \A q \in Runs \ {r} : Called(q)' = Called(q)
      /\ Called(r)' /\ ~Called(r) /\ r \notin Outstanding
  BY <1>1, OutstandingAfter DEF Typed, Phases, Called, Outstanding
<1>4. /\ \A q \in Runs \ {r} : ticket'[q] = ticket[q]
      /\ ticket'[r].slot = i
      /\ ticket'[r].handle = slots[i].handle
      /\ ticket'[r].generation = slots[i].generation + 1
      /\ ticket'[r] = [slot       |-> i,
                       generation |-> slots'[i].generation,
                       handle     |-> slots'[i].handle]
  BY <1>1 DEF Typed, TypeOK
<1>5. \A j \in DOMAIN slots : slots'[j].handle = slots[j].handle
  BY <1>1
<1>6. \A j \in DOMAIN slots : slots[j].generation \in Nat /\ slots[j].handle \in Nat
  BY SlotAt DEF Typed, Slot
<1>7. \A q \in Runs : ticket[q].generation \in Nat /\ ticket[q].handle \in Nat
  BY DEF Typed, TypeOK, Ticket
<1>8. SlotWorkers'
  BY <1>1, <1>2, <1>5 DEF SlotWorkers
<1>9. TicketWorkers'
  <2>1. ASSUME NEW q \in Runs \ {r} PROVE
          /\ ~Called(q) => ticket[q].handle = 0
          /\ Called(q) =>
              /\ ticket[q].handle \in 1..slots'[ticket[q].slot].handle
              /\ ticket[q].handle <= InitialSize => ticket[q].handle = ticket[q].slot
              /\ \A k \in DOMAIN slots' : slots'[k].handle = ticket[q].handle =>
                    k = ticket[q].slot /\ ticket[q].generation <= slots'[k].generation
    BY <1>1, <1>5, <1>6, <1>7 DEF TicketWorkers, Typed, TicketsValid, Called
  <2>2. /\ ticket'[r].handle \in 1..slots'[i].handle
        /\ ticket'[r].handle <= InitialSize => ticket'[r].handle = i
        /\ \A k \in DOMAIN slots' : slots'[k].handle = ticket'[r].handle =>
              k = i /\ ticket'[r].generation <= slots'[k].generation
    BY <1>1, <1>4, <1>5, <1>6 DEF SlotWorkers
  <2> QED
    BY <1>3, <1>4, <2>1, <2>2 DEF TicketWorkers
<1>10. \A q \in Outstanding : ticket[q].handle <= InitialSize => ticket[q].handle # slots[i].handle
  <2> SUFFICES ASSUME NEW q \in Outstanding, ticket[q].handle <= InitialSize,
                      ticket[q].handle = slots[i].handle
               PROVE  FALSE
    OBVIOUS
  <2>1. q \in Runs /\ Called(q) /\ ticket[q].slot = i
    BY DEF Outstanding, TicketWorkers, Called
  <2> QED
    BY <1>1, <2>1 DEF OriginalHeld
<1>11. OriginalExclusive'
  BY <1>3, <1>4, <1>6, <1>10, SizeAssumption DEF OriginalExclusive, Outstanding
<1>12. OriginalHeld'
  <2>1. ASSUME NEW q \in Outstanding, ticket[q].handle <= InitialSize,
               slots'[ticket[q].slot].handle = ticket[q].handle
        PROVE  ~Free(ticket[q].slot)'
    <3>1. ticket[q].slot \in DOMAIN slots
      BY DEF Outstanding, Typed, TicketsValid
    <3>2. ticket[q].slot # i
      BY <1>1, <1>10, <2>1
    <3> QED
      BY <1>1, <1>4, <1>3, <2>1, <3>1, <3>2 DEF OriginalHeld, Free, Outstanding
  <2> QED
    BY <1>1, <1>3, <1>4, <2>1 DEF OriginalHeld, Free, Outstanding
<1>13. AllStarted'
  BY <1>1, <1>2, SlotAt, LenProperties DEF AllStarted, Typed, TypeOK
<1>14. GenerationsDistinct'
  <2>1. ASSUME NEW q \in Runs \ {r}, ticket[q].handle = slots[i].handle, ticket[q].handle # 0
        PROVE  ticket[q].generation # slots[i].generation + 1
    BY <1>6, <1>7, <2>1 DEF TicketWorkers
  <2> QED
    BY <1>4, <2>1 DEF GenerationsDistinct
<1>15. BusySlotIsOwed'
  <2>1. ASSUME NEW j \in DOMAIN slots \ {i}, ~Free(j)'
        PROVE  \E q \in Outstanding \ {r} :
                  ticket'[q] = [slot |-> j, generation |-> slots'[j].generation,
                                handle |-> slots'[j].handle]
    BY <1>1, <1>3, <1>4, <2>1 DEF BusySlotIsOwed, Free, Outstanding
  <2> QED
    BY <1>1, <1>3, <1>4, <2>1 DEF BusySlotIsOwed
<1>16. WorkersAccountedFor'
  BY <1>1, <1>2, <1>5 DEF WorkersAccountedFor
<1> QED
  BY <1>8, <1>9, <1>11, <1>12, <1>13, <1>14, <1>15, <1>16

\* A new slot, with a worker younger than all others.
LEMMA ExpandStep ==
    ASSUME IInv, Typed', NEW r \in Runs, Expand(r)
    PROVE  IInv'
<1> USE DEF IInv
<1> DEFINE n == Len(slots) + 1
           w == created + 1
<1>1. /\ n \notin DOMAIN slots
      /\ Len(slots') = Len(slots) + 1
      /\ DOMAIN slots' = DOMAIN slots \union {n}
      /\ \A j \in DOMAIN slots : slots'[j] = slots[j]
      /\ slots'[n].handle = w
      /\ slots'[n].generation = 1
      /\ phase[r] = "new"
      /\ phase' \in {[phase EXCEPT ![r] = "held"], [phase EXCEPT ![r] = "crashed"]}
      /\ ticket' = [ticket EXCEPT ![r] = [slot |-> n, generation |-> 1, handle |-> w]]
  BY ExpandEffect
<1>2. /\ created' = w /\ UNCHANGED <<pool, terminated>> /\ created \in Nat
      /\ w > InitialSize /\ InitialSize \in Nat
  BY SizeAssumption DEF Expand, MayCall, AllStarted, Typed, TypeOK
<1>3. /\ Outstanding' = Outstanding \union {r}
      /\ \A q \in Runs \ {r} : Called(q)' = Called(q)
      /\ Called(r)' /\ ~Called(r) /\ r \notin Outstanding
  BY <1>1, OutstandingAfter DEF Typed, Phases, Called, Outstanding
<1>4. /\ \A q \in Runs \ {r} : ticket'[q] = ticket[q]
      /\ ticket'[r] = [slot |-> n, generation |-> 1, handle |-> w]
  BY <1>1 DEF Typed, TypeOK
<1>5. \A j \in DOMAIN slots : slots[j].handle \in 1..created
  BY DEF SlotWorkers
<1>6. \A q \in Runs : Called(q) =>
        ticket[q].slot \in DOMAIN slots /\ ticket[q].handle \in 1..created
  BY <1>2, <1>5 DEF TicketWorkers, Typed, TicketsValid, Called
<1>7. \A q \in Runs : ticket[q].handle < w /\ ticket[q].handle # w
  BY <1>2, <1>6 DEF TicketWorkers
<1> HIDE DEF n, w
<1>8. SlotWorkers'
  BY <1>1, <1>2, <1>5 DEF SlotWorkers, w
<1>9. TicketWorkers'
  <2>1. ASSUME NEW q \in Runs \ {r} PROVE
          /\ ~Called(q) => ticket[q].handle = 0
          /\ Called(q) =>
              /\ ticket[q].handle \in 1..slots'[ticket[q].slot].handle
              /\ ticket[q].handle <= InitialSize => ticket[q].handle = ticket[q].slot
              /\ \A k \in DOMAIN slots' : slots'[k].handle = ticket[q].handle =>
                    k = ticket[q].slot /\ ticket[q].generation <= slots'[k].generation
    BY <1>1, <1>6, <1>7 DEF TicketWorkers
  <2>2. /\ w \in 1..slots'[n].handle
        /\ ~(w <= InitialSize)
        /\ \A k \in DOMAIN slots' : slots'[k].handle = w => k = n /\ 1 <= slots'[k].generation
    BY <1>1, <1>2, <1>5 DEF w
  <2> QED
    BY <1>3, <1>4, <2>1, <2>2 DEF TicketWorkers
<1>10. OriginalExclusive'
  BY <1>2, <1>3, <1>4, <1>7 DEF OriginalExclusive, Outstanding
<1>11. OriginalHeld'
  <2>1. ASSUME NEW q \in Outstanding, ticket[q].handle <= InitialSize,
               slots'[ticket[q].slot].handle = ticket[q].handle
        PROVE  ~slots'[ticket[q].slot].available \/ slots'[ticket[q].slot].locked
    <3>1. ticket[q].slot \in DOMAIN slots
      BY <1>6 DEF Outstanding, Called
    <3> QED
      BY <1>1, <2>1, <3>1 DEF OriginalHeld, Free
  <2>2. ~(ticket'[r].handle <= InitialSize)
    BY <1>2, <1>4 DEF w
  <2> QED
    BY <1>3, <1>4, <2>1, <2>2 DEF OriginalHeld, Free, Outstanding
<1>12. AllStarted'
  BY <1>1, <1>2, SlotAt DEF AllStarted, Typed, w
<1>13. GenerationsDistinct'
  <2>1. ticket'[r].handle = w
    BY <1>4
  <2> QED
    BY <1>4, <1>7, <2>1 DEF GenerationsDistinct
<1>14. BusySlotIsOwed'
  <2>1. ASSUME NEW j \in DOMAIN slots, ~Free(j)'
        PROVE  \E q \in Outstanding \ {r} :
                  ticket'[q] = [slot |-> j, generation |-> slots'[j].generation,
                                handle |-> slots'[j].handle]
    BY <1>1, <1>3, <1>4, <2>1 DEF BusySlotIsOwed, Free, Outstanding
  <2> QED
    BY <1>1, <1>3, <1>4, <2>1 DEF BusySlotIsOwed
<1>15. WorkersAccountedFor'
  <2> SUFFICES ASSUME pool = "ok", NEW v \in 1..w
               PROVE  v \in terminated \/ \E j \in DOMAIN slots' : slots'[j].handle = v
    BY <1>2 DEF WorkersAccountedFor
  <2>1. CASE v = w
    BY <1>1, <2>1
  <2>2. CASE v \in 1..created
    BY <1>1, <2>2 DEF WorkersAccountedFor
  <2> QED
    BY <1>2, <2>1, <2>2 DEF w
<1> QED
  BY <1>8, <1>9, <1>10, <1>11, <1>12, <1>13, <1>14, <1>15

\* A release may hit a slot whose worker was replaced since, but never the slot
\* of an original worker that another run has.
LEMMA ReleaseStep ==
    ASSUME IInv, Typed', NEW r \in Runs, Release(r)
    PROVE  IInv'
<1> USE DEF IInv
<1> DEFINE i == ticket[r].slot
<1>1. /\ i \in DOMAIN slots
      /\ DOMAIN slots' = DOMAIN slots
      /\ \A j \in DOMAIN slots \ {i} : slots'[j] = slots[j]
      /\ slots'[i].handle = slots[i].handle
      /\ slots'[i].generation = slots[i].generation
      /\ slots'[i].available
      /\ ~slots'[i].locked
  BY ReleaseEffect
<1>2. UNCHANGED <<pool, created, terminated, ticket>>
  BY DEF Release
<1>3. /\ Outstanding' = Outstanding \ {r}
      /\ \A q \in Runs : Called(q)' = Called(q)
      /\ Called(r) /\ r \in Outstanding
  BY OutstandingAfter DEF Release, Typed, TypeOK, Phases, Called, Outstanding
<1>4. \A j \in DOMAIN slots : /\ slots'[j].handle = slots[j].handle
                              /\ slots'[j].generation = slots[j].generation
  BY <1>1
<1> HIDE DEF i
<1>5. SlotWorkers' /\ WorkersAccountedFor'
  BY <1>1, <1>2, <1>4 DEF SlotWorkers, WorkersAccountedFor
<1>6. TicketWorkers'
  BY <1>1, <1>2, <1>3, <1>4 DEF TicketWorkers, Typed, TicketsValid, Called
<1>7. GenerationsDistinct' /\ OriginalExclusive'
  BY <1>2, <1>3 DEF GenerationsDistinct, OriginalExclusive
<1>8. OriginalHeld'
  <2> SUFFICES ASSUME NEW q \in Outstanding \ {r}, ticket[q].handle <= InitialSize,
                      slots[ticket[q].slot].handle = ticket[q].handle
               PROVE  ~Free(ticket[q].slot)'
    BY <1>1, <1>2, <1>3, <1>4 DEF OriginalHeld, Typed, TicketsValid, Outstanding
  <2>1. ticket[q].slot \in DOMAIN slots /\ ticket[q].slot = ticket[q].handle
    BY DEF Outstanding, TicketWorkers, Called, Typed, TicketsValid
  <2>2. ticket[q].slot # i
    <3> SUFFICES ASSUME ticket[q].slot = i PROVE FALSE
      OBVIOUS
    <3>1. /\ ticket[r].handle \in 1..slots[i].handle
          /\ ticket[r].handle <= InitialSize => ticket[r].handle = i
      BY <1>3 DEF TicketWorkers, Outstanding, i
    <3>2. slots[i].handle \in Nat /\ slots[i].handle <= InitialSize
      BY <1>1, SlotAt DEF Typed, Slot
    <3>3. ticket[r].handle = ticket[q].handle
      BY <2>1, <3>1, <3>2, SizeAssumption
    <3> QED
      BY <1>3, <3>2, <3>3, SizeAssumption DEF OriginalExclusive
  <2> QED
    BY <1>1, <1>2, <2>1, <2>2 DEF OriginalHeld, Free
<1>9. AllStarted'
  BY <1>1, <1>2, SlotAt, LenProperties DEF AllStarted, Typed, TypeOK
<1>10. BusySlotIsOwed'
  <2> SUFFICES ASSUME NEW j \in DOMAIN slots, ~Free(j)'
               PROVE  \E q \in Outstanding \ {r} :
                         ticket[q] = [slot |-> j, generation |-> slots[j].generation,
                                      handle |-> slots[j].handle]
    BY <1>1, <1>2, <1>3, <1>4 DEF BusySlotIsOwed
  <2>1. j # i /\ ~Free(j)
    BY <1>1 DEF Free
  <2> QED
    BY <2>1 DEF BusySlotIsOwed, i
<1> QED
  BY <1>5, <1>6, <1>7, <1>8, <1>9, <1>10

\* What abort() does to the phase of its run leaves it called, and outstanding
\* unless its slot has a new worker.
LEMMA LeftEffect ==
    ASSUME Typed, NEW r \in Runs, MayAbort(r), Armed(r),
           NEW p \in {"aborted", "dropped", "panicked"}, Left(r, p)
    PROVE  /\ \A q \in Runs : Called(q)' = Called(q)
           /\ p = "aborted" => /\ Outstanding' \subseteq Outstanding
                               /\ Outstanding \ {r} \subseteq Outstanding'
           /\ p # "aborted" => Outstanding' = Outstanding
<1>1. phase[r] \notin {"new", "failed", "crashed"}
  BY ArmedEffect
<1>2. CASE Aborts = "careful"
  <2>1. phase[r] = "held" /\ phase' = [phase EXCEPT ![r] = p]
    BY <1>2 DEF MayAbort, Left
  <2> QED
    BY <2>1, OutstandingAfter DEF Typed, TypeOK, Phases, Called, Outstanding
<1>3. CASE Aborts # "careful"
  BY <1>3 DEF Left, Called, Outstanding
<1> QED
  BY <1>2, <1>3

\* A worker younger than all others takes the slot over, available.
LEMMA AbortStep ==
    ASSUME IInv, Typed', NEW r \in Runs, Abort(r)
    PROVE  IInv'
<1> USE DEF IInv
<1> DEFINE i == ticket[r].slot
           w == created + 1
<1>1. /\ i \in DOMAIN slots
      /\ DOMAIN slots' = DOMAIN slots
      /\ \A j \in DOMAIN slots \ {i} : slots'[j] = slots[j]
      /\ slots'[i].handle = w
      /\ slots'[i].available
      /\ ~slots'[i].locked
  BY ArmedEffect, AbortEffect DEF Abort
<1>2. /\ created' = w /\ UNCHANGED <<pool, ticket>> /\ created \in Nat
      /\ terminated' = terminated \union {slots[i].handle}
  BY DEF Abort, Kill, Typed, TypeOK
<1>3. /\ Outstanding' \subseteq Outstanding
      /\ Outstanding \ {r} \subseteq Outstanding'
      /\ \A q \in Runs : Called(q)' = Called(q)
  BY LeftEffect DEF Abort
<1>4. w > InitialSize /\ InitialSize \in Nat
  BY SizeAssumption, ArmedEffect DEF Abort, AllStarted, Typed, NoPoolNoRuns, TypeOK
<1>5. \A j \in DOMAIN slots : slots[j].handle \in 1..created
  BY DEF SlotWorkers
<1>6. \A q \in Runs : Called(q) =>
        ticket[q].slot \in DOMAIN slots /\ ticket[q].handle \in 1..created
  BY <1>2, <1>5 DEF TicketWorkers, Typed, TicketsValid, Called
<1>7. \A q \in Runs : ticket[q].handle < w /\ ticket[q].handle # w
  BY <1>2, <1>6 DEF TicketWorkers
<1> HIDE DEF w
<1>8. SlotWorkers'
  BY <1>1, <1>2, <1>4, <1>5 DEF SlotWorkers, w
<1>9. TicketWorkers'
  <2> SUFFICES ASSUME NEW q \in Runs PROVE
          /\ ~Called(q) => ticket[q].handle = 0
          /\ Called(q) =>
              /\ ticket[q].handle \in 1..slots'[ticket[q].slot].handle
              /\ ticket[q].handle <= InitialSize => ticket[q].handle = ticket[q].slot
              /\ \A k \in DOMAIN slots' : slots'[k].handle = ticket[q].handle =>
                    k = ticket[q].slot /\ ticket[q].generation <= slots'[k].generation
    BY <1>2, <1>3 DEF TicketWorkers
  <2>1. Called(q) => ticket[q].handle \in 1..slots'[ticket[q].slot].handle
    BY <1>1, <1>2, <1>6 DEF TicketWorkers, w
  <2>2. ASSUME Called(q), NEW k \in DOMAIN slots, slots'[k].handle = ticket[q].handle
        PROVE  k = ticket[q].slot /\ ticket[q].generation <= slots'[k].generation
    <3>1. k # i
      BY <1>1, <1>7, <2>2
    <3> QED
      BY <1>1, <2>2, <3>1 DEF TicketWorkers
  <2> QED
    BY <1>1, <2>1, <2>2 DEF TicketWorkers
<1>10. OriginalExclusive' /\ GenerationsDistinct'
  BY <1>2, <1>3 DEF OriginalExclusive, GenerationsDistinct
<1>11. OriginalHeld'
  <2> SUFFICES ASSUME NEW q \in Outstanding, ticket[q].handle <= InitialSize,
                      slots'[ticket[q].slot].handle = ticket[q].handle
               PROVE  ~slots'[ticket[q].slot].available \/ slots'[ticket[q].slot].locked
    BY <1>2, <1>3 DEF OriginalHeld, Free
  <2>1. q \in Runs /\ ticket[q].slot \in DOMAIN slots
    BY <1>6 DEF Outstanding, Called
  <2>2. ticket[q].slot # i
    BY <1>1, <1>7, <2>1
  <2> QED
    BY <1>1, <2>1, <2>2 DEF OriginalHeld, Free
<1>12. AllStarted'
  BY <1>1, <1>2, <1>4, SlotAt, LenProperties DEF AllStarted, Typed, TypeOK, w
<1>13. BusySlotIsOwed'
  <2> SUFFICES ASSUME NEW j \in DOMAIN slots, ~Free(j)'
               PROVE  \E q \in Outstanding \ {r} :
                         ticket[q] = [slot |-> j, generation |-> slots'[j].generation,
                                      handle |-> slots'[j].handle]
    BY <1>1, <1>2, <1>3 DEF BusySlotIsOwed
  <2>1. j # i
    BY <1>1 DEF Free
  <2>2. slots'[j] = slots[j] /\ ~Free(j)
    BY <1>1, <2>1 DEF Free
  <2> QED
    BY <2>1, <2>2 DEF BusySlotIsOwed
<1>14. WorkersAccountedFor'
  <2> SUFFICES ASSUME pool = "ok", NEW v \in 1..w
               PROVE  v \in terminated' \/ \E j \in DOMAIN slots' : slots'[j].handle = v
    BY <1>2 DEF WorkersAccountedFor
  <2>1. CASE v = w
    BY <1>1, <2>1
  <2>2. CASE v \in 1..created
    BY <1>1, <1>2, <2>2 DEF WorkersAccountedFor
  <2> QED
    BY <1>2, <2>1, <2>2 DEF w
<1> QED
  BY <1>8, <1>9, <1>10, <1>11, <1>12, <1>13, <1>14

LEMMA AbortPanicsStep ==
    ASSUME IInv, Typed', NEW r \in Runs, AbortPanics(r)
    PROVE  IInv'
<1> USE DEF IInv
<1> DEFINE i == ticket[r].slot
<1>1. /\ i \in DOMAIN slots
      /\ DOMAIN slots' = DOMAIN slots
      /\ \A j \in DOMAIN slots \ {i} : slots'[j] = slots[j]
      /\ slots'[i].handle = slots[i].handle
      /\ slots'[i].generation = slots[i].generation
      /\ slots'[i].locked
      /\ ~slots[i].available
  BY ArmedEffect, AbortPanicsEffect DEF AbortPanics
<1>2. UNCHANGED <<pool, created, ticket>> /\ terminated \subseteq terminated'
  BY DEF AbortPanics, Kill
<1>3. Outstanding' = Outstanding /\ \A q \in Runs : Called(q)' = Called(q)
  BY LeftEffect DEF AbortPanics
<1>4. \A j \in DOMAIN slots : /\ slots'[j].handle = slots[j].handle
                              /\ slots'[j].generation = slots[j].generation
                              /\ Free(j)' => Free(j)
                              /\ ~Free(j)' => ~Free(j)
  BY <1>1 DEF Free
<1> HIDE DEF i
<1>5. SlotWorkers' /\ WorkersAccountedFor'
  BY <1>1, <1>2, <1>4 DEF SlotWorkers, WorkersAccountedFor
<1>6. TicketWorkers'
  BY <1>1, <1>2, <1>3, <1>4 DEF TicketWorkers, Typed, TicketsValid, Called
<1>7. GenerationsDistinct' /\ OriginalExclusive'
  BY <1>2, <1>3 DEF GenerationsDistinct, OriginalExclusive
<1>8. OriginalHeld'
  BY <1>1, <1>2, <1>3, <1>4 DEF OriginalHeld, Typed, TicketsValid, Outstanding, Free
<1>9. AllStarted'
  BY <1>1, <1>2, SlotAt, LenProperties DEF AllStarted, Typed, TypeOK
<1>10. BusySlotIsOwed'
  BY <1>1, <1>2, <1>3, <1>4 DEF BusySlotIsOwed
<1> QED
  BY <1>5, <1>6, <1>7, <1>8, <1>9, <1>10

LEMMA NextIInv == IInv /\ [Next]_vars => IInv'
<1> SUFFICES ASSUME IInv, [Next]_vars PROVE IInv'
  OBVIOUS
<1>0. Typed'
  BY NextTyped DEF IInv
<1>1. CASE NewPool \/ NewPoolFails
  BY <1>0, <1>1, NewPoolStep, NewPoolFailsStep
<1>2. ASSUME NEW r \in Runs, Step(r) PROVE IInv'
  <2> DEFINE Quiet == /\ UNCHANGED <<pool, slots, created, ticket>>
                      /\ terminated \subseteq terminated'
                      /\ Outstanding' = Outstanding
                      /\ \A q \in Runs : Called(q)' = Called(q)
  <2>1. CASE Reuse(r) \/ Expand(r) \/ Release(r) \/ Abort(r) \/ AbortPanics(r)
    BY <1>0, <2>1, ReuseStep, ExpandStep, ReleaseStep, AbortStep, AbortPanicsStep
  <2>2. CASE ExpandFails(r) \/ CallRefused(r)
    <3>1. Quiet
      BY <2>2, OutstandingAfter
      DEF ExpandFails, CallRefused, MayCall, IInv, Typed, TypeOK, Phases, Called, Outstanding
    <3> QED
      BY <1>0, <3>1, QuietStep
  <2>3. CASE PollPanics(r) \/ Complete(r) \/ ReleasePanics(r) \/ Drop(r)
    <3>1. PICK p \in {"panicked", "ready", "dropped"} : phase' = [phase EXCEPT ![r] = p]
      BY <2>3 DEF PollPanics, Complete, ReleasePanics, Drop
    <3>2. r \in Outstanding /\ UNCHANGED <<pool, slots, created, terminated, ticket>>
      BY <2>3 DEF PollPanics, Complete, ReleasePanics, Drop, Outstanding
    <3>3. Quiet
      BY <3>1, <3>2, OutstandingAfter DEF IInv, Typed, Phases, Called, Outstanding
    <3> QED
      BY <1>0, <3>3, QuietStep
  <2>4. CASE AbortUnreplaced(r)
    <3>1. Quiet
      BY <2>4, LeftEffect DEF AbortUnreplaced, Kill, IInv
    <3> QED
      BY <1>0, <3>1, QuietStep
  <2> QED
    BY <1>2, <2>1, <2>2, <2>3, <2>4 DEF Step
<1>3. CASE UNCHANGED vars
  BY <1>0, <1>3, QuietStep DEF vars, Called, Outstanding
<1> QED
  BY <1>1, <1>2, <1>3 DEF Next

THEOREM Invariance == Spec => []IInv
  BY InitIInv, NextIInv, PTL DEF Spec

-----------------------------------------------------------------------------
(* The theorems, for every client and every fault.                         *)

\* Whatever is aborted, dropped or fails, a slot that calls pass over was taken
\* by a run that still owes it: the pool loses a slot only to such a run.
THEOREM SlotsAreOwed == Spec => []BusySlotIsOwed
  BY Invariance, PTL DEF IInv

\* Two outstanding runs never share a worker the pool was created with.
THEOREM OriginalsAreExclusive == Spec => []OriginalExclusive
  BY Invariance, PTL DEF IInv

\* The generations of the runs a worker was ever given are all different, so the
\* check in abort() tells the runs of one worker apart.
THEOREM GenerationsTellApart == Spec => []GenerationsDistinct
  BY Invariance, PTL DEF IInv

\* Every worker ever started is terminated or in its slot.
THEOREM NoWorkerLeaks == Spec => []WorkersAccountedFor
  BY Invariance, PTL DEF IInv

\* abort() never terminates a worker that no outstanding run was given.
THEOREM AbortSparesTheIdle == Spec => AbortSparesIdle
<1>1. ASSUME IInv, [Next]_vars
      PROVE  [\A w \in terminated' \ terminated :
                 \E r \in Outstanding : ticket[r].handle = w]_vars
  <2>1. CASE UNCHANGED terminated
    BY <2>1
  <2>2. ASSUME NEW r \in Runs, Abort(r) \/ AbortUnreplaced(r) \/ AbortPanics(r)
        PROVE  \A w \in terminated' \ terminated :
                 \E q \in Outstanding : ticket[q].handle = w
    <3>1. /\ ticket[r].slot \in DOMAIN slots
          /\ ~Free(ticket[r].slot)
          /\ terminated' \ terminated \subseteq {slots[ticket[r].slot].handle}
      BY <1>1, <2>2, ArmedEffect DEF Abort, AbortUnreplaced, AbortPanics, Kill, IInv, Free
    <3>2. PICK q \in Outstanding :
            ticket[q] = [slot       |-> ticket[r].slot,
                         generation |-> slots[ticket[r].slot].generation,
                         handle     |-> slots[ticket[r].slot].handle]
      BY <1>1, <3>1 DEF IInv, BusySlotIsOwed
    <3>3. ticket[q].handle = slots[ticket[r].slot].handle
      BY <3>2
    <3> QED
      BY <3>1, <3>3
  <2> QED
    BY <1>1, <2>1, <2>2
    DEF Next, Step, vars, NewPool, NewPoolFails, Reuse, Expand, ExpandFails,
        CallRefused, PollPanics, Complete, Release, ReleasePanics, Drop
<1> QED
  BY Invariance, <1>1, PTL DEF Spec, AbortSparesIdle

-----------------------------------------------------------------------------
(***************************************************************************)
(* How far the pool grows.  When it does, each of its slots is owed by an   *)
(* outstanding run of its own, so there are as many of those as slots.      *)
(***************************************************************************)

LEMMA OutstandingFinite ==
    IsFiniteSet(Outstanding) /\ Cardinality(Outstanding) \in Nat
  BY RunsAssumption, FS_Subset, FS_CardinalityType DEF Outstanding

LEMMA SlotsWithinOutstanding ==
    ASSUME IInv, NoneFree
    PROVE  Len(slots) <= Cardinality(Outstanding)
<1> DEFINE owner == [i \in 1..Len(slots) |->
                        CHOOSE q \in Outstanding : ticket[q].slot = i]
<1>1. DOMAIN slots = 1..Len(slots) /\ Len(slots) \in Nat
  BY SlotAt DEF IInv, Typed
<1>2. ASSUME NEW i \in 1..Len(slots)
      PROVE  \E q \in Outstanding : ticket[q].slot = i
  <2>1. PICK q \in Outstanding : ticket[q] = [slot       |-> i,
                                              generation |-> slots[i].generation,
                                              handle     |-> slots[i].handle]
    BY <1>1, <1>2 DEF IInv, BusySlotIsOwed, NoneFree
  <2>2. ticket[q].slot = i
    BY <2>1
  <2> QED
    BY <2>2
<1>3. \A i \in 1..Len(slots) : owner[i] \in Outstanding /\ ticket[owner[i]].slot = i
  BY <1>2
<1> HIDE DEF owner
<1>4. owner \in Injection(1..Len(slots), Outstanding)
  BY <1>3 DEF Injection, IsInjective, owner
<1>5. Cardinality(1..Len(slots)) <= Cardinality(Outstanding)
  BY <1>4, FS_Injection, OutstandingFinite
<1> QED
  BY <1>1, <1>5, FS_Interval

\* The pool never grows beyond the larger of its initial size and the largest
\* number of runs its client lets be outstanding at once.
THEOREM GrowthIsNeeded == Spec => []PoolSizeBounded
<1>1. Init => PoolSizeBounded
  BY SizeAssumption DEF Init, PoolSizeBounded
<1>2. IInv /\ PoolSizeBounded /\ [Next]_vars => PoolSizeBounded'
  <2> SUFFICES ASSUME IInv, PoolSizeBounded, [Next]_vars PROVE PoolSizeBounded'
    OBVIOUS
  <2> USE DEF IInv
  <2>1. CASE NewPool
    BY <2>1, NewSlots, SizeAssumption DEF NewPool, PoolSizeBounded
  <2>2. ASSUME NEW r \in Runs, Expand(r) PROVE PoolSizeBounded'
    <3>1. Len(slots') = Len(slots) + 1 /\ Len(slots) \in Nat
      BY <2>2, ExpandEffect, SlotAt DEF Typed
    <3>2. Cardinality(Outstanding) < MaxOutstanding /\ NoneFree
      BY <2>2 DEF Expand, MayCall
    <3> QED
      BY <3>1, <3>2, SlotsWithinOutstanding, OutstandingFinite, SizeAssumption
      DEF PoolSizeBounded
  <2>3. ASSUME NEW r \in Runs, Reuse(r) \/ Release(r) \/ Abort(r) \/ AbortPanics(r)
        PROVE  PoolSizeBounded'
    <3>1. DOMAIN slots' = DOMAIN slots
      BY <2>3, ReuseEffect, ReleaseEffect, AbortEffect, AbortPanicsEffect
    <3>2. Len(slots') = Len(slots)
      BY <3>1, NextTyped, LenProperties DEF Typed, TypeOK
    <3> QED
      BY <3>2 DEF PoolSizeBounded
  <2>4. CASE UNCHANGED slots
    BY <2>4 DEF PoolSizeBounded
  <2> QED
    BY <2>1, <2>2, <2>3, <2>4
    DEF Next, Step, vars, NewPoolFails, ExpandFails, CallRefused, PollPanics,
        Complete, ReleasePanics, Drop, AbortUnreplaced
<1> QED
  BY Invariance, <1>1, <1>2, PTL DEF Spec

-----------------------------------------------------------------------------
(***************************************************************************)
(* The client for which the pool keeps what its documentation says: it has  *)
(* no more runs outstanding than the pool's initial size, and uses an abort *)
(* handle at most once, while its run is in progress, dropping the run.     *)
(***************************************************************************)

Disciplined == MaxOutstanding <= InitialSize /\ Aborts \in {"never", "careful"}

\* Every outstanding run has its slot to itself, with the worker it was given.
OwnsSlot ==
    \A r \in Outstanding :
        /\ ~slots[ticket[r].slot].available
        /\ slots[ticket[r].slot].handle = ticket[r].handle
        /\ slots[ticket[r].slot].generation = ticket[r].generation

LEMMA OwnersDiffer ==
    ASSUME IInv, OwnsSlot
    PROVE  \A r, q \in Outstanding : r # q => ticket[r].slot # ticket[q].slot
<1> SUFFICES ASSUME NEW r \in Outstanding, NEW q \in Outstanding, r # q,
                    ticket[r].slot = ticket[q].slot
             PROVE  FALSE
  OBVIOUS
<1>1. /\ r \in Runs /\ q \in Runs
      /\ ticket[r].handle = ticket[q].handle
      /\ ticket[r].generation = ticket[q].generation
  BY DEF OwnsSlot, Outstanding
<1>2. ticket[r].handle # 0
  <2>1. Called(r)
    BY DEF Outstanding, Called
  <2>2. ticket[r].slot \in DOMAIN slots
    BY <1>1, <2>1 DEF IInv, Typed, TicketsValid, Called
  <2>3. slots[ticket[r].slot].handle \in Nat
    BY <2>2, SlotAt DEF IInv, Typed, Slot
  <2> QED
    BY <1>1, <2>1, <2>3 DEF IInv, TicketWorkers
<1> QED
  BY <1>1, <1>2 DEF IInv, GenerationsDistinct

\* A disciplined client always finds a free slot, so the pool never grows.
LEMMA NeverExpands ==
    ASSUME IInv, Disciplined, NEW r \in Runs PROVE ~Expand(r)
<1> SUFFICES ASSUME Expand(r) PROVE FALSE
  OBVIOUS
<1>1. /\ Cardinality(Outstanding) < MaxOutstanding
      /\ Len(slots) <= Cardinality(Outstanding)
      /\ InitialSize <= Len(slots)
  BY SlotsWithinOutstanding DEF Expand, MayCall, IInv, AllStarted
<1>2. Len(slots) \in Nat
  BY SlotAt DEF IInv, Typed
<1> QED
  BY <1>1, <1>2, OutstandingFinite, SizeAssumption DEF Disciplined

LEMMA NextOwns ==
    ASSUME IInv, IInv', OwnsSlot, Disciplined, [Next]_vars
    PROVE  OwnsSlot'
<1> USE DEF IInv
<1>1. CASE NewPool \/ NewPoolFails
  BY <1>1 DEF NewPool, NewPoolFails, OwnsSlot, Outstanding, Typed, NoPoolNoRuns
<1>2. ASSUME NEW r \in Runs, Step(r) PROVE OwnsSlot'
  <2>1. CASE Reuse(r)
    <3>1. PICK i \in DOMAIN slots :
            /\ Free(i)
            /\ \A j \in DOMAIN slots \ {i} : slots'[j] = slots[j]
            /\ slots'[i].handle = slots[i].handle
            /\ slots'[i].generation = slots[i].generation + 1
            /\ ~slots'[i].available
            /\ phase[r] = "new"
            /\ phase' \in {[phase EXCEPT ![r] = "held"], [phase EXCEPT ![r] = "crashed"]}
            /\ ticket' = [ticket EXCEPT ![r] = [slot       |-> i,
                                                generation |-> slots[i].generation + 1,
                                                handle     |-> slots[i].handle]]
      BY <2>1, ReuseEffect
    <3>2. Outstanding' = Outstanding \union {r} /\ r \notin Outstanding
      BY <3>1, OutstandingAfter DEF Typed, Phases, Outstanding
    <3>3. /\ ticket'[r].slot = i
          /\ slots'[i].handle = ticket'[r].handle
          /\ slots'[i].generation = ticket'[r].generation
      BY <3>1 DEF Typed, TypeOK
    <3>4. ASSUME NEW q \in Outstanding
          PROVE  /\ ticket'[q] = ticket[q]
                 /\ slots'[ticket[q].slot] = slots[ticket[q].slot]
      BY <3>1, <3>2 DEF OwnsSlot, Outstanding, Typed, TypeOK, TicketsValid, Free
    <3> QED
      BY <3>1, <3>2, <3>3, <3>4 DEF OwnsSlot
  <2>2. CASE Release(r)
    <3>1. Outstanding' = Outstanding \ {r} /\ r \in Outstanding
      BY <2>2, OutstandingAfter DEF Release, Typed, Phases, Outstanding
    <3>2. ASSUME NEW q \in Outstanding \ {r}
          PROVE  slots'[ticket[q].slot] = slots[ticket[q].slot]
      BY <2>2, <3>1, ReleaseEffect, OwnersDiffer
      DEF Outstanding, Typed, TicketsValid
    <3>3. ticket' = ticket
      BY <2>2 DEF Release
    <3> QED
      BY <3>1, <3>2, <3>3 DEF OwnsSlot
  <2>3. CASE Abort(r)
    <3>1. phase[r] = "held" /\ phase' = [phase EXCEPT ![r] = "aborted"]
      BY <2>3 DEF Abort, MayAbort, Left, Disciplined
    <3>2. Outstanding' = Outstanding \ {r} /\ r \in Outstanding
      BY <3>1, OutstandingAfter DEF Typed, Phases, Outstanding
    <3>3. ASSUME NEW q \in Outstanding \ {r}
          PROVE  slots'[ticket[q].slot] = slots[ticket[q].slot]
      BY <2>3, <3>2, AbortEffect, OwnersDiffer DEF Outstanding, Typed, TicketsValid
    <3> QED
      BY <2>3, <3>2, <3>3 DEF Abort, OwnsSlot
  <2>4. CASE AbortPanics(r)
    <3>1. Outstanding' = Outstanding
      BY <2>4, LeftEffect DEF AbortPanics
    <3>2. ASSUME NEW j \in DOMAIN slots
          PROVE  /\ slots'[j].handle = slots[j].handle
                 /\ slots'[j].generation = slots[j].generation
                 /\ slots'[j].available = slots[j].available
      BY <2>4, AbortPanicsEffect
    <3> QED
      BY <2>4, <3>1, <3>2 DEF AbortPanics, OwnsSlot, Outstanding, Typed, TicketsValid
  <2>5. CASE ExpandFails(r) \/ CallRefused(r)
    <3>1. Outstanding' = Outstanding
      BY <2>5, OutstandingAfter
      DEF ExpandFails, CallRefused, MayCall, Typed, Phases, Outstanding
    <3> QED
      BY <2>5, <3>1 DEF ExpandFails, CallRefused, OwnsSlot
  <2>6. CASE PollPanics(r) \/ Complete(r) \/ ReleasePanics(r) \/ Drop(r)
    <3>1. PICK p \in {"panicked", "ready", "dropped"} : phase' = [phase EXCEPT ![r] = p]
      BY <2>6 DEF PollPanics, Complete, ReleasePanics, Drop
    <3>2. r \in Outstanding /\ UNCHANGED <<slots, ticket>>
      BY <2>6 DEF PollPanics, Complete, ReleasePanics, Drop, Outstanding
    <3>3. Outstanding' = Outstanding
      BY <3>1, <3>2, OutstandingAfter DEF Typed, TypeOK, Phases, Outstanding
    <3> QED
      BY <3>2, <3>3 DEF OwnsSlot
  <2>7. CASE AbortUnreplaced(r)
    <3>1. Outstanding' = Outstanding
      BY <2>7, LeftEffect DEF AbortUnreplaced
    <3> QED
      BY <2>7, <3>1 DEF AbortUnreplaced, OwnsSlot
  <2> QED
    BY <1>2, <2>1, <2>2, <2>3, <2>4, <2>5, <2>6, <2>7, NeverExpands DEF Step
<1>3. CASE UNCHANGED vars
  BY <1>3 DEF vars, OwnsSlot, Outstanding
<1> QED
  BY <1>1, <1>2, <1>3 DEF Next

LEMMA OwnershipInvariant == ASSUME Disciplined PROVE Spec => []OwnsSlot
<1>1. Init => OwnsSlot
  BY DEF Init, OwnsSlot, Outstanding
<1>2. IInv /\ IInv' /\ OwnsSlot /\ [Next]_vars => OwnsSlot'
  BY NextOwns
<1> QED
  BY Invariance, <1>1, <1>2, PTL DEF Spec

\* For a disciplined client no two outstanding runs are ever on the same worker,
\* whatever pool size, number of runs and faults.
THEOREM DisciplinedExclusive == ASSUME Disciplined PROVE Spec => []Exclusive
<1>1. IInv /\ OwnsSlot => Exclusive
  <2> SUFFICES ASSUME IInv, OwnsSlot, NEW r \in Outstanding, NEW q \in Outstanding,
                      ticket[r].handle = ticket[q].handle, r # q
               PROVE  FALSE
    BY DEF Exclusive
  <2>1. /\ ticket[r].slot \in DOMAIN slots /\ ticket[q].slot \in DOMAIN slots
        /\ slots[ticket[r].slot].handle = slots[ticket[q].slot].handle
    BY DEF OwnsSlot, IInv, Typed, TicketsValid, Outstanding
  <2> QED
    BY <2>1, OwnersDiffer DEF IInv, SlotWorkers
<1> QED
  BY Invariance, OwnershipInvariant, <1>1, PTL

\* For a disciplined client a slot is available only once the run that had its
\* worker is done.
THEOREM DisciplinedRelease == ASSUME Disciplined PROVE Spec => []AvailableAfterDone
<1>1. IInv /\ OwnsSlot => AvailableAfterDone
  <2> SUFFICES ASSUME IInv, OwnsSlot, NEW i \in DOMAIN slots, slots[i].available,
                      NEW r \in Outstanding, ticket[r].handle = slots[i].handle
               PROVE  FALSE
    BY DEF AvailableAfterDone
  <2>1. r \in Runs /\ Called(r)
    BY DEF Outstanding, Called
  <2>2. ticket[r].slot = i
    BY <2>1 DEF IInv, TicketWorkers
  <2> QED
    BY <2>2 DEF OwnsSlot
<1> QED
  BY Invariance, OwnershipInvariant, <1>1, PTL
=============================================================================
