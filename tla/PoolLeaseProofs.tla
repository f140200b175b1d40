--------------------------- MODULE PoolLeaseProofs ---------------------------
(***************************************************************************)
(* What a disciplined client (PoolExecutorProofs) gets from the pool, for   *)
(* every set of runs, pool size and set of faults: each of its runs leases a*)
(* live worker that nobody else has, and its abort handles stay armed.      *)
(***************************************************************************)
EXTENDS PoolLease, PoolExecutorProofs

-----------------------------------------------------------------------------
(***************************************************************************)
(* A terminated worker.  With it goes the run it was given to: that run gave*)
(* up its slot, or keeps it for ever, so that no call finds the dead worker.*)
(***************************************************************************)

\* Only workers that were started are terminated.
TerminatedStarted == terminated \subseteq 1..created

\* A run that owes its slot to a terminated worker never gives it back.
DeadAreKept ==
    \A r \in Outstanding :
        ticket[r].handle \in terminated => phase[r] \in {"dropped", "panicked"}

Alive == TerminatedStarted /\ DeadAreKept /\ AvailableIsAlive

\* The steps that leave the slots, tickets and terminated workers alone, and
\* move at most one outstanding run.
LEMMA QuietAlive ==
    ASSUME Alive,
           UNCHANGED <<slots, created, terminated, ticket>>,
           Outstanding' \subseteq Outstanding,
           \A r \in Outstanding' :
              phase'[r] = phase[r] \/ phase'[r] \in {"dropped", "panicked"}
                                   \/ ticket[r].handle \notin terminated
    PROVE  Alive'
<1>1. TerminatedStarted' /\ AvailableIsAlive'
  BY DEF Alive, TerminatedStarted, AvailableIsAlive
<1>2. DeadAreKept'
  BY DEF Alive, DeadAreKept
<1> QED
  BY <1>1, <1>2 DEF Alive

\* What terminating the worker of run r does to the others: nothing, for they
\* have slots and workers of their own.
LEMMA KillSpares ==
    ASSUME IInv, OwnsSlot, NEW r \in Outstanding
    PROVE  LET i == ticket[r].slot
               w == slots[i].handle
           IN /\ i \in DOMAIN slots
              /\ w = ticket[r].handle
              /\ w \in 1..created
              /\ ~slots[i].available
              /\ \A j \in DOMAIN slots \ {i} : slots[j].handle # w
              /\ \A q \in Outstanding \ {r} : ticket[q].handle # w /\ ticket[q].slot # i
<1>1. r \in Runs /\ ticket[r].slot \in DOMAIN slots
  BY DEF Outstanding, IInv, Typed, TicketsValid
<1>2. ASSUME NEW q \in Outstanding \ {r}
      PROVE  ticket[q].slot # ticket[r].slot /\ ticket[q].handle # ticket[r].handle
  <2>1. ticket[q].slot # ticket[r].slot
    BY <1>2, OwnersDiffer
  <2>2. ticket[q].slot \in DOMAIN slots
    BY <1>2 DEF Outstanding, IInv, Typed, TicketsValid
  <2> QED
    BY <1>1, <1>2, <2>1, <2>2 DEF IInv, SlotWorkers, OwnsSlot
<1> QED
  BY <1>1, <1>2 DEF IInv, SlotWorkers, OwnsSlot

\* A disciplined client aborts what is running, and takes no notice of it after.
LEMMA CarefulAbort ==
    ASSUME Typed, Disciplined, NEW r \in Runs, MayAbort(r),
           NEW p \in Phases, Left(r, p)
    PROVE  /\ phase[r] = "held"
           /\ r \in Outstanding
           /\ phase' = [phase EXCEPT ![r] = p]
  BY DEF Disciplined, MayAbort, Left, Outstanding

LEMMA InitAlive == Init => Alive
  BY DEF Init, Alive, TerminatedStarted, DeadAreKept, AvailableIsAlive, Outstanding

LEMMA NextAlive ==
    ASSUME IInv, IInv', OwnsSlot, Alive, Disciplined, [Next]_vars
    PROVE  Alive'
<1> USE DEF IInv
<1>0. TerminatedStarted /\ DeadAreKept /\ AvailableIsAlive
  BY DEF Alive
<1>1. CASE NewPool \/ NewPoolFails
  <2>1. terminated' = {}
    BY <1>1 DEF NewPool, NewPoolFails, Typed, NoPoolNoRuns
  <2> QED
    BY <2>1 DEF Alive, TerminatedStarted, DeadAreKept, AvailableIsAlive
<1>2. ASSUME NEW r \in Runs, Step(r) PROVE Alive'
  <2>1. CASE Reuse(r)
    <3>1. PICK i \in DOMAIN slots :
            /\ Free(i)
            /\ DOMAIN slots' = DOMAIN slots
            /\ \A j \in DOMAIN slots \ {i} : slots'[j] = slots[j]
            /\ slots'[i].handle = slots[i].handle
            /\ ~slots'[i].available
            /\ phase[r] = "new"
            /\ phase' \in {[phase EXCEPT ![r] = "held"], [phase EXCEPT ![r] = "crashed"]}
            /\ ticket' = [ticket EXCEPT ![r] = [slot       |-> i,
                                                generation |-> slots[i].generation + 1,
                                                handle     |-> slots[i].handle]]
      BY <2>1, ReuseEffect
    <3>2. /\ Outstanding' = Outstanding \union {r}
          /\ \A q \in Runs \ {r} : phase'[q] = phase[q] /\ ticket'[q] = ticket[q]
          /\ ticket'[r].handle = slots[i].handle
      BY <3>1, OutstandingAfter DEF Typed, TypeOK, Phases
    <3>3. UNCHANGED <<created, terminated>>
      BY <2>1 DEF Reuse
    <3>4. slots[i].handle \notin terminated
      BY <1>0, <3>1 DEF AvailableIsAlive, Free
    <3>5. DeadAreKept'
      BY <1>0, <3>2, <3>3, <3>4 DEF DeadAreKept, Outstanding
    <3>6. AvailableIsAlive'
      BY <1>0, <3>1, <3>3 DEF AvailableIsAlive
    <3> QED
      BY <1>0, <3>3, <3>5, <3>6 DEF Alive, TerminatedStarted
  <2>2. CASE Release(r)
    <3> DEFINE i == ticket[r].slot
    <3>1. /\ i \in DOMAIN slots
          /\ DOMAIN slots' = DOMAIN slots
          /\ \A j \in DOMAIN slots \ {i} : slots'[j] = slots[j]
          /\ slots'[i].handle = slots[i].handle
      BY <2>2, ReleaseEffect
    <3>2. /\ r \in Outstanding
          /\ Outstanding' = Outstanding \ {r}
          /\ \A q \in Runs \ {r} : phase'[q] = phase[q]
      BY <2>2, OutstandingAfter DEF Release, Typed, Phases, Outstanding
    <3>3. UNCHANGED <<created, terminated, ticket>> /\ phase[r] = "ready"
      BY <2>2 DEF Release
    <3>4. slots[i].handle \notin terminated
      BY <1>0, <3>2, <3>3 DEF DeadAreKept, OwnsSlot
    <3> HIDE DEF i
    <3>5. DeadAreKept'
      BY <1>0, <3>2, <3>3 DEF DeadAreKept, Outstanding
    <3>6. AvailableIsAlive'
      BY <1>0, <3>1, <3>3, <3>4 DEF AvailableIsAlive
    <3> QED
      BY <1>0, <3>3, <3>5, <3>6 DEF Alive, TerminatedStarted
  <2>3. CASE Abort(r)
    <3> DEFINE i == ticket[r].slot
               w == slots[i].handle
    <3>1. /\ DOMAIN slots' = DOMAIN slots
          /\ \A j \in DOMAIN slots \ {i} : slots'[j] = slots[j]
          /\ slots'[i].handle = created + 1
      BY <2>3, AbortEffect
    <3>2. phase' = [phase EXCEPT ![r] = "aborted"] /\ r \in Outstanding
      BY <2>3, CarefulAbort DEF Abort, Typed, Phases
    <3>3. /\ Outstanding' = Outstanding \ {r}
          /\ \A q \in Runs \ {r} : phase'[q] = phase[q]
      BY <3>2, OutstandingAfter DEF Typed, Phases
    <3>4. /\ terminated' = terminated \union {w}
          /\ created' = created + 1 /\ created \in Nat /\ ticket' = ticket
      BY <2>3 DEF Abort, Kill, Typed, TypeOK
    <3>5. /\ w \in 1..created
          /\ \A j \in DOMAIN slots \ {i} : slots[j].handle # w
          /\ \A q \in Outstanding \ {r} : ticket[q].handle # w
      BY <3>2, KillSpares
    <3> HIDE DEF i, w
    <3>6. TerminatedStarted'
      BY <1>0, <3>4, <3>5 DEF TerminatedStarted
    <3>7. DeadAreKept'
      BY <1>0, <3>3, <3>4, <3>5 DEF DeadAreKept, Outstanding
    <3>8. created + 1 \notin terminated'
      BY <1>0, <3>4, <3>5 DEF TerminatedStarted
    <3>9. AvailableIsAlive'
      BY <1>0, <3>1, <3>4, <3>5, <3>8 DEF AvailableIsAlive
    <3> QED
      BY <3>6, <3>7, <3>9 DEF Alive
  <2>4. CASE AbortUnreplaced(r) \/ AbortPanics(r)
    <3> DEFINE i == ticket[r].slot
               w == slots[i].handle
    <3>1. /\ DOMAIN slots' = DOMAIN slots
          /\ \A j \in DOMAIN slots : /\ slots'[j].handle = slots[j].handle
                                     /\ slots'[j].available = slots[j].available
      BY <2>4, AbortPanicsEffect DEF AbortUnreplaced
    <3>2. PICK p \in {"dropped", "panicked"} :
            phase' = [phase EXCEPT ![r] = p] /\ r \in Outstanding
      BY <2>4, CarefulAbort DEF AbortUnreplaced, AbortPanics, Typed, Phases
    <3>3. /\ Outstanding' = Outstanding
          /\ \A q \in Runs \ {r} : phase'[q] = phase[q]
          /\ phase'[r] = p
      BY <3>2, OutstandingAfter DEF Typed, Phases, Outstanding
    <3>4. /\ terminated' = terminated \union {w}
          /\ UNCHANGED <<created, ticket>>
      BY <2>4 DEF AbortUnreplaced, AbortPanics, Kill
    <3>5. /\ w \in 1..created /\ i \in DOMAIN slots
          /\ ~slots[i].available
          /\ \A j \in DOMAIN slots \ {i} : slots[j].handle # w
          /\ \A q \in Outstanding \ {r} : ticket[q].handle # w
      BY <3>2, KillSpares
    <3> HIDE DEF i, w
    <3>6. TerminatedStarted'
      BY <1>0, <3>4, <3>5 DEF TerminatedStarted
    <3>7. DeadAreKept'
      BY <1>0, <3>2, <3>3, <3>4, <3>5 DEF DeadAreKept, Outstanding
    <3>8. AvailableIsAlive'
      BY <1>0, <3>1, <3>4, <3>5 DEF AvailableIsAlive
    <3> QED
      BY <3>6, <3>7, <3>8 DEF Alive
  <2>5. CASE ExpandFails(r) \/ CallRefused(r)
    <3>1. /\ phase[r] = "new" /\ phase' = [phase EXCEPT ![r] = "failed"]
          /\ UNCHANGED <<slots, created, terminated, ticket>>
      BY <2>5 DEF ExpandFails, CallRefused, MayCall
    <3>2. /\ Outstanding' = Outstanding \ {r}
          /\ \A q \in Runs \ {r} : phase'[q] = phase[q]
      BY <3>1, OutstandingAfter DEF Typed, Phases
    <3> QED
      BY <3>1, <3>2, QuietAlive DEF Outstanding
  <2>6. CASE PollPanics(r) \/ Complete(r) \/ ReleasePanics(r) \/ Drop(r)
    <3>1. PICK p \in {"panicked", "ready", "dropped"} :
            /\ phase' = [phase EXCEPT ![r] = p]
            /\ p = "ready" => phase[r] = "held"
      BY <2>6 DEF PollPanics, Complete, ReleasePanics, Drop
    <3>2. r \in Outstanding /\ UNCHANGED <<slots, created, terminated, ticket>>
      BY <2>6 DEF PollPanics, Complete, ReleasePanics, Drop, Outstanding
    <3>3. /\ Outstanding' = Outstanding
          /\ \A q \in Runs \ {r} : phase'[q] = phase[q]
          /\ phase'[r] = p
      BY <3>1, <3>2, OutstandingAfter DEF Typed, Phases, Outstanding
    <3>4. p = "ready" => ticket[r].handle \notin terminated
      BY <1>0, <3>1, <3>2 DEF DeadAreKept
    <3> QED
      BY <3>2, <3>3, <3>4, QuietAlive DEF Outstanding
  <2> QED
    BY <1>2, <2>1, <2>2, <2>3, <2>4, <2>5, <2>6, NeverExpands DEF Step
<1>3. CASE UNCHANGED vars
  BY <1>3, QuietAlive DEF vars, Outstanding
<1> QED
  BY <1>1, <1>2, <1>3 DEF Next

LEMMA AliveInvariant == ASSUME Disciplined PROVE Spec => []Alive
<1>1. IInv /\ IInv' /\ OwnsSlot /\ Alive /\ [Next]_vars => Alive'
  BY NextAlive
<1> QED
  BY Invariance, OwnershipInvariant, InitAlive, <1>1, PTL DEF Spec

\* The slot that the next call of a disciplined client is given never holds a
\* worker that abort() terminated, also when it could not be replaced.
THEOREM DisciplinedAlive == ASSUME Disciplined PROVE Spec => []AvailableIsAlive
<1>1. Alive => AvailableIsAlive
  BY DEF Alive
<1> QED
  BY AliveInvariant, <1>1, PTL

\* While a run of a disciplined client is in progress and no panic wedged its
\* slot, its handle aborts it: no other use of the slot has disarmed it.
THEOREM DisciplinedAbortable == ASSUME Disciplined PROVE Spec => []RunningIsAbortable
<1>1. OwnsSlot => RunningIsAbortable
  BY DEF OwnsSlot, RunningIsAbortable, Outstanding, Armed
<1> QED
  BY OwnershipInvariant, <1>1, PTL

-----------------------------------------------------------------------------
(***************************************************************************)
(* The refinement.  Opening the pool stocks its workers; a call takes an    *)
(* idle one, for a disciplined client never finds the pool without; giving  *)
(* back the slot gives back the worker; an abort that replaces the worker   *)
(* retires it, and one that cannot leaves it leased for ever.               *)
(***************************************************************************)

\* No worker is started before the pool is.
FirstStarts == pool = "unset" => created = 0

LEMMA StartsInvariant == Spec => []FirstStarts
<1>1. Init => FirstStarts
  BY DEF Init, FirstStarts
<1>2. Typed /\ FirstStarts /\ [Next]_vars => FirstStarts'
  BY DEF Typed, NoPoolNoRuns, FirstStarts, Next, Step, vars, NewPool, NewPoolFails,
     Reuse, Expand, ExpandFails, CallRefused, MayCall, PollPanics, Complete, Release,
     ReleasePanics, Drop, Abort, AbortUnreplaced, AbortPanics, MayAbort, HasHandle
<1>3. IInv => Typed
  BY DEF IInv
<1> QED
  BY <1>1, <1>2, <1>3, Invariance, PTL DEF Spec

\* Which worker a run leases, before and after a step.
LEMMA LeaseAt ==
    \A r \in Runs : LeaseOf[r] = IF r \in Outstanding THEN ticket[r].handle ELSE 0
  BY DEF LeaseOf

\* The runs that lease a worker lease a real one.
LEMMA LeaseNonZero ==
    ASSUME IInv, NEW r \in Outstanding
    PROVE  LeaseOf[r] = ticket[r].handle /\ LeaseOf[r] # 0
<1>1. r \in Runs /\ Called(r)
  BY DEF Outstanding, Called
<1>2. slots[ticket[r].slot].handle \in Nat
  BY <1>1, SlotAt DEF IInv, Typed, TicketsValid, Called, Slot
<1> QED
  BY <1>1, <1>2, LeaseAt DEF IInv, TicketWorkers

\* The steps that leave the lease protocol alone.
LEMMA QuietLease ==
    ASSUME DOMAIN slots' = DOMAIN slots,
           \A i \in DOMAIN slots : /\ slots'[i].handle = slots[i].handle
                                    /\ slots'[i].available = slots[i].available,
           UNCHANGED <<created, ticket>>,
           Outstanding' = Outstanding
    PROVE  UNCHANGED Lease!vars
<1>1. UNCHANGED Idle
  BY DEF Idle
<1>2. UNCHANGED LeaseOf
  BY DEF LeaseOf
<1> QED
  BY <1>1, <1>2 DEF Lease!vars

LEMMA InitLeases == Init => Lease!Init
<1> SUFFICES ASSUME Init PROVE Lease!Init
  OBVIOUS
<1>1. created = 0 /\ DOMAIN slots = {} /\ Outstanding = {}
  BY DEF Init, Outstanding
<1>2. Idle = {}
  BY <1>1 DEF Idle
<1>3. LeaseOf = [r \in Runs |-> 0]
  BY <1>1 DEF LeaseOf
<1> QED
  BY <1>1, <1>2, <1>3 DEF Lease!Init

LEMMA OpeningStocks ==
    ASSUME IInv, FirstStarts, NewPool
    PROVE  Lease!Stock
<1>1. /\ created = 0 /\ created' = InitialSize /\ InitialSize \in Nat
      /\ Idle = {}
      /\ Outstanding = {} /\ Outstanding' = {}
  BY SizeAssumption
  DEF NewPool, FirstStarts, IInv, Typed, NoPoolNoRuns, Idle, Outstanding
<1>2. DOMAIN slots' = 1..InitialSize /\ \A i \in 1..InitialSize :
        slots'[i].handle = i /\ slots'[i].available
  BY NewSlots, NewState, SizeAssumption DEF NewPool
<1>3. Idle' = 1..InitialSize
  BY <1>2 DEF Idle
<1>4. UNCHANGED LeaseOf
  BY <1>1 DEF LeaseOf
<1> QED
  BY <1>1, <1>3, <1>4 DEF Lease!Stock

LEMMA FailingWastes ==
    ASSUME IInv, FirstStarts, NewPoolFails
    PROVE  Lease!Waste
<1>1. /\ created = 0 /\ created' \in Nat
      /\ UNCHANGED <<slots, ticket>> /\ Outstanding' = Outstanding
  BY SizeAssumption DEF NewPoolFails, FirstStarts, Outstanding
<1>2. UNCHANGED Idle /\ UNCHANGED LeaseOf
  BY <1>1 DEF Idle, LeaseOf
<1> QED
  BY <1>1, <1>2 DEF Lease!Waste

LEMMA ReuseTakes ==
    ASSUME IInv, NEW r \in Runs, Reuse(r)
    PROVE  Lease!Take(r)
<1> USE DEF IInv
<1>1. PICK i \in DOMAIN slots :
        /\ Free(i)
        /\ DOMAIN slots' = DOMAIN slots
        /\ \A j \in DOMAIN slots \ {i} : slots'[j] = slots[j]
        /\ ~slots'[i].available
        /\ phase[r] = "new"
        /\ phase' \in {[phase EXCEPT ![r] = "held"], [phase EXCEPT ![r] = "crashed"]}
        /\ ticket' = [ticket EXCEPT ![r] = [slot       |-> i,
                                            generation |-> slots[i].generation + 1,
                                            handle     |-> slots[i].handle]]
  BY ReuseEffect
<1>2. /\ Outstanding' = Outstanding \union {r} /\ r \notin Outstanding
      /\ \A q \in Runs \ {r} : ticket'[q] = ticket[q]
      /\ ticket'[r].handle = slots[i].handle
  BY <1>1, OutstandingAfter DEF Typed, TypeOK, Phases, Outstanding
<1>3. LeaseOf[r] = 0
  BY <1>2, LeaseAt
<1>4. LeaseOf' = [LeaseOf EXCEPT ![r] = slots[i].handle]
  BY <1>2 DEF LeaseOf
<1>5. slots[i].handle \in Idle
  BY <1>1 DEF Idle, Free
<1>6. Idle' = Idle \ {slots[i].handle}
  BY <1>1 DEF Idle, SlotWorkers
<1>7. UNCHANGED created
  BY DEF Reuse
<1> QED
  BY <1>3, <1>4, <1>5, <1>6, <1>7 DEF Lease!Take

LEMMA ReleaseGivesBack ==
    ASSUME IInv, OwnsSlot, NEW r \in Runs, Release(r)
    PROVE  Lease!GiveBack(r)
<1> USE DEF IInv
<1> DEFINE i == ticket[r].slot
<1>1. /\ i \in DOMAIN slots
      /\ DOMAIN slots' = DOMAIN slots
      /\ \A j \in DOMAIN slots \ {i} : slots'[j] = slots[j]
      /\ slots'[i].handle = slots[i].handle
      /\ slots'[i].available
  BY ReleaseEffect
<1>2. r \in Outstanding /\ Outstanding' = Outstanding \ {r}
  BY OutstandingAfter DEF Release, Typed, Phases, Outstanding
<1>3. UNCHANGED <<created, ticket>>
  BY DEF Release
<1>4. LeaseOf[r] # 0 /\ LeaseOf[r] = slots[i].handle
  BY <1>2, LeaseNonZero DEF OwnsSlot
<1> HIDE DEF i
<1>5. LeaseOf' = [LeaseOf EXCEPT ![r] = 0]
  BY <1>2, <1>3 DEF LeaseOf
<1>6. Idle' = Idle \union {LeaseOf[r]}
  BY <1>1, <1>4 DEF Idle
<1> QED
  BY <1>3, <1>4, <1>5, <1>6 DEF Lease!GiveBack

LEMMA AbortRetires ==
    ASSUME IInv, OwnsSlot, Disciplined, NEW r \in Runs, Abort(r)
    PROVE  Lease!Retire(r)
<1> USE DEF IInv
<1> DEFINE i == ticket[r].slot
<1>1. /\ DOMAIN slots' = DOMAIN slots
      /\ \A j \in DOMAIN slots \ {i} : slots'[j] = slots[j]
      /\ slots'[i].handle = created + 1
      /\ slots'[i].available
  BY AbortEffect
<1>2. phase' = [phase EXCEPT ![r] = "aborted"] /\ r \in Outstanding
  BY CarefulAbort DEF Abort, Phases
<1>3. Outstanding' = Outstanding \ {r}
  BY <1>2, OutstandingAfter DEF Typed, Phases
<1>4. i \in DOMAIN slots /\ ~slots[i].available
  BY <1>2, KillSpares
<1>5. created' = created + 1 /\ ticket' = ticket
  BY DEF Abort
<1> HIDE DEF i
<1>6. LeaseOf[r] # 0
  BY <1>2, LeaseNonZero
<1>7. LeaseOf' = [LeaseOf EXCEPT ![r] = 0]
  BY <1>2, <1>3, <1>5 DEF LeaseOf
<1>8. Idle' = Idle \union {created'}
  BY <1>1, <1>4, <1>5 DEF Idle
<1> QED
  BY <1>5, <1>6, <1>7, <1>8 DEF Lease!Retire

LEMMA NextLeases ==
    ASSUME IInv, OwnsSlot, FirstStarts, Disciplined, [Next]_vars
    PROVE  [Lease!Next]_Lease!vars
<1> USE DEF IInv
<1>1. CASE NewPool \/ NewPoolFails
  BY <1>1, OpeningStocks, FailingWastes DEF Lease!Next
<1>2. ASSUME NEW r \in Runs, Reuse(r) \/ Release(r) \/ Abort(r)
      PROVE  [Lease!Next]_Lease!vars
  BY <1>2, ReuseTakes, ReleaseGivesBack, AbortRetires DEF Lease!Next
<1>3. ASSUME NEW r \in Runs, AbortUnreplaced(r) \/ AbortPanics(r)
      PROVE  UNCHANGED Lease!vars
  <2>1. Outstanding' = Outstanding /\ UNCHANGED <<created, ticket>>
    BY <1>3, LeftEffect DEF AbortUnreplaced, AbortPanics
  <2>2. /\ DOMAIN slots' = DOMAIN slots
        /\ \A j \in DOMAIN slots : /\ slots'[j].handle = slots[j].handle
                                   /\ slots'[j].available = slots[j].available
    BY <1>3, AbortPanicsEffect DEF AbortUnreplaced
  <2> QED
    BY <2>1, <2>2, QuietLease
<1>4. ASSUME NEW r \in Runs, ExpandFails(r) \/ CallRefused(r)
      PROVE  UNCHANGED Lease!vars
  <2>1. Outstanding' = Outstanding
    BY <1>4, OutstandingAfter
    DEF ExpandFails, CallRefused, MayCall, Typed, Phases, Outstanding
  <2> QED
    BY <1>4, <2>1, QuietLease DEF ExpandFails, CallRefused
<1>5. ASSUME NEW r \in Runs, PollPanics(r) \/ Complete(r) \/ ReleasePanics(r) \/ Drop(r)
      PROVE  UNCHANGED Lease!vars
  <2>1. PICK p \in {"panicked", "ready", "dropped"} : phase' = [phase EXCEPT ![r] = p]
    BY <1>5 DEF PollPanics, Complete, ReleasePanics, Drop
  <2>2. r \in Outstanding /\ UNCHANGED <<slots, created, ticket>>
    BY <1>5 DEF PollPanics, Complete, ReleasePanics, Drop, Outstanding
  <2>3. Outstanding' = Outstanding
    BY <2>1, <2>2, OutstandingAfter DEF Typed, Phases, Outstanding
  <2> QED
    BY <2>2, <2>3, QuietLease
<1>6. CASE UNCHANGED vars
  BY <1>6, QuietLease DEF vars, Outstanding
<1> QED
  BY <1>1, <1>2, <1>3, <1>4, <1>5, <1>6, NeverExpands DEF Next, Step

\* The pool leases its workers to the runs of a disciplined client: each step of
\* calls, futures, streams, proxy tasks and abort() is one of WorkerLease or none.
THEOREM DisciplinedLease == ASSUME Disciplined PROVE Spec => ImplementsLease
<1>1. IInv /\ OwnsSlot /\ FirstStarts /\ [Next]_vars => [Lease!Next]_Lease!vars
  BY NextLeases
<1> QED
  BY Invariance, OwnershipInvariant, StartsInvariant, InitLeases, <1>1, PTL
  DEF Spec, ImplementsLease, Lease!Spec
=============================================================================
