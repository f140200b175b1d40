------------------------- MODULE PoolMessagesProofs -------------------------
(***************************************************************************)
(* The pool with its messages implements the pool: what PoolExecutor leaves *)
(* to chance, when a run's last message arrives, PoolMessages makes happen  *)
(* on conditions of its own, and every theorem about the pool holds of it.  *)
(* Then what the owners of runs receive.                                    *)
(***************************************************************************)
EXTENDS PoolMessages, PoolLeaseProofs

\* Every step of the messages is a step of the pool or leaves it alone.
LEMMA StepRefines == [MessageNext]_<<vars, messageVars>> => [Next]_vars
<1> SUFFICES ASSUME [MessageNext]_<<vars, messageVars>> PROVE [Next]_vars
  OBVIOUS
<1>1. CASE Silent
  BY <1>1 DEF Silent, Next, Step
<1>2. ASSUME NEW r \in Runs, Call(r) PROVE [Next]_vars
  BY <1>2 DEF Call, Next, Step
<1>3. ASSUME NEW r \in Runs, FirstPoll(r) PROVE [Next]_vars
  BY <1>3 DEF FirstPoll
<1>4. ASSUME NEW r \in Runs, FirstPollPanics(r) PROVE [Next]_vars
  BY <1>4 DEF FirstPollPanics, Next, Step
<1>5. ASSUME NEW r \in Runs, Produce(r) \/ End(r) \/ Resolve(r) PROVE [Next]_vars
  BY <1>5 DEF Produce, End, Resolve, vars
<1>6. ASSUME NEW r \in Runs, Receive(r) PROVE [Next]_vars
  <2>1. CASE ReceiveAnswer(r)
    BY <2>1 DEF ReceiveAnswer, Next, Step
  <2>2. CASE ReceiveItem(r)
    BY <2>2 DEF ReceiveItem, vars
  <2>3. CASE ReceiveEnd(r)
    BY <2>3 DEF ReceiveEnd, Next, Step
  <2>4. CASE ReceiveStray(r)
    BY <2>4 DEF ReceiveStray, vars
  <2> QED
    BY <1>6, <2>1, <2>2, <2>3, <2>4 DEF Receive
<1>7. CASE UNCHANGED <<vars, messageVars>>
  BY <1>7
<1> QED
  BY <1>1, <1>2, <1>3, <1>4, <1>5, <1>6, <1>7 DEF MessageNext

\* PoolMessages refines PoolExecutor: the Complete of the coarser module, by
\* which any held run of a live worker may finish, covers every way the closures
\* of WorkerHandle let a run finish.
THEOREM MessagesRefinePool == MessageSpec => Spec
<1>1. MessageInit => Init
  BY DEF MessageInit
<1> QED
  BY <1>1, StepRefines, PTL DEF MessageSpec, Spec

\* So the slots behave under every order of messages as they do without: each
\* unavailable slot is owed by the run it was given to, workers are accounted
\* for, and the workers the pool was created with serve one run at a time.
THEOREM MessagesKeepPool == MessageSpec => []IInv
  BY MessagesRefinePool, Invariance, PTL

\* And a disciplined client leases its workers, however its messages travel.
THEOREM MessagesKeepLease == ASSUME Disciplined PROVE MessageSpec => ImplementsLease
  BY MessagesRefinePool, DisciplinedLease, PTL

-----------------------------------------------------------------------------
(***************************************************************************)
(* How many workers there are.  A worker is started by a call that expands  *)
(* the pool or by an abort, which leaves its slot available: the slot must  *)
(* be taken by another call before it is aborted again.                     *)
(***************************************************************************)

CalledRuns == {r \in Runs : Called(r)}

Taken == {i \in DOMAIN slots : ~slots[i].available}

StartsBounded ==
    created + Cardinality(Taken) <= InitialSize + 2 * Cardinality(CalledRuns)

LEMMA CountsTyped ==
    ASSUME Typed
    PROVE  /\ IsFiniteSet(Taken) /\ Cardinality(Taken) \in Nat
           /\ IsFiniteSet(CalledRuns) /\ Cardinality(CalledRuns) \in Nat
           /\ created \in Nat /\ InitialSize \in Nat
<1>1. DOMAIN slots = 1..Len(slots) /\ Len(slots) \in Nat
  BY SlotAt DEF Typed
<1>2. IsFiniteSet(1..Len(slots))
  BY <1>1, FS_Interval
<1>3. IsFiniteSet(Taken)
  BY <1>1, <1>2, FS_Subset DEF Taken
<1>4. IsFiniteSet(CalledRuns)
  BY RunsAssumption, FS_Subset DEF CalledRuns
<1> QED
  BY <1>3, <1>4, FS_CardinalityType, SizeAssumption DEF Typed, TypeOK

\* Taking an element more or less changes a count by one or not at all.
LEMMA CountStep ==
    ASSUME NEW S, NEW x, IsFiniteSet(S)
    PROVE  /\ Cardinality(S \union {x}) \in Nat
           /\ Cardinality(S \union {x}) <= Cardinality(S) + 1
           /\ x \notin S => Cardinality(S \union {x}) = Cardinality(S) + 1
           /\ Cardinality(S \ {x}) \in Nat
           /\ Cardinality(S \ {x}) <= Cardinality(S)
           /\ x \in S => Cardinality(S \ {x}) = Cardinality(S) - 1
<1>1. Cardinality(S) \in Nat
  BY FS_CardinalityType
<1>2. /\ IsFiniteSet(S \union {x})
      /\ Cardinality(S \union {x}) =
            IF x \in S THEN Cardinality(S) ELSE Cardinality(S) + 1
  BY FS_AddElement
<1>3. /\ IsFiniteSet(S \ {x})
      /\ Cardinality(S \ {x}) =
            IF x \in S THEN Cardinality(S) - 1 ELSE Cardinality(S)
  BY FS_RemoveElement
<1>4. Cardinality(S \union {x}) \in Nat /\ Cardinality(S \ {x}) \in Nat
  BY <1>2, <1>3, FS_CardinalityType
<1> QED
  BY <1>1, <1>2, <1>3, <1>4

LEMMA InitStarts == Init => StartsBounded
<1> SUFFICES ASSUME Init PROVE StartsBounded
  OBVIOUS
<1>1. created = 0 /\ Taken = {} /\ Typed
  BY InitTyped DEF Init, Taken
<1> QED
  BY <1>1, FS_EmptySet, CountsTyped DEF StartsBounded

LEMMA NextStarts ==
    ASSUME Typed, Typed', StartsBounded, [Next]_vars
    PROVE  StartsBounded'
<1>0. /\ IsFiniteSet(Taken) /\ Cardinality(Taken) \in Nat
      /\ IsFiniteSet(CalledRuns) /\ Cardinality(CalledRuns) \in Nat
      /\ created \in Nat /\ InitialSize \in Nat
  BY CountsTyped
<1>1. CASE NewPool \/ NewPoolFails
  <2>1. created' \in 0..InitialSize /\ Taken' = {} /\ CalledRuns' = CalledRuns
    BY <1>1, NewSlots, NewState, SizeAssumption
    DEF NewPool, NewPoolFails, Typed, NoPoolNoRuns, Taken, CalledRuns, Called
  <2> QED
    BY <1>0, <2>1, FS_EmptySet DEF StartsBounded
<1>2. ASSUME NEW r \in Runs, Step(r) PROVE StartsBounded'
  <2>1. CASE Reuse(r)
    <3>1. PICK i \in DOMAIN slots :
            /\ DOMAIN slots' = DOMAIN slots
            /\ \A j \in DOMAIN slots \ {i} : slots'[j] = slots[j]
            /\ ~slots'[i].available
            /\ phase[r] = "new"
            /\ phase' \in {[phase EXCEPT ![r] = "held"], [phase EXCEPT ![r] = "crashed"]}
      BY <2>1, ReuseEffect
    <3>2. Taken' = Taken \union {i}
      BY <3>1 DEF Taken
    <3>3. CalledRuns' = CalledRuns \union {r} /\ r \notin CalledRuns
      BY <3>1, OutstandingAfter DEF Typed, Phases, CalledRuns, Called
    <3>4. UNCHANGED created
      BY <2>1 DEF Reuse
    <3>5. Cardinality(Taken') <= Cardinality(Taken) + 1 /\ Cardinality(Taken') \in Nat
      BY <1>0, <3>2, CountStep
    <3>6. Cardinality(CalledRuns') = Cardinality(CalledRuns) + 1
      BY <1>0, <3>3, CountStep
    <3> QED
      BY <1>0, <3>4, <3>5, <3>6 DEF StartsBounded
  <2>2. CASE Expand(r)
    <3>1. /\ DOMAIN slots' = DOMAIN slots \union {Len(slots) + 1}
          /\ \A j \in DOMAIN slots : slots'[j] = slots[j]
          /\ phase[r] = "new"
          /\ phase' \in {[phase EXCEPT ![r] = "held"], [phase EXCEPT ![r] = "crashed"]}
      BY <2>2, ExpandEffect
    <3>2. Taken' = Taken \/ Taken' = Taken \union {Len(slots) + 1}
      BY <3>1 DEF Taken
    <3>3. CalledRuns' = CalledRuns \union {r} /\ r \notin CalledRuns
      BY <3>1, OutstandingAfter DEF Typed, Phases, CalledRuns, Called
    <3>4. created' = created + 1
      BY <2>2 DEF Expand
    <3>5. Cardinality(Taken') <= Cardinality(Taken) + 1 /\ Cardinality(Taken') \in Nat
      <4>1. CASE Taken' = Taken
        BY <1>0, <4>1
      <4>2. CASE Taken' = Taken \union {Len(slots) + 1}
        BY <1>0, <4>2, CountStep
      <4> QED
        BY <3>2, <4>1, <4>2
    <3>6. Cardinality(CalledRuns') = Cardinality(CalledRuns) + 1
      BY <1>0, <3>3, CountStep
    <3> QED
      BY <1>0, <3>4, <3>5, <3>6 DEF StartsBounded
  <2>3. CASE Release(r)
    <3>1. Taken' = Taken \ {ticket[r].slot}
      BY <2>3, ReleaseEffect DEF Taken
    <3>2. created' = created /\ CalledRuns' = CalledRuns
      BY <2>3, OutstandingAfter DEF Release, Typed, Phases, CalledRuns, Called
    <3>3. Cardinality(Taken') <= Cardinality(Taken) /\ Cardinality(Taken') \in Nat
      BY <1>0, <3>1, CountStep
    <3> QED
      BY <1>0, <3>2, <3>3 DEF StartsBounded
  <2>4. CASE Abort(r)
    <3>1. Taken' = Taken \ {ticket[r].slot} /\ ticket[r].slot \in Taken
      BY <2>4, AbortEffect, ArmedEffect DEF Abort, Taken
    <3>2. created' = created + 1 /\ CalledRuns' = CalledRuns
      BY <2>4 DEF Abort, MayAbort, HasHandle, Left, Typed, TypeOK, CalledRuns, Called
    <3>3. Cardinality(Taken') = Cardinality(Taken) - 1
      BY <1>0, <3>1, CountStep
    <3> QED
      BY <1>0, <3>2, <3>3 DEF StartsBounded
  <2>5. CASE AbortUnreplaced(r) \/ AbortPanics(r)
    <3>1. Taken' = Taken
      BY <2>5, AbortPanicsEffect DEF AbortUnreplaced, Taken
    <3>2. created' = created /\ CalledRuns' = CalledRuns
      BY <2>5 DEF AbortUnreplaced, AbortPanics, MayAbort, HasHandle, Left, Typed, TypeOK,
                  CalledRuns, Called
    <3> QED
      BY <3>1, <3>2 DEF StartsBounded
  <2>6. CASE \/ ExpandFails(r) \/ CallRefused(r) \/ PollPanics(r) \/ Complete(r)
             \/ ReleasePanics(r) \/ Drop(r)
    <3>1. created' = created /\ Taken' = Taken
      BY <2>6 DEF ExpandFails, CallRefused, PollPanics, Complete, ReleasePanics, Drop, Taken
    <3>2. CalledRuns' = CalledRuns
      BY <2>6 DEF ExpandFails, CallRefused, MayCall, PollPanics, Complete, ReleasePanics,
                  Drop, Typed, TypeOK, CalledRuns, Called
    <3> QED
      BY <3>1, <3>2 DEF StartsBounded
  <2> QED
    BY <1>2, <2>1, <2>2, <2>3, <2>4, <2>5, <2>6 DEF Step
<1>3. CASE UNCHANGED vars
  BY <1>3 DEF vars, StartsBounded, Taken, CalledRuns, Called
<1> QED
  BY <1>1, <1>2, <1>3 DEF Next

LEMMA StartsInvariance == Spec => []StartsBounded
<1>1. IInv => Typed
  BY DEF IInv
<1>2. Typed /\ Typed' /\ StartsBounded /\ [Next]_vars => StartsBounded'
  BY NextStarts
<1> QED
  BY Invariance, InitStarts, <1>1, <1>2, PTL DEF Spec

\* Every worker there is has an outbox.
LEMMA WorkersHaveOutbox ==
    ASSUME Typed, StartsBounded
    PROVE  1..created \subseteq Workers
<1>1. Cardinality(CalledRuns) <= Cardinality(Runs) /\ Cardinality(Runs) \in Nat
  BY RunsAssumption, FS_Subset, FS_CardinalityType DEF CalledRuns
<1> QED
  BY <1>1, CountsTyped DEF StartsBounded, Workers

-----------------------------------------------------------------------------
(***************************************************************************)
(* What the owners of runs receive.  A worker posts the answers of all its  *)
(* runs to one closure, the one installed last, so that everything rests on *)
(* who shares a worker with whom: on a worker that never has two outstanding*)
(* runs at once, every run gets its own answers, in order and all of them.  *)
(* The argument is made once, for any set G of such workers; the workers the*)
(* pool was created with are one for every client, and all workers are for a*)
(* disciplined client.                                                      *)
(***************************************************************************)

(* Facts that hold for every client.                                       *)

\* A run that was not called has sent and received nothing.
Fresh ==
    \A r \in Runs : ~Called(r) =>
        r \notin listening /\ task[r] = "unsent" /\ made[r] = 0 /\ got[r] = <<>>

\* One closure at a time is the onmessage of a worker.
OneListener ==
    \A r, q \in listening : ticket[r].handle = ticket[q].handle => r = q

Base == MessageTypeOK /\ Fresh /\ OneListener

\* A run keeps the ticket it was given.
LEMMA TicketsStay ==
    ASSUME Typed, [Next]_vars, NEW q \in Runs, Called(q)
    PROVE  Called(q)' /\ ticket'[q] = ticket[q]
<1>1. CASE NewPool \/ NewPoolFails \/ UNCHANGED vars
  BY <1>1 DEF NewPool, NewPoolFails, vars, Called
<1>2. ASSUME NEW r \in Runs, Reuse(r) \/ Expand(r)
      PROVE  Called(q)' /\ ticket'[q] = ticket[q]
  <2>1. /\ phase[r] = "new"
        /\ \A p \in Runs \ {r} : phase'[p] = phase[p] /\ ticket'[p] = ticket[p]
    BY <1>2 DEF Reuse, Expand, MayCall, Dispatch, Typed, TypeOK
  <2> QED
    BY <2>1 DEF Called
<1>3. ASSUME NEW r \in Runs, ~Reuse(r), ~Expand(r), Step(r)
      PROVE  Called(q)' /\ ticket'[q] = ticket[q]
  BY <1>3 DEF Step, ExpandFails, CallRefused, MayCall, PollPanics, Complete, Release,
     ReleasePanics, Drop, Abort, AbortUnreplaced, AbortPanics, MayAbort, HasHandle,
     Left, Called, Typed, TypeOK
<1> QED
  BY <1>1, <1>2, <1>3 DEF Next

\* The worker of a run that was called is one of those there are.
LEMMA HandleKnown ==
    ASSUME IInv, StartsBounded, NEW r \in Runs, Called(r)
    PROVE  ticket[r].handle \in 1..created /\ ticket[r].handle \in Workers
<1>1. /\ ticket[r].slot \in DOMAIN slots
      /\ ticket[r].handle \in 1..slots[ticket[r].slot].handle
      /\ slots[ticket[r].slot].handle \in 1..created
      /\ created \in Nat
  BY DEF IInv, TicketWorkers, SlotWorkers, Typed, TypeOK, TicketsValid, Called
<1>2. ticket[r].handle \in 1..created
  BY <1>1
<1> QED
  BY <1>2, WorkersHaveOutbox DEF IInv

\* The worker of a run is terminated or still in the slot of the run.
LEMMA LiveInSlot ==
    ASSUME IInv, NEW r \in Runs, Called(r), ticket[r].handle \notin terminated
    PROVE  slots[ticket[r].slot].handle = ticket[r].handle
<1>1. /\ pool = "ok"
      /\ ticket[r].slot \in DOMAIN slots
      /\ ticket[r].handle \in 1..slots[ticket[r].slot].handle
      /\ slots[ticket[r].slot].handle \in 1..created
      /\ created \in Nat
  BY DEF IInv, TicketWorkers, SlotWorkers, Typed, TypeOK, TicketsValid, NoPoolNoRuns, Called
<1>2. PICK i \in DOMAIN slots : slots[i].handle = ticket[r].handle
  BY <1>1 DEF IInv, WorkersAccountedFor
<1>3. i = ticket[r].slot
  BY <1>2 DEF IInv, TicketWorkers
<1> QED
  BY <1>2, <1>3

\* What posting the request of run r does.
LEMMA PostEffect ==
    ASSUME Base, NEW r \in Runs, NEW panics \in BOOLEAN, Post(r, panics)
    PROVE  /\ r \in listening' /\ listening' \subseteq listening \union {r}
           /\ \A q \in listening : ticket[q].handle # ticket'[r].handle => q \in listening'
           /\ \A q \in listening' \ {r} : ticket[q].handle # ticket'[r].handle
           /\ task' \in [Runs -> {"unsent", "working", "finished"}]
           /\ \A q \in Runs \ {r} : task'[q] = task[q]
           /\ task'[r] = IF panics THEN task[r] ELSE "working"
           /\ UNCHANGED <<made, outbox, got>>
  BY DEF Post, Listen, Base, MessageTypeOK

\* What the closure of run r does with a message, whatever the message is.
LEMMA ReceiveEffect ==
    ASSUME IInv, StartsBounded, Base, NEW r \in Runs, Receive(r)
    PROVE  LET w == ticket[r].handle IN
           /\ r \in listening /\ Called(r)
           /\ w \in Workers \ terminated
           /\ outbox[w] \in Seq(Message) /\ outbox[w] # <<>>
           /\ Arriving(r) = outbox[w][1] /\ Arriving(r) \in Message
           /\ outbox' \in [Workers -> Seq(Message)]
           /\ \A v \in Workers \ {w} : outbox'[v] = outbox[v]
           /\ outbox'[w] = Tail(outbox[w])
           /\ got' \in [Runs -> Seq(Message)]
           /\ \A q \in Runs \ {r} : got'[q] = got[q]
           /\ got'[r] = got[r] \/ got'[r] = Append(got[r], Arriving(r))
           /\ \A q \in Runs \ {r} : phase'[q] = phase[q]
           /\ phase'[r] = phase[r] \/ phase'[r] = "ready"
           /\ UNCHANGED <<slots, created, terminated, ticket, task, made, listening>>
<1> DEFINE w == ticket[r].handle
<1>1. /\ Arrives(r) /\ Arrived(r)
      /\ got' = got \/ PassOn(r)
      /\ UNCHANGED <<slots, created, terminated, ticket>>
      /\ phase' = phase \/ phase' = [phase EXCEPT ![r] = "ready"]
  BY DEF Receive, ReceiveAnswer, ReceiveItem, ReceiveEnd, ReceiveStray, Complete, vars
<1>2. r \in listening /\ Called(r)
  BY <1>1 DEF Arrives, Base, Fresh
<1>3. w \in Workers \ terminated
  BY <1>1, <1>2, HandleKnown DEF Arrives
<1>4. outbox[w] \in Seq(Message) /\ outbox[w] # <<>>
  BY <1>1, <1>3 DEF Arrives, Base, MessageTypeOK
<1>5. /\ Arriving(r) = outbox[w][1] /\ Arriving(r) \in Message
      /\ Tail(outbox[w]) \in Seq(Message)
  BY <1>4, HeadTailProperties DEF Arriving
<1>6. /\ outbox' \in [Workers -> Seq(Message)]
      /\ \A v \in Workers \ {w} : outbox'[v] = outbox[v]
      /\ outbox'[w] = Tail(outbox[w])
      /\ UNCHANGED <<task, made, listening>>
  BY <1>1, <1>3, <1>5 DEF Arrived, Base, MessageTypeOK
<1>7. Append(got[r], Arriving(r)) \in Seq(Message)
  BY <1>5, AppendProperties DEF Base, MessageTypeOK
<1>8. /\ got' \in [Runs -> Seq(Message)]
      /\ \A q \in Runs \ {r} : got'[q] = got[q]
      /\ got'[r] = got[r] \/ got'[r] = Append(got[r], Arriving(r))
  BY <1>1, <1>7 DEF PassOn, Base, MessageTypeOK
<1>9. /\ \A q \in Runs \ {r} : phase'[q] = phase[q]
      /\ phase'[r] = phase[r] \/ phase'[r] = "ready"
  BY <1>1 DEF IInv, Typed, TypeOK
<1> QED
  BY <1>1, <1>2, <1>3, <1>4, <1>5, <1>6, <1>8, <1>9

\* What a worker that works on run r posts.
LEMMA ReplyEffect ==
    ASSUME IInv, StartsBounded, Base, NEW r \in Runs, Produce(r) \/ End(r) \/ Resolve(r)
    PROVE  LET w == ticket[r].handle IN
           \E n \in 0..MaxItems :
              /\ Called(r) /\ task[r] = "working"
              /\ w \in Workers \ terminated
              /\ outbox[w] \in Seq(Message) /\ Answer(r, n) \in Message
              /\ outbox' \in [Workers -> Seq(Message)]
              /\ \A v \in Workers \ {w} : outbox'[v] = outbox[v]
              /\ outbox'[w] = Append(outbox[w], Answer(r, n))
              /\ made' \in [Runs -> 0..MaxItems]
              /\ task' \in [Runs -> {"unsent", "working", "finished"}]
              /\ \A q \in Runs \ {r} : task'[q] = task[q] /\ made'[q] = made[q]
              /\ \/ /\ Kind # "future" /\ n = made[r] + 1
                    /\ task'[r] = "working" /\ made'[r] = n
                 \/ /\ Kind # "future" /\ n = 0
                    /\ task'[r] = "finished" /\ made'[r] = made[r]
                 \/ /\ Kind = "future" /\ n = 1
                    /\ task'[r] = "finished" /\ made'[r] = 1
              /\ UNCHANGED <<vars, listening, got>>
<1> DEFINE w == ticket[r].handle
<1>1. Working(r) /\ UNCHANGED <<vars, listening, got>>
  BY DEF Produce, End, Resolve
<1>2. Called(r) /\ task[r] = "working" /\ w \in Workers \ terminated
  <2>1. Called(r) /\ task[r] = "working"
    BY <1>1 DEF Working, Base, Fresh
  <2> QED
    BY <1>1, <2>1, HandleKnown DEF Working
<1>3. outbox[w] \in Seq(Message)
  BY <1>2 DEF Base, MessageTypeOK
<1>4. PICK n \in Nat :
        /\ Reply(r, Answer(r, n))
        /\ made' \in {made, [made EXCEPT ![r] = n]}
        /\ task' \in {task, [task EXCEPT ![r] = "finished"]}
        /\ \/ /\ Kind # "future" /\ made[r] < MaxItems /\ n = made[r] + 1
              /\ task' = task /\ made' = [made EXCEPT ![r] = n]
           \/ /\ Kind # "future" /\ n = 0
              /\ task' = [task EXCEPT ![r] = "finished"] /\ made' = made
           \/ /\ Kind = "future" /\ n = 1
              /\ task' = [task EXCEPT ![r] = "finished"]
              /\ made' = [made EXCEPT ![r] = 1]
  <2>1. CASE Produce(r)
    <3>1. made[r] \in Nat
      BY DEF Base, MessageTypeOK
    <3>2. made[r] + 1 \in Nat /\ made' = [made EXCEPT ![r] = made[r] + 1]
      BY <2>1, <3>1 DEF Produce
    <3> QED
      BY <2>1, <3>2 DEF Produce
  <2>2. CASE End(r)
    BY <2>2 DEF End
  <2>3. CASE Resolve(r)
    BY <2>3 DEF Resolve
  <2> QED
    BY <2>1, <2>2, <2>3
<1>5. n \in 0..MaxItems
  BY <1>4, ItemsAssumption DEF Base, MessageTypeOK
<1>6. Answer(r, n) \in Message
  BY <1>5 DEF Answer, Message
<1>7. Append(outbox[w], Answer(r, n)) \in Seq(Message)
  BY <1>3, <1>6, AppendProperties
<1>8. /\ outbox' \in [Workers -> Seq(Message)]
      /\ \A v \in Workers \ {w} : outbox'[v] = outbox[v]
      /\ outbox'[w] = Append(outbox[w], Answer(r, n))
  BY <1>2, <1>4, <1>7 DEF Reply, Base, MessageTypeOK
<1>9. /\ made' \in [Runs -> 0..MaxItems]
      /\ task' \in [Runs -> {"unsent", "working", "finished"}]
      /\ \A q \in Runs \ {r} : task'[q] = task[q] /\ made'[q] = made[q]
  BY <1>4, <1>5 DEF Base, MessageTypeOK
<1>10. \/ /\ Kind # "future" /\ n = made[r] + 1
          /\ task'[r] = "working" /\ made'[r] = n
       \/ /\ Kind # "future" /\ n = 0
          /\ task'[r] = "finished" /\ made'[r] = made[r]
       \/ /\ Kind = "future" /\ n = 1
          /\ task'[r] = "finished" /\ made'[r] = 1
  BY <1>2, <1>4 DEF Base, MessageTypeOK
<1> QED
  BY <1>1, <1>2, <1>3, <1>5, <1>6, <1>8, <1>9, <1>10

LEMMA InitBase == MessageInit => Base
<1> SUFFICES ASSUME MessageInit PROVE Base
  OBVIOUS
<1>1. <<>> \in Seq(Message)
  BY EmptySeq
<1>2. MessageTypeOK
  BY <1>1, ItemsAssumption DEF MessageInit, MessageTypeOK
<1> QED
  BY <1>2 DEF MessageInit, Init, Base, Fresh, OneListener, Called

LEMMA NextBase ==
    ASSUME IInv, StartsBounded, Base, [MessageNext]_<<vars, messageVars>>
    PROVE  Base'
<1>0. [Next]_vars /\ Typed
  BY StepRefines DEF IInv
<1>1. \A q \in Runs : Called(q) => Called(q)' /\ ticket'[q] = ticket[q]
  BY <1>0, TicketsStay
<1>2. \A q \in listening : q \in Runs /\ Called(q) /\ ticket'[q] = ticket[q]
  BY <1>1 DEF Base, Fresh, MessageTypeOK
<1>3. CASE UNCHANGED messageVars
  <2>1. UNCHANGED <<task, made, outbox, listening, got>>
    BY <1>3 DEF messageVars
  <2>2. MessageTypeOK'
    BY <2>1 DEF Base, MessageTypeOK
  <2>3. Fresh'
    BY <1>1, <2>1 DEF Base, Fresh
  <2>4. OneListener'
    BY <1>2, <2>1 DEF Base, OneListener
  <2> QED
    BY <2>2, <2>3, <2>4 DEF Base
<1>4. ASSUME NEW r \in Runs, NEW panics \in BOOLEAN, Post(r, panics), Called(r)'
      PROVE  Base'
  <2>1. /\ r \in listening' /\ listening' \subseteq listening \union {r}
        /\ \A q \in listening' \ {r} : ticket[q].handle # ticket'[r].handle
        /\ task' \in [Runs -> {"unsent", "working", "finished"}]
        /\ \A q \in Runs \ {r} : task'[q] = task[q]
        /\ UNCHANGED <<made, outbox, got>>
    BY <1>4, PostEffect
  <2>2. MessageTypeOK'
    BY <2>1 DEF Base, MessageTypeOK
  <2>3. Fresh'
    BY <1>1, <1>4, <2>1 DEF Base, Fresh
  <2>4. OneListener'
    BY <1>2, <2>1 DEF Base, OneListener
  <2> QED
    BY <2>2, <2>3, <2>4 DEF Base
<1>5. ASSUME NEW r \in Runs, Produce(r) \/ End(r) \/ Resolve(r)
      PROVE  Base'
  <2>1. /\ Called(r)
        /\ outbox' \in [Workers -> Seq(Message)]
        /\ made' \in [Runs -> 0..MaxItems]
        /\ task' \in [Runs -> {"unsent", "working", "finished"}]
        /\ \A q \in Runs \ {r} : task'[q] = task[q] /\ made'[q] = made[q]
        /\ UNCHANGED <<listening, got>>
    BY <1>5, ReplyEffect
  <2>2. MessageTypeOK'
    BY <2>1 DEF Base, MessageTypeOK
  <2>3. Fresh'
    BY <1>1, <2>1 DEF Base, Fresh
  <2>4. OneListener'
    BY <1>2, <2>1 DEF Base, OneListener
  <2> QED
    BY <2>2, <2>3, <2>4 DEF Base
<1>6. ASSUME NEW r \in Runs, Receive(r)
      PROVE  Base'
  <2>1. /\ Called(r)
        /\ outbox' \in [Workers -> Seq(Message)]
        /\ got' \in [Runs -> Seq(Message)]
        /\ \A q \in Runs \ {r} : got'[q] = got[q]
        /\ UNCHANGED <<task, made, listening>>
    BY <1>6, ReceiveEffect
  <2>2. MessageTypeOK'
    BY <2>1 DEF Base, MessageTypeOK
  <2>3. Fresh'
    BY <1>1, <2>1 DEF Base, Fresh
  <2>4. OneListener'
    BY <1>2, <2>1 DEF Base, OneListener
  <2> QED
    BY <2>2, <2>3, <2>4 DEF Base
<1>7. ASSUME NEW r \in Runs, Call(r)
      PROVE  Base'
  <2>1. Called(r)'
    BY <1>0, <1>7 DEF Call, Reuse, Expand, Dispatch, Called, Typed, TypeOK
  <2> QED
    BY <1>3, <1>4, <1>7, <2>1 DEF Call
<1>8. ASSUME NEW r \in Runs, FirstPoll(r) \/ FirstPollPanics(r)
      PROVE  Base'
  <2>1. Called(r)'
    BY <1>1, <1>8 DEF FirstPoll, FirstPollPanics, PollPanics, Called
  <2> QED
    BY <1>4, <1>8, <2>1 DEF FirstPoll, FirstPollPanics
<1>9. CASE UNCHANGED <<vars, messageVars>>
  BY <1>3, <1>9
<1> QED
  BY <1>3, <1>5, <1>6, <1>7, <1>8, <1>9 DEF MessageNext

LEMMA BaseInvariance == MessageSpec => []Base
<1>1. MessageSpec => []IInv /\ []StartsBounded
  BY MessagesRefinePool, Invariance, StartsInvariance, PTL
<1>2. IInv /\ StartsBounded /\ Base /\ [MessageNext]_<<vars, messageVars>> => Base'
  BY NextBase
<1> QED
  BY InitBase, <1>1, <1>2, PTL DEF MessageSpec

\* Every message in an outbox is well formed, and no run posts more answers than
\* its bound, whoever shares a worker with whom.
THEOREM MessageTyping == MessageSpec => []MessageTypeOK
<1>1. Base => MessageTypeOK
  BY DEF Base
<1> QED
  BY BaseInvariance, <1>1, PTL

-----------------------------------------------------------------------------
(***************************************************************************)
(* The workers of G, and what travels from them.                            *)
(***************************************************************************)

\* No two outstanding runs share a worker of G.
Sole(G) ==
    \A r, q \in Outstanding :
        r # q /\ ticket[r].handle = ticket[q].handle => ticket[r].handle \notin G

\* Run r was given a worker of G, and that worker was not terminated.
Live(G, r) == Called(r) /\ ticket[r].handle \in G \ terminated

Running(r) == phase[r] \in {"held", "dropped"}

\* What is on the way answers a run that still has the worker to itself, and
\* whose closure is installed.
FromRunning(G) ==
    \A w \in (G \cap Workers) \ terminated : \A k \in DOMAIN outbox[w] :
        LET q == outbox[w][k].run IN
        q \in listening /\ ticket[q].handle = w /\ Running(q) /\ task[q] # "unsent"

\* A task that may post belongs to such a run.
WorkingOn(G) ==
    \A r \in Runs : Live(G, r) /\ task[r] = "working" => Running(r) /\ r \in listening

\* The runs whose closure passes on all that arrives.
Following(r) == phase[r] = "held" \/ (Kind = "callback" /\ phase[r] = "dropped")

\* The answers of such a run that were not passed on are on their way, in order;
\* behind them comes the null, once the task has finished.
Flow(r) ==
    LET q == outbox[ticket[r].handle]
        g == Len(got[r])
    IN
    /\ task[r] = "unsent" => made[r] = 0 /\ g = 0 /\ q = <<>>
    /\ task[r] = "working" =>
          /\ made[r] = g + Len(q)
          /\ \A k \in 1..Len(q) : q[k] = Answer(r, g + k)
          /\ Kind = "future" => made[r] = 0
    /\ task[r] = "finished" /\ Kind = "future" =>
          made[r] = 1 /\ g = 0 /\ Len(q) = 1 /\ q[1] = Answer(r, 1)
    /\ task[r] = "finished" /\ Kind # "future" =>
          \/ q = <<>> /\ g = made[r] /\ phase[r] # "held"
          \/ /\ Len(q) >= 1 /\ made[r] = g + Len(q) - 1
             /\ q[Len(q)] = Answer(r, 0)
             /\ \A k \in 1..(Len(q) - 1) : q[k] = Answer(r, g + k)

Flows(G) == \A r \in Runs : Live(G, r) /\ Following(r) => Flow(r)

\* What was passed on are the run's own answers, from the first one on.
PassedOn(G) ==
    \A r \in Runs : ticket[r].handle \in G =>
        \A k \in 1..Len(got[r]) : got[r][k] = Answer(r, k)

\* A run completes when everything was passed on.
CompletesLast(G) ==
    \A r \in Runs :
        phase[r] \in {"ready", "done"} /\ ticket[r].handle \in G =>
            task[r] = "finished" /\ Len(got[r]) = made[r]

Delivery(G) ==
    FromRunning(G) /\ WorkingOn(G) /\ Flows(G) /\ PassedOn(G) /\ CompletesLast(G)

\* No answer is taken for the null that ends a stream.
Plain == Kind = "future" \/ NullItems = {}

HandlesHaveOutbox == \A r \in Runs : Called(r) => ticket[r].handle \in Workers

Context == IInv /\ StartsBounded /\ Base /\ HandlesHaveOutbox

LEMMA ContextInvariance == MessageSpec => []Context
<1>1. MessageSpec => []IInv /\ []StartsBounded
  BY MessagesRefinePool, Invariance, StartsInvariance, PTL
<1>2. IInv /\ StartsBounded /\ Base => Context
  BY HandleKnown DEF Context, HandlesHaveOutbox
<1> QED
  BY BaseInvariance, <1>1, <1>2, PTL

\* Nothing is on the way from a worker that no running run has.
LEMMA NothingOnTheWay ==
    ASSUME NEW G, Context, FromRunning(G), NEW w \in (G \cap Workers) \ terminated,
           \A q \in Runs : Running(q) => ticket[q].handle # w
    PROVE  outbox[w] = <<>> /\ Len(outbox[w]) = 0
<1>1. outbox[w] \in Seq(Message)
  BY DEF Context, Base, MessageTypeOK
<1>2. SUFFICES ASSUME outbox[w] # <<>> PROVE FALSE
  BY EmptySeq
<1>3. 1 \in DOMAIN outbox[w]
  BY <1>1, <1>2, EmptySeq, LenProperties
<1>4. outbox[w][1].run \in Runs
  BY <1>3 DEF FromRunning, Context, Base, MessageTypeOK
<1> QED
  BY <1>3, <1>4 DEF FromRunning

\* Two running runs, or a running and a waiting one, never share a worker of G.
LEMMA RunningAlone ==
    ASSUME NEW G, Sole(G), NEW r \in Outstanding, NEW q \in Runs, Running(q),
           ticket[q].handle = ticket[r].handle, ticket[q].handle \in G
    PROVE  q = r
  BY DEF Sole, Running, Outstanding

LEMMA FlowStays ==
    ASSUME NEW r \in Runs, Flow(r),
           outbox'[ticket[r].handle] = outbox[ticket[r].handle],
           ticket'[r] = ticket[r], got'[r] = got[r], made'[r] = made[r],
           task'[r] = task[r],
           phase[r] # "held" => phase'[r] # "held"
    PROVE  Flow(r)'
  BY DEF Flow

-----------------------------------------------------------------------------
(* The steps that send and receive nothing.                                *)

LEMMA SilentMoves ==
    ASSUME IInv, Silent
    PROVE  /\ ticket' = ticket
           /\ terminated \subseteq terminated'
           /\ \A q \in Runs :
                 \/ phase'[q] = phase[q]
                 \/ phase[q] = "new" /\ phase'[q] = "failed"
                 \/ phase[q] = "held" /\ phase'[q] = "dropped"
                 \/ phase[q] = "ready" /\ phase'[q] \in {"done", "panicked", "dropped"}
                 \/ /\ Called(q) /\ ticket[q].handle \in terminated'
                    /\ phase'[q] \in {"aborted", "dropped", "panicked"}
<1> USE DEF IInv, Typed, TypeOK
<1>1. CASE NewPool \/ NewPoolFails
  BY <1>1 DEF NewPool, NewPoolFails
<1>2. ASSUME NEW r \in Runs, \/ ExpandFails(r) \/ CallRefused(r)
                             \/ Release(r) \/ ReleasePanics(r) \/ Drop(r)
      PROVE  /\ UNCHANGED <<ticket, terminated>>
             /\ \A q \in Runs \ {r} : phase'[q] = phase[q]
             /\ \/ phase[r] = "new" /\ phase'[r] = "failed"
                \/ phase[r] = "held" /\ phase'[r] = "dropped"
                \/ phase[r] = "ready" /\ phase'[r] \in {"done", "panicked", "dropped"}
  BY <1>2 DEF ExpandFails, CallRefused, MayCall, Release, ReleasePanics, Drop
<1>3. ASSUME NEW r \in Runs, Abort(r) \/ AbortUnreplaced(r) \/ AbortPanics(r)
      PROVE  /\ ticket' = ticket /\ terminated \subseteq terminated'
             /\ \A q \in Runs \ {r} : phase'[q] = phase[q]
             /\ \/ phase'[r] = phase[r]
                \/ phase'[r] \in {"aborted", "dropped", "panicked"}
             /\ Called(r) /\ ticket[r].handle \in terminated'
  <2>1. /\ ticket' = ticket /\ Called(r)
        /\ terminated' = terminated \union {slots[ticket[r].slot].handle}
    BY <1>3 DEF Abort, AbortUnreplaced, AbortPanics, Kill, MayAbort, HasHandle, Called
  <2>2. ticket[r].handle \in terminated'
    BY <2>1, LiveInSlot
  <2>3. /\ \A q \in Runs \ {r} : phase'[q] = phase[q]
        /\ \/ phase'[r] = phase[r]
           \/ phase'[r] \in {"aborted", "dropped", "panicked"}
    BY <1>3 DEF Abort, AbortUnreplaced, AbortPanics, Left
  <2> QED
    BY <2>1, <2>2, <2>3
<1> QED
  BY <1>1, <1>2, <1>3 DEF Silent

LEMMA SilentDelivers ==
    ASSUME NEW G, Context, Sole(G), Delivery(G), Silent, UNCHANGED messageVars
    PROVE  Delivery(G)'
<1>1. /\ ticket' = ticket
      /\ terminated \subseteq terminated'
      /\ \A q \in Runs :
            \/ phase'[q] = phase[q]
            \/ phase[q] = "new" /\ phase'[q] = "failed"
            \/ phase[q] = "held" /\ phase'[q] = "dropped"
            \/ phase[q] = "ready" /\ phase'[q] \in {"done", "panicked", "dropped"}
            \/ /\ Called(q) /\ ticket[q].handle \in terminated'
               /\ phase'[q] \in {"aborted", "dropped", "panicked"}
  BY SilentMoves DEF Context
<1>2. UNCHANGED <<task, made, outbox, listening, got>>
  BY DEF messageVars
<1>3. listening \subseteq Runs
  BY DEF Context, Base, MessageTypeOK
<1>4. \A q \in Runs : Live(G, q)' => Live(G, q) /\ (Running(q) => Running(q)')
  BY <1>1 DEF Live, Called, Running
<1>5. FromRunning(G)'
  BY <1>1, <1>2, <1>3 DEF Delivery, FromRunning, Running
<1>6. WorkingOn(G)'
  BY <1>2, <1>4 DEF Delivery, WorkingOn
<1>7. PassedOn(G)' /\ CompletesLast(G)'
  BY <1>1, <1>2 DEF Delivery, PassedOn, CompletesLast
<1>8. ASSUME NEW q \in Runs, Live(G, q)', Following(q)'
      PROVE  Flow(q)'
  <2>1. CASE Following(q)
    <3>1. Flow(q)
      BY <1>4, <1>8, <2>1 DEF Delivery, Flows
    <3>2. phase[q] # "held" => phase'[q] # "held"
      BY <1>1
    <3> QED
      BY <1>1, <1>2, <3>1, <3>2, FlowStays
  <2>2. CASE ~Following(q)
    <3> DEFINE w == ticket[q].handle
    <3>1. phase[q] = "ready" /\ phase'[q] = "dropped" /\ Kind = "callback"
      BY <1>1, <1>8, <2>2 DEF Following, Live
    <3>2. Live(G, q) /\ w \in (G \cap Workers) \ terminated
      BY <1>4, <1>8, HandleKnown DEF Live, Context
    <3>3. \A p \in Runs : Running(p) => ticket[p].handle # w
      BY <3>1, <3>2, RunningAlone DEF Outstanding, Running
    <3>4. outbox[w] = <<>>
      BY <3>2, <3>3, NothingOnTheWay DEF Delivery
    <3>5. task[q] = "finished" /\ Len(got[q]) = made[q]
      BY <3>1, <3>2 DEF Delivery, CompletesLast
    <3> QED
      BY <1>1, <1>2, <3>1, <3>4, <3>5 DEF Flow
  <2> QED
    BY <2>1, <2>2
<1> QED
  BY <1>5, <1>6, <1>7, <1>8 DEF Delivery, Flows

-----------------------------------------------------------------------------
(* The steps that start a run: the call, and the first poll of its future. *)

LEMMA StartDelivers ==
    ASSUME NEW G, Context, Delivery(G), Sole(G)', NEW r \in Runs,
           UNCHANGED <<made, outbox, got, terminated>>,
           \A q \in Runs \ {r} : /\ phase'[q] = phase[q]
                                 /\ ticket'[q] = ticket[q]
                                 /\ task'[q] = task[q],
           \A q \in listening : ticket[q].handle # ticket'[r].handle => q \in listening',
           r \in Outstanding',
           phase'[r] \notin {"ready", "done", "dropped"},
           task[r] = "unsent",
           task'[r] = "unsent" \/ (task'[r] = "working" /\ phase'[r] = "held"
                                                       /\ r \in listening'),
           ticket'[r].handle \in G => \A k \in 1..Len(got[r]) : got[r][k] = Answer(r, k),
           Live(G, r)' /\ phase'[r] = "held" =>
              made[r] = 0 /\ Len(got[r]) = 0 /\ outbox[ticket'[r].handle] = <<>>
    PROVE  Delivery(G)'
<1>1. \A q \in Runs \ {r} : /\ Running(q)' = Running(q)
                            /\ Live(G, q)' = Live(G, q)
                            /\ Following(q)' = Following(q)
  BY DEF Running, Live, Called, Following
<1>2. ASSUME NEW q \in listening \ {r}, Running(q), ticket[q].handle \in G
      PROVE  q \in listening'
  <2>1. q \in Runs /\ q \in Outstanding'
    BY <1>1, <1>2 DEF Running, Outstanding, Context, Base, MessageTypeOK
  <2>2. ticket'[q] = ticket[q]
    BY <1>2, <2>1
  <2>3. ticket[q].handle # ticket'[r].handle
    BY <1>2, <2>1, <2>2 DEF Sole
  <2> QED
    BY <1>2, <2>3
<1>3. FromRunning(G)'
  <2> SUFFICES ASSUME NEW w \in (G \cap Workers) \ terminated, NEW k \in DOMAIN outbox[w],
                      NEW q, q = outbox[w][k].run
               PROVE  /\ q \in listening' /\ ticket'[q].handle = w
                      /\ Running(q)' /\ task'[q] # "unsent"
    BY DEF FromRunning
  <2>1. q \in listening /\ ticket[q].handle = w /\ Running(q) /\ task[q] # "unsent"
    BY DEF Delivery, FromRunning
  <2>2. q \in Runs \ {r}
    BY <2>1 DEF Context, Base, MessageTypeOK
  <2>3. q \in listening'
    BY <1>2, <2>1, <2>2
  <2> QED
    BY <1>1, <2>1, <2>2, <2>3
<1>4. WorkingOn(G)'
  <2>1. ASSUME NEW q \in Runs \ {r}, Live(G, q)', task'[q] = "working"
        PROVE  Running(q)' /\ q \in listening'
    <3>1. Live(G, q) /\ task[q] = "working"
      BY <1>1, <2>1
    <3>2. Running(q) /\ q \in listening
      BY <3>1 DEF Delivery, WorkingOn
    <3> QED
      BY <1>1, <1>2, <3>1, <3>2 DEF Live
  <2>2. task'[r] = "working" => Running(r)' /\ r \in listening'
    BY DEF Running
  <2> QED
    BY <2>1, <2>2 DEF WorkingOn
<1>5. ASSUME NEW q \in Runs, Live(G, q)', Following(q)'
      PROVE  Flow(q)'
  <2>1. CASE q # r
    <3>1. Flow(q)
      BY <1>1, <1>5, <2>1 DEF Delivery, Flows
    <3> QED
      BY <2>1, <3>1, FlowStays
  <2>2. CASE q = r
    <3>1. phase'[r] = "held"
      BY <1>5, <2>2 DEF Following
    <3>2. /\ made'[r] = 0 /\ Len(got'[r]) = 0
          /\ outbox'[ticket'[r].handle] = <<>> /\ Len(outbox'[ticket'[r].handle]) = 0
      BY <1>5, <2>2, <3>1
    <3> QED
      BY <2>2, <3>2 DEF Flow
  <2> QED
    BY <2>1, <2>2
<1>6. PassedOn(G)' /\ CompletesLast(G)'
  BY DEF Delivery, PassedOn, CompletesLast
<1> QED
  BY <1>3, <1>4, <1>5, <1>6 DEF Delivery, Flows

LEMMA CallDelivers ==
    ASSUME NEW G, Context, Context', Delivery(G), Sole(G)', NEW r \in Runs, Call(r)
    PROVE  Delivery(G)'
<1> USE DEF Context, IInv, Typed, TypeOK
<1>1. /\ phase[r] = "new"
      /\ phase' \in {[phase EXCEPT ![r] = "held"], [phase EXCEPT ![r] = "crashed"]}
      /\ \A q \in Runs \ {r} : ticket'[q] = ticket[q]
      /\ UNCHANGED terminated
      /\ ~PostsInCall => phase'[r] = "held"
  BY DEF Call, Reuse, Expand, MayCall, Dispatch
<1>2. /\ phase'[r] \in {"held", "crashed"}
      /\ \A q \in Runs \ {r} : phase'[q] = phase[q]
      /\ r \in Outstanding'
  BY <1>1 DEF Outstanding
<1>3. ~Called(r) /\ task[r] = "unsent" /\ made[r] = 0 /\ got[r] = <<>> /\ Len(got[r]) = 0
  BY <1>1, EmptySeq DEF Called, Base, Fresh
<1>4. /\ UNCHANGED <<made, outbox, got>>
      /\ \A q \in Runs \ {r} : task'[q] = task[q]
      /\ \A q \in listening : ticket[q].handle # ticket'[r].handle => q \in listening'
      /\ \/ task'[r] = "unsent"
         \/ task'[r] = "working" /\ phase'[r] = "held" /\ r \in listening'
  <2>1. CASE UNCHANGED messageVars
    BY <1>3, <2>1 DEF messageVars
  <2>2. CASE Post(r, phase'[r] = "crashed")
    BY <1>2, <1>3, <2>2, PostEffect
  <2> QED
    BY <2>1, <2>2 DEF Call
<1>5. ASSUME Live(G, r)'
      PROVE  outbox[ticket'[r].handle] = <<>>
  <2> DEFINE w == ticket'[r].handle
  <2>1. w \in (G \cap Workers) \ terminated
    <3>1. /\ Called(r)' /\ w \in G \ terminated
      BY <1>1, <1>5 DEF Live
    <3> QED
      BY <3>1 DEF HandlesHaveOutbox
  <2>2. ASSUME NEW q \in Runs, Running(q), ticket[q].handle = w
        PROVE  FALSE
    <3>1. q # r
      BY <1>1, <2>2 DEF Running
    <3>2. q \in Outstanding' /\ ticket'[q].handle = w
      BY <1>1, <1>2, <2>2, <3>1 DEF Running, Outstanding
    <3> QED
      BY <1>2, <2>1, <3>1, <3>2 DEF Sole
  <2> HIDE DEF w
  <2>3. outbox[w] = <<>>
    BY <2>1, <2>2, NothingOnTheWay DEF Delivery
  <2> QED
    BY <2>3 DEF w
<1>6. Live(G, r)' /\ phase'[r] = "held" =>
         made[r] = 0 /\ Len(got[r]) = 0 /\ outbox[ticket'[r].handle] = <<>>
  BY <1>3, <1>5
<1>7. ticket'[r].handle \in G => \A k \in 1..Len(got[r]) : got[r][k] = Answer(r, k)
  BY <1>3
<1>8. phase'[r] \notin {"ready", "done", "dropped"}
  BY <1>2
<1>9. \A q \in Runs \ {r} : /\ phase'[q] = phase[q]
                            /\ ticket'[q] = ticket[q]
                            /\ task'[q] = task[q]
  BY <1>1, <1>2, <1>4
<1>10. UNCHANGED <<made, outbox, got, terminated>>
  BY <1>1, <1>4
<1>11. task'[r] = "unsent" \/ (task'[r] = "working" /\ phase'[r] = "held"
                                                    /\ r \in listening')
  BY <1>4
<1>12. \A q \in listening : ticket[q].handle # ticket'[r].handle => q \in listening'
  BY <1>4
<1> HIDE DEF Context, IInv, Typed, TypeOK
<1> QED
  BY <1>2, <1>3, <1>6, <1>7, <1>8, <1>9, <1>10, <1>11, <1>12, StartDelivers

LEMMA PollDelivers ==
    ASSUME NEW G, Context, Delivery(G), Sole(G)', NEW r \in Runs,
           FirstPoll(r) \/ FirstPollPanics(r)
    PROVE  Delivery(G)'
<1> USE DEF Context, IInv, Typed, TypeOK
<1>1. /\ phase[r] = "held" /\ task[r] = "unsent"
      /\ UNCHANGED <<ticket, terminated>>
      /\ \A q \in Runs \ {r} : phase'[q] = phase[q]
      /\ \/ Post(r, FALSE) /\ phase'[r] = "held"
         \/ Post(r, TRUE) /\ phase'[r] = "panicked"
  BY DEF FirstPoll, FirstPollPanics, PollPanics, vars
<1>2. r \in Outstanding' /\ Called(r) /\ Called(r)'
  BY <1>1 DEF Outstanding, Called
<1>3. /\ UNCHANGED <<made, outbox, got>>
      /\ \A q \in Runs \ {r} : task'[q] = task[q]
      /\ \A q \in listening : ticket[q].handle # ticket'[r].handle => q \in listening'
      /\ \/ task'[r] = "unsent"
         \/ task'[r] = "working" /\ phase'[r] = "held" /\ r \in listening'
  BY <1>1, PostEffect
<1>4. ticket'[r].handle \in G => \A k \in 1..Len(got[r]) : got[r][k] = Answer(r, k)
  BY <1>1 DEF Delivery, PassedOn
<1>5. Live(G, r)' => made[r] = 0 /\ Len(got[r]) = 0 /\ outbox[ticket'[r].handle] = <<>>
  <2> SUFFICES ASSUME Live(G, r)'
               PROVE  made[r] = 0 /\ Len(got[r]) = 0 /\ outbox[ticket'[r].handle] = <<>>
    OBVIOUS
  <2>1. Live(G, r) /\ Following(r)
    BY <1>1, <1>2 DEF Live, Following
  <2> QED
    BY <1>1, <2>1 DEF Delivery, Flows, Flow
<1>6. phase'[r] \notin {"ready", "done", "dropped"}
  BY <1>1
<1> QED
  BY <1>1, <1>2, <1>3, <1>4, <1>5, <1>6, StartDelivers

-----------------------------------------------------------------------------
(* The worker posts an answer, or the null at the end.                     *)

LEMMA ReplyDelivers ==
    ASSUME NEW G, Context, Delivery(G), Sole(G), NEW r \in Runs,
           Produce(r) \/ End(r) \/ Resolve(r)
    PROVE  Delivery(G)'
<1> DEFINE w == ticket[r].handle
<1>1. PICK n \in 0..MaxItems :
        /\ Called(r) /\ task[r] = "working"
        /\ w \in Workers \ terminated
        /\ outbox[w] \in Seq(Message) /\ Answer(r, n) \in Message
        /\ outbox' \in [Workers -> Seq(Message)]
        /\ \A v \in Workers \ {w} : outbox'[v] = outbox[v]
        /\ outbox'[w] = Append(outbox[w], Answer(r, n))
        /\ \A q \in Runs \ {r} : task'[q] = task[q] /\ made'[q] = made[q]
        /\ \/ /\ Kind # "future" /\ n = made[r] + 1
              /\ task'[r] = "working" /\ made'[r] = n
           \/ /\ Kind # "future" /\ n = 0
              /\ task'[r] = "finished" /\ made'[r] = made[r]
           \/ /\ Kind = "future" /\ n = 1
              /\ task'[r] = "finished" /\ made'[r] = 1
        /\ UNCHANGED <<vars, listening, got>>
  BY ReplyEffect DEF Context
<1>2. UNCHANGED <<slots, created, terminated, phase, ticket, listening, got>>
  BY <1>1 DEF vars
<1>3. \A q \in Runs : /\ Running(q)' = Running(q) /\ Live(G, q)' = Live(G, q)
                     /\ Following(q)' = Following(q)
  BY <1>2 DEF Running, Live, Called, Following
<1>4. w \in G => Live(G, r) /\ Running(r) /\ r \in listening /\ r \in Outstanding
  BY <1>1 DEF Live, Delivery, WorkingOn, Running, Outstanding
<1>5. /\ Len(outbox[w]) \in Nat
      /\ Len(outbox'[w]) = Len(outbox[w]) + 1
      /\ outbox'[w][Len(outbox[w]) + 1] = Answer(r, n)
      /\ \A k \in 1..Len(outbox[w]) : outbox'[w][k] = outbox[w][k]
      /\ DOMAIN outbox[w] = 1..Len(outbox[w])
      /\ DOMAIN outbox'[w] = 1..(Len(outbox[w]) + 1)
  BY <1>1, AppendProperties, LenProperties
<1>6. Answer(r, n).run = r
  BY DEF Answer
<1>7. FromRunning(G)'
  <2> SUFFICES ASSUME NEW v \in (G \cap Workers) \ terminated, NEW k \in DOMAIN outbox'[v],
                      NEW q, q = outbox'[v][k].run
               PROVE  /\ q \in listening /\ ticket[q].handle = v
                      /\ Running(q)' /\ task'[q] # "unsent"
    BY <1>2 DEF FromRunning
  <2>1. CASE v = w /\ k = Len(outbox[w]) + 1
    <3>1. q = r
      BY <1>5, <1>6, <2>1
    <3> QED
      BY <1>1, <1>3, <1>4, <2>1, <3>1
  <2>2. CASE ~(v = w /\ k = Len(outbox[w]) + 1)
    <3>1. k \in DOMAIN outbox[v] /\ outbox'[v][k] = outbox[v][k]
      <4>1. CASE v = w
        <5> DEFINE l == Len(outbox[w])
        <5>1. /\ l \in Nat /\ k \in 1..(l + 1) /\ k # l + 1
              /\ DOMAIN outbox[w] = 1..l
              /\ \A i \in 1..l : outbox'[w][i] = outbox[w][i]
          BY <1>5, <2>2, <4>1
        <5> HIDE DEF l
        <5>2. k \in 1..l
          BY <5>1
        <5> QED
          BY <4>1, <5>1, <5>2
      <4>2. CASE v # w
        BY <1>1, <4>2
      <4> QED
        BY <4>1, <4>2
    <3>2. q \in listening /\ ticket[q].handle = v /\ Running(q) /\ task[q] # "unsent"
      BY <3>1 DEF Delivery, FromRunning
    <3>3. q \in Runs
      BY <3>2 DEF Context, Base, MessageTypeOK
    <3> QED
      BY <1>1, <1>3, <3>2, <3>3
  <2> QED
    BY <2>1, <2>2
<1>8. WorkingOn(G)'
  BY <1>1, <1>2, <1>3 DEF Delivery, WorkingOn
<1>9. PassedOn(G)' /\ CompletesLast(G)'
  <2>1. PassedOn(G)'
    BY <1>2 DEF Delivery, PassedOn
  <2>2. phase[r] \in {"ready", "done"} => ticket[r].handle \notin G
    BY <1>4 DEF Running
  <2> QED
    BY <1>1, <1>2, <2>1, <2>2 DEF Delivery, CompletesLast
<1>10. ASSUME NEW q \in Runs, Live(G, q), Following(q)
       PROVE  Flow(q)'
  <2>0. Flow(q)
    BY <1>10 DEF Delivery, Flows
  <2>1. CASE q # r
    <3>1. q \in Outstanding /\ Running(q)
      BY <1>10 DEF Following, Running, Outstanding
    <3>2. ticket[q].handle # w
      BY <1>4, <1>10, <2>1, <3>1, RunningAlone DEF Live
    <3>3. ticket[q].handle \in Workers
      BY <1>10 DEF Live, Context, HandlesHaveOutbox
    <3>4. outbox'[ticket[q].handle] = outbox[ticket[q].handle]
      BY <1>1, <3>2, <3>3
    <3> QED
      BY <1>1, <1>2, <2>0, <2>1, <3>4, FlowStays
  <2>2. CASE q = r
    <3> DEFINE g == Len(got[r])
               l == Len(outbox[w])
    <3>1. /\ made[r] = g + l
          /\ \A k \in 1..l : outbox[w][k] = Answer(r, g + k)
          /\ Kind = "future" => made[r] = 0
      BY <1>1, <2>0, <2>2 DEF Flow
    <3>2. g \in Nat /\ l \in Nat
      BY <1>5, LenProperties DEF Context, Base, MessageTypeOK
    <3>5. /\ Len(outbox'[w]) = l + 1
          /\ outbox'[w][l + 1] = Answer(r, n)
          /\ \A k \in 1..l : outbox'[w][k] = Answer(r, g + k)
      BY <1>5, <3>1
    <3> HIDE DEF l
    <3>6. CASE Kind # "future" /\ n = made[r] + 1
                 /\ task'[r] = "working" /\ made'[r] = n
      <4>1. n = g + (l + 1)
        <5>1. \A a, b \in Nat : a + (b + 1) = (a + b) + 1
          OBVIOUS
        <5> QED
          BY <3>1, <3>2, <3>6, <5>1
      <4>2. made'[r] = g + Len(outbox'[w])
        BY <3>5, <3>6, <4>1
      <4>3. ASSUME NEW k \in 1..(l + 1) PROVE outbox'[w][k] = Answer(r, g + k)
        <5>1. CASE k = l + 1
          BY <3>5, <4>1, <5>1
        <5>2. CASE k # l + 1
          <6>1. k \in 1..l
            BY <3>2, <5>2
          <6> QED
            BY <3>5, <6>1
        <5> QED
          BY <5>1, <5>2
      <4>4. \A k \in 1..Len(outbox'[w]) : outbox'[w][k] = Answer(r, g + k)
        BY <3>5, <4>3
      <4> QED
        BY <1>2, <2>2, <3>6, <4>2, <4>4 DEF Flow
    <3>7. CASE Kind # "future" /\ n = 0
                 /\ task'[r] = "finished" /\ made'[r] = made[r]
      <4>1. /\ Len(outbox'[w]) >= 1 /\ made'[r] = g + Len(outbox'[w]) - 1
            /\ Len(outbox'[w]) - 1 = l
        BY <3>1, <3>2, <3>5, <3>7
      <4>2. /\ outbox'[w][Len(outbox'[w])] = Answer(r, 0)
            /\ \A k \in 1..(Len(outbox'[w]) - 1) : outbox'[w][k] = Answer(r, g + k)
        BY <3>5, <3>7, <4>1
      <4> QED
        BY <1>2, <2>2, <3>7, <4>1, <4>2 DEF Flow
    <3>8. CASE Kind = "future" /\ n = 1
                 /\ task'[r] = "finished" /\ made'[r] = 1
      <4>1. g = 0 /\ l = 0
        BY <3>1, <3>2, <3>8
      <4>2. Len(outbox'[w]) = 1 /\ outbox'[w][1] = Answer(r, 1)
        BY <3>5, <3>8, <4>1
      <4> QED
        BY <1>2, <2>2, <3>8, <4>1, <4>2 DEF Flow
    <3> QED
      BY <1>1, <3>6, <3>7, <3>8
  <2> QED
    BY <2>1, <2>2
<1>11. Flows(G)'
  BY <1>3, <1>10 DEF Flows
<1> QED
  BY <1>7, <1>8, <1>9, <1>11 DEF Delivery

-----------------------------------------------------------------------------
(* The answers arrive.                                                     *)

\* What taking the first message off an outbox leaves.
LEMMA Rest ==
    ASSUME NEW S, NEW s \in Seq(S), s # <<>>
    PROVE  /\ Len(s) \in Nat /\ Len(s) >= 1
           /\ DOMAIN s = 1..Len(s)
           /\ Len(Tail(s)) = Len(s) - 1
           /\ DOMAIN Tail(s) = 1..(Len(s) - 1)
           /\ \A k \in 1..(Len(s) - 1) : Tail(s)[k] = s[k + 1]
           /\ Len(s) = 1 => Tail(s) = <<>>
<1>1. Len(s) \in Nat /\ Len(s) >= 1
  BY EmptySeq
<1>2. /\ Tail(s) \in Seq(S) /\ Len(Tail(s)) = Len(s) - 1
      /\ \A k \in 1..Len(Tail(s)) : Tail(s)[k] = s[k + 1]
  BY HeadTailProperties
<1>3. DOMAIN s = 1..Len(s) /\ DOMAIN Tail(s) = 1..Len(Tail(s))
  BY <1>2, LenProperties
<1>4. ASSUME Len(s) = 1 PROVE Tail(s) = <<>>
  <2>1. Len(Tail(s)) = 0
    BY <1>2, <1>4
  <2>2. Tail(s) # <<>> => Len(Tail(s)) \in Nat \ {0}
    BY <1>2, EmptySeq
  <2> QED
    BY <2>1, <2>2
<1> QED
  BY <1>1, <1>2, <1>3, <1>4

\* The first message on its way to a run is its next answer, or the null behind
\* its last.
LEMMA FlowHead ==
    ASSUME NEW r \in Runs, Flow(r), Kind # "future",
           task[r] \in {"working", "finished"},
           outbox[ticket[r].handle] \in Seq(Message), outbox[ticket[r].handle] # <<>>,
           got[r] \in Seq(Message)
    PROVE  LET q == outbox[ticket[r].handle]
               g == Len(got[r])
           IN
           IF q[1].n = 0
           THEN task[r] = "finished" /\ Len(q) = 1 /\ made[r] = g
           ELSE q[1] = Answer(r, g + 1)
<1> DEFINE q == outbox[ticket[r].handle]
           g == Len(got[r])
<1>1. g \in Nat /\ Len(q) \in Nat /\ Len(q) >= 1
  BY EmptySeq, LenProperties
<1>2. \A k \in Nat : Answer(r, k).n = k
  BY DEF Answer
<1>3. CASE q[1] = Answer(r, g + 1)
  BY <1>1, <1>2, <1>3
<1>4. CASE q[1] # Answer(r, g + 1)
  <2>1. task[r] = "finished"
    <3>1. task[r] = "working" => \A k \in 1..Len(q) : q[k] = Answer(r, g + k)
      BY DEF Flow
    <3>2. 1 \in 1..Len(q)
      BY <1>1
    <3> QED
      BY <1>4, <3>1, <3>2
  <2>2. /\ made[r] = g + Len(q) - 1 /\ q[Len(q)] = Answer(r, 0)
        /\ \A k \in 1..(Len(q) - 1) : q[k] = Answer(r, g + k)
    BY <2>1 DEF Flow
  <2>3. Len(q) = 1
    <3>1. \A l \in Nat : l >= 1 /\ l # 1 => 1 \in 1..(l - 1)
      OBVIOUS
    <3>2. Len(q) # 1 => 1 \in 1..(Len(q) - 1)
      BY <1>1, <3>1
    <3> QED
      BY <1>4, <2>2, <3>2
  <2> QED
    BY <1>1, <1>2, <2>1, <2>2, <2>3
<1> QED
  BY <1>3, <1>4

\* A message from a worker of G is for the run whose closure is called, and that
\* run has not completed.
LEMMA MeantForCaller ==
    ASSUME NEW G, Context, Delivery(G), NEW r \in Runs, Receive(r),
           ticket[r].handle \in G
    PROVE  /\ Live(G, r) /\ Running(r) /\ task[r] \in {"working", "finished"}
           /\ \A k \in DOMAIN outbox[ticket[r].handle] :
                 outbox[ticket[r].handle][k].run = r
<1> DEFINE w == ticket[r].handle
<1>1. /\ r \in listening /\ Called(r) /\ w \in Workers \ terminated
      /\ outbox[w] \in Seq(Message) /\ outbox[w] # <<>>
  BY ReceiveEffect DEF Context
<1>2. ASSUME NEW k \in DOMAIN outbox[w]
      PROVE  outbox[w][k].run = r /\ Running(r) /\ task[r] # "unsent"
  <2> DEFINE q == outbox[w][k].run
  <2>1. q \in listening /\ ticket[q].handle = w /\ Running(q) /\ task[q] # "unsent"
    BY <1>1, <1>2 DEF Delivery, FromRunning
  <2>2. q = r
    BY <1>1, <2>1 DEF Context, Base, OneListener
  <2> QED
    BY <2>1, <2>2
<1>3. 1 \in DOMAIN outbox[w]
  BY <1>1, Rest
<1> QED
  BY <1>1, <1>2, <1>3 DEF Live, Context, Base, MessageTypeOK

\* Taking the first of l messages, the one behind number g, leaves l - 1 of them
\* behind number g + 1.
LEMMA Shift ==
    ASSUME NEW g \in Nat, NEW l \in Nat, l >= 1
    PROVE  /\ l # 0
           /\ g + l # 0
           /\ g + l = (g + 1) + (l - 1)
           /\ \A k \in 1..(l - 1) : k + 1 \in 1..l /\ g + (k + 1) = (g + 1) + k
           /\ l # 1 => /\ l - 1 >= 1 /\ g + l - 1 = (g + 1) + (l - 1) - 1
                       /\ l - 1 \in 1..(l - 1) /\ (l - 1) + 1 = l
           /\ \A k \in 1..(l - 1 - 1) : k \in 1..(l - 1) /\ k + 1 \in 1..(l - 1)
  OBVIOUS

\* What the caller is passed are its own answers in order, it completes when the
\* last one was, and what is left follows on.
LEMMA CallerReceives ==
    ASSUME NEW G, Context, Delivery(G), Plain, NEW r \in Runs, Receive(r),
           ticket[r].handle \in G
    PROVE  /\ \A k \in 1..Len(got'[r]) : got'[r][k] = Answer(r, k)
           /\ Following(r)' => Flow(r)'
           /\ \/ phase'[r] = phase[r]
              \/ /\ phase'[r] = "ready" /\ task[r] = "finished"
                 /\ Len(got'[r]) = made[r]
                 /\ outbox'[ticket[r].handle] = <<>>
<1> DEFINE w == ticket[r].handle
           q == outbox[w]
           g == Len(got[r])
<1>1. /\ q \in Seq(Message) /\ q # <<>>
      /\ Arriving(r) = q[1] /\ Arriving(r) \in Message
      /\ outbox'[w] = Tail(q)
      /\ UNCHANGED <<ticket, task, made>>
  BY ReceiveEffect DEF Context
<1>2. got[r] \in Seq(Message) /\ g \in Nat /\ DOMAIN got[r] = 1..g
  BY LenProperties DEF Context, Base, MessageTypeOK
<1>3. /\ Len(q) \in Nat /\ Len(q) >= 1
      /\ Len(Tail(q)) = Len(q) - 1
      /\ \A k \in 1..(Len(q) - 1) : Tail(q)[k] = q[k + 1]
      /\ Len(q) = 1 => Tail(q) = <<>>
  BY <1>1, Rest
<1>3a. /\ g + Len(q) # 0
       /\ \A k \in 1..(Len(q) - 1) : k + 1 \in 1..Len(q) /\ g + (k + 1) = (g + 1) + k
  <2> DEFINE l == Len(q)
  <2>1. g \in Nat /\ l \in Nat /\ l >= 1
    BY <1>2, <1>3
  <2> HIDE DEF g, l
  <2>2. /\ g + l # 0
        /\ \A k \in 1..(l - 1) : k + 1 \in 1..l /\ g + (k + 1) = (g + 1) + k
    BY <2>1, Shift
  <2> QED
    BY <2>2 DEF l
<1>4. Live(G, r) /\ Running(r) /\ task[r] \in {"working", "finished"}
  BY MeantForCaller
<1>5. Following(r) => Flow(r)
  BY <1>4 DEF Delivery, Flows
<1>6. \A k \in 1..g : got[r][k] = Answer(r, k)
  BY DEF Delivery, PassedOn
<1>7. /\ Len(Append(got[r], Arriving(r))) = g + 1
      /\ \A k \in 1..g : Append(got[r], Arriving(r))[k] = got[r][k]
      /\ Append(got[r], Arriving(r))[g + 1] = Arriving(r)
  BY <1>1, <1>2, AppendProperties
<1>8. Arriving(r) = Answer(r, g + 1) =>
        \A k \in 1..Len(Append(got[r], Arriving(r))) :
           Append(got[r], Arriving(r))[k] = Answer(r, k)
  <2> SUFFICES ASSUME Arriving(r) = Answer(r, g + 1), NEW k \in 1..(g + 1)
               PROVE  Append(got[r], Arriving(r))[k] = Answer(r, k)
    BY <1>7
  <2>1. k = g + 1 \/ k \in 1..g
    BY <1>2
  <2> QED
    BY <1>6, <1>7, <2>1
<1>9. Kind # "future" => (IsNull(Arriving(r)) <=> q[1].n = 0)
  BY <1>1 DEF Plain, IsNull
<1>10. phase[r] = "held" => Following(r)
  BY DEF Following
<1>11. Following(r) /\ Kind # "future" =>
         IF q[1].n = 0
         THEN task[r] = "finished" /\ Len(q) = 1 /\ made[r] = g
         ELSE q[1] = Answer(r, g + 1)
  BY <1>1, <1>2, <1>4, <1>5, FlowHead
<1>12. CASE ReceiveAnswer(r)
  <2>1. /\ Kind = "future" /\ phase[r] = "held" /\ phase'[r] = "ready"
        /\ got' = [got EXCEPT ![r] = Append(got[r], Arriving(r))]
    BY <1>12 DEF ReceiveAnswer, Complete, PassOn, Context, IInv, Typed, TypeOK
  <2>2. Flow(r)
    BY <1>5, <1>10, <2>1
  <2>3. task[r] = "working" => made[r] = g + Len(q) /\ made[r] = 0
    BY <2>1, <2>2 DEF Flow
  <2>4. task[r] = "finished"
    <3>1. g + Len(q) # 0
      BY <1>3a
    <3> QED
      BY <1>4, <2>3, <3>1
  <2>5. made[r] = 1 /\ g = 0 /\ Len(q) = 1 /\ q[1] = Answer(r, 1)
    BY <2>1, <2>2, <2>4 DEF Flow
  <2>6. Arriving(r) = Answer(r, g + 1)
    BY <1>1, <2>5
  <2>7. got'[r] = Append(got[r], Arriving(r))
    BY <2>1 DEF Context, Base, MessageTypeOK
  <2>8. Len(got'[r]) = made[r]
    BY <1>7, <2>5, <2>7
  <2>9. ~Following(r)'
    BY <2>1 DEF Following
  <2> QED
    BY <1>1, <1>3, <1>8, <2>1, <2>4, <2>5, <2>6, <2>7, <2>8, <2>9
<1>13. CASE ReceiveItem(r)
  <2>1. /\ Kind # "future" /\ q[1].n # 0 /\ Accepts(r)
        /\ got' = [got EXCEPT ![r] = Append(got[r], Arriving(r))]
        /\ UNCHANGED phase
    BY <1>9, <1>13 DEF ReceiveItem, Accepts, PassOn, vars
  <2>2. Following(r)
    BY <1>4, <2>1 DEF Accepts, Following, Running
  <2>3. Arriving(r) = Answer(r, g + 1)
    BY <1>1, <1>11, <2>1, <2>2
  <2>4. got'[r] = Append(got[r], Arriving(r)) /\ Len(got'[r]) = g + 1
    BY <1>7, <2>1 DEF Context, Base, MessageTypeOK
  <2> DEFINE t == outbox'[w]
  <2>5. Len(t) = Len(q) - 1 /\ \A k \in 1..(Len(q) - 1) : t[k] = q[k + 1]
    BY <1>1, <1>3
  <2>6. CASE task[r] = "working"
    <3>1. made[r] = g + Len(q) /\ \A k \in 1..Len(q) : q[k] = Answer(r, g + k)
      BY <1>5, <2>2, <2>6 DEF Flow
    <3>2. made[r] = (g + 1) + Len(t)
      <4>1. g + Len(q) = (g + 1) + (Len(q) - 1)
        BY <1>2, <1>3, Shift
      <4> QED
        BY <2>5, <3>1, <4>1
    <3>3. ASSUME NEW k \in 1..(Len(q) - 1) PROVE t[k] = Answer(r, (g + 1) + k)
      <4>1. k + 1 \in 1..Len(q) /\ g + (k + 1) = (g + 1) + k
        BY <1>3a
      <4> QED
        BY <2>5, <3>1, <4>1
    <3>4. Flow(r)'
      BY <1>1, <2>1, <2>4, <2>5, <2>6, <3>2, <3>3 DEF Flow
    <3> QED
      BY <1>8, <2>1, <2>3, <2>4, <3>4
  <2>7. CASE task[r] = "finished"
    <3>1. /\ made[r] = g + Len(q) - 1 /\ q[Len(q)] = Answer(r, 0)
          /\ \A k \in 1..(Len(q) - 1) : q[k] = Answer(r, g + k)
      BY <1>1, <1>5, <2>1, <2>2, <2>7 DEF Flow
    <3>2. Len(q) # 1
      BY <2>1, <3>1 DEF Answer
    <3>3. Len(t) >= 1 /\ made[r] = (g + 1) + Len(t) - 1
      <4>1. Len(q) - 1 >= 1 /\ g + Len(q) - 1 = (g + 1) + (Len(q) - 1) - 1
        BY <1>2, <1>3, <3>2, Shift
      <4> QED
        BY <2>5, <3>1, <4>1
    <3>4. t[Len(t)] = Answer(r, 0)
      <4>1. Len(q) - 1 \in 1..(Len(q) - 1) /\ (Len(q) - 1) + 1 = Len(q)
        BY <1>2, <1>3, <3>2, Shift
      <4> QED
        BY <2>5, <3>1, <4>1
    <3>5. ASSUME NEW k \in 1..(Len(t) - 1) PROVE t[k] = Answer(r, (g + 1) + k)
      <4>1. /\ k \in 1..(Len(q) - 1) /\ k + 1 \in 1..(Len(q) - 1)
            /\ g + (k + 1) = (g + 1) + k
        <5>1. k \in 1..(Len(q) - 1 - 1)
          BY <2>5
        <5> QED
          BY <1>2, <1>3, <5>1, Shift
      <4> QED
        BY <2>5, <3>1, <4>1
    <3>6. Flow(r)'
      BY <1>1, <2>1, <2>4, <2>7, <3>3, <3>4, <3>5 DEF Flow
    <3> QED
      BY <1>8, <2>1, <2>3, <2>4, <3>6
  <2> QED
    BY <1>4, <2>6, <2>7
<1>14. CASE ReceiveEnd(r)
  <2>1. /\ Kind # "future" /\ q[1].n = 0 /\ phase[r] = "held" /\ phase'[r] = "ready"
        /\ got' = got
    BY <1>9, <1>14 DEF ReceiveEnd, Complete, Context, IInv, Typed, TypeOK
  <2>2. task[r] = "finished" /\ Len(q) = 1 /\ made[r] = g
    BY <1>10, <1>11, <2>1
  <2>3. ~Following(r)'
    BY <2>1 DEF Following
  <2> QED
    BY <1>1, <1>3, <1>6, <2>1, <2>2, <2>3
<1>15. CASE ReceiveStray(r)
  <2>1. got' = got /\ phase' = phase
    BY <1>15 DEF ReceiveStray, vars
  <2>2. CASE Following(r)
    <3>1. Kind = "callback" /\ phase[r] # "held" /\ q[1].n = 0
      BY <1>9, <1>15, <2>2, KindAssumption, FlavourAssumption
         DEF ReceiveStray, Accepts, Following
    <3>2. task[r] = "finished" /\ Len(q) = 1 /\ made[r] = g
      BY <1>11, <2>2, <3>1
    <3>3. Flow(r)'
      BY <1>1, <1>3, <2>1, <3>1, <3>2 DEF Flow
    <3> QED
      BY <1>6, <2>1, <3>3
  <2>3. CASE ~Following(r)
    BY <1>6, <2>1, <2>3 DEF Following
  <2> QED
    BY <2>2, <2>3
<1> QED
  BY <1>12, <1>13, <1>14, <1>15 DEF Receive

LEMMA ReceiveDelivers ==
    ASSUME NEW G, Context, Delivery(G), Sole(G), Plain, NEW r \in Runs, Receive(r)
    PROVE  Delivery(G)'
<1> DEFINE w == ticket[r].handle
<1>1. /\ w \in Workers \ terminated
      /\ outbox[w] \in Seq(Message) /\ outbox[w] # <<>>
      /\ \A v \in Workers \ {w} : outbox'[v] = outbox[v]
      /\ outbox'[w] = Tail(outbox[w])
      /\ \A q \in Runs \ {r} : got'[q] = got[q] /\ phase'[q] = phase[q]
      /\ phase'[r] = phase[r] \/ phase'[r] = "ready"
      /\ UNCHANGED <<terminated, ticket, task, made, listening>>
  BY ReceiveEffect DEF Context
<1>2. \A q \in Runs \ {r} : /\ Running(q)' = Running(q) /\ Live(G, q)' = Live(G, q)
                           /\ Following(q)' = Following(q)
  BY <1>1 DEF Running, Live, Called, Following
<1>3. w \in G =>
        /\ Live(G, r) /\ Running(r) /\ task[r] \in {"working", "finished"}
        /\ \A k \in DOMAIN outbox[w] : outbox[w][k].run = r
  BY MeantForCaller
<1>4. w \in G =>
        /\ \A k \in 1..Len(got'[r]) : got'[r][k] = Answer(r, k)
        /\ Following(r)' => Flow(r)'
        /\ \/ phase'[r] = phase[r]
           \/ /\ phase'[r] = "ready" /\ task[r] = "finished"
              /\ Len(got'[r]) = made[r]
              /\ outbox'[w] = <<>>
  BY CallerReceives
<1>5. r \in listening
  BY ReceiveEffect DEF Context
<1>6. FromRunning(G)'
  <2> SUFFICES ASSUME NEW v \in (G \cap Workers) \ terminated, NEW k \in DOMAIN outbox'[v],
                      NEW q, q = outbox'[v][k].run
               PROVE  /\ q \in listening /\ ticket[q].handle = v
                      /\ Running(q)' /\ task[q] # "unsent"
    BY <1>1 DEF FromRunning
  <2>1. CASE v = w
    <3>0. /\ Len(outbox[w]) \in Nat /\ DOMAIN outbox[w] = 1..Len(outbox[w])
          /\ DOMAIN outbox'[w] = 1..(Len(outbox[w]) - 1)
          /\ \A j \in 1..(Len(outbox[w]) - 1) : outbox'[w][j] = outbox[w][j + 1]
      BY <1>1, Rest
    <3>1. k \in 1..(Len(outbox[w]) - 1)
      BY <2>1, <3>0
    <3>2. k + 1 \in DOMAIN outbox[w] /\ outbox'[w][k] = outbox[w][k + 1]
      BY <3>0, <3>1
    <3>3. q = r
      BY <1>3, <2>1, <3>2
    <3>4. outbox'[w] # <<>>
      BY <2>1
    <3>5. phase'[r] = phase[r]
      BY <1>4, <2>1, <3>4
    <3> QED
      BY <1>3, <1>5, <2>1, <3>3, <3>5 DEF Running
  <2>2. CASE v # w
    <3>1. q \in listening /\ ticket[q].handle = v /\ Running(q) /\ task[q] # "unsent"
      BY <1>1, <2>2 DEF Delivery, FromRunning
    <3>2. q \in Runs \ {r}
      BY <2>2, <3>1 DEF Context, Base, MessageTypeOK
    <3> QED
      BY <1>2, <3>1, <3>2
  <2> QED
    BY <2>1, <2>2
<1>7. WorkingOn(G)'
  <2> SUFFICES ASSUME NEW q \in Runs, Live(G, q)', task[q] = "working"
               PROVE  Running(q)' /\ q \in listening
    BY <1>1 DEF WorkingOn
  <2>1. CASE q = r
    <3>1. w \in G
      BY <1>1, <2>1 DEF Live
    <3>2. phase'[r] = phase[r]
      BY <1>4, <2>1, <3>1
    <3> QED
      BY <1>3, <1>5, <2>1, <3>1, <3>2 DEF Running
  <2>2. CASE q # r
    BY <1>2, <2>2 DEF Delivery, WorkingOn
  <2> QED
    BY <2>1, <2>2
<1>8. Flows(G)'
  <2> SUFFICES ASSUME NEW q \in Runs, Live(G, q)', Following(q)' PROVE Flow(q)'
    BY DEF Flows
  <2>1. CASE q = r
    BY <1>1, <1>4, <2>1 DEF Live
  <2>2. CASE q # r
    <3>1. Live(G, q) /\ Following(q) /\ Running(q) /\ Flow(q)
      BY <1>2, <2>2 DEF Delivery, Flows, Following, Running
    <3>2. ticket[q].handle # w
      <4>1. w \in G => r \in Outstanding
        BY <1>3 DEF Running, Outstanding
      <4> QED
        BY <2>2, <3>1, <4>1, RunningAlone DEF Live
    <3>3. outbox'[ticket[q].handle] = outbox[ticket[q].handle]
      BY <1>1, <3>1, <3>2 DEF Live, Context, HandlesHaveOutbox
    <3> QED
      BY <1>1, <2>2, <3>1, <3>3, FlowStays
  <2> QED
    BY <2>1, <2>2
<1>9. PassedOn(G)'
  BY <1>1, <1>4 DEF Delivery, PassedOn
<1>10. CompletesLast(G)'
  <2> SUFFICES ASSUME NEW q \in Runs, phase'[q] \in {"ready", "done"}, ticket[q].handle \in G
               PROVE  task[q] = "finished" /\ Len(got'[q]) = made[q]
    BY <1>1 DEF CompletesLast
  <2>1. CASE q = r
    BY <1>3, <1>4, <2>1 DEF Running
  <2>2. CASE q # r
    BY <1>1, <2>2 DEF Delivery, CompletesLast
  <2> QED
    BY <2>1, <2>2
<1> QED
  BY <1>6, <1>7, <1>8, <1>9, <1>10 DEF Delivery

-----------------------------------------------------------------------------
LEMMA InitDelivers == ASSUME NEW G, MessageInit PROVE Delivery(G)
  BY DEF MessageInit, Init, Delivery, FromRunning, WorkingOn, Flows, PassedOn,
     CompletesLast, Live, Called, Following

LEMMA NextDelivers ==
    ASSUME NEW G, Plain, Context, Context', Sole(G), Sole(G)', Delivery(G),
           [MessageNext]_<<vars, messageVars>>
    PROVE  Delivery(G)'
<1>1. CASE Silent /\ UNCHANGED messageVars
  BY <1>1, SilentDelivers
<1>2. ASSUME NEW r \in Runs,
             \/ Call(r) \/ FirstPoll(r) \/ FirstPollPanics(r)
             \/ Produce(r) \/ End(r) \/ Resolve(r) \/ Receive(r)
      PROVE  Delivery(G)'
  BY <1>2, CallDelivers, PollDelivers, ReplyDelivers, ReceiveDelivers
<1>3. CASE UNCHANGED <<vars, messageVars>>
  <2>1. /\ UNCHANGED <<terminated, phase, ticket, task, made, outbox, listening, got>>
        /\ \A q \in Runs : /\ Running(q)' = Running(q) /\ Live(G, q)' = Live(G, q)
                           /\ Following(q)' = Following(q)
    BY <1>3 DEF vars, messageVars, Live, Called, Following, Running
  <2>2. FromRunning(G)' /\ WorkingOn(G)' /\ PassedOn(G)' /\ CompletesLast(G)'
    BY <2>1 DEF Delivery, FromRunning, WorkingOn, PassedOn, CompletesLast, Running
  <2>3. Flows(G)'
    BY <2>1, FlowStays DEF Delivery, Flows
  <2> QED
    BY <2>2, <2>3 DEF Delivery
<1> QED
  BY <1>1, <1>2, <1>3 DEF MessageNext

-----------------------------------------------------------------------------
(* What the owners can rely on.                                            *)

\* The next n answers to run r lie in front, and nothing else of it does.
LEMMA NextInFront ==
    ASSUME MessageTypeOK, NEW r \in Runs, ticket[r].handle \in Workers, NEW n \in Nat,
           n <= Len(outbox[ticket[r].handle]),
           made[r] = Len(got[r]) + n,
           \A k \in 1..n : outbox[ticket[r].handle][k] = Answer(r, Len(got[r]) + k),
           \A k \in (n + 1)..Len(outbox[ticket[r].handle]) :
              \/ outbox[ticket[r].handle][k].run # r
              \/ outbox[ticket[r].handle][k].n = 0,
           \A k \in 1..Len(got[r]) : got[r][k] = Answer(r, k)
    PROVE  OwnInOrder(r)
<1> DEFINE q == outbox[ticket[r].handle]
           g == Len(got[r])
<1>1. /\ g \in Nat /\ DOMAIN got[r] = 1..g
      /\ Len(q) \in Nat /\ DOMAIN q = 1..Len(q)
  BY LenProperties DEF MessageTypeOK
<1>2. \A k \in 1..n : q[k].run = r /\ q[k].n = g + k
  <2>1. \A x : Answer(r, x).run = r /\ Answer(r, x).n = x
    BY DEF Answer
  <2>2. \A k \in 1..n : q[k] = Answer(r, g + k)
    OBVIOUS
  <2> QED
    BY <2>1, <2>2
<1>3. OnTheWay(r) = 1..n
  <2>1. ASSUME NEW k \in 1..n PROVE k \in OnTheWay(r)
    <3>1. k \in DOMAIN q
      BY <1>1
    <3>2. g + k > 0
      BY <1>1
    <3> QED
      BY <1>2, <3>1, <3>2 DEF OnTheWay
  <2>2. ASSUME NEW k \in OnTheWay(r) PROVE k \in 1..n
    <3>1. k \in 1..Len(q) /\ q[k].run = r /\ q[k].n # 0
      BY <1>1 DEF OnTheWay
    <3>2. k \notin (n + 1)..Len(q)
      BY <3>1
    <3> QED
      BY <1>1, <3>1, <3>2
  <2> QED
    BY <2>1, <2>2
<1>4. {q[k].n : k \in OnTheWay(r)} = (g + 1)..made[r]
  <2>1. ASSUME NEW k \in 1..n PROVE q[k].n \in (g + 1)..(g + n)
    <3>1. g + k \in (g + 1)..(g + n)
      BY <1>1
    <3> QED
      BY <1>2, <3>1
  <2>2. ASSUME NEW x \in (g + 1)..(g + n) PROVE \E k \in 1..n : q[k].n = x
    <3>1. x - g \in 1..n /\ g + (x - g) = x
      BY <1>1
    <3> QED
      BY <1>2, <3>1
  <2>3. {q[k].n : k \in 1..n} = (g + 1)..(g + n)
    BY <2>1, <2>2
  <2>4. made[r] = g + n
    OBVIOUS
  <2> QED
    BY <1>3, <2>3, <2>4
<1>5. \A j, k \in OnTheWay(r) : j < k => q[j].n < q[k].n
  <2> SUFFICES ASSUME NEW j \in 1..n, NEW k \in 1..n, j < k
               PROVE  q[j].n < q[k].n
    BY <1>3
  <2>1. g + j < g + k
    BY <1>1
  <2> QED
    BY <1>2, <2>1
<1>6. g <= made[r]
  BY <1>1
<1> QED
  BY <1>1, <1>4, <1>5, <1>6 DEF OwnInOrder

\* An owner that may still look finds its answers in order.
LEMMA FlowInOrder ==
    ASSUME NEW G, Context, Delivery(G), NEW r \in Runs, Attended(r), Live(G, r)
    PROVE  OwnInOrder(r)
<1> DEFINE q == outbox[ticket[r].handle]
           g == Len(got[r])
<1>1. /\ MessageTypeOK /\ ticket[r].handle \in Workers
      /\ ticket[r].handle \in (G \cap Workers) \ terminated
  BY DEF Context, Base, Live, HandlesHaveOutbox
<1>2. /\ g \in Nat /\ Len(q) \in Nat /\ DOMAIN q = 1..Len(q)
  BY <1>1, LenProperties DEF MessageTypeOK
<1>3. \A k \in 1..g : got[r][k] = Answer(r, k)
  BY DEF Delivery, PassedOn, Live
<1>4. CASE phase[r] # "held"
  <2>1. made[r] = g
    BY <1>4 DEF Attended, Delivery, CompletesLast, Live
  <2>2. ASSUME NEW k \in 1..Len(q) PROVE q[k].run # r
    BY <1>1, <1>2, <1>4 DEF Delivery, FromRunning, Running, Attended
  <2>3. 0 <= Len(q) /\ made[r] = g + 0 /\ 0 + 1 = 1
    BY <1>2, <2>1
  <2> QED
    BY <1>1, <1>3, <2>2, <2>3, NextInFront
<1>5. CASE phase[r] = "held"
  <2>1. Flow(r)
    BY <1>5 DEF Delivery, Flows, Following
  <2>2. CASE task[r] = "unsent"
    <3>1. made[r] = 0 /\ g = 0 /\ q = <<>>
      BY <2>1, <2>2 DEF Flow
    <3>2. Len(q) = 0
      BY <3>1, EmptySeq
    <3> QED
      BY <1>1, <1>3, <3>1, <3>2, NextInFront
  <2>3. CASE task[r] = "working"
    <3>1. made[r] = g + Len(q) /\ \A k \in 1..Len(q) : q[k] = Answer(r, g + k)
      BY <2>1, <2>3 DEF Flow
    <3>2. Len(q) <= Len(q) /\ (Len(q) + 1)..Len(q) = {}
      BY <1>2
    <3> QED
      BY <1>1, <1>2, <1>3, <3>1, <3>2, NextInFront
  <2>4. CASE task[r] = "finished" /\ Kind = "future"
    <3>1. made[r] = 1 /\ g = 0 /\ Len(q) = 1 /\ q[1] = Answer(r, 1)
      BY <2>1, <2>4 DEF Flow
    <3> QED
      BY <1>1, <1>3, <3>1, NextInFront
  <2>5. CASE task[r] = "finished" /\ Kind # "future"
    <3>1. /\ Len(q) >= 1 /\ made[r] = g + Len(q) - 1
          /\ q[Len(q)] = Answer(r, 0)
          /\ \A k \in 1..(Len(q) - 1) : q[k] = Answer(r, g + k)
      BY <1>5, <2>1, <2>5 DEF Flow
    <3>2. /\ Len(q) - 1 \in Nat /\ Len(q) - 1 <= Len(q)
          /\ made[r] = g + (Len(q) - 1)
          /\ \A k \in ((Len(q) - 1) + 1)..Len(q) : k = Len(q)
      BY <1>2, <3>1
    <3>3. q[Len(q)].n = 0
      BY <3>1 DEF Answer
    <3> QED
      BY <1>1, <1>3, <3>1, <3>2, <3>3, NextInFront
  <2> QED
    BY <1>1, <2>2, <2>3, <2>4, <2>5 DEF MessageTypeOK
<1> QED
  BY <1>4, <1>5

Originals == 1..InitialSize

\* The first workers serve one run at a time, for every client.
LEMMA OriginalsServe == ASSUME Plain PROVE MessageSpec => []Delivery(Originals)
<1>1. MessageSpec => []Sole(Originals)
  <2>1. OriginalExclusive => Sole(Originals)
    BY SizeAssumption DEF OriginalExclusive, Sole, Originals
  <2> QED
    BY MessagesRefinePool, OriginalsAreExclusive, <2>1, PTL
<1>2. MessageInit => Delivery(Originals)
  BY InitDelivers
<1>3. /\ Context /\ Sole(Originals) /\ Delivery(Originals)
      /\ Context' /\ Sole(Originals)' /\ [MessageNext]_<<vars, messageVars>>
      => Delivery(Originals)'
  BY NextDelivers
<1> QED
  BY ContextInvariance, <1>1, <1>2, <1>3, PTL DEF MessageSpec

\* Whatever the clients of the pool abort, drop or fail to post, and however many
\* runs it is asked for: the owner of a run on one of the first workers is passed
\* that run's own answers, all of them and in order, by run, stream and
\* stream_callback.
THEOREM OriginalsGetTheirAnswers == ASSUME Plain PROVE MessageSpec => []OriginalsDeliver
<1>1. Context /\ Delivery(Originals) => OriginalsDeliver
  <2> SUFFICES ASSUME Context, Delivery(Originals), NEW r \in Runs, Attended(r),
                      ticket[r].handle \in 1..InitialSize \ terminated
               PROVE  OwnInOrder(r)
    BY DEF OriginalsDeliver
  <2>1. Live(Originals, r)
    BY DEF Live, Called, Attended, Originals
  <2> QED
    BY <2>1, FlowInOrder
<1> QED
  BY OriginalsServe, ContextInvariance, <1>1, PTL

\* The slot of a run on one of the first workers is given back only when its
\* worker is done with it and every answer was passed on.
THEOREM OriginalsCompleteLast == ASSUME Plain PROVE MessageSpec => []CompleteMeansAll
<1>1. Delivery(Originals) => CompleteMeansAll
  BY DEF Delivery, CompletesLast, CompleteMeansAll, Originals
<1> QED
  BY OriginalsServe, <1>1, PTL

\* For a disciplined client all workers do.
LEMMA DisciplinedServe ==
    ASSUME Plain, Disciplined
    PROVE  MessageSpec => []Delivery(Nat)
<1>1. MessageSpec => []Sole(Nat)
  <2>1. Exclusive => Sole(Nat)
    BY DEF Exclusive, Sole
  <2> QED
    BY MessagesRefinePool, DisciplinedExclusive, <2>1, PTL
<1>2. MessageInit => Delivery(Nat)
  BY InitDelivers
<1>3. /\ Context /\ Sole(Nat) /\ Delivery(Nat)
      /\ Context' /\ Sole(Nat)' /\ [MessageNext]_<<vars, messageVars>>
      => Delivery(Nat)'
  BY NextDelivers
<1> QED
  BY ContextInvariance, <1>1, <1>2, <1>3, PTL DEF MessageSpec

\* A disciplined client of the pool is never handed an answer to another run's
\* request, nor one of its own twice, early or out of order.
THEOREM DisciplinedOwnAnswers ==
    ASSUME Plain, Disciplined
    PROVE  MessageSpec => []AnswersAreOwn
<1>1. Context /\ Delivery(Nat) => AnswersAreOwn
  <2> SUFFICES ASSUME Context, Delivery(Nat), NEW r \in Runs, NEW k \in DOMAIN got[r]
               PROVE  got[r][k] = Answer(r, k)
    BY DEF AnswersAreOwn
  <2>1. ticket[r].handle \in Nat
    BY DEF Context, IInv, Typed, TypeOK, Ticket
  <2>2. DOMAIN got[r] = 1..Len(got[r])
    BY LenProperties DEF Context, Base, MessageTypeOK
  <2> QED
    BY <2>1, <2>2 DEF Delivery, PassedOn
<1> QED
  BY DisciplinedServe, ContextInvariance, <1>1, PTL

\* For a disciplined client no closure is called with a message it has nothing
\* to do with, save that of a run whose owner dropped it.
THEOREM DisciplinedNoStray ==
    ASSUME Plain, Disciplined
    PROVE  MessageSpec => NoStray
<1>1. ASSUME Context, Delivery(Nat), NEW r \in Runs, ReceiveStray(r)
      PROVE  phase[r] = "dropped"
  <2>1. ticket[r].handle \in Nat
    BY <1>1 DEF Context, IInv, Typed, TypeOK, Ticket
  <2>2. Running(r)
    BY <1>1, <2>1, MeantForCaller DEF Receive
  <2>3. phase[r] # "held"
    BY <1>1, KindAssumption, FlavourAssumption DEF ReceiveStray, Accepts
  <2> QED
    BY <2>2, <2>3 DEF Running
<1>2. Context /\ Delivery(Nat) =>
        [\A r \in Runs : ReceiveStray(r) => phase[r] = "dropped"]_<<vars, messageVars>>
  BY <1>1
<1> QED
  BY DisciplinedServe, ContextInvariance, <1>2, PTL DEF NoStray
=============================================================================
