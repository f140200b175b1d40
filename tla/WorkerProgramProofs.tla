------------------------ MODULE WorkerProgramProofs ------------------------
(***************************************************************************)
(* From a function under #[worker] to the handler of its requests, for every*)
(* number of events, every head, every failure and every set of functions.  *)
(* First the worker that boots: the order in which it handles its events,   *)
(* that none is lost but behind a panic, and the files it is made of.  Then *)
(* the macro: it finds out the types as they are written, so that what it   *)
(* expands is what is documented.                                           *)
(***************************************************************************)
EXTENDS WorkerProgram, FiniteSetTheorems, SequenceTheorems, WellFoundedInduction, TLAPS

Increasing(s) == \A i, j \in DOMAIN s : i < j => s[i] < s[j]

Before(s, t) == \A i \in DOMAIN s, j \in DOMAIN t : s[i] < t[j]

\* An event is in one place at a time, and the places are in the order of posting:
\* the handler's, the script's queue, the port, those not posted yet.  Until
\* init_workers nothing was handled; after it nothing waits behind the queue.
OrderInv ==
    /\ posted \in Nat
    /\ handled \in Seq(Nat) /\ queue \in Seq(Nat) /\ port \in Seq(Nat)
    /\ Increasing(handled) /\ Increasing(queue) /\ Increasing(port)
    /\ Before(handled, port)
    /\ stage # "serving" => handled = <<>> /\ Before(queue, port)
    /\ \A i \in DOMAIN port : port[i] <= posted
    /\ \A i \in DOMAIN queue : queue[i] <= posted
    /\ \A i \in DOMAIN handled : handled[i] <= posted

\* A larger element at its end, or the loss of its first, leaves a sequence
\* increasing.
LEMMA AppendIncreasing ==
    ASSUME NEW s \in Seq(Nat), NEW e \in Nat, Increasing(s),
           \A i \in DOMAIN s : s[i] < e
    PROVE  /\ Append(s, e) \in Seq(Nat)
           /\ Increasing(Append(s, e))
           /\ \A i \in DOMAIN Append(s, e) : Append(s, e)[i] <= e
BY DEF Increasing

LEMMA TailIncreasing ==
    ASSUME NEW s \in Seq(Nat), Increasing(s), s # <<>>
    PROVE  /\ Head(s) \in Nat
           /\ Tail(s) \in Seq(Nat)
           /\ Increasing(Tail(s))
           /\ \A i \in DOMAIN Tail(s) : i + 1 \in DOMAIN s /\ Tail(s)[i] = s[i + 1]
           /\ \A i \in DOMAIN Tail(s) : Head(s) < Tail(s)[i]
           /\ 1 \in DOMAIN s /\ Head(s) = s[1]
<1>1. /\ Head(s) \in Nat /\ Tail(s) \in Seq(Nat) /\ Head(s) = s[1]
      /\ Len(s) \in Nat \ {0} /\ DOMAIN s = 1..Len(s)
      /\ Len(Tail(s)) = Len(s) - 1 /\ DOMAIN Tail(s) = 1..Len(Tail(s))
      /\ \A i \in 1..Len(Tail(s)) : Tail(s)[i] = s[i + 1]
  BY HeadTailProperties, EmptySeq, LenProperties
<1>2. 1 \in DOMAIN s
  BY <1>1
<1>3. ASSUME NEW i \in DOMAIN Tail(s)
      PROVE  i \in Nat /\ 1 < i + 1 /\ i + 1 \in DOMAIN s /\ Tail(s)[i] = s[i + 1]
  BY <1>1
<1>4. \A i \in DOMAIN Tail(s) : Head(s) < Tail(s)[i]
  BY <1>1, <1>2, <1>3 DEF Increasing
<1>5. ASSUME NEW i \in DOMAIN Tail(s), NEW j \in DOMAIN Tail(s), i < j
      PROVE  Tail(s)[i] < Tail(s)[j]
  <2>1. i + 1 < j + 1
    BY <1>3, <1>5
  <2> QED
    BY <1>3, <2>1 DEF Increasing
<1> QED
  BY <1>1, <1>2, <1>3, <1>4, <1>5 DEF Increasing

\* One element may stand between two sequences, and bounds may be weakened.
LEMMA SeparatedBy ==
    ASSUME NEW s \in Seq(Nat), NEW t \in Seq(Nat), NEW e \in Nat,
           \A i \in DOMAIN s : s[i] <= e, \A j \in DOMAIN t : e < t[j]
    PROVE  Before(s, t)
BY DEF Before

LEMMA BoundWeakens ==
    ASSUME NEW s \in Seq(Nat), NEW e \in Nat, NEW f \in Nat, e <= f,
           \A i \in DOMAIN s : s[i] <= e
    PROVE  \A i \in DOMAIN s : s[i] <= f
OBVIOUS

\* What is replayed of the queue is a prefix of it.
LEMMA ReplayedIsPrefix ==
    ASSUME NEW q \in Seq(Nat)
    PROVE  \E n \in 0..Len(q) : Replayed(q) = SubSeq(q, 1, n)
<1> DEFINE reached == {i \in DOMAIN q : \A j \in 1..(i - 1) : ~Panics(q[j])}
<1> DEFINE len == Len(q)
<1>0. len \in Nat
  OBVIOUS
<1>1. IsFiniteSet(1..len) /\ Cardinality(1..len) = len
  <2> HIDE DEF len
  <2> QED
    BY <1>0, FS_Interval
<1>2. reached \subseteq 1..Len(q)
  OBVIOUS
<1>3. Cardinality(reached) <= Len(q) /\ IsFiniteSet(reached)
  BY <1>1, <1>2, FS_Subset
<1>4. Cardinality(reached) \in 0..Len(q)
  BY <1>3, FS_CardinalityType
<1> QED
  BY <1>4 DEF Replayed

\* A prefix of an increasing sequence is increasing, and keeps its bounds.
LEMMA PrefixIncreasing ==
    ASSUME NEW q \in Seq(Nat), NEW n \in 0..Len(q), Increasing(q)
    PROVE  /\ SubSeq(q, 1, n) \in Seq(Nat)
           /\ Increasing(SubSeq(q, 1, n))
           /\ \A i \in DOMAIN SubSeq(q, 1, n) : i \in DOMAIN q /\ SubSeq(q, 1, n)[i] = q[i]
BY DEF Increasing

-----------------------------------------------------------------------------
LEMMA OrderInit == Init => OrderInv
BY DEF Init, OrderInv, Increasing, Before

\* An event that was posted is behind all those before it.
LEMMA OrderPost == OrderInv /\ Post => OrderInv'
<1> SUFFICES ASSUME OrderInv, Post PROVE OrderInv'
  OBVIOUS
<1> USE DEF OrderInv, Post, page
<1>1. \A i \in DOMAIN port : port[i] < posted + 1
  OBVIOUS
<1>2. /\ port' \in Seq(Nat)
      /\ Increasing(port')
      /\ \A i \in DOMAIN port' : port'[i] <= posted'
  BY <1>1, AppendIncreasing
<1>3. \A i \in DOMAIN port' :
         (i \in DOMAIN port /\ port'[i] = port[i]) \/ port'[i] = posted + 1
  OBVIOUS
<1>4. UNCHANGED <<stage, queue, handled>> /\ posted' = posted + 1
  OBVIOUS
<1>5. ASSUME NEW s, s \in Seq(Nat), Before(s, port), \A i \in DOMAIN s : s[i] <= posted
      PROVE  Before(s, port')
  <2>1. ASSUME NEW i \in DOMAIN s, NEW j \in DOMAIN port' PROVE s[i] < port'[j]
    <3>1. s[i] \in Nat /\ s[i] < posted + 1
      BY <1>5
    <3> QED
      BY <1>3, <1>5, <2>1, <3>1 DEF Before
  <2> QED
    BY <2>1 DEF Before
<1>6. /\ handled \in Seq(Nat) /\ \A i \in DOMAIN handled : handled[i] <= posted
      /\ Before(handled, port)
      /\ queue \in Seq(Nat) /\ \A i \in DOMAIN queue : queue[i] <= posted
      /\ stage # "serving" => handled = <<>> /\ Before(queue, port)
  OBVIOUS
<1>7. \A i \in DOMAIN queue : queue[i] <= posted + 1
  BY <1>6, BoundWeakens
<1>8. \A i \in DOMAIN handled : handled[i] <= posted + 1
  BY <1>6, BoundWeakens
<1>9. posted + 1 \in Nat /\ Increasing(queue) /\ Increasing(handled)
  OBVIOUS
<1> QED
  BY <1>2, <1>4, <1>5, <1>6, <1>7, <1>8, <1>9

\* An event that reaches the script goes behind those of the queue.
LEMMA OrderArrive == OrderInv /\ Arrive => OrderInv'
<1> SUFFICES ASSUME OrderInv, Arrive PROVE OrderInv'
  OBVIOUS
<1> USE DEF OrderInv, Arrive, page
<1>1. /\ Head(port) \in Nat /\ port' \in Seq(Nat) /\ Increasing(port')
      /\ \A i \in DOMAIN port' : i + 1 \in DOMAIN port /\ port'[i] = port[i + 1]
      /\ \A i \in DOMAIN port' : Head(port) < port'[i]
      /\ 1 \in DOMAIN port /\ Head(port) = port[1]
  BY TailIncreasing
<1>2. stage # "serving" /\ stage' # "serving"
  OBVIOUS
<1>3. \A i \in DOMAIN queue : queue[i] < Head(port)
  BY <1>1, <1>2 DEF Before
<1>4. /\ queue' \in Seq(Nat) /\ Increasing(queue')
      /\ \A i \in DOMAIN queue' : queue'[i] <= Head(port)
  BY <1>1, <1>3, AppendIncreasing
<1>5. Before(queue', port')
  BY <1>1, <1>4, SeparatedBy
<1>6. Head(port) <= posted
  BY <1>1
<1>7. \A i \in DOMAIN queue' : queue'[i] <= posted'
  BY <1>1, <1>4, <1>6, BoundWeakens
<1>8. Before(handled', port') /\ \A i \in DOMAIN port' : port'[i] <= posted'
  BY <1>1 DEF Before
<1> QED
  BY <1>1, <1>2, <1>4, <1>5, <1>7, <1>8

\* So does an event that reaches the handler, behind those that were handled.
LEMMA OrderHandle == OrderInv /\ Handle => OrderInv'
<1> SUFFICES ASSUME OrderInv, Handle PROVE OrderInv'
  OBVIOUS
<1> USE DEF OrderInv, Handle, page
<1>1. /\ Head(port) \in Nat /\ port' \in Seq(Nat) /\ Increasing(port')
      /\ \A i \in DOMAIN port' : i + 1 \in DOMAIN port /\ port'[i] = port[i + 1]
      /\ \A i \in DOMAIN port' : Head(port) < port'[i]
      /\ 1 \in DOMAIN port /\ Head(port) = port[1]
  BY TailIncreasing
<1>2. \A i \in DOMAIN handled : handled[i] < Head(port)
  BY <1>1 DEF Before
<1>3. /\ handled' \in Seq(Nat) /\ Increasing(handled')
      /\ \A i \in DOMAIN handled' : handled'[i] <= Head(port)
  BY <1>1, <1>2, AppendIncreasing
<1>4. Before(handled', port')
  BY <1>1, <1>3, SeparatedBy
<1>5. \A i \in DOMAIN handled' : handled'[i] <= posted'
  BY <1>1, <1>3, BoundWeakens
<1>6. \A i \in DOMAIN port' : port'[i] <= posted'
  BY <1>1
<1> QED
  BY <1>1, <1>3, <1>4, <1>5, <1>6

\* Nothing was handled before the queue is replayed, and all that is on its way is
\* behind the queue.
LEMMA OrderInitWorkers == OrderInv /\ InitWorkers => OrderInv'
<1> SUFFICES ASSUME OrderInv, InitWorkers PROVE OrderInv'
  OBVIOUS
<1> USE DEF OrderInv, InitWorkers, page
<1>1. handled = <<>> /\ Before(queue, port)
  OBVIOUS
<1>2. PICK n \in 0..Len(queue) : Replayed(queue) = SubSeq(queue, 1, n)
  BY ReplayedIsPrefix
<1>3. handled' = SubSeq(queue, 1, n)
  BY <1>1, <1>2
<1>4. /\ handled' \in Seq(Nat) /\ Increasing(handled')
      /\ \A i \in DOMAIN handled' : i \in DOMAIN queue /\ handled'[i] = queue[i]
  BY <1>3, PrefixIncreasing
<1>5. Before(handled', port')
  BY <1>1, <1>4 DEF Before
<1>6. \A i \in DOMAIN handled' : handled'[i] <= posted'
  BY <1>4
<1>7. /\ queue' \in Seq(Nat) /\ Increasing(queue')
      /\ \A i \in DOMAIN queue' : queue'[i] <= posted'
  BY DEF Increasing
<1> QED
  BY <1>4, <1>5, <1>6, <1>7

LEMMA OrderStep == OrderInv /\ [Next]_vars => OrderInv'
<1> SUFFICES ASSUME OrderInv, [Next]_vars PROVE OrderInv'
  OBVIOUS
<1>1. CASE CreateWorker
  BY <1>1 DEF OrderInv, CreateWorker, Increasing, Before
<1>2. CASE CreateFails
  BY <1>2 DEF OrderInv, CreateFails, Increasing, Before
<1>3. CASE Post
  BY <1>3, OrderPost
<1>4. CASE Arrive
  BY <1>4, OrderArrive
<1>5. CASE RunScript
  BY <1>5 DEF OrderInv, RunScript, Increasing, Before
<1>6. CASE ScriptFails
  BY <1>6 DEF OrderInv, ScriptFails, Increasing, Before
<1>7. CASE LoadFails
  BY <1>7 DEF OrderInv, LoadFails, Increasing, Before
<1>8. CASE InitPanics
  BY <1>8 DEF OrderInv, InitPanics, Increasing, Before
<1>9. CASE InitWorkers
  BY <1>9, OrderInitWorkers
<1>10. CASE Handle
  BY <1>10, OrderHandle
<1>11. CASE UNCHANGED vars
  BY <1>11 DEF OrderInv, vars, Increasing, Before
<1> QED
  BY <1>1, <1>2, <1>3, <1>4, <1>5, <1>6, <1>7, <1>8, <1>9, <1>10, <1>11
  DEF Next, Boot

\* Events are handled in the order of posting, none of them twice, for every number
\* of events and whatever fails on the way (init_workers and web_module).
THEOREM EventsKeepOrder == Spec => []HandledInOrder
<1>1. OrderInv => HandledInOrder
  BY DEF OrderInv, Increasing, HandledInOrder
<1> QED
  BY <1>1, OrderInit, OrderStep, PTL DEF Spec

-----------------------------------------------------------------------------
(* The files and the types.                                                *)

\* A set of numbers has a least one.
LEMMA LeastNumber ==
    ASSUME NEW T, T \subseteq Nat, T # {}
    PROVE  \E i \in T : \A j \in T : i <= j
<1> DEFINE R == {p \in Nat \X Nat : p[1] < p[2]}
<1>1. IsWellFoundedOn(R, Nat)
  BY NatLessThanWellFounded DEF OpToRel
<1>2. \E x \in T : \A y \in T : ~(<<y, x>> \in R)
  <2> HIDE DEF R
  <2> QED
  BY <1>1, WFMin
<1>3. \A x, y \in Nat : y < x => <<y, x>> \in R
  OBVIOUS
<1>4. PICK x \in T : \A y \in T : ~(<<y, x>> \in R)
  BY <1>2
<1>5. \A y \in T : ~(y < x)
  BY <1>3, <1>4
<1> QED
  BY <1>5

\* The first tag the selector finds is a link of some build.
LEMMA FirstIsSelected ==
    ASSUME head \in Heads, NEW type, Selected(type) # {}
    PROVE  First(type) \in {"own", "similar", "other"}
<1>1. head \in Seq(Link)
  BY HeadsAssumption
<1>2. DOMAIN head \subseteq Nat /\ \A i \in DOMAIN head : head[i] \in Link
  BY <1>1
<1>3. Selected(type) \subseteq DOMAIN head
  BY DEF Selected
<1>4. \E i \in Selected(type) : \A j \in Selected(type) : i <= j
  BY <1>2, <1>3, LeastNumber
<1>5. \E i \in Selected(type) : First(type) = head[i].build
  BY <1>4 DEF First
<1> QED
  BY <1>2, <1>3, <1>5 DEF Link

\* find_js_wasm_urls finds two builds.
LEMMA FilesFound ==
    ASSUME head \in Heads
    PROVE  FindFiles \in Builds \X Builds
  BY FirstIsSelected DEF FindFiles, Default, Builds

LEMMA EventsGrow ==
    ASSUME posted \in Nat, posted' = posted + 1, NEW s \in Seq(Events)
    PROVE  /\ s \in Seq(Events') /\ posted + 1 \in Events'
           /\ Append(s, posted + 1) \in Seq(Events')
<1>1. Events \subseteq Events' /\ posted + 1 \in Events'
  BY DEF Events
<1>2. s \in Seq(Events')
  BY <1>1, SeqMonotonic
<1> QED
  BY <1>1, <1>2, AppendProperties

LEMMA TypeInit == Init => TypeOK
<1> SUFFICES ASSUME Init PROVE TypeOK
  OBVIOUS
<1>1. <<>> \in Seq(Events)
  BY EmptySeq
<1>2. 0 \in 0..MaxEvents
  BY EventsAssumption
<1> QED
  BY <1>1, <1>2 DEF Init, TypeOK, Stages

LEMMA TypeStep == TypeOK /\ [Next]_vars => TypeOK'
<1> SUFFICES ASSUME TypeOK, [Next]_vars PROVE TypeOK'
  OBVIOUS
<1>1. /\ port \in Seq(Events) /\ queue \in Seq(Events) /\ handled \in Seq(Events)
      /\ posted \in Nat
  BY EventsAssumption DEF TypeOK
<1>2. CASE CreateWorker
  <2>1. files' \in Builds \X Builds
    BY <1>2, FilesFound DEF CreateWorker, TypeOK
  <2> QED
    BY <1>2, <2>1 DEF CreateWorker, TypeOK, page, Events, Stages
<1>3. CASE CreateFails
  BY <1>3 DEF CreateFails, TypeOK, page, Events, Stages
<1>4. CASE Post
  <2>1. /\ port' = Append(port, posted + 1) /\ posted' = posted + 1
        /\ queue' = queue /\ handled' = handled
    BY <1>4 DEF Post
  <2>2. port' \in Seq(Events') /\ queue' \in Seq(Events') /\ handled' \in Seq(Events')
    BY <1>1, <2>1, EventsGrow
  <2>3. posted' \in 0..MaxEvents
    BY <1>1, <1>4, EventsAssumption DEF Post, TypeOK
  <2> QED
    BY <1>4, <2>2, <2>3 DEF Post, TypeOK, page
<1>5. CASE Arrive
  <2>1. Head(port) \in Events /\ Tail(port) \in Seq(Events)
    BY <1>1, <1>5, HeadTailProperties DEF Arrive
  <2>2. Append(queue, Head(port)) \in Seq(Events)
    BY <1>1, <2>1, AppendProperties
  <2> QED
    BY <1>5, <2>1, <2>2 DEF Arrive, TypeOK, page, Events
<1>6. CASE RunScript \/ ScriptFails \/ LoadFails \/ InitPanics
  BY <1>6 DEF RunScript, ScriptFails, LoadFails, InitPanics, TypeOK, page, Events, Stages
<1>7. CASE InitWorkers
  <2>1. queue \in Seq(Nat)
    <3>1. Events \subseteq Nat
      BY DEF Events
    <3> QED
      BY <1>1, <3>1, SeqMonotonic
  <2>2. PICK n \in 0..Len(queue) : Replayed(queue) = SubSeq(queue, 1, n)
    BY <2>1, ReplayedIsPrefix
  <2>3. SubSeq(queue, 1, n) \in Seq(Events)
    BY <1>1
  <2>4. handled \o Replayed(queue) \in Seq(Events)
    BY <1>1, <2>2, <2>3, ConcatProperties
  <2>5. queue' \in Seq(Events)
    <3>1. <<>> \in Seq(Events)
      BY EmptySeq
    <3> QED
      BY <1>1, <1>7, <3>1 DEF InitWorkers
  <2> QED
    BY <1>7, <2>4, <2>5 DEF InitWorkers, TypeOK, page, Events, Stages
<1>8. CASE Handle
  <2>1. Head(port) \in Events /\ Tail(port) \in Seq(Events)
    BY <1>1, <1>8, HeadTailProperties DEF Handle
  <2>2. Append(handled, Head(port)) \in Seq(Events)
    BY <1>1, <2>1, AppendProperties
  <2> QED
    BY <1>8, <2>1, <2>2 DEF Handle, TypeOK, page, Events
<1>9. CASE UNCHANGED vars
  BY <1>9 DEF vars, TypeOK, Events
<1> QED
  BY <1>2, <1>3, <1>4, <1>5, <1>6, <1>7, <1>8, <1>9 DEF Next, Boot

\* What the boot of a worker keeps is well formed, and the events in the queue, in
\* the port and at the handler are among those posted.
THEOREM BootTyping == Spec => []TypeOK
  BY TypeInit, TypeStep, PTL DEF Spec

-----------------------------------------------------------------------------
(* No event is lost but behind a panic.                                    *)

LEMMA MembersAppend ==
    ASSUME NEW S, NEW s \in Seq(S), NEW e \in S
    PROVE  Members(Append(s, e)) = Members(s) \union {e}
<1>1. /\ Len(s) \in Nat /\ DOMAIN s = 1..Len(s)
      /\ DOMAIN Append(s, e) = 1..(Len(s) + 1)
      /\ \A i \in 1..Len(s) : Append(s, e)[i] = s[i]
      /\ Append(s, e)[Len(s) + 1] = e
  BY AppendProperties, LenProperties
<1>2. \A l \in Nat : 1..(l + 1) = 1..l \union {l + 1}
  OBVIOUS
<1>3. DOMAIN Append(s, e) = 1..Len(s) \union {Len(s) + 1}
  BY <1>1, <1>2
<1> QED
  BY <1>1, <1>3 DEF Members

LEMMA MembersTail ==
    ASSUME NEW S, NEW s \in Seq(S), s # <<>>
    PROVE  Members(s) = Members(Tail(s)) \union {Head(s)}
<1>1. /\ Len(s) \in Nat /\ Len(s) >= 1 /\ DOMAIN s = 1..Len(s) /\ Head(s) = s[1]
      /\ DOMAIN Tail(s) = 1..(Len(s) - 1)
      /\ \A i \in 1..(Len(s) - 1) : Tail(s)[i] = s[i + 1]
  BY HeadTailProperties, LenProperties, EmptySeq
<1>2. ASSUME NEW i \in DOMAIN s PROVE s[i] \in Members(Tail(s)) \union {Head(s)}
  <2>1. CASE i = 1
    BY <1>1, <2>1
  <2>2. CASE i # 1
    <3>1. i - 1 \in 1..(Len(s) - 1) /\ (i - 1) + 1 = i
      BY <1>1, <1>2, <2>2
    <3> QED
      BY <1>1, <3>1 DEF Members
  <2> QED
    BY <2>1, <2>2
<1>3. ASSUME NEW i \in DOMAIN Tail(s) PROVE Tail(s)[i] \in Members(s)
  <2>1. i + 1 \in DOMAIN s
    BY <1>1, <1>3
  <2> QED
    BY <1>1, <1>3, <2>1 DEF Members
<1>4. Head(s) \in Members(s)
  BY <1>1 DEF Members
<1> QED
  BY <1>2, <1>3, <1>4 DEF Members

\* The queue is replayed to its end, or to the first event on which the handler
\* panics.
LEMMA ReplayedUpTo ==
    ASSUME NEW q \in Seq(Nat)
    PROVE  \E m \in 0..Len(q) :
              /\ Replayed(q) = SubSeq(q, 1, m)
              /\ m = Len(q) \/ (m >= 1 /\ Panics(q[m]))
<1> DEFINE reached == {i \in DOMAIN q : \A j \in 1..(i - 1) : ~Panics(q[j])}
           stops == {i \in DOMAIN q : Panics(q[i])}
<1>1. Len(q) \in Nat /\ DOMAIN q = 1..Len(q)
  BY LenProperties
<1>2. ASSUME NEW m \in 0..Len(q), reached = 1..m
      PROVE  Replayed(q) = SubSeq(q, 1, m)
  <2>1. Cardinality(1..m) = m
    <3>1. m \in Nat
      BY <1>1
    <3>2. Cardinality(1..m) = IF 1 <= m THEN m - 1 + 1 ELSE 0
      BY <3>1, FS_Interval
    <3> QED
      BY <3>1, <3>2
  <2> QED
    BY <1>2, <2>1 DEF Replayed
<1>3. CASE stops = {}
  <2>1. reached = 1..Len(q)
    <3>1. ASSUME NEW i \in 1..Len(q), NEW j \in 1..(i - 1) PROVE ~Panics(q[j])
      <4>1. j \in DOMAIN q
        BY <1>1, <3>1
      <4> QED
        BY <1>3, <4>1
    <3> QED
      BY <1>1, <3>1
  <2>2. Len(q) \in 0..Len(q)
    BY <1>1
  <2> QED
    BY <1>2, <2>1, <2>2
<1>4. CASE stops # {}
  <2>1. PICK p \in stops : \A i \in stops : p <= i
    <3>1. stops \subseteq Nat
      BY <1>1
    <3> HIDE DEF stops
    <3> QED
      BY <1>4, <3>1, LeastNumber
  <2>2. p \in 1..Len(q) /\ Panics(q[p])
    BY <1>1
  <2>3. ASSUME NEW i \in DOMAIN q, i <= p, NEW j \in 1..(i - 1) PROVE ~Panics(q[j])
    <3>1. j \in DOMAIN q /\ ~(p <= j)
      BY <1>1, <2>2, <2>3
    <3> QED
      BY <2>1, <3>1
  <2>4. ASSUME NEW i \in DOMAIN q, ~(i <= p) PROVE i \notin reached
    <3>1. p \in 1..(i - 1)
      BY <1>1, <2>2, <2>4
    <3> QED
      BY <2>2, <3>1
  <2>5. reached = 1..p
    <3>1. 1..p = {i \in DOMAIN q : i <= p}
      BY <1>1, <2>2
    <3> QED
      BY <2>3, <2>4, <3>1
  <2>6. p \in 0..Len(q) /\ p >= 1
    BY <1>1, <2>2
  <2> QED
    BY <1>2, <2>2, <2>5, <2>6
<1> QED
  BY <1>3, <1>4

LEMMA LostInit == Init => LostOnlyBehindPanic
  BY DEF Init, LostOnlyBehindPanic, Events

\* The replay passes on an event of the queue unless it panicked before.
LEMMA LostInitWorkers ==
    ASSUME OrderInv, LostOnlyBehindPanic, InitWorkers, NEW e \in Events
    PROVE  \/ e \in Members(handled') \union Members(port')
           \/ \E p \in Members(queue') : p < e /\ PanickedInReplay(p)'
<1>1. handled = <<>> /\ queue \in Seq(Nat) /\ Increasing(queue) /\ port' = port
  BY DEF InitWorkers, OrderInv
<1>2. PICK m \in 0..Len(queue) :
        /\ Replayed(queue) = SubSeq(queue, 1, m)
        /\ m = Len(queue) \/ (m >= 1 /\ Panics(queue[m]))
  BY <1>1, ReplayedUpTo
<1>3. /\ Len(queue) \in Nat /\ DOMAIN queue = 1..Len(queue)
  BY <1>1, LenProperties
<1>4. handled' = SubSeq(queue, 1, m)
  <2>1. SubSeq(queue, 1, m) \in Seq(Nat)
    BY <1>1, PrefixIncreasing
  <2>2. handled' = <<>> \o SubSeq(queue, 1, m)
    <3>1. handled' = handled \o Replayed(queue)
      BY DEF InitWorkers
    <3>2. Replayed(queue) = SubSeq(queue, 1, m) /\ handled = <<>>
      BY <1>1, <1>2, Zenon
    <3> QED
      BY <3>1, <3>2, Zenon
  <2> QED
    BY <2>1, <2>2, ConcatEmptySeq
<1>5. \A i \in 1..m : queue[i] \in Members(handled')
  <2>1. DOMAIN handled' = 1..m /\ \A i \in 1..m : handled'[i] = queue[i]
    BY <1>1, <1>2, <1>4
  <2> QED
    BY <2>1 DEF Members
<1>6. e \in Members(port) \/ e \in Members(queue)
  <2>1. Members(handled) = {}
    BY <1>1 DEF Members
  <2> QED
    BY <2>1 DEF LostOnlyBehindPanic, PanickedInReplay
<1>7. CASE e \in Members(queue)
  <2>1. PICK i \in DOMAIN queue : e = queue[i]
    BY <1>7 DEF Members
  <2>2. CASE i <= m
    <3>1. i \in 1..m
      <4>1. i \in 1..Len(queue) /\ m \in Nat
        BY <1>1, <1>3
      <4> QED
        BY <2>2, <4>1
    <3> QED
      BY <1>5, <2>1, <3>1
  <2>3. CASE ~(i <= m)
    <3>1. m \in 1..m /\ m \in DOMAIN queue /\ m < i /\ Panics(queue[m])
      <4>1. \A l \in Nat : \A a \in 1..l, b \in 0..l : ~(a <= b) =>
               b < a /\ b # l /\ (b >= 1 => b \in 1..b /\ b \in 1..l)
        OBVIOUS
      <4>2. i \in 1..Len(queue) /\ m \in 0..Len(queue) /\ Len(queue) \in Nat
        BY <1>1, <1>3
      <4>3. m < i /\ m # Len(queue) /\ (m >= 1 => m \in 1..m /\ m \in 1..Len(queue))
        BY <2>3, <4>1, <4>2
      <4> QED
        BY <1>2, <1>3, <4>3
    <3>2. queue[m] \in Members(queue) /\ queue[m] < e
      BY <1>1, <2>1, <3>1 DEF Members, Increasing
    <3>3. queue' = queue
      BY <3>1, <3>2 DEF InitWorkers
    <3>4. PanickedInReplay(queue[m])'
      BY <1>5, <3>1, <3>2, <3>3 DEF PanickedInReplay, Panics, InitWorkers, page
    <3> QED
      BY <3>2, <3>3, <3>4
  <2> QED
    BY <2>2, <2>3
<1> QED
  BY <1>1, <1>6, <1>7

LEMMA LostStep ==
    OrderInv /\ TypeOK /\ LostOnlyBehindPanic /\ [Next]_vars => LostOnlyBehindPanic'
<1> SUFFICES ASSUME OrderInv, TypeOK, LostOnlyBehindPanic, [Next]_vars
             PROVE  LostOnlyBehindPanic'
  OBVIOUS
<1>0. queue \in Seq(Nat) /\ port \in Seq(Nat) /\ handled \in Seq(Nat) /\ posted \in Nat
  BY DEF OrderInv
<1>1. CASE Post
  <2>1. Members(port') = Members(port) \union {posted + 1}
    <3>1. posted + 1 \in Nat /\ port' = Append(port, posted + 1)
      BY <1>0, <1>1 DEF Post
    <3>2. \A e \in Nat : Members(Append(port, e)) = Members(port) \union {e}
      BY <1>0, MembersAppend
    <3> QED
      BY <3>1, <3>2
  <2>2. Events' = Events \union {posted + 1}
    BY <1>0, <1>1 DEF Post, Events
  <2> QED
    BY <1>1, <2>1, <2>2 DEF Post, LostOnlyBehindPanic, PanickedInReplay, Panics, page
<1>2. CASE Arrive
  <2>1. Head(port) \in Nat
    BY <1>0, <1>2, HeadTailProperties DEF Arrive
  <2>2. /\ Members(port) = Members(port') \union {Head(port)}
        /\ Members(queue') = Members(queue) \union {Head(port)}
    BY <1>0, <1>2, <2>1, MembersAppend, MembersTail DEF Arrive
  <2> QED
    BY <1>2, <2>2 DEF Arrive, LostOnlyBehindPanic, PanickedInReplay, Panics, Events, page
<1>3. CASE Handle
  <2>1. Head(port) \in Nat
    BY <1>0, <1>3, HeadTailProperties DEF Handle
  <2>2. /\ Members(port) = Members(port') \union {Head(port)}
        /\ Members(handled') = Members(handled) \union {Head(port)}
    BY <1>0, <1>3, <2>1, MembersAppend, MembersTail DEF Handle
  <2> QED
    BY <1>3, <2>2 DEF Handle, LostOnlyBehindPanic, PanickedInReplay, Panics, Events, page
<1>4. CASE InitWorkers
  <2>1. Events' = Events
    BY <1>4 DEF InitWorkers, Events
  <2> QED
    BY <1>4, <2>1, LostInitWorkers DEF LostOnlyBehindPanic
<1>5. CASE CreateWorker \/ CreateFails \/ RunScript \/ ScriptFails \/ LoadFails \/ InitPanics
  BY <1>5 DEF CreateWorker, CreateFails, RunScript, ScriptFails, LoadFails, InitPanics,
     LostOnlyBehindPanic, PanickedInReplay, Panics, Events, page
<1>6. CASE UNCHANGED vars
  BY <1>6 DEF vars, LostOnlyBehindPanic, PanickedInReplay, Panics, Events
<1> QED
  BY <1>1, <1>2, <1>3, <1>4, <1>5, <1>6 DEF Next, Boot

\* An event that was posted is lost only behind one on which the handler panicked
\* during the replay of the queue (the loop of set_onmessage), for every number of
\* events and whatever fails on the way.
THEOREM NothingElseLost == Spec => []LostOnlyBehindPanic
<1>1. Spec => []OrderInv
  BY OrderInit, OrderStep, PTL DEF Spec
<1> QED
  BY BootTyping, LostInit, LostStep, <1>1, PTL DEF Spec

-----------------------------------------------------------------------------
(***************************************************************************)
(* The program: its worker boots like any other, and what holds of every    *)
(* worker holds of that of an expanded function.                            *)
(***************************************************************************)

\* What the macro expands decides the flavour of the worker and its exports before
\* it starts, and nothing after.
THEOREM ProgramsBoot == ProgramSpec => Spec
<1>1. ProgramInit => Init
  BY DEF ProgramInit
<1>2. [ProgramNext]_programVars => [Next]_vars
  BY DEF ProgramNext, programVars
<1> QED
  BY <1>1, <1>2, PTL DEF ProgramSpec, Spec

\* The worker of an expanded function handles its events in order and loses none but
\* behind a panic.
THEOREM ProgramsKeepBoot ==
    ProgramSpec => [](TypeOK /\ HandledInOrder /\ LostOnlyBehindPanic)
  BY ProgramsBoot, BootTyping, EventsKeepOrder, NothingElseLost, PTL

-----------------------------------------------------------------------------
(***************************************************************************)
(* From here on, the macro.  What its patterns have to make of a type: one  *)
(* of a documented form is matched by the patterns of that form, and what is*)
(* in the hole is read as what the type is about, if it is read at all; no  *)
(* other type is matched and read.                                          *)
(***************************************************************************)

\* What a type is about, as the macro reads it.
InHole(form, T) == Parsed(FirstHole(Patterns[form], T))

\* What can be read, token by token or as one group.
Readable(form, c) == c \in IF form = "Fn" THEN Type ELSE {"name", "generic"}

ReadAsWritten(T) ==
    /\ T.tokens # <<>>
    /\ IsImpl(T) <=> T.form \in {"Fn", "Stream", "impl"}
    /\ \A form \in Holed :
          /\ IsImpl(T) /\ Matches(Patterns[form], T) => form \in {"Fn", "Stream"}
          /\ T.form = form => /\ Matches(Patterns[form], T)
                              /\ InHole(form, T) \subseteq {T.of}
                              /\ Readable(form, T.of) => InHole(form, T) # {}
                              /\ T.of # "tuple" => Lexes(FirstHole(Patterns[form], T))
          /\ T.form # form /\ Matches(Patterns[form], T)
                => T.form = "impl" /\ InHole(form, T) = {}

\* The forms that have patterns.
LEMMA FourForms == Holed = {"Receiver", "Sender", "Fn", "Stream"}
  BY DEF Holed, Patterns

\* Two inputs that match the patterns of handles make a channel of what is in them, or
\* a panic.
LEMMA ChannelReads ==
    ASSUME NEW rx, NEW tx, ReadAsWritten(rx), ReadAsWritten(tx)
    PROVE  /\ IsChannel(rx, tx) <=>
                 Matches(Patterns["Receiver"], rx) /\ Matches(Patterns["Sender"], tx)
           /\ \A init : IsChannel(rx, tx) /\ Channel(init, rx, tx).result = "expanded" =>
                 /\ rx.form = "Receiver" /\ tx.form = "Sender"
                 /\ Channel(init, rx, tx)
                      = Expanded("channel", init, Plain(rx.of), Plain(tx.of))
           /\ rx.form = "Receiver" /\ tx.form = "Sender"
              /\ Readable("Receiver", rx.of) /\ Readable("Sender", tx.of) =>
                 \A init : Channel(init, rx, tx).result = "expanded"
<1> DEFINE requests == InHole("Receiver", rx)
           responses == InHole("Sender", tx)
           made(init) == Expanded("channel", init, Plain(CHOOSE c \in requests : TRUE),
                                  Plain(CHOOSE c \in responses : TRUE))
<1>1. IsChannel(rx, tx) <=>
         Matches(Patterns["Receiver"], rx) /\ Matches(Patterns["Sender"], tx)
  BY DEF IsChannel, Patterns
<1>2. \A init : Channel(init, rx, tx) =
                  IF requests = {} \/ responses = {} THEN Panicked ELSE made(init)
  BY DEF Channel, InHole, Patterns
<1>3. Panicked.result # "expanded" /\ \A init : made(init).result = "expanded"
  BY DEF Panicked, Expanded
<1>4. /\ Matches(Patterns["Receiver"], rx) /\ requests # {} =>
            rx.form = "Receiver" /\ requests = {rx.of}
      /\ Matches(Patterns["Sender"], tx) /\ responses # {} =>
            tx.form = "Sender" /\ responses = {tx.of}
      /\ rx.form = "Receiver" /\ Readable("Receiver", rx.of) => requests # {}
      /\ tx.form = "Sender" /\ Readable("Sender", tx.of) => responses # {}
  BY FourForms DEF ReadAsWritten
<1>5. ASSUME NEW init, IsChannel(rx, tx), Channel(init, rx, tx).result = "expanded"
      PROVE  /\ rx.form = "Receiver" /\ tx.form = "Sender"
             /\ Channel(init, rx, tx) = Expanded("channel", init, Plain(rx.of), Plain(tx.of))
  <2>1. requests # {} /\ responses # {} /\ Channel(init, rx, tx) = made(init)
    BY <1>2, <1>3, <1>5
  <2>2. requests = {rx.of} /\ responses = {tx.of} /\ rx.form = "Receiver" /\ tx.form = "Sender"
    BY <1>1, <1>4, <1>5, <2>1
  <2>3. (CHOOSE c \in requests : TRUE) = rx.of /\ (CHOOSE c \in responses : TRUE) = tx.of
    BY <2>2
  <2> QED
    BY <2>1, <2>2, <2>3
<1>6. ASSUME rx.form = "Receiver", tx.form = "Sender",
             Readable("Receiver", rx.of), Readable("Sender", tx.of), NEW init
      PROVE  Channel(init, rx, tx).result = "expanded"
  BY <1>2, <1>3, <1>4, <1>6
<1> QED
  BY <1>1, <1>5, <1>6

\* What is in the hole of a handle is lexed, unless it has delimiters.
LEMMA HandlesLexed ==
    ASSUME NEW rx, NEW tx, ReadAsWritten(rx), ReadAsWritten(tx),
           rx.form = "Receiver" => rx.of # "tuple", tx.form = "Sender" => tx.of # "tuple"
    PROVE  ~HandlePanics(rx, tx)
<1>1. /\ Matches(Patterns["Receiver"], rx) => rx.form = "Receiver"
      /\ Matches(Patterns["Sender"], tx) => tx.form = "Sender"
  BY FourForms DEF ReadAsWritten
<1>2. /\ rx.form = "Receiver" => Lexes(FirstHole(Patterns["Receiver"], rx))
      /\ tx.form = "Sender" => Lexes(FirstHole(Patterns["Sender"], tx))
  BY FourForms DEF ReadAsWritten
<1> QED
  BY <1>1, <1>2 DEF HandlePanics, Unlexable, Patterns

\* A hole makes a flavour of what is in it, or a panic.
LEMMA SingleReads ==
    ASSUME NEW T, ReadAsWritten(T), NEW form \in {"Fn", "Stream"}, NEW w, NEW request
    PROVE  LET s == Single(w, request, Patterns[form], T) IN
           /\ Matches(Patterns[form], T) /\ s.result = "expanded" =>
                 T.form = form /\ s = Expanded(w, Unit, request, Plain(T.of))
           /\ T.form = form /\ Readable(form, T.of) => s.result = "expanded"
<1> DEFINE responses == InHole(form, T)
           s == Single(w, request, Patterns[form], T)
           made == Expanded(w, Unit, request, Plain(CHOOSE c \in responses : TRUE))
<1>1. s = IF responses = {} THEN Panicked ELSE made
  BY DEF Single, InHole
<1>2. Panicked.result # "expanded" /\ made.result = "expanded"
  BY DEF Panicked, Expanded
<1>3. /\ Matches(Patterns[form], T) /\ responses # {} => T.form = form /\ responses = {T.of}
      /\ T.form = form /\ Readable(form, T.of) => responses # {}
  BY FourForms DEF ReadAsWritten
<1>4. ASSUME Matches(Patterns[form], T), s.result = "expanded"
      PROVE  T.form = form /\ s = Expanded(w, Unit, request, Plain(T.of))
  <2>1. responses # {} /\ s = made
    BY <1>1, <1>2, <1>4
  <2>2. T.form = form /\ responses = {T.of}
    BY <1>3, <1>4, <2>1
  <2>3. (CHOOSE c \in responses : TRUE) = T.of
    BY <2>2
  <2> QED
    BY <2>1, <2>2, <2>3
<1>5. T.form = form /\ Readable(form, T.of) => s.result = "expanded"
  BY <1>1, <1>2, <1>3
<1> QED
  BY <1>4, <1>5

-----------------------------------------------------------------------------
(* A function, by its number of inputs.                                    *)

\* The inputs and the output of a function, and their forms.
LEMMA Shape ==
    ASSUME NEW U, NEW f, Signature(f, U)
    PROVE  LET n == Len(f.inputs) IN
           /\ n \in Nat /\ DOMAIN f.inputs = 1..n
           /\ \A i \in 1..n : f.inputs[i].type \in U
           /\ Len(Form(f).inputs) = n
           /\ \A i \in 1..n : Form(f).inputs[i] = f.inputs[i].type.form
           /\ f.output # <<>> => f.output[1] \in U /\ f.output = <<f.output[1]>>
<1> DEFINE n == Len(f.inputs)
           forms == {T.form : T \in U}
<1>1. f.inputs \in Seq([pat : STRING, type : U])
  BY DEF Signature
<1>2. /\ n \in Nat /\ DOMAIN f.inputs = 1..n
      /\ \A i \in 1..n : f.inputs[i] \in [pat : STRING, type : U]
  BY <1>1, LenProperties, ElementOfSeq
<1>3. \A i \in 1..n : f.inputs[i].type \in U
  BY <1>2
<1>4. /\ Form(f).inputs = [i \in 1..n |-> f.inputs[i].type.form]
      /\ Form(f).inputs \in [1..n -> forms]
  BY <1>2, <1>3 DEF Form
<1>5. Form(f).inputs \in Seq(forms) /\ Len(Form(f).inputs) = n
  BY <1>2, <1>4
<1>6. f.output # <<>> => f.output[1] \in U /\ f.output = <<f.output[1]>>
  BY DEF Signature
<1> HIDE DEF n, forms
<1> QED
  BY <1>2, <1>3, <1>4, <1>5, <1>6 DEF n

\* The documented signatures, by the forms of the types.
SignedChannel(f) ==
    LET n == Len(f.inputs) IN
    n \in {2, 3} /\ f.inputs[n - 1].type.form = "Receiver" /\ f.inputs[n].type.form = "Sender"

SignedCallback(f) ==
    Len(f.inputs) = 2 /\ ~SignedChannel(f) /\ f.inputs[2].type.form = "Fn"

SignedStream(f) == Len(f.inputs) = 1 /\ f.output # <<>> /\ f.output[1].form = "Stream"

SignedFuture(f) ==
    Len(f.inputs) = 1 /\ f.output # <<>> /\ f.output[1].form \notin {"Stream", "Fn", "impl"}

\* A signature has at most one documented flavour.
LEMMA FlavourIs ==
    ASSUME NEW U, NEW f, Signature(f, U)
    PROVE  /\ SignedChannel(f) => DocumentedFlavours(f) = {"channel"}
           /\ SignedCallback(f) => DocumentedFlavours(f) = {"callback"}
           /\ SignedStream(f) => DocumentedFlavours(f) = {"stream"}
           /\ SignedFuture(f) => DocumentedFlavours(f) = {"future"}
           /\ DocumentedFlavours(f) # {} =>
                 SignedChannel(f) \/ SignedCallback(f) \/ SignedStream(f) \/ SignedFuture(f)
<1> DEFINE n == Len(f.inputs)
           in == Form(f).inputs
           out == Form(f).output
           D == DocumentedFlavours(f)
<1>1. /\ n \in Nat /\ Len(in) = n
      /\ \A i \in 1..n : in[i] = f.inputs[i].type.form
      /\ f.output # <<>> => f.output = <<f.output[1]>>
  BY Shape
<1>2. /\ f.output = <<>> => out = <<>>
      /\ f.output # <<>> => out = <<f.output[1].form>>
  BY <1>1 DEF Form
<1>3. /\ out = <<"Stream">> <=> f.output # <<>> /\ f.output[1].form = "Stream"
      /\ f.output # <<>> => out[1] = f.output[1].form
  <2>1. CASE f.output = <<>>
    BY <1>2, <2>1
  <2>2. CASE f.output # <<>>
    <3>1. out = <<f.output[1].form>>
      BY <1>2, <2>2
    <3> HIDE DEF out
    <3> QED
      BY <2>2, <3>1
  <2> QED
    BY <2>1, <2>2
<1>4. /\ n \in {2, 3} => in[n - 1] = f.inputs[n - 1].type.form /\ in[n] = f.inputs[n].type.form
      /\ n = 2 => in[2] = f.inputs[2].type.form
  <2> HIDE DEF n, in
  <2>1. /\ n \in {2, 3} => n - 1 \in 1..n /\ n \in 1..n
        /\ n = 2 => 2 \in 1..n
    OBVIOUS
  <2> QED
    BY <1>1, <2>1
<1> HIDE DEF n, in, out
<1>5. /\ "channel" \in D <=> n \in {2, 3} /\ in[n - 1] = "Receiver" /\ in[n] = "Sender"
      /\ "callback" \in D <=>
            /\ n = 2
            /\ ~(n \in {2, 3} /\ in[n - 1] = "Receiver" /\ in[n] = "Sender")
            /\ in[2] = "Fn"
      /\ "stream" \in D <=> n = 1 /\ out = <<"Stream">>
      /\ "future" \in D <=> n = 1 /\ f.output # <<>> /\ out[1] \notin {"Stream", "Fn", "impl"}
      /\ D \subseteq {"callback", "channel", "future", "stream"}
  <2> DEFINE channel == n \in {2, 3} /\ in[n - 1] = "Receiver" /\ in[n] = "Sender"
             is(w) == CASE w = "channel"  -> channel
                        [] w = "callback" -> n = 2 /\ ~channel /\ in[2] = "Fn"
                        [] w = "stream"   -> n = 1 /\ out = <<"Stream">>
                        [] w = "future"   -> n = 1 /\ f.output # <<>>
                                             /\ out[1] \notin {"Stream", "Fn", "impl"}
  <2>1. D = {w \in {"callback", "channel", "future", "stream"} : is(w)}
    <3>1. Len(Form(f).inputs) = n
      BY <1>1 DEF in
    <3> QED
      BY <3>1 DEF DocumentedFlavours, in, out
  <2>2. /\ is("channel") <=> channel
        /\ is("callback") <=> n = 2 /\ ~channel /\ in[2] = "Fn"
        /\ is("stream") <=> n = 1 /\ out = <<"Stream">>
        /\ is("future") <=> n = 1 /\ f.output # <<>> /\ out[1] \notin {"Stream", "Fn", "impl"}
    OBVIOUS
  <2> HIDE DEF is, D
  <2> QED
    BY <2>1, <2>2
<1>6. /\ "channel" \in D <=> SignedChannel(f)
      /\ "callback" \in D <=> SignedCallback(f)
      /\ "stream" \in D <=> SignedStream(f)
      /\ "future" \in D <=> SignedFuture(f)
  BY <1>3, <1>4, <1>5 DEF SignedChannel, SignedCallback, SignedStream, SignedFuture, n
<1>7. /\ SignedChannel(f) => n # 1 /\ ~SignedCallback(f)
      /\ SignedCallback(f) => n # 1
      /\ SignedStream(f) => n = 1 /\ ~SignedFuture(f)
      /\ SignedFuture(f) => n = 1
  <2>1. SignedChannel(f) => n \in {2, 3}
    BY DEF SignedChannel, n
  <2>2. SignedCallback(f) => n = 2 /\ ~SignedChannel(f)
    BY DEF SignedCallback, n
  <2>3. SignedStream(f) => n = 1 /\ f.output[1].form = "Stream"
    BY DEF SignedStream, n
  <2>4. SignedFuture(f) => n = 1 /\ f.output[1].form \notin {"Stream", "Fn", "impl"}
    BY DEF SignedFuture, n
  <2> QED
    BY <2>1, <2>2, <2>3, <2>4
<1> HIDE DEF D
<1>8. /\ D \subseteq {"callback", "channel", "future", "stream"}
  BY <1>5
<1> QED
  BY <1>6, <1>7, <1>8 DEF D

\* What is promised to each of the documented signatures.
LEMMA PromisedIs ==
    ASSUME NEW f
    PROVE  LET in == f.inputs
               n  == Len(in)
               D  == DocumentedFlavours(f)
           IN /\ D = {"channel"} =>
                    Promised(f) = Expanded("channel", IF n = 3 THEN in[1].type ELSE Unit,
                                           Plain(in[n - 1].type.of), Plain(in[n].type.of))
              /\ D = {"callback"} =>
                    Promised(f) = Expanded("callback", Unit, in[1].type, Plain(in[2].type.of))
              /\ D = {"stream"} =>
                    Promised(f) = Expanded("stream", Unit, in[1].type, Plain(f.output[1].of))
              /\ D = {"future"} =>
                    Promised(f) = Expanded("future", Unit, in[1].type, f.output[1])
<1> DEFINE D == DocumentedFlavours(f)
           w == CHOOSE v \in D : TRUE
<1>1. \A v : D = {v} => w = v
  OBVIOUS
<1>2. Promised(f) =
         LET in == f.inputs
             n  == Len(in)
         IN CASE w = "channel" ->
                     Expanded(w, IF n = 3 THEN in[1].type ELSE Unit,
                              Plain(in[n - 1].type.of), Plain(in[n].type.of))
              [] w = "callback" -> Expanded(w, Unit, in[1].type, Plain(in[2].type.of))
              [] w = "stream"   -> Expanded(w, Unit, in[1].type, Plain(f.output[1].of))
              [] w = "future"   -> Expanded(w, Unit, in[1].type, f.output[1])
  BY DEF Promised
<1> HIDE DEF D, w
<1> QED
  BY <1>1, <1>2 DEF D

\* The signature of a function that compiles, and what is made of it.
LEMMA Outcome ==
    ASSUME NEW U, NEW f, Signature(f, U), \A T \in U : ReadAsWritten(T),
           Analyze(f).result = "expanded"
    PROVE  /\ f.qualifiers = {} /\ \A i \in DOMAIN f.inputs : f.inputs[i].pat # "self"
           /\ DocumentedFlavours(f) # {} /\ Analyze(f) = Promised(f)
<1> DEFINE in == f.inputs
           n == Len(in)
<1>1. n \in Nat /\ DOMAIN in = 1..n /\ \A i \in 1..n : ReadAsWritten(in[i].type)
  BY Shape
<1>2. f.output # <<>> => ReadAsWritten(f.output[1])
  BY Shape
<1>3. Aborted.result # "expanded" /\ Panicked.result # "expanded"
  BY DEF Aborted, Panicked
<1>4. f.qualifiers = {} /\ \A i \in DOMAIN in : in[i].pat # "self"
  BY <1>3 DEF Analyze
<1>5. Analyze(f) =
         CASE n = 3 -> ThreeInputs(in[1].type, in[2].type, in[3].type)
           [] n = 2 -> TwoInputs(in[1].type, in[2].type)
           [] n = 1 -> OneInput(in[1].type, f.output)
           [] OTHER -> Aborted
  BY <1>4 DEF Analyze
<1> HIDE DEF n
<1>6. CASE n = 3
  <2>1. /\ IsChannel(in[2].type, in[3].type)
        /\ Analyze(f) = Channel(in[1].type, in[2].type, in[3].type)
    BY <1>3, <1>5, <1>6 DEF ThreeInputs
  <2>2. ReadAsWritten(in[2].type) /\ ReadAsWritten(in[3].type)
    BY <1>1, <1>6
  <2>3. /\ in[2].type.form = "Receiver" /\ in[3].type.form = "Sender"
        /\ Analyze(f) = Expanded("channel", in[1].type, Plain(in[2].type.of), Plain(in[3].type.of))
    BY <2>1, <2>2, ChannelReads
  <2>4. SignedChannel(f)
    BY <1>6, <2>3 DEF SignedChannel, n
  <2>5. DocumentedFlavours(f) = {"channel"}
    BY <2>4, FlavourIs
  <2> QED
    BY <1>4, <1>6, <2>3, <2>5, PromisedIs DEF n
<1>7. CASE n = 2
  <2>1. Analyze(f) = TwoInputs(in[1].type, in[2].type)
    BY <1>5, <1>7
  <2>2. ReadAsWritten(in[1].type) /\ ReadAsWritten(in[2].type)
    BY <1>1, <1>7
  <2>3. CASE IsChannel(in[1].type, in[2].type)
    <3>1. Analyze(f) = Channel(Unit, in[1].type, in[2].type)
      BY <1>3, <2>1, <2>3 DEF TwoInputs
    <3>2. /\ in[1].type.form = "Receiver" /\ in[2].type.form = "Sender"
          /\ Analyze(f) = Expanded("channel", Unit, Plain(in[1].type.of), Plain(in[2].type.of))
      BY <2>2, <2>3, <3>1, ChannelReads
    <3>3. SignedChannel(f)
      BY <1>7, <3>2 DEF SignedChannel, n
    <3>4. DocumentedFlavours(f) = {"channel"}
      BY <3>3, FlavourIs
    <3>5. Promised(f) = Expanded("channel", Unit, Plain(in[1].type.of), Plain(in[2].type.of))
      <4>1. Len(f.inputs) = 2 /\ 2 # 3 /\ 2 - 1 = 1
        BY <1>7 DEF n
      <4>2. Promised(f) = Expanded("channel", IF Len(in) = 3 THEN in[1].type ELSE Unit,
                                   Plain(in[Len(in) - 1].type.of), Plain(in[Len(in)].type.of))
        BY <3>4, PromisedIs
      <4> QED
        BY <4>1, <4>2
    <3> QED
      BY <1>4, <3>2, <3>4, <3>5
  <2>4. CASE ~IsChannel(in[1].type, in[2].type)
    <3>1. /\ Matches(Patterns["Fn"], in[2].type)
          /\ Analyze(f) = Single("callback", in[1].type, Patterns["Fn"], in[2].type)
      BY <1>3, <2>1, <2>4 DEF TwoInputs, Patterns
    <3>2. /\ in[2].type.form = "Fn"
          /\ Analyze(f) = Expanded("callback", Unit, in[1].type, Plain(in[2].type.of))
      BY <2>2, <3>1, SingleReads
    <3>3. SignedCallback(f)
      BY <1>7, <3>2 DEF SignedCallback, SignedChannel, n
    <3>4. DocumentedFlavours(f) = {"callback"}
      BY <3>3, FlavourIs
    <3> QED
      BY <1>4, <3>2, <3>4, PromisedIs
  <2> QED
    BY <2>3, <2>4
<1>8. CASE n = 1
  <2>1. Analyze(f) = OneInput(in[1].type, f.output)
    BY <1>5, <1>8
  <2>2. f.output # <<>>
    BY <1>3, <2>1 DEF OneInput
  <2>3. ReadAsWritten(f.output[1])
    BY <1>2, <2>2
  <2>4. CASE Matches(Patterns["Stream"], f.output[1])
    <3>1. Analyze(f) = Single("stream", in[1].type, Patterns["Stream"], f.output[1])
      BY <2>1, <2>2, <2>4 DEF OneInput, Patterns
    <3>2. /\ f.output[1].form = "Stream"
          /\ Analyze(f) = Expanded("stream", Unit, in[1].type, Plain(f.output[1].of))
      BY <2>3, <2>4, <3>1, SingleReads
    <3>3. SignedStream(f)
      BY <1>8, <2>2, <3>2 DEF SignedStream, n
    <3>4. DocumentedFlavours(f) = {"stream"}
      BY <3>3, FlavourIs
    <3> QED
      BY <1>4, <3>2, <3>4, PromisedIs
  <2>5. CASE ~Matches(Patterns["Stream"], f.output[1])
    <3>1. /\ ~IsImpl(f.output[1])
          /\ Analyze(f) = Expanded("future", Unit, in[1].type, f.output[1])
      BY <1>3, <2>1, <2>2, <2>5 DEF OneInput, Patterns
    <3>2. f.output[1].form \notin {"Stream", "Fn", "impl"}
      BY <2>3, <3>1 DEF ReadAsWritten
    <3>3. SignedFuture(f)
      BY <1>8, <2>2, <3>2 DEF SignedFuture, n
    <3>4. DocumentedFlavours(f) = {"future"}
      BY <3>3, FlavourIs
    <3> QED
      BY <1>4, <3>1, <3>4, PromisedIs
  <2> QED
    BY <2>4, <2>5
<1> QED
  BY <1>3, <1>5, <1>6, <1>7, <1>8

\* A function that compiles has a documented signature, and what it is expanded to is
\* promised to it.
LEMMA ExpandsRight ==
    ASSUME NEW U, NEW f, Signature(f, U), \A T \in U : ReadAsWritten(T), Compiles(f)
    PROVE  Documented(f) /\ Expand(f) = Promised(f)
<1>1. Aborted.result # "expanded" /\ Panicked.result # "expanded"
  BY DEF Aborted, Panicked
<1>2. ~Refused(f) /\ Expand(f) = Lower(f, Analyze(f))
  BY <1>1 DEF Compiles, Expand
<1>3. \A m : Lower(f, m).result = "expanded" => Lower(f, m) = m
  BY <1>1 DEF Lower
<1>4. Analyze(f).result = "expanded" /\ Expand(f) = Analyze(f)
  BY <1>2, <1>3 DEF Compiles
<1> QED
  BY <1>2, <1>4, Outcome DEF Documented, Refused

\* A documented signature, with names for arguments and types that can be read.
LEMMA ExpandsDocumented ==
    ASSUME NEW U, NEW f, Signature(f, U), \A T \in U : ReadAsWritten(T), Documented(f),
           \A i \in DOMAIN f.inputs : f.inputs[i].pat = "ident",
           Holes(f) \subseteq {"name", "generic"}, ~LexedInVain(f),
           Promised(f).response.of \in Type
    PROVE  Compiles(f)
<1> DEFINE in == f.inputs
           n == Len(in)
<1>1. n \in Nat /\ DOMAIN in = 1..n /\ \A i \in 1..n : ReadAsWritten(in[i].type)
  BY Shape
<1>2. f.output # <<>> => ReadAsWritten(f.output[1])
  BY Shape
<1>3. Expand(f) = Lower(f, Analyze(f))
  BY DEF Documented, Refused, Expand
<1>4. Analyze(f) =
         CASE n = 3 -> ThreeInputs(in[1].type, in[2].type, in[3].type)
           [] n = 2 -> TwoInputs(in[1].type, in[2].type)
           [] n = 1 -> OneInput(in[1].type, f.output)
           [] OTHER -> Aborted
  BY DEF Analyze, Documented
<1>5. ASSUME Analyze(f).result = "expanded",
             Analyze(f).flavour \in {"channel", "callback", "stream", "future"},
             PassedOn(f, Analyze(f).flavour) \subseteq 1..n,
             Analyze(f).flavour = "callback" => n = 2
      PROVE  Compiles(f)
  <2>1. \A i \in PassedOn(f, Analyze(f).flavour) : f.inputs[i].pat # "pattern"
    BY <1>1, <1>5
  <2>2. ~(Analyze(f).flavour = "callback" /\ f.inputs[2].pat = "mut")
    BY <1>1, <1>5
  <2>3. Lower(f, Analyze(f)) = Analyze(f)
    BY <1>5, <2>1, <2>2 DEF Lower
  <2> QED
    BY <1>3, <1>5, <2>3 DEF Compiles
<1> HIDE DEF n
<1>6. CASE SignedChannel(f)
  <2>1. n \in {2, 3} /\ n - 1 \in 1..n /\ n \in 1..n
    <3>1. n \in {2, 3}
      BY <1>6 DEF SignedChannel, n
    <3> QED
      BY <3>1
  <2> DEFINE rx == in[n - 1].type
             tx == in[n].type
  <2>2. rx.form = "Receiver" /\ tx.form = "Sender" /\ ReadAsWritten(rx) /\ ReadAsWritten(tx)
    BY <1>1, <1>6, <2>1 DEF SignedChannel, n
  <2>3. DocumentedFlavours(f) = {"channel"}
    BY <1>6, FlavourIs
  <2>4. Promised(f).flavour = "channel"
    BY <2>3, PromisedIs DEF Expanded
  <2>5. Readable("Receiver", rx.of) /\ Readable("Sender", tx.of)
    BY <2>4 DEF Holes, Readable, n
  <2> HIDE DEF rx, tx
  <2>10. ~HandlePanics(rx, tx)
    BY <2>2, <2>5, HandlesLexed DEF Readable
  <2>6. /\ IsChannel(rx, tx)
        /\ \A init : Channel(init, rx, tx).result = "expanded"
    BY <2>2, <2>5, ChannelReads, FourForms DEF ReadAsWritten
  <2>7. \E init : Analyze(f) = Channel(init, rx, tx)
    <3>1. CASE n = 3
      <4>1. Analyze(f) = ThreeInputs(in[1].type, rx, tx)
        BY <1>4, <3>1 DEF rx, tx
      <4> QED
        BY <2>6, <2>10, <4>1 DEF ThreeInputs
    <3>2. CASE n = 2
      <4>1. Analyze(f) = TwoInputs(rx, tx)
        BY <1>4, <3>2 DEF rx, tx
      <4> QED
        BY <2>6, <2>10, <4>1 DEF TwoInputs
    <3> QED
      BY <2>1, <3>1, <3>2
  <2>8. Analyze(f).result = "expanded" /\ Analyze(f).flavour = "channel"
    BY <2>2, <2>6, <2>7, ChannelReads DEF Expanded
  <2>9. PassedOn(f, "channel") \subseteq 1..n
    BY <2>1 DEF PassedOn, InitPassedOn
  <2> QED
    BY <1>5, <2>8, <2>9
<1>7. CASE SignedCallback(f)
  <2> DEFINE T == in[2].type
  <2>1. n = 2 /\ T.form = "Fn"
    BY <1>7 DEF SignedCallback, n
  <2>2. ReadAsWritten(T) /\ ReadAsWritten(in[1].type)
    BY <1>1, <2>1
  <2>3. DocumentedFlavours(f) = {"callback"}
    BY <1>7, FlavourIs
  <2>4. Promised(f).response.of = T.of
    BY <2>3, PromisedIs DEF Expanded, Plain
  <2>5. Readable("Fn", T.of)
    BY <2>4 DEF Readable
  <2> HIDE DEF T
  <2>6. Matches(Patterns["Fn"], T) /\ ~IsChannel(in[1].type, T)
    BY <2>1, <2>2, ChannelReads, FourForms DEF ReadAsWritten
  <2>10. ~HandlePanics(in[1].type, T)
    <3>1. Promised(f).flavour = "callback"
      BY <2>3, PromisedIs DEF Expanded
    <3>2. in[1].type.form = "Receiver" => in[1].type.of # "tuple"
      BY <3>1 DEF LexedInVain
    <3> QED
      BY <2>1, <2>2, <3>2, HandlesLexed
  <2>7. Analyze(f) = Single("callback", in[1].type, Patterns["Fn"], T)
    <3>1. Analyze(f) = TwoInputs(in[1].type, T)
      BY <1>4, <2>1 DEF T
    <3> QED
      BY <2>6, <2>10, <3>1 DEF TwoInputs, Patterns
  <2>8. Analyze(f).result = "expanded" /\ Analyze(f).flavour = "callback"
    <3>1. Single("callback", in[1].type, Patterns["Fn"], T).result = "expanded"
      BY <2>1, <2>2, <2>5, <2>6, SingleReads
    <3>2. Analyze(f) = Expanded("callback", Unit, in[1].type, Plain(T.of))
      BY <2>1, <2>2, <2>5, <2>6, <2>7, <3>1, SingleReads
    <3> QED
      BY <3>2 DEF Expanded
  <2>9. PassedOn(f, "callback") \subseteq 1..n
    BY <2>1 DEF PassedOn
  <2> QED
    BY <1>5, <2>1, <2>8, <2>9
<1>8. CASE SignedStream(f)
  <2> DEFINE T == f.output[1]
  <2>1. n = 1 /\ f.output # <<>> /\ T.form = "Stream" /\ ReadAsWritten(T)
    BY <1>2, <1>8 DEF SignedStream, n
  <2>2. DocumentedFlavours(f) = {"stream"}
    BY <1>8, FlavourIs
  <2>3. Promised(f).flavour = "stream"
    BY <2>2, PromisedIs DEF Expanded
  <2>4. Readable("Stream", T.of)
    BY <2>3 DEF Holes, Readable
  <2> HIDE DEF T
  <2>5. Matches(Patterns["Stream"], T)
    BY <2>1, FourForms DEF ReadAsWritten
  <2>6. Analyze(f) = Single("stream", in[1].type, Patterns["Stream"], T)
    <3>1. Analyze(f) = OneInput(in[1].type, f.output)
      BY <1>4, <2>1
    <3> QED
      BY <2>1, <2>5, <3>1 DEF OneInput, Patterns, T
  <2>7. Analyze(f).result = "expanded" /\ Analyze(f).flavour = "stream"
    <3>1. Single("stream", in[1].type, Patterns["Stream"], T).result = "expanded"
      BY <2>1, <2>4, <2>5, SingleReads
    <3>2. Analyze(f) = Expanded("stream", Unit, in[1].type, Plain(T.of))
      BY <2>1, <2>4, <2>5, <2>6, <3>1, SingleReads
    <3> QED
      BY <3>2 DEF Expanded
  <2>8. PassedOn(f, "stream") \subseteq 1..n
    BY <2>1 DEF PassedOn
  <2> QED
    BY <1>5, <2>7, <2>8
<1>9. CASE SignedFuture(f)
  <2> DEFINE T == f.output[1]
  <2>1. /\ n = 1 /\ f.output # <<>> /\ T.form \notin {"Stream", "Fn", "impl"}
        /\ ReadAsWritten(T)
    BY <1>2, <1>9 DEF SignedFuture, n
  <2> HIDE DEF T
  <2>2. ~IsImpl(T) /\ ~Matches(Patterns["Stream"], T)
    BY <2>1, FourForms DEF ReadAsWritten
  <2>3. Analyze(f) = Expanded("future", Unit, in[1].type, T)
    <3>1. Analyze(f) = OneInput(in[1].type, f.output)
      BY <1>4, <2>1
    <3> QED
      BY <2>1, <2>2, <3>1 DEF OneInput, Patterns, T
  <2>4. PassedOn(f, "future") \subseteq 1..n
    BY <2>1 DEF PassedOn
  <2> QED
    BY <1>5, <2>3, <2>4 DEF Expanded
<1> QED
  BY <1>6, <1>7, <1>8, <1>9, FlavourIs DEF Documented

\* The function does not change.
LEMMA SourceFixed == ProgramSpec => [](source \in Sources)
<1>1. ProgramInit => source \in Sources
  BY DEF ProgramInit
<1>2. source \in Sources /\ [ProgramNext]_programVars => (source \in Sources)'
  BY DEF ProgramNext, programVars
<1> QED
  BY <1>1, <1>2, PTL DEF ProgramSpec

-----------------------------------------------------------------------------
(***************************************************************************)
(* Which types are read as they are written.                               *)
(***************************************************************************)

\* Two sequences, one behind the other.
LEMMA ConcatAt ==
    ASSUME NEW S, NEW s \in Seq(S), NEW t \in Seq(S)
    PROVE  /\ s \o t \in Seq(S) /\ Len(s \o t) = Len(s) + Len(t)
           /\ \A k \in 1..Len(s) : (s \o t)[k] = s[k]
           /\ \A k \in 1..Len(t) : (s \o t)[Len(s) + k] = t[k]
<1>1. /\ s \o t \in Seq(S) /\ Len(s \o t) = Len(s) + Len(t)
      /\ \A k \in 1..(Len(s) + Len(t)) :
            (s \o t)[k] = IF k <= Len(s) THEN s[k] ELSE t[k - Len(s)]
  BY ConcatProperties
<1>2. Len(s) \in Nat /\ Len(t) \in Nat
  BY LenProperties
<1>3. ASSUME NEW k \in 1..Len(t)
      PROVE  /\ Len(s) + k \in 1..(Len(s) + Len(t)) /\ ~(Len(s) + k <= Len(s))
             /\ (Len(s) + k) - Len(s) = k
  BY <1>2
<1> QED
  BY <1>1, <1>2, <1>3

\* The words of the patterns and of what fills their holes.
Word == {"leptos_workers", "flume", "futures", "stream", "Receiver", "Sender", "Stream",
         "Item", "impl", "Fn", ":", "<", ">", "=", "(", ")", "A", "B", "V", "m", ",", "A , B",
         "V < A >", "m :: A", "(A , B)"}

\* A pattern matches what it is filled with, and its hole is the filling.
LEMMA HoleFilled ==
    ASSUME NEW p, NEW T, NEW h, h \in Seq(Word), p.before \in Seq(Word), p.after \in Seq(Word),
           Filled(p, T, h)
    PROVE  /\ MatchesHole(p, T) /\ Hole(p, T) = h
           /\ \A k \in DOMAIN p.before : k \in DOMAIN T.tokens /\ T.tokens[k] = p.before[k]
<1> PICK b \in Seq(Word), a \in Seq(Word) : b = p.before /\ a = p.after
  OBVIOUS
<1> DEFINE s == b \o h \o a
           x == Len(b)
           y == Len(h)
           z == Len(a)
<1>1. /\ x \in Nat /\ y \in Nat /\ z \in Nat
      /\ DOMAIN b = 1..x /\ DOMAIN h = 1..y /\ DOMAIN a = 1..z
  BY LenProperties
<1>2. /\ s \in Seq(Word) /\ Len(s) = x + y + z /\ DOMAIN s = 1..(x + y + z)
      /\ \A k \in 1..x : s[k] = b[k]
      /\ \A k \in 1..y : s[x + k] = h[k]
      /\ \A k \in 1..z : s[x + y + k] = a[k]
  <2>1. PICK t \in Seq(Word) : t = b \o h
    BY ConcatProperties
  <2>2. /\ Len(t) = x + y
        /\ \A k \in 1..x : t[k] = b[k]
        /\ \A k \in 1..y : t[x + k] = h[k]
    BY <2>1, ConcatAt
  <2>3. /\ t \o a \in Seq(Word) /\ Len(t \o a) = Len(t) + z
        /\ \A k \in 1..Len(t) : (t \o a)[k] = t[k]
        /\ \A k \in 1..z : (t \o a)[Len(t) + k] = a[k]
    BY ConcatAt
  <2>4. s = t \o a
    BY <2>1
  <2> HIDE DEF s, x, y, z
  <2>5. s \in Seq(Word) /\ Len(s) = x + y + z /\ DOMAIN s = 1..(x + y + z)
    BY <2>2, <2>3, <2>4, LenProperties
  <2>6. ASSUME NEW k \in 1..x PROVE s[k] = b[k]
    <3>1. k \in 1..(x + y)
      BY <1>1
    <3> QED
      BY <2>2, <2>3, <2>4, <3>1
  <2>7. ASSUME NEW k \in 1..y PROVE s[x + k] = h[k]
    <3>1. x + k \in 1..(x + y)
      BY <1>1
    <3> QED
      BY <2>2, <2>3, <2>4, <3>1
  <2>8. \A k \in 1..z : s[x + y + k] = a[k]
    BY <2>2, <2>3, <2>4
  <2> QED
    BY <2>5, <2>6, <2>7, <2>8
<1>3. T.tokens = s /\ p.before = b /\ p.after = a
  BY DEF Filled
<1> HIDE DEF s, x, y, z
<1>4. Agree(T.tokens, p.before)
  BY <1>1, <1>2, <1>3 DEF Agree
<1>5. Agree(Backwards(T.tokens), Backwards(p.after))
  <2>1. /\ Backwards(s) = [k \in 1..(x + y + z) |-> s[(x + y + z) + 1 - k]]
        /\ Backwards(a) = [k \in 1..z |-> a[z + 1 - k]]
    BY <1>1, <1>2 DEF Backwards, z
  <2>2. ASSUME NEW k \in 1..(x + y + z), k \in 1..z
        PROVE  s[(x + y + z) + 1 - k] = a[z + 1 - k]
    <3>1. z + 1 - k \in 1..z /\ (x + y + z) + 1 - k = x + y + (z + 1 - k)
      BY <1>1, <2>2
    <3> QED
      BY <1>2, <3>1
  <2> QED
    BY <1>3, <2>1, <2>2 DEF Agree
<1>6. Hole(p, T) = h
  <2>1. Hole(p, T) = SubSeq(s, x + 1, x + y)
    <3>1. (x + y + z) - z = x + y
      BY <1>1
    <3> QED
      BY <1>2, <1>3, <3>1 DEF Hole, x, z
  <2>2. /\ SubSeq(s, x + 1, x + y) \in Seq(Word)
        /\ Len(SubSeq(s, x + 1, x + y)) = y
        /\ \A k \in 1..y : SubSeq(s, x + 1, x + y)[k] = h[k]
    <3>1. PICK m \in Int, n \in Int : m = x + 1 /\ n = x + y
      BY <1>1
    <3>2. \A k \in m..n : s[k] \in Word
      <4>1. m..n \subseteq 1..Len(s)
        BY <1>1, <1>2, <3>1
      <4> QED
        BY <1>2, <4>1, ElementOfSeq
    <3>3. /\ SubSeq(s, m, n) \in Seq(Word)
          /\ Len(SubSeq(s, m, n)) = IF m <= n THEN n - m + 1 ELSE 0
          /\ \A k \in 1..(n - m + 1) : SubSeq(s, m, n)[k] = s[m + k - 1]
      BY <3>2, SubSeqProperties
    <3>4. n - m + 1 = y /\ (m <= n <=> y # 0) /\ \A k \in 1..y : m + k - 1 = x + k
      BY <1>1, <3>1
    <3>5. Len(SubSeq(s, m, n)) = y
      BY <1>1, <3>3, <3>4
    <3>6. \A k \in 1..y : SubSeq(s, m, n)[k] = h[k]
      <4>1. \A k \in 1..y : SubSeq(s, m, n)[k] = s[x + k]
        BY <3>3, <3>4
      <4> QED
        BY <1>2, <4>1
    <3> QED
      BY <3>1, <3>3, <3>5, <3>6
  <2> QED
    BY <1>1, <2>1, <2>2, SeqEqual DEF y
<1>7. ASSUME NEW k \in DOMAIN b PROVE k \in DOMAIN T.tokens /\ T.tokens[k] = b[k]
  <2>1. k \in 1..x /\ k \in 1..(x + y + z)
    BY <1>1
  <2> QED
    BY <1>2, <1>3, <2>1
<1> QED
  BY <1>4, <1>5, <1>6, <1>7 DEF MatchesHole

\* How the patterns begin.
LEMMA Beginnings ==
    LET b(form, k) == Patterns[form][k].before IN
    /\ \A form \in {"Receiver", "Sender"} :
          /\ DOMAIN Patterns[form] = 1..3
          /\ b(form, 1) = <<"leptos_workers", ":", ":", form, "<">>
          /\ b(form, 2) = <<"flume", ":", ":", form, "<">>
          /\ b(form, 3) = <<form, "<">>
          /\ \A k \in 1..3 : Patterns[form][k].after = <<">">>
    /\ DOMAIN Patterns["Fn"] = {1} /\ b("Fn", 1) = <<"impl", "Fn", "(">>
    /\ Patterns["Fn"][1].after = <<")">>
    /\ DOMAIN Patterns["Stream"] = 1..3
    /\ b("Stream", 1) = <<"impl", "leptos_workers", ":", ":", "Stream", "<", "Item", "=">>
    /\ b("Stream", 2) = <<"impl", "futures", ":", ":", "stream", ":", ":", "Stream", "<",
                          "Item", "=">>
    /\ b("Stream", 3) = <<"impl", "Stream", "<", "Item", "=">>
    /\ \A k \in 1..3 : Patterns["Stream"][k].after = <<">">>
  BY DEF Patterns, HandlePatterns, FnPatterns, StreamPatterns, Pattern

\* Two patterns differ where both have a token: in the first, the second or the fourth.
Marks(p, q) ==
    \E i \in {1, 2, 4} : i \in DOMAIN p.before /\ i \in DOMAIN q.before /\ p.before[i] # q.before[i]

\* No type begins like two patterns.
LEMMA PatternsApart ==
    ASSUME NEW form \in Holed, NEW k \in DOMAIN Patterns[form],
           NEW g \in Holed, NEW l \in DOMAIN Patterns[g], form # g \/ k # l
    PROVE  Marks(Patterns[form][k], Patterns[g][l])
<1> DEFINE p == Patterns[form][k]
           q == Patterns[g][l]
           b(f, j) == Patterns[f][j].before
<1>1. \A f \in {"Receiver", "Sender"} :
         /\ DOMAIN Patterns[f] = 1..3
         /\ 1 \in DOMAIN b(f, 1) /\ 4 \in DOMAIN b(f, 1)
         /\ b(f, 1)[1] = "leptos_workers" /\ b(f, 1)[4] = f
         /\ 1 \in DOMAIN b(f, 2) /\ 4 \in DOMAIN b(f, 2)
         /\ b(f, 2)[1] = "flume" /\ b(f, 2)[4] = f
         /\ 1 \in DOMAIN b(f, 3) /\ b(f, 3)[1] = f
  <2> SUFFICES ASSUME NEW f \in {"Receiver", "Sender"}
               PROVE  /\ DOMAIN Patterns[f] = 1..3
                      /\ 1 \in DOMAIN b(f, 1) /\ 4 \in DOMAIN b(f, 1)
                      /\ b(f, 1)[1] = "leptos_workers" /\ b(f, 1)[4] = f
                      /\ 1 \in DOMAIN b(f, 2) /\ 4 \in DOMAIN b(f, 2)
                      /\ b(f, 2)[1] = "flume" /\ b(f, 2)[4] = f
                      /\ 1 \in DOMAIN b(f, 3) /\ b(f, 3)[1] = f
    OBVIOUS
  <2>1. /\ DOMAIN Patterns[f] = 1..3
        /\ b(f, 1) = <<"leptos_workers", ":", ":", f, "<">>
        /\ b(f, 2) = <<"flume", ":", ":", f, "<">>
        /\ b(f, 3) = <<f, "<">>
    BY Beginnings
  <2> QED
    BY <2>1
<1>2. /\ DOMAIN Patterns["Fn"] = {1} /\ 1 \in DOMAIN b("Fn", 1) /\ 2 \in DOMAIN b("Fn", 1)
      /\ b("Fn", 1)[1] = "impl" /\ b("Fn", 1)[2] = "Fn"
  <2>1. DOMAIN Patterns["Fn"] = {1} /\ b("Fn", 1) = <<"impl", "Fn", "(">>
    BY Beginnings
  <2> QED
    BY <2>1
<1>3. /\ DOMAIN Patterns["Stream"] = 1..3
      /\ \A j \in 1..3 : /\ 1 \in DOMAIN b("Stream", j) /\ 2 \in DOMAIN b("Stream", j)
                         /\ b("Stream", j)[1] = "impl"
      /\ b("Stream", 1)[2] = "leptos_workers" /\ b("Stream", 2)[2] = "futures"
      /\ b("Stream", 3)[2] = "Stream"
  <2>1. /\ DOMAIN Patterns["Stream"] = 1..3
        /\ b("Stream", 1) = <<"impl", "leptos_workers", ":", ":", "Stream", "<", "Item", "=">>
        /\ b("Stream", 2) = <<"impl", "futures", ":", ":", "stream", ":", ":", "Stream", "<",
                              "Item", "=">>
        /\ b("Stream", 3) = <<"impl", "Stream", "<", "Item", "=">>
    BY Beginnings
  <2> QED
    BY <2>1
<1>4. 1..3 = {1, 2, 3}
  OBVIOUS
<1> HIDE DEF b
<1>5. p.before = b(form, k) /\ q.before = b(g, l)
  BY DEF b
<1>6. Marks(p, q) <=>
         \/ 1 \in DOMAIN b(form, k) /\ 1 \in DOMAIN b(g, l) /\ b(form, k)[1] # b(g, l)[1]
         \/ 2 \in DOMAIN b(form, k) /\ 2 \in DOMAIN b(g, l) /\ b(form, k)[2] # b(g, l)[2]
         \/ 4 \in DOMAIN b(form, k) /\ 4 \in DOMAIN b(g, l) /\ b(form, k)[4] # b(g, l)[4]
  BY <1>5 DEF Marks
<1> HIDE DEF p, q
<1>7. /\ form \in {"Receiver", "Sender", "Fn", "Stream"}
      /\ g \in {"Receiver", "Sender", "Fn", "Stream"}
  BY FourForms
<1>8. CASE form \in {"Receiver", "Sender"} /\ g \in {"Receiver", "Sender"}
  <2>1. k \in {1, 2, 3} /\ l \in {1, 2, 3}
    BY <1>1, <1>4, <1>8
  <2> QED
    BY <1>1, <1>6, <1>8, <2>1 DEF p, q
<1>9. CASE form \in {"Receiver", "Sender"} /\ g \in {"Fn", "Stream"}
  <2>1. k \in {1, 2, 3} /\ l \in {1, 2, 3}
    BY <1>1, <1>2, <1>3, <1>4, <1>9
  <2> QED
    BY <1>1, <1>2, <1>3, <1>4, <1>6, <1>9, <2>1 DEF p, q
<1>10. CASE form \in {"Fn", "Stream"} /\ g \in {"Receiver", "Sender"}
  <2>1. k \in {1, 2, 3} /\ l \in {1, 2, 3}
    BY <1>1, <1>2, <1>3, <1>4, <1>10
  <2> QED
    BY <1>1, <1>2, <1>3, <1>4, <1>6, <1>10, <2>1 DEF p, q
<1>11. CASE form \in {"Fn", "Stream"} /\ g \in {"Fn", "Stream"}
  <2>1. k \in {1, 2, 3} /\ l \in {1, 2, 3}
    BY <1>2, <1>3, <1>4, <1>11
  <2> QED
    BY <1>2, <1>3, <1>4, <1>6, <1>11, <2>1 DEF p, q
<1> QED
  BY <1>7, <1>8, <1>9, <1>10, <1>11

\* Of what words the patterns are.
LEMMA PatternsTyped ==
    ASSUME NEW form \in Holed, NEW k \in DOMAIN Patterns[form]
    PROVE  /\ Patterns[form][k].before \in Seq(Word) \ {<<>>}
           /\ Patterns[form][k].after \in Seq(Word)
           /\ Patterns[form][k].before[1] = "impl" <=> form \in {"Fn", "Stream"}
<1> DEFINE b(f, j) == Patterns[f][j].before
           typed(s) == s \in Seq(Word) \ {<<>>}
<1>1. ASSUME NEW f \in {"Receiver", "Sender"}, NEW j \in 1..3
      PROVE  typed(b(f, j)) /\ b(f, j)[1] # "impl" /\ Patterns[f][j].after \in Seq(Word)
  <2>1. /\ Patterns[f][j].after = <<">">>
        /\ b(f, 1) = <<"leptos_workers", ":", ":", f, "<">>
        /\ b(f, 2) = <<"flume", ":", ":", f, "<">>
        /\ b(f, 3) = <<f, "<">>
    BY Beginnings
  <2>2. <<">">> \in Seq(Word)
    BY DEF Word
  <2>3. CASE f = "Receiver"
    <3>1. typed(b(f, 1)) /\ b(f, 1)[1] # "impl"
      BY <2>1, <2>3 DEF Word
    <3>2. typed(b(f, 2)) /\ b(f, 2)[1] # "impl"
      BY <2>1, <2>3 DEF Word
    <3>3. typed(b(f, 3)) /\ b(f, 3)[1] # "impl"
      BY <2>1, <2>3 DEF Word
    <3> HIDE DEF typed, b
    <3>4. j = 1 \/ j = 2 \/ j = 3
      OBVIOUS
    <3> QED
      BY <2>1, <2>2, <3>1, <3>2, <3>3, <3>4
  <2>4. CASE f = "Sender"
    <3>1. typed(b(f, 1)) /\ b(f, 1)[1] # "impl"
      BY <2>1, <2>4 DEF Word
    <3>2. typed(b(f, 2)) /\ b(f, 2)[1] # "impl"
      BY <2>1, <2>4 DEF Word
    <3>3. typed(b(f, 3)) /\ b(f, 3)[1] # "impl"
      BY <2>1, <2>4 DEF Word
    <3> HIDE DEF typed, b
    <3>4. j = 1 \/ j = 2 \/ j = 3
      OBVIOUS
    <3> QED
      BY <2>1, <2>2, <3>1, <3>2, <3>3, <3>4
  <2> QED
    BY <2>3, <2>4
<1>2. typed(b("Fn", 1)) /\ b("Fn", 1)[1] = "impl" /\ Patterns["Fn"][1].after \in Seq(Word)
  <2>1. b("Fn", 1) = <<"impl", "Fn", "(">> /\ Patterns["Fn"][1].after = <<")">>
    BY Beginnings
  <2> QED
    BY <2>1 DEF Word
<1>3. ASSUME NEW j \in 1..3
      PROVE  /\ typed(b("Stream", j)) /\ b("Stream", j)[1] = "impl"
             /\ Patterns["Stream"][j].after \in Seq(Word)
  <2>1. /\ b("Stream", 1) = <<"impl", "leptos_workers", ":", ":", "Stream", "<", "Item", "=">>
        /\ b("Stream", 2) = <<"impl", "futures", ":", ":", "stream", ":", ":", "Stream", "<",
                              "Item", "=">>
        /\ b("Stream", 3) = <<"impl", "Stream", "<", "Item", "=">>
        /\ Patterns["Stream"][j].after = <<">">>
    BY Beginnings
  <2>2. typed(b("Stream", 1)) /\ b("Stream", 1)[1] = "impl"
    BY <2>1 DEF Word
  <2>3. typed(b("Stream", 2)) /\ b("Stream", 2)[1] = "impl"
    BY <2>1 DEF Word
  <2>4. typed(b("Stream", 3)) /\ b("Stream", 3)[1] = "impl"
    BY <2>1 DEF Word
  <2>5. <<">">> \in Seq(Word)
    BY DEF Word
  <2> HIDE DEF typed, b
  <2>6. j = 1 \/ j = 2 \/ j = 3
    OBVIOUS
  <2> QED
    BY <2>1, <2>2, <2>3, <2>4, <2>5, <2>6
<1>4. /\ form \in {"Receiver", "Sender", "Fn", "Stream"}
      /\ form = "Fn" => k = 1
      /\ form # "Fn" => k \in 1..3
  BY FourForms, Beginnings
<1> HIDE DEF b
<1>5. Patterns[form][k].before = b(form, k)
  BY DEF b
<1> QED
  BY <1>1, <1>2, <1>3, <1>4, <1>5

\* What may stand in a hole.
LEMMA Contents ==
    /\ Content = {"name", "generic", "path", "tuple", "pair"}
    /\ Type = {"name", "generic", "path", "tuple"}
    /\ Tokens["name"] = <<"A">> /\ Tokens["generic"] = <<"V", "<", "A", ">">>
    /\ Tokens["path"] = <<"m", ":", ":", "A">> /\ Tokens["tuple"] = <<"(", "A , B", ")">>
    /\ Tokens["pair"] = <<"A", ",", "B">>
    /\ Text["name"] = "A" /\ Text["generic"] = "V < A >" /\ Text["path"] = "m :: A"
    /\ Text["tuple"] = "(A , B)" /\ Text["pair"] = "A , B"
  BY DEF Content, Type, Tokens, Text

\* Of what words it is.
LEMMA ContentsTyped ==
    ASSUME NEW c \in Content
    PROVE  /\ Tokens[c] \in Seq(Word) /\ Len(Tokens[c]) \in 1..4
           /\ Text[c] \in Word
<1>1. c \in {"name", "generic", "path", "tuple", "pair"}
  BY Contents
<1>2. \A t : \/ t = <<"A">> \/ t = <<"V", "<", "A", ">">> \/ t = <<"m", ":", ":", "A">>
             \/ t = <<"(", "A , B", ")">> \/ t = <<"A", ",", "B">>
             => t \in Seq(Word) /\ Len(t) \in 1..4
  <2>1. <<"A">> \in Seq(Word) /\ Len(<<"A">>) \in 1..4
    BY DEF Word
  <2>2. <<"V", "<", "A", ">">> \in Seq(Word) /\ Len(<<"V", "<", "A", ">">>) \in 1..4
    BY DEF Word
  <2>3. <<"m", ":", ":", "A">> \in Seq(Word) /\ Len(<<"m", ":", ":", "A">>) \in 1..4
    BY DEF Word
  <2>4. <<"(", "A , B", ")">> \in Seq(Word) /\ Len(<<"(", "A , B", ")">>) \in 1..4
    BY DEF Word
  <2>5. <<"A", ",", "B">> \in Seq(Word) /\ Len(<<"A", ",", "B">>) \in 1..4
    BY DEF Word
  <2> QED
    BY ONLY <2>1, <2>2, <2>3, <2>4, <2>5
<1>3. Tokens[c] \in Seq(Word) /\ Len(Tokens[c]) \in 1..4
  <2>1. \/ Tokens[c] = <<"A">> \/ Tokens[c] = <<"V", "<", "A", ">">>
        \/ Tokens[c] = <<"m", ":", ":", "A">> \/ Tokens[c] = <<"(", "A , B", ")">>
        \/ Tokens[c] = <<"A", ",", "B">>
    BY <1>1, Contents, Zenon
  <2> QED
    BY <1>2, <2>1, Zenon
<1>4. Text[c] \in Word
  <2>1. Text[c] \in {"A", "V < A >", "m :: A", "(A , B)", "A , B"}
    BY <1>1, Contents, Zenon
  <2> QED
    BY <2>1 DEF Word
<1> QED
  BY <1>3, <1>4

\* No content is the same in tokens as another.
LEMMA TokensDiffer ==
    ASSUME NEW c \in Content, NEW d \in Content, Tokens[c] = Tokens[d]
    PROVE  c = d
<1> DEFINE differ(s, t) == Len(s) # Len(t) \/ s[1] # t[1]
<1>1. \A s, t : differ(s, t) => s # t
  OBVIOUS
<1>2. /\ differ(<<"A">>, <<"V", "<", "A", ">">>) /\ differ(<<"A">>, <<"m", ":", ":", "A">>)
      /\ differ(<<"A">>, <<"(", "A , B", ")">>) /\ differ(<<"A">>, <<"A", ",", "B">>)
  OBVIOUS
<1>3. /\ differ(<<"V", "<", "A", ">">>, <<"m", ":", ":", "A">>)
      /\ differ(<<"V", "<", "A", ">">>, <<"(", "A , B", ")">>)
      /\ differ(<<"V", "<", "A", ">">>, <<"A", ",", "B">>)
  OBVIOUS
<1>4. /\ differ(<<"m", ":", ":", "A">>, <<"(", "A , B", ")">>)
      /\ differ(<<"m", ":", ":", "A">>, <<"A", ",", "B">>)
      /\ differ(<<"(", "A , B", ")">>, <<"A", ",", "B">>)
  OBVIOUS
<1> HIDE DEF differ
<1>5. /\ differ(Tokens["name"], Tokens["generic"]) /\ differ(Tokens["name"], Tokens["path"])
      /\ differ(Tokens["name"], Tokens["tuple"]) /\ differ(Tokens["name"], Tokens["pair"])
      /\ differ(Tokens["generic"], Tokens["path"]) /\ differ(Tokens["generic"], Tokens["tuple"])
      /\ differ(Tokens["generic"], Tokens["pair"]) /\ differ(Tokens["path"], Tokens["tuple"])
      /\ differ(Tokens["path"], Tokens["pair"]) /\ differ(Tokens["tuple"], Tokens["pair"])
  BY <1>2, <1>3, <1>4, Contents, Zenon
<1>6. /\ c \in {"name", "generic", "path", "tuple", "pair"}
      /\ d \in {"name", "generic", "path", "tuple", "pair"}
  BY Contents
<1>7. /\ Tokens["name"] # Tokens["generic"] /\ Tokens["name"] # Tokens["path"]
      /\ Tokens["name"] # Tokens["tuple"] /\ Tokens["name"] # Tokens["pair"]
      /\ Tokens["generic"] # Tokens["path"] /\ Tokens["generic"] # Tokens["tuple"]
      /\ Tokens["generic"] # Tokens["pair"] /\ Tokens["path"] # Tokens["tuple"]
      /\ Tokens["path"] # Tokens["pair"] /\ Tokens["tuple"] # Tokens["pair"]
  BY <1>1, <1>5, Zenon
<1> QED
  BY <1>6, <1>7

\* As one group, no content reads as another, and only the first as a token.
LEMMA TextsDiffer ==
    ASSUME NEW c \in Content, NEW d \in Content
    PROVE  /\ <<Text[c]>> = <<Text[d]>> => c = d
           /\ <<Text[c]>> = Tokens[d] => c = d
           /\ Tokens[c] = <<Text[d]>> => c = d
<1>1. /\ c \in {"name", "generic", "path", "tuple", "pair"}
      /\ d \in {"name", "generic", "path", "tuple", "pair"}
  BY Contents
<1>2. \A e, g \in Content : Text[e] = Text[g] => e = g
  <2>1. /\ Text["name"] = "A" /\ Text["generic"] = "V < A >" /\ Text["path"] = "m :: A"
        /\ Text["tuple"] = "(A , B)" /\ Text["pair"] = "A , B"
        /\ Content = {"name", "generic", "path", "tuple", "pair"}
    BY Contents, Zenon
  <2> QED
    BY <2>1
<1>3. \A e, g \in Content : <<Text[e]>> = Tokens[g] => e = g
  <2>1. /\ Len(Tokens["generic"]) = 4 /\ Len(Tokens["path"]) = 4
        /\ Len(Tokens["tuple"]) = 3 /\ Len(Tokens["pair"]) = 3
    <3>1. /\ Len(<<"V", "<", "A", ">">>) = 4 /\ Len(<<"m", ":", ":", "A">>) = 4
          /\ Len(<<"(", "A , B", ")">>) = 3 /\ Len(<<"A", ",", "B">>) = 3
      OBVIOUS
    <3> QED
      BY <3>1, Contents, Zenon
  <2>2. \A x : Len(<<x>>) = 1
    OBVIOUS
  <2>3. \A e, g \in Content : <<Text[e]>> = Tokens[g] => g = "name"
    <3>1. \A e, g \in Content : <<Text[e]>> = Tokens[g] => Len(Tokens[g]) = 1
      BY <2>2, Zenon
    <3>2. Content = {"name", "generic", "path", "tuple", "pair"}
      BY Contents, Zenon
    <3> QED
      BY <2>1, <3>1, <3>2
  <2>4. \A e \in Content : <<Text[e]>> = Tokens["name"] => Text[e] = Text["name"]
    <3>1. \A x : <<x>> = <<"A">> => x = "A"
      OBVIOUS
    <3>2. Tokens["name"] = <<"A">> /\ Text["name"] = "A"
      BY Contents, Zenon
    <3> QED
      BY <3>1, <3>2, Zenon
  <2>5. "name" \in Content
    BY Contents, Zenon
  <2> QED
    BY <1>2, <2>3, <2>4, <2>5, Zenon
<1>4. \A x, y : <<x>> = <<y>> => x = y
  OBVIOUS
<1> QED
  BY <1>2, <1>3, <1>4, Zenon

\* What fills a hole is read as nothing else.
LEMMA FillingRead ==
    ASSUME NEW form \in Holed, NEW c \in Content
    PROVE  /\ Filling(form, c) \in Seq(Word)
           /\ Parsed(Filling(form, c)) \subseteq {c}
           /\ Readable(form, c) => Parsed(Filling(form, c)) # {}
<1>1. Type \subseteq Content /\ {"name", "generic"} \subseteq Type
  BY Contents
<1>2. Filling(form, c) \in Seq(Word)
  BY ContentsTyped DEF Filling
<1>3. Filling(form, c) = <<Text[c]>> \/ Filling(form, c) = Tokens[c]
  BY DEF Filling
<1>4. ASSUME NEW d \in Parsed(Filling(form, c)) PROVE d = c
  <2>1. /\ d \in Content
        /\ Filling(form, c) = <<Text[d]>> \/ Filling(form, c) = Tokens[d]
    BY <1>1 DEF Parsed
  <2> QED
    BY <1>3, <2>1, TextsDiffer, TokensDiffer, Zenon
<1>5. ASSUME Readable(form, c) PROVE c \in Parsed(Filling(form, c))
  <2>1. CASE form = "Fn"
    BY <1>5, <2>1 DEF Readable, Filling, Parsed
  <2>2. CASE form # "Fn"
    <3>1. c \in {"name", "generic"}
      BY <1>5, <2>2 DEF Readable
    <3>2. Lexes(<<"A">>) /\ ~Splits(<<"A">>)
      <4>1. PICK h : h = <<"A">>
        OBVIOUS
      <4>2. Len(h) = 1 /\ DOMAIN h = {1} /\ h[1] = "A"
        BY <4>1
      <4>3. 1..(Len(h) - 1) = {}
        BY <4>2
      <4>4. h[1] \notin {"(", ")", "[", "]", "{", "}"}
        BY <4>2
      <4>5. Lexes(h) /\ ~Splits(h)
        BY <4>2, <4>3, <4>4 DEF Lexes, Splits
      <4> QED
        BY <4>1, <4>5
    <3>3. Lexes(<<"V", "<", "A", ">">>) /\ ~Splits(<<"V", "<", "A", ">">>)
      <4>1. PICK h : h = <<"V", "<", "A", ">">>
        OBVIOUS
      <4>2. /\ Len(h) = 4 /\ DOMAIN h = 1..4
            /\ h[1] = "V" /\ h[2] = "<" /\ h[3] = "A" /\ h[4] = ">"
        BY <4>1
      <4>3. \A k \in 1..4 : h[k] \in {"V", "<", "A", ">"}
        BY <4>2
      <4>4. \A k \in 1..4 : h[k] \notin {"(", ")", "[", "]", "{", "}", ":"}
        BY <4>3
      <4>5. \A k \in 1..(Len(h) - 1) : k \in 1..4
        BY <4>2
      <4>6. Lexes(h) /\ ~Splits(h)
        BY <4>2, <4>4, <4>5 DEF Lexes, Splits
      <4> QED
        BY <4>1, <4>6
    <3>4. Lexes(Tokens[c]) /\ ~Splits(Tokens[c])
      BY <3>1, <3>2, <3>3, Contents, Zenon
    <3>5. Filling(form, c) = Tokens[c]
      BY <2>2 DEF Filling
    <3>6. c \in Type
      BY <1>1, <3>1
    <3> QED
      BY <3>4, <3>5, <3>6, Zenon DEF Parsed
  <2> QED
    BY <2>1, <2>2
<1> QED
  BY <1>2, <1>4, <1>5

\* What fills a hole is lexed token by token, unless it has delimiters.
LEMMA FillingLexes ==
    ASSUME NEW form \in Holed, NEW c \in Content, c # "tuple"
    PROVE  Lexes(Filling(form, c))
<1>1. c \in {"name", "generic", "path", "pair"}
  BY Contents
<1> DEFINE W == {"A", "B", "V", "m", "<", ">", ":", ",", "V < A >", "m :: A", "A , B"}
<1>2. \A t \in Seq(W) : Lexes(t)
  <2>1. W \intersect {"(", ")", "[", "]", "{", "}"} = {}
    OBVIOUS
  <2> HIDE DEF W
  <2>2. \A t \in Seq(W) : \A k \in DOMAIN t : t[k] \in W
    OBVIOUS
  <2> QED
    BY <2>1, <2>2 DEF Lexes
<1>3. Lexes(Tokens[c])
  <2>1. <<"A">> \in Seq(W)
    OBVIOUS
  <2>2. <<"V", "<", "A", ">">> \in Seq(W)
    OBVIOUS
  <2>3. <<"m", ":", ":", "A">> \in Seq(W)
    OBVIOUS
  <2>4. <<"A", ",", "B">> \in Seq(W)
    OBVIOUS
  <2> HIDE DEF W
  <2> QED
    BY <1>1, <1>2, <2>1, <2>2, <2>3, <2>4, Contents, Zenon
<1>4. /\ Lexes(<<"A">>) /\ Lexes(<<"V < A >">>) /\ Lexes(<<"m :: A">>)
      /\ Lexes(<<"A , B">>)
  <2>1. <<"A">> \in Seq(W)
    OBVIOUS
  <2>2. <<"V < A >">> \in Seq(W)
    OBVIOUS
  <2>3. <<"m :: A">> \in Seq(W)
    OBVIOUS
  <2>4. <<"A , B">> \in Seq(W)
    OBVIOUS
  <2> HIDE DEF W
  <2> QED
    BY <1>2, <2>1, <2>2, <2>3, <2>4, Zenon
<1>5. Lexes(<<Text[c]>>)
  BY <1>1, <1>4, Contents, Zenon
<1> QED
  BY <1>3, <1>5 DEF Filling

\* More than four tokens are no type.
LEMMA LongHole ==
    ASSUME NEW h, Len(h) \notin 1..4
    PROVE  Parsed(h) = {}
<1>1. \A d \in Type : Len(Tokens[d]) \in 1..4 /\ Len(<<Text[d]>>) = 1
  <2>1. Type \subseteq Content
    BY Contents
  <2> QED
    BY <2>1, ContentsTyped
<1>2. \A d \in Type : h # <<Text[d]>> /\ h # Tokens[d]
  BY <1>1
<1> QED
  BY <1>2 DEF Parsed

\* A type of a documented form is matched by its own pattern only.
LEMMA FitsOnce ==
    ASSUME NEW form \in Holed, NEW k \in DOMAIN Patterns[form], NEW c \in Content, NEW T,
           Fits(T, form, k, c)
    PROVE  /\ T.tokens # <<>> /\ T.tokens[1] = Patterns[form][k].before[1]
           /\ MatchesHole(Patterns[form][k], T)
           /\ Hole(Patterns[form][k], T) = Filling(form, c)
           /\ \A g \in Holed : \A l \in DOMAIN Patterns[g] :
                 MatchesHole(Patterns[g][l], T) => g = form /\ l = k
<1> DEFINE p == Patterns[form][k]
<1>1. /\ p.before \in Seq(Word) /\ p.before # <<>> /\ p.after \in Seq(Word)
      /\ Filling(form, c) \in Seq(Word)
  BY PatternsTyped, FillingRead
<1>2. Filled(p, T, Filling(form, c))
  BY DEF Fits
<1> HIDE DEF p
<1>3. /\ MatchesHole(p, T) /\ Hole(p, T) = Filling(form, c)
      /\ \A i \in DOMAIN p.before : i \in DOMAIN T.tokens /\ T.tokens[i] = p.before[i]
  BY <1>1, <1>2, HoleFilled
<1>4. 1 \in DOMAIN p.before
  <2>1. Len(p.before) \in Nat \ {0} /\ DOMAIN p.before = 1..Len(p.before)
    BY <1>1, EmptySeq, LenProperties
  <2> QED
    BY <2>1
<1>5. T.tokens # <<>>
  BY <1>3, <1>4
<1>6. ASSUME NEW g \in Holed, NEW l \in DOMAIN Patterns[g], MatchesHole(Patterns[g][l], T)
      PROVE  g = form /\ l = k
  <2>1. SUFFICES ASSUME g # form \/ l # k PROVE FALSE
    OBVIOUS
  <2>2. Marks(p, Patterns[g][l])
    BY <2>1, PatternsApart DEF p
  <2>3. Agree(T.tokens, Patterns[g][l].before)
    BY <1>6 DEF MatchesHole
  <2> QED
    BY <1>3, <2>2, <2>3 DEF Marks, Agree
<1> QED
  BY <1>3, <1>4, <1>5, <1>6 DEF p

\* The first that matches, where any does.
LEMMA FirstFound ==
    ASSUME NEW form \in Holed, NEW T, Matches(Patterns[form], T)
    PROVE  \E k \in DOMAIN Patterns[form] :
              /\ MatchesHole(Patterns[form][k], T)
              /\ FirstHole(Patterns[form], T) = Hole(Patterns[form][k], T)
<1> DEFINE D == DOMAIN Patterns[form]
           first(k) == /\ MatchesHole(Patterns[form][k], T)
                       /\ \A j \in 1..(k - 1) : ~MatchesHole(Patterns[form][j], T)
<1>1. D = {1} \/ D = {1, 2, 3}
  <2>1. D = {1} \/ D = 1..3
    BY FourForms, Beginnings
  <2> QED
    BY <2>1
<1>2. \E k \in D : first(k)
  <2>1. 1..(1 - 1) = {} /\ 1..(2 - 1) = {1} /\ 1..(3 - 1) = {1, 2}
    OBVIOUS
  <2>2. \E k \in D : MatchesHole(Patterns[form][k], T)
    BY DEF Matches
  <2>3. /\ first(1) <=> MatchesHole(Patterns[form][1], T)
        /\ first(2) <=> /\ MatchesHole(Patterns[form][2], T)
                        /\ ~MatchesHole(Patterns[form][1], T)
        /\ first(3) <=> /\ MatchesHole(Patterns[form][3], T)
                        /\ ~MatchesHole(Patterns[form][1], T)
                        /\ ~MatchesHole(Patterns[form][2], T)
    BY <2>1
  <2> HIDE DEF first, D
  <2> QED
    BY <1>1, <2>2, <2>3
<1>3. FirstHole(Patterns[form], T) = Hole(Patterns[form][CHOOSE k \in D : first(k)], T)
  BY DEF FirstHole
<1> QED
  BY <1>2, <1>3

\* A type of a documented form is read as what it is about.
LEMMA FittingRead ==
    ASSUME NEW form \in Holed, NEW k \in DOMAIN Patterns[form], NEW c \in Content, NEW T,
           Fits(T, form, k, c)
    PROVE  ReadAsWritten(T)
<1>1. T.form = form /\ T.of = c
  BY DEF Fits
<1>2. /\ T.tokens # <<>> /\ T.tokens[1] = Patterns[form][k].before[1]
      /\ MatchesHole(Patterns[form][k], T)
      /\ Hole(Patterns[form][k], T) = Filling(form, c)
      /\ \A g \in Holed : \A l \in DOMAIN Patterns[g] :
            MatchesHole(Patterns[g][l], T) => g = form /\ l = k
  BY FitsOnce
<1>3. IsImpl(T) <=> T.form \in {"Fn", "Stream", "impl"}
  <2>1. Patterns[form][k].before[1] = "impl" <=> form \in {"Fn", "Stream"}
    BY PatternsTyped
  <2>2. form # "impl"
    BY FourForms
  <2> QED
    BY <1>1, <1>2, <2>1, <2>2 DEF IsImpl
<1>4. Matches(Patterns[form], T)
  BY <1>2 DEF Matches
<1>5. InHole(form, T) = Parsed(Filling(form, c))
  BY <1>2, <1>4, FirstFound DEF InHole
<1>6. \A g \in Holed : Matches(Patterns[g], T) => g = form
  BY <1>2 DEF Matches
<1>7. IsImpl(T) => form \in {"Fn", "Stream"}
  BY <1>2, PatternsTyped DEF IsImpl
<1>8. c # "tuple" => Lexes(FirstHole(Patterns[form], T))
  BY <1>2, <1>4, FirstFound, FillingLexes
<1> QED
  BY <1>1, <1>2, <1>3, <1>4, <1>5, <1>6, <1>7, <1>8, FillingRead DEF ReadAsWritten

\* A type that begins like none of them is taken as it is.
LEMMA OrdinaryRead ==
    ASSUME NEW T, Ordinary(T)
    PROVE  ReadAsWritten(T)
<1>1. T.form = "plain" /\ T.tokens # <<>> /\ T.tokens[1] # "impl"
  BY DEF Ordinary
<1>2. \A g \in Holed : ~Matches(Patterns[g], T) /\ g # "plain"
  BY FourForms DEF Ordinary, Matches, MatchesHole
<1> QED
  BY <1>1, <1>2 DEF ReadAsWritten, IsImpl

\* Another impl type is not matched, or not read.
LEMMA OtherImplRead ==
    ASSUME NEW T, OtherImpl(T)
    PROVE  ReadAsWritten(T)
<1>1. /\ T.form = "impl" /\ T.tokens \in Seq(STRING) /\ T.tokens # <<>>
      /\ T.tokens[1] = "impl"
  BY DEF OtherImpl
<1>2. ASSUME NEW g \in Holed, Matches(Patterns[g], T) PROVE InHole(g, T) = {}
  <2>1. PICK k \in DOMAIN Patterns[g] :
           /\ MatchesHole(Patterns[g][k], T)
           /\ FirstHole(Patterns[g], T) = Hole(Patterns[g][k], T)
    BY <1>2, FirstFound
  <2> DEFINE x == Len(Patterns[g][k].before)
             z == Len(Patterns[g][k].after)
             n == Len(T.tokens)
             h == SubSeq(T.tokens, x + 1, n - z)
  <2>2. x \in Nat /\ z \in Nat /\ n \in Nat /\ x + 4 + z < n
    <3>1. x + 4 + z < n
      BY <2>1 DEF OtherImpl
    <3>2. /\ Patterns[g][k].before \in Seq(Word) /\ Patterns[g][k].after \in Seq(Word)
      BY PatternsTyped
    <3>3. x \in Nat /\ z \in Nat /\ n \in Nat
      BY <1>1, <3>2, LenProperties
    <3> QED
      BY <3>1, <3>3
  <2>3. Hole(Patterns[g][k], T) = h
    BY DEF Hole
  <2>4. \A i \in 1..n : T.tokens[i] \in STRING
    BY <1>1, ElementOfSeq
  <2> HIDE DEF x, z, n
  <2>5. Len(h) \in Int /\ Len(h) > 4
    <3>1. PICK i \in Int, j \in Int : i = x + 1 /\ j = n - z
      BY <2>2
    <3>2. \A l \in i..j : T.tokens[l] \in STRING
      <4>1. i..j \subseteq 1..n
        BY <2>2, <3>1
      <4> QED
        BY <2>4, <4>1
    <3>3. Len(SubSeq(T.tokens, i, j)) = IF i <= j THEN j - i + 1 ELSE 0
      BY <3>2, SubSeqProperties
    <3>4. i <= j /\ j - i + 1 \in Int /\ j - i + 1 > 4
      BY <2>2, <3>1
    <3> QED
      BY <3>1, <3>3, <3>4
  <2> HIDE DEF h
  <2>6. Len(h) \notin 1..4
    <3>1. PICK l \in Int : l = Len(h)
      BY <2>5
    <3>2. l > 4 => l \notin 1..4
      OBVIOUS
    <3> QED
      BY <2>5, <3>1, <3>2
  <2> QED
    BY <2>1, <2>3, <2>6, LongHole DEF InHole
<1>3. \A g \in Holed : g # "impl"
  BY FourForms
<1>4. ASSUME NEW g \in Holed, Matches(Patterns[g], T) PROVE g \in {"Fn", "Stream"}
  <2>1. PICK k \in DOMAIN Patterns[g] : Agree(T.tokens, Patterns[g][k].before)
    BY <1>4 DEF Matches, MatchesHole
  <2>2. 1 \in DOMAIN T.tokens
    BY <1>1
  <2>3. 1 \in DOMAIN Patterns[g][k].before
    BY PatternsTyped
  <2>4. Patterns[g][k].before[1] = "impl"
    BY <1>1, <2>1, <2>2, <2>3 DEF Agree
  <2> QED
    BY <2>4, PatternsTyped
<1> QED
  BY <1>1, <1>2, <1>3, <1>4 DEF ReadAsWritten, IsImpl

\* The macro makes of the tokens of a known type what is written: it tells the forms
\* apart, and reads from the hole the type that fills it, or nothing.
THEOREM KnownTypesAreRead ==
    ASSUME NEW T, Known(T)
    PROVE  ReadAsWritten(T)
  BY FittingRead, OrdinaryRead, OtherImplRead DEF Known

-----------------------------------------------------------------------------
(* The macro keeps its word.                                               *)

\* Whatever functions are under #[worker], if their types are known and the macro
\* expands one, its signature is one of the documented ones, and the flavour and the
\* init, request and response types are those written there.
THEOREM MacroExpandsAsWritten ==
    ASSUME NEW U, \A T \in U : Known(T), \A f \in Sources : Signature(f, U)
    PROVE  ProgramSpec => []ExpandsAsWritten
<1>1. \A T \in U : ReadAsWritten(T)
  BY KnownTypesAreRead
<1>2. source \in Sources => ExpandsAsWritten
  BY <1>1, ExpandsRight DEF ExpandsAsWritten
<1> QED
  BY <1>2, SourceFixed, PTL

\* Whatever functions are under #[worker], if their types are known, those of a
\* documented signature are expanded, where the arguments are names and what is in
\* the holes can be lexed token by token.
THEOREM MacroExpandsDocumented ==
    ASSUME NEW U, \A T \in U : Known(T), \A f \in Sources : Signature(f, U)
    PROVE  ProgramSpec => []DocumentedExpands
<1>1. \A T \in U : ReadAsWritten(T)
  BY KnownTypesAreRead
<1>2. source \in Sources => DocumentedExpands
  BY <1>1, ExpandsDocumented DEF DocumentedExpands
<1> QED
  BY <1>2, SourceFixed, PTL
=============================================================================
