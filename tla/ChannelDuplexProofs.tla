------------------------- MODULE ChannelDuplexProofs -------------------------
(***************************************************************************)
(* Every session is a DuplexChannel as long as it has a worker of its own,  *)
(* if no data of it is null or refused: for every number of sessions,       *)
(* requests and responses, whatever data of other sessions is, and whenever *)
(* sessions are aborted.                                                    *)
(***************************************************************************)
EXTENDS ChannelDuplex, ChannelSessionProofs

\* Session s has its worker to itself, and its data is neither null nor refused.
Apart(s) == Sole(s) /\ PlainSession(s)

\* What the function has received and the client has got is numbered from 1.
Numbers(s) ==
    Apart(s) =>
        /\ \A m \in Range(work) : m.n # 0
        /\ \A k \in DOMAIN taken : k <= taken[k].n
        /\ \A k \in DOMAIN answers[s] : answers[s][k].n = k

\* What data is null or refused is fixed.
LEMMA PayloadStays == ASSUME [Next]_vars PROVE UNCHANGED payload
<1>1. CASE UNCHANGED vars
  BY <1>1 DEF vars, clientVars
<1>2. ASSUME NEW t \in Session, ClientStep(t) \/ Open(t) \/ Abort(t) \/ AbortUnreplaced(t)
      PROVE  UNCHANGED payload
  BY <1>2 DEF ClientStep, ClientSend, ClientClose, RunProxy, RunForwarder, ForwarderPanics,
     Open, Abort, AbortUnreplaced, clientVars
<1>3. CASE WorkerStep \/ MainReceive
  BY <1>3 DEF WorkerStep, WorkerReceive, ReceiveNull, ReceiveFirst, ReceiveRequest, ReceivePanics,
     ReceiveNothing, FnTake, FnRespond, FnReturn, FnStop, Ends, RunLoop, LoopPanics,
     MainReceive, clientVars
<1> QED
  BY <1>1, <1>2, <1>3 DEF Next, ClientStep, WorkerStep

\* A session that shares its worker, or has lost it, never has one of its own again.
LEMMA SoleBefore ==
    ASSUME IInv, [Next]_vars, NEW s \in Session, Sole(s)'
    PROVE  Sole(s) \/ Open(s)
<1>1. CASE UNCHANGED <<worker, dead, on>>
  BY <1>1 DEF Sole, Reaches, Alone
<1>2. ASSUME NEW t \in Session, Open(t), t # s PROVE Sole(s)
  <2>1. /\ on' = [on EXCEPT ![t] = worker] /\ UNCHANGED <<worker, dead>>
    BY <1>2 DEF Open
  <2>2. on'[s] = on[s] /\ on'[t] = worker
    BY <1>2, <2>1 DEF IInv, Shape
  <2> QED
    BY <1>2, <2>1, <2>2 DEF Sole, Reaches, Alone
<1>3. ASSUME NEW t \in Session, Abort(t) \/ AbortUnreplaced(t) PROVE FALSE
  <2>1. UNCHANGED on /\ (worker' = worker + 1 \/ dead')
    BY <1>3 DEF Abort, AbortUnreplaced
  <2>2. (on[s] = 0 \/ on[s] \in 1..worker) /\ worker \in Nat
    BY SessionIds DEF IInv, Shape, Openings
  <2> QED
    BY <2>1, <2>2 DEF Sole, Reaches
<1>4. CASE UNCHANGED vars
  BY <1>1, <1>4 DEF vars, slotVars
<1>5. ASSUME NEW t \in Session, ClientStep(t) PROVE UNCHANGED <<worker, dead, on>>
  BY <1>5 DEF ClientStep, ClientSend, ClientClose, RunProxy, RunForwarder, ForwarderPanics,
     slotVars
<1>6. ASSUME MainReceive \/ WorkerStep PROVE UNCHANGED <<worker, dead, on>>
  BY <1>6 DEF MainReceive, WorkerStep, WorkerReceive, ReceiveNull, ReceiveFirst, ReceiveRequest,
     ReceivePanics, ReceiveNothing, FnTake, FnRespond, FnReturn, FnStop, Ends, RunLoop,
     LoopPanics, slotVars
<1> QED
  BY <1>1, <1>2, <1>3, <1>4, <1>5, <1>6 DEF Next, ClientStep, WorkerStep

\* The messages on a worker of its own are those of the session.
LEMMA SoleOnWorker ==
    ASSUME IInv, NEW s \in Session, Sole(s)
    PROVE  /\ Of(worker) = DataOf(s) /\ OnSlot = {s} /\ s <= opened
           /\ Range(taken) \subseteq DataOf(s) /\ Range(work) \subseteq DataOf(s)
           /\ onmessage = s
<1>1. on[s] = worker /\ \A t \in Session : on[t] = worker <=> t = s
  BY DEF Sole, Reaches, Alone
<1>2. Of(worker) = DataOf(s) /\ OnSlot = {s}
  BY <1>1 DEF Of, DataOf, OnSlot
<1>3. s <= opened
  <2>1. worker # 0 /\ ~(s > opened)
    BY <1>1 DEF IInv, Shape, Openings
  <2> QED
    BY <2>1, SessionIds DEF IInv, Shape
<1>4. Range(taken) \subseteq DataOf(s) /\ Range(work) \subseteq DataOf(s)
  BY <1>2, RangeOfSeq DEF IInv, OnWorker
<1> QED
  BY <1>1, <1>2, <1>3, <1>4 DEF IInv, Installed

\* None of the messages that come back from such a worker is null or refused, but the end.
LEMMA PlainAnswers ==
    ASSUME IInv, ResponseInv, NEW s \in Session, Apart(s)
    PROVE  /\ \A k \in 1..made : PlainResponses(k)
           /\ ~CutShort
           /\ \A m \in Range(outbox) : NullResponse(m) <=> m = Null
<1> DEFINE Named == payload.nullResponses \union payload.refusedResponses
<1>1. \A m \in Named : m.session # s
  BY DEF Apart, PlainSession
<1>2. startedBy \in {0, s} /\ (startedBy = 0 => made = 0)
  <2>1. startedBy = 0 \/ (startedBy \in Session /\ on[startedBy] = worker)
    BY DEF IInv, Installed
  <2> QED
    BY <2>1 DEF Apart, Sole, Reaches, Alone, ResponseInv, Ended
<1>3. \A j \in 1..made : Response(j) \notin Named
  <2> SUFFICES ASSUME NEW j \in 1..made PROVE Response(j) \notin Named
    OBVIOUS
  <2>1. startedBy = s
    BY <1>2
  <2>2. Response(j).session = s
    BY <2>1 DEF Response
  <2> QED
    BY <1>1, <2>2
<1>4. made \in Nat
  BY SessionsAssumption DEF IInv, Shape
<1>5. ASSUME NEW k \in 1..made PROVE PlainResponses(k)
  <2>1. \A j \in 1..k : j \in 1..made
    BY <1>4
  <2> QED
    BY <1>3, <2>1 DEF PlainResponses
<1>6. ~CutShort
  BY <1>3 DEF CutShort
<1>7. ASSUME NEW m \in Range(outbox), m # Null PROVE m \notin payload.nullResponses
  <2>1. Range(outbox) \subseteq Of(worker) \union {Null}
    BY RangeOfSeq DEF IInv, OnWorker
  <2>2. m \in DataOf(s)
    BY <1>7, <2>1, SoleOnWorker DEF Apart
  <2>3. m.session = s
    BY <2>2 DEF DataOf
  <2> QED
    BY <1>1, <2>3
<1> QED
  BY <1>5, <1>6, <1>7 DEF NullResponse

\* The request the function receives next has a number higher than how many it has.
LEMMA NextRequest ==
    ASSUME IInv, TypeOK, RequestInv, NEW s \in Session, Apart(s), Numbers(s), work # <<>>
    PROVE  /\ Len(taken) + 1 <= Head(work).n /\ Head(work).n <= sent[s]
           /\ Len(taken) \in Nat /\ sent[s] \in Nat /\ Head(work) \in DataOf(s)
<1>1. Head(work) \in Range(work)
  BY BehindHead DEF TypeOK
<1>2. Head(work) \in DataOf(s) /\ Range(taken) \subseteq DataOf(s)
  BY <1>1, SoleOnWorker DEF Apart
<1>3. /\ Head(work).n \in Nat /\ Head(work).n # 0 /\ sent[s] \in Nat
      /\ Len(taken) \in Nat /\ DOMAIN taken = 1..Len(taken)
  BY <1>1, <1>2, SessionsAssumption, LenProperties DEF Numbers, DataOf, TypeOK
<1>4. Head(work).n <= sent[s]
  BY <1>1, <1>2 DEF RequestInv, InOrder, OnTheWay, Lying
<1>5. Len(taken) # 0 => Len(taken) < Head(work).n
  <2> SUFFICES ASSUME Len(taken) # 0 PROVE Len(taken) < Head(work).n
    OBVIOUS
  <2>1. Len(taken) \in DOMAIN taken
    BY <1>3
  <2> DEFINE m == taken[Len(taken)]
  <2>2. m \in Range(taken) /\ Len(taken) <= m.n
    BY <2>1 DEF Range, Numbers
  <2>3. m \in DataOf(s) /\ m.n \in Nat
    BY <1>2, <2>2 DEF DataOf
  <2>4. m.n < Head(work).n
    BY <1>1, <1>2, <2>2, <2>3 DEF RequestInv, InOrder, Pieces, Before
  <2> QED
    BY <1>3, <2>2, <2>3, <2>4
<1> QED
  BY <1>2, <1>3, <1>4, <1>5

\* The response that arrives next is the next one.
LEMMA NextResponse ==
    ASSUME IInv, TypeOK, ResponseInv, NEW s \in Session, Apart(s), Numbers(s),
           outbox # <<>>, Head(outbox) # Null
    PROVE  /\ Head(outbox).n = Len(answers[s]) + 1 /\ Len(answers[s]) < made
           /\ Len(answers[s]) \in Nat /\ made \in Nat
<1> DEFINE m == Head(outbox)
           l == Len(answers[s])
<1>1. Sorted /\ Counted /\ OnSlot = {s}
  BY SoleOnWorker DEF ResponseInv, Apart, Sole, Reaches
<1>2. /\ Range(outbox) = {m} \union Range(Tail(outbox)) /\ m \in Message /\ m \in Data
      /\ \A b \in Range(Tail(outbox)) \cap Data : m.n < b.n
  BY <1>1, BehindHead, HeadTailProperties DEF TypeOK, Sorted, Data
<1>3. /\ l \in Nat /\ made \in Nat /\ DOMAIN answers[s] = 1..l
      /\ answers[s] \in Seq(Message)
  BY SessionsAssumption, LenProperties DEF TypeOK
<1>4. m.n \in 1..made
  BY <1>1, <1>2, Numbered
<1>5. Range(answers[s]) \subseteq Data
  <2>1. Range(answers[s]) \subseteq Of(on[s])
    BY RangeOfSeq DEF IInv, Held
  <2> QED
    BY <2>1, OfMessages DEF Data
<1>6. l # 0 => l < m.n
  <2> SUFFICES ASSUME l # 0 PROVE l < m.n
    OBVIOUS
  <2>1. l \in DOMAIN answers[s]
    BY <1>3
  <2>2. answers[s][l] \in Range(answers[s]) /\ answers[s][l].n = l
    BY <2>1 DEF Range, Numbers
  <2> HIDE DEF l
  <2>3. Before(answers[s], outbox, Data)
    BY <1>1 DEF Sorted
  <2> QED
    BY <1>2, <1>5, <2>2, <2>3 DEF Before
<1> HIDE DEF l, m
<1>7. l + 1 \in 1..made /\ l + 1 <= m.n
  BY <1>3, <1>4, <1>6
<1> DEFINE x == Response(l + 1)
<1>8. x \in Answered \ {Null} /\ x.n = l + 1
  <2>1. x \in Answered
    BY <1>1, <1>7, PlainAnswers DEF Counted
  <2>2. x.n = l + 1 /\ Null.n = 0 /\ l + 1 # 0
    BY <1>3 DEF Response, Null
  <2> QED
    BY <2>1, <2>2
<1>9. x \notin Range(answers[s])
  <2> SUFFICES ASSUME NEW k \in DOMAIN answers[s], x = answers[s][k] PROVE FALSE
    BY DEF Range
  <2>1. k = l + 1 /\ k \in 1..l
    BY <1>3, <1>8 DEF Numbers
  <2> QED
    BY <1>3, <2>1
<1>10. x \in Data
  <2>1. Answered \subseteq Message
    <3>1. Range(outbox) \subseteq Message /\ Range(replies) \subseteq Message
      BY RangeOfSeq DEF TypeOK
    <3> QED
      BY <1>1, <1>5, <3>1 DEF Answered, Data
  <2> QED
    BY <1>8, <2>1 DEF Data
<1> HIDE DEF x
<1>11. x = m \/ x \in Range(Tail(outbox)) \/ x \in Range(replies)
  BY <1>1, <1>2, <1>8, <1>9 DEF Answered
<1>12. m.n < x.n => FALSE
  BY <1>3, <1>4, <1>7, <1>8
<1>13. x = m
  <2>1. x \in Range(replies) => m.n < x.n
    BY <1>1, <1>2, <1>10 DEF Sorted, Before
  <2> QED
    BY <1>2, <1>10, <1>11, <1>12, <2>1
<1> QED
  BY <1>3, <1>7, <1>8, <1>13 DEF l, m

\* A worker of its own that a session is opened on has done nothing yet.
LEMMA FreshSession ==
    ASSUME IInv, Drained, NEW s \in Session, Open(s), Sole(s)'
    PROVE  /\ UNCHANGED <<worker, dead, work, taken, fn, made, answers>>
           /\ work = <<>> /\ taken = <<>> /\ fn = "idle" /\ startedBy = 0 /\ ~dead
           /\ answers[s] = <<>> /\ sent'[s] = 0 /\ receiving'[s] /\ sender'[s] = "open"
<1>1. /\ s = opened + 1 /\ on' = [on EXCEPT ![s] = worker]
      /\ receiving' = [receiving EXCEPT ![s] = TRUE] /\ sender' = [sender EXCEPT ![s] = "open"]
      /\ UNCHANGED <<worker, dead, sent, workerVars, answers>>
  BY DEF Open
<1>2. s > opened /\ on[s] = 0 /\ sender[s] = "none" /\ answers[s] = <<>> /\ worker # 0
  BY <1>1, SessionIds DEF IInv, Shape, Openings
<1>3. \A t \in Session : on[t] # worker
  BY <1>1, <1>2 DEF Sole, Reaches, Alone, IInv, Shape
<1>4. work = <<>> /\ taken = <<>> /\ fn = "idle" /\ startedBy = 0
  BY <1>3, FreshWorker
<1> QED
  BY <1>1, <1>2, <1>4 DEF Sole, Reaches, Drained, IInv, Shape, workerVars

LEMMA NumbersInit == \A s \in Session : Init => Numbers(s)
  BY DEF Init, Numbers, Apart, Sole, Reaches

LEMMA NumbersStep ==
    ASSUME IInv, TypeOK, RequestInv, ResponseInv, NEW s \in Session, Numbers(s), [Next]_vars
    PROVE  Numbers(s)'
<1> DEFINE N(w, t, a) == /\ \A m \in Range(w) : m.n # 0
                         /\ \A k \in DOMAIN t : k <= t[k].n
                         /\ \A k \in DOMAIN a : a[k].n = k
<1> SUFFICES ASSUME Apart(s)' PROVE N(work', taken', answers'[s])
  BY DEF Numbers
<1>0. Sole(s)' /\ PlainSession(s)
  BY PayloadStays DEF Apart, PlainSession
<1>1. CASE Open(s)
  <2>1. work' = <<>> /\ taken' = <<>> /\ answers'[s] = <<>>
    BY <1>0, <1>1, FreshSession DEF RequestInv
  <2> QED
    BY <2>1, Empty
<1>2. CASE ~Open(s)
  <2>1. Apart(s) /\ Sole(s)
    BY <1>0, <1>2, SoleBefore DEF Apart
  <2>2. N(work, taken, answers[s])
    BY <2>1 DEF Numbers
  <2>3. ASSUME UNCHANGED <<work, taken, answers>> PROVE N(work', taken', answers'[s])
    BY <2>2, <2>3
  <2>4. CASE WorkerReceive
    <3>1. UNCHANGED <<taken, answers>>
      BY <2>4 DEF WorkerReceive, ReceiveNull, ReceiveFirst, ReceiveRequest, ReceivePanics,
         ReceiveNothing, workerVars, mainVars
    <3>2. CASE ReceiveRequest
      <4>1. /\ inbox # <<>> /\ Head(inbox) # Null /\ startedBy # 0
            /\ work' = work \/ work' = Append(work, Head(inbox))
        BY <3>2 DEF ReceiveRequest, NextIsData, NullRequest
      <4>2. Head(inbox) \in Range(inbox) /\ Head(inbox) \in Message
        BY <4>1, BehindHead, HeadTailProperties DEF TypeOK
      <4>3. Head(inbox) \in DataOf(s)
        <5>1. Range(inbox) \subseteq Of(worker) \union {Null}
          BY RangeOfSeq, EndingMessages DEF IInv, OnWorker
        <5> QED
          BY <2>1, <4>1, <4>2, <5>1, SoleOnWorker
      <4>4. Head(inbox) # InitData(s)
        BY <2>1, <3>2, <4>1, <4>2 DEF ReceiveRequest, RequestInv, Whole, Unbroken
      <4>5. Head(inbox).n # 0
        BY <4>3, <4>4 DEF DataOf, InitData, Request
      <4>6. Range(Append(work, Head(inbox))) = Range(work) \union {Head(inbox)}
        BY <4>2, Appended DEF TypeOK
      <4> QED
        BY <2>2, <3>1, <4>1, <4>5, <4>6
    <3>3. CASE ~ReceiveRequest
      <4>1. UNCHANGED work
        BY <2>4, <3>3 DEF WorkerReceive, ReceiveNull, ReceiveFirst, ReceivePanics,
           ReceiveNothing, workerVars
      <4> QED
        BY <2>3, <3>1, <4>1
    <3> QED
      BY <3>2, <3>3
  <2>5. CASE FnTake
    <3> DEFINE m == Head(work)
               l == Len(taken)
    <3>1. /\ work # <<>> /\ work' = Tail(work) /\ taken' = Append(taken, m)
          /\ UNCHANGED answers
      BY <2>5 DEF FnTake, mainVars
    <3>2. /\ l \in Nat /\ DOMAIN taken = 1..l /\ DOMAIN taken' = 1..(l + 1)
          /\ taken'[l + 1] = m /\ \A k \in 1..l : taken'[k] = taken[k]
      BY <3>1, AppendProperties, LenProperties, HeadTailProperties DEF TypeOK
    <3>3. l + 1 <= m.n
      BY <2>1, <3>1, NextRequest
    <3>4. Range(Tail(work)) \subseteq Range(work)
      BY <3>1, BehindHead DEF TypeOK
    <3> HIDE DEF m, l
    <3>5. \A k \in 1..(l + 1) : k <= taken'[k].n
      <4>1. \A k \in 1..(l + 1) : k \in 1..l \/ k = l + 1
        BY <3>2
      <4> QED
        BY <2>2, <3>2, <3>3, <4>1
    <3> QED
      BY <2>2, <3>1, <3>2, <3>4, <3>5
  <2>6. CASE FnReturn \/ FnStop
    <3>1. work' = <<>> /\ UNCHANGED <<taken, answers>>
      BY <2>6 DEF FnReturn, FnStop, Ends, mainVars
    <3> QED
      BY <2>2, <3>1, Empty
  <2>7. CASE MainReceive
    <3> DEFINE m == Head(outbox)
               l == Len(answers[s])
    <3>1. outbox # <<>> /\ UNCHANGED <<work, taken>> /\ onmessage = s
      BY <2>1, <2>7, SoleOnWorker DEF MainReceive, workerVars
    <3>2. CASE UNCHANGED answers
      BY <2>3, <3>1, <3>2
    <3>3. CASE ~UNCHANGED answers
      <4>1. m # Null /\ answers' = [answers EXCEPT ![s] = Append(@, m)]
        BY <2>7, <3>1, <3>3 DEF MainReceive, NullResponse
      <4>2. answers'[s] = Append(answers[s], m) /\ m \in Message
        BY <3>1, <4>1, HeadTailProperties DEF TypeOK
      <4>3. /\ l \in Nat /\ DOMAIN answers[s] = 1..l /\ DOMAIN answers'[s] = 1..(l + 1)
            /\ answers'[s][l + 1] = m /\ \A k \in 1..l : answers'[s][k] = answers[s][k]
        <5>1. answers[s] \in Seq(Message)
          BY DEF TypeOK
        <5> QED
          BY <4>2, <5>1, AppendProperties, LenProperties
      <4>4. m.n = l + 1
        BY <2>1, <3>1, <4>1, NextResponse
      <4> HIDE DEF m, l
      <4>5. \A k \in 1..(l + 1) : answers'[s][k].n = k
        <5>1. \A k \in 1..(l + 1) : k \in 1..l \/ k = l + 1
          BY <4>3
        <5> QED
          BY <2>2, <4>3, <4>4, <5>1
      <4> QED
        BY <2>2, <3>1, <4>3, <4>5
    <3> QED
      BY <3>2, <3>3
  <2>8. CASE FnRespond \/ RunLoop \/ LoopPanics \/ UNCHANGED vars
    BY <2>3, <2>8 DEF FnRespond, RunLoop, LoopPanics, vars, workerVars, mainVars
  <2>9. ASSUME NEW t \in Session, ClientStep(t) \/ Open(t)
        PROVE  N(work', taken', answers'[s])
    BY <2>3, <2>9 DEF ClientStep, ClientSend, ClientClose, RunProxy, RunForwarder,
       ForwarderPanics, Open, workerVars, mainVars
  <2>10. ASSUME NEW t \in Session, Abort(t) \/ AbortUnreplaced(t)
         PROVE  N(work', taken', answers'[s])
    <3>1. work' = <<>> /\ taken' = <<>> /\ UNCHANGED answers
      BY <2>10 DEF Abort, AbortUnreplaced, Terminate, mainVars
    <3> QED
      BY <2>2, <3>1, Empty
  <2> HIDE DEF N
  <2> QED
    BY <2>4, <2>5, <2>6, <2>7, <2>8, <2>9, <2>10 DEF Next, ClientStep
<1> QED
  BY <1>1, <1>2

\* When the null arrives every response has.
LEMMA AllDelivered ==
    ASSUME IInv, TypeOK, ResponseInv, NEW s \in Session, Apart(s), Numbers(s),
           outbox # <<>>, Head(outbox) = Null
    PROVE  Over /\ Len(answers[s]) = made
<1> DEFINE l == Len(answers[s])
<1>1. Sorted /\ Counted /\ Ended /\ OnSlot = {s}
  BY SoleOnWorker DEF ResponseInv, Apart, Sole, Reaches
<1>2. /\ Null \in Range(outbox) /\ Tail(outbox) = <<>>
      /\ Range(outbox) = {Null} \union Range(Tail(outbox))
  BY <1>1, BehindHead, EndOfTail DEF TypeOK, Ended
<1>3. Over /\ replies = <<>>
  BY <1>1, <1>2 DEF Ended
<1>4. Answered \ {Null} = Range(answers[s]) \ {Null}
  BY <1>1, <1>2, <1>3, Empty DEF Answered
<1>5. /\ l \in Nat /\ made \in Nat /\ DOMAIN answers[s] = 1..l
      /\ \A k \in 1..l : answers[s][k].n = k
  <2>1. answers[s] \in Seq(Message) /\ made \in Nat
    BY SessionsAssumption DEF TypeOK
  <2> QED
    BY <2>1, LenProperties DEF Numbers
<1>6. Null \notin Range(answers[s])
  <2>1. Range(answers[s]) \subseteq Of(on[s])
    BY RangeOfSeq DEF IInv, Held
  <2> QED
    BY <2>1, OfMessages
<1>7. /\ Range(answers[s]) \subseteq {Response(k) : k \in 1..made}
      /\ \A k \in 1..made : Response(k) \in Range(answers[s])
  <2>1. Range(answers[s]) \subseteq {Response(k) : k \in 1..made}
    BY <1>1, <1>4, <1>6 DEF Counted
  <2>2. ASSUME NEW k \in 1..made PROVE Response(k) \in Range(answers[s])
    <3>1. Response(k) \in Answered
      BY <1>1, PlainAnswers DEF Counted
    <3>2. Response(k).n = k /\ k # 0 /\ Null.n = 0
      BY <1>5 DEF Response, Null
    <3> QED
      BY <1>4, <3>1, <3>2
  <2> QED
    BY <2>1, <2>2
<1> HIDE DEF l
<1>8. l # 0 => l <= made
  <2> SUFFICES ASSUME l # 0 PROVE l <= made
    OBVIOUS
  <2>1. l \in 1..l
    BY <1>5
  <2>2. answers[s][l] \in Range(answers[s])
    BY <1>5, <2>1 DEF Range
  <2>3. PICK k \in 1..made : answers[s][l] = Response(k)
    BY <1>7, <2>2
  <2>4. l = k
    BY <1>5, <2>1, <2>3 DEF Response
  <2> QED
    BY <1>5, <2>3, <2>4
<1>9. made # 0 => made <= l
  <2> SUFFICES ASSUME made # 0 PROVE made <= l
    OBVIOUS
  <2>1. made \in 1..made
    BY <1>5
  <2>2. Response(made) \in Range(answers[s])
    BY <1>7, <2>1
  <2>3. PICK k \in 1..l : answers[s][k] = Response(made)
    BY <1>5, <2>2 DEF Range
  <2>4. k = made
    BY <1>5, <2>3 DEF Response
  <2> QED
    BY <1>5, <2>3, <2>4
<1> QED
  BY <1>3, <1>5, <1>8, <1>9 DEF l

-----------------------------------------------------------------------------
(* A session is a duplex channel as long as it has a worker of its own.    *)

\* What can change the worker of the slot or its sessions.
LEMMA SlotSteps ==
    [Next]_vars => \/ UNCHANGED <<worker, dead, opened, on>>
                   \/ \E t \in Session : Open(t) \/ Abort(t) \/ AbortUnreplaced(t)
<1>1. CASE UNCHANGED vars
  BY <1>1 DEF vars, slotVars
<1>2. ASSUME NEW t \in Session, ClientStep(t)
      PROVE  UNCHANGED <<worker, dead, opened, on>>
  BY <1>2 DEF ClientStep, ClientSend, ClientClose, RunProxy, RunForwarder, ForwarderPanics,
     slotVars
<1>3. MainReceive \/ WorkerStep => UNCHANGED <<worker, dead, opened, on>>
  BY DEF MainReceive, WorkerStep, WorkerReceive, ReceiveNull, ReceiveFirst, ReceiveRequest,
     ReceivePanics, ReceiveNothing, FnTake, FnRespond, FnReturn, FnStop, Ends, RunLoop,
     LoopPanics, slotVars
<1> QED
  BY <1>1, <1>2, <1>3 DEF Next, ClientStep, WorkerStep

LEMMA OpenedSteps ==
    ASSUME [Next]_vars, ~UNCHANGED opened
    PROVE  \E t \in Session : Open(t) /\ t = opened + 1 /\ opened' = t
  BY SlotSteps DEF Open, Abort, AbortUnreplaced

LEMMA Unopened ==
    ASSUME IInv, Drained, NEW s \in Session, s > opened
    PROVE  Duplex(s)!Init
<1>1. sender[s] = "none" /\ sent[s] = 0 /\ answers[s] = <<>> /\ ~Mine(s)
  BY SessionIds DEF IInv, Shape, Openings, Drained, Mine
<1>2. TakenBy(s) = 0 /\ MadeFor(s) = 0 /\ OwnWorker(s) /\ ~(opened >= s)
  BY <1>1, SessionIds DEF IInv, Shape, TakenBy, MadeFor, OwnWorker
<1> QED
  BY <1>1, <1>2 DEF Duplex!Init

LEMMA DuplexInit == \A s \in Session : Init => Duplex(s)!Init
<1> SUFFICES ASSUME NEW s \in Session, Init PROVE Duplex(s)!Init
  OBVIOUS
<1>1. IInv /\ Drained
  BY InitIInv, DrainedInit
<1>2. s > opened
  BY SessionIds DEF Init
<1> QED
  BY <1>1, <1>2, Unopened

\* Steps before the session is opened, and the one that opens it.
LEMMA DuplexOpened ==
    ASSUME IInv, TypeOK, RequestInv, ResponseInv, NEW s \in Session, s > opened, [Next]_vars,
           IInv', Drained'
    PROVE  [Duplex(s)!Next]_(Duplex(s)!vars)
<1>1. Duplex(s)!Init
  BY Unopened DEF RequestInv
<1>2. CASE Open(s)
  <2>1. /\ sent' = sent /\ sender'[s] = "open" /\ sender[s] = "none" /\ opened' = s
    BY <1>2 DEF Open, IInv, Shape, Openings
  <2>2. CASE OwnWorker(s)'
    <3>1. Sole(s)' /\ Mine(s)'
      BY <2>1, <2>2, SessionIds DEF OwnWorker, Sole, Mine, Reaches
    <3>2. /\ UNCHANGED <<worker, dead, work, taken, fn, made, answers>>
          /\ taken = <<>> /\ fn = "idle" /\ startedBy = 0 /\ ~dead
          /\ answers[s] = <<>> /\ receiving'[s]
      BY <1>2, <3>1, FreshSession DEF RequestInv
    <3>3. made = 0
      BY <3>2 DEF ResponseInv, Ended
    <3>4. TakenBy(s)' = 0 /\ MadeFor(s)' = 0 /\ ~Over'
      BY <3>1, <3>2, <3>3 DEF TakenBy, MadeFor, Over
    <3>5. Duplex(s)!Init'
      BY <1>1, <2>1, <2>2, <3>2, <3>4 DEF Duplex!Init
    <3> QED
      BY <1>1, <3>5 DEF Duplex!Init, Duplex!vars, Duplex!state
  <2>3. CASE ~OwnWorker(s)'
    <3>1. Duplex(s)!Void
      BY <1>1, <2>1, <2>3 DEF Duplex!Init, Duplex!Void
    <3> QED
      BY <3>1 DEF Duplex!Next
  <2> QED
    BY <2>2, <2>3
<1>3. CASE ~Open(s)
  <2>1. s > opened'
    <3>1. opened' = opened \/ (opened' = opened + 1 /\ opened + 1 # s)
      BY <1>3, OpenedSteps
    <3> QED
      BY <3>1, SessionIds DEF IInv, Shape
  <2>2. Duplex(s)!Init'
    <3>1. sender'[s] = "none" /\ sent'[s] = 0 /\ answers'[s] = <<>> /\ ~Mine(s)'
      BY <2>1, SessionIds DEF IInv, Shape, Openings, Drained, Mine
    <3>2. TakenBy(s)' = 0 /\ MadeFor(s)' = 0 /\ OwnWorker(s)' /\ ~(opened' >= s)
      BY <2>1, <3>1, SessionIds DEF IInv, Shape, TakenBy, MadeFor, OwnWorker
    <3> QED
      BY <3>1, <3>2 DEF Duplex!Init
  <2> QED
    BY <1>1, <2>2 DEF Duplex!Init, Duplex!vars, Duplex!state
<1> QED
  BY <1>2, <1>3

\* Steps that leave a session its worker: those of the client, of the function and the
\* arrival of a response or of the end are steps of the channel, nothing else is.
LEMMA DuplexAlone ==
    ASSUME IInv, TypeOK, RequestInv, ResponseInv, NEW s \in Session, Numbers(s), Apart(s), Next,
           UNCHANGED <<worker, dead, opened, on>>
    PROVE  [Duplex(s)!Next]_(Duplex(s)!vars)
<1>1. s <= opened /\ onmessage = s /\ OnSlot = {s} /\ ~dead /\ UNCHANGED payload
  BY SoleOnWorker, PayloadStays DEF Apart, Sole, Reaches
<1>2. Mine(s) /\ Mine(s)' /\ OwnWorker(s) /\ OwnWorker(s)' /\ opened >= s /\ opened' >= s
  <2>1. PlainSession(s) /\ PlainSession(s)'
    BY <1>1 DEF Apart, PlainSession
  <2> QED
    BY <1>1, <2>1, SessionIds DEF Apart, Sole, Reaches, Alone, Mine, OwnWorker, IInv, Shape
<1>3. /\ TakenBy(s) = Len(taken) /\ TakenBy(s)' = Len(taken')
      /\ MadeFor(s) = made /\ MadeFor(s)' = made'
  BY <1>2 DEF TakenBy, MadeFor
<1>4. ASSUME UNCHANGED <<sent[s], sender[s], taken, made, answers[s], receiving[s]>>, Over' = Over
      PROVE  UNCHANGED Duplex(s)!vars
  BY <1>2, <1>3, <1>4 DEF Duplex!vars, Duplex!state
<1>5. ASSUME Duplex(s)!Progress PROVE Duplex(s)!Next
  BY <1>2, <1>5 DEF Duplex!Next
<1>6. /\ sent[s] \in Nat /\ made \in Nat /\ taken \in Seq(Message) /\ answers[s] \in Seq(Message)
  BY SessionsAssumption DEF TypeOK
<1>7. ASSUME NEW t \in Session, ClientSend(t)
      PROVE  Duplex(s)!Next \/ UNCHANGED Duplex(s)!vars
  <2>1. UNCHANGED <<sender, taken, made, answers, receiving, fn>>
    BY <1>7 DEF ClientSend, workerVars, mainVars
  <2>2. CASE t = s
    <3>1. sender[s] = "open" /\ sent'[s] = sent[s] + 1
      BY <1>7, <2>2 DEF ClientSend, TypeOK
    <3>2. Duplex(s)!Send
      BY <1>2, <1>3, <2>1, <3>1 DEF Duplex!Send, Over
    <3> QED
      BY <1>5, <3>2 DEF Duplex!Progress
  <2>3. CASE t # s
    <3>1. sent'[s] = sent[s] /\ Over' = Over
      BY <1>7, <2>1, <2>3 DEF ClientSend, TypeOK, Over
    <3> QED
      BY <1>4, <2>1, <3>1
  <2> QED
    BY <2>2, <2>3
<1>8. ASSUME NEW t \in Session, ClientClose(t)
      PROVE  Duplex(s)!Next \/ UNCHANGED Duplex(s)!vars
  <2>1. UNCHANGED <<sent, taken, made, answers, receiving, fn>>
    BY <1>8 DEF ClientClose, workerVars, mainVars
  <2>2. CASE t = s
    <3>1. sender[s] = "open" /\ sender'[s] = "dropped"
      BY <1>8, <2>2 DEF ClientClose, TypeOK
    <3>2. Duplex(s)!Close
      BY <1>2, <1>3, <2>1, <3>1 DEF Duplex!Close, Over
    <3> QED
      BY <1>5, <3>2 DEF Duplex!Progress
  <2>3. CASE t # s
    <3>1. sender'[s] = sender[s] /\ Over' = Over
      BY <1>8, <2>1, <2>3 DEF ClientClose, TypeOK, Over
    <3> QED
      BY <1>4, <2>1, <3>1
  <2> QED
    BY <2>2, <2>3
<1>9. CASE FnTake
  <2>1. /\ fn = "running" /\ work # <<>> /\ taken' = Append(taken, Head(work))
        /\ UNCHANGED <<sent, sender, made, answers, receiving, fn>>
    BY <1>9 DEF FnTake, clientVars, mainVars
  <2>2. Len(taken') = Len(taken) + 1 /\ Len(taken) < sent[s]
    <3>1. /\ Len(taken) + 1 <= Head(work).n /\ Head(work).n <= sent[s]
          /\ Len(taken) \in Nat /\ Head(work) \in DataOf(s)
      BY <2>1, NextRequest
    <3>2. Head(work) \in Message /\ Head(work).n \in Nat
      BY <2>1, <3>1, HeadTailProperties DEF TypeOK, DataOf
    <3>3. Len(taken') = Len(taken) + 1
      BY <1>6, <2>1, <3>2, AppendProperties
    <3> QED
      BY <1>6, <3>1, <3>2, <3>3
  <2>3. Duplex(s)!Take
    BY <1>2, <1>3, <2>1, <2>2 DEF Duplex!Take, Over
  <2> QED
    BY <1>5, <2>3 DEF Duplex!Progress
<1>10. CASE FnRespond
  <2>1. /\ fn = "running" /\ made' = made + 1
        /\ UNCHANGED <<sent, sender, taken, answers, receiving, fn>>
    BY <1>10 DEF FnRespond, clientVars, mainVars
  <2>2. Duplex(s)!Make
    BY <1>2, <1>3, <2>1 DEF Duplex!Make, Over
  <2> QED
    BY <1>5, <2>2 DEF Duplex!Progress
<1>11. CASE FnReturn \/ FnStop
  <2>1. /\ fn = "running" /\ fn' \in {"returned", "stopped"}
        /\ UNCHANGED <<sent, sender, taken, made, answers, receiving>>
    BY <1>11 DEF FnReturn, FnStop, Ends, clientVars, mainVars
  <2>2. Duplex(s)!Return
    BY <1>2, <1>3, <2>1 DEF Duplex!Return, Over
  <2> QED
    BY <1>5, <2>2 DEF Duplex!Progress
<1>12. CASE MainReceive
  <2> DEFINE m == Head(outbox)
  <2>1. /\ outbox # <<>>
        /\ receiving' = IF m = Null THEN [receiving EXCEPT ![s] = FALSE] ELSE receiving
        /\ answers' = IF m # Null /\ receiving[s]
                      THEN [answers EXCEPT ![s] = Append(@, m)] ELSE answers
        /\ UNCHANGED <<sent, sender, taken, made, fn>>
    <3>1. outbox # <<>>
      BY <1>12 DEF MainReceive
    <3>2. NullResponse(m) <=> m = Null
      BY <3>1, BehindHead, PlainAnswers DEF TypeOK
    <3> HIDE DEF m
    <3> QED
      BY <1>1, <1>12, <3>2 DEF MainReceive, clientVars, workerVars, m
  <2>2. receiving[s] = TRUE
    <3>1. Ended /\ s # 0 /\ ~CutShort
      BY <1>1, SessionIds, PlainAnswers DEF ResponseInv
    <3>2. ~receiving[s] => outbox = <<>>
      BY <1>1, <3>1 DEF Ended
    <3> QED
      BY <2>1, <3>2 DEF TypeOK
  <2>3. CASE m = Null
    <3>1. Over /\ Len(answers[s]) = made
      BY <2>1, <2>3, AllDelivered
    <3>2. receiving'[s] = FALSE /\ answers' = answers
      BY <2>1, <2>3 DEF TypeOK
    <3>3. Duplex(s)!End
      BY <1>2, <1>3, <2>1, <2>2, <3>1, <3>2 DEF Duplex!End, Over
    <3> QED
      BY <1>5, <3>3 DEF Duplex!Progress
  <2>4. CASE m # Null
    <3>1. Len(answers[s]) < made
      BY <2>1, <2>4, NextResponse
    <3>2. answers'[s] = Append(answers[s], m) /\ receiving' = receiving /\ m \in Message
      BY <2>1, <2>2, <2>4, HeadTailProperties DEF TypeOK
    <3>3. Len(answers'[s]) = Len(answers[s]) + 1
      BY <1>6, <3>2, AppendProperties
    <3>4. Duplex(s)!Deliver
      BY <1>2, <1>3, <2>1, <2>2, <3>1, <3>2, <3>3 DEF Duplex!Deliver, Over
    <3> QED
      BY <1>5, <3>4 DEF Duplex!Progress
  <2> QED
    BY <2>3, <2>4
<1>13. CASE WorkerReceive
  <2>1. UNCHANGED <<sent, sender, taken, made, answers, receiving>>
    BY <1>13 DEF WorkerReceive, ReceiveNull, ReceiveFirst, ReceiveRequest, ReceivePanics,
       ReceiveNothing, clientVars, workerVars, mainVars
  <2>2. Over' = Over
    <3>1. CASE ReceiveFirst
      <4>1. fn = "idle" /\ fn' = "running"
        BY <3>1 DEF ReceiveFirst, IInv, Installed
      <4> QED
        BY <4>1 DEF Over
    <3>2. CASE ~ReceiveFirst
      <4>1. fn' = fn
        BY <1>13, <3>2 DEF WorkerReceive, ReceiveNull, ReceiveRequest, ReceivePanics,
           ReceiveNothing, workerVars
      <4> QED
        BY <4>1 DEF Over
    <3> QED
      BY <3>1, <3>2
  <2> QED
    BY <1>4, <2>1, <2>2
<1>14. ASSUME \/ RunLoop \/ LoopPanics
              \/ \E t \in Session : RunProxy(t) \/ RunForwarder(t) \/ ForwarderPanics(t)
       PROVE  UNCHANGED Duplex(s)!vars
  <2>1. UNCHANGED <<sent, sender, taken, made, answers, receiving, fn>>
    BY <1>14 DEF RunLoop, LoopPanics, RunProxy, RunForwarder, ForwarderPanics, clientVars,
       workerVars, mainVars
  <2>2. Over' = Over
    BY <2>1 DEF Over
  <2> QED
    BY <1>4, <2>1, <2>2
<1>15. ASSUME NEW t \in Session, Open(t) \/ Abort(t) \/ AbortUnreplaced(t) PROVE FALSE
  <2>1. CASE Open(t)
    BY <2>1, SessionIds DEF Open, IInv, Shape
  <2>2. CASE Abort(t)
    BY <2>2 DEF Abort, IInv, Shape
  <2>3. CASE AbortUnreplaced(t)
    BY <1>1, <2>3 DEF AbortUnreplaced
  <2> QED
    BY <1>15, <2>1, <2>2, <2>3
<1> QED
  BY <1>7, <1>8, <1>9, <1>10, <1>11, <1>12, <1>13, <1>14, <1>15 DEF Next

LEMMA DuplexStep ==
    ASSUME IInv, TypeOK, RequestInv, ResponseInv, NEW s \in Session, Numbers(s), [Next]_vars,
           IInv', Drained'
    PROVE  [Duplex(s)!Next]_(Duplex(s)!vars)
<1>1. CASE s > opened
  BY <1>1, DuplexOpened
<1>2. CASE ~(s > opened)
  <2>1. s <= opened /\ opened \in Nat /\ s \in Nat
    BY <1>2, SessionIds DEF IInv, Shape
  <2>2. \A t \in Session : Open(t) => t # s
    BY <2>1 DEF Open
  <2>3. s <= opened'
    <3>1. opened' = opened \/ opened' = opened + 1
      BY OpenedSteps
    <3> QED
      BY <2>1, <3>1
  <2>4. (OwnWorker(s) <=> Apart(s)) /\ (OwnWorker(s)' <=> Apart(s)')
    BY <2>1, <2>3 DEF OwnWorker, Apart, Sole
  <2>5. Apart(s)' => Apart(s)
    BY <2>1, <2>2, SoleBefore, PayloadStays DEF Apart, PlainSession
  <2>6. CASE ~Apart(s)
    <3>1. Duplex(s)!AfterVoid
      BY <2>4, <2>5, <2>6 DEF Duplex!AfterVoid
    <3> QED
      BY <3>1 DEF Duplex!Next
  <2>7. CASE Apart(s) /\ Next /\ UNCHANGED <<worker, dead, opened, on>>
    BY <2>7, DuplexAlone
  <2>8. CASE UNCHANGED vars
    <3>1. UNCHANGED Duplex(s)!vars
      BY <2>8 DEF vars, slotVars, clientVars, taskVars, workerVars, mainVars, Duplex!vars,
         Duplex!state, TakenBy, MadeFor, OwnWorker, Mine, Over, Reaches, Alone, PlainSession
    <3> QED
      BY <3>1
  <2>9. CASE Apart(s) /\ Next /\ ~UNCHANGED <<worker, dead, opened, on>>
    <3>1. PICK t \in Session : Open(t) \/ Abort(t) \/ AbortUnreplaced(t)
      BY <2>9, SlotSteps
    <3>2. sent' = sent /\ sender'[s] = sender[s]
      BY <2>2, <3>1 DEF Open, Abort, AbortUnreplaced, clientVars, IInv, Shape
    <3>3. ~Apart(s)'
      <4>1. CASE Open(t)
        <5>1. t # s /\ on'[t] = worker' /\ on' = [on EXCEPT ![t] = worker]
          BY <2>2, <4>1 DEF Open, IInv, Shape
        <5> QED
          BY <5>1 DEF Apart, Sole, Reaches, Alone
      <4>2. CASE Abort(t)
        BY <2>9, <4>2 DEF Abort, Apart, Sole, Reaches, IInv, Shape
      <4>3. CASE AbortUnreplaced(t)
        BY <4>3 DEF AbortUnreplaced, Apart, Sole, Reaches
      <4> QED
        BY <3>1, <4>1, <4>2, <4>3
    <3>4. Duplex(s)!Void
      BY <2>4, <2>9, <3>2, <3>3 DEF Duplex!Void
    <3> QED
      BY <3>4 DEF Duplex!Next
  <2> QED
    BY <2>6, <2>7, <2>8, <2>9
<1> QED
  BY <1>1, <1>2

DuplexInv == RequestInv /\ ResponseInv /\ \A s \in Session : Numbers(s)

LEMMA DuplexInvariance == Spec => []DuplexInv
<1>1. Init => DuplexInv
  BY RequestInit, ResponseInit, NumbersInit DEF DuplexInv
<1>2. IInv /\ TypeOK /\ DuplexInv /\ [Next]_vars => DuplexInv'
  <2> SUFFICES ASSUME IInv, TypeOK, DuplexInv, [Next]_vars PROVE DuplexInv'
    OBVIOUS
  <2>1. RequestInv' /\ ResponseInv'
    BY RequestStep, ResponseStep DEF DuplexInv
  <2>2. \A s \in Session : Numbers(s)'
    BY NumbersStep DEF DuplexInv
  <2>3. Session' = Session
    BY DEF Session
  <2> QED
    BY <2>1, <2>2, <2>3 DEF DuplexInv
<1> QED
  BY <1>1, <1>2, SessionTyping, Invariance, PTL DEF Spec

LEMMA DuplexSteps ==
    ASSUME IInv, TypeOK, DuplexInv, [Next]_vars, IInv', DuplexInv'
    PROVE  \A s \in Session : [Duplex(s)!Next]_(Duplex(s)!vars)
<1>1. Drained'
  BY DEF DuplexInv, RequestInv
<1> QED
  BY <1>1, DuplexStep DEF DuplexInv

\* For any number of sessions, requests and aborts each session none of whose data is null
\* or refused is a channel with two ordered streams that end once, as long as the worker it
\* was opened on lives and serves no other, whatever the data of the others is: what
\* DuplexChannel promises, step by step, the end only after the last response
\* (PoolExecutor::channel, WorkerHandle::channel, ChannelWorkerFn::new).
THEOREM SessionsAreDuplex ==
    ASSUME NEW CONSTANT s \in Session
    PROVE  Spec => Duplex(s)!Init /\ [][Duplex(s)!Next]_(Duplex(s)!vars)
<1>1. Init => Duplex(s)!Init
  BY DuplexInit
<1>2. IInv /\ TypeOK /\ DuplexInv /\ [Next]_vars /\ IInv' /\ DuplexInv'
          => [Duplex(s)!Next]_(Duplex(s)!vars)
  BY DuplexSteps
<1> QED
  BY <1>1, <1>2, SessionTyping, Invariance, DuplexInvariance, PTL DEF Spec

\* So in particular are the first and the last session, if their data is plain
\* (PoolExecutor::channel, WorkerHandle::channel, ChannelWorkerFn::new).
THEOREM DuplexRefinement == ASSUME Sessions # 0 PROVE Spec => ImplementsDuplex
<1>1. 1 \in Session /\ Sessions \in Session
  BY SessionsAssumption DEF Session
<1>2. Init => Duplex(1)!Init /\ Duplex(Sessions)!Init
  BY <1>1, DuplexInit
<1>3. IInv /\ TypeOK /\ DuplexInv /\ [Next]_vars /\ IInv' /\ DuplexInv'
          => /\ [Duplex(1)!Next]_(Duplex(1)!vars)
             /\ [Duplex(Sessions)!Next]_(Duplex(Sessions)!vars)
  BY <1>1, DuplexSteps
<1> QED
  BY <1>2, <1>3, SessionTyping, Invariance, DuplexInvariance, PTL DEF Spec, ImplementsDuplex
=============================================================================
