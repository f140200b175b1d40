------------------------ MODULE ChannelSessionProofs ------------------------
(***************************************************************************)
(* Where the messages of channel sessions may be, who may have the slot of  *)
(* their worker, and in which order requests and responses arrive: for every*)
(* number of sessions, requests and responses, whatever worker functions do *)
(* and whenever sessions are aborted.                                       *)
(***************************************************************************)
EXTENDS ChannelSession, SequenceTheorems, TLAPS

(***************************************************************************)
(* What may lie where.                                                     *)
(***************************************************************************)

\* The requests a client sends in session s.
Own(s) == [session : {s}, n : Nat \ {0}]

\* Data of a session that was opened on worker w.
Of(w) == [session : {t \in Session : on[t] = w}, n : Nat]

\* A session was opened on the slot's worker; a client of one has closed it.
Used == \E s \in Session : on[s] = worker

Closed == \E s \in Session : on[s] = worker /\ sender[s] = "dropped"

Ending == IF Closed THEN {Null} ELSE {}

Shape ==
    /\ available \in BOOLEAN /\ worker \in Nat \ {0} /\ dead \in BOOLEAN
    /\ opened \in 0..Sessions /\ on \in [Session -> Nat]
    /\ sender \in [Session -> {"none", "open", "dropped"}]
    /\ sent \in [Session -> 0..MaxRequests] /\ payload \in Payloads
    /\ proxying \in [Session -> BOOLEAN] /\ forwarding \in [Session -> BOOLEAN]
    /\ died \subseteq Session
    /\ requestTx \in BOOLEAN /\ wedged \in BOOLEAN /\ stuck \in BOOLEAN
    /\ startedBy \in 0..Sessions
    /\ fn \in {"idle", "running", "returned", "stopped"}
    /\ made \in 0..MaxResponses /\ looping \in BOOLEAN
    /\ onmessage \in 0..Sessions /\ receiving \in [Session -> BOOLEAN]

\* What the tasks of the main thread hold: requests of their own session, and
\* responses of the worker the session was opened on.
Held ==
    /\ proxy \in [Session -> Seq(Message)] /\ feed \in [Session -> Seq(Message)]
    /\ answers \in [Session -> Seq(Message)]
    /\ \A s \in Session : /\ proxy[s] \in Seq(Own(s)) /\ feed[s] \in Seq(Own(s))
                          /\ answers[s] \in Seq(Of(on[s]))

\* What the worker holds, and what is on its way from and to it.
OnWorker ==
    /\ inbox \in Seq(Of(worker) \union Ending)
    /\ work \in Seq(Of(worker)) /\ taken \in Seq(Of(worker))
    /\ replies \in Seq(Of(worker)) /\ outbox \in Seq(Of(worker) \union {Null})
    /\ requestTx \/ Used

\* Sessions are opened one by one, on workers that were there.
Openings ==
    \A s \in Session :
        /\ s <= opened => /\ on[s] \in 1..worker /\ sender[s] # "none"
                          /\ proxying[s] \/ sender[s] = "dropped"
        /\ s > opened => /\ on[s] = 0 /\ sender[s] = "none"
                         /\ ~proxying[s] /\ ~forwarding[s] /\ answers[s] = <<>>

\* A worker is replaced only when a session was opened on it.
Replacements ==
    worker <= opened + 1 /\ (available \/ worker <= opened)

\* The function was started by a session of its worker, and its responses find the
\* closure of such a session.
Installed ==
    /\ startedBy # 0 => startedBy \in Session /\ on[startedBy] = worker
    /\ fn # "idle" \/ looping => startedBy # 0
    /\ onmessage # 0 => onmessage \in Session /\ on[onmessage] = worker
    /\ \A s \in Session : on[s] = worker => onmessage # 0
    /\ outbox # <<>> => onmessage # 0

IInv == Shape /\ Held /\ OnWorker /\ Openings /\ Replacements /\ Installed

-----------------------------------------------------------------------------
(* The slot.                                                               *)

\* The proxy task of a session whose worker was replaced may give back the slot.
Strayed == \E t \in 1..opened : on[t] < worker /\ sender[t] = "dropped"

\* Otherwise the sessions before the one that has the slot are over.
SlotInv ==
    \/ Strayed
    \/ \A s \in 1..opened :
          on[s] = worker /\ (available \/ s # opened) => sender[s] = "dropped" /\ ~proxying[s]

-----------------------------------------------------------------------------
LEMMA InitIInv == Init => IInv
<1> SUFFICES ASSUME Init PROVE IInv
  OBVIOUS
<1> USE DEF Init
<1>1. \A S : <<>> \in Seq(S)
  BY EmptySeq
<1>2. Shape
  <2>1. /\ 0 \in 0..Sessions /\ 0 \in 0..MaxRequests /\ 0 \in 0..MaxResponses
        /\ 1 \in Nat \ {0}
    BY SessionsAssumption
  <2> QED
    BY <2>1 DEF Shape
<1>3. Held
  BY <1>1 DEF Held
<1>4. OnWorker
  BY <1>1 DEF OnWorker
<1>5. Openings /\ Replacements /\ Installed
  BY DEF Openings, Replacements, Installed, Session
<1> QED
  BY <1>2, <1>3, <1>4, <1>5 DEF IInv

LEMMA SessionIds ==
    /\ Session \subseteq 0..Sessions /\ Session \subseteq Nat \ {0}
    /\ \A s \in 0..Sessions : s # 0 => s \in Session
    /\ Sessions \in Nat
  BY SessionsAssumption DEF Session

\* What a message of a set is.
LEMMA OwnMessages == \A s \in Session : Own(s) \subseteq Message
  BY SessionsAssumption DEF Own, Message, Session

LEMMA OfMessages == \A w : Of(w) \subseteq Message /\ Null \notin Of(w)
  BY SessionsAssumption DEF Of, Message, Session, Null

LEMMA EndingMessages == Ending \subseteq {Null}
  BY DEF Ending

\* What lies before and behind the k-th message of a queue.
LEMMA Parts ==
    ASSUME NEW S, NEW q \in Seq(S), NEW k \in DOMAIN q
    PROVE  /\ SubSeq(q, 1, k - 1) \in Seq(S) /\ SubSeq(q, k + 1, Len(q)) \in Seq(S)
           /\ k \in 1..Len(q) /\ Len(q) \in Nat /\ q[k] \in S
           /\ Len(SubSeq(q, 1, k - 1)) = k - 1 /\ Len(SubSeq(q, k + 1, Len(q))) = Len(q) - k
           /\ \A i \in 1..(k - 1) : SubSeq(q, 1, k - 1)[i] = q[i]
           /\ \A i \in 1..(Len(q) - k) : SubSeq(q, k + 1, Len(q))[i] = q[i + k]
<1> DEFINE l == Len(q)
<1>1. l \in Nat /\ DOMAIN q = 1..l /\ \A i \in 1..l : q[i] \in S
  BY LenProperties
<1> HIDE DEF l
<1>2. /\ SubSeq(q, 1, k - 1) \in Seq(S)
      /\ Len(SubSeq(q, 1, k - 1)) = IF 1 <= k - 1 THEN k - 1 - 1 + 1 ELSE 0
      /\ \A i \in 1..(k - 1 - 1 + 1) : SubSeq(q, 1, k - 1)[i] = q[1 + i - 1]
  <2>1. /\ 1 \in Int /\ k - 1 \in Int /\ \A i \in 1..(k - 1) : q[i] \in S
    BY <1>1
  <2> QED
    BY <2>1, SubSeqProperties
<1>3. /\ SubSeq(q, k + 1, l) \in Seq(S)
      /\ Len(SubSeq(q, k + 1, l)) = IF k + 1 <= l THEN l - (k + 1) + 1 ELSE 0
      /\ \A i \in 1..(l - (k + 1) + 1) : SubSeq(q, k + 1, l)[i] = q[(k + 1) + i - 1]
  <2>1. /\ k + 1 \in Int /\ l \in Int /\ \A i \in (k + 1)..l : q[i] \in S
    BY <1>1
  <2> QED
    BY <2>1, SubSeqProperties
<1>4. \A i \in Nat : 1 + i - 1 = i /\ (k + 1) + i - 1 = i + k
  BY <1>1
<1>5. /\ k \in 1..l /\ k - 1 - 1 + 1 = k - 1 /\ l - (k + 1) + 1 = l - k
      /\ (IF 1 <= k - 1 THEN k - 1 - 1 + 1 ELSE 0) = k - 1
      /\ (IF k + 1 <= l THEN l - (k + 1) + 1 ELSE 0) = l - k
      /\ \A i \in 1..(k - 1) : i \in Nat
      /\ \A i \in 1..(l - k) : i \in Nat
  BY <1>1
<1>6. \A i \in 1..(k - 1) : SubSeq(q, 1, k - 1)[i] = q[i]
  BY <1>2, <1>4, <1>5
<1>7. \A i \in 1..(l - k) : SubSeq(q, k + 1, l)[i] = q[i + k]
  BY <1>3, <1>4, <1>5
<1> QED
  BY <1>1, <1>2, <1>3, <1>5, <1>6, <1>7 DEF l

-----------------------------------------------------------------------------
(* The steps on the worker thread.                                         *)

\* They leave the sessions as they are.
LEMMA SessionsStay ==
    ASSUME IInv, UNCHANGED <<slotVars, clientVars, taskVars>>
    PROVE  /\ Of(worker)' = Of(worker) /\ Ending' = Ending /\ Closed' = Closed
           /\ Used' = Used
           /\ \A s \in Session : Of(on[s])' = Of(on[s])
           /\ Openings' = (\A s \in Session :
                              /\ s <= opened => /\ on[s] \in 1..worker /\ sender[s] # "none"
                                                /\ proxying[s] \/ sender[s] = "dropped"
                              /\ s > opened => /\ on[s] = 0 /\ sender[s] = "none"
                                               /\ ~proxying[s] /\ ~forwarding[s]
                                               /\ answers'[s] = <<>>)
           /\ Replacements'
  BY DEF IInv, slotVars, clientVars, taskVars, Of, Closed, Used, Ending, Openings, Replacements

WorkerStep ==
    WorkerReceive \/ FnTake \/ FnRespond \/ FnReturn \/ FnStop \/ RunLoop \/ LoopPanics

LEMMA WorkerSteps == ASSUME IInv, WorkerStep PROVE IInv'
<1>1. UNCHANGED <<slotVars, clientVars, taskVars, mainVars>>
  BY DEF WorkerStep, WorkerReceive, ReceiveNull, ReceiveFirst, ReceiveRequest, ReceivePanics,
     ReceiveNothing, FnTake, FnRespond, FnReturn, FnStop, Ends, RunLoop, LoopPanics
<1>2. /\ Of(worker)' = Of(worker) /\ Ending' = Ending /\ Closed' = Closed /\ Used' = Used
      /\ \A s \in Session : Of(on[s])' = Of(on[s])
  BY <1>1, SessionsStay
<1>3. Openings' /\ Replacements'
  BY <1>1, SessionsStay DEF mainVars, IInv, Openings
<1>4. Held'
  BY <1>1, <1>2 DEF IInv, Held, slotVars, taskVars, mainVars
<1>5. CASE WorkerReceive
  <2>1. /\ inbox # <<>> /\ inbox' = Tail(inbox)
        /\ UNCHANGED <<taken, replies, made, outbox>>
    BY <1>5 DEF WorkerReceive, ReceiveNull, ReceiveFirst, ReceiveRequest, ReceivePanics,
       ReceiveNothing, NextIsNull, NextIsData, workerVars
  <2>2. /\ Head(inbox) \in Of(worker) \union Ending
        /\ inbox' \in Seq(Of(worker) \union Ending)
    BY <2>1, HeadTailProperties DEF IInv, OnWorker
  <2>3. /\ NextIsData => Head(inbox) \in Of(worker)
        /\ Used
    BY <2>2, OfMessages DEF NextIsData, NullRequest, Ending, Of, Closed, Used
  <2>4. work' \in Seq(Of(worker)) /\ (requestTx' \/ Used)
    <3>1. CASE ReceiveNull
      BY <2>3, <3>1 DEF ReceiveNull, IInv, OnWorker
    <3>2. CASE ReceiveRequest
      <4>1. Append(work, Head(inbox)) \in Seq(Of(worker))
        BY <2>3, <3>2, AppendProperties DEF ReceiveRequest, IInv, OnWorker
      <4> QED
        BY <3>2, <4>1 DEF ReceiveRequest, IInv, OnWorker
    <3>3. CASE ReceiveFirst \/ ReceivePanics \/ ReceiveNothing
      BY <3>3 DEF ReceiveFirst, ReceivePanics, ReceiveNothing, workerVars, IInv, OnWorker
    <3> QED
      BY <1>5, <3>1, <3>2, <3>3 DEF WorkerReceive
  <2>5. OnWorker'
    BY <1>2, <2>1, <2>2, <2>4 DEF IInv, OnWorker
  <2>6. /\ requestTx' \in BOOLEAN /\ wedged' \in BOOLEAN /\ stuck' = stuck
        /\ \/ UNCHANGED <<startedBy, fn, looping>>
           \/ /\ startedBy' \in Session /\ on[startedBy'] = worker
              /\ fn' = "running" /\ looping' = TRUE
    <3>1. CASE ReceiveFirst
      BY <2>3, <3>1 DEF ReceiveFirst, Of, IInv, Shape
    <3>2. CASE ~ReceiveFirst
      BY <1>5, <3>2 DEF WorkerReceive, ReceiveNull, ReceiveRequest, ReceivePanics,
         ReceiveNothing, workerVars, IInv, Shape
    <3> QED
      BY <3>1, <3>2
  <2>7. Shape'
    <3>1. /\ startedBy' \in 0..Sessions
          /\ fn' \in {"idle", "running", "returned", "stopped"} /\ looping' \in BOOLEAN
      <4>1. CASE UNCHANGED <<startedBy, fn, looping>>
        BY <4>1 DEF IInv, Shape
      <4>2. CASE ~UNCHANGED <<startedBy, fn, looping>>
        BY <2>6, <4>2, SessionIds
      <4> QED
        BY <4>1, <4>2
    <3> QED
      BY <1>1, <2>1, <2>6, <3>1 DEF slotVars, clientVars, taskVars, mainVars, IInv, Shape
  <2>8. Installed'
    BY <1>1, <2>1, <2>6, SessionsAssumption
       DEF slotVars, mainVars, IInv, Installed, Session
  <2> QED
    BY <1>3, <1>4, <2>5, <2>7, <2>8 DEF IInv
<1>6. CASE FnTake
  <2>1. /\ Head(work) \in Of(worker) /\ Tail(work) \in Seq(Of(worker))
    BY <1>6, HeadTailProperties DEF FnTake, IInv, OnWorker
  <2>2. Append(taken, Head(work)) \in Seq(Of(worker))
    BY <2>1, AppendProperties DEF IInv, OnWorker
  <2>3. OnWorker'
    BY <1>2, <1>6, <2>1, <2>2 DEF FnTake, IInv, OnWorker
  <2>4. Shape' /\ Installed'
    BY <1>1, <1>6 DEF FnTake, slotVars, clientVars, taskVars, mainVars, IInv, Shape, Installed
  <2> QED
    BY <1>3, <1>4, <2>3, <2>4 DEF IInv
<1>7. CASE FnRespond
  <2>1. startedBy \in Session /\ on[startedBy] = worker /\ made \in Nat
    BY <1>7, SessionsAssumption DEF FnRespond, IInv, Installed, Shape
  <2>2. Response(made + 1) \in Of(worker)
    BY <2>1 DEF Of, Response
  <2>3. Append(replies, Response(made + 1)) \in Seq(Of(worker))
    BY <2>2, AppendProperties DEF IInv, OnWorker
  <2>4. OnWorker'
    BY <1>2, <1>7, <2>3 DEF FnRespond, IInv, OnWorker
  <2>5. made' \in 0..MaxResponses
    BY <1>7, <2>1, SessionsAssumption DEF FnRespond, IInv, Shape
  <2>6. Shape' /\ Installed'
    BY <1>1, <1>7, <2>5 DEF FnRespond, slotVars, clientVars, taskVars, mainVars, IInv, Shape,
       Installed
  <2> QED
    BY <1>3, <1>4, <2>4, <2>6 DEF IInv
<1>8. CASE FnReturn \/ FnStop
  <2>1. PICK how \in {"returned", "stopped"} : Ends(how)
    BY <1>8 DEF FnReturn, FnStop
  <2>2. <<>> \in Seq(Of(worker))
    BY EmptySeq
  <2>3. OnWorker'
    BY <1>2, <2>1, <2>2 DEF Ends, IInv, OnWorker
  <2>4. Shape' /\ Installed'
    BY <1>1, <2>1 DEF Ends, slotVars, clientVars, taskVars, mainVars, IInv, Shape, Installed
  <2> QED
    BY <1>3, <1>4, <2>3, <2>4 DEF IInv
<1>9. CASE RunLoop
  <2> DEFINE S == Of(worker) \union {Null}
             ending == IF Over THEN <<Null>> ELSE <<>>
  <2>1. replies \in Seq(S) /\ outbox \in Seq(S) /\ ending \in Seq(S)
    <3>1. Of(worker) \subseteq S
      OBVIOUS
    <3>2. replies \in Seq(S)
      BY <3>1, SeqMonotonic DEF IInv, OnWorker
    <3>3. <<Null>> \in Seq(S) /\ <<>> \in Seq(S)
      BY EmptySeq
    <3> QED
      BY <3>2, <3>3 DEF IInv, OnWorker
  <2>2. outbox' \in Seq(S)
    <3>1. outbox \o replies \in Seq(S)
      BY <2>1, ConcatProperties
    <3>2. (outbox \o replies) \o ending \in Seq(S)
      BY <2>1, <3>1, ConcatProperties
    <3> QED
      BY <1>9, <3>2 DEF RunLoop
  <2>3. <<>> \in Seq(Of(worker))
    BY EmptySeq
  <2>4. OnWorker'
    BY <1>2, <1>9, <2>2, <2>3 DEF RunLoop, IInv, OnWorker
  <2>5. startedBy \in Session /\ on[startedBy] = worker /\ onmessage # 0
    BY <1>9 DEF RunLoop, IInv, Installed
  <2>6. Shape' /\ Installed'
    BY <1>1, <1>9, <2>5 DEF RunLoop, Over, slotVars, clientVars, taskVars, mainVars, IInv, Shape,
       Installed
  <2> QED
    BY <1>3, <1>4, <2>4, <2>6 DEF IInv
<1>10. CASE LoopPanics
  <2>1. PICK k \in DOMAIN replies :
            /\ outbox' = outbox \o SubSeq(replies, 1, k - 1)
            /\ replies' = SubSeq(replies, k + 1, Len(replies))
    BY <1>10 DEF LoopPanics
  <2> DEFINE first == SubSeq(replies, 1, k - 1)
             rest == SubSeq(replies, k + 1, Len(replies))
  <2>2. first \in Seq(Of(worker)) /\ rest \in Seq(Of(worker))
    <3>1. replies \in Seq(Of(worker))
      BY DEF IInv, OnWorker
    <3> QED
      BY <3>1, Parts
  <2> HIDE DEF first, rest
  <2>3. outbox \o first \in Seq(Of(worker) \union {Null})
    <3>1. Of(worker) \subseteq Of(worker) \union {Null}
      OBVIOUS
    <3>2. first \in Seq(Of(worker) \union {Null})
      BY <2>2, <3>1, SeqMonotonic
    <3> QED
      BY <3>2, ConcatProperties DEF IInv, OnWorker
  <2>4. OnWorker'
    BY <1>2, <1>10, <2>1, <2>2, <2>3 DEF LoopPanics, IInv, OnWorker, first, rest
  <2>5. startedBy \in Session /\ on[startedBy] = worker /\ onmessage # 0
    BY <1>10 DEF LoopPanics, IInv, Installed
  <2>6. Shape' /\ Installed'
    BY <1>1, <1>10, <2>5 DEF LoopPanics, slotVars, clientVars, taskVars, mainVars, IInv, Shape,
       Installed
  <2> QED
    BY <1>3, <1>4, <2>4, <2>6 DEF IInv
<1> QED
  BY <1>5, <1>6, <1>7, <1>8, <1>9, <1>10 DEF WorkerStep

-----------------------------------------------------------------------------
(* The steps on the main thread.                                           *)

LEMMA OpenStep == ASSUME IInv, NEW s \in Session, Open(s) PROVE IInv'
<1> USE DEF IInv
<1>1. /\ s = opened + 1 /\ s > opened /\ on[s] = 0 /\ sender[s] = "none"
      /\ answers[s] = <<>> /\ worker \in Nat \ {0} /\ opened \in Nat
  <2>1. worker \in Nat \ {0} /\ opened \in Nat
    BY SessionsAssumption DEF Shape
  <2>2. s = opened + 1 /\ s > opened
    BY <2>1, SessionIds DEF Open
  <2>3. on[s] = 0 /\ sender[s] = "none" /\ answers[s] = <<>>
    BY <2>2 DEF Openings
  <2> QED
    BY <2>1, <2>2, <2>3
<1>2. /\ on' = [on EXCEPT ![s] = worker] /\ worker' = worker /\ opened' = s
      /\ sender' = [sender EXCEPT ![s] = "open"]
      /\ \A t \in Session \ {s} : on'[t] = on[t] /\ sender'[t] = sender[t]
      /\ on'[s] = worker /\ sender'[s] = "open"
      /\ UNCHANGED <<workerVars, outbox, answers, proxy, feed>>
  BY DEF Open, Shape
<1>3. Of(worker)' = [session : {t \in Session : on[t] = worker} \union {s}, n : Nat]
  BY <1>1, <1>2 DEF Of
<1>4. Of(worker) \subseteq Of(worker)' /\ InitData(s) \in Of(worker)'
  BY <1>3 DEF Of, InitData, Request
<1>5. (Closed => Closed') /\ Used'
  BY <1>1, <1>2 DEF Closed, Used
<1>6. Ending \subseteq Ending'
  BY <1>5 DEF Ending
<1>7. Held'
  <2>1. ASSUME NEW t \in Session PROVE answers'[t] \in Seq(Of(on[t])')
    <3>1. CASE on[t] = 0
      <4>1. t > opened
        BY <3>1, SessionIds DEF Openings, Shape
      <4>2. answers'[t] = <<>>
        BY <1>2, <4>1 DEF Openings
      <4> QED
        BY <4>2, EmptySeq
    <3>2. CASE on[t] # 0
      <4>1. t # s /\ on'[t] = on[t]
        BY <1>1, <1>2, <3>2
      <4>2. Of(on[t]) \subseteq [session : {q \in Session : on'[q] = on'[t]}, n : Nat]
        BY <1>1, <1>2, <3>2, <4>1 DEF Of
      <4>3. answers'[t] \in Seq(Of(on[t]))
        BY <1>2 DEF Held
      <4> QED
        BY <4>2, <4>3, SeqMonotonic DEF Of
    <3> QED
      BY <3>1, <3>2
  <2> QED
    BY <1>2, <2>1 DEF Held
<1>8. OnWorker'
  <2>1. inbox' \in Seq((Of(worker) \union Ending)')
    <3>1. inbox \in Seq((Of(worker) \union Ending)')
      BY <1>4, <1>6, SeqMonotonic DEF OnWorker
    <3>2. Append(inbox, InitData(s)) \in Seq((Of(worker) \union Ending)')
      BY <1>4, <3>1, AppendProperties
    <3> QED
      BY <3>1, <3>2 DEF Open
  <2>2. /\ work \in Seq(Of(worker)') /\ taken \in Seq(Of(worker)')
        /\ replies \in Seq(Of(worker)') /\ outbox \in Seq((Of(worker) \union {Null})')
    BY <1>4, SeqMonotonic DEF OnWorker
  <2> QED
    BY <1>2, <1>5, <2>1, <2>2 DEF OnWorker, workerVars
<1>9. Shape'
  <2>1. /\ on' \in [Session -> Nat]
        /\ sender' \in [Session -> {"none", "open", "dropped"}]
        /\ proxying' \in [Session -> BOOLEAN] /\ forwarding' \in [Session -> BOOLEAN]
        /\ receiving' \in [Session -> BOOLEAN]
    BY <1>1 DEF Open, Shape
  <2>2. opened' \in 0..Sessions /\ onmessage' \in 0..Sessions /\ available' \in BOOLEAN
    BY SessionIds DEF Open
  <2>3. UNCHANGED <<worker, dead, sent, payload, died, requestTx, wedged, stuck, startedBy, fn,
                    made, looping>>
    BY DEF Open, workerVars
  <2> QED
    BY <2>1, <2>2, <2>3 DEF Shape
<1>10. Openings'
  BY <1>1, <1>2, SessionIds DEF Open, Openings, Shape
<1>11. Replacements'
  BY <1>1, <1>2 DEF Open, Replacements
<1>12. Installed'
  BY <1>1, <1>2, SessionIds DEF Open, Installed, Shape, workerVars
<1> QED
  BY <1>7, <1>8, <1>9, <1>10, <1>11, <1>12

\* The client and the tasks of a session on the main thread.
ClientStep(s) ==
    ClientSend(s) \/ ClientClose(s) \/ RunProxy(s) \/ RunForwarder(s) \/ ForwarderPanics(s)

LEMMA ClientSteps == ASSUME IInv, NEW s \in Session, ClientStep(s) PROVE IInv'
<1> USE DEF IInv
<1>0. UNCHANGED <<worker, dead, opened, on, payload, workerVars, outbox, mainVars>>
  BY DEF ClientStep, ClientSend, ClientClose, RunProxy, RunForwarder, ForwarderPanics,
     slotVars, clientVars
<1>1. s <= opened
  <2>1. sender[s] = "open" \/ proxying[s] \/ forwarding[s]
    BY DEF ClientStep, ClientSend, ClientClose, RunProxy, RunForwarder, ForwarderPanics
  <2>2. ~(s > opened)
    BY <2>1 DEF Openings
  <2>3. s \in Nat /\ opened \in Nat
    BY SessionIds DEF Shape
  <2> QED
    BY <2>2, <2>3
<1>2. /\ Of(worker)' = Of(worker) /\ \A t \in Session : Of(on[t])' = Of(on[t])
  BY <1>0 DEF Of
<1>3. \A t \in Session : sender'[t] = sender[t] \/ (t = s /\ sender'[t] = "dropped")
  BY DEF ClientStep, ClientSend, ClientClose, RunProxy, RunForwarder, ForwarderPanics,
     clientVars, Shape
<1>4. (Closed => Closed') /\ Used' = Used
  BY <1>0, <1>3 DEF Closed, Used
<1>5. Ending \subseteq Ending'
  BY <1>4 DEF Ending
<1>6. proxy[s] \in Seq(Own(s)) /\ feed[s] \in Seq(Own(s))
  BY DEF Held
<1>7. feed[s] \o proxy[s] \in Seq(Own(s)) /\ <<>> \in Seq(Own(s))
  BY <1>6, ConcatProperties, EmptySeq
<1>17. ASSUME NEW k \in DOMAIN feed[s]
       PROVE  /\ SubSeq(feed[s], 1, k - 1) \in Seq(Own(s))
              /\ SubSeq(feed[s], k + 1, Len(feed[s])) \in Seq(Own(s))
  BY <1>6, Parts
<1>8. Append(proxy[s], Request(s, sent[s] + 1)) \in Seq(Own(s))
  <2>1. sent[s] \in Nat
    BY SessionsAssumption DEF Shape
  <2>2. Request(s, sent[s] + 1) \in Own(s)
    BY <2>1 DEF Request, Own
  <2> QED
    BY <1>6, <2>2, AppendProperties
<1>9. \A q \in Seq(Own(s)) : q \in Seq(Message)
  BY OwnMessages, SeqMonotonic
<1>10. Held'
  <2>1. /\ proxy' \in [Session -> Seq(Message)] /\ feed' \in [Session -> Seq(Message)]
        /\ \A t \in Session : proxy'[t] \in Seq(Own(t)) /\ feed'[t] \in Seq(Own(t))
    <3>1. \/ UNCHANGED proxy
          \/ proxy' = [proxy EXCEPT ![s] = <<>>]
          \/ proxy' = [proxy EXCEPT ![s] = Append(proxy[s], Request(s, sent[s] + 1))]
      BY DEF ClientStep, ClientSend, ClientClose, RunProxy, RunForwarder, ForwarderPanics,
         taskVars, Held
    <3>2. \/ UNCHANGED feed
          \/ feed' = [feed EXCEPT ![s] = <<>>]
          \/ feed' = [feed EXCEPT ![s] = feed[s] \o proxy[s]]
          \/ \E k \in DOMAIN feed[s] :
                feed' = [feed EXCEPT ![s] = SubSeq(feed[s], k + 1, Len(feed[s]))]
      BY DEF ClientStep, ClientSend, ClientClose, RunProxy, RunForwarder, ForwarderPanics,
         taskVars, Held
    <3>3. /\ proxy' \in [Session -> Seq(Message)]
          /\ \A t \in Session : proxy'[t] \in Seq(Own(t))
      BY <1>7, <1>8, <1>9, <3>1 DEF Held
    <3>4. /\ feed' \in [Session -> Seq(Message)]
          /\ \A t \in Session : feed'[t] \in Seq(Own(t))
      <4>1. ASSUME NEW q \in Seq(Own(s)), feed' = [feed EXCEPT ![s] = q]
            PROVE  /\ feed' \in [Session -> Seq(Message)]
                   /\ \A t \in Session : feed'[t] \in Seq(Own(t))
        BY <1>9, <4>1 DEF Held
      <4>2. CASE UNCHANGED feed
        BY <4>2 DEF Held
      <4> QED
        BY <1>7, <1>17, <3>2, <4>1, <4>2
    <3> QED
      BY <3>3, <3>4
  <2> QED
    BY <1>0, <1>2, <2>1 DEF Held, mainVars
<1>11. inbox' \in Seq((Of(worker) \union Ending)')
  <2>1. inbox \in Seq((Of(worker) \union Ending)')
    BY <1>2, <1>5, SeqMonotonic DEF OnWorker
  <2>2. ASSUME RunForwarder(s), Reaches(s)
        PROVE  inbox' \in Seq((Of(worker) \union Ending)')
    <3> DEFINE ending == IF proxying[s] THEN <<>> ELSE <<Null>>
               S == (Of(worker) \union Ending)'
    <3>1. Own(s) \subseteq S
      BY <1>2, <2>2 DEF Own, Of, Reaches
    <3>2. feed[s] \in Seq(S)
      BY <1>6, <3>1, SeqMonotonic
    <3>3. ~proxying[s] => Closed
      BY <1>1, <2>2 DEF Openings, Closed, Reaches
    <3>4. ending \in Seq(S)
      <4>1. CASE proxying[s]
        BY <4>1, EmptySeq
      <4>2. CASE ~proxying[s]
        BY <1>4, <3>3, <4>2 DEF Ending
      <4> QED
        BY <4>1, <4>2
    <3> HIDE DEF S
    <3>5. inbox \o feed[s] \in Seq(S)
      BY <2>1, <3>2, ConcatProperties DEF S
    <3>6. (inbox \o feed[s]) \o ending \in Seq(S)
      BY <3>4, <3>5, ConcatProperties
    <3>7. inbox' = (inbox \o feed[s]) \o ending
      BY <2>2 DEF RunForwarder
    <3> QED
      BY <3>6, <3>7 DEF S
  <2>4. ASSUME ForwarderPanics(s), Reaches(s)
        PROVE  inbox' \in Seq((Of(worker) \union Ending)')
    <3>1. PICK k \in DOMAIN feed[s] : inbox' = inbox \o SubSeq(feed[s], 1, k - 1)
      BY <2>4 DEF ForwarderPanics
    <3> DEFINE first == SubSeq(feed[s], 1, k - 1)
    <3>2. first \in Seq(Own(s))
      BY <1>17
    <3> HIDE DEF first
    <3>3. Own(s) \subseteq (Of(worker) \union Ending)'
      BY <1>2, <2>4 DEF Own, Of, Reaches
    <3>4. first \in Seq((Of(worker) \union Ending)')
      BY <3>2, <3>3, SeqMonotonic
    <3> QED
      BY <2>1, <3>1, <3>4, ConcatProperties DEF first
  <2>3. (RunForwarder(s) /\ Reaches(s)) \/ (ForwarderPanics(s) /\ Reaches(s)) \/ inbox' = inbox
    BY DEF ClientStep, ClientSend, ClientClose, RunProxy, RunForwarder, ForwarderPanics
  <2> QED
    BY <2>1, <2>2, <2>3, <2>4
<1>12. OnWorker'
  BY <1>0, <1>2, <1>4, <1>11 DEF OnWorker, workerVars
<1>13. Shape'
  <2>1. /\ sender' \in [Session -> {"none", "open", "dropped"}]
        /\ sent' \in [Session -> 0..MaxRequests]
        /\ proxying' \in [Session -> BOOLEAN] /\ forwarding' \in [Session -> BOOLEAN]
        /\ available' \in BOOLEAN /\ died' \subseteq Session
    <3>1. CASE ClientSend(s)
      <4>1. sent[s] + 1 \in 0..MaxRequests
        BY <3>1, SessionsAssumption DEF ClientSend, Shape
      <4> QED
        BY <3>1, <4>1 DEF ClientSend, slotVars, clientVars, Shape
    <3>2. CASE ClientClose(s)
      BY <3>2 DEF ClientClose, slotVars, taskVars, Shape
    <3>3. CASE RunProxy(s)
      <4>1. (sender[s] # "dropped") \in BOOLEAN
        OBVIOUS
      <4>2. available' \in BOOLEAN
        BY <3>3 DEF RunProxy, Shape
      <4>3. proxying' \in [Session -> BOOLEAN]
        BY <3>3, <4>1 DEF RunProxy, Shape
      <4> QED
        BY <3>3, <4>2, <4>3 DEF RunProxy, clientVars, Shape
    <3>4. CASE RunForwarder(s) \/ ForwarderPanics(s)
      BY <3>4 DEF RunForwarder, ForwarderPanics, slotVars, clientVars, Shape
    <3> QED
      BY <3>1, <3>2, <3>3, <3>4 DEF ClientStep
  <2> QED
    BY <1>0, <2>1 DEF Shape, workerVars, mainVars
<1>14. Openings'
  <2>1. \A t \in Session \ {s} : UNCHANGED <<proxying[t], forwarding[t]>>
    BY DEF ClientStep, ClientSend, ClientClose, RunProxy, RunForwarder, ForwarderPanics,
       taskVars, Shape
  <2>2. /\ sender'[s] # "none" /\ (proxying'[s] \/ sender'[s] = "dropped")
    BY <1>1, <1>3 DEF ClientStep, ClientSend, ClientClose, RunProxy, RunForwarder, ForwarderPanics,
       clientVars, taskVars, Shape, Openings
  <2> QED
    BY <1>0, <1>1, <1>3, <2>1, <2>2, SessionIds DEF Openings, mainVars, Shape
<1>15. Replacements'
  BY <1>0 DEF ClientStep, ClientSend, ClientClose, RunProxy, RunForwarder, ForwarderPanics,
     slotVars, Replacements
<1>16. Installed'
  BY <1>0 DEF Installed, workerVars, mainVars
<1> QED
  BY <1>10, <1>12, <1>13, <1>14, <1>15, <1>16

LEMMA MainReceiveStep == ASSUME IInv, MainReceive PROVE IInv'
<1> DEFINE m == Head(outbox)
           s == onmessage
<1>1. /\ outbox # <<>> /\ outbox' = Tail(outbox)
      /\ receiving' = IF NullResponse(m) THEN [receiving EXCEPT ![s] = FALSE] ELSE receiving
      /\ answers' = IF ~NullResponse(m) /\ receiving[s]
                    THEN [answers EXCEPT ![s] = Append(@, m)] ELSE answers
      /\ UNCHANGED <<slotVars, clientVars, taskVars, inbox, workerVars, onmessage>>
  BY DEF MainReceive
<1>2. s \in Session /\ on[s] = worker
  BY <1>1 DEF IInv, Installed
<1>3. m \in Of(worker) \union {Null} /\ Tail(outbox) \in Seq(Of(worker) \union {Null})
  BY <1>1, HeadTailProperties DEF IInv, OnWorker
<1>4. s <= opened
  <2>1. worker # 0
    BY DEF IInv, Shape
  <2>2. ~(s > opened)
    BY <1>2, <2>1 DEF IInv, Openings
  <2> QED
    BY <1>2, <2>2, SessionIds DEF IInv, Shape
<1>5. /\ Of(worker)' = Of(worker) /\ Ending' = Ending /\ Closed' = Closed
      /\ \A t \in Session : Of(on[t])' = Of(on[t])
      /\ Replacements' /\ Used' = Used
  BY <1>1, SessionsStay
<1>6. /\ answers' \in [Session -> Seq(Message)]
      /\ \A t \in Session : answers'[t] \in Seq(Of(on[t]))
      /\ \A t \in Session \ {s} : answers'[t] = answers[t]
  <2>1. CASE answers' = answers
    BY <2>1 DEF IInv, Held
  <2>2. CASE answers' # answers
    <3>1. answers' = [answers EXCEPT ![s] = Append(answers[s], m)] /\ m \in Of(on[s])
      BY <1>1, <1>2, <1>3, <2>2 DEF NullResponse
    <3>2. Append(answers[s], m) \in Seq(Of(on[s]))
      BY <1>2, <3>1, AppendProperties DEF IInv, Held
    <3>3. Append(answers[s], m) \in Seq(Message)
      BY <3>2, OfMessages, SeqMonotonic
    <3> QED
      BY <1>2, <3>1, <3>2, <3>3 DEF IInv, Held
  <2> QED
    BY <2>1, <2>2
<1>7. Held'
  BY <1>1, <1>5, <1>6 DEF IInv, Held, slotVars, taskVars
<1>8. OnWorker'
  BY <1>1, <1>3, <1>5 DEF IInv, OnWorker, workerVars
<1>9. Shape'
  <2>1. receiving' \in [Session -> BOOLEAN]
    BY <1>1 DEF IInv, Shape
  <2> QED
    BY <1>1, <2>1 DEF IInv, Shape, slotVars, clientVars, taskVars, workerVars
<1>10. Openings'
  <2>1. \A t \in Session : t > opened => t # s
    BY <1>2, <1>4, SessionIds DEF IInv, Shape
  <2> QED
    BY <1>1, <1>6, <2>1 DEF IInv, Openings, slotVars, clientVars, taskVars
<1>11. Installed'
  BY <1>1, <1>2 DEF IInv, Installed, slotVars, workerVars
<1> QED
  BY <1>5, <1>7, <1>8, <1>9, <1>10, <1>11 DEF IInv

\* Nothing is left on a worker that is terminated, nor on its way from or to it.
LEMMA AbortSteps ==
    ASSUME IInv, NEW s \in Session, Abort(s) \/ AbortUnreplaced(s)
    PROVE  IInv'
<1>1. /\ inbox' = <<>> /\ outbox' = <<>> /\ work' = <<>> /\ taken' = <<>>
      /\ replies' = <<>> /\ requestTx' = TRUE /\ wedged' = FALSE /\ stuck' = FALSE
      /\ startedBy' = 0 /\ fn' = "idle" /\ made' = 0 /\ looping' = FALSE
      /\ UNCHANGED <<opened, on, clientVars, taskVars, receiving, answers>>
      /\ ~available
      /\ \/ worker' = worker + 1 /\ available' = TRUE /\ onmessage' = 0 /\ dead' = FALSE
         \/ UNCHANGED <<worker, available, onmessage>> /\ dead' = TRUE
  BY DEF Abort, AbortUnreplaced, Terminate, Armed, mainVars
<1>2. /\ worker \in Nat \ {0} /\ worker' \in Nat \ {0} /\ worker <= worker'
      /\ opened \in Nat
  BY <1>1, SessionIds DEF IInv, Shape
<1>3. Shape'
  <2>1. /\ 0 \in 0..MaxResponses /\ 0 \in 0..Sessions
    BY SessionsAssumption
  <2> QED
    BY <1>1, <1>2, <2>1 DEF IInv, Shape, clientVars, taskVars
<1>4. Held'
  <2>1. \A t \in Session : Of(on[t])' = Of(on[t])
    BY <1>1 DEF Of
  <2> QED
    BY <1>1, <2>1 DEF IInv, Held, taskVars
<1>5. OnWorker'
  BY <1>1, EmptySeq DEF OnWorker
<1>6. \A t \in Session : on[t] = 0 \/ on[t] \in 1..worker
  BY SessionIds DEF IInv, Openings, Shape
<1>7. Openings'
  <2>1. \A t \in Session : on[t] \in 1..worker => on[t] \in 1..worker'
    BY <1>2
  <2> QED
    BY <1>1, <2>1 DEF IInv, Openings, clientVars, taskVars
<1>8. Replacements'
  BY <1>1, <1>2 DEF IInv, Replacements
<1>9. Installed'
  <2>1. worker' = worker + 1 => \A t \in Session : on[t] # worker'
    BY <1>2, <1>6
  <2> QED
    BY <1>1, <2>1 DEF IInv, Installed
<1> QED
  BY <1>3, <1>4, <1>5, <1>7, <1>8, <1>9 DEF IInv

LEMMA NextIInv == ASSUME IInv, [Next]_vars PROVE IInv'
<1>1. CASE UNCHANGED vars
  <2>1. /\ UNCHANGED <<slotVars, clientVars, taskVars, inbox, workerVars, outbox, mainVars>>
    BY <1>1 DEF vars
  <2>2. /\ Of(worker)' = Of(worker) /\ Ending' = Ending /\ Closed' = Closed
        /\ \A t \in Session : Of(on[t])' = Of(on[t])
        /\ Replacements' /\ Used' = Used
    BY <2>1, SessionsStay
  <2>3. Shape' /\ Held' /\ OnWorker'
    BY <2>1, <2>2 DEF IInv, Shape, Held, OnWorker, slotVars, clientVars, taskVars, workerVars,
       mainVars
  <2>4. Openings' /\ Installed'
    BY <2>1 DEF IInv, Openings, Installed, slotVars, clientVars, taskVars, workerVars, mainVars
  <2> QED
    BY <2>2, <2>3, <2>4 DEF IInv
<1> QED
  BY <1>1, OpenStep, ClientSteps, AbortSteps, MainReceiveStep, WorkerSteps
     DEF Next, ClientStep, WorkerStep

THEOREM Invariance == Spec => []IInv
  BY InitIInv, NextIInv, PTL DEF Spec

\* What the tasks, the worker and the slot keep is well formed; in particular a
\* worker's responses always meet the closure of one of its sessions.
THEOREM SessionTyping == Spec => []TypeOK
<1>1. IInv => TypeOK
  <2> SUFFICES ASSUME IInv PROVE TypeOK
    OBVIOUS
  <2>1. /\ inbox \in Seq(Message) /\ work \in Seq(Message) /\ taken \in Seq(Message)
        /\ replies \in Seq(Message) /\ outbox \in Seq(Message)
    <3>1. /\ Of(worker) \subseteq Message
          /\ Of(worker) \union Ending \subseteq Message
          /\ Of(worker) \union {Null} \subseteq Message
      BY OfMessages, EndingMessages DEF Null, Message
    <3> QED
      BY <3>1, SeqMonotonic DEF IInv, OnWorker
  <2>2. worker \in 1..(Sessions + 1)
    BY SessionIds DEF IInv, Shape, Replacements
  <2>3. on \in [Session -> 0..(Sessions + 1)]
    <3>1. \A t \in Session : on[t] \in 0..(Sessions + 1)
      BY <2>2, SessionIds DEF IInv, Openings, Shape
    <3> QED
      BY <3>1 DEF IInv, Shape
  <2> QED
    BY <2>1, <2>2, <2>3 DEF IInv, Shape, Held, TypeOK
<1> QED
  BY Invariance, <1>1, PTL

-----------------------------------------------------------------------------
\* A task that may give back the slot of others may always do so.
LEMMA StrayedStays ==
    ASSUME IInv,
           worker' \in Nat, worker <= worker', opened' \in Nat, opened <= opened',
           \A t \in 1..opened : UNCHANGED on[t] /\ (sender[t] = "dropped" => UNCHANGED sender[t]),
           Strayed
    PROVE  Strayed'
<1>1. PICK t \in 1..opened : on[t] < worker /\ sender[t] = "dropped"
  BY DEF Strayed
<1>2. opened \in Nat /\ worker \in Nat /\ on[t] \in Nat
  BY <1>1, SessionIds DEF IInv, Shape, Session
<1>3. t \in 1..opened' /\ on'[t] < worker' /\ sender'[t] = "dropped"
  BY <1>1, <1>2
<1> QED
  BY <1>3 DEF Strayed

\* Who opens a session finds the slot available, and with it every session before
\* closed and its proxy task ended.
LEMMA OpenSlot == ASSUME IInv, SlotInv, NEW s \in Session, Open(s) PROVE SlotInv'
<1>1. /\ s = opened + 1 /\ available /\ ~available' /\ opened' = s
      /\ on' = [on EXCEPT ![s] = worker] /\ sender' = [sender EXCEPT ![s] = "open"]
      /\ proxying' = [proxying EXCEPT ![s] = TRUE]
      /\ worker' = worker
  BY DEF Open
<1>2. /\ opened \in Nat /\ opened' \in Nat /\ worker \in Nat
      /\ \A t \in 1..opened : t \in Session /\ t # s
      /\ \A t \in 1..opened' : t \in Session /\ (t # s => t \in 1..opened)
  BY <1>1, SessionIds DEF IInv, Shape, Session
<1>3. \A t \in 1..opened : UNCHANGED <<on[t], sender[t], proxying[t]>>
  BY <1>1, <1>2 DEF IInv, Shape
<1>4. CASE Strayed
  BY <1>1, <1>2, <1>3, <1>4, StrayedStays DEF SlotInv
<1>5. CASE ~Strayed
  <2>1. \A t \in 1..opened : on[t] = worker => sender[t] = "dropped" /\ ~proxying[t]
    BY <1>1, <1>5 DEF SlotInv
  <2>2. ASSUME NEW t \in 1..opened', on'[t] = worker', available' \/ t # opened'
        PROVE  sender'[t] = "dropped" /\ ~proxying'[t]
    BY <1>1, <1>2, <1>3, <2>1, <2>2
  <2> QED
    BY <2>2 DEF SlotInv
<1> QED
  BY <1>4, <1>5

\* The proxy task gives back the slot: of its own worker, where no other session is
\* left, or of one that came after it, when it strays.
LEMMA ProxySlot == ASSUME IInv, SlotInv, NEW s \in Session, RunProxy(s) PROVE SlotInv'
<1>1. /\ proxying[s] /\ UNCHANGED <<worker, opened, on, sender>>
      /\ proxying' = [proxying EXCEPT ![s] = sender[s] # "dropped"]
      /\ available' = (available \/ sender[s] = "dropped")
  BY DEF RunProxy, clientVars
<1>2. /\ opened \in Nat /\ worker \in Nat /\ s \in 1..opened /\ on[s] \in 1..worker
      /\ \A t \in 1..opened : t \in Session
  BY <1>1, SessionIds DEF IInv, Shape, Openings, Session
<1>3. \A t \in 1..opened : t # s => UNCHANGED proxying[t]
  BY <1>1, <1>2 DEF IInv, Shape
<1>4. CASE Strayed
  BY <1>1, <1>2, <1>4, StrayedStays DEF SlotInv
<1>5. CASE ~Strayed /\ sender[s] # "dropped"
  <2>1. UNCHANGED proxying /\ (available' <=> available)
    BY <1>1, <1>5 DEF IInv, Shape
  <2> QED
    BY <1>1, <1>5, <2>1 DEF SlotInv
<1>6. CASE ~Strayed /\ sender[s] = "dropped"
  <2>1. on[s] = worker
    BY <1>2, <1>6 DEF Strayed
  <2>2. s = opened /\ ~proxying'[s]
    BY <1>1, <1>2, <1>6, <2>1 DEF SlotInv, IInv, Shape
  <2>3. ASSUME NEW t \in 1..opened, on[t] = worker
        PROVE  sender[t] = "dropped" /\ ~proxying'[t]
    BY <1>3, <1>6, <2>2, <2>3 DEF SlotInv
  <2> QED
    BY <1>1, <2>3 DEF SlotInv
<1> QED
  BY <1>4, <1>5, <1>6

\* No session was opened yet on a worker that replaces another.
LEMMA AbortSlot == ASSUME IInv, SlotInv, NEW s \in Session, Abort(s) PROVE SlotInv'
<1>1. worker' = worker + 1 /\ UNCHANGED <<opened, on>>
  BY DEF Abort
<1>2. \A t \in 1..opened : on[t] \in 1..worker
  BY SessionIds DEF IInv, Shape, Openings, Session
<1>3. worker \in Nat
  BY DEF IInv, Shape
<1>4. \A t \in 1..opened' : on'[t] # worker'
  BY <1>1, <1>2, <1>3
<1> QED
  BY <1>4 DEF SlotInv

LEMMA SlotStep == ASSUME IInv, SlotInv, [Next]_vars PROVE SlotInv'
<1>1. ASSUME UNCHANGED <<available, worker, opened, on, proxying>>,
             UNCHANGED sender
               \/ \E s \in Session : sender' = [sender EXCEPT ![s] = "dropped"]
      PROVE  SlotInv'
  <2>1. /\ \A t \in 1..opened : sender[t] = "dropped" => sender'[t] = "dropped"
        /\ opened \in Nat /\ worker \in Nat
    BY <1>1, SessionIds DEF IInv, Shape, Session
  <2>2. CASE Strayed
    BY <1>1, <2>1, <2>2, StrayedStays DEF SlotInv
  <2>3. CASE ~Strayed
    BY <1>1, <2>1, <2>3 DEF SlotInv
  <2> QED
    BY <2>2, <2>3
<1>2. CASE UNCHANGED vars
  BY <1>1, <1>2 DEF vars, slotVars, clientVars, taskVars
<1>3. ASSUME NEW s \in Session,
             \/ ClientSend(s) \/ ClientClose(s) \/ RunForwarder(s) \/ ForwarderPanics(s)
             \/ AbortUnreplaced(s)
      PROVE  SlotInv'
  BY <1>1, <1>3 DEF ClientSend, ClientClose, RunForwarder, ForwarderPanics, AbortUnreplaced,
     slotVars, clientVars, taskVars
<1>4. ASSUME MainReceive \/ WorkerStep
      PROVE  SlotInv'
  <2>1. UNCHANGED <<slotVars, clientVars, taskVars>>
    BY <1>4 DEF MainReceive, WorkerStep, WorkerReceive, ReceiveNull, ReceiveFirst, ReceiveRequest,
       ReceivePanics, ReceiveNothing, FnTake, FnRespond, FnReturn, FnStop, Ends, RunLoop,
       LoopPanics
  <2> QED
    BY <1>1, <2>1 DEF slotVars, clientVars, taskVars
<1> QED
  BY <1>2, <1>3, <1>4, OpenSlot, ProxySlot, AbortSlot DEF Next, WorkerStep

\* A worker is offered while a client still holds a sender of one of its sessions only
\* after a proxy task gave back the slot of a session that was aborted before, never
\* by an abort that found no replacement (PoolExecutor::channel, AbortHandle::abort).
THEOREM OfferedWhenClosed == Spec => []OfferedOnlyWhenClosed
<1>1. Init => SlotInv
  BY DEF Init, SlotInv, Session
<1>2. Spec => []SlotInv
  BY <1>1, SlotStep, Invariance, PTL DEF Spec
<1>3. IInv /\ SlotInv => OfferedOnlyWhenClosed
  BY DEF SlotInv, Strayed, OfferedOnlyWhenClosed
<1> QED
  BY <1>2, <1>3, Invariance, PTL

-----------------------------------------------------------------------------
(***************************************************************************)
(* The order of requests and responses, and that none is lost.             *)
(***************************************************************************)

(* Queues whose messages of a set M rise.                                  *)

\* The messages of M in p have smaller numbers than those in q.
Before(p, q, M) == \A a \in Range(p) \cap M, b \in Range(q) \cap M : a.n < b.n

LEMMA Empty == Range(<<>>) = {} /\ \A M : Rising(<<>>, M)
  BY DEF Range, Rising

LEMMA Single == \A x : Range(<<x>>) = {x} /\ \A M : Rising(<<x>>, M)
  BY DEF Range, Rising

LEMMA Concatenated ==
    ASSUME NEW S, NEW p \in Seq(S), NEW q \in Seq(S), NEW M
    PROVE  /\ Range(p \o q) = Range(p) \union Range(q)
           /\ Rising(p \o q, M) <=> Rising(p, M) /\ Rising(q, M) /\ Before(p, q, M)
<1> DEFINE l == Len(p)
           m == Len(q)
           c == p \o q
<1>1. /\ l \in Nat /\ m \in Nat /\ Len(c) = l + m
      /\ DOMAIN p = 1..l /\ DOMAIN q = 1..m /\ DOMAIN c = 1..(l + m)
  BY ConcatProperties, LenProperties
<1>2. /\ \A k \in 1..l : k \in 1..(l + m) /\ c[k] = p[k]
      /\ \A k \in 1..m : k + l \in (l + 1)..(l + m) /\ k + l \in 1..(l + m) /\ c[k + l] = q[k]
      /\ \A k \in 1..(l + m) : k \in 1..l \/ (k - l \in 1..m /\ k = (k - l) + l)
  <2>1. \A k \in 1..(l + m) : c[k] = IF k <= l THEN p[k] ELSE q[k - l]
    BY ConcatProperties
  <2>2. ASSUME NEW k \in 1..m
        PROVE  /\ k + l \in (l + 1)..(l + m) /\ k + l \in 1..(l + m)
               /\ ~(k + l <= l) /\ (k + l) - l = k
    BY <1>1
  <2> HIDE DEF l, m, c
  <2>3. \A k \in 1..m : c[k + l] = q[k]
    BY <2>1, <2>2
  <2>4. \A k \in 1..l : k \in 1..(l + m) /\ c[k] = p[k]
    BY <1>1, <2>1
  <2> QED
    BY <1>1, <2>2, <2>3, <2>4
<1> HIDE DEF l, m, c
<1>3. Range(c) = Range(p) \union Range(q)
  BY RangeConcatenation DEF c
<1>4. ASSUME Rising(c, M) PROVE Rising(p, M) /\ Rising(q, M) /\ Before(p, q, M)
  <2>1. Rising(p, M)
    BY <1>1, <1>2, <1>4 DEF Rising
  <2>2. ASSUME NEW j \in 1..m, NEW k \in 1..m, j < k, q[j] \in M, q[k] \in M
        PROVE  q[j].n < q[k].n
    <3>1. j + l < k + l
      BY <1>1, <2>2
    <3>2. /\ j + l \in DOMAIN c /\ k + l \in DOMAIN c
          /\ c[j + l] = q[j] /\ c[k + l] = q[k]
      BY <1>1, <1>2
    <3>3. c[j + l].n < c[k + l].n
      BY <1>4, <2>2, <3>1, <3>2 DEF Rising
    <3> QED
      BY <3>2, <3>3
  <2>3. ASSUME NEW j \in 1..l, NEW k \in 1..m, p[j] \in M, q[k] \in M
        PROVE  p[j].n < q[k].n
    <3>1. j < k + l
      BY <1>1
    <3> QED
      BY <1>1, <1>2, <1>4, <2>3, <3>1 DEF Rising
  <2> QED
    BY <1>1, <2>1, <2>2, <2>3 DEF Rising, Before, Range
<1>5. ASSUME Rising(p, M), Rising(q, M), Before(p, q, M) PROVE Rising(c, M)
  <2> SUFFICES ASSUME NEW j \in 1..(l + m), NEW k \in 1..(l + m),
                      j < k, c[j] \in M, c[k] \in M
               PROVE  c[j].n < c[k].n
    BY <1>1 DEF Rising
  <2>1. CASE k \in 1..l
    <3>1. j \in 1..l
      BY <1>1, <2>1
    <3> QED
      BY <1>1, <1>2, <1>5, <2>1, <3>1 DEF Rising
  <2>2. CASE j \in 1..l /\ k \notin 1..l
    <3>1. c[j] = p[j] /\ k - l \in 1..m /\ c[k] = q[k - l]
      BY <1>2, <2>2
    <3>2. p[j] \in Range(p) /\ q[k - l] \in Range(q)
      BY <1>1, <2>2, <3>1 DEF Range
    <3> QED
      BY <1>5, <3>1, <3>2 DEF Before
  <2>3. CASE j \notin 1..l /\ k \notin 1..l
    <3>1. /\ j - l \in 1..m /\ k - l \in 1..m
          /\ c[j] = q[j - l] /\ c[k] = q[k - l]
      BY <1>2, <2>3
    <3>2. j - l < k - l
      BY <1>1
    <3> QED
      BY <1>1, <1>5, <3>1, <3>2 DEF Rising
  <2> QED
    BY <1>1, <2>1, <2>2, <2>3
<1> QED
  BY <1>3, <1>4, <1>5 DEF c

LEMMA Appended ==
    ASSUME NEW S, NEW q \in Seq(S), NEW x \in S, NEW M
    PROVE  /\ Range(Append(q, x)) = Range(q) \union {x}
           /\ Rising(Append(q, x), M) <=>
                  Rising(q, M) /\ (x \in M => \A a \in Range(q) \cap M : a.n < x.n)
<1>1. Append(q, x) = q \o <<x>> /\ <<x>> \in Seq(S)
  BY AppendIsConcat
<1>2. /\ Range(q \o <<x>>) = Range(q) \union Range(<<x>>)
      /\ Rising(q \o <<x>>, M) <=> Rising(q, M) /\ Rising(<<x>>, M) /\ Before(q, <<x>>, M)
  BY <1>1, Concatenated
<1> QED
  BY <1>1, <1>2, Single DEF Before

LEMMA BehindHead ==
    ASSUME NEW S, NEW q \in Seq(S), q # <<>>, NEW M
    PROVE  /\ Range(q) = {Head(q)} \union Range(Tail(q))
           /\ Rising(q, M) => /\ Rising(Tail(q), M)
                              /\ Head(q) \in M => \A b \in Range(Tail(q)) \cap M : Head(q).n < b.n
<1>1. Head(q) \in S /\ Tail(q) \in Seq(S) /\ <<Head(q)>> \in Seq(S)
  BY HeadTailProperties
<1>2. q = <<Head(q)>> \o Tail(q)
  <2>1. /\ Len(<<Head(q)>>) = 1 /\ <<Head(q)>>[1] = Head(q) /\ Head(q) = q[1]
        /\ Len(q) \in Nat \ {0} /\ Len(Tail(q)) = Len(q) - 1
        /\ \A i \in 1..Len(Tail(q)) : Tail(q)[i] = q[i + 1]
    BY EmptySeq, HeadTailProperties
  <2> DEFINE c == <<Head(q)>> \o Tail(q)
             l == Len(q)
  <2>2. /\ c \in Seq(S) /\ Len(c) = 1 + (l - 1)
        /\ \A i \in 1..(1 + (l - 1)) : c[i] = IF i <= 1 THEN q[1] ELSE Tail(q)[i - 1]
    BY <1>1, <2>1, ConcatProperties
  <2> HIDE DEF c, l
  <2>3. l \in Nat \ {0} /\ \A i \in 1..(l - 1) : Tail(q)[i] = q[i + 1]
    BY <2>1 DEF l
  <2>4. \A i \in 1..l : c[i] = q[i]
    <3> SUFFICES ASSUME NEW i \in 1..l PROVE c[i] = q[i]
      OBVIOUS
    <3>1. CASE i = 1
      BY <2>2, <2>3, <3>1
    <3>2. CASE i # 1
      <4>1. i - 1 \in 1..(l - 1) /\ (i - 1) + 1 = i /\ ~(i <= 1) /\ i \in 1..(1 + (l - 1))
        BY <2>3, <3>2
      <4> QED
        BY <2>2, <2>3, <4>1
    <3> QED
      BY <3>1, <3>2
  <2>5. Len(c) = Len(q)
    BY <2>2, <2>3 DEF l
  <2> QED
    BY <2>2, <2>4, <2>5, SeqEqual DEF c, l
<1>3. /\ Range(<<Head(q)>> \o Tail(q)) = Range(<<Head(q)>>) \union Range(Tail(q))
      /\ Rising(<<Head(q)>> \o Tail(q), M) <=>
             /\ Rising(<<Head(q)>>, M) /\ Rising(Tail(q), M) /\ Before(<<Head(q)>>, Tail(q), M)
  BY <1>1, Concatenated
<1> QED
  BY <1>2, <1>3, Single DEF Before

\* What is left of a queue without its k-th message, before it and behind it.
LEMMA Parted ==
    ASSUME NEW S, NEW q \in Seq(S), NEW k \in DOMAIN q, NEW M
    PROVE  LET first == SubSeq(q, 1, k - 1)
               rest  == SubSeq(q, k + 1, Len(q))
           IN /\ first \in Seq(S) /\ rest \in Seq(S)
              /\ Range(q) = Range(first) \union {q[k]} \union Range(rest)
              /\ Rising(q, M) => /\ Rising(first, M) /\ Rising(rest, M)
                                 /\ Before(first, rest, M)
<1> DEFINE first == SubSeq(q, 1, k - 1)
           rest  == SubSeq(q, k + 1, Len(q))
           l == Len(q)
<1>1. /\ first \in Seq(S) /\ rest \in Seq(S) /\ k \in 1..l /\ l \in Nat
      /\ Len(first) = k - 1 /\ Len(rest) = l - k
      /\ \A i \in 1..(k - 1) : first[i] = q[i]
      /\ \A i \in 1..(l - k) : rest[i] = q[i + k]
  BY Parts
<1>2. DOMAIN q = 1..l /\ DOMAIN first = 1..(k - 1) /\ DOMAIN rest = 1..(l - k)
  BY <1>1, LenProperties
<1> HIDE DEF first, rest, l
<1>3. /\ \A i \in 1..(k - 1) : i \in 1..l /\ i < k
      /\ \A i \in 1..(l - k) : i + k \in 1..l /\ k < i + k
      /\ \A i \in 1..l : i \in 1..(k - 1) \/ i = k \/ (i - k \in 1..(l - k) /\ (i - k) + k = i)
  <2>1. k \in 1..l /\ l \in Nat
    BY <1>1
  <2>2. k \in Nat /\ 1 <= k /\ k <= l
    BY <2>1
  <2>3. ASSUME NEW i \in 1..(k - 1) PROVE i \in 1..l /\ i < k
    BY <2>1, <2>2
  <2>4. ASSUME NEW i \in 1..(l - k) PROVE i + k \in 1..l /\ k < i + k
    BY <2>1, <2>2
  <2>5. ASSUME NEW i \in 1..l
        PROVE  i \in 1..(k - 1) \/ i = k \/ (i - k \in 1..(l - k) /\ (i - k) + k = i)
    BY <2>1, <2>2
  <2> QED
    BY <2>3, <2>4, <2>5
<1>4. Range(q) = Range(first) \union {q[k]} \union Range(rest)
  <2>1. ASSUME NEW i \in 1..l PROVE q[i] \in Range(first) \union {q[k]} \union Range(rest)
    <3>1. CASE i \in 1..(k - 1)
      BY <1>1, <1>2, <3>1 DEF Range
    <3>2. CASE i = k
      BY <3>2
    <3>3. CASE i - k \in 1..(l - k) /\ (i - k) + k = i
      <4>1. rest[i - k] = q[i] /\ i - k \in DOMAIN rest
        BY <1>1, <1>2, <3>3
      <4> QED
        BY <4>1 DEF Range
    <3> QED
      BY <1>3, <3>1, <3>2, <3>3
  <2>2. ASSUME NEW i \in 1..(k - 1) PROVE first[i] \in Range(q)
    BY <1>1, <1>2, <1>3 DEF Range
  <2>3. ASSUME NEW i \in 1..(l - k) PROVE rest[i] \in Range(q)
    BY <1>1, <1>2, <1>3 DEF Range
  <2>4. q[k] \in Range(q)
    BY DEF Range
  <2>5. Range(q) \subseteq Range(first) \union {q[k]} \union Range(rest)
    BY <1>2, <2>1 DEF Range
  <2>6. Range(first) \subseteq Range(q) /\ Range(rest) \subseteq Range(q)
    BY <1>2, <2>2, <2>3 DEF Range
  <2> QED
    BY <2>4, <2>5, <2>6
<1>5. ASSUME Rising(q, M) PROVE Rising(first, M) /\ Rising(rest, M) /\ Before(first, rest, M)
  <2>1. Rising(first, M)
    BY <1>1, <1>2, <1>3, <1>5 DEF Rising
  <2>2. ASSUME NEW i \in 1..(l - k), NEW j \in 1..(l - k), i < j, rest[i] \in M, rest[j] \in M
        PROVE  rest[i].n < rest[j].n
    <3>1. i + k < j + k
      BY <1>1, <2>2
    <3>2. /\ i + k \in DOMAIN q /\ j + k \in DOMAIN q
          /\ rest[i] = q[i + k] /\ rest[j] = q[j + k]
      BY <1>1, <1>2, <1>3
    <3> QED
      BY <1>5, <2>2, <3>1, <3>2 DEF Rising
  <2>3. ASSUME NEW i \in 1..(k - 1), NEW j \in 1..(l - k), first[i] \in M, rest[j] \in M
        PROVE  first[i].n < rest[j].n
    <3>1. i < j + k
      BY <1>1
    <3>2. /\ i \in DOMAIN q /\ j + k \in DOMAIN q
          /\ first[i] = q[i] /\ rest[j] = q[j + k]
      BY <1>1, <1>2, <1>3
    <3> QED
      BY <1>5, <2>3, <3>1, <3>2 DEF Rising
  <2> QED
    BY <1>2, <2>1, <2>2, <2>3 DEF Rising, Before, Range
<1> QED
  BY <1>1, <1>4, <1>5 DEF first, rest

-----------------------------------------------------------------------------
(* Requests keep their order.                                              *)

\* The way of a session, queue by queue.
Pieces(t, w, i, f, p, M) ==
    /\ Rising(t, M) /\ Rising(w, M) /\ Rising(i, M) /\ Rising(f, M) /\ Rising(p, M)
    /\ Before(t, w, M) /\ Before(t, i, M) /\ Before(t, f, M) /\ Before(t, p, M)
    /\ Before(w, i, M) /\ Before(w, f, M) /\ Before(w, p, M)
    /\ Before(i, f, M) /\ Before(i, p, M)
    /\ Before(f, p, M)

\* All that lies on the way.
Lying(t, w, i, f, p) == Range(t) \union Range(w) \union Range(i) \union Range(f) \union Range(p)

LEMMA InPieces ==
    ASSUME NEW S, NEW t \in Seq(S), NEW w \in Seq(S), NEW i \in Seq(S), NEW f \in Seq(S),
           NEW p \in Seq(S), NEW M
    PROVE  /\ Range(t \o w \o i \o f \o p) = Lying(t, w, i, f, p)
           /\ Rising(t \o w \o i \o f \o p, M) <=> Pieces(t, w, i, f, p, M)
<1> DEFINE a == t \o w
           b == a \o i
           c == b \o f
           d == c \o p
<1>1. a \in Seq(S) /\ b \in Seq(S) /\ c \in Seq(S)
  BY ConcatProperties
<1>2. /\ Range(a) = Range(t) \union Range(w)
      /\ Rising(a, M) <=> Rising(t, M) /\ Rising(w, M) /\ Before(t, w, M)
  BY Concatenated
<1> HIDE DEF a
<1>3. /\ Range(b) = Range(a) \union Range(i)
      /\ Rising(b, M) <=> Rising(a, M) /\ Rising(i, M) /\ Before(a, i, M)
  BY <1>1, Concatenated
<1> HIDE DEF b
<1>4. /\ Range(c) = Range(b) \union Range(f)
      /\ Rising(c, M) <=> Rising(b, M) /\ Rising(f, M) /\ Before(b, f, M)
  BY <1>1, Concatenated
<1> HIDE DEF c
<1>5. /\ Range(d) = Range(c) \union Range(p)
      /\ Rising(d, M) <=> Rising(c, M) /\ Rising(p, M) /\ Before(c, p, M)
  BY <1>1, Concatenated
<1> HIDE DEF d
<1>6. Range(d) = Lying(t, w, i, f, p)
  BY <1>2, <1>3, <1>4, <1>5 DEF Lying
<1>7. /\ Before(a, i, M) <=> Before(t, i, M) /\ Before(w, i, M)
      /\ Before(b, f, M) <=> Before(t, f, M) /\ Before(w, f, M) /\ Before(i, f, M)
      /\ Before(c, p, M) <=>
             Before(t, p, M) /\ Before(w, p, M) /\ Before(i, p, M) /\ Before(f, p, M)
  BY <1>2, <1>3, <1>4 DEF Before
<1>8. Rising(d, M) <=> Pieces(t, w, i, f, p, M)
  BY <1>2, <1>3, <1>4, <1>5, <1>7 DEF Pieces
<1> QED
  BY <1>6, <1>8 DEF a, b, c, d

\* The messages of session s on their way, in order and none that was not sent.
OnTheWay(s) == Lying(taken, work, inbox, feed[s], proxy[s]) \cap DataOf(s)

InOrder(s) ==
    /\ Pieces(taken, work, inbox, feed[s], proxy[s], DataOf(s))
    /\ \A m \in OnTheWay(s) : m.n <= sent[s]

\* A task that has come to its end, or was not started, has left nothing behind; nothing is
\* sent before the session is opened; a mutex stays locked only after the function started.
Drained ==
    /\ \A s \in Session : /\ ~proxying[s] => proxy[s] = <<>>
                          /\ ~forwarding[s] /\ s \notin died => feed[s] = <<>> /\ ~proxying[s]
                          /\ forwarding[s] \/ sender[s] = "none" => s \notin died
                          /\ sender[s] = "none" => sent[s] = 0
    /\ wedged \/ stuck \/ looping => startedBy # 0

LEMMA DrainedInit == Init => Drained
  BY DEF Init, Drained

LEMMA DrainedStep == ASSUME IInv, Drained, [Next]_vars PROVE Drained'
<1> USE DEF IInv, Shape, Held, Drained
<1>1. CASE UNCHANGED <<taskVars, clientVars, wedged, stuck, looping, startedBy>>
  BY <1>1 DEF taskVars, clientVars
<1>2. ASSUME NEW s \in Session, Open(s) PROVE Drained'
  <2>1. /\ proxying' = [proxying EXCEPT ![s] = TRUE]
        /\ forwarding' = [forwarding EXCEPT ![s] = TRUE]
        /\ sender' = [sender EXCEPT ![s] = "open"]
        /\ UNCHANGED <<proxy, feed, sent, died, workerVars>>
    BY <1>2 DEF Open
  <2>2. s > opened
    BY <1>2, SessionIds DEF Open
  <2>3. s \notin died
    BY <2>2 DEF Openings
  <2> QED
    BY <2>1, <2>3 DEF workerVars
<1>3. ASSUME NEW s \in Session, ClientSend(s) PROVE Drained'
  <2>1. proxying[s] /\ sender[s] = "open"
    <3>1. ~(s > opened)
      BY <1>3 DEF ClientSend, Openings
    <3> QED
      BY <1>3, <3>1, SessionIds DEF ClientSend, Openings
  <2> QED
    BY <1>3, <2>1 DEF ClientSend, workerVars
<1>4. ASSUME NEW s \in Session, ClientClose(s) PROVE Drained'
  BY <1>4 DEF ClientClose, taskVars, workerVars
<1>5. ASSUME NEW s \in Session, RunProxy(s) PROVE Drained'
  BY <1>5 DEF RunProxy, clientVars, workerVars
<1>6. ASSUME NEW s \in Session, RunForwarder(s) PROVE Drained'
  BY <1>6 DEF RunForwarder, clientVars, workerVars
<1>11. ASSUME NEW s \in Session, ForwarderPanics(s) PROVE Drained'
  <2>1. PICK q : feed' = [feed EXCEPT ![s] = q]
    BY <1>11 DEF ForwarderPanics
  <2>2. /\ forwarding[s] /\ died' = died \union {s}
        /\ forwarding' = [forwarding EXCEPT ![s] = FALSE]
        /\ UNCHANGED <<clientVars, proxy, proxying, workerVars>>
    BY <1>11 DEF ForwarderPanics
  <2>3. sender[s] # "none"
    BY <2>2, SessionIds DEF Openings
  <2> QED
    BY <2>1, <2>2, <2>3 DEF clientVars, workerVars
<1>7. CASE UNCHANGED vars
  BY <1>1, <1>7 DEF vars, workerVars
<1>8. ASSUME NEW s \in Session, Abort(s) \/ AbortUnreplaced(s)
      PROVE  Drained'
  BY <1>8 DEF Abort, AbortUnreplaced, Terminate, taskVars, clientVars
<1>9. ASSUME WorkerReceive PROVE Drained'
  <2>1. UNCHANGED <<taskVars, clientVars>>
    BY <1>9 DEF WorkerReceive, ReceiveNull, ReceiveFirst, ReceiveRequest, ReceivePanics,
       ReceiveNothing
  <2>2. wedged' \/ stuck' \/ looping' => startedBy' # 0
    <3>1. CASE ReceiveFirst
      <4>1. Head(inbox) \in Of(worker) \union Ending /\ Head(inbox) # Null
        BY <3>1, HeadTailProperties DEF ReceiveFirst, NextIsData, NullRequest, OnWorker
      <4>2. Head(inbox).session # 0
        BY <4>1, EndingMessages, SessionIds DEF Of
      <4> QED
        BY <3>1, <4>2 DEF ReceiveFirst
    <3>2. CASE ~ReceiveFirst
      BY <1>9, <3>2 DEF WorkerReceive, ReceiveNull, ReceiveRequest, ReceivePanics,
         ReceiveNothing, workerVars
    <3> QED
      BY <3>1, <3>2
  <2> QED
    BY <2>1, <2>2 DEF taskVars, clientVars
<1>10. CASE \/ MainReceive \/ FnTake \/ FnRespond \/ FnReturn \/ FnStop
            \/ RunLoop \/ LoopPanics
  <2>1. UNCHANGED <<taskVars, clientVars>>
    BY <1>10 DEF MainReceive, FnTake, FnRespond, FnReturn, FnStop, Ends, RunLoop, LoopPanics
  <2>2. wedged' \/ stuck' \/ looping' => startedBy' # 0
    BY <1>10 DEF MainReceive, FnTake, FnRespond, FnReturn, FnStop, Ends, RunLoop, LoopPanics,
       workerVars
  <2> QED
    BY <2>1, <2>2 DEF taskVars, clientVars
<1> QED
  BY <1>2, <1>3, <1>4, <1>5, <1>6, <1>7, <1>8, <1>9, <1>10, <1>11 DEF Next

\* What lies on the way of a session that was not opened yet: nothing of its own.
LEMMA NothingYet ==
    ASSUME IInv, Drained, NEW s \in Session, s > opened
    PROVE  OnTheWay(s) = {}
<1>1. on[s] = 0 /\ worker # 0
  BY DEF IInv, Openings, Shape
<1>2. /\ Range(taken) \subseteq Of(worker) /\ Range(work) \subseteq Of(worker)
      /\ Range(inbox) \subseteq Of(worker) \union {Null}
  BY RangeOfSeq, EndingMessages DEF IInv, OnWorker
<1>3. (Of(worker) \union {Null}) \cap DataOf(s) = {}
  BY <1>1, SessionsAssumption DEF Of, DataOf, Null, Session
<1>4. Range(feed[s]) \cap DataOf(s) = {} /\ Range(proxy[s]) \cap DataOf(s) = {}
  BY Empty DEF IInv, Openings, Drained
<1> QED
  BY <1>2, <1>3, <1>4 DEF OnTheWay, Lying
\* What the worker does to the requests: it takes them out of the inbox, where they may
\* be lost, and receives them.
LEMMA WorkerOrder ==
    ASSUME IInv, TypeOK, NEW s \in Session, InOrder(s), WorkerStep
    PROVE  InOrder(s)'
<1> DEFINE M == DataOf(s)
<1>1. UNCHANGED <<proxy, feed, sent>>
  BY DEF WorkerStep, WorkerReceive, ReceiveNull, ReceiveFirst, ReceiveRequest, ReceivePanics,
     ReceiveNothing, FnTake, FnRespond, FnReturn, FnStop, Ends, RunLoop, LoopPanics, taskVars,
     clientVars
<1>2. DataOf(s)' = M
  BY DEF DataOf
<1>3. /\ Pieces(taken, work, inbox, feed[s], proxy[s], M)
      /\ \A m \in Lying(taken, work, inbox, feed[s], proxy[s]) \cap M : m.n <= sent[s]
  BY DEF InOrder, OnTheWay
<1> SUFFICES /\ Pieces(taken', work', inbox', feed[s], proxy[s], M)
             /\ Lying(taken', work', inbox', feed[s], proxy[s])
                    \subseteq Lying(taken, work, inbox, feed[s], proxy[s])
  BY <1>1, <1>2, <1>3 DEF InOrder, OnTheWay
<1> HIDE DEF M
<1>4. CASE WorkerReceive
  <2>1. /\ inbox # <<>> /\ inbox' = Tail(inbox) /\ UNCHANGED taken
        /\ work' = work \/ work' = Append(work, Head(inbox))
    BY <1>4 DEF WorkerReceive, ReceiveNull, ReceiveFirst, ReceiveRequest, ReceivePanics,
       ReceiveNothing, NextIsNull, NextIsData, workerVars
  <2>2. /\ Range(inbox) = {Head(inbox)} \union Range(Tail(inbox))
        /\ Rising(Tail(inbox), M)
        /\ Head(inbox) \in M => \A b \in Range(Tail(inbox)) \cap M : Head(inbox).n < b.n
    BY <1>3, <2>1, BehindHead DEF Pieces, TypeOK
  <2>3. Head(inbox) \in Message
    BY <2>1, HeadTailProperties DEF TypeOK
  <2>4. /\ Range(Append(work, Head(inbox))) = Range(work) \union {Head(inbox)}
        /\ Rising(Append(work, Head(inbox)), M) <=>
               /\ Rising(work, M)
               /\ Head(inbox) \in M => \A a \in Range(work) \cap M : a.n < Head(inbox).n
    BY <2>3, Appended DEF TypeOK
  <2> QED
    BY <1>3, <2>1, <2>2, <2>4 DEF Pieces, Before, Lying
<1>5. CASE FnTake
  <2>1. /\ work # <<>> /\ work' = Tail(work) /\ taken' = Append(taken, Head(work))
        /\ UNCHANGED inbox
    BY <1>5 DEF FnTake
  <2>2. /\ Range(work) = {Head(work)} \union Range(Tail(work))
        /\ Rising(Tail(work), M)
        /\ Head(work) \in M => \A b \in Range(Tail(work)) \cap M : Head(work).n < b.n
    BY <1>3, <2>1, BehindHead DEF Pieces, TypeOK
  <2>3. Head(work) \in Message
    BY <2>1, HeadTailProperties DEF TypeOK
  <2>4. /\ Range(Append(taken, Head(work))) = Range(taken) \union {Head(work)}
        /\ Rising(Append(taken, Head(work)), M) <=>
               /\ Rising(taken, M)
               /\ Head(work) \in M => \A a \in Range(taken) \cap M : a.n < Head(work).n
    BY <2>3, Appended DEF TypeOK
  <2> QED
    BY <1>3, <2>1, <2>2, <2>4 DEF Pieces, Before, Lying
<1>6. CASE FnReturn \/ FnStop
  <2>1. work' = <<>> /\ UNCHANGED <<taken, inbox>>
    BY <1>6 DEF FnReturn, FnStop, Ends
  <2> QED
    BY <1>3, <2>1, Empty DEF Pieces, Before, Lying
<1>7. CASE FnRespond \/ RunLoop \/ LoopPanics
  BY <1>3, <1>7 DEF FnRespond, RunLoop, LoopPanics
<1> QED
  BY <1>4, <1>5, <1>6, <1>7 DEF WorkerStep

\* What the client and the tasks of sessions do: requests are numbered as they are sent,
\* and what a forwarder posts were the first in its channel.
LEMMA ClientOrder ==
    ASSUME IInv, TypeOK, NEW s \in Session, InOrder(s), NEW t \in Session, ClientStep(t)
    PROVE  InOrder(s)'
<1> DEFINE M == DataOf(s)
<1>1. UNCHANGED <<taken, work>> /\ DataOf(s)' = M
  BY DEF ClientStep, ClientSend, ClientClose, RunProxy, RunForwarder, ForwarderPanics,
     workerVars, DataOf
<1>2. /\ Pieces(taken, work, inbox, feed[s], proxy[s], M)
      /\ \A m \in Lying(taken, work, inbox, feed[s], proxy[s]) \cap M : m.n <= sent[s]
  BY DEF InOrder, OnTheWay
<1> SUFFICES /\ Pieces(taken, work, inbox', feed'[s], proxy'[s], M)
             /\ \A m \in Lying(taken, work, inbox', feed'[s], proxy'[s]) \cap M :
                    m.n <= sent'[s]
  BY <1>1 DEF InOrder, OnTheWay
<1>3. /\ feed[s] \in Seq(Message) /\ proxy[s] \in Seq(Message) /\ inbox \in Seq(Message)
      /\ feed[t] \in Seq(Message) /\ sent[s] \in Nat
  BY SessionsAssumption DEF TypeOK
<1>4. CASE UNCHANGED <<inbox, feed[s], proxy[s], sent[s]>>
  BY <1>2, <1>4
<1>5. ASSUME ClientSend(s) PROVE InOrder(s)'
  <2> DEFINE r == Request(s, sent[s] + 1)
  <2>1. /\ proxy'[s] = Append(proxy[s], r) /\ sent'[s] = sent[s] + 1
        /\ UNCHANGED <<inbox, feed>>
    BY <1>5 DEF ClientSend, TypeOK
  <2>2. r \in M /\ r \in Message /\ r.n = sent[s] + 1
    BY <1>3, SessionsAssumption DEF Request, DataOf, Message, Session
  <2> HIDE DEF r
  <2>3. \A m \in Lying(taken, work, inbox, feed[s], proxy[s]) \cap M :
            m.n < sent[s] + 1 /\ m.n <= sent[s] + 1
    <3> SUFFICES ASSUME NEW m \in Lying(taken, work, inbox, feed[s], proxy[s]) \cap M
                 PROVE  m.n < sent[s] + 1 /\ m.n <= sent[s] + 1
      OBVIOUS
    <3>1. m.n \in Nat /\ m.n <= sent[s]
      BY <1>2 DEF DataOf
    <3> QED
      BY <1>3, <3>1
  <2>4. /\ Range(Append(proxy[s], r)) = Range(proxy[s]) \union {r}
        /\ Rising(Append(proxy[s], r), M) <=>
               Rising(proxy[s], M) /\ (r \in M => \A a \in Range(proxy[s]) \cap M : a.n < r.n)
    BY <1>3, <2>2, Appended
  <2> HIDE DEF M
  <2>5. Pieces(taken, work, inbox, feed[s], Append(proxy[s], r), M)
    BY <1>2, <2>2, <2>3, <2>4 DEF Pieces, Before, Lying
  <2>6. \A m \in Lying(taken, work, inbox, feed[s], Append(proxy[s], r)) \cap M :
            m.n <= sent[s] + 1
    BY <1>3, <2>2, <2>3, <2>4 DEF Lying
  <2> QED
    BY <1>1, <2>1, <2>5, <2>6 DEF InOrder, OnTheWay
<1>6. CASE RunProxy(s)
  <2>1. /\ feed'[s] = feed[s] \o proxy[s] /\ proxy'[s] = <<>>
        /\ UNCHANGED <<inbox, sent>>
    BY <1>6 DEF RunProxy, TypeOK, clientVars
  <2>2. /\ Range(feed[s] \o proxy[s]) = Range(feed[s]) \union Range(proxy[s])
        /\ Rising(feed[s] \o proxy[s], M) <=>
               Rising(feed[s], M) /\ Rising(proxy[s], M) /\ Before(feed[s], proxy[s], M)
    BY <1>3, Concatenated
  <2> HIDE DEF M
  <2>3. Pieces(taken, work, inbox, feed[s] \o proxy[s], <<>>, M)
    BY <1>2, <2>2, Empty DEF Pieces, Before
  <2>4. Lying(taken, work, inbox, feed[s] \o proxy[s], <<>>)
            = Lying(taken, work, inbox, feed[s], proxy[s])
    BY <2>2, Empty DEF Lying
  <2> QED
    BY <1>2, <2>1, <2>3, <2>4
<1>7. CASE RunForwarder(t)
  <2> DEFINE ending == IF proxying[t] THEN <<>> ELSE <<Null>>
             F == IF t = s THEN <<>> ELSE feed[s]
  <2>1. /\ feed'[s] = F /\ UNCHANGED <<proxy, sent>>
        /\ inbox' = IF ~Reaches(t) THEN inbox ELSE inbox \o feed[t] \o ending
    BY <1>7 DEF RunForwarder, TypeOK, clientVars
  <2>2. ending \in Seq(Message) /\ Range(ending) \cap M = {} /\ Rising(ending, M)
    <3>1. Null \in Message /\ Null \notin M
      BY SessionsAssumption DEF Null, Message, DataOf, Session
    <3> QED
      BY <3>1, Empty, Single
  <2> HIDE DEF M, ending
  <2>3. /\ inbox \o feed[t] \in Seq(Message)
        /\ Range(inbox \o feed[t]) = Range(inbox) \union Range(feed[t])
        /\ Rising(inbox \o feed[t], M) <=>
               Rising(inbox, M) /\ Rising(feed[t], M) /\ Before(inbox, feed[t], M)
    <3>1. inbox \o feed[t] \in Seq(Message)
      BY <1>3, ConcatProperties
    <3> QED
      BY <1>3, <3>1, Concatenated
  <2>4. /\ Range(inbox \o feed[t] \o ending) = Range(inbox \o feed[t]) \union Range(ending)
        /\ Rising(inbox \o feed[t] \o ending, M) <=>
               /\ Rising(inbox \o feed[t], M) /\ Rising(ending, M)
               /\ Before(inbox \o feed[t], ending, M)
    BY <2>2, <2>3, Concatenated
  <2>5. t # s => Range(feed[t]) \cap M = {} /\ Rising(feed[t], M)
    <3> SUFFICES ASSUME t # s PROVE Range(feed[t]) \cap M = {} /\ Rising(feed[t], M)
      OBVIOUS
    <3>1. Range(feed[t]) \subseteq Own(t)
      BY RangeOfSeq DEF IInv, Held
    <3>2. Own(t) \cap M = {}
      BY DEF Own, DataOf, M
    <3> QED
      BY <3>1, <3>2 DEF Rising, Range
  <2>6. /\ Pieces(taken, work, inbox, F, proxy[s], M)
        /\ Lying(taken, work, inbox, F, proxy[s]) \subseteq
               Lying(taken, work, inbox, feed[s], proxy[s])
    BY <1>2, Empty DEF Pieces, Before, Lying
  <2>7. /\ Pieces(taken, work, inbox \o feed[t] \o ending, F, proxy[s], M)
        /\ Lying(taken, work, inbox \o feed[t] \o ending, F, proxy[s]) \cap M \subseteq
               Lying(taken, work, inbox, feed[s], proxy[s])
    <3>1. CASE t = s
      <4>1. F = <<>>
        BY <3>1
      <4> QED
        BY <1>2, <2>2, <2>3, <2>4, <3>1, <4>1, Empty DEF Pieces, Before, Lying
    <3>2. CASE t # s
      <4>1. F = feed[s]
        BY <3>2
      <4> QED
        BY <1>2, <2>2, <2>3, <2>4, <2>5, <3>2, <4>1 DEF Pieces, Before, Lying
    <3> QED
      BY <3>1, <3>2
  <2> HIDE DEF F
  <2> QED
    BY <1>2, <2>1, <2>6, <2>7
<1>9. CASE ForwarderPanics(t)
  <2>1. PICK k \in DOMAIN feed[t] :
            /\ inbox' = IF Reaches(t) THEN inbox \o SubSeq(feed[t], 1, k - 1) ELSE inbox
            /\ feed' = [feed EXCEPT ![t] = SubSeq(feed[t], k + 1, Len(feed[t]))]
    BY <1>9 DEF ForwarderPanics
  <2> DEFINE first == SubSeq(feed[t], 1, k - 1)
             rest == SubSeq(feed[t], k + 1, Len(feed[t]))
             F == IF t = s THEN rest ELSE feed[s]
  <2>2. /\ first \in Seq(Message) /\ rest \in Seq(Message)
        /\ Range(feed[t]) = Range(first) \union {feed[t][k]} \union Range(rest)
        /\ Rising(feed[t], M) => /\ Rising(first, M) /\ Rising(rest, M)
                                 /\ Before(first, rest, M)
    BY <1>3, Parted
  <2>3. /\ feed'[s] = F /\ UNCHANGED <<proxy, sent>>
        /\ inbox' = IF Reaches(t) THEN inbox \o first ELSE inbox
    BY <1>9, <2>1 DEF ForwarderPanics, TypeOK, clientVars
  <2> HIDE DEF M, first, rest
  <2>4. /\ Range(inbox \o first) = Range(inbox) \union Range(first)
        /\ Rising(inbox \o first, M) <=>
               Rising(inbox, M) /\ Rising(first, M) /\ Before(inbox, first, M)
    BY <1>3, <2>2, Concatenated
  <2>5. t # s => Range(feed[t]) \cap M = {} /\ Rising(first, M)
    <3> SUFFICES ASSUME t # s PROVE Range(feed[t]) \cap M = {} /\ Rising(first, M)
      OBVIOUS
    <3>1. Range(feed[t]) \subseteq Own(t)
      BY RangeOfSeq DEF IInv, Held
    <3>2. Own(t) \cap M = {}
      BY DEF Own, DataOf, M
    <3>3. Rising(feed[t], M)
      BY <3>1, <3>2 DEF Rising, Range
    <3> QED
      BY <2>2, <3>1, <3>2, <3>3
  <2>6. /\ Pieces(taken, work, inbox, F, proxy[s], M)
        /\ Lying(taken, work, inbox, F, proxy[s]) \subseteq
               Lying(taken, work, inbox, feed[s], proxy[s])
    <3>1. CASE t = s
      BY <1>2, <2>2, <3>1 DEF Pieces, Before, Lying
    <3>2. CASE t # s
      BY <1>2, <3>2
    <3> QED
      BY <3>1, <3>2
  <2>7. /\ Pieces(taken, work, inbox \o first, F, proxy[s], M)
        /\ Lying(taken, work, inbox \o first, F, proxy[s]) \cap M \subseteq
               Lying(taken, work, inbox, feed[s], proxy[s])
    <3>1. CASE t = s
      BY <1>2, <2>2, <2>4, <3>1 DEF Pieces, Before, Lying
    <3>2. CASE t # s
      BY <1>2, <2>2, <2>4, <2>5, <3>2 DEF Pieces, Before, Lying
    <3> QED
      BY <3>1, <3>2
  <2> HIDE DEF F
  <2> QED
    BY <1>2, <2>3, <2>6, <2>7
<1>8. ClientClose(t) \/ ((ClientSend(t) \/ RunProxy(t)) /\ t # s)
         => UNCHANGED <<inbox, feed[s], proxy[s], sent[s]>>
  BY DEF ClientClose, ClientSend, RunProxy, taskVars, clientVars, TypeOK
<1> QED
  BY <1>1, <1>4, <1>5, <1>6, <1>7, <1>8, <1>9 DEF InOrder, OnTheWay, ClientStep

\* A session begins with its init data, where nothing of it lies yet.
LEMMA OpenOrder ==
    ASSUME IInv, TypeOK, Drained, NEW s \in Session, InOrder(s), NEW t \in Session, Open(t)
    PROVE  InOrder(s)'
<1> DEFINE M == DataOf(s)
<1>1. /\ UNCHANGED <<taken, work, feed, proxy, sent>> /\ DataOf(s)' = M
      /\ t = opened + 1
      /\ inbox' = inbox \/ inbox' = Append(inbox, InitData(t))
  BY DEF Open, workerVars, DataOf
<1>2. /\ Pieces(taken, work, inbox, feed[s], proxy[s], M)
      /\ \A m \in Lying(taken, work, inbox, feed[s], proxy[s]) \cap M : m.n <= sent[s]
  BY DEF InOrder, OnTheWay
<1> SUFFICES /\ Pieces(taken, work, inbox', feed[s], proxy[s], M)
             /\ \A m \in Lying(taken, work, inbox', feed[s], proxy[s]) \cap M : m.n <= sent[s]
  BY <1>1 DEF InOrder, OnTheWay
<1>3. InitData(t) \in Message /\ InitData(t).n = 0 /\ (InitData(t) \in M <=> t = s)
  BY SessionsAssumption DEF InitData, Request, Message, DataOf, Session
<1>4. /\ Range(Append(inbox, InitData(t))) = Range(inbox) \union {InitData(t)}
      /\ Rising(Append(inbox, InitData(t)), M) <=>
             /\ Rising(inbox, M)
             /\ InitData(t) \in M => \A a \in Range(inbox) \cap M : a.n < InitData(t).n
  BY <1>3, Appended DEF TypeOK
<1>5. t = s => Lying(taken, work, inbox, feed[s], proxy[s]) \cap M = {}
  <2>1. t > opened
    BY <1>1, SessionIds DEF TypeOK
  <2> QED
    BY <2>1, NothingYet DEF OnTheWay
<1>6. sent[s] \in Nat /\ 0 <= sent[s]
  BY SessionsAssumption DEF TypeOK
<1> HIDE DEF M
<1>7. CASE inbox' = inbox
  BY <1>2, <1>7
<1>8. CASE inbox' = Append(inbox, InitData(t))
  <2>1. Pieces(taken, work, inbox', feed[s], proxy[s], M)
    <3>1. CASE t = s
      BY <1>2, <1>4, <1>5, <1>8, <3>1 DEF Pieces, Before, Lying
    <3>2. CASE t # s
      BY <1>2, <1>3, <1>4, <1>8, <3>2 DEF Pieces, Before
    <3> QED
      BY <3>1, <3>2
  <2>2. \A m \in Lying(taken, work, inbox', feed[s], proxy[s]) \cap M : m.n <= sent[s]
    BY <1>2, <1>3, <1>4, <1>6, <1>8 DEF Lying
  <2> QED
    BY <2>1, <2>2
<1> QED
  BY <1>1, <1>7, <1>8

\* What a worker held is gone with it.
LEMMA AbortOrder ==
    ASSUME NEW s \in Session, InOrder(s), NEW t \in Session, Abort(t) \/ AbortUnreplaced(t)
    PROVE  InOrder(s)'
<1>1. /\ taken' = <<>> /\ work' = <<>> /\ inbox' = <<>>
      /\ UNCHANGED <<feed, proxy, sent>> /\ DataOf(s)' = DataOf(s)
  BY DEF Abort, AbortUnreplaced, Terminate, clientVars, taskVars, DataOf
<1>2. Pieces(<<>>, <<>>, <<>>, feed[s], proxy[s], DataOf(s))
  BY Empty DEF InOrder, Pieces, Before
<1>3. Lying(<<>>, <<>>, <<>>, feed[s], proxy[s])
          \subseteq Lying(taken, work, inbox, feed[s], proxy[s])
  BY Empty DEF Lying
<1> QED
  BY <1>1, <1>2, <1>3 DEF InOrder, OnTheWay

LEMMA OrderStep ==
    ASSUME IInv, TypeOK, Drained, NEW s \in Session, InOrder(s), [Next]_vars
    PROVE  InOrder(s)'
<1>1. CASE UNCHANGED <<taken, work, inbox, feed, proxy, sent>>
  BY <1>1 DEF InOrder, OnTheWay, DataOf
<1>2. CASE UNCHANGED vars
  BY <1>1, <1>2 DEF vars, workerVars, taskVars, clientVars
<1>3. CASE MainReceive
  BY <1>1, <1>3 DEF MainReceive, workerVars, taskVars, clientVars
<1> QED
  BY <1>2, <1>3, WorkerOrder, ClientOrder, OpenOrder, AbortOrder
     DEF Next, ClientStep, WorkerStep

-----------------------------------------------------------------------------
(* Queues that a null may end.                                             *)

EndsOnce(q) == \A k \in DOMAIN q : q[k] = Null => k = Len(q)

LEMMA NoEnd == \A q : Null \notin Range(q) => EndsOnce(q)
  BY DEF EndsOnce, Range

LEMMA OneEnd == EndsOnce(<<>>) /\ EndsOnce(<<Null>>)
  BY DEF EndsOnce

LEMMA EndOfTail ==
    ASSUME NEW S, NEW q \in Seq(S), q # <<>>, EndsOnce(q)
    PROVE  /\ EndsOnce(Tail(q))
           /\ Head(q) = Null => Tail(q) = <<>>
<1> DEFINE t == Tail(q)
           l == Len(q)
<1>1. /\ t \in Seq(S) /\ l \in Nat \ {0} /\ Len(t) = l - 1 /\ Head(q) = q[1]
      /\ \A i \in 1..(l - 1) : t[i] = q[i + 1]
      /\ DOMAIN q = 1..l /\ DOMAIN t = 1..(l - 1)
  <2>1. t \in Seq(S) /\ Len(t) = l - 1 /\ \A i \in 1..Len(t) : t[i] = q[i + 1]
    BY HeadTailProperties
  <2>2. l \in Nat \ {0} /\ Head(q) = q[1]
    BY EmptySeq
  <2> QED
    BY <2>1, <2>2, LenProperties
<1>2. Len(t) = 0 => t = <<>>
  BY <1>1, EmptySeq
<1> HIDE DEF t, l
<1>3. ASSUME NEW k \in DOMAIN t, t[k] = Null PROVE k = Len(t)
  <2>1. k + 1 \in 1..l /\ q[k + 1] = Null /\ k \in Nat
    BY <1>1, <1>3
  <2>2. k + 1 = l
    BY <1>1, <2>1 DEF EndsOnce, l
  <2> QED
    BY <1>1, <2>1, <2>2
<1>4. Head(q) = Null => t = <<>>
  <2>1. Head(q) = Null => 1 = l
    BY <1>1 DEF EndsOnce, l
  <2> QED
    BY <1>1, <1>2, <2>1
<1> QED
  BY <1>3, <1>4 DEF EndsOnce, t

LEMMA EndOfBoth ==
    ASSUME NEW S, NEW p \in Seq(S), NEW q \in Seq(S), Null \notin Range(p), EndsOnce(q)
    PROVE  EndsOnce(p \o q)
<1> DEFINE l == Len(p)
           m == Len(q)
           c == p \o q
<1>1. /\ l \in Nat /\ m \in Nat /\ Len(c) = l + m
      /\ DOMAIN p = 1..l /\ DOMAIN q = 1..m /\ DOMAIN c = 1..(l + m)
      /\ \A k \in 1..(l + m) : c[k] = IF k <= l THEN p[k] ELSE q[k - l]
  BY ConcatProperties, LenProperties
<1> HIDE DEF c, l, m
<1>2. ASSUME NEW k \in DOMAIN c, c[k] = Null PROVE k = Len(c)
  <2>1. ~(k <= l)
    <3>1. k <= l => k \in DOMAIN p /\ p[k] = Null
      BY <1>1, <1>2
    <3> QED
      BY <3>1 DEF Range
  <2>2. k - l \in DOMAIN q /\ q[k - l] = Null
    BY <1>1, <1>2, <2>1
  <2>3. k - l = m
    BY <2>2 DEF EndsOnce, m
  <2> QED
    BY <1>1, <1>2, <2>3
<1> QED
  BY <1>2 DEF EndsOnce, c

LEMMA HeadOfBoth ==
    ASSUME NEW S, NEW p \in Seq(S), NEW q \in Seq(S), p # <<>>
    PROVE  p \o q # <<>> /\ Head(p \o q) = Head(p)
<1>1. /\ Len(p) \in Nat \ {0} /\ Len(q) \in Nat /\ Len(p \o q) = Len(p) + Len(q)
      /\ p \o q \in Seq(S)
      /\ \A i \in 1..(Len(p) + Len(q)) : (p \o q)[i] = IF i <= Len(p) THEN p[i] ELSE q[i - Len(p)]
  BY ConcatProperties, EmptySeq, LenProperties
<1>2. (p \o q)[1] = p[1] /\ p \o q # <<>>
  <2> DEFINE l == Len(p)
             m == Len(q)
             c == p \o q
  <2>1. l \in Nat \ {0} /\ m \in Nat /\ Len(c) = l + m
        /\ \A i \in 1..(l + m) : c[i] = IF i <= l THEN p[i] ELSE q[i - l]
    BY <1>1
  <2> HIDE DEF l, m, c
  <2>2. c[1] = p[1] /\ Len(c) # 0
    BY <2>1
  <2> QED
    BY <2>2, EmptySeq DEF c
<1> QED
  BY <1>1, <1>2

-----------------------------------------------------------------------------
(* No request is lost of a session that has its worker to itself.          *)

Sole(s) == Reaches(s) /\ Alone(s)

\* What is still on its way to the worker, or to be sent there.
Behind(s) == (Range(inbox) \union Range(feed[s]) \union Range(proxy[s])) \cap DataOf(s)

\* The end of the requests may have been told by data that is null: then all that is
\* still to come is behind it.
Cut(s) ==
    \E j \in 0..sent[s] : /\ Request(s, j) \in payload.nullRequests
                          /\ \A m \in Behind(s) : j < m.n

\* The inbox begins with the init data until the function has started, and ends with
\* the null of the forwarder; what was sent before anything null or refused lies on the
\* way while it is read.
Unbroken(s) ==
    /\ startedBy = 0 /\ requestTx => inbox # <<>> /\ Head(inbox) = InitData(s)
    /\ startedBy # 0 => InitData(s) \notin Range(inbox)
    /\ Null \in Range(inbox) => ~forwarding[s] /\ s \notin died
    /\ ~requestTx => Cut(s) \/ (inbox = <<>> /\ ~forwarding[s] /\ s \notin died)
    /\ EndsOnce(inbox)
    /\ ~Over => \A k \in 1..sent[s] :
           PlainUpTo(s, k) => Request(s, k) \in Lying(taken, work, inbox, feed[s], proxy[s])

Whole(s) == Sole(s) /\ ~wedged => Unbroken(s)

\* What is sent later comes behind the null too.
LEMMA CutStays ==
    ASSUME TypeOK, NEW s \in Session, Cut(s), payload' = payload,
           sent'[s] = sent[s] \/ sent'[s] = sent[s] + 1,
           Behind(s)' \subseteq
               Behind(s) \union {Request(s, n) : n \in {sent[s] + 1} \cap {sent'[s]}}
    PROVE  Cut(s)'
<1>1. PICK j \in 0..sent[s] : /\ Request(s, j) \in payload.nullRequests
                             /\ \A m \in Behind(s) : j < m.n
  BY DEF Cut
<1>2. sent[s] \in Nat
  BY SessionsAssumption DEF TypeOK
<1>3. j \in 0..sent'[s] /\ j < sent[s] + 1
  BY <1>2
<1>4. \A n : Request(s, n).n = n /\ Request(s, n)' = Request(s, n)
  BY DEF Request
<1>5. ASSUME NEW m \in Behind(s)' PROVE j < m.n
  <2>1. CASE m \in Behind(s)
    BY <1>1, <2>1
  <2>2. CASE m = Request(s, sent[s] + 1)
    BY <1>3, <1>4, <2>2
  <2> QED
    BY <2>1, <2>2
<1> QED
  BY <1>1, <1>3, <1>4, <1>5 DEF Cut

\* A worker no session was opened on.
LEMMA FreshWorker ==
    ASSUME IInv, Drained, \A t \in Session : on[t] # worker
    PROVE  /\ inbox = <<>> /\ work = <<>> /\ taken = <<>> /\ replies = <<>> /\ outbox = <<>>
           /\ startedBy = 0 /\ requestTx /\ ~wedged /\ ~stuck /\ fn = "idle" /\ ~looping
           /\ onmessage = 0
<1>1. /\ startedBy = 0 /\ onmessage = 0 /\ fn = "idle" /\ ~looping /\ outbox = <<>>
      /\ ~wedged /\ ~stuck
  BY DEF IInv, Installed, Shape, Drained
<1>2. Of(worker) = {} /\ ~Used /\ Ending = {}
  BY DEF Of, Used, Closed, Ending
<1>3. requestTx /\ inbox \in Seq({}) /\ work \in Seq({}) /\ taken \in Seq({})
      /\ replies \in Seq({})
  BY <1>2 DEF IInv, OnWorker
<1>4. ASSUME NEW q \in Seq({}) PROVE q = <<>>
  BY EmptySeq, HeadTailProperties
<1> QED
  BY <1>1, <1>3, <1>4

LEMMA OpenWhole ==
    ASSUME IInv, Drained, NEW s \in Session, Whole(s), NEW t \in Session, Open(t)
    PROVE  Whole(s)'
<1>1. /\ t = opened + 1 /\ on' = [on EXCEPT ![t] = worker]
      /\ inbox' = IF dead THEN inbox ELSE Append(inbox, InitData(t))
      /\ UNCHANGED <<worker, dead, sent, proxy, feed, workerVars>>
  BY DEF Open
<1> SUFFICES ASSUME Sole(s)', ~wedged' PROVE Unbroken(s)'
  BY DEF Whole
<1>2. on'[s] = worker /\ ~dead /\ \A r \in Session : on'[r] = worker => r = s
  BY <1>1 DEF Sole, Reaches, Alone
<1>3. t = s
  BY <1>1, <1>2 DEF IInv, Shape
<1>4. s > opened
  BY <1>1, <1>3, SessionIds DEF IInv, Shape
<1>5. \A r \in Session : on[r] # worker
  BY <1>1, <1>2, <1>3, <1>4 DEF IInv, Shape, Openings
<1>6. /\ inbox = <<>> /\ startedBy = 0 /\ requestTx /\ ~wedged
  BY <1>5, FreshWorker
<1>7. inbox' = <<InitData(s)>> /\ InitData(s) # Null
  BY <1>1, <1>2, <1>3, <1>6, SessionIds DEF InitData, Request, Null
<1>8. /\ Head(inbox') = InitData(s) /\ Range(inbox') = {InitData(s)} /\ inbox' # <<>>
  BY <1>7, Single
<1>9. sent'[s] = 0
  BY <1>1, <1>4 DEF IInv, Openings, Drained
<1>10. EndsOnce(inbox')
  BY <1>7, <1>8, NoEnd
<1>11. InitData(s)' = InitData(s) /\ startedBy' = 0 /\ requestTx' /\ ~wedged'
  BY <1>1, <1>6 DEF InitData, Request, workerVars
<1> QED
  BY <1>7, <1>8, <1>9, <1>10, <1>11 DEF Unbroken, EndsOnce

LEMMA AbortWhole ==
    ASSUME IInv, NEW s \in Session, NEW t \in Session, Abort(t) \/ AbortUnreplaced(t)
    PROVE  Whole(s)'
<1>1. UNCHANGED on /\ (worker' = worker + 1 \/ dead')
  BY DEF Abort, AbortUnreplaced
<1>2. on[s] = 0 \/ on[s] \in 1..worker
  BY SessionIds DEF IInv, Shape, Openings
<1>3. worker \in Nat \ {0}
  BY DEF IInv, Shape
<1>4. ~(on'[s] = worker' /\ ~dead')
  BY <1>1, <1>2, <1>3
<1> QED
  BY <1>4 DEF Whole, Sole, Reaches

LEMMA ClientWhole ==
    ASSUME IInv, TypeOK, Drained, NEW s \in Session, Whole(s), NEW t \in Session,
           ClientStep(t)
    PROVE  Whole(s)'
<1>1. UNCHANGED <<worker, dead, on, payload, workerVars>>
  BY DEF ClientStep, ClientSend, ClientClose, RunProxy, RunForwarder, ForwarderPanics, slotVars,
     clientVars
<1> SUFFICES ASSUME Sole(s), ~wedged PROVE Unbroken(s)'
  BY <1>1 DEF Whole, Sole, Reaches, Alone, workerVars
<1>2. Unbroken(s)
  BY DEF Whole
<1>3. /\ UNCHANGED <<payload, startedBy, requestTx, taken, work>> /\ Over' = Over
      /\ \A r, k : Request(r, k)' = Request(r, k) /\ InitData(r)' = InitData(r)
      /\ \A k : PlainUpTo(s, k)' = PlainUpTo(s, k)
      /\ DataOf(s)' = DataOf(s) /\ Null' = Null
  BY <1>1 DEF workerVars, Over, Request, InitData, PlainUpTo, DataOf, Null
<1>4. ASSUME UNCHANGED <<inbox, forwarding[s], feed[s], proxy[s], sent[s]>>,
             s \in died' <=> s \in died
      PROVE  Unbroken(s)'
  <2>1. Cut(s)' = Cut(s)
    BY <1>3, <1>4 DEF Cut, Behind
  <2> QED
    BY <1>2, <1>3, <1>4, <2>1 DEF Unbroken, EndsOnce
<1>5. CASE ClientClose(t) \/ (ClientStep(t) /\ t # s)
  <2>1. /\ UNCHANGED <<forwarding[s], feed[s], proxy[s], sent[s]>>
        /\ s \in died' <=> s \in died
    BY <1>5 DEF ClientStep, ClientSend, ClientClose, RunProxy, RunForwarder, ForwarderPanics,
       taskVars, clientVars, TypeOK
  <2>2. UNCHANGED inbox
    <3>1. t # s => ~Reaches(t)
      BY DEF Sole, Reaches, Alone
    <3> QED
      BY <1>5, <3>1 DEF ClientStep, ClientSend, ClientClose, RunProxy, RunForwarder,
         ForwarderPanics
  <2> QED
    BY <1>4, <2>1, <2>2
<1>6. CASE ClientSend(s)
  <2> DEFINE r == Request(s, sent[s] + 1)
  <2>1. /\ proxy'[s] = Append(proxy[s], r) /\ sent'[s] = sent[s] + 1 /\ sender[s] = "open"
        /\ UNCHANGED <<inbox, forwarding, feed, died>> /\ sent[s] \in Nat
    BY <1>6, SessionsAssumption DEF ClientSend, TypeOK
  <2>2. r \in Message /\ proxy[s] \in Seq(Message)
    <3>1. s \in Nat /\ sent[s] + 1 \in Nat
      BY <2>1, SessionIds
    <3> QED
      BY <3>1 DEF TypeOK, Message, Request
  <2>3. Range(proxy'[s]) = Range(proxy[s]) \union {r}
    BY <2>1, <2>2, Appended
  <2>4. ASSUME ~Over, NEW k \in 1..sent'[s], PlainUpTo(s, k)
        PROVE  Request(s, k) \in Lying(taken, work, inbox, feed[s], proxy'[s])
    <3>1. k \in 1..sent[s] \/ k = sent[s] + 1
      BY <2>1
    <3> QED
      BY <1>2, <2>3, <2>4, <3>1 DEF Unbroken, Lying
  <2>5. forwarding[s] \/ s \in died
    <3>1. proxying[s]
      <4>1. ~(s > opened)
        BY <2>1 DEF IInv, Openings
      <4> QED
        BY <2>1, <4>1, SessionIds DEF IInv, Shape, Openings
    <3> QED
      BY <3>1 DEF Drained
  <2>6. Behind(s)' \subseteq Behind(s) \union {r}
    BY <1>3, <2>1, <2>3 DEF Behind
  <2> HIDE DEF r
  <2>7. Cut(s) => Cut(s)'
    BY <1>3, <2>1, <2>6, CutStays DEF r
  <2> QED
    BY <1>2, <1>3, <2>1, <2>4, <2>5, <2>7 DEF Unbroken, EndsOnce
<1>7. CASE RunProxy(s)
  <2>1. /\ feed'[s] = feed[s] \o proxy[s] /\ proxy'[s] = <<>>
        /\ UNCHANGED <<inbox, sent, forwarding, died>>
    BY <1>7 DEF RunProxy, TypeOK, clientVars
  <2>2. Range(feed'[s]) = Range(feed[s]) \union Range(proxy[s])
    <3>1. feed[s] \in Seq(Message) /\ proxy[s] \in Seq(Message)
      BY DEF TypeOK
    <3>2. Range(feed[s] \o proxy[s]) = Range(feed[s]) \union Range(proxy[s])
      BY <3>1, RangeConcatenation
    <3> QED
      BY <2>1, <3>2
  <2>3. /\ Lying(taken, work, inbox, feed'[s], proxy'[s])
               = Lying(taken, work, inbox, feed[s], proxy[s])
        /\ Behind(s)' = Behind(s)
    BY <1>3, <2>1, <2>2, Empty DEF Lying, Behind
  <2>4. Cut(s) => Cut(s)'
    BY <1>3, <2>1, <2>3, CutStays
  <2> QED
    BY <1>2, <1>3, <2>1, <2>3, <2>4 DEF Unbroken, EndsOnce
<1>8. CASE RunForwarder(s)
  <2> DEFINE ending == IF proxying[s] THEN <<>> ELSE <<Null>>
  <2>1. /\ forwarding[s] /\ feed'[s] = <<>> /\ UNCHANGED <<proxy, sent, died>>
        /\ inbox' = inbox \o feed[s] \o ending
        /\ forwarding'[s] = proxying[s]
    BY <1>8 DEF RunForwarder, TypeOK, clientVars, Sole
  <2>2. Null \notin Range(inbox) /\ s \notin died /\ (~requestTx => Cut(s))
    BY <1>2, <2>1 DEF Unbroken, Drained
  <2>3. /\ inbox \in Seq(Message) /\ feed[s] \in Seq(Message) /\ ending \in Seq(Message)
        /\ inbox \o feed[s] \in Seq(Message)
    <3>1. Null \in Message
      BY DEF Null, Message
    <3>2. ending \in Seq(Message)
      BY <3>1
    <3> QED
      BY <3>2, ConcatProperties DEF TypeOK
  <2>4. EndsOnce(ending) /\ Range(ending) = IF proxying[s] THEN {} ELSE {Null}
    BY OneEnd, Empty, Single
  <2> HIDE DEF ending
  <2>5. /\ Range(inbox \o feed[s]) = Range(inbox) \union Range(feed[s])
        /\ Range(inbox \o feed[s] \o ending) = Range(inbox \o feed[s]) \union Range(ending)
    <3> DEFINE front == inbox \o feed[s]
    <3>1. Range(front) = Range(inbox) \union Range(feed[s]) /\ front \in Seq(Message)
      BY <2>3, RangeConcatenation
    <3> HIDE DEF front
    <3>2. Range(front \o ending) = Range(front) \union Range(ending)
      BY <2>3, <3>1, RangeConcatenation
    <3> QED
      BY <3>1, <3>2 DEF front
  <2>6. Range(feed[s]) \subseteq Own(s) /\ Null \notin Own(s) /\ InitData(s) \notin Own(s)
    BY RangeOfSeq, SessionIds DEF IInv, Held, Own, Null, InitData, Request
  <2>7. InitData(s) # Null /\ Null \notin DataOf(s)
    BY SessionIds DEF InitData, Request, Null, DataOf
  <2>8. EndsOnce(inbox')
    BY <2>1, <2>2, <2>3, <2>4, <2>5, <2>6, EndOfBoth
  <2>9. inbox # <<>> => inbox' # <<>> /\ Head(inbox') = Head(inbox)
    BY <2>1, <2>3, HeadOfBoth
  <2>10. /\ Null \in Range(inbox') => ~forwarding'[s]
         /\ InitData(s) \in Range(inbox') => InitData(s) \in Range(inbox)
    BY <2>1, <2>2, <2>4, <2>5, <2>6, <2>7
  <2>11. /\ Lying(taken, work, inbox, feed[s], proxy[s])
                \subseteq Lying(taken, work, inbox', feed'[s], proxy[s])
         /\ Behind(s)' \subseteq Behind(s)
    BY <1>3, <2>1, <2>4, <2>5, <2>7, Empty DEF Lying, Behind
  <2>12. ~requestTx => Cut(s)'
    BY <1>3, <2>1, <2>2, <2>11, CutStays
  <2> QED
    BY <1>2, <1>3, <2>1, <2>2, <2>8, <2>9, <2>10, <2>11, <2>12 DEF Unbroken, EndsOnce
<1>9. CASE ForwarderPanics(s)
  <2>1. /\ forwarding[s] /\ ~forwarding'[s] /\ UNCHANGED <<proxy, sent>>
        /\ Null \notin Range(inbox) /\ (~requestTx => Cut(s))
    BY <1>2, <1>9 DEF ForwarderPanics, TypeOK, clientVars, Unbroken
  <2>2. PICK k \in DOMAIN feed[s] :
            /\ feed[s][k] \in payload.refusedRequests
            /\ inbox' = inbox \o SubSeq(feed[s], 1, k - 1)
            /\ feed'[s] = SubSeq(feed[s], k + 1, Len(feed[s]))
    BY <1>9 DEF ForwarderPanics, FirstRefused, TypeOK, Sole
  <2> DEFINE first == SubSeq(feed[s], 1, k - 1)
             rest == SubSeq(feed[s], k + 1, Len(feed[s]))
  <2>3. /\ first \in Seq(Message) /\ rest \in Seq(Message)
        /\ Range(feed[s]) = Range(first) \union {feed[s][k]} \union Range(rest)
    <3>1. feed[s] \in Seq(Message)
      BY DEF TypeOK
    <3> QED
      BY <3>1, Parted
  <2> HIDE DEF first, rest
  <2>4. inbox \in Seq(Message) /\ Range(inbox') = Range(inbox) \union Range(first)
    <3>1. inbox \in Seq(Message)
      BY DEF TypeOK
    <3>2. Range(inbox \o first) = Range(inbox) \union Range(first)
      BY <2>3, <3>1, RangeConcatenation
    <3> QED
      BY <2>2, <3>1, <3>2 DEF first
  <2>5. Range(feed[s]) \subseteq Own(s) /\ Null \notin Own(s) /\ InitData(s) \notin Own(s)
    BY RangeOfSeq, SessionIds DEF IInv, Held, Own, Null, InitData, Request
  <2>6. Null \notin Range(inbox') /\ EndsOnce(inbox')
    BY <2>1, <2>3, <2>4, <2>5, NoEnd
  <2>7. inbox # <<>> => inbox' # <<>> /\ Head(inbox') = Head(inbox)
    BY <2>2, <2>3, <2>4, HeadOfBoth DEF first
  <2>8. InitData(s) \in Range(inbox') => InitData(s) \in Range(inbox)
    BY <2>3, <2>4, <2>5
  <2>9. /\ Range(feed'[s]) = Range(rest)
        /\ Lying(taken, work, inbox, feed[s], proxy[s])
                \subseteq Lying(taken, work, inbox', feed'[s], proxy[s]) \union {feed[s][k]}
        /\ Behind(s)' \subseteq Behind(s)
    BY <1>3, <2>1, <2>2, <2>3, <2>4 DEF Lying, Behind, rest
  <2>10. ~requestTx => Cut(s)'
    BY <1>3, <2>1, <2>9, CutStays
  <2>11. ASSUME ~Over, NEW i \in 1..sent[s], PlainUpTo(s, i)
         PROVE  Request(s, i) \in Lying(taken, work, inbox', feed'[s], proxy[s])
    <3>1. Request(s, i) \notin payload.refusedRequests
      <4>1. i \in 0..i
        OBVIOUS
      <4> QED
        BY <2>11, <4>1 DEF PlainUpTo
    <3> QED
      BY <1>2, <2>2, <2>9, <2>11, <3>1 DEF Unbroken
  <2> QED
    BY <1>2, <1>3, <2>1, <2>6, <2>7, <2>8, <2>10, <2>11 DEF Unbroken, EndsOnce
<1> QED
  BY <1>5, <1>6, <1>7, <1>8, <1>9 DEF ClientStep

\* The next message to the worker, if it is not the null of the forwarder.
LEMMA NextOfInbox ==
    ASSUME IInv, TypeOK, NEW s \in Session, Sole(s), InOrder(s), inbox # <<>>,
           Head(inbox) # Null
    PROVE  /\ Head(inbox) = Request(s, Head(inbox).n) /\ Head(inbox).n \in 0..sent[s]
           /\ Head(inbox) \in DataOf(s)
           /\ \A m \in (Range(Tail(inbox)) \union Range(feed[s]) \union Range(proxy[s]))
                           \cap DataOf(s) : Head(inbox).n < m.n
<1>1. Head(inbox) \in DataOf(s)
  <2>1. Head(inbox) \in Of(worker) \union Ending
    BY HeadTailProperties DEF IInv, OnWorker
  <2> QED
    BY <2>1, EndingMessages DEF Of, DataOf, Sole, Reaches, Alone
<1>2. /\ Pieces(taken, work, inbox, feed[s], proxy[s], DataOf(s))
      /\ \A m \in OnTheWay(s) : m.n <= sent[s]
  BY DEF InOrder
<1>3. /\ Range(inbox) = {Head(inbox)} \union Range(Tail(inbox))
      /\ \A m \in Range(Tail(inbox)) \cap DataOf(s) : Head(inbox).n < m.n
  BY <1>1, <1>2, BehindHead DEF TypeOK, Pieces
<1>4. \A m \in (Range(feed[s]) \union Range(proxy[s])) \cap DataOf(s) : Head(inbox).n < m.n
  BY <1>1, <1>2, <1>3 DEF Pieces, Before
<1>5. Head(inbox).n <= sent[s] /\ sent[s] \in Nat
  BY <1>1, <1>2, <1>3, SessionsAssumption DEF OnTheWay, Lying, TypeOK
<1>6. Head(inbox) = Request(s, Head(inbox).n) /\ Head(inbox).n \in Nat
  BY <1>1 DEF DataOf, Request
<1> QED
  BY <1>1, <1>3, <1>4, <1>5, <1>6

LEMMA WorkerWhole ==
    ASSUME IInv, TypeOK, NEW s \in Session, Whole(s), InOrder(s), WorkerStep
    PROVE  Whole(s)'
<1>1. UNCHANGED <<slotVars, clientVars, taskVars>> /\ (wedged => wedged')
  BY DEF WorkerStep, WorkerReceive, ReceiveNull, ReceiveFirst, ReceiveRequest, ReceivePanics,
     ReceiveNothing, FnTake, FnRespond, FnReturn, FnStop, Ends, RunLoop, LoopPanics, workerVars
<1> SUFFICES ASSUME Sole(s), ~wedged, ~wedged' PROVE Unbroken(s)'
  BY <1>1 DEF Whole, Sole, Reaches, Alone, slotVars
<1>2. Unbroken(s)
  BY DEF Whole
<1>3. /\ UNCHANGED <<forwarding, died, feed, proxy, sent, payload>>
      /\ \A r, k : Request(r, k)' = Request(r, k) /\ InitData(r)' = InitData(r)
      /\ \A k : PlainUpTo(s, k)' = PlainUpTo(s, k)
      /\ DataOf(s)' = DataOf(s) /\ Null' = Null
  BY <1>1 DEF taskVars, clientVars, Request, InitData, PlainUpTo, DataOf, Null
<1>4. /\ InitData(s) # Null /\ \A k \in 1..sent[s] : Request(s, k) # Null
      /\ \A k \in 1..sent[s] : Request(s, k) # InitData(s)
      /\ InitData(s) \in DataOf(s) /\ InitData(s).n = 0 /\ Null \notin DataOf(s)
      /\ \A n : Request(s, n).n = n
  BY SessionIds DEF InitData, Request, Null, DataOf
<1>5. ASSUME WorkerReceive PROVE Unbroken(s)'
  <2>1. inbox # <<>> /\ inbox' = Tail(inbox) /\ UNCHANGED taken
    BY <1>5 DEF WorkerReceive, ReceiveNull, ReceiveFirst, ReceiveRequest, ReceivePanics,
       ReceiveNothing, NextIsNull, NextIsData, workerVars
  <2>2. Range(inbox) = {Head(inbox)} \union Range(inbox')
    BY <2>1, BehindHead DEF TypeOK
  <2>3. EndsOnce(inbox') /\ (Head(inbox) = Null => inbox' = <<>>)
    BY <1>2, <2>1, EndOfTail DEF TypeOK, Unbroken
  <2>4. Head(inbox) # Null =>
            /\ Head(inbox) = Request(s, Head(inbox).n) /\ Head(inbox).n \in 0..sent[s]
            /\ \A m \in Behind(s)' : Head(inbox).n < m.n
            /\ Head(inbox) \in DataOf(s)
    BY <1>3, <2>1, NextOfInbox DEF Behind
  <2>5. /\ Behind(s)' \subseteq Behind(s)
        /\ Null \in Range(inbox') => ~forwarding[s] /\ s \notin died
        /\ InitData(s) \in Range(inbox') => InitData(s) \in Range(inbox)
    BY <1>2, <1>3, <2>2 DEF Behind, Unbroken
  \* What is lost when the next message is.
  <2>6. ASSUME UNCHANGED <<work, fn>>,
               NEW j \in 0..sent[s], Request(s, j) \in payload.nullRequests,
               Head(inbox) # Null => j <= Head(inbox).n
        PROVE  ~Over' => \A k \in 1..sent[s] : PlainUpTo(s, k) =>
                   Request(s, k) \in Lying(taken, work', inbox', feed[s], proxy[s])
    <3> SUFFICES ASSUME ~Over, NEW k \in 1..sent[s], PlainUpTo(s, k)
                 PROVE  Request(s, k) \in Lying(taken, work, inbox', feed[s], proxy[s])
      BY <2>6 DEF Over
    <3>1. Request(s, k) # Head(inbox)
      <4> SUFFICES ASSUME Request(s, k) = Head(inbox) PROVE FALSE
        OBVIOUS
      <4>1. j <= k /\ sent[s] \in Nat
        BY <1>4, <2>6, SessionsAssumption DEF TypeOK
      <4>2. j \in 0..k
        BY <4>1
      <4> QED
        BY <2>6, <4>2 DEF PlainUpTo
    <3> QED
      BY <1>2, <2>2, <3>1 DEF Unbroken, Lying
  <2>7. CASE ReceiveNull
    <3>1. /\ NullRequest(Head(inbox)) /\ requestTx' = FALSE
          /\ UNCHANGED <<wedged, startedBy, work, fn>>
      BY <2>7 DEF ReceiveNull, NextIsNull
    <3>2. CASE Head(inbox) = Null
      <4>1. inbox' = <<>> /\ ~forwarding[s] /\ s \notin died
        BY <1>2, <2>2, <2>3, <3>2 DEF Unbroken
      <4>2. ~Over => \A k \in 1..sent[s] : PlainUpTo(s, k) =>
                Request(s, k) \in Lying(taken, work, inbox', feed[s], proxy[s])
        BY <1>2, <1>4, <2>2, <3>2 DEF Unbroken, Lying
      <4> QED
        BY <1>2, <1>3, <2>1, <2>3, <3>1, <4>1, <4>2, Empty DEF Unbroken, Over, EndsOnce
    <3>3. CASE Head(inbox) # Null
      <4>1. Head(inbox) \in payload.nullRequests
        BY <3>1, <3>3 DEF NullRequest
      <4>2. Cut(s)'
        BY <1>3, <2>4, <3>3, <4>1 DEF Cut
      <4>3. PICK j \in 0..sent[s] : j = Head(inbox).n
        BY <2>4, <3>3
      <4>4. Request(s, j) \in payload.nullRequests /\ j <= Head(inbox).n
        BY <2>4, <3>3, <4>1, <4>3
      <4>5. ~Over' => \A k \in 1..sent[s] : PlainUpTo(s, k) =>
                Request(s, k) \in Lying(taken, work', inbox', feed[s], proxy[s])
        BY <2>6, <3>1, <4>4
      <4> QED
        BY <1>2, <1>3, <2>1, <2>3, <2>5, <3>1, <4>2, <4>5 DEF Unbroken, EndsOnce
    <3> QED
      BY <3>2, <3>3
  <2>8. CASE ReceiveFirst
    <3>1. /\ Head(inbox) = InitData(s) /\ requestTx /\ startedBy' = s /\ fn' = "running"
          /\ startedBy = 0 /\ UNCHANGED <<wedged, requestTx, work>>
      <4>1. InitData(s).session = s
        BY DEF InitData, Request
      <4> QED
        BY <1>2, <2>8, <4>1 DEF ReceiveFirst, Unbroken
    <3>2. InitData(s) \notin Range(inbox')
      <4>1. InitData(s) \in Range(inbox') => InitData(s) \in Behind(s)'
        BY <1>3, <1>4 DEF Behind
      <4>2. ~(0 < 0)
        OBVIOUS
      <4> QED
        BY <1>4, <2>4, <3>1, <4>1, <4>2
    <3>3. ~Over /\ s # 0
      BY <3>1, SessionIds DEF Over, IInv, Installed
    <3>4. \A k \in 1..sent[s] : PlainUpTo(s, k) =>
              Request(s, k) \in Lying(taken, work, inbox', feed[s], proxy[s])
      BY <1>2, <1>4, <2>2, <3>1, <3>3 DEF Unbroken, Lying
    <3> QED
      BY <1>2, <1>3, <2>1, <2>3, <2>5, <3>1, <3>2, <3>3, <3>4 DEF Unbroken, EndsOnce
  <2>9. CASE ReceiveRequest
    <3>1. /\ work' = IF Over THEN work ELSE Append(work, Head(inbox))
          /\ startedBy # 0 /\ requestTx /\ UNCHANGED <<wedged, startedBy, requestTx, fn>>
      BY <2>9 DEF ReceiveRequest
    <3>2. Head(inbox) \in Message
      BY <2>1, HeadTailProperties DEF TypeOK
    <3>3. ~Over => Range(work') = Range(work) \union {Head(inbox)}
      <4>1. work \in Seq(Message)
        BY DEF TypeOK
      <4>2. Range(Append(work, Head(inbox))) = Range(work) \union {Head(inbox)}
        BY <3>2, <4>1, Appended
      <4> QED
        BY <3>1, <4>2
    <3>4. ~Over => \A k \in 1..sent[s] : PlainUpTo(s, k) =>
              Request(s, k) \in Lying(taken, work', inbox', feed[s], proxy[s])
      BY <1>2, <2>2, <3>3 DEF Unbroken, Lying
    <3> QED
      BY <1>2, <1>3, <2>1, <2>3, <2>5, <3>1, <3>4 DEF Unbroken, Over, EndsOnce
  <2>10. ~ReceivePanics
    BY DEF ReceivePanics
  <2>11. CASE ReceiveNothing
    <3>1. ~requestTx /\ Head(inbox) # Null /\ UNCHANGED workerVars
      BY <2>11 DEF ReceiveNothing, NextIsData, NullRequest
    <3>2. Cut(s)
      BY <1>2, <2>1, <3>1 DEF Unbroken
    <3>3. PICK j \in 0..sent[s] : /\ Request(s, j) \in payload.nullRequests
                                 /\ \A m \in Behind(s) : j < m.n
      BY <3>2 DEF Cut
    <3>4. j <= Head(inbox).n
      <4>1. Head(inbox) \in Behind(s) /\ Head(inbox).n \in 0..sent[s]
        BY <2>2, <2>4, <3>1 DEF Behind
      <4>2. j < Head(inbox).n
        BY <3>3, <4>1
      <4> QED
        BY <4>1, <4>2
    <3>5. UNCHANGED <<work, fn, startedBy, requestTx>>
      BY <3>1 DEF workerVars
    <3>6. ~Over' => \A k \in 1..sent[s] : PlainUpTo(s, k) =>
              Request(s, k) \in Lying(taken, work', inbox', feed[s], proxy[s])
      BY <2>6, <3>3, <3>4, <3>5
    <3>7. Cut(s)'
      BY <1>3, <2>5, <3>2, CutStays
    <3> QED
      BY <1>2, <1>3, <2>1, <2>3, <2>5, <3>1, <3>5, <3>6, <3>7 DEF Unbroken, EndsOnce
  <2> QED
    BY <1>5, <2>7, <2>8, <2>9, <2>10, <2>11 DEF WorkerReceive
<1>9. UNCHANGED inbox => Cut(s)' = Cut(s)
  BY <1>3 DEF Cut, Behind
<1>6. CASE FnTake
  <2>1. /\ work # <<>> /\ work' = Tail(work) /\ taken' = Append(taken, Head(work))
        /\ UNCHANGED <<inbox, requestTx, wedged, startedBy, fn>>
    BY <1>6 DEF FnTake
  <2>2. Range(work) = {Head(work)} \union Range(work') /\ Head(work) \in Message
    BY <2>1, BehindHead, HeadTailProperties DEF TypeOK
  <2>3. Range(taken') = Range(taken) \union {Head(work)}
    <3>1. taken \in Seq(Message)
      BY DEF TypeOK
    <3>2. Range(Append(taken, Head(work))) = Range(taken) \union {Head(work)}
      BY <2>2, <3>1, Appended
    <3> QED
      BY <2>1, <3>2
  <2>4. Lying(taken', work', inbox, feed[s], proxy[s])
            = Lying(taken, work, inbox, feed[s], proxy[s])
    BY <2>2, <2>3 DEF Lying
  <2> QED
    BY <1>2, <1>3, <1>9, <2>1, <2>4 DEF Unbroken, Over, EndsOnce
<1>7. CASE FnReturn \/ FnStop
  <2>1. Over' /\ UNCHANGED <<inbox, requestTx, wedged, startedBy>>
    BY <1>7 DEF FnReturn, FnStop, Ends, Over
  <2> QED
    BY <1>2, <1>3, <1>9, <2>1 DEF Unbroken, EndsOnce
<1>8. CASE FnRespond \/ RunLoop \/ LoopPanics
  <2>1. UNCHANGED <<inbox, requestTx, wedged, startedBy, work, taken, fn>>
    BY <1>8 DEF FnRespond, RunLoop, LoopPanics
  <2> QED
    BY <1>2, <1>3, <1>9, <2>1 DEF Unbroken, Over, EndsOnce
<1> QED
  BY <1>5, <1>6, <1>7, <1>8 DEF WorkerStep

RequestInv == Drained /\ \A s \in Session : InOrder(s) /\ Whole(s)

LEMMA RequestInit == Init => RequestInv
<1> SUFFICES ASSUME Init PROVE RequestInv
  OBVIOUS
<1>1. Drained
  BY DrainedInit
<1>2. ASSUME NEW s \in Session PROVE InOrder(s) /\ Whole(s)
  <2>1. /\ taken = <<>> /\ work = <<>> /\ inbox = <<>> /\ feed[s] = <<>> /\ proxy[s] = <<>>
        /\ ~Reaches(s)
    BY DEF Init, Reaches
  <2> QED
    BY <2>1, Empty DEF InOrder, OnTheWay, Pieces, Before, Lying, Whole, Sole
<1> QED
  BY <1>1, <1>2 DEF RequestInv

LEMMA RequestStep == ASSUME IInv, TypeOK, RequestInv, [Next]_vars PROVE RequestInv'
<1>1. Drained'
  BY DrainedStep DEF RequestInv
<1>2. ASSUME NEW s \in Session PROVE InOrder(s)'
  BY OrderStep DEF RequestInv
<1>3. ASSUME NEW s \in Session PROVE Whole(s)'
  <2>1. /\ Drained /\ InOrder(s) /\ Whole(s)
    BY DEF RequestInv
  <2>2. ASSUME UNCHANGED <<slotVars, clientVars, taskVars, inbox, workerVars>>
        PROVE  Whole(s)'
    <3>1. /\ UNCHANGED <<worker, dead, on, sent, payload, feed, proxy, forwarding, died, inbox,
                        requestTx, wedged, startedBy, work, taken, fn>>
          /\ Cut(s)' = Cut(s) /\ Over' = Over
          /\ \A k : Request(s, k)' = Request(s, k) /\ PlainUpTo(s, k)' = PlainUpTo(s, k)
      BY <2>2 DEF slotVars, clientVars, taskVars, workerVars, Cut, Behind, DataOf, Over, Request,
         PlainUpTo
    <3> QED
      BY <2>1, <3>1 DEF Whole, Sole, Reaches, Alone, Unbroken, EndsOnce, InitData
  <2>3. CASE UNCHANGED vars
    BY <2>2, <2>3 DEF vars
  <2>4. CASE MainReceive
    BY <2>2, <2>4 DEF MainReceive
  <2> QED
    BY <2>1, <2>3, <2>4, OpenWhole, ClientWhole, AbortWhole, WorkerWhole
       DEF Next, ClientStep, WorkerStep
<1>4. Session' = Session
  BY DEF Session
<1> QED
  BY <1>1, <1>2, <1>3, <1>4 DEF RequestInv

\* For any number of sessions, requests and aborts: on the way from the client to the
\* function no request overtakes or repeats another or the init data, whatever panics; and
\* of a session that has its worker to itself none is lost up to the first that is null or
\* cannot be posted, while they are read and requestTx is not left locked
\* (PoolExecutor::channel, WorkerHandle::channel, ChannelWorkerFn::new).
THEOREM RequestsInOrder == Spec => []RequestsKeepOrder
<1>1. Spec => []TypeOK
  BY SessionTyping
<1>2. Spec => []RequestInv
  BY RequestInit, RequestStep, Invariance, <1>1, PTL DEF Spec
<1>3. IInv /\ TypeOK /\ RequestInv => RequestsKeepOrder
  <2> SUFFICES ASSUME IInv, TypeOK, RequestInv, NEW s \in 1..opened
               PROVE  /\ Rising(Upstream(s), DataOf(s))
                      /\ Range(Upstream(s)) \cap DataOf(s)
                             \subseteq {Request(s, k) : k \in 0..sent[s]}
                      /\ Reaches(s) /\ Alone(s) /\ ~Over /\ ~wedged =>
                             {Request(s, k) : k \in {i \in 1..sent[s] : PlainUpTo(s, i)}}
                                 \subseteq Range(Upstream(s))
    BY DEF RequestsKeepOrder
  <2>1. s \in Session
    BY SessionIds DEF TypeOK, Session
  <2>2. /\ taken \in Seq(Message) /\ work \in Seq(Message) /\ inbox \in Seq(Message)
        /\ feed[s] \in Seq(Message) /\ proxy[s] \in Seq(Message) /\ sent[s] \in Nat
    BY <2>1, SessionsAssumption DEF TypeOK
  <2>3. /\ Range(Upstream(s)) = Lying(taken, work, inbox, feed[s], proxy[s])
        /\ Rising(Upstream(s), DataOf(s)) <=>
               Pieces(taken, work, inbox, feed[s], proxy[s], DataOf(s))
    BY <2>2, InPieces DEF Upstream
  <2>4. InOrder(s) /\ Whole(s)
    BY <2>1 DEF RequestInv
  <2>5. ASSUME NEW m \in Range(Upstream(s)) \cap DataOf(s)
        PROVE  m \in {Request(s, k) : k \in 0..sent[s]}
    <3>1. m.n \in 0..sent[s]
      BY <2>2, <2>3, <2>4 DEF InOrder, OnTheWay, DataOf
    <3>2. m = Request(s, m.n)
      BY DEF DataOf, Request
    <3> QED
      BY <3>1, <3>2
  <2> QED
    BY <2>3, <2>4, <2>5 DEF InOrder, Whole, Sole, Unbroken
<1> QED
  BY <1>1, <1>2, <1>3, Invariance, PTL

-----------------------------------------------------------------------------
(* What ends the requests of a worker.                                     *)

\* The client of a session on the slot's worker has sent data that is null.
Nulled == \E s \in Session : on[s] = worker /\ SentNull(s)

EndInv == requestTx \/ Closed \/ Nulled

LEMMA EndStep == ASSUME IInv, TypeOK, RequestInv, EndInv, [Next]_vars PROVE EndInv'
<1>1. ASSUME UNCHANGED <<worker, payload>>,
             requestTx' \/ (requestTx' <=> requestTx),
             \A s \in Session : /\ on[s] = worker => on'[s] = worker
                                /\ sender[s] = "dropped" => sender'[s] = "dropped"
                                /\ sent'[s] \in Nat /\ sent[s] <= sent'[s]
      PROVE  EndInv'
  <2>1. CASE Closed
    BY <1>1, <2>1 DEF Closed, EndInv
  <2>2. CASE Nulled
    <3>1. PICK s \in Session : on[s] = worker /\ SentNull(s)
      BY <2>2 DEF Nulled
    <3>2. PICK k \in 0..sent[s] : Request(s, k) \in payload.nullRequests
      BY <3>1 DEF SentNull
    <3>3. sent[s] \in Nat /\ Request(s, k)' = Request(s, k)
      BY SessionsAssumption DEF TypeOK, Request
    <3>4. k \in 0..sent'[s]
      BY <1>1, <3>3
    <3>5. SentNull(s)'
      BY <1>1, <3>2, <3>3, <3>4 DEF SentNull
    <3> QED
      BY <1>1, <3>1, <3>5 DEF Nulled, EndInv
  <2> QED
    BY <1>1, <2>1, <2>2 DEF EndInv
<1>2. \A s \in Session : sent[s] \in Nat /\ sent[s] <= sent[s] /\ sent[s] <= sent[s] + 1
                         /\ sent[s] + 1 \in Nat
  BY SessionsAssumption DEF TypeOK
<1>3. ASSUME NEW s \in Session, Open(s) PROVE EndInv'
  <2>1. /\ UNCHANGED <<worker, payload, sent, requestTx>>
        /\ on' = [on EXCEPT ![s] = worker] /\ sender' = [sender EXCEPT ![s] = "open"]
        /\ sender[s] = "none"
    BY <1>3, SessionIds DEF Open, workerVars, IInv, Openings, Shape
  <2> QED
    BY <1>1, <1>2, <2>1 DEF TypeOK
<1>4. ASSUME NEW s \in Session, ClientStep(s) PROVE EndInv'
  <2>1. UNCHANGED <<worker, payload, on, workerVars>>
    BY <1>4 DEF ClientStep, ClientSend, ClientClose, RunProxy, RunForwarder, ForwarderPanics,
       slotVars, clientVars
  <2>2. \A t \in Session : /\ sender[t] = "dropped" => sender'[t] = "dropped"
                           /\ sent'[t] = sent[t] \/ sent'[t] = sent[t] + 1
    BY <1>4 DEF ClientStep, ClientSend, ClientClose, RunProxy, RunForwarder, ForwarderPanics,
       clientVars, TypeOK
  <2> QED
    BY <1>1, <1>2, <2>1, <2>2 DEF workerVars
<1>5. ASSUME NEW s \in Session, Abort(s) \/ AbortUnreplaced(s) PROVE EndInv'
  BY <1>5 DEF Abort, AbortUnreplaced, Terminate, EndInv
<1>6. ASSUME UNCHANGED <<slotVars, clientVars, requestTx>> PROVE EndInv'
  BY <1>1, <1>2, <1>6 DEF slotVars, clientVars
<1>7. CASE ReceiveNull
  <2>1. /\ UNCHANGED <<slotVars, clientVars>> /\ inbox # <<>> /\ NullRequest(Head(inbox))
    BY <1>7 DEF ReceiveNull, NextIsNull
  <2>2. Head(inbox) \in Of(worker) \union Ending /\ Head(inbox) \in Range(inbox)
    BY <2>1, HeadTailProperties, BehindHead DEF IInv, OnWorker
  <2>3. Closed' = Closed /\ Nulled' = Nulled
    BY <2>1 DEF slotVars, clientVars, Closed, Nulled, SentNull, Request
  <2>4. CASE Head(inbox) = Null
    BY <2>2, <2>3, <2>4, OfMessages DEF Ending, EndInv
  <2>5. CASE Head(inbox) # Null
    <3>1. Head(inbox) \in payload.nullRequests /\ Head(inbox) \in Of(worker)
      BY <2>1, <2>2, <2>5, EndingMessages DEF NullRequest
    <3>2. PICK s \in Session : on[s] = worker /\ Head(inbox).session = s
      BY <3>1 DEF Of
    <3>3. Head(inbox) \in DataOf(s) /\ InOrder(s)
      BY <3>1, <3>2 DEF Of, DataOf, RequestInv
    <3>4. Head(inbox).n <= sent[s]
      BY <2>2, <3>3 DEF InOrder, OnTheWay, Lying
    <3>5. Head(inbox) = Request(s, Head(inbox).n) /\ Head(inbox).n \in 0..sent[s]
      BY <1>2, <3>3, <3>4 DEF DataOf, Request
    <3>6. Nulled
      BY <3>1, <3>2, <3>5 DEF Nulled, SentNull
    <3> QED
      BY <2>3, <3>6 DEF EndInv
  <2> QED
    BY <2>4, <2>5
<1>8. WorkerStep /\ ~ReceiveNull => UNCHANGED <<slotVars, clientVars, requestTx>>
  BY DEF WorkerStep, WorkerReceive, ReceiveFirst, ReceiveRequest, ReceivePanics,
     ReceiveNothing, FnTake, FnRespond, FnReturn, FnStop, Ends, RunLoop, LoopPanics, workerVars
<1>9. UNCHANGED vars \/ MainReceive => UNCHANGED <<slotVars, clientVars, requestTx>>
  BY DEF vars, MainReceive, workerVars
<1> QED
  BY <1>3, <1>4, <1>5, <1>6, <1>7, <1>8, <1>9 DEF Next, ClientStep, WorkerStep

\* Though the tasks of a session outlive its worker, neither its requests nor their
\* end get to the worker that replaces it, and responses only to sessions of the
\* worker they come from (AbortHandle::abort and the tasks of channel).
THEOREM AbortsIsolate == Spec => []AbortIsolates
<1>1. IInv /\ EndInv => AbortIsolates
  <2> SUFFICES ASSUME IInv, EndInv PROVE AbortIsolates
    OBVIOUS
  <2>1. ASSUME NEW m \in Range(taken \o work \o inbox), m # Null
        PROVE  on[m.session] = worker
    <3> DEFINE S == Of(worker) \union Ending
    <3>1. taken \in Seq(S) /\ work \in Seq(S) /\ inbox \in Seq(S)
      <4>1. Of(worker) \subseteq S
        OBVIOUS
      <4> QED
        BY <4>1, SeqMonotonic DEF IInv, OnWorker
    <3>2. taken \o work \in Seq(S)
      BY <3>1, ConcatProperties
    <3>3. (taken \o work) \o inbox \in Seq(S)
      BY <3>1, <3>2, ConcatProperties
    <3>4. m \in S
      BY <3>3, LenProperties DEF Range
    <3> QED
      BY <2>1, <3>4 DEF Of, Ending
  <2>2. Null \in Range(inbox) => Closed
    <3>1. Null \in Range(inbox) => Null \in Of(worker) \union Ending
      BY LenProperties DEF IInv, OnWorker, Range
    <3> QED
      BY <3>1, OfMessages DEF Ending
  <2>3. ASSUME NEW s \in Session, NEW m \in Range(answers[s])
        PROVE  on[m.session] = on[s]
    <3>1. m \in Of(on[s])
      BY LenProperties DEF IInv, Held, Range
    <3> QED
      BY <3>1 DEF Of
  <2> QED
    BY <2>1, <2>2, <2>3 DEF AbortIsolates, EndInv, Closed, Nulled
<1>2. Init => EndInv
  BY DEF Init, EndInv
<1>3. Spec => []TypeOK
  BY SessionTyping
<1>4. Spec => []RequestInv
  BY RequestInit, RequestStep, Invariance, <1>3, PTL DEF Spec
<1>5. Spec => []EndInv
  BY <1>2, <1>3, <1>4, EndStep, Invariance, PTL DEF Spec
<1> QED
  BY Invariance, <1>1, <1>5, PTL

-----------------------------------------------------------------------------
(* Responses keep their order, and none is lost.                           *)

\* All responses of the slot's worker, wherever they are by now.
Answered ==
    (UNION {Range(answers[s]) : s \in OnSlot}) \union Range(outbox) \union Range(replies)

\* They rise along every way down, and from one session to the next.
Sorted ==
    /\ Rising(outbox, Data) /\ Rising(replies, Data) /\ Before(outbox, replies, Data)
    /\ \A s \in OnSlot : /\ Rising(answers[s], Data)
                         /\ Before(answers[s], outbox, Data) /\ Before(answers[s], replies, Data)
    /\ \A s, t \in OnSlot : s < t => Before(answers[s], answers[t], Data)

\* None was made up, and none is lost up to the first that is null or refused.
Counted ==
    /\ Answered \ {Null} \subseteq {Response(k) : k \in 1..made}
    /\ \A k \in 1..made : PlainResponses(k) => Response(k) \in Answered

\* A response that is null has dropped response_tx of the last session: all that is
\* still to come is behind it.
CutShort ==
    \E j \in 1..made :
        /\ Response(j) \in payload.nullResponses
        /\ \A m \in (Range(outbox) \union Range(replies)) \cap Data : j < m.n

\* The null of the loop comes once, after everything, and drops it too.
Ended ==
    /\ startedBy = 0 => made = 0
    /\ Null \in Range(outbox) => startedBy # 0 /\ ~looping /\ Over /\ replies = <<>>
    /\ EndsOnce(outbox)
    /\ onmessage # 0 /\ ~receiving[onmessage] =>
           CutShort \/ (startedBy # 0 /\ ~looping /\ Over /\ outbox = <<>> /\ replies = <<>>)
    /\ onmessage # 0 => \A t \in OnSlot : t <= onmessage

ResponseInv == ~dead => Sorted /\ Counted /\ Ended

\* What a number is, for the order to be one.
LEMMA Numbered ==
    ASSUME TypeOK, Counted
    PROVE  /\ \A m \in Answered \cap Data : m.n \in 1..made
           /\ Range(outbox) \subseteq Answered /\ Range(replies) \subseteq Answered
           /\ \A s \in OnSlot : Range(answers[s]) \subseteq Answered
<1>1. ASSUME NEW m \in Answered \cap Data PROVE m.n \in 1..made
  <2>1. m \in Answered \ {Null}
    BY DEF Data
  <2>2. PICK k \in 1..made : m = Response(k)
    BY <2>1 DEF Counted
  <2> QED
    BY <2>2 DEF Response
<1>2. /\ Range(outbox) \subseteq Answered /\ Range(replies) \subseteq Answered
      /\ \A s \in OnSlot : Range(answers[s]) \subseteq Answered
  BY DEF Answered
<1> QED
  BY <1>1, <1>2

LEMMA ResponseInit == Init => ResponseInv
<1> SUFFICES ASSUME Init PROVE ResponseInv
  OBVIOUS
<1>1. /\ OnSlot = {} /\ outbox = <<>> /\ replies = <<>> /\ made = 0 /\ startedBy = 0
      /\ onmessage = 0 /\ 1..0 = {}
  BY DEF Init, OnSlot
<1>2. Sorted
  BY <1>1, Empty DEF Sorted, Before
<1>3. Counted
  BY <1>1, Empty DEF Counted, Answered
<1>4. Ended
  BY <1>1, Empty, OneEnd DEF Ended
<1> QED
  BY <1>2, <1>3, <1>4 DEF ResponseInv

\* Steps that have nothing to do with responses.
LEMMA OtherResponses ==
    ASSUME ResponseInv,
           UNCHANGED <<worker, dead, on, payload, outbox, replies, made, startedBy, fn, looping,
                       mainVars>>
    PROVE  ResponseInv'
<1>1. OnSlot' = OnSlot /\ Data' = Data /\ Null' = Null
  BY DEF OnSlot, Data, Message, Null, Session
<1>2. \A k : Response(k)' = Response(k) /\ PlainResponses(k)' = PlainResponses(k)
  BY DEF Response, PlainResponses
<1>3. CutShort' = CutShort /\ Over' = Over
  BY <1>1, <1>2 DEF CutShort, Over
<1> QED
  BY <1>1, <1>2, <1>3 DEF ResponseInv, Sorted, Counted, Answered, Ended, EndsOnce, mainVars

\* What a worker had made is gone with it.
LEMMA AbortResponses ==
    ASSUME IInv, NEW s \in Session, Abort(s) \/ AbortUnreplaced(s)
    PROVE  ResponseInv'
<1>1. CASE AbortUnreplaced(s)
  BY <1>1 DEF AbortUnreplaced, ResponseInv
<1>2. CASE Abort(s)
  <2>1. /\ outbox' = <<>> /\ replies' = <<>> /\ made' = 0 /\ startedBy' = 0 /\ onmessage' = 0
        /\ worker' = worker + 1 /\ UNCHANGED on
    BY <1>2 DEF Abort, Terminate
  <2>2. \A t \in Session : on[t] # worker + 1
    <3>1. \A t \in Session : on[t] = 0 \/ on[t] \in 1..worker
      BY SessionIds DEF IInv, Shape, Openings
    <3>2. worker \in Nat
      BY DEF IInv, Shape
    <3> QED
      BY <3>1, <3>2
  <2>3. OnSlot' = {} /\ 1..0 = {}
    BY <2>1, <2>2 DEF OnSlot
  <2>4. Sorted'
    BY <2>1, <2>3, Empty DEF Sorted, Before
  <2>5. Counted'
    BY <2>1, <2>3, Empty DEF Counted, Answered
  <2>6. Ended'
    BY <2>1, Empty, OneEnd DEF Ended
  <2> QED
    BY <2>4, <2>5, <2>6 DEF ResponseInv
<1> QED
  BY <1>1, <1>2

\* A session that is opened has got no responses yet.
LEMMA OpenResponses ==
    ASSUME IInv, ResponseInv, NEW s \in Session, Open(s)
    PROVE  ResponseInv'
<1> SUFFICES ASSUME ~dead' PROVE Sorted' /\ Counted' /\ Ended'
  BY DEF ResponseInv
<1>1. /\ s = opened + 1 /\ on' = [on EXCEPT ![s] = worker]
      /\ onmessage' = s /\ receiving' = [receiving EXCEPT ![s] = TRUE]
      /\ UNCHANGED <<worker, dead, payload, outbox, answers, replies, made, startedBy, fn, looping>>
  BY DEF Open, workerVars
<1>2. Sorted /\ Counted /\ Ended
  BY <1>1 DEF ResponseInv
<1>3. /\ s > opened /\ answers[s] = <<>> /\ on[s] = 0 /\ worker # 0
      /\ \A t \in Session : t > opened => on[t] = 0
  BY <1>1, SessionIds DEF IInv, Shape, Openings
<1>4. OnSlot' = OnSlot \union {s} /\ \A t \in OnSlot : t <= s
  <2>1. \A t \in OnSlot : t <= s
    <3> SUFFICES ASSUME NEW t \in OnSlot PROVE t <= s
      OBVIOUS
    <3>1. t \in Session /\ on[t] = worker
      BY DEF OnSlot
    <3>2. ~(t > opened)
      BY <1>3, <3>1
    <3> QED
      BY <1>1, <3>1, <3>2, SessionIds DEF IInv, Shape
  <2> QED
    BY <1>1, <2>1 DEF OnSlot, IInv, Shape
<1>5. Data' = Data
  BY DEF Data, Message, Null
<1>6. Sorted'
  BY <1>1, <1>2, <1>3, <1>4, <1>5, Empty DEF Sorted, Before
<1>7. Answered' = Answered
  BY <1>1, <1>3, <1>4, Empty DEF Answered
<1>8. Ended'
  <2>1. s <= s /\ receiving'[s]
    BY <1>1, SessionIds DEF IInv, Shape
  <2> QED
    BY <1>1, <1>2, <1>4, <2>1 DEF Ended, EndsOnce, Over
<1>9. Counted'
  <2>1. \A k : Response(k)' = Response(k) /\ PlainResponses(k)' = PlainResponses(k)
    BY <1>1 DEF Response, PlainResponses
  <2> QED
    BY <1>1, <1>2, <1>7, <2>1 DEF Counted, Null
<1> QED
  BY <1>6, <1>8, <1>9

\* What was made before stays as it is, and what comes later is behind the null too.
LEMMA CutShortStays ==
    ASSUME TypeOK, CutShort, UNCHANGED <<payload, startedBy>>,
           made' = made \/ made' = made + 1,
           \A m \in (Range(outbox') \union Range(replies')) \cap Data :
               m \in Range(outbox) \union Range(replies) \/ m.n = made + 1
    PROVE  CutShort'
<1>1. PICK j \in 1..made :
          /\ Response(j) \in payload.nullResponses
          /\ \A m \in (Range(outbox) \union Range(replies)) \cap Data : j < m.n
  BY DEF CutShort
<1>2. made \in Nat /\ j \in 1..made' /\ j < made + 1
  <2>1. made \in Nat
    BY SessionsAssumption DEF TypeOK
  <2> QED
    BY <2>1
<1>3. Data' = Data /\ Response(j)' = Response(j)
  BY DEF Data, Message, Null, Response
<1>4. ASSUME NEW m \in (Range(outbox') \union Range(replies')) \cap Data PROVE j < m.n
  <2>1. CASE m \in Range(outbox) \union Range(replies)
    BY <1>1, <2>1
  <2>2. CASE m.n = made + 1
    BY <1>2, <2>2
  <2> QED
    BY <2>1, <2>2
<1> QED
  BY <1>1, <1>2, <1>3, <1>4 DEF CutShort

\* What the worker does: responses are numbered as they are made, and posted in order.
LEMMA WorkerResponses ==
    ASSUME IInv, TypeOK, ResponseInv, WorkerStep
    PROVE  ResponseInv'
<1> SUFFICES ASSUME ~dead' PROVE Sorted' /\ Counted' /\ Ended'
  BY DEF ResponseInv
<1>1. UNCHANGED <<slotVars, clientVars, taskVars, mainVars>>
  BY DEF WorkerStep, WorkerReceive, ReceiveNull, ReceiveFirst, ReceiveRequest, ReceivePanics,
     ReceiveNothing, FnTake, FnRespond, FnReturn, FnStop, Ends, RunLoop, LoopPanics
<1>2. /\ Sorted /\ Counted /\ Ended
      /\ UNCHANGED <<on, worker, dead, payload, onmessage, receiving, answers, OnSlot, Data, Null>>
  BY <1>1 DEF ResponseInv, slotVars, clientVars, mainVars, OnSlot, Data, Message, Null, Session
<1>9. UNCHANGED startedBy =>
          \A k : Response(k)' = Response(k) /\ PlainResponses(k)' = PlainResponses(k)
  BY <1>2 DEF Response, PlainResponses
<1>3. CASE UNCHANGED <<outbox, replies, made, startedBy, looping>> /\ (Over => Over')
  <2>1. CutShort => CutShort'
    BY <1>2, <1>3, CutShortStays
  <2>2. Counted'
    BY <1>2, <1>3, <1>9 DEF Counted, Answered
  <2> QED
    BY <1>2, <1>3, <2>1, <2>2 DEF Sorted, Ended, EndsOnce
<1>4. CASE ReceiveFirst
  <2>1. /\ startedBy = 0 /\ looping' = TRUE /\ fn' = "running"
        /\ UNCHANGED <<outbox, replies, made>>
    BY <1>4 DEF ReceiveFirst
  <2>2. made = 0 /\ 1..0 = {} /\ Answered \ {Null} = {}
    BY <1>2, <2>1 DEF Ended, Counted
  <2>3. Sorted'
    BY <1>2, <2>1 DEF Sorted
  <2>4. Counted'
    <3>1. Answered' = Answered
      BY <1>2, <2>1 DEF Answered
    <3> QED
      BY <1>2, <2>1, <2>2, <3>1 DEF Counted
  <2>5. ~CutShort
    BY <2>2 DEF CutShort
  <2>6. Ended'
    BY <1>2, <2>1, <2>2, <2>5 DEF Ended, EndsOnce
  <2> QED
    BY <2>3, <2>4, <2>6
<1>5. CASE FnRespond
  <2> DEFINE x == Response(made + 1)
  <2>1. /\ fn = "running" /\ made' = made + 1 /\ replies' = Append(replies, x)
        /\ UNCHANGED <<outbox, startedBy, fn, looping>>
    BY <1>5 DEF FnRespond
  <2>2. startedBy \in Session /\ ~Over /\ made \in Nat
    BY <1>2, <2>1, SessionsAssumption DEF IInv, Installed, Over, TypeOK
  <2>3. x \in Message /\ x # Null /\ x \in Data /\ x.n = made + 1
    BY <2>2, SessionIds DEF Message, Null, Data, Response
  <2> HIDE DEF x
  <2>4. /\ Range(replies') = Range(replies) \union {x}
        /\ Rising(replies', Data) <=>
               /\ Rising(replies, Data)
               /\ x \in Data => \A a \in Range(replies) \cap Data : a.n < x.n
    BY <2>1, <2>3, Appended DEF TypeOK
  <2>5. \A a \in Answered \cap Data : a.n < x.n
    <3>1. \A a \in Answered \cap Data : a.n \in 1..made
      BY <1>2, Numbered
    <3> QED
      BY <2>2, <2>3, <3>1
  <2>6. /\ Range(outbox) \subseteq Answered /\ Range(replies) \subseteq Answered
        /\ \A s \in OnSlot : Range(answers[s]) \subseteq Answered
    BY <1>2, Numbered
  <2>7. Sorted'
    BY <1>2, <2>1, <2>4, <2>5, <2>6 DEF Sorted, Before
  <2>8. Counted'
    <3>1. Answered' = Answered \union {x}
      BY <1>2, <2>1, <2>4 DEF Answered
    <3>2. 1..(made + 1) = 1..made \union {made + 1}
      BY <2>2
    <3>3. Answered' \ {Null} \subseteq {Response(k) : k \in 1..(made + 1)}
      BY <1>2, <3>1, <3>2 DEF Counted, x
    <3>4. ASSUME NEW k \in 1..(made + 1), PlainResponses(k) PROVE Response(k) \in Answered'
      BY <1>2, <3>1, <3>2, <3>4 DEF Counted, x
    <3> QED
      BY <1>2, <1>9, <2>1, <3>3, <3>4 DEF Counted
  <2>9. CutShort => CutShort'
    BY <1>2, <2>1, <2>3, <2>4, CutShortStays
  <2>10. Ended'
    BY <1>2, <2>1, <2>2, <2>9, SessionIds DEF Ended, EndsOnce, Over
  <2> QED
    BY <2>7, <2>8, <2>10
<1>6. CASE RunLoop
  <2> DEFINE ending == IF Over THEN <<Null>> ELSE <<>>
  <2>1. /\ looping /\ outbox' = outbox \o replies \o ending /\ replies' = <<>>
        /\ looping' = ~Over /\ UNCHANGED <<made, startedBy, fn>>
    BY <1>6 DEF RunLoop
  <2>2. startedBy # 0 /\ Null \notin Range(outbox)
    BY <1>2, <2>1 DEF IInv, Installed, Ended
  <2>3. Null \notin Range(replies)
    BY RangeOfSeq, OfMessages DEF IInv, OnWorker
  <2>4. /\ outbox \in Seq(Message) /\ replies \in Seq(Message) /\ ending \in Seq(Message)
        /\ outbox \o replies \in Seq(Message)
    <3>1. Null \in Message
      BY DEF Null, Message
    <3>2. ending \in Seq(Message)
      BY <3>1
    <3> QED
      BY <3>2, ConcatProperties DEF TypeOK
  <2>5. /\ EndsOnce(ending) /\ Range(ending) = (IF Over THEN {Null} ELSE {})
        /\ Rising(ending, Data) /\ Null \notin Data
    BY OneEnd, Empty, Single DEF Data
  <2> HIDE DEF ending
  <2>6. /\ Range(outbox \o replies) = Range(outbox) \union Range(replies)
        /\ Rising(outbox \o replies, Data) <=>
               Rising(outbox, Data) /\ Rising(replies, Data) /\ Before(outbox, replies, Data)
    BY <2>4, Concatenated
  <2>7. /\ Range(outbox') = Range(outbox \o replies) \union Range(ending)
        /\ Rising(outbox', Data) <=>
               /\ Rising(outbox \o replies, Data) /\ Rising(ending, Data)
               /\ Before(outbox \o replies, ending, Data)
    <3> DEFINE front == outbox \o replies
    <3>1. front \in Seq(Message) /\ outbox' = front \o ending
      BY <2>1, <2>4
    <3> HIDE DEF front
    <3>2. /\ Range(front \o ending) = Range(front) \union Range(ending)
          /\ Rising(front \o ending, Data) <=>
                 Rising(front, Data) /\ Rising(ending, Data) /\ Before(front, ending, Data)
      BY <2>4, <3>1, Concatenated
    <3> QED
      BY <3>1, <3>2 DEF front
  <2>8. Sorted'
    BY <1>2, <2>1, <2>5, <2>6, <2>7, Empty DEF Sorted, Before
  <2>9. Counted'
    <3>1. Answered' \ {Null} = Answered \ {Null} /\ Answered \subseteq Answered'
      BY <1>2, <2>1, <2>5, <2>6, <2>7, Empty DEF Answered
    <3> QED
      BY <1>2, <1>9, <2>1, <3>1 DEF Counted
  <2>10. EndsOnce(outbox')
    BY <2>1, <2>2, <2>3, <2>4, <2>5, <2>6, EndOfBoth
  <2>11. Null \in Range(outbox') => Over
    BY <2>2, <2>3, <2>5, <2>6, <2>7
  <2>12. CutShort => CutShort'
    <3>1. (Range(outbox') \union Range(replies')) \cap Data
              \subseteq Range(outbox) \union Range(replies)
      BY <2>1, <2>5, <2>6, <2>7, Empty
    <3> QED
      BY <1>2, <2>1, <3>1, CutShortStays
  <2>13. Ended'
    BY <1>2, <2>1, <2>2, <2>10, <2>11, <2>12 DEF Ended, EndsOnce, Over
  <2> QED
    BY <2>8, <2>9, <2>13
<1>10. CASE LoopPanics
  <2>1. PICK k \in DOMAIN replies :
            /\ replies[k] \in payload.refusedResponses
            /\ outbox' = outbox \o SubSeq(replies, 1, k - 1)
            /\ replies' = SubSeq(replies, k + 1, Len(replies))
    BY <1>10 DEF LoopPanics, FirstRefused
  <2> DEFINE first == SubSeq(replies, 1, k - 1)
             rest == SubSeq(replies, k + 1, Len(replies))
  <2>2. looping /\ ~looping' /\ UNCHANGED <<made, startedBy, fn>>
    BY <1>10 DEF LoopPanics
  <2>3. /\ first \in Seq(Message) /\ rest \in Seq(Message)
        /\ Range(replies) = Range(first) \union {replies[k]} \union Range(rest)
        /\ Rising(first, Data) /\ Rising(rest, Data) /\ Before(first, rest, Data)
    <3>1. replies \in Seq(Message) /\ Rising(replies, Data)
      BY <1>2 DEF TypeOK, Sorted
    <3> QED
      BY <3>1, Parted
  <2> HIDE DEF first, rest
  <2>4. outbox' = outbox \o first /\ replies' = rest
    BY <2>1 DEF first, rest
  <2>5. /\ Range(outbox') = Range(outbox) \union Range(first)
        /\ Rising(outbox', Data) <=>
               Rising(outbox, Data) /\ Rising(first, Data) /\ Before(outbox, first, Data)
    <3>1. outbox \in Seq(Message)
      BY DEF TypeOK
    <3> QED
      BY <2>3, <2>4, <3>1, Concatenated
  <2>6. Null \notin Range(replies) /\ Null \notin Range(outbox)
    BY <1>2, <2>2, RangeOfSeq, OfMessages DEF IInv, OnWorker, Ended
  <2>7. Null \notin Range(outbox') /\ EndsOnce(outbox')
    BY <2>3, <2>5, <2>6, NoEnd
  <2>8. Sorted'
    BY <1>2, <2>3, <2>4, <2>5 DEF Sorted, Before
  <2>9. Counted'
    <3>1. Answered' \subseteq Answered /\ Answered \subseteq Answered' \union {replies[k]}
      BY <1>2, <2>3, <2>4, <2>5 DEF Answered
    <3>2. ASSUME NEW i \in 1..made, PlainResponses(i) PROVE Response(i) # replies[k]
      <4>1. i \in 1..i
        OBVIOUS
      <4> QED
        BY <2>1, <3>2, <4>1 DEF PlainResponses
    <3>3. \A i \in 1..made : PlainResponses(i) => Response(i) \in Answered'
      BY <1>2, <3>1, <3>2 DEF Counted
    <3> QED
      BY <1>2, <1>9, <2>2, <3>1, <3>3 DEF Counted
  <2>10. CutShort => CutShort'
    <3>1. (Range(outbox') \union Range(replies')) \cap Data
              \subseteq Range(outbox) \union Range(replies)
      BY <2>3, <2>4, <2>5
    <3> QED
      BY <1>2, <2>2, <3>1, CutShortStays
  <2>11. Ended'
    BY <1>2, <2>2, <2>7, <2>10 DEF Ended, EndsOnce, Over
  <2> QED
    BY <2>8, <2>9, <2>11
<1>7. WorkerReceive /\ ~ReceiveFirst => UNCHANGED <<outbox, replies, made, startedBy, looping, fn>>
  BY DEF WorkerReceive, ReceiveNull, ReceiveRequest, ReceivePanics, ReceiveNothing, workerVars
<1>8. FnTake \/ FnReturn \/ FnStop =>
          UNCHANGED <<outbox, replies, made, startedBy, looping>> /\ (Over => Over')
  BY DEF FnTake, FnReturn, FnStop, Ends, Over
<1> QED
  BY <1>3, <1>4, <1>5, <1>6, <1>7, <1>8, <1>10 DEF Over, WorkerStep

\* What arrives goes to the last session of the worker, behind what that one and those
\* before it have got.
LEMMA ReceiveResponses ==
    ASSUME IInv, TypeOK, ResponseInv, MainReceive
    PROVE  ResponseInv'
<1> DEFINE m == Head(outbox)
           s == onmessage
<1> SUFFICES ASSUME ~dead' PROVE Sorted' /\ Counted' /\ Ended'
  BY DEF ResponseInv
<1>1. /\ outbox # <<>> /\ outbox' = Tail(outbox)
      /\ receiving' = IF NullResponse(m) THEN [receiving EXCEPT ![s] = FALSE] ELSE receiving
      /\ answers' = IF ~NullResponse(m) /\ receiving[s]
                    THEN [answers EXCEPT ![s] = Append(@, m)] ELSE answers
      /\ UNCHANGED <<on, worker, dead, payload, replies, made, startedBy, fn, looping, onmessage>>
  BY DEF MainReceive, slotVars, clientVars, workerVars
<1>2. /\ Sorted /\ Counted /\ Ended
      /\ UNCHANGED <<OnSlot, Data, Null>>
  BY <1>1 DEF ResponseInv, OnSlot, Data, Message, Null, Session
<1>3. s \in OnSlot /\ s \in Session /\ s # 0
  BY <1>1, SessionIds DEF IInv, Installed, OnSlot
<1>4. /\ Range(outbox) = {m} \union Range(outbox') /\ Rising(outbox', Data)
      /\ m \in Data => \A b \in Range(outbox') \cap Data : m.n < b.n
  BY <1>1, <1>2, BehindHead DEF TypeOK, Sorted
<1>5. EndsOnce(outbox') /\ (m = Null => outbox' = <<>>)
  BY <1>1, <1>2, EndOfTail DEF TypeOK, Ended
<1>6. m \in Message /\ answers[s] \in Seq(Message)
  BY <1>1, <1>3, HeadTailProperties DEF TypeOK
<1>9. \A k : Response(k)' = Response(k) /\ PlainResponses(k)' = PlainResponses(k)
  BY <1>1 DEF Response, PlainResponses
<1>10. /\ (Range(outbox') \union Range(replies')) \cap Data
              \subseteq Range(outbox) \union Range(replies)
       /\ CutShort => CutShort'
  <2>1. (Range(outbox') \union Range(replies')) \cap Data
            \subseteq Range(outbox) \union Range(replies)
    BY <1>1, <1>4
  <2> QED
    BY <1>1, <2>1, CutShortStays
\* A message that is a response is one of those that were made.
<1>11. m # Null => \E k \in 1..made : m = Response(k) /\ m.n = k
  <2> SUFFICES ASSUME m # Null PROVE \E k \in 1..made : m = Response(k) /\ m.n = k
    OBVIOUS
  <2>1. m \in Answered \ {Null}
    BY <1>4 DEF Answered
  <2>2. PICK k \in 1..made : m = Response(k)
    BY <1>2, <2>1 DEF Counted
  <2> QED
    BY <2>2 DEF Response
<1> HIDE DEF m
\* What gets to no receiver is not missed.
<1>12. ASSUME UNCHANGED answers, m # Null => \E j \in 1..m.n : Response(j) \in payload.nullResponses
       PROVE  Sorted' /\ Counted'
  <2>1. Sorted'
    BY <1>1, <1>2, <1>4, <1>12 DEF Sorted, Before
  <2>2. Answered' \subseteq Answered /\ Answered \subseteq Answered' \union {m}
    BY <1>1, <1>2, <1>4, <1>12 DEF Answered
  <2>3. ASSUME NEW k \in 1..made, PlainResponses(k) PROVE Response(k) \in Answered'
    <3>1. Response(k) # m
      <4> SUFFICES ASSUME Response(k) = m PROVE FALSE
        OBVIOUS
      <4>1. Response(k).n = k /\ (Response(k) = Null => Response(k).n = 0)
        BY DEF Response, Null
      <4>2. m # Null /\ m.n = k
        BY <4>1
      <4> QED
        BY <1>12, <2>3, <4>2 DEF PlainResponses
    <3> QED
      BY <1>2, <2>2, <2>3, <3>1 DEF Counted
  <2>4. Counted'
    BY <1>1, <1>2, <1>9, <2>2, <2>3 DEF Counted
  <2> QED
    BY <2>1, <2>4
<1>7. CASE NullResponse(m)
  <2>1. UNCHANGED answers /\ receiving' = [receiving EXCEPT ![s] = FALSE]
    BY <1>1, <1>7
  <2>2. CASE m = Null
    <3>1. startedBy # 0 /\ ~looping /\ Over /\ outbox' = <<>> /\ replies = <<>>
      BY <1>2, <1>4, <1>5, <2>2 DEF Ended
    <3>2. Ended'
      BY <1>1, <1>2, <1>3, <1>4, <1>5, <2>1, <3>1, Empty DEF Ended, EndsOnce, Over
    <3> QED
      BY <1>12, <2>1, <2>2, <3>2
  <2>3. CASE m # Null
    <3>1. PICK k \in 1..made : m = Response(k) /\ m.n = k
      BY <1>11, <2>3
    <3>2. Response(k) \in payload.nullResponses /\ k \in 1..m.n
      BY <1>7, <2>3, <3>1 DEF NullResponse
    <3>3. Sorted' /\ Counted'
      BY <1>12, <2>1, <3>2
    <3>4. CutShort'
      <4>1. m \in Data
        BY <1>6, <2>3 DEF Data
      <4>2. \A b \in (Range(outbox') \union Range(replies)) \cap Data : k < b.n
        BY <1>2, <1>4, <3>1, <4>1 DEF Sorted, Before
      <4> QED
        BY <1>1, <1>2, <1>9, <3>2, <4>2 DEF CutShort
    <3>5. Ended'
      BY <1>1, <1>2, <1>3, <1>4, <1>5, <3>4 DEF Ended, EndsOnce, Over
    <3> QED
      BY <3>3, <3>5
  <2> QED
    BY <2>2, <2>3
<1>13. CASE ~NullResponse(m) /\ ~receiving[s]
  <2>1. UNCHANGED <<answers, receiving>> /\ m # Null /\ m \in Data
    BY <1>1, <1>6, <1>13 DEF NullResponse, Data
  <2>2. CutShort
    BY <1>1, <1>2, <1>3, <1>13 DEF Ended
  <2>3. PICK j \in 1..made :
            /\ Response(j) \in payload.nullResponses
            /\ \A b \in (Range(outbox) \union Range(replies)) \cap Data : j < b.n
    BY <2>2 DEF CutShort
  <2>4. j \in 1..m.n
    <3>1. j < m.n /\ m.n \in Nat
      BY <1>4, <1>6, <2>1, <2>3 DEF Message
    <3> QED
      BY <3>1
  <2>5. Ended'
    BY <1>1, <1>2, <1>4, <1>5, <1>10, <2>1, <2>2 DEF Ended, EndsOnce, Over
  <2> QED
    BY <1>12, <2>1, <2>3, <2>4, <2>5
<1>8. CASE ~NullResponse(m) /\ receiving[s]
  <2>1. m \in Data /\ UNCHANGED receiving
    BY <1>1, <1>6, <1>8 DEF NullResponse, Data
  <2>2. /\ answers'[s] = Append(answers[s], m)
        /\ \A t \in Session : t # s => answers'[t] = answers[t]
    BY <1>1, <1>3, <1>8, <2>1 DEF TypeOK
  <2>3. /\ Range(answers'[s]) = Range(answers[s]) \union {m}
        /\ Rising(answers'[s], Data) <=>
               /\ Rising(answers[s], Data)
               /\ m \in Data => \A a \in Range(answers[s]) \cap Data : a.n < m.n
    BY <1>6, <2>2, Appended
  <2>4. \A t \in OnSlot : t \in Session /\ t <= s
    BY <1>2, <1>3 DEF Ended, OnSlot
  <2>5. ASSUME NEW t \in OnSlot
        PROVE  /\ Rising(answers'[t], Data) /\ Before(answers'[t], outbox', Data)
               /\ Before(answers'[t], replies, Data)
    <3>1. CASE t = s
      BY <1>2, <1>3, <1>4, <2>1, <2>3, <3>1 DEF Sorted, Before
    <3>2. CASE t # s
      BY <1>2, <1>4, <2>2, <2>4, <3>2 DEF Sorted, Before
    <3> QED
      BY <3>1, <3>2
  <2>6. ASSUME NEW r \in OnSlot, NEW t \in OnSlot, r < t
        PROVE  Before(answers'[r], answers'[t], Data)
    <3>1. r # s
      <4>1. t <= s /\ t \in Nat /\ r \in Nat
        BY <2>4, SessionIds
      <4> QED
        BY <2>6, <4>1
    <3>2. Before(answers[r], answers[t], Data) /\ Before(answers[r], outbox, Data)
      BY <1>2, <2>6 DEF Sorted
    <3>3. CASE t = s
      BY <1>4, <2>2, <2>3, <2>4, <3>1, <3>2, <3>3 DEF Before
    <3>4. CASE t # s
      BY <2>2, <2>4, <3>1, <3>2, <3>4
    <3> QED
      BY <3>3, <3>4
  <2>7. Sorted'
    <3>1. Before(outbox', replies, Data)
      BY <1>2, <1>4 DEF Sorted, Before
    <3> QED
      BY <1>1, <1>2, <1>4, <2>5, <2>6, <3>1 DEF Sorted
  <2>8. Counted'
    <3>1. \A t \in OnSlot :
              Range(answers'[t]) = Range(answers[t]) \union (IF t = s THEN {m} ELSE {})
      BY <2>2, <2>3, <2>4
    <3>2. UNION {Range(answers'[t]) : t \in OnSlot}
              = {m} \union (UNION {Range(answers[t]) : t \in OnSlot})
      <4>1. \A x : (\E t \in OnSlot : x \in Range(answers'[t]))
                       <=> x = m \/ \E t \in OnSlot : x \in Range(answers[t])
        BY <1>3, <3>1
      <4> QED
        BY <4>1
    <3>3. Answered' = Answered
      <4>1. Answered' = (UNION {Range(answers'[t]) : t \in OnSlot}) \union Range(outbox')
                            \union Range(replies)
        BY <1>1, <1>2 DEF Answered
      <4> QED
        BY <1>4, <3>2, <4>1 DEF Answered
    <3> QED
      BY <1>1, <1>2, <1>9, <3>3 DEF Counted
  <2>9. Ended'
    BY <1>1, <1>2, <1>3, <1>4, <1>5, <1>8, <2>1 DEF Ended, EndsOnce, Over
  <2> QED
    BY <2>7, <2>8, <2>9
<1> QED
  BY <1>7, <1>8, <1>13

LEMMA ResponseStep == ASSUME IInv, TypeOK, ResponseInv, [Next]_vars PROVE ResponseInv'
<1>1. CASE UNCHANGED vars
  BY <1>1, OtherResponses DEF vars, slotVars, clientVars, workerVars
<1>2. ASSUME NEW s \in Session, ClientStep(s)
      PROVE  ResponseInv'
  BY <1>2, OtherResponses
     DEF ClientStep, ClientSend, ClientClose, RunProxy, RunForwarder, ForwarderPanics, slotVars,
         clientVars, workerVars
<1> QED
  BY <1>1, <1>2, OpenResponses, AbortResponses, WorkerResponses, ReceiveResponses
     DEF Next, ClientStep, WorkerStep

\* For any number of sessions, requests and aborts: no response of a worker is repeated or
\* overtaken on its way to the receivers of its sessions, in the order in which these were
\* opened, whatever panics; and none is lost up to the first that is null or cannot be posted
\* (WorkerHandle::channel, ChannelWorkerFn::new).
THEOREM ResponsesInOrder == Spec => []ResponsesKeepOrder
<1>1. Spec => []TypeOK
  BY SessionTyping
<1>2. Spec => []ResponseInv
  BY ResponseInit, ResponseStep, Invariance, <1>1, PTL DEF Spec
<1>3. IInv /\ TypeOK /\ ResponseInv => ResponsesKeepOrder
  <2> SUFFICES ASSUME IInv, TypeOK, ResponseInv, ~dead PROVE
          /\ \A s \in OnSlot : Rising(Downstream(s), Data)
          /\ \A s, t \in OnSlot : s < t =>
                 \A a \in Range(answers[s]), b \in Range(answers[t]) : a.n < b.n
          /\ LET Ways == (UNION {Range(Downstream(s)) : s \in OnSlot}) \ {Null}
             IN /\ Ways \subseteq {Response(k) : k \in 1..made}
                /\ {Response(k) : k \in {i \in 1..made : PlainResponses(i)}} \subseteq Ways
    BY DEF ResponsesKeepOrder
  <2>1. Sorted /\ Counted
    BY DEF ResponseInv
  <2>2. ASSUME NEW s \in OnSlot
        PROVE  /\ Range(Downstream(s))
                      = Range(answers[s]) \union Range(outbox) \union Range(replies)
               /\ Rising(Downstream(s), Data)
    <3>1. /\ answers[s] \in Seq(Message) /\ outbox \in Seq(Message) /\ replies \in Seq(Message)
      BY DEF TypeOK, OnSlot
    <3>2. /\ answers[s] \o outbox \in Seq(Message)
          /\ Range(answers[s] \o outbox) = Range(answers[s]) \union Range(outbox)
          /\ Rising(answers[s] \o outbox, Data) <=>
                 /\ Rising(answers[s], Data) /\ Rising(outbox, Data)
                 /\ Before(answers[s], outbox, Data)
      BY <3>1, Concatenated, ConcatProperties
    <3>3. /\ Range(Downstream(s)) = Range(answers[s] \o outbox) \union Range(replies)
          /\ Rising(Downstream(s), Data) <=>
                 /\ Rising(answers[s] \o outbox, Data) /\ Rising(replies, Data)
                 /\ Before(answers[s] \o outbox, replies, Data)
      BY <3>1, <3>2, Concatenated DEF Downstream
    <3> QED
      BY <2>1, <3>2, <3>3 DEF Sorted, Before
  <2>3. \A s \in OnSlot : Range(answers[s]) \subseteq Data
    <3> SUFFICES ASSUME NEW s \in OnSlot PROVE Range(answers[s]) \subseteq Data
      OBVIOUS
    <3>1. Range(answers[s]) \subseteq Of(on[s])
      BY RangeOfSeq DEF IInv, Held, OnSlot
    <3> QED
      BY <3>1, OfMessages DEF Data
  <2>4. (UNION {Range(Downstream(s)) : s \in OnSlot}) \ {Null} = Answered \ {Null}
    <3>1. CASE OnSlot = {}
      <4>1. \A t \in Session : on[t] # worker
        BY <3>1 DEF OnSlot
      <4>2. outbox = <<>>
        BY <4>1 DEF IInv, Installed
      <4>3. Range(replies) \subseteq Of(worker) /\ Of(worker) = {}
        BY <4>1, RangeOfSeq DEF IInv, OnWorker, Of
      <4> QED
        BY <3>1, <4>2, <4>3, Empty DEF Answered
    <3>2. CASE OnSlot # {}
      BY <2>2, <3>2 DEF Answered
    <3> QED
      BY <3>1, <3>2
  <2>5. ASSUME NEW s \in OnSlot, NEW t \in OnSlot, s < t,
               NEW a \in Range(answers[s]), NEW b \in Range(answers[t])
        PROVE  a.n < b.n
    BY <2>1, <2>3, <2>5 DEF Sorted, Before
  <2>6. \A k \in 1..made : Response(k) # Null
    <3>1. \A k \in 1..made : k # 0 /\ Response(k).n = k /\ Null.n = 0
      BY SessionsAssumption DEF Response, Null, TypeOK
    <3> QED
      BY <3>1
  <2> QED
    BY <2>1, <2>2, <2>4, <2>5, <2>6 DEF Counted
<1> QED
  BY <1>1, <1>2, <1>3, Invariance, PTL
=============================================================================
