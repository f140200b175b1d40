--------------------------- MODULE ChannelSession ---------------------------
(***************************************************************************)
(* Sessions with a channel worker, one after the other on one slot of the   *)
(* pool: PoolExecutor::channel and its proxy task, WorkerHandle::channel and*)
(* its forwarder task on the main thread; ChannelWorkerFn with the worker   *)
(* function and its response loop on the worker.                            *)
(*                                                                          *)
(*   client -> proxy -> feed -> inbox -> work -> the worker function        *)
(*   client <-          answers <- outbox <- replies <- the worker function *)
(*                                                                          *)
(* proxy, feed, work, replies and answers are unbounded flume channels;     *)
(* inbox and outbox are the two directions of postMessage, first in first   *)
(* out.  A task's action is one poll: it empties the channel it reads, and  *)
(* goes on to its end if the other side is gone.  A call of channel that    *)
(* finds the slot taken is served by another worker and is not modelled.    *)
(*                                                                          *)
(* AbortHandle::abort terminates the worker of the slot, with everything it *)
(* holds and everything on the way from and to it, and may put another one  *)
(* there.  The tasks of the sessions of the old worker go on: forwarders    *)
(* post to it in vain, proxy tasks give back whatever the slot holds then.  *)
(*                                                                          *)
(* The end of a stream is told by null data, and data of the program's own  *)
(* may serialize to null too.  Data may also be refused when it is posted,  *)
(* with a panic of the task that posts it: what the task holds stays with   *)
(* it.  Which data is null and which is refused is fixed in the initial     *)
(* state.                                                                   *)
(***************************************************************************)
EXTENDS Naturals, Sequences, FiniteSets, SequencesExt

CONSTANTS
    Sessions,     \* how many sessions are opened
    MaxRequests,  \* how many requests each sends at most
    MaxResponses, \* how many responses the worker function sends at most
    StopsEarly,   \* whether the worker function may return before its
                  \* requests have ended
    Aborts,       \* what comes of aborting: "replaced" and "unreplaced" workers
    Payloads      \* what the data of requests and responses may be

ASSUME SessionsAssumption ==
    Sessions \in Nat /\ MaxRequests \in Nat /\ MaxResponses \in Nat
ASSUME StopsAssumption == StopsEarly \in BOOLEAN
ASSUME AbortsAssumption == Aborts \subseteq {"replaced", "unreplaced"}

Session == 1..Sessions


\* A message: the init data of a session is its request number 0.
Message == [session : Nat, n : Nat]

Request(s, n) == [session |-> s, n |-> n]

InitData(s) == Request(s, 0)

\* WorkerMsg::new_null, the end of a stream.
Null == [session |-> 0, n |-> 0]

\* The requests and responses whose data serializes to null, and those that panic when
\* they are posted.  (Init data that does panics in the call of channel.)
Payload == [nullRequests : SUBSET Message,
            refusedRequests : SUBSET [session : Nat, n : Nat \ {0}],
            nullResponses : SUBSET Message, refusedResponses : SUBSET Message]

ASSUME PayloadsAssumption == Payloads \subseteq Payload

VARIABLES
    available,   \* the slot: WorkerPoolState::available
    worker,      \* the slot's worker, numbered from 1: WorkerPoolState::handle
    dead,        \* it was terminated and could not be replaced
    opened,      \* how many sessions were opened
    on,          \* on[s]: the worker session s was opened on, or 0
    sender,      \* sender[s]: the client's end of proxy: "open" or "dropped"
    sent,        \* sent[s]: how many requests the client has sent
    payload,     \* what data is null, and what is refused
    proxy,       \* proxy[s]: requests the proxy task has not passed on
    proxying,    \* proxying[s]: the proxy task is running
    feed,        \* feed[s]: requests the forwarder has not posted
    forwarding,  \* forwarding[s]: the forwarder is running
    died,        \* the sessions whose forwarder panicked
    inbox,       \* messages posted to the worker
    requestTx,   \* the worker still has the sender of work
    wedged,      \* a panic left the mutex of requestTx locked
    stuck,       \* one in the response loop left that of the callback locked
    startedBy,   \* the session whose init data started the function, or 0
    work,        \* requests the function has not received
    taken,       \* those it has received
    fn,          \* the function: "idle", "running", "returned" at the end of its
                 \* requests or "stopped" before
    replies,     \* responses the response loop has not posted
    made,        \* how many responses the function has sent
    looping,     \* the response loop is running
    outbox,      \* messages posted to the main thread
    onmessage,   \* the session whose closure handles them, or 0
    receiving,   \* receiving[s]: response_tx of session s is there
    answers      \* answers[s]: responses put in session s's channel

slotVars   == <<available, worker, dead, opened, on>>
clientVars == <<sender, sent, payload>>
taskVars   == <<proxy, proxying, feed, forwarding, died>>
workerVars == <<requestTx, wedged, stuck, startedBy, work, taken, fn, replies, made, looping>>
mainVars   == <<onmessage, receiving, answers>>
vars == <<slotVars, clientVars, taskVars, inbox, workerVars, outbox, mainVars>>

TypeOK ==
    /\ available \in BOOLEAN /\ worker \in 1..(Sessions + 1) /\ dead \in BOOLEAN
    /\ opened \in 0..Sessions /\ on \in [Session -> 0..(Sessions + 1)]
    /\ sender \in [Session -> {"none", "open", "dropped"}]
    /\ sent \in [Session -> 0..MaxRequests] /\ payload \in Payloads
    /\ proxy \in [Session -> Seq(Message)] /\ proxying \in [Session -> BOOLEAN]
    /\ feed \in [Session -> Seq(Message)] /\ forwarding \in [Session -> BOOLEAN]
    /\ died \subseteq Session
    /\ inbox \in Seq(Message)
    /\ requestTx \in BOOLEAN /\ wedged \in BOOLEAN /\ stuck \in BOOLEAN
    /\ startedBy \in 0..Sessions
    /\ work \in Seq(Message) /\ taken \in Seq(Message)
    /\ fn \in {"idle", "running", "returned", "stopped"}
    /\ replies \in Seq(Message) /\ made \in 0..MaxResponses /\ looping \in BOOLEAN
    /\ outbox \in Seq(Message)
    /\ onmessage \in 0..Sessions
    /\ receiving \in [Session -> BOOLEAN] /\ answers \in [Session -> Seq(Message)]

Init ==
    /\ available = TRUE /\ worker = 1 /\ dead = FALSE
    /\ opened = 0 /\ on = [s \in Session |-> 0]
    /\ sender = [s \in Session |-> "none"]
    /\ sent = [s \in Session |-> 0] /\ payload \in Payloads
    /\ proxy = [s \in Session |-> <<>>] /\ proxying = [s \in Session |-> FALSE]
    /\ feed = [s \in Session |-> <<>>] /\ forwarding = [s \in Session |-> FALSE]
    /\ died = {}
    /\ inbox = <<>>
    /\ requestTx = TRUE /\ wedged = FALSE /\ stuck = FALSE /\ startedBy = 0
    /\ work = <<>> /\ taken = <<>> /\ fn = "idle"
    /\ replies = <<>> /\ made = 0 /\ looping = FALSE
    /\ outbox = <<>>
    /\ onmessage = 0
    /\ receiving = [s \in Session |-> FALSE] /\ answers = [s \in Session |-> <<>>]

-----------------------------------------------------------------------------
(* The main thread.                                                        *)

\* What session s posts gets to a worker that still exists.
Reaches(s) == on[s] = worker /\ ~dead

\* channel(init): the init data is posted in the call, and both tasks spawned.
Open(s) ==
    /\ s = opened + 1
    /\ available
    /\ available' = FALSE
    /\ opened' = s
    /\ on' = [on EXCEPT ![s] = worker]
    /\ sender' = [sender EXCEPT ![s] = "open"]
    /\ proxying' = [proxying EXCEPT ![s] = TRUE]
    /\ forwarding' = [forwarding EXCEPT ![s] = TRUE]
    /\ inbox' = IF dead THEN inbox ELSE Append(inbox, InitData(s))
    /\ onmessage' = s
    /\ receiving' = [receiving EXCEPT ![s] = TRUE]
    /\ UNCHANGED <<worker, dead, sent, payload, proxy, feed, died, workerVars, outbox, answers>>

ClientSend(s) ==
    /\ sender[s] = "open"
    /\ sent[s] < MaxRequests
    /\ sent' = [sent EXCEPT ![s] = @ + 1]
    /\ proxy' = [proxy EXCEPT ![s] = Append(@, Request(s, sent[s] + 1))]
    /\ UNCHANGED <<slotVars, sender, payload, proxying, feed, forwarding, died, inbox,
                   workerVars, outbox, mainVars>>

ClientClose(s) ==
    /\ sender[s] = "open"
    /\ sender' = [sender EXCEPT ![s] = "dropped"]
    /\ UNCHANGED <<slotVars, sent, payload, taskVars, inbox, workerVars, outbox, mainVars>>

\* Plausible bug: the proxy stops at a dropped sender and leaves what is queued.
ProxyQuits(s) ==
    /\ proxying[s]
    /\ proxy[s] # <<>> \/ sender[s] = "dropped"
    /\ feed' = IF sender[s] = "dropped" THEN feed ELSE [feed EXCEPT ![s] = @ \o proxy[s]]
    /\ proxy' = [proxy EXCEPT ![s] = <<>>]
    /\ proxying' = [proxying EXCEPT ![s] = sender[s] # "dropped"]
    /\ available' = (available \/ sender[s] = "dropped")
    /\ UNCHANGED <<worker, dead, opened, on, clientVars, forwarding, died, inbox, workerVars,
                   outbox, mainVars>>

(***************************************************************************)
(* A poll of the proxy task of PoolExecutor::channel.  When the client has  *)
(* dropped its sender the loop ends, the slot is made available, whichever  *)
(* worker it holds, and the sender of feed is dropped with the task.        *)
(***************************************************************************)
RunProxy(s) ==
    /\ proxying[s]
    /\ proxy[s] # <<>> \/ sender[s] = "dropped"
    /\ feed' = [feed EXCEPT ![s] = @ \o proxy[s]]
    /\ proxy' = [proxy EXCEPT ![s] = <<>>]
    /\ proxying' = [proxying EXCEPT ![s] = sender[s] # "dropped"]
    /\ available' = (available \/ sender[s] = "dropped")
    /\ UNCHANGED <<worker, dead, opened, on, clientVars, forwarding, died, inbox, workerVars,
                   outbox, mainVars>>

\* None of the messages in q panics when it is posted; the first that does is its k-th.
Postable(q, refused) == \A k \in DOMAIN q : q[k] \notin refused

FirstRefused(q, k, refused) == q[k] \in refused /\ \A j \in 1..(k - 1) : q[j] \notin refused

\* Plausible bug: requests are posted to the worker the slot holds by now.
ForwarderPostsToSlot(s) ==
    /\ forwarding[s]
    /\ feed[s] # <<>> \/ ~proxying[s]
    /\ Postable(feed[s], payload.refusedRequests)
    /\ inbox' = IF dead THEN inbox
                ELSE inbox \o feed[s] \o (IF proxying[s] THEN <<>> ELSE <<Null>>)
    /\ feed' = [feed EXCEPT ![s] = <<>>]
    /\ forwarding' = [forwarding EXCEPT ![s] = proxying[s]]
    /\ UNCHANGED <<slotVars, clientVars, proxy, proxying, died, workerVars, outbox, mainVars>>

\* Plausible bug: the end of the requests is never told to the worker.
ForwarderForgetsNull(s) ==
    /\ forwarding[s]
    /\ feed[s] # <<>> \/ ~proxying[s]
    /\ Postable(feed[s], payload.refusedRequests)
    /\ inbox' = IF Reaches(s) THEN inbox \o feed[s] ELSE inbox
    /\ feed' = [feed EXCEPT ![s] = <<>>]
    /\ forwarding' = [forwarding EXCEPT ![s] = proxying[s]]
    /\ UNCHANGED <<slotVars, clientVars, proxy, proxying, died, workerVars, outbox, mainVars>>

\* Plausible bug: the requests are posted as one message.
ForwarderBatches(s) ==
    /\ forwarding[s]
    /\ feed[s] # <<>> \/ ~proxying[s]
    /\ Postable(feed[s], payload.refusedRequests)
    /\ inbox' = inbox \o (IF feed[s] = <<>> THEN <<>> ELSE <<[batch |-> feed[s]]>>)
                     \o (IF proxying[s] THEN <<>> ELSE <<Null>>)
    /\ feed' = [feed EXCEPT ![s] = <<>>]
    /\ forwarding' = [forwarding EXCEPT ![s] = proxying[s]]
    /\ UNCHANGED <<slotVars, clientVars, proxy, proxying, died, workerVars, outbox, mainVars>>

\* A poll of the forwarder of WorkerHandle::channel, which holds its worker.
RunForwarder(s) ==
    /\ forwarding[s]
    /\ feed[s] # <<>> \/ ~proxying[s]
    /\ Postable(feed[s], payload.refusedRequests)
    /\ inbox' = IF ~Reaches(s) THEN inbox
                ELSE inbox \o feed[s] \o (IF proxying[s] THEN <<>> ELSE <<Null>>)
    /\ feed' = [feed EXCEPT ![s] = <<>>]
    /\ forwarding' = [forwarding EXCEPT ![s] = proxying[s]]
    /\ UNCHANGED <<slotVars, clientVars, proxy, proxying, died, workerVars, outbox, mainVars>>

(***************************************************************************)
(* A poll that ends in a panic of WorkerMsg::new or post: the request is    *)
(* lost and the end of the requests never posted.  The receiver of feed     *)
(* stays, so the proxy task still passes requests on to it.                 *)
(***************************************************************************)
ForwarderPanics(s) ==
    /\ forwarding[s]
    /\ \E k \in DOMAIN feed[s] :
          /\ FirstRefused(feed[s], k, payload.refusedRequests)
          /\ inbox' = IF Reaches(s) THEN inbox \o SubSeq(feed[s], 1, k - 1) ELSE inbox
          /\ feed' = [feed EXCEPT ![s] = SubSeq(@, k + 1, Len(@))]
    /\ forwarding' = [forwarding EXCEPT ![s] = FALSE]
    /\ died' = died \union {s}
    /\ UNCHANGED <<slotVars, clientVars, proxy, proxying, workerVars, outbox, mainVars>>

\* WorkerMsg::is_null, for a message to the main thread.
NullResponse(m) == m = Null \/ m \in payload.nullResponses

\* The closure of the session opened last handles every message of the worker.
MainReceive ==
    /\ outbox # <<>>
    /\ outbox' = Tail(outbox)
    /\ LET m == Head(outbox)
           s == onmessage
       IN /\ receiving' = IF NullResponse(m) THEN [receiving EXCEPT ![s] = FALSE]
                          ELSE receiving
          /\ answers' = IF ~NullResponse(m) /\ receiving[s]
                        THEN [answers EXCEPT ![s] = Append(@, m)]
                        ELSE answers
    /\ UNCHANGED <<slotVars, clientVars, taskVars, inbox, workerVars, onmessage>>

-----------------------------------------------------------------------------
(* Aborting a session.                                                     *)

\* The generation of a slot counts the sessions of its worker, and a handle the
\* sessions up to its own.
Generation(s) == Cardinality({t \in 1..s : on[t] = on[s]})

Armed(s) ==
    /\ ~available
    /\ s <= opened
    /\ Generation(s) = Cardinality({t \in Session : on[t] = worker})

\* WorkerHandle::terminate: what replaces the worker starts from nothing.
Terminate ==
    /\ inbox' = <<>> /\ outbox' = <<>>
    /\ requestTx' = TRUE /\ wedged' = FALSE /\ stuck' = FALSE /\ startedBy' = 0
    /\ work' = <<>> /\ taken' = <<>> /\ fn' = "idle"
    /\ replies' = <<>> /\ made' = 0 /\ looping' = FALSE

Abort(s) ==
    /\ "replaced" \in Aborts
    /\ Armed(s)
    /\ Terminate
    /\ worker' = worker + 1 /\ dead' = FALSE
    /\ available' = TRUE
    /\ onmessage' = 0
    /\ UNCHANGED <<opened, on, clientVars, taskVars, receiving, answers>>

\* Plausible bug: a slot without a worker is given back at once.
AbortUnreplacedOffers(s) ==
    /\ "unreplaced" \in Aborts
    /\ Armed(s)
    /\ Terminate
    /\ dead' = TRUE
    /\ available' = TRUE
    /\ UNCHANGED <<worker, opened, on, clientVars, taskVars, mainVars>>

\* The error is ignored: the slot keeps the terminated worker and stays taken.
AbortUnreplaced(s) ==
    /\ "unreplaced" \in Aborts
    /\ Armed(s)
    /\ Terminate
    /\ dead' = TRUE
    /\ UNCHANGED <<available, worker, opened, on, clientVars, taskVars, mainVars>>

-----------------------------------------------------------------------------
(* The worker thread.                                                      *)

\* The function has dropped its receiver of requests and its sender of responses.
Over == fn \in {"returned", "stopped"}

\* WorkerMsg::is_null, for a message to the worker.
NullRequest(m) == m = Null \/ m \in payload.nullRequests

\* on_message_channel_worker hands the next message to ChannelWorkerFn.
NextIsNull == inbox # <<>> /\ NullRequest(Head(inbox))

NextIsData == inbox # <<>> /\ ~NullRequest(Head(inbox))

ReceiveNull ==
    /\ NextIsNull
    /\ ~wedged
    /\ inbox' = Tail(inbox)
    /\ requestTx' = FALSE
    /\ UNCHANGED <<slotVars, clientVars, taskVars, wedged, stuck, startedBy, work, taken, fn,
                   replies, made, looping, outbox, mainVars>>

\* Plausible bug: the first message starts the function and is queued as well.
ReceiveFirstTwice ==
    /\ NextIsData
    /\ requestTx /\ ~wedged /\ startedBy = 0
    /\ inbox' = Tail(inbox)
    /\ startedBy' = Head(inbox).session
    /\ fn' = "running" /\ looping' = TRUE
    /\ work' = Append(work, [Head(inbox) EXCEPT !.n = 1])
    /\ UNCHANGED <<slotVars, clientVars, taskVars, requestTx, wedged, stuck, taken,
                   replies, made, outbox, mainVars>>

\* The first message is taken as init data: the function and the loop start.
ReceiveFirst ==
    /\ NextIsData
    /\ requestTx /\ ~wedged /\ startedBy = 0
    /\ inbox' = Tail(inbox)
    /\ startedBy' = Head(inbox).session
    /\ fn' = "running" /\ looping' = TRUE
    /\ UNCHANGED <<slotVars, clientVars, taskVars, requestTx, wedged, stuck, work, taken,
                   replies, made, outbox, mainVars>>

\* Plausible bug: the first message is taken as a request too.
TakesAnyAsRequest ==
    /\ NextIsData
    /\ requestTx /\ ~wedged /\ ~stuck
    /\ inbox' = Tail(inbox)
    /\ work' = IF Over THEN work ELSE Append(work, Head(inbox))
    /\ UNCHANGED <<slotVars, clientVars, taskVars, requestTx, wedged, stuck, startedBy,
                   taken, fn, replies, made, looping, outbox, mainVars>>

\* Any later one is taken as a request; once the function has returned nobody
\* receives it and the error of send is ignored.
ReceiveRequest ==
    /\ NextIsData
    /\ requestTx /\ ~wedged /\ ~stuck /\ startedBy # 0
    /\ inbox' = Tail(inbox)
    /\ work' = IF Over THEN work ELSE Append(work, Head(inbox))
    /\ UNCHANGED <<slotVars, clientVars, taskVars, requestTx, wedged, stuck, startedBy,
                   taken, fn, replies, made, looping, outbox, mainVars>>

\* Init data that does not decode as a request, and any data once the mutex of the
\* callback is stuck: a panic under the mutex of requestTx.
ReceivePanics ==
    /\ NextIsData
    /\ requestTx /\ ~wedged /\ startedBy # 0
    /\ stuck \/ Head(inbox).n = 0
    /\ inbox' = Tail(inbox)
    /\ wedged' = TRUE
    /\ UNCHANGED <<slotVars, clientVars, taskVars, requestTx, stuck, startedBy, work, taken,
                   fn, replies, made, looping, outbox, mainVars>>

\* After the end of the requests data is ignored; under a stuck mutex
\* everything panics.
ReceiveNothing ==
    /\ inbox # <<>>
    /\ wedged \/ (~requestTx /\ NextIsData)
    /\ inbox' = Tail(inbox)
    /\ UNCHANGED <<slotVars, clientVars, taskVars, workerVars, outbox, mainVars>>

\* The worker function receives a request, sends a response, or returns: at the
\* end of its requests or, if it likes, earlier.
FnTake ==
    /\ fn = "running"
    /\ work # <<>>
    /\ work' = Tail(work)
    /\ taken' = Append(taken, Head(work))
    /\ UNCHANGED <<slotVars, clientVars, taskVars, inbox, requestTx, wedged, stuck, startedBy,
                   fn, replies, made, looping, outbox, mainVars>>

\* The k-th response of the function.
Response(k) == [session |-> startedBy, n |-> k]

FnRespond ==
    /\ fn = "running"
    /\ made < MaxResponses
    /\ made' = made + 1
    /\ replies' = Append(replies, Response(made + 1))
    /\ UNCHANGED <<slotVars, clientVars, taskVars, inbox, requestTx, wedged, stuck, startedBy,
                   work, taken, fn, looping, outbox, mainVars>>

Ends(how) ==
    /\ fn = "running"
    /\ fn' = how
    /\ work' = <<>>
    /\ UNCHANGED <<slotVars, clientVars, taskVars, inbox, requestTx, wedged, stuck, startedBy,
                   taken, replies, made, looping, outbox, mainVars>>

FnReturn == work = <<>> /\ ~requestTx /\ Ends("returned")

FnStop == StopsEarly /\ Ends("stopped")

\* Plausible bug: the end is posted before the responses that are queued.
LoopEndsFirst ==
    /\ looping
    /\ replies # <<>> \/ Over
    /\ Postable(replies, payload.refusedResponses)
    /\ outbox' = outbox \o (IF Over THEN <<Null>> ELSE <<>>) \o replies
    /\ replies' = <<>>
    /\ looping' = ~Over
    /\ UNCHANGED <<slotVars, clientVars, taskVars, inbox, requestTx, wedged, stuck, startedBy,
                   work, taken, fn, made, mainVars>>

\* A poll of the response loop; the function dropped its sender by returning.
RunLoop ==
    /\ looping
    /\ replies # <<>> \/ Over
    /\ Postable(replies, payload.refusedResponses)
    /\ outbox' = outbox \o replies \o (IF Over THEN <<Null>> ELSE <<>>)
    /\ replies' = <<>>
    /\ looping' = ~Over
    /\ UNCHANGED <<slotVars, clientVars, taskVars, inbox, requestTx, wedged, stuck, startedBy,
                   work, taken, fn, made, mainVars>>

\* A poll that ends in a panic while a response is posted, under the callback's mutex.
LoopPanics ==
    /\ looping
    /\ \E k \in DOMAIN replies :
          /\ FirstRefused(replies, k, payload.refusedResponses)
          /\ outbox' = outbox \o SubSeq(replies, 1, k - 1)
          /\ replies' = SubSeq(replies, k + 1, Len(replies))
    /\ looping' = FALSE
    /\ stuck' = TRUE
    /\ UNCHANGED <<slotVars, clientVars, taskVars, inbox, requestTx, wedged, startedBy,
                   work, taken, fn, made, mainVars>>

-----------------------------------------------------------------------------
WorkerReceive ==
    \/ ReceiveNull \/ ReceiveFirst \/ ReceiveRequest
    \/ ReceivePanics \/ ReceiveNothing

Next ==
    \/ \E s \in Session :
          \/ Open(s) \/ ClientSend(s) \/ ClientClose(s)
          \/ RunProxy(s) \/ RunForwarder(s) \/ ForwarderPanics(s)
          \/ Abort(s) \/ AbortUnreplaced(s)
    \/ MainReceive
    \/ WorkerReceive
    \/ FnTake \/ FnRespond \/ FnReturn \/ FnStop \/ RunLoop \/ LoopPanics

Spec == Init /\ [][Next]_vars

(***************************************************************************)
(* Tasks that were woken are polled and messages that were posted arrive.   *)
(* The client drops its senders in the end, and the worker function reads on*)
(* and returns at the end of its requests.  Nothing makes a client open a   *)
(* session, send a request or abort.  A panic leaves the tasks that were to *)
(* be polled after the one that panics waiting for the next to be woken: no *)
(* liveness property is about what tasks do after one.                      *)
(***************************************************************************)
Fairness ==
    /\ \A s \in Session :
          /\ WF_vars(RunProxy(s)) /\ WF_vars(RunForwarder(s) \/ ForwarderPanics(s))
          /\ WF_vars(ClientClose(s))
    /\ WF_vars(MainReceive) /\ WF_vars(WorkerReceive)
    /\ WF_vars(FnTake) /\ WF_vars(FnReturn) /\ WF_vars(RunLoop \/ LoopPanics)

FairSpec == Spec /\ Fairness

-----------------------------------------------------------------------------
(* Safety.                                                                 *)

\* No other session was opened on the worker of session s.
Alone(s) == \A t \in Session : on[t] = on[s] => t = s

\* The messages that are not the end of a stream; those a client sends in session s.
Data == Message \ {Null}

DataOf(s) == [session : {s}, n : Nat]

\* The messages of M lie in q in the order of their numbers, none twice.
Rising(q, M) ==
    \A j, k \in DOMAIN q : j < k /\ q[j] \in M /\ q[k] \in M => q[j].n < q[k].n

\* The way of session s from the client to the function, latest requests last.
Upstream(s) == taken \o work \o inbox \o feed[s] \o proxy[s]

\* Neither the init data of session s nor any of its requests up to the k-th is null
\* or refused.
PlainUpTo(s, k) ==
    \A j \in 0..k : Request(s, j) \notin payload.nullRequests \union payload.refusedRequests

\* On the way through proxy task, forwarder, postMessage and ChannelWorkerFn no
\* request overtakes or repeats another or the init data, whatever later sessions,
\* aborts and panics do; and until the function returns none is lost of a session that
\* has its worker to itself, on a worker that replaced another included, up to the
\* first that is null or refused, and as long as no panic has left requestTx locked.
RequestsKeepOrder ==
    \A s \in 1..opened :
        /\ Rising(Upstream(s), DataOf(s))
        /\ Range(Upstream(s)) \cap DataOf(s) \subseteq {Request(s, k) : k \in 0..sent[s]}
        /\ Reaches(s) /\ Alone(s) /\ ~Over /\ ~wedged =>
               {Request(s, k) : k \in {i \in 1..sent[s] : PlainUpTo(s, i)}}
                   \subseteq Range(Upstream(s))

\* The way of the responses from the function to the receiver of session s.
Downstream(s) == answers[s] \o outbox \o replies

OnSlot == {s \in Session : on[s] = worker}

\* None of the function's responses up to the k-th is null or refused.
PlainResponses(k) ==
    \A j \in 1..k : Response(j) \notin payload.nullResponses \union payload.refusedResponses

\* No response of a worker is repeated or overtaken on its way to the receivers, and
\* none is lost up to the first that is null or refused: those of a later session go
\* on where those of the one before it on the worker ended.
ResponsesKeepOrder ==
    ~dead =>
        /\ \A s \in OnSlot : Rising(Downstream(s), Data)
        /\ \A s, t \in OnSlot : s < t =>
               \A a \in Range(answers[s]), b \in Range(answers[t]) : a.n < b.n
        /\ LET Ways == (UNION {Range(Downstream(s)) : s \in OnSlot}) \ {Null}
           IN /\ Ways \subseteq {Response(k) : k \in 1..made}
              /\ {Response(k) : k \in {i \in 1..made : PlainResponses(i)}} \subseteq Ways

\* A null among the init data and the requests session s has sent.
SentNull(s) == \E k \in 0..sent[s] : Request(s, k) \in payload.nullRequests

\* Nothing of a session gets to a worker it was not opened on, neither its
\* requests nor the end of them, though its tasks outlive an abort; and no session
\* receives the responses of a worker it was not opened on.
AbortIsolates ==
    /\ \A m \in Range(taken \o work \o inbox) : m # Null => on[m.session] = worker
    /\ Null \in Range(inbox) => \E s \in Session : on[s] = worker /\ sender[s] = "dropped"
    /\ ~requestTx =>
           \E s \in Session : on[s] = worker /\ (sender[s] = "dropped" \/ SentNull(s))
    /\ \A s \in Session : \A m \in Range(answers[s]) : on[m.session] = on[s]

\* A slot is offered while a client still holds the sender of a session on its
\* worker only when the proxy task of a session that was aborted before has given
\* it back: never by an abort that found no replacement.
OfferedOnlyWhenClosed ==
    available =>
        \/ \A s \in 1..opened : on[s] = worker => sender[s] = "dropped"
        \/ \E t \in 1..opened : on[t] < worker /\ sender[t] = "dropped"

-----------------------------------------------------------------------------
(* Liveness.                                                               *)

\* A task panicked while it posted data.
Panicked == died # {} \/ stuck

\* When the client drops its sender its receiver is disconnected in the end,
\* unless the worker was terminated, when nothing drops response_tx any more, or
\* shared with a later session, a task panicked, or the function was never started
\* because the init data is null.
CloseEnds ==
    \A s \in Session :
        sender[s] = "dropped" ~> \/ ~receiving[s] \/ ~Reaches(s) \/ ~Alone(s)
                                \/ Panicked \/ InitData(s) \in payload.nullRequests

\* Every request that was sent, up to the first that is null or refused, is received by
\* a function that reads to the end, those sent just before the client dropped its
\* sender included.
RequestsArrive ==
    \A s \in Session, k \in 1..MaxRequests :
        sent[s] >= k /\ PlainUpTo(s, k) ~>
            \/ fn = "stopped" \/ Request(s, k) \in Range(taken)
            \/ ~Reaches(s) \/ ~Alone(s) \/ Panicked

\* Every response, up to the first that is null or refused, reaches a receiver, those
\* sent just before the function returned and those of a worker that has got a later
\* session included.
ResponsesArrive ==
    \A w \in 1..(Sessions + 1), k \in 1..MaxResponses :
        worker = w /\ made >= k /\ PlainResponses(k) ~>
            \/ worker # w \/ dead
            \/ \E s \in Session : \E m \in Range(answers[s]) : on[s] = w /\ m.n = k

\* The first session on a worker, also on one that replaced another, gets the
\* worker function started with its own init data, unless that is null.
FirstSessionStarts ==
    \A s \in Session :
        opened = s /\ Alone(s) /\ InitData(s) \notin payload.nullRequests
            ~> startedBy = s \/ ~Reaches(s)

\* Every session that is opened gets the worker function started with its own
\* init data ("a duplex connection to a persistent stateful worker").
SessionStarts == \A s \in Session : opened = s ~> startedBy = s
=============================================================================
