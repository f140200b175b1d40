---------------------------- MODULE PoolMessages ----------------------------
(***************************************************************************)
(* The pool together with the messages its workers answer with: what        *)
(* WorkerHandle::run, stream and stream_callback install and post on the    *)
(* main thread, the three message handlers of a worker, and the closures    *)
(* that receive the answers.                                                *)
(*                                                                          *)
(* A worker runs a task per request, all of them concurrently, so that the  *)
(* order in which requests reach it decides nothing and posting a request   *)
(* starts its task.  Its answers share one first-in first-out way back to   *)
(* the main thread, where the one closure that is installed as `onmessage`  *)
(* receives them all, whichever run they answer.  terminate() stops the     *)
(* tasks of a worker and discards its answers.  Channels: ChannelSession.   *)
(***************************************************************************)
EXTENDS PoolExecutor

CONSTANTS
    MaxItems,  \* how many answers a stream or callback worker sends at most
    NullItems  \* which of them serialize to the null of JavaScript

ASSUME FlavourAssumption == Kind # "channel"
ASSUME ItemsAssumption ==
    /\ MaxItems \in Nat /\ NullItems \subseteq 1..MaxItems
    /\ Kind = "future" => MaxItems >= 1 \* a future worker sends one

VARIABLES
    task,       \* task[r]: the request "unsent", in the works, or "finished"
    made,       \* made[r]: how many answers the task has posted
    outbox,     \* outbox[w]: messages from worker w that have not arrived
    listening,  \* the runs whose closure is the onmessage of their worker
    got         \* got[r]: what the closure passed on to the owner of run r

messageVars == <<task, made, outbox, listening, got>>

\* A call and an abort start one worker each at most, and a slot is not aborted
\* twice without a call in between.
Workers == 1..(InitialSize + 2 * Cardinality(Runs))

\* Answer number n to run r; number 0 is WorkerMsg::new_null.
Message == [run : Runs, n : 0..MaxItems]

Answer(r, k) == [run |-> r, n |-> k]

MessageTypeOK ==
    /\ task \in [Runs -> {"unsent", "working", "finished"}]
    /\ made \in [Runs -> 0..MaxItems]
    /\ outbox \in [Workers -> Seq(Message)]
    /\ listening \subseteq Runs
    /\ got \in [Runs -> Seq(Message)]

MessageInit ==
    /\ Init
    /\ task = [r \in Runs |-> "unsent"]
    /\ made = [r \in Runs |-> 0]
    /\ outbox = [w \in Workers |-> <<>>]
    /\ listening = {}
    /\ got = [r \in Runs |-> <<>>]

-----------------------------------------------------------------------------
(* The request.                                                            *)

\* Plausible bug: a run that finds a closure installed leaves it there.
KeepsListener(r) ==
    listening' = IF \E q \in listening : ticket[q].handle = ticket'[r].handle
                 THEN listening
                 ELSE listening \union {r}

\* The closure of run r replaces the one that was installed on its worker.
Listen(r) ==
    listening' = {q \in listening : ticket[q].handle # ticket'[r].handle} \union {r}

\* set_onmessage, then the request is serialized and posted, or that panics.
Post(r, panics) ==
    /\ Listen(r)
    /\ task' = IF panics THEN task ELSE [task EXCEPT ![r] = "working"]
    /\ UNCHANGED <<made, outbox, got>>

Call(r) ==
    /\ Reuse(r) \/ Expand(r)
    /\ \/ PostsInCall /\ Post(r, phase'[r] = "crashed")
       \/ ~PostsInCall /\ UNCHANGED messageVars

FirstPoll(r) ==
    /\ ~PostsInCall
    /\ phase[r] = "held"
    /\ task[r] = "unsent"
    /\ UNCHANGED vars
    /\ Post(r, FALSE)

FirstPollPanics(r) ==
    /\ task[r] = "unsent"
    /\ PollPanics(r)
    /\ Post(r, TRUE)

-----------------------------------------------------------------------------
(* The worker.                                                             *)

Working(r) == task[r] = "working" /\ ticket[r].handle \notin terminated

\* Plausible bug: an answer is posted as a batch of one.
ReplyBatched(r, m) ==
    outbox' = [outbox EXCEPT ![ticket[r].handle] = Append(@, [batch |-> m])]

Reply(r, m) == outbox' = [outbox EXCEPT ![ticket[r].handle] = Append(@, m)]

\* A stream or callback worker posts an answer.
Produce(r) ==
    /\ Kind # "future"
    /\ Working(r)
    /\ made[r] < MaxItems
    /\ made' = [made EXCEPT ![r] = @ + 1]
    /\ Reply(r, Answer(r, made[r] + 1))
    /\ UNCHANGED <<vars, task, listening, got>>

\* Plausible bug: the last answer is posted after the end.
EndsBeforeLast(r) ==
    /\ Kind # "future"
    /\ Working(r)
    /\ made[r] < MaxItems
    /\ task' = [task EXCEPT ![r] = "finished"]
    /\ made' = [made EXCEPT ![r] = @ + 1]
    /\ outbox' = [outbox EXCEPT ![ticket[r].handle] =
                      @ \o <<Answer(r, 0), Answer(r, made[r] + 1)>>]
    /\ UNCHANGED <<vars, listening, got>>

\* It posts a null when its stream or future has ended.
End(r) ==
    /\ Kind # "future"
    /\ Working(r)
    /\ task' = [task EXCEPT ![r] = "finished"]
    /\ Reply(r, Answer(r, 0))
    /\ UNCHANGED <<vars, made, listening, got>>

\* Plausible bug: the answer is posted twice.
ResolveTwice(r) ==
    /\ Kind = "future"
    /\ Working(r)
    /\ task' = [task EXCEPT ![r] = "finished"]
    /\ made' = [made EXCEPT ![r] = 1]
    /\ outbox' = [outbox EXCEPT ![ticket[r].handle] = @ \o <<Answer(r, 1), Answer(r, 1)>>]
    /\ UNCHANGED <<vars, listening, got>>

\* A future worker posts its only answer.
Resolve(r) ==
    /\ Kind = "future"
    /\ Working(r)
    /\ task' = [task EXCEPT ![r] = "finished"]
    /\ made' = [made EXCEPT ![r] = 1]
    /\ Reply(r, Answer(r, 1))
    /\ UNCHANGED <<vars, listening, got>>

-----------------------------------------------------------------------------
(* The answers arrive: r is the run whose closure is called.               *)

Arrives(r) ==
    /\ r \in listening
    /\ ticket[r].handle \notin terminated
    /\ outbox[ticket[r].handle] # <<>>

Arriving(r) == Head(outbox[ticket[r].handle])

\* WorkerMsg::is_null
IsNull(m) == m.n = 0 \/ m.n \in NullItems

PassOn(r) == got' = [got EXCEPT ![r] = Append(@, Arriving(r))]

Arrived(r) ==
    /\ outbox' = [outbox EXCEPT ![ticket[r].handle] = Tail(@)]
    /\ UNCHANGED <<task, made, listening>>

\* Plausible bug: the sender is taken before the answer is sent.
TakesBeforeSend(r) ==
    /\ Kind = "future"
    /\ Arrives(r)
    /\ Complete(r)
    /\ Arrived(r)
    /\ UNCHANGED got

\* The closure of a future takes its sender with the first answer.
ReceiveAnswer(r) ==
    /\ Kind = "future"
    /\ Arrives(r)
    /\ Complete(r)
    /\ PassOn(r)
    /\ Arrived(r)

(***************************************************************************)
(* The closure of a stream passes items on while the stream is there and    *)
(* its sender has not been taken; the closure of a callback worker is never *)
(* dropped, and calls the callback whatever has become of the future.       *)
(***************************************************************************)
Accepts(r) == Kind = "callback" \/ (Kind = "stream" /\ phase[r] = "held")

ReceiveItem(r) ==
    /\ Arrives(r)
    /\ ~IsNull(Arriving(r))
    /\ Accepts(r)
    /\ PassOn(r)
    /\ Arrived(r)
    /\ UNCHANGED vars

\* A null ends the stream, or lets the future of stream_callback resolve.
ReceiveEnd(r) ==
    /\ Kind # "future"
    /\ Arrives(r)
    /\ IsNull(Arriving(r))
    /\ Complete(r)
    /\ Arrived(r)
    /\ UNCHANGED got

\* Nobody to pass it on to: the sender was taken, the closure was dropped, or
\* the receiver was.  The closure panics, throws or ignores the message.
ReceiveStray(r) ==
    /\ Arrives(r)
    /\ \/ Kind = "future" /\ phase[r] # "held"
       \/ Kind # "future" /\ ~IsNull(Arriving(r)) /\ ~Accepts(r)
       \/ Kind # "future" /\ IsNull(Arriving(r)) /\ phase[r] # "held"
    /\ Arrived(r)
    /\ UNCHANGED <<vars, got>>

-----------------------------------------------------------------------------
\* Steps of the pool that send and receive nothing.
Silent ==
    \/ NewPool \/ NewPoolFails
    \/ \E r \in Runs :
          \/ ExpandFails(r) \/ CallRefused(r)
          \/ Release(r) \/ ReleasePanics(r) \/ Drop(r)
          \/ Abort(r) \/ AbortUnreplaced(r) \/ AbortPanics(r)

Receive(r) ==
    ReceiveAnswer(r) \/ ReceiveItem(r) \/ ReceiveEnd(r) \/ ReceiveStray(r)

MessageNext ==
    \/ Silent /\ UNCHANGED messageVars
    \/ \E r \in Runs :
          \/ Call(r) \/ FirstPoll(r) \/ FirstPollPanics(r)
          \/ Produce(r) \/ End(r) \/ Resolve(r)
          \/ Receive(r)

MessageSpec == MessageInit /\ [][MessageNext]_<<vars, messageVars>>

(***************************************************************************)
(* The owner of a future polls it, a worker function returns in the end, and*)
(* the browser delivers what was posted.                                    *)
(***************************************************************************)
MessageFairness ==
    /\ WF_<<vars, messageVars>>(NewPool /\ UNCHANGED messageVars)
    /\ \A r \in Runs :
          /\ WF_<<vars, messageVars>>(FirstPoll(r))
          /\ WF_<<vars, messageVars>>(End(r) \/ Resolve(r))
          /\ WF_<<vars, messageVars>>(Receive(r))
          /\ WF_<<vars, messageVars>>(Release(r) /\ UNCHANGED messageVars)

FairMessageSpec == MessageSpec /\ MessageFairness

-----------------------------------------------------------------------------
\* Where the answers of run r that are on their way lie in the outbox.
OnTheWay(r) ==
    {k \in DOMAIN outbox[ticket[r].handle] :
        LET m == outbox[ticket[r].handle][k] IN m.run = r /\ m.n > 0}

\* The owner of run r may still look at what arrives.
Attended(r) == phase[r] \in {"held", "ready", "done"}

\* What was passed on are the first answers of run r, and the others, those made
\* since, are on their way in order.
OwnInOrder(r) ==
    LET q == outbox[ticket[r].handle] IN
    /\ \A k \in DOMAIN got[r] : got[r][k] = Answer(r, k)
    /\ Len(got[r]) <= made[r]
    /\ {q[k].n : k \in OnTheWay(r)} = (Len(got[r]) + 1)..made[r]
    /\ \A j, k \in OnTheWay(r) : j < k => q[j].n < q[k].n

\* A run that got one of the workers the pool was created with, and is neither
\* dropped nor terminated, receives its own answers, all of them, in order and
\* no other's, whatever else is going on in the pool.
OriginalsDeliver ==
    \A r \in Runs :
        Attended(r) /\ ticket[r].handle \in 1..InitialSize \ terminated => OwnInOrder(r)

\* The slot of such a run is given back only when its worker is done with it
\* and every answer has been passed on: no answer can meet the next run.
CompleteMeansAll ==
    \A r \in Runs :
        phase[r] \in {"ready", "done"} /\ ticket[r].handle \in 1..InitialSize =>
            task[r] = "finished" /\ Len(got[r]) = made[r]

\* "This executor will run requests on the first available worker": a caller is
\* handed the answers to its own request.  Holds for a client that keeps
\* MaxOutstanding <= InitialSize and aborts with care.
AnswersAreOwn ==
    \A r \in Runs : \A k \in DOMAIN got[r] : got[r][k] = Answer(r, k)

\* Every answer a worker sends is passed on to somebody, unless its worker is
\* terminated first or the run was dropped: no closure is called that has nothing
\* left to do with the message.
NoStray ==
    [][\A r \in Runs : ReceiveStray(r) => phase[r] = "dropped"]_<<vars, messageVars>>

\* Every call that was given a worker is answered in full and gives it back: the
\* pool expands "in order to not block".
EveryRunAnswered ==
    \A r \in Runs :
        phase[r] = "held" ~> phase[r] = "done" /\ Len(got[r]) = made[r]
=============================================================================
