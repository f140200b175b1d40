# A verification of leptos_workers

`leptos_workers` runs Rust functions in web workers. The `#[worker]` macro turns a
function into a type that implements one of four worker traits and into a function of
the same name that runs it on a default pool. This directory holds TLA+ models of the
parts of the crate where several things go on at once, the TLC configurations that check
them on small instances, and TLAPS proofs of what matters most: nearly every safety
property of the runs, and the refinements of the two abstract specifications.

All of the crate runs in JavaScript agents: the page's main thread and one thread per
worker. Each runs one task at a time, so a stretch of code between two `await`s is
atomic; what interleaves is the order of tasks, of polls, of messages, and the moments
at which the client calls, polls, drops and aborts. A panic is a trap: it runs no
destructors, so a `std::sync::Mutex` that is held stays locked (`lock` on it panics from
then on, `try_lock` fails), while the page and the other tasks go on.

## Inventory

| Component | State | Operations | Interacts with |
|---|---|---|---|
| `PoolExecutor`, `AbortHandle` (`executors/pool_executor.rs`) | the vector of slots, each a worker, `available`, `generation` and a mutex | `new`, `run`, `stream`, `stream_callback`, `channel`, `abort`, the release of a slot | calls `WorkerHandle`; is called by generated code; its futures and streams are polled by the client |
| `WorkerHandle` (`plumbing/worker_handle.rs`) | the worker's `onmessage` closure; per run a channel, its sender and the closure | `run`, `stream`, `stream_callback`, `channel`, `terminate` | posts to and is called back by its worker |
| `ChannelWorkerFn` (`workers/channel_worker.rs`) | sender of requests, whether initialized, the callback | first message, further messages, end, response loop | called by the worker's message handler; feeds the worker function |
| future, stream and callback workers (`workers/*.rs`) | the registered function | start a task per request, post its answers | called by the worker's message handler |
| message handlers, boot (`plumbing/unifunctional_worker.rs`) | queue of early events, the installed handler | `web_module`, `init_workers`, `on_message_*` | started by `create_worker`; calls the worker functions |
| `create_worker` (`plumbing/create_worker.rs`) | none | find the URLs, build the script, start the worker | called by `WorkerHandle::new` |
| `WorkerMsg`, `post_message` (`messages/`) | a message under way | `new`, `new_null`, `is_null`, `post`, `decode`, `into_inner` | used by all of the above |
| transfer store (`messages/transferable.rs`) | a thread-local list of objects to transfer, with an identity | `serialize`, `serialize_to_worker_msg` | called during serialization |
| transferable types (`messages/transferable_types/`) | none | conversions to and from JavaScript values | called by the transfer store |
| macro: analysis (`leptos_workers_macro/src/v2/analyze.rs`, `parse.rs`, `pattern_match_hole.rs`) | none | which flavour a signature has | compile time |
| macro: code (`lower.rs`, `codegen.rs`) | none; the code it generates holds a thread-local pool or the error of its creation | `thread_pool`, `ssr_check`, the calls | calls `PoolExecutor` |
| `lib.rs` | none | documentation, re-exports | |

What is hard in each, and what makes it correct:

* **Pool.** Calls, releases, drops and aborts of several runs come in any order; a
  release may come long after an abort has given the slot to somebody else; starting a
  worker can fail in the middle of `abort`; a call can panic with a mutex held. Correct
  means: a worker serves one run at a time; a slot that is passed over is owed by a run;
  abort terminates the worker of the run it was asked to, and nothing idle; the pool
  grows only when it must; a worker that is offered is alive.
* **WorkerHandle.** One `onmessage` per worker receives whatever the worker sends, so
  that correct delivery depends on the pool; the closure, the future and the request
  live for different spans. Correct means: a caller gets the answers to its own request,
  all of them, in order, and the slot is given back only after the last.
* **Channels.** Two tasks on the main thread and two on the worker pass requests and
  responses on, and the end of a session travels through all of them. Those on the main
  thread outlive an abort of the session. Correct means: two first-in first-out streams,
  each ending once and after its last element; the next session on the worker is a
  session of its own; what is left of an aborted session disturbs none on the worker that
  replaced its own. The end of a stream is told by null data, which data of the program's
  own may be as well, and either task that posts may panic: nothing sent before may be lost
  or get out of order for that.
* **Boot.** Requests arrive before the module is loaded. Correct means: none is lost,
  repeated or overtaken by those that arrive later.
* **Transfer store.** It is global to the thread. Correct means: a message carries
  exactly its own objects.
* **Macro.** It goes by the text of tokens: types are compared with patterns from both
  ends, and request and response types cut out of them. Correct means: a signature gets
  the flavour the documentation lists for it, and the types that are written there, or is
  refused; a documented one is not refused.

`PROJECT.json` lists every hazard with its line and the properties aimed at it.

## Plan

1. `PoolExecutor`, with the abstract `WorkerLease` and its proofs. *Done.*
2. `ChannelSession`, with the abstract `DuplexChannel`: sessions that follow one another
   on one slot, and abort. *Done.*
3. `PoolMessages`, composing the pool with the messages of the future, stream and
   callback flavours. *Done.*
4. `WorkerBoot`: `web_module` and `init_workers`, the URLs of `create_worker`, a failing
   `load()`, an event that panics during the replay, and the proof that events keep
   their order. *Done.*
5. The thread-local pool of the generated functions with its cached error, in
   `PoolExecutor`. *Done.*
6. `TransferStore`: the store, nested serialization, the assertion of its identity,
   objects collected twice. `TransferableTypes`: the implementations of the trait, and the
   round trip of nested containers. *Done.*
7. `WorkerMacro`: the flavour of a signature, the matching of patterns with holes and the
   demands on the arguments, as operators checked against the documented signatures;
   `WorkerProgram` composes them with `WorkerBoot`. *Done.*
8. Proofs: `AvailableIsAlive` and `RunningIsAbortable` for the disciplined client, the
   refinement of `WorkerLease`, what `PoolMessages` delivers, the order of requests and
   responses, `AbortIsolates`, `OfferedOnlyWhenClosed` and the refinement of
   `DuplexChannel` of `ChannelSession`, `LostOnlyBehindPanic` of `WorkerBoot`. *Done.*
9. `TransferStore` over arbitrary implementations of the trait, so that what it says can
   be proved: of the store for all of them, of the fields for those that keep the law of
   the built-in ones. *Done.*
10. Proofs about the macro: its patterns, for types of any tokens, and what it expands of
    functions of any number of inputs. *Done.*
11. Data that is null, and panics while posting, in `ChannelSession` and its proofs. *Done.*

## Modules

| Module | What it is |
|---|---|
| `PoolExecutor` | the slots of a pool and all that is done to them, for one flavour (`Kind`) |
| `MCPoolExecutor` | its instances for TLC |
| `PoolExecutorProofs` | the inductive invariant of the pool and what follows from it |
| `WorkerLease`, `WorkerLeaseProofs` | the abstract protocol: a worker is leased to one run at a time |
| `PoolLease` | the pool as an implementation of `WorkerLease` |
| `PoolLeaseProofs` | that it is one for the disciplined client, whose workers are alive and abortable |
| `PoolMessages` | extends `PoolExecutor` with requests, answers and closures |
| `MCPoolMessages` | its instances for TLC |
| `PoolMessagesProofs` | `PoolMessages` implements `PoolExecutor`; what the owners of runs receive |
| `ChannelSession` | sessions with a channel worker, one after the other on one slot, and abort |
| `DuplexChannel` | the abstract session: two streams, each ending once |
| `ChannelDuplex` | the sessions as implementations of `DuplexChannel` |
| `MCChannelSession` | what data is null or refused in the instances for TLC |
| `ChannelSessionProofs` | which messages lie where, who is offered the slot, the order of requests and responses, and up to where none is lost |
| `ChannelDuplexProofs` | every session with plain data implements `DuplexChannel` while it has a worker of its own |
| `WorkerBoot` | the start of a worker, and the requests that arrive meanwhile |
| `WorkerMacro` | what `#[worker]` makes of a function, as operators |
| `WorkerProgram`, `MCWorkerProgram` | extends both: from a function under `#[worker]` to the handler of its requests; its instances |
| `WorkerProgramProofs` | the order and the loss of requests, and that the macro expands what is written |
| `TransferableTypes` | the implementations of the trait `TransferableType` |
| `TransferStore`, `MCTransferStore` | the serialization and posting of messages whose fields have such types |
| `TransferStoreProofs` | whose objects are posted, and that fields of lawful types arrive whole and uncopied |

Operators whose comment begins "Plausible bug" are variants of the definition that
follows them. No specification uses them; they serve to show that a property notices the
bug, when the definition is replaced by its variant.

### PoolExecutor

`slots` is the vector `workers`, a slot the fields of `WorkerPoolState` plus `locked`,
which is true once a panic has left its mutex locked. Workers are numbered as they are
started, `terminated` are those `terminate()` was called on. A run is one call of `run`,
`stream`, `stream_callback` or `channel`; `ticket[r]` is what the call got: slot,
generation (both kept by the `AbortHandle`) and worker. `phase[r]` is how far it has got.

| Action | Code |
|---|---|
| `NewPool`, `NewPoolFails` | `PoolExecutor::new` |
| `Reuse`, `Expand`, `ExpandFails` | a whole call: `get_or_create_worker`, the generation, the handle; with `crash`, a panic while the request is posted inside the call |
| `CallRefused` | a generated function finds the error of `new` in its thread-local |
| `PollPanics` | the same panic at the first poll of `run` and `stream_callback` |
| `Complete` | the last message of the run has arrived; or, for a channel, the client has dropped its sender |
| `Release`, `ReleasePanics` | `release_worker_after_future`, `release_worker_after_stream`, the end of the proxy task |
| `Drop` | the client drops the future or stream |
| `Abort`, `AbortUnreplaced`, `AbortPanics` | `abort()` when it does something, with the outcomes of starting the replacement |

A call that is not made, an `abort()` that does nothing and a poll that is pending change
no state and are stuttering steps. `id` is left out, nothing reads it but `abort`, which
copies it. The overflow of the generation (a `usize`) is left out.

The constants describe the client: `MaxOutstanding` bounds the runs it has at once;
`Aborts` is `"never"`, `"any"` (handles are used at any time, repeatedly) or `"careful"`
(once, on a run in progress, whose future is dropped with it); `CanDrop` whether futures
are dropped unfinished; `Faults` what fails. The client called *disciplined* below has
`MaxOutstanding <= InitialSize` and does not abort `"any"`.

### PoolMessages

Adds the worker's side (`task`, `made`), the way back to the main thread (`outbox`, one
queue per worker), and the closures (`listening`: those that are the `onmessage` of their
worker; `got`: what they passed on). `Call` and `FirstPoll` install the closure and post
the request at the point each flavour does; `Produce`, `End` and `Resolve` are the message
handlers; the four `Receive` actions are the closures. Requests have no queue of their own: a worker
starts an independent task for each. Here `Complete` happens exactly when the code
lets it happen.

### ChannelSession

`proxy`, `feed`, `work`, `replies` and `answers` are the flume channels of
`PoolExecutor::channel`, `WorkerHandle::channel` and `ChannelWorkerFn::new`; `inbox` and
`outbox` the two directions of `postMessage`. An action of a task is one poll of it: it
takes all that is in its channel, and goes on to its end when the senders are gone. In
particular `RunProxy` gives the slot back when the client has dropped its sender, before
`RunForwarder` has posted what it was fed. The worker function is arbitrary: it
receives, responds and returns when it likes (`FnStop` only if `StopsEarly`). The channels
are unbounded, as in the code; `MaxRequests` and `MaxResponses` bound the client and the
function.

What a session's data is like is chosen in `Init` and stays (`payload`, one of `Payloads`):
which requests (the init data is number 0) and which responses serialize to null, as a
newtype over a transferable `Option` that is `None` does, and which of them panic in
`WorkerMsg::new` or `post`. Init data that panics does so in the call of `channel`, with
the slot's mutex held: that is the fault `"post"` of `PoolExecutor`.

* `NullRequest`, `NullResponse` are `is_null()` on the two sides. A null request ends the
  requests like the forwarder's own null (`ReceiveNull`), later ones are ignored
  (`ReceiveNothing`), and the function is never started if the init data is null. A null
  response drops `response_tx` (`MainReceive`), and later ones go nowhere.
* `ForwarderPanics`: the messages before the one that is refused are posted, that one is
  lost, and the ones behind it stay in `feed` for ever (`died`); no null follows.
* `LoopPanics`: likewise in the response loop, with the mutex of `callback` held (`stuck`).
  The next data to arrive then panics under the mutex of `request_tx` (`ReceivePanics`), as
  a second session's init data does that does not decode as a request; after that every
  message does (`wedged`).

`worker` numbers the workers the slot has held, and `on[s]` is the one session `s` was
opened on. `Abort` and `AbortUnreplaced` are `abort()` with its two outcomes that do not
panic (`Aborts` says which are tried): the worker goes with its state and with everything on
the way from and to it, whereas the tasks on the main thread, the client's ends and
`response_tx` stay. A forwarder then posts in vain (`Reaches`), and the proxy task gives
back whatever the slot holds when the client drops its sender, also a worker that another
session uses, or one that was terminated and not replaced (`dead`): `Open` on it is
possible. `Armed` goes by generations, which start again with a new worker. A call that
finds the slot taken grows the pool; it is left out here.

What is promised to a session depends on `Reaches` (its worker is alive and in the slot),
`Alone` (it shares it with no other session) and on its own data: the order of what arrives
does not, but nothing is promised of what comes after the first request or response that is
null or refused (`PlainUpTo`, `PlainResponses`). `DuplexChannel` is about sessions none of
whose data is (`PlainSession`), whatever that of the others is; it has a variable for all
three, `alone`, and promises nothing once it is false. `ChannelDuplex` maps the state of a
session to it. TLC checks the refinement for the first session and for the last one,
which may be the first on a worker that replaced another; the proof is for every one.

### WorkerBoot

`port` holds the events the browser has not delivered, `queue` is the array of that name
in the script, `handled` the events the handler of `init_workers` was called with. `stage`
is how far the worker has got. What the page and the build are like (`head`, `named`, the
`flavour`, what is `exported`, which requests are `bad`) is chosen in `Init` and stays.

| Action | Code |
|---|---|
| `CreateWorker`, `CreateFails` | `create_unifunctional_worker`; `FindFiles` is `find_js_wasm_urls` |
| `Post` | a request is posted to the worker |
| `RunScript`, `ScriptFails` | the script of `web_module`, up to the first `await` of `load()` |
| `Arrive` | its first `onmessage`, which stays if loading fails |
| `LoadFails`, `InitPanics` | `init()` is rejected; `init_workers` panics before it installs the handler |
| `InitWorkers` | the rest of `load()` in one go: registration, `init_workers`, and the replay in `set_onmessage`, which an event that panics cuts short |
| `Handle` | a later event |

Which events panic follows from `init_workers`: futures and streams decode their request
in a task of their own, callbacks and channels in the handler. A URL is abstracted to its
type and whose it is: the `"own"` build's, `"similar"` if it is another's but contains the
name of the own output, or `"other"`. The selector `[href*='name']` takes the first two
(`Selected`). That a script and a module of different builds do not load together is
assumed. The branch of `find_js_wasm_urls` for `CARGO_BIN_NAME` cannot be
reached, as the name was already looked up under both variables.

### WorkerMacro and WorkerProgram

A type is what it is in the documentation (`form`), what it is about (`of`), and the
tokens `tokenize` makes of it, where the content of a pair of delimiters is one token. A
function is its kind of item, the argument of the attribute, its qualifiers, its inputs
(each a kind of pattern and a type) and its output. `MatchesHole` and `Hole` are
`pattern_match_hole`, with the comparison from both ends; `Parsed` is what becomes of the
tokens in the hole, which are lexed one by one; `Analyze` is `analyze_worker_type` with
its order of cases; `Lower` what `lower` demands of the arguments. The outcome is
`expanded` with the flavour and the three types, `aborted` (an error with a message) or
`panicked`. `Documented` and `Promised` are the reference: they read the forms, never the
tokens. `Known` says when the form and the tokens of a type fit together.

`WorkerProgram` fixes the function under `#[worker]` (`source`), and takes from its
expansion by which executor method requests are posted (`Calls`) and what is exported
(`Exports`); from there on it is `WorkerBoot`, for functions that compile. Which types the
traits demand (`Clone`, `Serialize`) and what rustc makes of the generated code is left out.

### TransferStore and TransferableTypes

`store` is the thread-local, `counter` that of `unique_id`, and `stack` holds the calls of
`serialize_to_worker_msg` that have not returned: a `Serialize` implementation of the user
may post a message itself. `Begin` is the function up to `to_value`, `Serialize` one field
`#[serde(with = "transferable")]`, `Post` and `PostPanics` the rest with the assertion,
and `postMessage`, which refuses an object that is listed twice or was transferred before
(`Accepted`). `SerializeFails` is the `expect` on `to_value`. `message` is the last message
that was posted; the properties are about each one as it is posted.

An implementation of the trait is a record: its values and, as functions on them, the
three methods. `Leaf` is the one of the macro in `base.rs`, of `JsValue` and of
`Uint8Array`; `OptionOf`, `VecOf` and `MapOf` make an implementation from another, as the
generic ones in `containers.rs` do. Two things do not survive the way: `Some(None)` comes
back as `None`, and a map loses the key `__proto__`; `kept` are the values free of them.
The store knows nothing of all this: it is given `Impls`, an implementation for every type
a field may have.

## Runs

All runs set `CHECK_DEADLOCK FALSE`: the systems really stop, when the client has made
its last call and everything has been answered.

| Run | Shows | Bounds |
|---|---|---|
| `pool_any` | what holds for every client and fault | 4 futures at once on a pool of 2; symmetric runs; every fault, drop and abort |
| `messages_stream` | a run on a worker the pool was created with gets its own answers, all and in order, before the slot is given back, whatever the others do | 3 streams at once on 1, 2 items, any abort and drop, panics while posting |
| `messages_disciplined` | the disciplined client has exclusive, live, abortable workers, gets only its own answers, and the lease protocol is implemented; a stray answer is one to a future that was dropped | 4 futures, 2 at once, on 2; careful aborts, drops, every fault |
| `messages_liveness` | every run is answered and every slot comes back | 3 callbacks, 2 at once, on 2, 2 items |
| `channel_sessions` | a session with a worker of its own and plain data is a duplex channel; what order is left with two on a worker, and up to where nothing is lost when data is null or a task panics; an abort lets nothing of the old sessions through, and its slot is offered only when it should be | 2 sessions, 2 requests each, 2 responses per worker, both outcomes of abort, 6 kinds of data |
| `channel_liveness` | a session starts its worker function, delivers both ways up to the first null and ends, unless its worker is shared or terminated or a task panicked | 2 sessions, 1 request each, 1 response per worker, both outcomes of abort, the same data |
| `worker_boot` | the macro makes of a signature what is written there or nothing, and of documented ones something; requests reach the handler once, in order and in the end, unless the start fails or one before them panics in the replay | about 2 700 functions; for 4 of them 3 requests, 6 pages; every fault |
| `transfer_store` | a message carries its own objects, and values come back as they were | 2 objects, 4 types of up to two levels, 3 messages, 3 fields in all, nested and failing serializations |

Four runs on two slots let a slot be taken, aborted, replaced and taken again while an
older run still holds its first ticket, and let the pool grow twice; every defect below
shows with three runs or fewer. In `PoolMessages` two items tell "all, in order" from
"some", and three runs on a pool of one let two share a worker while the third ends
before, between or after their items. The number of workers started is bounded by the
number of runs (`Workers`).

In the channel runs two sessions let one be opened beside, after or in place of another:
before the first one's last requests were posted, while its function runs, after it
returned, on the worker that replaced its worker, or on a terminated one. Two requests and
two responses tell order from presence; for liveness one of each is enough, as nothing
depends on their number, and keeps the fairness constraints within reach. `MCPayloads` has
no null or refused data at all; each of init data, a request and a response of the first
session null or refused; and with three of these something of the second session, so that
there is a plain session before and after one that is not. In both runs every action fires,
the two panics and `ReceivePanics` in each of their cases among them.

In `worker_boot` the functions have 0 to 4 inputs, all kinds of arguments, qualifiers
and attribute arguments, types of the five shapes `Tokens` lists in every position and
behind every path the macro knows and one that it does not, and impl types that begin or
end like a pattern. 211 of them expand, among them all four flavours, 1 024 panic and
1 447 are aborted. Three requests let one panic in the replay, one be queued behind it and
one arrive after it; the six pages have no links, their own, one missing, those of another
build before and around, and those of a build of a similar name before. In `transfer_store` three messages let one fail, and one
be nested in another; `IdCount` is 7, and one initial state is about to roll over. Ids come
back only after more serializations than are begun (`IdAssumption`), as in the code, where
there are 2^64. `MaxFields` bounds the fields of all messages together.

Each flavour has a run where its ways differ: `stream` posts inside the call with the
mutex held and can end up with a locked slot, `future` and `callback` post at the first
poll, and the closure of `callback` outlives its future. `Faults` is empty where a run
asks about something else.

### Where the code departs from what it says

These runs check one property each, which TLC refutes.

| Run | What happens |
|---|---|
| `pool_stale_handle` | a replaced slot counts generations from 0 again: an old handle terminates the worker of a later run |
| `messages_misrouted` | the worker the pool grows by stays marked available and is given to a second run; one of them resolves with the answer to the other's request |
| `messages_null_item` | an item that serializes to null ends its stream, while the worker goes on |
| `channel_second_session` | the worker function is never started for a second session on its worker |

There are others, for which no run is kept. A stream whose end has arrived when it is
aborted, and which is then polled to its end, gives back a slot that belongs to the next
run by then: with `Aborts = "any"`, `AvailableAfterDone` fails. With more runs at once than
the pool was created with, `Exclusive`, `RunningIsAbortable` (the handle of a run on the
worker the pool grew by does nothing) and `EveryRunAnswered` (the future whose closure
was replaced waits for ever) fail too. With `Kind = "channel"`, any abort and
`"create"` among the faults, `AvailableIsAlive` fails: the proxy task offers the worker
that was terminated and not replaced; this is also why `OfferedOnlyWhenClosed` excuses
sessions that were aborted before. When two sessions share a worker requests can be lost:
the second session's init data can overtake the first session's last requests, and if it
does not decode as a request the worker is stuck. Null data ends the streams of a channel
session too: a null request, also of a session before on the same worker, makes the worker
ignore all later ones, a null response makes the client's receiver disconnect while the
function goes on, and with null init data the function is never started and the client
waits for ever. So it does when a task panics while posting, since nothing posts the null
then; with a response that panics the worker is lost to later sessions as well. A page with
the links of another build whose name contains that of the worker's own makes a worker of
those files. When a worker is terminated nothing drops
the `response_tx` of its session, and its client waits for ever: `CloseEnds` excuses it.
This is why properties about sharing are stated for the workers the pool was created
with, or for the disciplined client, and why most of those about sessions ask for a live
worker of their own and for data before the first null.

The macro panics, instead of reporting an error, on a tuple, an array or a path with `::`
as the request or response type of a channel or the item of a stream, because it lexes the
tokens of the hole one by one; this it does with every type that looks like a `Receiver` or
`Sender` before it knows whether the function is a channel worker, so that it also panics
on a callback worker whose request is a `Receiver<(A, B)>` (`HandlePanics`). It panics on
`impl Fn(A) -> B`, and on a callback worker whose argument is `mut callback`.
`DocumentedExpands` leaves these out. `lib.rs` documents
`async` stream workers, for which the generated function's inner one is not `async`, and
`await` in it does not compile; the model has no `async`.

## Fairness

Only weak fairness is assumed. On the main thread and in a worker: a task that was woken
is polled, and a message that was posted arrives (`RunProxy`, `RunForwarder`, `RunLoop`,
`Receive`, `MainReceive`, `WorkerReceive`), which the browser's event loop and the queue
of `wasm_bindgen_futures` provide; a poll may be the one that panics (`ForwarderPanics`,
`LoopPanics`). A panic delays the tasks that were to be polled after it until another is
woken, so that the properties promise nothing of what tasks do after one (`Panicked`). Of the user: futures and streams are polled to their
end (`FirstPoll`, `Release`), the senders of sessions are dropped (`ClientClose`), a
worker function ends (`End`, `Resolve`), a channel function reads its requests and returns
after the last (`FnTake`, `FnReturn`). Nothing makes the client call, drop a future, open a
session, abort or send, and nothing makes a function respond or return early. In `WorkerBoot`: the browser runs the script of
a worker, settles the promise of `init()`, and delivers messages (`Boot`, `Arrive`,
`Handle`); nothing makes the page start a worker or post.

## Proofs

`PoolExecutorProofs`, for every number of runs, every `InitialSize`, `MaxOutstanding`,
flavour, set of faults and use of handles:

* `Typing`: the type invariant.
* `Invariance`: the inductive invariant `IInv`. Its core is `BusySlotIsOwed` and
  `GenerationsDistinct`. They are not inductive by themselves: that a generation is new
  for its worker needs that the tickets for a worker all lie at or below the generation
  of the slot that holds it (`TicketWorkers`), which needs that no two slots hold the
  same worker (`SlotWorkers`); that a worker of the initial pool is not offered while it
  is in use needs `OriginalHeld`, that such a run's slot is unavailable as long as it
  holds that worker.
* `SlotsAreOwed`, `OriginalsAreExclusive`, `GenerationsTellApart`, `NoWorkerLeaks`,
  `AbortSparesTheIdle`: the properties of `pool_any`, from `IInv`.
* `GrowthIsNeeded`: when the pool grows, every slot is owed by a different run, so that
  there are no more slots than runs outstanding; the pigeonhole principle comes from the
  library's theorems about injections.
* `DisciplinedExclusive`, `DisciplinedRelease`: for the disciplined client. The pool then
  never grows, by `GrowthIsNeeded`, and every run has the worker of its slot.

`PoolLeaseProofs`, for the disciplined client:

* `DisciplinedAlive`: `AvailableIsAlive`. Inductive is `Alive`, which adds that a run that
  owes its slot to a terminated worker was dropped or panicked, and so never gives it back
  (`DeadAreKept`). An abort terminates a worker before it knows whether there will be
  another; it is the discipline (the future is dropped with the abort) that keeps the run
  from offering the dead worker.
* `DisciplinedAbortable`: `RunningIsAbortable`, because every outstanding run has its slot
  to itself, with the worker and the generation of its ticket (`OwnsSlot`).
* `DisciplinedLease`: the pool implements `WorkerLease`. The refinement maps the idle
  workers to those of available slots and the lease of a run to the worker of its ticket
  while the run is outstanding. Opening the pool stocks; a call takes; a release gives back;
  an abort that replaces the worker retires it, and one that cannot leaves it leased for
  ever.

`WorkerLeaseProofs` shows that the lease protocol keeps its promise.

`PoolMessagesProofs`, first for every client: `PoolMessages` implements `PoolExecutor`
(`MessagesRefinePool`), so that all theorems about the pool hold with the messages added, the
refinement of the lease protocol among them (`MessagesKeepLease`); and the type invariant
(`MessageTyping`), whose bound on the number of workers needs that an abort, which starts a
worker, leaves its slot available: a call must take the slot before it is aborted again, so
that the calls bound what is started (`StartsBounded`).

What callers receive is one argument, made for any set `G` of workers on which no two
outstanding runs ever meet. `Delivery(G)` is inductive for it: what is in the outbox of a
worker of `G` answers the run that has it, whose closure is installed (`FromRunning`,
`WorkingOn`); what was passed on, followed by what is in the outbox, is all the run has been
answered so far, numbered through (`Flows`); what was passed on are the run's answers
from the first on, also after the run is over (`PassedOn`); and a run is ready only when
nothing is left (`CompletesLast`). Without the exclusiveness none of this holds, as the
run `messages_misrouted` shows.
With the workers the pool was created with for `G` (exclusive for every client,
`OriginalsAreExclusive`) it gives `OriginalsGetTheirAnswers` and `OriginalsCompleteLast`,
for the disciplined client and all workers `DisciplinedOwnAnswers` and
`DisciplinedNoStray`. These four assume `Plain`, that no item is taken for the null that
ends a stream; the run `messages_null_item` shows that they are false otherwise.

`WorkerProgramProofs`, for any number of requests, any page and any failure:

* `EventsKeepOrder`: the handler is called with every request at most once and in the order
  of posting. The inductive invariant `OrderInv` says that `handled`, `queue` and `port`
  each increase, that all of `handled` comes before all of `port`, and that until the
  handler is installed all of the queue comes before the port, and nothing was handled. The
  last part is what the replay needs: `handled` is then empty, and what is replayed is a
  beginning of the queue.
* `NothingElseLost`: a queued request is handled unless one before it panics in the replay.
  The replay goes up to the first event that panics, and that there is a first one is by
  the well-foundedness of the numbers.
* `BootTyping`: the type invariant.
* `ProgramsBoot`, `ProgramsKeepBoot`: all of this holds of the workers of a program, whose
  steps are those of `WorkerBoot`.

Its second half is about the macro. Nothing there is temporal, as the function under
`#[worker]` does not change; what is hard is that the macro works on tokens and what is
promised on what they mean. The two meet in `ReadAsWritten`: a type of a documented form
matches the patterns of that form and no others, and what is in the hole is read as what the
type is about or not at all; another `impl` type may match, but is not read; no other type
matches.

* `KnownTypesAreRead`: this holds of every `Known` type. Such a type is one of the documented
  forms, in each of its spellings and with each of the contents of `WorkerMacro`; or any type
  that begins like none of the patterns (`Ordinary`), of any tokens, one token that is the
  beginning of a pattern excepted, as `zip` would take it for the pattern; or any other `impl`
  type (`OtherImpl`) that either does not begin and end like a pattern or has more
  between than any content, so that it does not parse. No two of the ten
  patterns can match the same type, because they differ in the first, the second or the
  fourth token (`PatternsApart`), so that the order in which they are tried does not matter.
* `MacroExpandsAsWritten` and `MacroExpandsDocumented`: for every set of functions whose types
  are known. `Outcome` follows the cases of `Analyze`, `ExpandsDocumented` the documented
  signatures; a signature has only one flavour (`FlavourIs`), because each of the forms
  excludes the others.

`MCWorkerProgram` assumes that its functions have known types, and TLC finds it so: of
their 67 types 50 are of the documented forms, 12 ordinary and 5 other `impl` types.

`ChannelSessionProofs`, for any number of sessions, requests, responses and aborts:

* `Invariance` and `SessionTyping`: the inductive invariant `IInv` says which messages may
  be in which queue: those of a task of the main thread belong to its session, those on the
  worker and on the way to and from it to sessions opened on it, and the end of requests
  is there only if a client of such a session has closed (`Held`, `OnWorker`); responses
  always find the closure of a session of their worker (`Installed`).
* `AbortsIsolate`: follows from it, and from `EndInv`, that only a client of a session on
  the worker ends its requests, by closing or with null data.
* `OfferedWhenClosed`: unless a proxy task of an aborted session may give back the slot at
  any time (`Strayed`), all sessions but the one that has the slot are closed, with their
  proxy tasks at an end (`SlotInv`).

It also has the lemmas on sequences whose messages of a set rise, and

* `RequestsInOrder`: the five queues between client and function rise each, and each comes
  before the next (`Pieces`), so that moving messages from one to the next keeps the order.
  That none is lost needs `Unbroken` for a session with a worker of its own: the worker's
  first message is the init data, which comes once only; the forwarder's null is the last
  message and comes when the forwarder is done without a panic; and if null data has ended
  the requests before, all that is still on its way was sent after it (`Cut`), so that what
  came before the first null is not affected.
* `ResponsesInOrder`: all responses of a worker, wherever they are, are those its function
  made, none missing up to the first that is null or refused (`Counted`), and they rise
  along every way and from one session to the next (`Sorted`). That none of these finds
  `response_tx` of its session dropped needs `Ended`: the end is posted once and last, and
  when it has arrived nothing is behind it, or a null response has dropped `response_tx`
  and whatever is still under way was made after it (`CutShort`).

`ChannelDuplexProofs` shows that every session is a `DuplexChannel`, step by step
(`SessionsAreDuplex`, and `DuplexRefinement` for what TLC checks). Before the session is
opened, once it shares or loses its worker, and if some of its data is null or refused, this
is easy; in between (`Apart`), no null but the loop's own can come (`PlainAnswers`), and
`Numbers` gives what the order leaves open: the next request the function receives is one it
has not counted (`NextRequest`), the next response is number one more than those that have
arrived (`NextResponse`), and when the end arrives all have (`AllDelivered`).

`TransferStoreProofs`, for any objects, number of messages and fields, nesting and failures,
and any implementations of the trait:

* `PostedWithOwnObjects`: what is posted has the objects of its own fields, in order, and no
  others. The assertion compares ids, so the invariant is about ids: if the store has the
  id of a call, the call is the innermost one, and what is in the store is what its fields
  list (`OwnStore`). This is kept only if an id is never given out while a call has it,
  although ids come round again. `Age` counts the ids given out since one was; a message
  begun gives out two ids at most, and the calls that have not returned have still to give
  out theirs, so that the age of each is at most twice what was begun less one per open
  call (`StoreInv`), which `IdAssumption` bounds.
* `PostedWithoutCopies` and `PostedIntact` assume that the implementations are `Lawful`:
  what a value consists of in JavaScript is listed for transfer, and for `kept` values
  nothing else is and `from_js_value` undoes `to_js_value`. The trait cannot demand this of
  the user's own implementations, and without it both are false.
* `BuiltInTypesAreLawful` says that the library's types keep that law, however they are
  nested: `LeafLawful`, `OptionLawful`, `VecLawful` and `MapLawful` for each, and an
  induction over the depth, which `BuiltIn` takes as a rank. The types TLC checks are such.
* `StoreTyping`: the type invariant.

`FlattenSeq` is a recursive function. That one satisfies its equation (`FlattenExists`,
`FlattenUnique`), and what it has for elements (`FlattenElements`), is by induction over
the numbers that are in a set (`Induction`), which follows from their well-foundedness.

The assumptions are those named in the modules: the runs are a finite set, the constants
have their types (a page's head is a sequence of links), a channel client neither
drops futures nor aborts `"careful"`, there being no future, and a future's worker may make
its one answer (`ItemsAssumption`).

Model-checked only: the liveness properties, whose proofs need reasoning about `ENABLED`.

## Not modelled

A pool is never dropped (the generated ones are thread-local), so that a handle's `Weak`
always upgrades. `ChannelSession` leaves out the outcome of `abort()` that panics with the
slot's mutex held, and init data that panics in the call of `channel`, which are in
`PoolExecutor`, and the growth of the pool. A transferable
type of the user's own whose `underlying_transfer_objects` panics or posts leaves the
store borrowed; those of the crate do neither. Out of scope: logging, the `ssr` check (it
panics before a pool exists), the names of workers, spans and error messages of the macro,
the text of the URLs, of the script and of the generated code, and the library root.
Some hazards have no property, because the code does go wrong there and nothing documents
what should happen instead; `PROJECT.json` says so at each.
