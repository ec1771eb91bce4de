# TLA+ models of jsonrpc-2-rs

TLA+ specifications of the JSON-RPC 2.0 client libraries in this repository,
TLC configurations that check them on small instances, and proofs of their
main properties that TLAPS checks for every instance. File references are to
the sources as `src/<crate>/src/<file>.rs`; `PROJECT.json` maps each
definition to the lines it models.

## The system

| Component | State | Operations |
|---|---|---|
| WebSocket client, callers (`jsonrpc_ws_client/client.rs`) | the call's locals: id or range, oneshot receiver, timer | `request`, `notify`, `batch_request`, `subscribe` |
| WebSocket client, shared (`WsClientInner`) | `pending_requests`, `pending_batch_requests` (DashMaps of oneshot senders), id counter, notification channel | inserted into by callers, removed from by callers and both dispatch tasks |
| `incoming_task`, `handle_message` (`handles.rs`) | a receiver of the message channel, the sender it has just taken | routes replies to callers, notifications to subscribers |
| `disconnect_task`, `fail_pending_requests` | a receiver of the event channel, the list of keys of a sweep | fails what is pending on every `Disconnected` |
| `management_task` | ticker, a receiver of the message channel | pings, logs |
| notification streams (`subscribe`) | a receiver of the notification channel each | yield, report a gap, end |
| life cycle (builder, `run`, `shutdown`, `Drop`) | the typestate, four join handles, the `Arc`s of `WsClientInner` | spawns and aborts the tasks |
| transport (`stream-tungstenite`, external) | connection, two broadcast channels | connect, reconnect, send, publish |
| `RequestIdManager` (`jsonrpc_core`) | an `AtomicU64` | `reserve_id`, `reserve_range`, `reset` |
| `BatchBuilder` | two queues | `add_request`, `add_notification`, `build` |
| outgoing items (`protocol.rs`, `params.rs`) | none | `try_new`: which params are accepted |
| decoder (`decode.rs`) | none | `try_from`, `decode_single_response` |
| error codes (`error.rs`) | none | `JsonRpcErrorCode` from and into an `i64` |
| `HttpClient` (`jsonrpc_http_client`) | id counter | one POST per call |
| traits `Client`, `BidirectionalClient` | none | what callers are promised |
| CLI, umbrella crate | none | |

Interaction: callers put a oneshot sender into a table, give the message to
the transport and wait. The transport publishes what arrives on a broadcast
channel; `incoming_task` takes the sender out and answers. Events arrive on
another channel; `disconnect_task` takes all senders out and fails them. The
tables are shared without any lock around two operations, all tasks run on
several threads, and each broadcast channel may overwrite what a slow
receiver has not read. Notifications go through two such channels, from the
transport to `incoming_task` and from there to the streams. Every task holds
an `Arc` of what the client shares, and a dropped client can only ask the
tasks to stop. An `HttpClient` shares nothing but its id counter.

What is hard here: a sender has three possible consumers (its caller giving
up, a reply, a sweep); the sweep is not atomic and runs some time after the
connection it belongs to, perhaps on the next one; subscription happens
inside the spawned tasks; replies come late, twice, incomplete, out of order
or never; notifications are lost at two places, of which one is reported;
a task is aborted wherever it happens to be. `PROJECT.json` lists the hazards with their lines.

What makes each part correct: a call gets the answers to its own requests, or
an error, once, and in order; nothing is left behind when it returns; it
returns even if no answer comes, and soon if none can come any more; no peer
can make the correlation panic; ids do not overlap; a message is what its
members say it is, whatever a peer leaves out or sends as null; a stream
accounts for every notification that was forwarded; a dropped client is gone;
pings go on, and never in a burst.

## Modules

```
WsState ─┬─ WsCallers ───┐
         ├─ WsTransport ─┼─ WsClient ── WsClientProofs ── WsAnswerProofs ── WsRpcProofs ── WsPlaceProofs
         └─ WsTasks ─────┘     │ │
               │               │ └─ MCWsRequests, MCWsBatches, MCWsLiveness
               │               └── implements RpcCalls
       BatchCorrelation ─┬─ HttpCorrelate ─┬─ Correlate ── CorrelateProofs (with DataInduction)
                         ├─ WsCorrelate ───┘      └─ MCCorrelate
Decode, ErrorCodes ──────┤   (HttpCorrelate)
                         └─ HttpClient ── HttpClientProofs
RequestIds, Outgoing ─ BatchBuilder ┘ │ └─ MCHttpClient
                                      └── implements RpcCalls
WsLifecycle ─┬─ Notifications ─┬─ WsSession ── SessionProofs (with DataInduction)
             └─ Keepalive ─────┘      └─ MCSession
```

- **WsState**: the variables, the values that travel, broadcast receivers
  (`Publish`, `Consume`, `AcknowledgeLag`) and table operations. `mailbox[c]`
  is the oneshot channel of call `c`. `hand[t]` is a sender that task `t` has
  taken out of a table and not yet used: `remove` and `send` are two steps of
  the code, and callers run in between.
- **WsCallers**: `pc[c]` names the point a call has reached. `reserved`: ids
  taken, no entry yet. `registered`: entry inserted, `send().await`.
  `awaiting`: `timeout(rx).await`. `sendFailed`, `timedOut`: the error is
  known, the entry not yet removed. `Cancel` drops the future at an await.
- **WsTasks**: one action per turn of a loop. The sweep is `DisconnectRecv`,
  `RequestsListed`, `FailRequest` per key, `RequestsFailed`, and the same for
  batches. A DashMap iterator sees what was there when it started and any
  part of what came later; `RequestsListed` chooses that part.
- **WsTransport** (external): connections are numbered, `sentOn[c]` is the one
  that took the message of `c`, and only its peer answers. The peer may answer
  any number of times, single entries of a batch, arrays of any shape
  (`ReplyShapes`), or with null ids. Stopping the client through
  `get_websocket_client().shutdown()` is a `Disconnect` after which nothing
  reconnects; `WsClient::shutdown` takes the client by value, so no call is
  in flight then.
- **WsClient**: composition, fairness, properties. Once every call has ended
  it may stutter (`Idle`), so deadlock checking stays on and a state in which a
  call is stuck with nothing enabled is an error.
- **RpcCalls** is the abstract specification of the trait `Client`: the
  message of a call is taken at most once and not after the call has ended, a
  call ends once, and with answers only if they are its own and the message
  was taken. `WsClient` and `HttpClient` instantiate it with the refinement
  mappings `CallStage`, `CallResult` and `sentOn[c] # 0` or
  `status[c] # "none"`. An answer to somebody else's request maps to a result
  that RpcCalls does not have.
- **BatchCorrelation**: which arrays answer which range, and in what order
  their items are placed, with sets. **WsCorrelate** and **HttpCorrelate** are
  the algorithms of the two clients as they are written. HttpCorrelate takes
  a message from the wire through the decoder to the slots; **Correlate** hands
  the items it finds to both and compares. WsTasks and HttpClient use the sets;
  the run `correlate` and CorrelateProofs show that the algorithms compute the
  same.
- **Decode** classifies an object by its members. A member is absent, null or
  there; an id may be of a foreign type; a text may contain an escape sequence,
  because `&str` fields can only borrow a text that does not. **ErrorCodes**
  is the mapping of codes to variants and back.
- **RequestIds**, **Outgoing**, **BatchBuilder**: the counter with its width,
  which params are accepted, and what `build` makes of the queues. `WsClient`
  has ids of unbounded width instead and summarises a builder as `Queued[b]`.
- **HttpClient**: two await points per call at most, `send()` (`sending`) and
  `bytes()` (`reading`). `Bodies` is everything an exchange may return, from
  error pages to mixtures of the answers to other calls; each goes through
  `Decode`. A future dropped at either point leaves nothing behind that another
  call could see, so there is no action for it.
- **WsLifecycle**: the typestate of the client and the four tasks. `Abort` is
  one `JoinHandle::abort`, after which the task may go on to its next await
  (`aborting`) unless it was never polled; `Cancelled` is the runtime dropping
  it. `InnerReleased` says that no `Arc` of `WsClientInner` is left.
- **Notifications**: notifications are numbered. `incoming` is the receiver of
  `incoming_task`, `forwarded` everything the notification channel has been
  sent, `stream[s]` a subscriber with its receiver and what it has yielded.
- **Keepalive**: `due` counts down to the next tick and may be late by
  `MaxLate`; `quiet` is the time since the last one. `Tick` starts a ping and
  `PingReturns` ends it; in between the task does nothing else.
- **WsSession** composes the three, with frames that go to both tasks that
  read messages, and a handle that can only be dropped when no stream borrows
  it. Replies and sweeps are in `WsClient`, not here.

A successful reply is as far as the WebSocket model goes: parsing it into the
caller's type, which may fail, touches nothing shared. Definitions marked
`Fault` are variants with a plausible bug. No specification uses them; they
are there to see that the properties notice.

## Runs

| Run | Instance | Shows |
|---|---|---|
| `ws_requests` | 2 requests (one may be dropped), 2 connections, message channel of 1, event channel of 2 | `SenderInOnePlace`, `EntriesInFlight`, `NoneStranded`, `ImplementsRpc` |
| `ws_batches` | 1 request, 1 batch of 2, 1 connection, message channel of 2, event channel of 1 | `TypeOK`, `OwnAnswer`, `SenderInOnePlace`, `EntriesInFlight` |
| `ws_disconnect` | 1 request, 1 batch, no fair timer | `DisconnectResolves` |
| `ws_timeouts` | any two of: a request, a batch with a request, a notification, a batch of notifications, an empty batch; no fair task | `CallsReturn` |
| `correlate` | all arrays of up to 4 answers with ids 0..4 or none, for ranges of 1 to 4; all objects with any combination of members, alone and in arrays | `NeverPanics`, `AcceptsExactly`, `PlacedInOrder`, `TakenForWhatItIs`, `BatchMeansItsItems`, `CodesRoundTrip`, `WindowsDecide`, `WsPlaces`, `OverflowNeedsRepetition` |
| `http` | 2 requests, 1 batch of up to 2, 1 notification, a counter of 3 values, params of every kind | `IdsUnique`, `OwnReply`, `NothingLeftOut`, `RepliesFromSuccess`, `ImplementsRpc` |
| `session` | 1 stream, a message channel of 2, a notification channel of 1, an interval of none, 0 or 2, ticks up to 2 late; 3 notifications without pings, 1 with | `GapsReported`, `ArrivalOrder`, `SlowStreamsDoNotBlock`, `DropReleases`, `DropIsFinal`, `PingsSpaced`, `KeepsPinging` |
| `v_stale`, `v_missed`, `v_escape`, `v_silent`, `v_stream_end` | | five statements of the documentation that the code does not keep |

Why the bounds are enough. In `ws_timeouts` any two of five calls run
(`AtMostTwoStart`, an action constraint): starting a call is never fair, so no
step that must happen is taken away, and what the run asks is of one call at a
time, next to another. Elsewhere, two calls are the fewest that can receive each
other's answer; two connections the fewest with a reconnection, so that a
sweep of the first can meet calls of the second. Channels of one or two slots
overflow in every run, so lag happens. A batch of two has an order to get
wrong, gaps and repetitions, and its neighbour request has the adjacent id.
The correlation is also checked on its own up to four items. In `http` the
batch and the requests need up to four ids of a counter with three, so both
sides of the wrap are reached. `correlate` gives the decoder every combination
of absent, null, well-formed, foreign and escaped members that its code tells
apart, alone and in arrays with a valid neighbour. In `session` the channel
to `incoming_task` holds two frames (`MessageCapacity`), so that there is an
order to get wrong, and the one to the streams one (`NotificationCapacity`);
both lag with three notifications (`MaxNotes`; the run uses one when it pings,
for the pings do not look at notifications). `Backlog` bounds what waits for `management_task`, and
`MaxLate` lets a tick be late by as much as the interval of 2, which is when a
burst would follow. An interval of 0 panics in `tokio::time::interval`.

Liveness and fairness. Callers are fair in the steps the runtime polls them
for, and `send()` is assumed to return (`SendOk(c) \/ SendErr(c)`): it is
external, and a call has no timer before its `send().await` is over. The two
liveness runs split what wakes a caller: `TimedSpec` makes the timers fair and
no task, `TaskSpec` the tasks and no timer. Tokio polls tasks and timers that
are ready, which is all that weak fairness says. Connecting, disconnecting,
answering, starting and cancelling a call are never fair. `TimerFires`
requires an empty mailbox because `timeout` polls the receiver first.

`FairSpec` of `WsSession` says that the runtime polls a task that is spawned
or can go on, drops one that was aborted, that `Drop` runs to its end and that
time passes; `select!` tries its branches in random order, so a tick that stays
ready is taken, however many messages are. Nobody has to connect, send, poll a
stream or drop the client, and the send of a Ping need not return. `PolledSpec`
adds consumers that poll and a transport that stops when it is told to: with
all of that a stream still does not end (`v_stream_end`).

The refinements (`ImplementsRpc` in `ws_requests` and `http`) are of safety:
`RpcCalls` has no fairness, and that calls return is `CallsReturn`, for the
WebSocket client, which has a timeout on every call. The HTTP client has one
only if it is given one.

### What the violations show

- `v_stale` (`LostMeansLost`). The sweep fails every entry, and it runs some
  time after the event. A call registered or sent after the client has
  reconnected is failed with "connection lost before a response was received"
  although its connection is up and the peer may be carrying it out.
- `v_missed` (`EveryDisconnectFails`). "Fail promptly on every disconnect"
  does not hold for a `Disconnected` that was published before
  `disconnect_task` subscribed, or overwritten while it lagged. `NoneStranded`
  is the same statement with missed events excluded, and holds.
- `v_escape` (`SerdeErrorMeansMalformed`). `ProbeError` borrows its message
  from the input (`decode.rs:158-159`), and a JSON string with an escape
  sequence in it cannot be borrowed. A valid error object whose message
  contains a quote or a line break is refused as if it were not JSON. The
  messages of the run are the complete responses to a batch of two
  (`MCCompleteResponses`): one such error loses both items.
- `v_silent` (`NothingLostSilently`). A stream reports what the notification
  channel loses. What the message channel loses before it, because
  `incoming_task` has not subscribed yet or lags, no stream reports.
- `v_stream_end` (`EndsWithConnection`). The sender of the notification channel
  is part of what the client owns and the stream borrows, so the channel never
  closes while a stream can look.

Two more statements of the documentation are known not to hold, and have no
run because one line shows it: both clients return `Ok(None)` also for a batch
that holds nothing but notifications (`jsonrpc_core/src/client.rs:39` says only
when nothing was queued), and `notify` over HTTP returns `Ok` for a response
that is not 2xx.

`EntriesInFlight` exempts cancelled calls: a caller that drops its future
leaves its entry in the table until a reply or a sweep takes it.

## Proofs

All proofs are for arbitrary sets of calls, sizes of batches, capacities and
bounds, from the named assumptions of the modules (the sets of calls are
disjoint, `Queued` gives natural numbers, capacities are positive, `Modulus`
is positive, the messages of `HttpCorrelate` are sequences of objects whose ids
are at most `MaxId`).

- `TypeCorrect` (WsClientProofs): `Spec => []TypeOK`. `TypeOK` is inductive;
  one lemma per conjunct group and action.
- `OwnAnswerHolds` (WsAnswerProofs): `Spec => []OwnAnswer`. Not inductive by
  itself. `AnswerInv` follows an answer on its way: ids reserved by different
  calls do not overlap (`IdsReserved`, `IdsApart`), a table key belongs to the
  call under it (`KeysOwn`), only calls that have ids are sent (`SentStarted`),
  every item in a frame is the genuine answer to the request whose id it
  carries (`FramesGenuine`), and hence what is in a hand, a mailbox and an
  outcome is right (`HandsRight`, `MailboxesRight`, `OutcomesRight`).
- `SlotsNeverEmpty` (CorrelateProofs): `Spec => []NeverPanics`. The
  invariant counts: as many slots are filled as items were placed. At the end
  that is as many as there are slots, so none is empty.
- `IdsAreUnique` (HttpClientProofs): `Spec => []IdsUnique`. Until the counter
  has gone round, the i-th id handed out is i - 1.
- `CodesSurvive` (CorrelateProofs): `Spec => []CodesRoundTrip`, for every
  integer, from the arms of the two matches.
- `SendersInOnePlace` and `NoEntryLeftBehind` (WsPlaceProofs): `Spec =>
  []SenderInOnePlace` and `Spec => []EntriesInFlight`. Both need to know where
  a sender is *not*: `PlacesRight` says that one in a hand is in no table and in
  no other hand, that a value in the mailbox excludes all three, and that a call
  which has returned is in no table. `HandsSingle` and `ExchangesHaveIds` close
  the induction, and the step that removes an entry needs `AnswerInv`: under the
  key of a call there is nobody else's sender, because no id is handed out twice.
- `NobodyStranded` (WsPlaceProofs): `Spec => []NoneStranded`. `StrandedCovered`
  says what is still going to reach a stranded entry: a `Disconnected` in the
  channel; or a sweep that has its key on the list; or, for a batch, one that
  has not begun with the batches. The proof shows where the order of the code
  matters: an entry is made before its message is sent, so nothing that is
  registered behind the back of a sweep is stranded (`PhasesRight`); and
  `LinkRight` says that the message of a call never belongs to a later
  connection, and that there are no events before the subscription.
- `ClientImplementsRpc` (WsRpcProofs): `Spec => ImplementsRpc`. Each step of a
  call is a step of the abstract call or a stutter. `PhasesRight` relates how
  far a call is to its message and its outcome; that a reply maps to `answers`
  and never to somebody else's is `AnswerInv`.
- `PingsAreSpaced` (SessionProofs): `Spec => PingsSpaced`. The invariant
  `SpacedInv` says that the last ping is an interval ago, or the time since it
  and the time to the next tick together are at least the interval.

- `LoopAcceptsExactly` and `LoopPlacesInOrder` (CorrelateProofs): `Spec =>
  []AcceptsExactly` and `Spec => []PlacedInOrder`. The loop looks at one item at
  a time and the specification at the set of ids; `PlacedRight` (every item
  before `next` is in the slot of its id, and no id came twice) and
  `VerdictRight` (what each early return has found out) connect the two. That a
  response with the wrong count is none of the accepted ones is a bijection
  between positions and ids.
- `ObjectsAreTakenRight` and `BatchesAreTheirItems` (CorrelateProofs):
  `Spec => []TakenForWhatItIs` and `Spec => []BatchMeansItsItems`, for arrays of
  any length and all ids. They follow from the decoder's definitions and the
  shape of the messages; no induction is needed.
- `OnlySuccessReplies`, `BatchesAreWhole` and `OwnRepliesOnly`
  (HttpClientProofs): `Spec => []RepliesFromSuccess`, `Spec =>
  []NothingLeftOut`, `Spec => []OwnReply`. `ProgressInv` says what the point a
  call has reached means for its message, status and outcome. `MessagesRight`
  says that, until the ids go round, the range a call has POSTed is its own and
  its n-th item carries the n-th id of it, so an object with that id can only be
  the answer to that item (`GenuineIsOwn`), whichever body it comes in.
- `HttpImplementsRpc` (HttpClientProofs): `Spec => ImplementsRpc` of the HTTP
  client. `Seen` is how an outcome appears to `RpcCalls`; that a reply is never
  seen as somebody else's is `OwnReply`.

What follows is about sequences of any length and needs induction over them.
**DataInduction** gets it from the well-foundedness of `<` on the natural
numbers: a set that holds 0 and the successor of each of its members below `n`
holds `0 .. n` (`InductionUpTo`, by the least number that is missing), and a
function whose value at each place comes from the one before exists (`Loop`).
With the second, the recursive functions of the models (`IdsOf`, `Placed`,
`Counted`) can be reasoned about, as a `CHOOSE` that has something to choose.
`SortingOrder` shows by insertion that every finite sequence of numbers has a
sorted order, so that `SortedIds`, which says nothing of the method, is what
any correct sort returns.

- `WindowsDecideAlways`, `WsPlacesAlways`, `OverflowMeansRepetition`
  (CorrelateProofs): `Spec => []WindowsDecide`, `Spec => []WsPlaces`, `Spec =>
  []OverflowNeedsRepetition`. The collected ids enumerate the numbered items
  (`IdsOfEnumerates`), sorting keeps that (`SortedIdsAre`), neighbours that
  differ by one make a range (`ContiguousIsRange`, `RangeCorrelates`), and ids
  that are exactly a range leave no gap between neighbours
  (`CorrelatesIsRange`). The placing loop has put the items before `n` into
  their slots after `n` turns (`PlacedInRequestOrder`).
- `CorrelationByRange` (CorrelateProofs) is what `HandleArray` of WsTasks relies
  on, for any set of waiting batches: the algorithm and the sets of
  BatchCorrelation find the same entry and the same order.
- `LoopAgreesWithSorting` (CorrelateProofs): the two clients, by two algorithms,
  accept the same responses, but for items without an id, and place them alike.
- `EveryGapReported` (SessionProofs): `Spec => []GapsReported`. `Accounts` adds
  what makes it inductive: the queue of a receiver holds the last part of what
  was forwarded, so that what is overwritten is the next that the stream would
  have had, and what a gap counts is exactly that (`AccountsPublish`,
  `AccountsYield`). Streams do not disturb each other (`OneStream`).
- `ArrivalOrderKept` (SessionProofs): `Spec => []ArrivalOrder`. `InOrder` runs
  through both channels: what was forwarded rises, the notifications in the
  queue of `incoming_task` rise and are later than all that was forwarded, and
  none is later than the last that arrived. With `Accounts`, a later item of a
  stream is a later one of what was forwarded.
- `DroppedForGood` (SessionProofs): `Spec => DropIsFinal`. `LifeRight` says what
  Drop has done so far: the tasks it has passed in `AbortOrder` are aborting or
  gone, and a connection needs a run task. After the last abort no step starts
  a task again.

Only model-checked: liveness under fairness (`CallsReturn`,
`DisconnectResolves`, `SlowStreamsDoNotBlock`, `DropReleases`, `KeepsPinging`),
because the provers do not know `ENABLED`. Its safety parts are proved:
`NoneStranded` and `DropIsFinal`.

## Plan

1. Done: WebSocket core, batch correlation, ids and builder, HTTP client.
2. Done: decoder and error codes, outgoing items, `RpcCalls` with both
   refinements, life cycle, notifications, keepalive and their composition.
3. Done: proofs of every safety property and action property that a run checks,
   and of both refinements.
4. Left: the safety half of `SlowStreamsDoNotBlock` (what a turn of
   `incoming_task` needs), and a theorem that relates `NotificationsMissed` to
   the capacity of the channel.

## Not modelled

- The command line client, which makes one call through a client and prints
  the result, and the umbrella crate, which re-exports.
- JSON text and what serde does with it, beyond what the decoder's code
  depends on (absent against null, borrowed texts); the parsing of a result
  into the caller's type, and `DowncastResponse`, which touch nothing shared.
- Method ids, versions beyond the check, the texts of errors, profiling
  attributes, logging.
- The inside of the transport (reconnection policy, frames, TLS): modelled
  from how `handles.rs` and `client.rs` use it.
- `RequestIdManager::reset` and `current_id`, which no client calls; memory
  orderings of the counter, which is only ever touched by single atomic
  operations.
