------------------------------ MODULE WsState ------------------------------
(***************************************************************************)
(* The state shared by the parts of the WebSocket client                   *)
(* (jsonrpc_ws_client): the calls in progress, the two tables of pending   *)
(* requests, the oneshot channels between the dispatch tasks and the       *)
(* callers, and the connection with its two broadcast channels.            *)
(*                                                                         *)
(* WsCallers (client.rs), WsTasks (handles.rs) and WsTransport (the        *)
(* stream-tungstenite library and the peer behind it, external) act on     *)
(* this state; WsClient composes them.                                     *)
(***************************************************************************)
EXTENDS Integers, Sequences, Functions

CONSTANTS
  Requests,         \* calls of Client::request
  Batches,          \* calls of Client::batch_request
  Notifies,         \* calls of Client::notify
  Queued,           \* what the BatchBuilder of each batch holds
  Cancellable,      \* calls whose future the caller may drop while it waits
  ReplyShapes,      \* the arrays a peer may answer a batch with
  MessageCapacity,  \* capacity of the channel of incoming messages
  EventCapacity,    \* capacity of the channel of connection events
  MaxConnections    \* bound: how many times the transport connects

Calls == Requests \union Batches \union Notifies

(***************************************************************************)
(* A reply shape is the sequence of the batch entries the peer answers, in *)
(* the order it answers them; 0 is an error object that carries no id.     *)
(***************************************************************************)
ASSUME CallsAssumption ==
  /\ Requests \intersect Batches = {}
  /\ Requests \intersect Notifies = {}
  /\ Batches \intersect Notifies = {}
  /\ Queued \in [Batches -> [requests : Nat, notifications : Nat]]
  /\ Cancellable \subseteq Calls

ASSUME ChannelAssumption ==
  /\ \A shape \in ReplyShapes : shape \in Seq(Nat)
  /\ MessageCapacity \in Nat \ {0}
  /\ EventCapacity \in Nat \ {0}
  /\ MaxConnections \in Nat

VARIABLES
  currentId,              \* RequestIdManager::current_id
  pc,                     \* where each call is in its async fn
  first,                  \* the first id the call has reserved
  pendingRequests,        \* DashMap: id -> the call that holds the receiver
  pendingBatchRequests,   \* DashMap: range of ids -> the call
  mailbox,                \* the oneshot channel of each call: {} or {value}
  outcome,                \* what the call returned
  hand,                   \* per task, a sender taken from a table, not yet used
  sweep,                  \* progress of fail_pending_requests
  messages,               \* incoming_task's receiver of the message channel
  events,                 \* disconnect_task's receiver of the event channel
  connection,             \* how many connections have been established
  connected,              \* whether the latest one is up
  stopped,                \* whether shutdown has been signalled
  sentOn,                 \* the connection that took the call's message, or 0
  missedDisconnect        \* history: a Disconnected event never reached its task

callVars == <<currentId, pc, first, outcome>>
tableVars == <<pendingRequests, pendingBatchRequests>>
taskVars == <<hand, sweep>>
linkVars == <<connection, connected, stopped, sentOn, missedDisconnect>>
vars == <<callVars, tableVars, mailbox, taskVars, messages, events, linkVars>>

-----------------------------------------------------------------------------
(* Ids and calls *)

\* An error response may leave out its id (JsonRpcErrorResponse::id = None).
NoId == -1

\* How many ids a call reserves.
Size(c) == IF c \in Requests THEN 1
           ELSE IF c \in Batches THEN Queued[c].requests
           ELSE 0

\* The id of the n-th request of a call.
IdOf(c, n) == first[c] + n - 1

\* The key under which a batch waits: RangeInclusive<RequestId>.
RangeOf(c) == <<first[c], IdOf(c, Size(c))>>

-----------------------------------------------------------------------------
(* Values *)

Tasks == {"incoming", "disconnect"}

\* One answer of the peer: the id it carries, and the request it answers.
Item == [id : Nat \union {NoId}, call : Calls, entry : Nat]

\* What arrives on the message channel. "other" is everything incoming_task
\* consumes without touching the tables: notifications, malformed frames,
\* Ping/Pong/Close.
Frame == [kind : {"single", "array", "other"}, items : Seq(Item)]

\* What a oneshot channel carries, and what a call returns.
Reply(items) == [tag |-> "reply", items |-> items]
Failure(tag) == [tag |-> tag, items |-> <<>>]
ConnectionLost == Failure("lost")
NotReturned == Failure("none yet")

Value == [tag : {"reply", "lost"}, items : Seq(Item)]
Outcome ==
  [tag : {"none yet", "reply", "lost", "send error", "timeout",
          "invalid", "sent", "no batch"},
   items : Seq(Item)]

-----------------------------------------------------------------------------
(***************************************************************************)
(* A receiver of a tokio broadcast channel. Nothing is seen before         *)
(* subscribing; publishing to a full queue overwrites its oldest message,  *)
(* and the next recv() reports RecvError::Lagged before it goes on.        *)
(***************************************************************************)
Unsubscribed == [subscribed |-> FALSE, lagged |-> FALSE, queue |-> <<>>]
Subscribed == [subscribed |-> TRUE, lagged |-> FALSE, queue |-> <<>>]

Overflows(receiver, capacity) == Len(receiver.queue) >= capacity

Publish(receiver, message, capacity) ==
  IF ~receiver.subscribed THEN receiver
  ELSE IF Overflows(receiver, capacity)
    THEN [receiver EXCEPT !.queue = Append(Tail(@), message), !.lagged = TRUE]
    ELSE [receiver EXCEPT !.queue = Append(@, message)]

Ready(receiver) ==
  receiver.subscribed /\ ~receiver.lagged /\ receiver.queue # <<>>

Consume(receiver) == [receiver EXCEPT !.queue = Tail(@)]

\* recv() returning Err(Lagged): the gap is reported once.
AcknowledgeLag(receiver) == [receiver EXCEPT !.lagged = FALSE]

Receiver(Message) ==
  [subscribed : BOOLEAN, lagged : BOOLEAN, queue : Seq(Message)]

-----------------------------------------------------------------------------
(* DashMap::insert and DashMap::remove *)

With(table, key, call) ==
  [k \in DOMAIN table \union {key} |-> IF k = key THEN call ELSE table[k]]

Without(table, key) == Restrict(table, DOMAIN table \ {key})

Init ==
  /\ currentId = 0
  /\ pc = [c \in Calls |-> "idle"]
  /\ first = [c \in Calls |-> 0]
  /\ pendingRequests = <<>>
  /\ pendingBatchRequests = <<>>
  /\ mailbox = [c \in Calls |-> {}]
  /\ outcome = [c \in Calls |-> NotReturned]
  /\ hand = [t \in Tasks |-> {}]
  /\ sweep = [phase |-> "recv", keys |-> {}]
  /\ messages = Unsubscribed
  /\ events = Unsubscribed
  /\ connection = 0
  /\ connected = FALSE
  /\ stopped = FALSE
  /\ sentOn = [c \in Calls |-> 0]
  /\ missedDisconnect = FALSE
=============================================================================
