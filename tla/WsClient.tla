------------------------------ MODULE WsClient ------------------------------
(***************************************************************************)
(* The WebSocket client after WsClient::run: callers, dispatch tasks and   *)
(* transport running concurrently, and what they promise together.         *)
(***************************************************************************)
EXTENDS WsCallers, WsTasks, WsTransport

Call(c) ==
  \/ StartRequest(c) \/ StartBatch(c) \/ StartNotify(c)
  \/ Register(c)
  \/ SendOk(c) \/ SendErr(c) \/ CleanupSendError(c)
  \/ Receive(c) \/ TimerFires(c) \/ CleanupTimeout(c)
  \/ Cancel(c)

IncomingTask ==
  \/ IncomingSubscribe
  \/ IncomingLagged
  \/ IncomingRecv
  \/ Deliver("incoming")

DisconnectTask ==
  \/ DisconnectSubscribe
  \/ DisconnectLagged
  \/ DisconnectRecv
  \/ RequestsListed
  \/ \E key \in sweep.keys : FailRequest(key) \/ FailBatch(key)
  \/ RequestsFailed
  \/ BatchesListed
  \/ BatchesFailed
  \/ Deliver("disconnect")

Transport ==
  \/ Connect
  \/ Disconnect
  \/ \E c \in Calls : Transmit(c) \/ PeerAnswers(c) \/ PeerAnswersArray(c)
  \/ PeerSendsOther

Finished(c) == pc[c] \in {"done", "cancelled"}

\* Every call has ended and the client is left alone. A state in which
\* nothing can happen while a call has not ended is a deadlock.
Idle == (\A c \in Calls : Finished(c)) /\ UNCHANGED vars

Next ==
  \/ \E c \in Calls : Call(c)
  \/ IncomingTask
  \/ DisconnectTask
  \/ Transport
  \/ Idle

Spec == Init /\ [][Next]_vars

(***************************************************************************)
(* The runtime polls a task that can go on, and send() returns. Nobody has *)
(* to start a call, to drop one, to connect, to disconnect or to answer.   *)
(***************************************************************************)
CallersFair ==
  \A c \in Calls :
    /\ WF_vars(Register(c))
    /\ WF_vars(SendOk(c) \/ SendErr(c))
    /\ WF_vars(CleanupSendError(c))
    /\ WF_vars(Receive(c))
    /\ WF_vars(CleanupTimeout(c))

TasksFair == WF_vars(IncomingTask) /\ WF_vars(DisconnectTask)

TimersFair == \A c \in Calls : WF_vars(TimerFires(c))

\* The dispatch tasks may stand still: the callers' own timers must do.
TimedSpec == Spec /\ CallersFair /\ TimersFair

\* No timer is known to fire: the dispatch tasks must do.
TaskSpec == Spec /\ CallersFair /\ TasksFair

-----------------------------------------------------------------------------
(* Properties *)

Labels ==
  {"idle", "reserved", "registered", "sendOnly", "sendFailed", "awaiting",
   "timedOut", "done", "cancelled"}

Phases ==
  {"recv", "list requests", "fail requests", "list batches", "fail batches"}

Letter == [to : Calls, value : Value]

CallsType ==
  /\ currentId \in Nat
  /\ first \in [Calls -> Nat]
  /\ pc \in [Calls -> Labels]
  /\ outcome \in [Calls -> Outcome]
  /\ DOMAIN mailbox = Calls
  /\ \A c \in Calls : mailbox[c] \subseteq Value

TablesType ==
  /\ pendingRequests \in [DOMAIN pendingRequests -> Requests]
  /\ DOMAIN pendingRequests \subseteq Nat
  /\ pendingBatchRequests \in [DOMAIN pendingBatchRequests -> Batches]
  /\ DOMAIN pendingBatchRequests \subseteq Nat \X Int

TasksType ==
  /\ DOMAIN hand = Tasks
  /\ \A t \in Tasks : hand[t] \subseteq Letter
  /\ DOMAIN sweep = {"phase", "keys"}
  /\ sweep.phase \in Phases

ReceiversType ==
  /\ messages \in Receiver(Frame)
  /\ events \in Receiver(Events)

LinkType ==
  /\ connection \in Nat
  /\ connected \in BOOLEAN
  /\ stopped \in BOOLEAN
  /\ sentOn \in [Calls -> Nat]
  /\ missedDisconnect \in BOOLEAN

\* Every variable has its type: ids are natural numbers, the tables map ids
\* and ranges of ids to calls, a task holds letters to calls.
TypeOK == CallsType /\ TablesType /\ TasksType /\ ReceiversType /\ LinkType

\* The calls that take part in a request/response exchange, from the moment
\* their sender is in a table until they return.
InFlight == {c \in Calls : pc[c] \in {"registered", "sendFailed", "awaiting", "timedOut"}}

\* The answers to the entries of a call, in the order of its requests.
OwnAnswers(c) == [n \in 1 .. Size(c) |-> Answer(c, n)]

(***************************************************************************)
(* A call that returns a reply returns the answers to its own requests,    *)
(* all of them and in the order it queued them, whatever else is in        *)
(* flight, arrives late, twice, incomplete or out of order                 *)
(* (handle_message, batch_request's zip with the parsers).                 *)
(***************************************************************************)
OwnAnswer ==
  \A c \in Calls : outcome[c].tag = "reply" => outcome[c].items = OwnAnswers(c)

-----------------------------------------------------------------------------
(* The abstract specification *)

CallStage(c) ==
  IF pc[c] = "idle" THEN "idle" ELSE IF Finished(c) THEN "ended" ELSE "pending"

CallResult(c) ==
  CASE outcome[c].tag = "none yet" -> "none"
    [] outcome[c].tag = "reply" /\ outcome[c].items = OwnAnswers(c) -> "answers"
    [] outcome[c].tag = "reply" /\ outcome[c].items # OwnAnswers(c) -> "somebody else's"
    [] outcome[c].tag = "invalid" -> "refused"
    [] outcome[c].tag = "sent" -> "sent"
    [] outcome[c].tag = "no batch" ->
         IF Queued[c].notifications = 0 THEN "empty" ELSE "sent"
    [] OTHER -> "failed"

Rpc == INSTANCE RpcCalls WITH
  stage  <- [c \in Calls |-> CallStage(c)],
  taken  <- [c \in Calls |-> sentOn[c] # 0],
  result <- [c \in Calls |-> CallResult(c)]

(***************************************************************************)
(* The WebSocket client keeps the promises of RpcCalls: with tasks,        *)
(* reconnection and timers at work, no call ends twice or changes its      *)
(* mind, nothing of an ended call is sent, and a reply implies that the    *)
(* message went out.                                                       *)
(***************************************************************************)
ImplementsRpc == Rpc!RpcSpec

-----------------------------------------------------------------------------

\* Where the sender half of a call's oneshot channel is.
InTable(c) ==
  \/ \E id \in DOMAIN pendingRequests : pendingRequests[id] = c
  \/ \E key \in DOMAIN pendingBatchRequests : pendingBatchRequests[key] = c

InHand(t, c) == \E letter \in hand[t] : letter.to = c

(***************************************************************************)
(* While a caller waits, exactly one of these holds: its sender is in a    *)
(* table, or in the hand of exactly one task, or has been used and the     *)
(* caller can read the value. So rx never fails with RecvError, no answer  *)
(* is overwritten, and somebody can still wake the caller.                 *)
(***************************************************************************)
SenderInOnePlace ==
  \A c \in Calls : pc[c] = "awaiting" =>
    LET places == << InTable(c), InHand("incoming", c), InHand("disconnect", c),
                     mailbox[c] # {} >>
    IN  \E i \in DOMAIN places :
          places[i] /\ \A j \in DOMAIN places \ {i} : ~places[j]

(***************************************************************************)
(* An entry is under its own call's key, and its call has not returned: a  *)
(* call that returns leaves nothing behind, whichever way it returns. Only *)
(* a call whose future was dropped may leave its entry.                    *)
(***************************************************************************)
EntriesInFlight ==
  /\ \A id \in DOMAIN pendingRequests :
       LET c == pendingRequests[id]
       IN  id = first[c] /\ (c \in InFlight \/ pc[c] = "cancelled")
  /\ \A key \in DOMAIN pendingBatchRequests :
       LET c == pendingBatchRequests[key]
       IN  key = RangeOf(c) /\ (c \in InFlight \/ pc[c] = "cancelled")

\* The connection that took the call's message is gone.
Stranded(c) ==
  /\ sentOn[c] # 0
  /\ connected => sentOn[c] < connection

DisconnectPending == \E i \in DOMAIN events.queue : events.queue[i] = "Disconnected"

(***************************************************************************)
(* When disconnect_task has dealt with every event, no call whose          *)
(* connection is gone is left in a table: a sweep misses nobody, however   *)
(* it interleaves with registration, sending and other removals. This does *)
(* not hold once a Disconnected event has been missed.                     *)
(***************************************************************************)
NoneStranded ==
  /\ ~missedDisconnect
  /\ sweep.phase = "recv"
  /\ ~DisconnectPending
  => \A c \in Calls : Stranded(c) => ~InTable(c)

(***************************************************************************)
(* disconnect_task's documentation: in-flight requests fail on every       *)
(* disconnect. NoneStranded without its first premise.                     *)
(***************************************************************************)
EveryDisconnectFails ==
  /\ sweep.phase = "recv"
  /\ ~DisconnectPending
  => \A c \in Calls : Stranded(c) => ~InTable(c)

(***************************************************************************)
(* The text of the error, "connection lost before a response was           *)
(* received", is true of the call that returns it.                         *)
(***************************************************************************)
LostMeansLost ==
  \A c \in Calls : outcome[c] = ConnectionLost => Stranded(c)

-----------------------------------------------------------------------------

(***************************************************************************)
(* Every call that starts returns, or was dropped, even if no answer and   *)
(* no event ever reaches it (TimedSpec).                                   *)
(***************************************************************************)
CallsReturn ==
  \A c \in Calls : (pc[c] # "idle") ~> Finished(c)

(***************************************************************************)
(* Without help from the timers, a caller that waits for an answer that    *)
(* can no longer come returns, unless the event has been missed            *)
(* (TaskSpec; disconnect_task and fail_pending_requests).                  *)
(***************************************************************************)
DisconnectResolves ==
  \A c \in Calls :
    (pc[c] = "awaiting" /\ Stranded(c) /\ ~missedDisconnect) ~> Finished(c)
=============================================================================
