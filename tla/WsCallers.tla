----------------------------- MODULE WsCallers -----------------------------
(***************************************************************************)
(* The callers' side of the WebSocket client: `impl Client for             *)
(* WsClient<Connected>` in client.rs. A call is an async fn that runs      *)
(* concurrently with the other calls and with the dispatch tasks; pc says  *)
(* between which of its steps it is.                                       *)
(***************************************************************************)
EXTENDS WsState

Advance(c, label) == pc' = [pc EXCEPT ![c] = label]

\* The receiver goes out of scope, with what may be in it.
DropReceiver(c) == mailbox' = [mailbox EXCEPT ![c] = {}]

Return(c, result) ==
  /\ Advance(c, "done")
  /\ outcome' = [outcome EXCEPT ![c] = result]
  /\ DropReceiver(c)

Continue(c, label) == Advance(c, label) /\ UNCHANGED <<outcome, mailbox>>

-----------------------------------------------------------------------------
(* Before the message is sent *)

\* Fault: takes fetch_add for an operation that returns the new value.
ReserveOffByOne(c) ==
  /\ currentId' = currentId + Size(c)
  /\ first' = [first EXCEPT ![c] = currentId - 1]

\* Fault: loads and stores the counter, so that a store may be lost.
ReserveRacing(c) ==
  /\ currentId' \in {currentId, currentId + Size(c)}
  /\ first' = [first EXCEPT ![c] = currentId]

\* fetch_add on the id counter; ids are not yet in any table.
Reserve(c) ==
  /\ currentId' = currentId + Size(c)
  /\ first' = [first EXCEPT ![c] = currentId]

\* request(): reserve_id, then the params are serialized and may be refused.
\* The id of a refused call is not given back.
StartRequest(c) ==
  /\ c \in Requests
  /\ pc[c] = "idle"
  /\ Reserve(c)
  /\ \/ Continue(c, "reserved")
     \/ Return(c, Failure("invalid"))
  /\ UNCHANGED <<tableVars, taskVars, messages, events, linkVars>>

\* batch_request(): the params were serialized when they were queued, so
\* BatchBuilder::build only reserves the ids. A batch without requests has
\* none, and there is no reply to wait for.
StartBatch(c) ==
  /\ c \in Batches
  /\ pc[c] = "idle"
  /\ \/ /\ Queued[c].requests > 0
        /\ Reserve(c)
        /\ Continue(c, "reserved")
     \/ /\ Queued[c].requests = 0
        /\ Queued[c].notifications > 0
        /\ Continue(c, "sendOnly")
        /\ UNCHANGED <<currentId, first>>
     \/ /\ Queued[c].requests = 0
        /\ Queued[c].notifications = 0
        /\ Return(c, Failure("no batch"))
        /\ UNCHANGED <<currentId, first>>
  /\ UNCHANGED <<tableVars, taskVars, messages, events, linkVars>>

StartNotify(c) ==
  /\ c \in Notifies
  /\ pc[c] = "idle"
  /\ \/ Continue(c, "sendOnly")
     \/ Return(c, Failure("invalid"))
  /\ UNCHANGED <<currentId, first, tableVars, taskVars, messages, events,
                 linkVars>>

\* The sender half goes into the table before the message is sent.
Register(c) ==
  /\ pc[c] = "reserved"
  /\ \/ /\ c \in Requests
        /\ pendingRequests' = With(pendingRequests, first[c], c)
        /\ UNCHANGED pendingBatchRequests
     \/ /\ c \in Batches
        /\ pendingBatchRequests' = With(pendingBatchRequests, RangeOf(c), c)
        /\ UNCHANGED pendingRequests
  /\ Continue(c, "registered")
  /\ UNCHANGED <<currentId, first, taskVars, messages, events, linkVars>>

-----------------------------------------------------------------------------
(* client.send(..).await *)

\* pending_requests.remove / pending_batch_requests.remove. Nothing is in the
\* table when a task has taken the sender already.
RemoveEntry(c) ==
  \/ /\ c \in Requests
     /\ pendingRequests' = Without(pendingRequests, first[c])
     /\ UNCHANGED pendingBatchRequests
  \/ /\ c \in Batches
     /\ pendingBatchRequests' = Without(pendingBatchRequests, RangeOf(c))
     /\ UNCHANGED pendingRequests

\* send() returned Ok. Nothing waits for the reply of a notification, or of
\* a batch that holds nothing else.
SendOk(c) ==
  /\ sentOn[c] # 0
  /\ \/ pc[c] = "registered" /\ Continue(c, "awaiting")
     \/ /\ pc[c] = "sendOnly"
        /\ Return(c, Failure(IF c \in Batches THEN "no batch" ELSE "sent"))
  /\ UNCHANGED <<currentId, first, tableVars, taskVars, messages, events,
                 linkVars>>

SendErr(c) ==
  /\ \/ pc[c] = "registered" /\ Continue(c, "sendFailed")
     \/ pc[c] = "sendOnly" /\ Return(c, Failure("send error"))
  /\ UNCHANGED <<currentId, first, tableVars, taskVars, messages, events,
                 linkVars>>

\* Fault: returns the error without removing the entry.
CleanupSendErrorLeaving(c) ==
  /\ pc[c] = "sendFailed"
  /\ Return(c, Failure("send error"))
  /\ UNCHANGED <<currentId, first, tableVars, taskVars, messages, events, linkVars>>

CleanupSendError(c) ==
  /\ pc[c] = "sendFailed"
  /\ RemoveEntry(c)
  /\ Return(c, Failure("send error"))
  /\ UNCHANGED <<currentId, first, taskVars, messages, events, linkVars>>

-----------------------------------------------------------------------------
(* time::timeout(timeout, rx).await *)

Receive(c) ==
  /\ pc[c] = "awaiting"
  /\ \E value \in mailbox[c] : Return(c, value)
  /\ UNCHANGED <<currentId, first, tableVars, taskVars, messages, events,
                 linkVars>>

\* Fault: only the calls that are still in a table time out.
TimerFiresFromTable(c) ==
  /\ pc[c] = "awaiting"
  /\ mailbox[c] = {}
  /\ first[c] \in DOMAIN pendingRequests \/ RangeOf(c) \in DOMAIN pendingBatchRequests
  /\ Continue(c, "timedOut")
  /\ UNCHANGED <<currentId, first, tableVars, taskVars, messages, events, linkVars>>

\* timeout() polls the receiver before the timer. The receiver is dropped
\* here; the entry is removed in a step of its own.
TimerFires(c) ==
  /\ pc[c] = "awaiting"
  /\ mailbox[c] = {}
  /\ Continue(c, "timedOut")
  /\ UNCHANGED <<currentId, first, tableVars, taskVars, messages, events,
                 linkVars>>

\* Fault: returns the error without removing the entry.
CleanupTimeoutLeaving(c) ==
  /\ pc[c] = "timedOut"
  /\ Return(c, Failure("timeout"))
  /\ UNCHANGED <<currentId, first, tableVars, taskVars, messages, events, linkVars>>

CleanupTimeout(c) ==
  /\ pc[c] = "timedOut"
  /\ RemoveEntry(c)
  /\ Return(c, Failure("timeout"))
  /\ UNCHANGED <<currentId, first, taskVars, messages, events, linkVars>>

\* The caller drops the future at one of its two await points (select!, an
\* outer timeout). No line of the function runs any more: its locals are
\* dropped, its entry stays.
Cancel(c) ==
  /\ c \in Cancellable
  /\ pc[c] \in {"registered", "awaiting"}
  /\ Advance(c, "cancelled")
  /\ DropReceiver(c)
  /\ UNCHANGED <<currentId, first, outcome, tableVars, taskVars, messages,
                 events, linkVars>>
=============================================================================

