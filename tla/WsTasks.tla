------------------------------ MODULE WsTasks ------------------------------
(***************************************************************************)
(* The dispatch tasks of handles.rs that share the tables of pending       *)
(* requests: incoming_task, which routes every message that arrives, and   *)
(* disconnect_task, which fails what is pending whenever the connection is *)
(* lost. Taking a sender out of a table and sending on it are two steps:   *)
(* the tasks run on different threads, and the callers on others.          *)
(***************************************************************************)
EXTENDS WsState, BatchCorrelation

\* The callers that still hold their receiver.
Listening == {c \in Calls : pc[c] \in {"registered", "sendFailed", "awaiting"}}

\* oneshot::Sender::send. The error it returns when the receiver is gone is
\* ignored by both tasks.
Deliver(t) ==
  /\ \E letter \in hand[t] :
       mailbox' = IF letter.to \in Listening
                    THEN [mailbox EXCEPT ![letter.to] = {letter.value}]
                    ELSE mailbox
  /\ hand' = [hand EXCEPT ![t] = {}]
  /\ UNCHANGED <<callVars, tableVars, sweep, messages, events, linkVars>>

TakeFor(t, c, value) ==
  hand' = [hand EXCEPT ![t] = {[to |-> c, value |-> value]}]

-----------------------------------------------------------------------------
(* incoming_task *)

IncomingSubscribe ==
  /\ ~messages.subscribed
  /\ messages' = Subscribed
  /\ UNCHANGED <<callVars, tableVars, mailbox, taskVars, events, linkVars>>

IncomingLagged ==
  /\ hand["incoming"] = {}
  /\ messages.lagged
  /\ messages' = AcknowledgeLag(messages)
  /\ UNCHANGED <<callVars, tableVars, mailbox, taskVars, events, linkVars>>

\* Fault: looks the sender up without removing the entry.
HandleSingleKeeping(items) ==
  LET id == items[1].id
  IN  IF id \in DOMAIN pendingRequests
        THEN /\ TakeFor("incoming", pendingRequests[id], Reply(items))
             /\ UNCHANGED pendingRequests
        ELSE UNCHANGED <<hand, pendingRequests>>

\* A response or an error response: pending_requests.remove(&id).
HandleSingle(items) ==
  LET id == items[1].id
  IN  IF id \in DOMAIN pendingRequests
        THEN /\ TakeFor("incoming", pendingRequests[id], Reply(items))
             /\ pendingRequests' = Without(pendingRequests, id)
        ELSE UNCHANGED <<hand, pendingRequests>>

\* Fault: removes the entry before it knows whether the range is complete,
\* and drops the sender when it is not.
HandleArrayEager(items) ==
  LET First == {key \in DOMAIN pendingBatchRequests : key[1] \in Ids(items)}
  IN  \/ \E key \in First :
           /\ IF Correlates(items, key)
                THEN TakeFor("incoming", pendingBatchRequests[key],
                             Reply(InRequestOrder(items, key)))
                ELSE UNCHANGED hand
           /\ pendingBatchRequests' = Without(pendingBatchRequests, key)
      \/ First = {} /\ UNCHANGED <<hand, pendingBatchRequests>>

\* A batch response: pending_batch_requests.remove(&range), when the ids are
\* contiguous; anything else is dropped without a trace.
HandleArray(items) ==
  LET Matching == {key \in DOMAIN pendingBatchRequests : Correlates(items, key)}
  IN  \/ \E key \in Matching :
           /\ TakeFor("incoming", pendingBatchRequests[key],
                      Reply(InRequestOrder(items, key)))
           /\ pendingBatchRequests' = Without(pendingBatchRequests, key)
      \/ Matching = {} /\ UNCHANGED <<hand, pendingBatchRequests>>

\* One turn of the loop: handle_message up to the use of the sender.
IncomingRecv ==
  /\ hand["incoming"] = {}
  /\ Ready(messages)
  /\ messages' = Consume(messages)
  /\ LET frame == Head(messages.queue)
     IN  \/ /\ frame.kind = "single"
            /\ HandleSingle(frame.items)
            /\ UNCHANGED pendingBatchRequests
         \/ /\ frame.kind = "array"
            /\ HandleArray(frame.items)
            /\ UNCHANGED pendingRequests
         \/ /\ frame.kind = "other"
            /\ UNCHANGED <<hand, tableVars>>
  /\ UNCHANGED <<callVars, mailbox, sweep, events, linkVars>>

-----------------------------------------------------------------------------
(* disconnect_task *)

DisconnectSubscribe ==
  /\ ~events.subscribed
  /\ events' = Subscribed
  /\ UNCHANGED <<callVars, tableVars, mailbox, taskVars, messages, linkVars>>

DisconnectLagged ==
  /\ sweep.phase = "recv"
  /\ events.lagged
  /\ events' = AcknowledgeLag(events)
  /\ UNCHANGED <<callVars, tableVars, mailbox, taskVars, messages, linkVars>>

\* Fault: ignores a Disconnected event when the client has reconnected since.
DisconnectRecvWhenDown ==
  /\ sweep.phase = "recv"
  /\ Ready(events)
  /\ events' = Consume(events)
  /\ sweep' = IF Head(events.queue) = "Disconnected" /\ ~connected
                THEN [phase |-> "list requests", keys |-> DOMAIN pendingRequests]
                ELSE sweep
  /\ UNCHANGED <<callVars, tableVars, mailbox, hand, messages, linkVars>>

\* A Disconnected event starts fail_pending_requests, whose first loop lists
\* the keys of pending_requests. Every other event is ignored.
DisconnectRecv ==
  /\ sweep.phase = "recv"
  /\ Ready(events)
  /\ events' = Consume(events)
  /\ sweep' = IF Head(events.queue) = "Disconnected"
                THEN [phase |-> "list requests", keys |-> DOMAIN pendingRequests]
                ELSE sweep
  /\ UNCHANGED <<callVars, tableVars, mailbox, hand, messages, linkVars>>

\* The iterator locks one shard at a time: it sees what was there when it
\* started, and any part of what was inserted since.
RequestsListed ==
  /\ sweep.phase = "list requests"
  /\ \E late \in SUBSET DOMAIN pendingRequests :
       sweep' = [phase |-> "fail requests", keys |-> sweep.keys \union late]
  /\ UNCHANGED <<callVars, tableVars, mailbox, hand, messages, events, linkVars>>

\* remove(&key): the sender is taken, if nobody took it in the meantime.
FailRequest(key) ==
  /\ sweep.phase = "fail requests"
  /\ hand["disconnect"] = {}
  /\ key \in sweep.keys
  /\ sweep' = [sweep EXCEPT !.keys = @ \ {key}]
  /\ IF key \in DOMAIN pendingRequests
       THEN /\ TakeFor("disconnect", pendingRequests[key], ConnectionLost)
            /\ pendingRequests' = Without(pendingRequests, key)
       ELSE UNCHANGED <<hand, pendingRequests>>
  /\ UNCHANGED <<callVars, pendingBatchRequests, mailbox, messages, events, linkVars>>

\* Fault: returns to the loop without failing the batches.
RequestsFailedOnly ==
  /\ sweep.phase = "fail requests"
  /\ hand["disconnect"] = {}
  /\ sweep.keys = {}
  /\ sweep' = [phase |-> "recv", keys |-> {}]
  /\ UNCHANGED <<callVars, tableVars, mailbox, hand, messages, events, linkVars>>

RequestsFailed ==
  /\ sweep.phase = "fail requests"
  /\ hand["disconnect"] = {}
  /\ sweep.keys = {}
  /\ sweep' = [phase |-> "list batches", keys |-> DOMAIN pendingBatchRequests]
  /\ UNCHANGED <<callVars, tableVars, mailbox, hand, messages, events, linkVars>>

BatchesListed ==
  /\ sweep.phase = "list batches"
  /\ \E late \in SUBSET DOMAIN pendingBatchRequests :
       sweep' = [phase |-> "fail batches", keys |-> sweep.keys \union late]
  /\ UNCHANGED <<callVars, tableVars, mailbox, hand, messages, events, linkVars>>

FailBatch(key) ==
  /\ sweep.phase = "fail batches"
  /\ hand["disconnect"] = {}
  /\ key \in sweep.keys
  /\ sweep' = [sweep EXCEPT !.keys = @ \ {key}]
  /\ IF key \in DOMAIN pendingBatchRequests
       THEN /\ TakeFor("disconnect", pendingBatchRequests[key], ConnectionLost)
            /\ pendingBatchRequests' = Without(pendingBatchRequests, key)
       ELSE UNCHANGED <<hand, pendingBatchRequests>>
  /\ UNCHANGED <<callVars, pendingRequests, mailbox, messages, events, linkVars>>

\* fail_pending_requests returns to the loop.
BatchesFailed ==
  /\ sweep.phase = "fail batches"
  /\ hand["disconnect"] = {}
  /\ sweep.keys = {}
  /\ sweep' = [phase |-> "recv", keys |-> {}]
  /\ UNCHANGED <<callVars, tableVars, mailbox, hand, messages, events, linkVars>>
=============================================================================
