---------------------------- MODULE WsTransport ----------------------------
(***************************************************************************)
(* What the WebSocket client runs on: the WebSocketClient of the           *)
(* stream-tungstenite library, which connects, reconnects and fans out     *)
(* what happens on two broadcast channels, and the peer behind it. Both    *)
(* are external; their actions allow everything the code in handles.rs and *)
(* client.rs is written to expect of them.                                 *)
(***************************************************************************)
EXTENDS WsState

\* ConnectionEvent, for an event that is still in disconnect_task's channel.
Events == {"Connected", "Disconnected"}

PublishEvent(event) ==
  /\ events' = Publish(events, event, EventCapacity)
  /\ missedDisconnect' =
       \/ missedDisconnect
       \/ event = "Disconnected" /\ ~events.subscribed
       \/ /\ events.subscribed
          /\ Overflows(events, EventCapacity)
          /\ Head(events.queue) = "Disconnected"

PublishMessage(kind, items) ==
  messages' = Publish(messages, [kind |-> kind, items |-> items], MessageCapacity)

Connect ==
  /\ ~connected
  /\ ~stopped
  /\ connection < MaxConnections
  /\ connected' = TRUE
  /\ connection' = connection + 1
  /\ PublishEvent("Connected")
  /\ UNCHANGED <<callVars, tableVars, mailbox, taskVars, messages, stopped, sentOn>>

\* The connection is lost, or get_websocket_client().shutdown() stops it for good.
Disconnect ==
  /\ connected
  /\ connected' = FALSE
  /\ stopped' \in {stopped, TRUE}
  /\ PublishEvent("Disconnected")
  /\ UNCHANGED <<callVars, tableVars, mailbox, taskVars, messages, connection, sentOn>>

\* The connection takes the message a call is sending. The call may learn of
\* it later than the peer.
Transmit(c) ==
  /\ pc[c] \in {"registered", "sendOnly"}
  /\ sentOn[c] = 0
  /\ connected
  /\ sentOn' = [sentOn EXCEPT ![c] = connection]
  /\ UNCHANGED <<callVars, tableVars, mailbox, taskVars, messages, events,
                 connection, connected, stopped, missedDisconnect>>

-----------------------------------------------------------------------------
(* The peer *)

Answer(c, n) ==
  [id |-> IF n = 0 THEN NoId ELSE IdOf(c, n), call |-> c, entry |-> n]

CanAnswer(c) == connected /\ sentOn[c] = connection

\* One response or error response: to the request itself, to one entry of a
\* batch, or (0) an error whose id is null. It may come more than once.
PeerAnswers(c) ==
  /\ CanAnswer(c)
  /\ Size(c) > 0
  /\ \E n \in 0 .. Size(c) : PublishMessage("single", <<Answer(c, n)>>)
  /\ UNCHANGED <<callVars, tableVars, mailbox, taskVars, events, linkVars>>

\* An array of responses, in any order, possibly incomplete or with repetitions.
PeerAnswersArray(c) ==
  /\ CanAnswer(c)
  /\ \E shape \in ReplyShapes :
       /\ \A i \in DOMAIN shape : shape[i] <= Size(c)
       /\ PublishMessage("array", [i \in DOMAIN shape |-> Answer(c, shape[i])])
  /\ UNCHANGED <<callVars, tableVars, mailbox, taskVars, events, linkVars>>

PeerSendsOther ==
  /\ connected
  /\ PublishMessage("other", <<>>)
  /\ UNCHANGED <<callVars, tableVars, mailbox, taskVars, events, linkVars>>
=============================================================================
