--------------------------- MODULE Notifications ---------------------------
(***************************************************************************)
(* Notifications that the peer pushes, on their way through two broadcast  *)
(* channels: from the transport to incoming_task (handles.rs), and from    *)
(* there to the streams that subscribe() returns (client.rs). Notifications*)
(* are numbered in the order they arrive.                                  *)
(***************************************************************************)
EXTENDS WsLifecycle

CONSTANTS
  Streams,               \* the streams that subscribe() may return
  MessageCapacity,       \* of the channel of incoming messages
  NotificationCapacity   \* of notification_channel

ASSUME NotificationsAssumption ==
  /\ MessageCapacity \in Nat \ {0}
  /\ NotificationCapacity \in Nat \ {0}

VARIABLES
  note,       \* how many notifications have arrived
  incoming,   \* incoming_task's receiver
  forwarded,  \* what notification_channel has been sent, in order
  stream      \* the streams, with what they have yielded

noteVars == <<note, incoming, forwarded, stream>>

-----------------------------------------------------------------------------
(* A receiver of a tokio broadcast channel: what it can still read, and    *)
(* how much was overwritten before it could. recv() reports that first.    *)

Fresh == [missed |-> 0, queue |-> <<>>]

Publish(receiver, message, capacity) ==
  IF Len(receiver.queue) < capacity
    THEN [receiver EXCEPT !.queue = Append(@, message)]
    ELSE [missed |-> receiver.missed + 1, queue |-> Append(Tail(receiver.queue), message)]

HasNews(receiver) == receiver.missed > 0 \/ receiver.queue # <<>>

AfterRecv(receiver) ==
  IF receiver.missed > 0 THEN [receiver EXCEPT !.missed = 0]
  ELSE [receiver EXCEPT !.queue = Tail(@)]

-----------------------------------------------------------------------------

Unused == [state |-> "unused", receiver |-> Fresh, start |-> 0, since |-> 0, items |-> <<>>]

InitNotes ==
  /\ note = 0
  /\ incoming = Fresh
  /\ forwarded = <<>>
  /\ stream = [s \in Streams |-> Unused]

\* A frame that is no notification: a reply, Ping, Pong, malformed.
Other == 0

\* What arrives before incoming_task has subscribed is not for it. How much
\* it misses is only logged: its receiver does not count beyond one.
Arrives(frame) ==
  LET published == Publish(incoming, frame, MessageCapacity)
  IN  incoming' = IF ~Running("incoming") THEN incoming
                  ELSE [published EXCEPT !.missed = IF @ = 0 THEN 0 ELSE 1]

\* Fault: gives the frame back unless every subscriber has room.
ForwardWaiting(frame) ==
  /\ \A s \in Streams : stream[s].state = "open" =>
       Len(stream[s].receiver.queue) < NotificationCapacity
  /\ forwarded' = Append(forwarded, frame)
  /\ stream' = [s \in Streams |->
       IF stream[s].state = "open"
         THEN [stream[s] EXCEPT !.receiver = Publish(@, frame, NotificationCapacity)]
         ELSE stream[s]]

\* handle_message on a notification: notification_channel.send, which never
\* waits; whether anybody listens does not matter.
Forward(frame) ==
  /\ forwarded' = Append(forwarded, frame)
  /\ stream' = [s \in Streams |->
       IF stream[s].state = "open"
         THEN [stream[s] EXCEPT !.receiver = Publish(@, frame, NotificationCapacity)]
         ELSE stream[s]]

\* Fault: handles every frame in a task of its own, so that they overtake.
IncomingTurnSpawning ==
  LET queue == incoming.queue
  IN  /\ Running("incoming")
      /\ incoming.missed = 0
      /\ \E n \in DOMAIN queue :
           /\ incoming' = [incoming EXCEPT
                !.queue = SubSeq(queue, 1, n - 1) \o SubSeq(queue, n + 1, Len(queue))]
           /\ Forward(queue[n])
      /\ UNCHANGED note

\* One turn of incoming_task: a frame, or the news that some were missed,
\* which is only logged.
IncomingTurn ==
  /\ Running("incoming")
  /\ HasNews(incoming)
  /\ incoming' = AfterRecv(incoming)
  /\ \/ /\ incoming.missed = 0
        /\ Head(incoming.queue) # Other
        /\ Forward(Head(incoming.queue))
     \/ /\ incoming.missed > 0 \/ Head(incoming.queue) = Other
        /\ UNCHANGED <<forwarded, stream>>
  /\ UNCHANGED note

-----------------------------------------------------------------------------
(* BidirectionalClient::subscribe *)

\* The stream borrows the client: there is none before run() or after drop.
Subscribe(s) ==
  /\ client = "running"
  /\ stream[s].state = "unused"
  /\ stream' = [stream EXCEPT ![s] = [Unused EXCEPT
       !.state = "open", !.start = Len(forwarded), !.since = note]]
  /\ UNCHANGED <<note, incoming, forwarded>>

Note(n) == [kind |-> "note", n |-> n]
Missed(n) == [kind |-> "missed", n |-> n]

\* Fault: passes over the gap, as if nothing had been sent.
YieldPassingOver(receiver) ==
  IF receiver.missed > 0 THEN <<>> ELSE <<Note(Head(receiver.queue))>>

Yield(receiver) ==
  IF receiver.missed > 0 THEN <<Missed(receiver.missed)>>
  ELSE <<Note(Head(receiver.queue))>>

\* One turn of the unfold: an item, or the end when the sender is gone with
\* WsClientInner.
Poll(s) ==
  LET receiver == stream[s].receiver
  IN  /\ stream[s].state = "open"
      /\ InnerReleased \/ HasNews(receiver)
      /\ stream' = [stream EXCEPT ![s] =
           IF InnerReleased /\ ~HasNews(receiver) THEN [Unused EXCEPT !.state = "ended"]
           ELSE [stream[s] EXCEPT !.receiver = AfterRecv(receiver),
                                  !.items = @ \o Yield(receiver)]]
      /\ UNCHANGED <<note, incoming, forwarded>>

\* The consumer drops the stream.
Close(s) ==
  /\ stream[s].state = "open"
  /\ stream' = [stream EXCEPT ![s] = [Unused EXCEPT !.state = "closed"]]
  /\ UNCHANGED <<note, incoming, forwarded>>

Borrowed == \E s \in Streams : stream[s].state = "open"
=============================================================================
