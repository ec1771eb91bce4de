---------------------------- MODULE BatchBuilder ----------------------------
(***************************************************************************)
(* BatchBuilder (jsonrpc_core): each batch queues requests and             *)
(* notifications, and build() turns the queues into the items that are     *)
(* sent and the parsers of their replies, with ids from the shared         *)
(* counter. A queued thing is its params; a parser is named after the      *)
(* params of the request it was queued with.                               *)
(***************************************************************************)
EXTENDS RequestIds, Outgoing

CONSTANTS
  Batches,      \* the batches that are built
  MaxQueued     \* bound: how many requests and notifications a batch queues

ASSUME QueueAssumption == MaxQueued \in Nat

VARIABLES
  requests,       \* BatchBuilder::requests of each batch
  notifications   \* BatchBuilder::notifications of each batch

queueVars == <<requests, notifications>>

InitQueues ==
  /\ requests = [b \in Batches |-> <<>>]
  /\ notifications = [b \in Batches |-> <<>>]

Room(b) == Len(requests[b]) + Len(notifications[b]) < MaxQueued

\* serialize_params decides; a refused request is not queued.
AddRequest(b, p) ==
  /\ Room(b)
  /\ requests' = IF Acceptable(p)
                   THEN [requests EXCEPT ![b] = Append(@, p)]
                   ELSE requests
  /\ UNCHANGED notifications

AddNotification(b, p) ==
  /\ Room(b)
  /\ notifications' = IF Acceptable(p)
                        THEN [notifications EXCEPT ![b] = Append(@, p)]
                        ELSE notifications
  /\ UNCHANGED requests

-----------------------------------------------------------------------------
(* build() *)

NothingQueued(b) == requests[b] = <<>> /\ notifications[b] = <<>>

NoRange == <<>>

\* The request items: the queue zipped with the ids of the range. Nothing is
\* left of the zip when the range is inverted.
RequestItems(queue, range) ==
  [n \in 1 .. (IF range[1] <= range[2] THEN Len(queue) ELSE 0) |->
     Request(range[1] + n - 1, queue[n])]

NotificationItems(queue) == [n \in DOMAIN queue |-> Notification(queue[n])]

\* Fault: the notifications of the batch come first.
BuiltNotificationsFirst(b, start) ==
  LET range == RangeFrom(start, Len(requests[b]))
      queue == [n \in 1 .. Len(requests[b]) |->
                  (notifications[b] \o requests[b])[n]]
      sent  == IF requests[b] = <<>> THEN <<>> ELSE RequestItems(queue, range)
  IN  [range   |-> IF requests[b] = <<>> THEN NoRange ELSE range,
       items   |-> sent \o NotificationItems(notifications[b]),
       parsers |-> [n \in DOMAIN sent |-> requests[b][n]]]

\* Batch { request_id_range, parsers, items } for ids reserved from start on.
Built(b, start) ==
  LET range == RangeFrom(start, Len(requests[b]))
      sent  == IF requests[b] = <<>> THEN <<>> ELSE RequestItems(requests[b], range)
  IN  [range   |-> IF requests[b] = <<>> THEN NoRange ELSE range,
       items   |-> sent \o NotificationItems(notifications[b]),
       parsers |-> [n \in DOMAIN sent |-> requests[b][n]]]
=============================================================================
