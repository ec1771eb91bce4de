--------------------------- MODULE WsClientProofs ---------------------------
(***************************************************************************)
(* Proofs about the WebSocket client (WsClient), for any number of         *)
(* requests, batches, connections and channel capacities.                  *)
(***************************************************************************)
EXTENDS WsClient, TLAPS

-----------------------------------------------------------------------------
(* Receivers *)

LEMMA PublishType ==
  ASSUME NEW Message, NEW r \in Receiver(Message), NEW m \in Message,
         NEW capacity \in Nat \ {0}
  PROVE  Publish(r, m, capacity) \in Receiver(Message)
<1>1. CASE ~r.subscribed
  BY <1>1 DEF Publish
<1>2. CASE r.subscribed /\ Overflows(r, capacity)
  <2>1. r.queue \in Seq(Message) /\ r.queue # <<>>
    BY <1>2 DEF Overflows, Receiver
  <2>2. Append(Tail(r.queue), m) \in Seq(Message)
    BY <2>1
  <2> QED
    BY <1>2, <2>2 DEF Publish, Receiver
<1>3. CASE r.subscribed /\ ~Overflows(r, capacity)
  BY <1>3 DEF Publish, Receiver
<1> QED
  BY <1>1, <1>2, <1>3

LEMMA ConsumeType ==
  ASSUME NEW Message, NEW r \in Receiver(Message), Ready(r)
  PROVE  /\ Consume(r) \in Receiver(Message)
         /\ Head(r.queue) \in Message
<1>1. r.queue \in Seq(Message) /\ r.queue # <<>>
  BY DEF Receiver, Ready
<1>2. Tail(r.queue) \in Seq(Message) /\ Head(r.queue) \in Message
  BY <1>1
<1> QED
  BY <1>2 DEF Consume, Receiver

-----------------------------------------------------------------------------
(* Values *)

LEMMA ValueFacts ==
  /\ ConnectionLost \in Value
  /\ NotReturned \in Outcome
  /\ Value \subseteq Outcome
  /\ \A items \in Seq(Item) : Reply(items) \in Value
  /\ \A tag \in {"send error", "timeout", "invalid", "sent", "no batch"} :
       Failure(tag) \in Outcome
<1>1. <<>> \in Seq(Item)
  OBVIOUS
<1> QED
  BY <1>1 DEF ConnectionLost, NotReturned, Failure, Reply, Value, Outcome

LEMMA SizeFacts ==
  \A c \in Calls : /\ Size(c) \in Nat
                   /\ c \in Requests => Size(c) = 1
                   /\ c \in Batches => Size(c) = Queued[c].requests
BY CallsAssumption DEF Size, Calls

LEMMA AnswerType ==
  ASSUME first \in [Calls -> Nat], NEW c \in Calls, NEW n \in 0 .. Size(c)
  PROVE  Answer(c, n) \in Item
<1>1. n \in Nat /\ first[c] \in Nat
  BY SizeFacts
<1>2. n # 0 => first[c] + n - 1 \in Nat
  BY <1>1
<1> QED
  BY <1>1, <1>2 DEF Answer, IdOf, Item

\* Placing the items of an array that matches a key finds, for every request
\* of the batch, an item that carries its id.
LEMMA Placement ==
  ASSUME NEW items, NEW key \in Nat \X Int, Correlates(items, key),
         NEW n \in 1 .. key[2] - key[1] + 1
  PROVE  \E i \in Numbered(items) :
           /\ items[i].id = key[1] + n - 1
           /\ InRequestOrder(items, key)[n] = items[i]
<1>1. key[1] + n - 1 \in Ids(items)
  BY DEF Correlates
<1>2. PICK i \in Numbered(items) : items[i].id = key[1] + n - 1
  BY <1>1 DEF Ids
<1> DEFINE j == CHOOSE k \in Numbered(items) : items[k].id = key[1] + n - 1
<1>3. j \in Numbered(items) /\ items[j].id = key[1] + n - 1
  BY <1>2
<1>4. InRequestOrder(items, key)[n] = items[j]
  BY DEF InRequestOrder
<1> QED
  BY <1>3, <1>4

LEMMA PlacementType ==
  ASSUME NEW items \in Seq(Item), NEW key \in Nat \X Int, Correlates(items, key)
  PROVE  InRequestOrder(items, key) \in Seq(Item)
<1> DEFINE size == key[2] - key[1] + 1
<1>1. size \in Nat
  BY DEF Correlates
<1>2. \A n \in 1 .. size : InRequestOrder(items, key)[n] \in Item
  <2> TAKE n \in 1 .. size
  <2>1. PICK i \in Numbered(items) : InRequestOrder(items, key)[n] = items[i]
    BY Placement
  <2> QED
    BY <2>1 DEF Numbered
<1>3. InRequestOrder(items, key) \in [1 .. size -> Item]
  BY <1>2 DEF InRequestOrder
<1> HIDE DEF size
<1> QED
  BY <1>1, <1>3

-----------------------------------------------------------------------------
(* Type correctness *)

LEMMA TypeInit == Init => TypeOK
<1> SUFFICES ASSUME Init PROVE TypeOK
  OBVIOUS
<1>1. pendingRequests \in [DOMAIN pendingRequests -> Requests]
      /\ DOMAIN pendingRequests \subseteq Nat
  BY DEF Init
<1>2. pendingBatchRequests \in [DOMAIN pendingBatchRequests -> Batches]
      /\ DOMAIN pendingBatchRequests \subseteq Nat \X Int
  BY DEF Init
<1>3. Unsubscribed \in Receiver(Frame) /\ Unsubscribed \in Receiver(Events)
  BY DEF Unsubscribed, Receiver
<1>4. ReceiversType
  BY <1>3 DEF Init, ReceiversType
<1>5. CallsType
  BY ValueFacts DEF Init, CallsType, Labels
<1>6. TasksType
  BY DEF Init, TasksType, Tasks, Phases
<1>7. LinkType
  BY DEF Init, LinkType
<1> QED
  BY <1>1, <1>2, <1>4, <1>5, <1>6, <1>7 DEF TypeOK, TablesType

\* What the steps that callers share do to the variables of the calls.
ProgressType ==
  /\ pc \in [Calls -> Labels]
  /\ outcome \in [Calls -> Outcome]
  /\ DOMAIN mailbox = Calls
  /\ \A c \in Calls : mailbox[c] \subseteq Value

LEMMA ProgressSteps ==
  ASSUME ProgressType, NEW c \in Calls
  PROVE  /\ \A label \in Labels : Continue(c, label) => ProgressType'
         /\ \A result \in Outcome : Return(c, result) => ProgressType'
         /\ Advance(c, "cancelled") /\ DropReceiver(c) /\ UNCHANGED outcome
              => ProgressType'
<1>1. \A label \in Labels : Advance(c, label) => pc' \in [Calls -> Labels]
  BY DEF ProgressType, Advance
<1>2. DropReceiver(c) => /\ DOMAIN mailbox' = Calls
                         /\ \A d \in Calls : mailbox'[d] \subseteq Value
  BY DEF ProgressType, DropReceiver
<1>3. \A result \in Outcome : Return(c, result) => outcome' \in [Calls -> Outcome]
  BY DEF ProgressType, Return
<1>4. "done" \in Labels /\ "cancelled" \in Labels
  BY DEF Labels
<1> QED
  BY <1>1, <1>2, <1>3, <1>4 DEF ProgressType, Return, Continue

LEMMA ReserveType ==
  ASSUME currentId \in Nat, first \in [Calls -> Nat], NEW c \in Calls, Reserve(c)
  PROVE  currentId' \in Nat /\ first' \in [Calls -> Nat]
BY SizeFacts DEF Reserve

LEMMA TablesSteps ==
  ASSUME TablesType, CallsType, NEW c \in Calls
  PROVE  /\ c \in Requests
              /\ pendingRequests' = With(pendingRequests, first[c], c)
              /\ UNCHANGED pendingBatchRequests
              => TablesType'
         /\ c \in Batches
              /\ pendingBatchRequests' = With(pendingBatchRequests, RangeOf(c), c)
              /\ UNCHANGED pendingRequests
              => TablesType'
         /\ RemoveEntry(c) => TablesType'
<1>1. first[c] \in Nat
  BY DEF CallsType
<1>2. RangeOf(c) \in Nat \X Int
  BY <1>1, SizeFacts DEF RangeOf, IdOf
<1>3. ASSUME c \in Requests, UNCHANGED pendingBatchRequests,
             pendingRequests' = With(pendingRequests, first[c], c)
      PROVE  TablesType'
  <2>1. /\ pendingRequests' \in [DOMAIN pendingRequests' -> Requests]
        /\ DOMAIN pendingRequests' = DOMAIN pendingRequests \union {first[c]}
    BY <1>1, <1>3 DEF TablesType, With
  <2> QED
    BY <1>1, <1>3, <2>1 DEF TablesType
<1>4. ASSUME c \in Batches, UNCHANGED pendingRequests,
             pendingBatchRequests' = With(pendingBatchRequests, RangeOf(c), c)
      PROVE  TablesType'
  <2>1. /\ pendingBatchRequests' \in [DOMAIN pendingBatchRequests' -> Batches]
        /\ DOMAIN pendingBatchRequests' =
             DOMAIN pendingBatchRequests \union {RangeOf(c)}
    BY <1>4 DEF TablesType, With
  <2> QED
    BY <1>2, <1>4, <2>1 DEF TablesType
<1>5. ASSUME RemoveEntry(c) PROVE TablesType'
  <2>1. CASE UNCHANGED pendingBatchRequests
             /\ pendingRequests' = Without(pendingRequests, first[c])
    BY <2>1 DEF TablesType, Without, Restrict
  <2>2. CASE UNCHANGED pendingRequests
             /\ pendingBatchRequests' = Without(pendingBatchRequests, RangeOf(c))
    BY <2>2 DEF TablesType, Without, Restrict
  <2> QED
    BY <1>5, <2>1, <2>2 DEF RemoveEntry
<1> QED
  BY <1>3, <1>4, <1>5

LEMMA TypeCall ==
  ASSUME TypeOK, NEW c \in Calls, Call(c)
  PROVE  TypeOK'
<1> USE DEF TypeOK
<1>1. ProgressType /\ currentId \in Nat /\ first \in [Calls -> Nat]
  BY DEF CallsType, ProgressType
<1>2. ASSUME ProgressType', currentId' \in Nat, first' \in [Calls -> Nat]
      PROVE  CallsType'
  BY <1>2 DEF CallsType, ProgressType
<1>3. ASSUME UNCHANGED <<taskVars, messages, events, linkVars>>
      PROVE  TasksType' /\ ReceiversType' /\ LinkType'
  BY <1>3 DEF TasksType, ReceiversType, LinkType, taskVars, linkVars
<1>4. ASSUME UNCHANGED tableVars PROVE TablesType'
  BY <1>4 DEF TablesType, tableVars
<1>5. /\ {"reserved", "sendOnly", "registered", "awaiting", "sendFailed", "timedOut"}
           \subseteq Labels
      /\ \A tag \in {"send error", "timeout", "invalid", "sent", "no batch"} :
           Failure(tag) \in Outcome
  BY ValueFacts DEF Labels
<1>6. CASE StartRequest(c)
  <2>1. ProgressType'
    BY <1>1, <1>5, <1>6, ProgressSteps DEF StartRequest
  <2>2. currentId' \in Nat /\ first' \in [Calls -> Nat]
    BY <1>1, <1>6, ReserveType DEF StartRequest
  <2> QED
    BY <1>2, <1>3, <1>4, <1>6, <2>1, <2>2 DEF StartRequest
<1>7. CASE StartBatch(c)
  <2>1. ProgressType'
    BY <1>1, <1>5, <1>7, ProgressSteps DEF StartBatch
  <2>2. currentId' \in Nat /\ first' \in [Calls -> Nat]
    BY <1>1, <1>7, ReserveType DEF StartBatch
  <2> QED
    BY <1>2, <1>3, <1>4, <1>7, <2>1, <2>2 DEF StartBatch
<1>8. CASE StartNotify(c)
  <2>1. ProgressType'
    BY <1>1, <1>5, <1>8, ProgressSteps DEF StartNotify
  <2> QED
    BY <1>1, <1>2, <1>3, <1>4, <1>8, <2>1 DEF StartNotify
<1>9. CASE Register(c)
  <2>1. ProgressType'
    BY <1>1, <1>5, <1>9, ProgressSteps DEF Register
  <2>2. TablesType'
    BY <1>9, TablesSteps DEF Register
  <2> QED
    BY <1>1, <1>2, <1>3, <1>9, <2>1, <2>2 DEF Register
<1>10. CASE SendOk(c)
  <2>1. ProgressType'
    BY <1>1, <1>5, <1>10, ProgressSteps DEF SendOk
  <2> QED
    BY <1>1, <1>2, <1>3, <1>4, <1>10, <2>1 DEF SendOk
<1>11. CASE SendErr(c)
  <2>1. ProgressType'
    BY <1>1, <1>5, <1>11, ProgressSteps DEF SendErr
  <2> QED
    BY <1>1, <1>2, <1>3, <1>4, <1>11, <2>1 DEF SendErr
<1>12. CASE CleanupSendError(c)
  <2>1. ProgressType'
    BY <1>1, <1>5, <1>12, ProgressSteps DEF CleanupSendError
  <2>2. TablesType'
    BY <1>12, TablesSteps DEF CleanupSendError
  <2> QED
    BY <1>1, <1>2, <1>3, <1>12, <2>1, <2>2 DEF CleanupSendError
<1>13. CASE Receive(c)
  <2>1. ProgressType'
    <3>1. PICK value \in mailbox[c] : Return(c, value)
      BY <1>13 DEF Receive
    <3>2. value \in Outcome
      BY <3>1, ValueFacts DEF CallsType
    <3> QED
      BY <1>1, <3>1, <3>2, ProgressSteps
  <2> QED
    BY <1>1, <1>2, <1>3, <1>4, <1>13, <2>1 DEF Receive
<1>14. CASE TimerFires(c)
  <2>1. ProgressType'
    BY <1>1, <1>5, <1>14, ProgressSteps DEF TimerFires
  <2> QED
    BY <1>1, <1>2, <1>3, <1>4, <1>14, <2>1 DEF TimerFires
<1>15. CASE CleanupTimeout(c)
  <2>1. ProgressType'
    BY <1>1, <1>5, <1>15, ProgressSteps DEF CleanupTimeout
  <2>2. TablesType'
    BY <1>15, TablesSteps DEF CleanupTimeout
  <2> QED
    BY <1>1, <1>2, <1>3, <1>15, <2>1, <2>2 DEF CleanupTimeout
<1>16. CASE Cancel(c)
  <2>1. ProgressType'
    BY <1>1, <1>16, ProgressSteps DEF Cancel
  <2> QED
    BY <1>1, <1>2, <1>3, <1>4, <1>16, <2>1 DEF Cancel
<1> QED
  BY <1>6, <1>7, <1>8, <1>9, <1>10, <1>11, <1>12, <1>13, <1>14, <1>15, <1>16
  DEF Call

HandType == DOMAIN hand = Tasks /\ \A t \in Tasks : hand[t] \subseteq Letter

LEMMA HandSteps ==
  ASSUME TasksType, NEW t \in Tasks
  PROVE  /\ \A c \in Calls, value \in Value :
              TakeFor(t, c, value) => HandType'
         /\ hand' = [hand EXCEPT ![t] = {}] => HandType'
BY DEF HandType, TasksType, TakeFor, Letter

LEMMA DeliverType ==
  ASSUME TypeOK, NEW t \in Tasks, Deliver(t)
  PROVE  TypeOK'
<1>1. TasksType'
  BY HandSteps DEF TypeOK, Deliver, TasksType, HandType
<1>2. PICK letter \in hand[t] :
        mailbox' = IF letter.to \in Listening
                     THEN [mailbox EXCEPT ![letter.to] = {letter.value}]
                     ELSE mailbox
  BY DEF Deliver
<1>3. letter.to \in Calls /\ letter.value \in Value
  BY <1>2 DEF TypeOK, TasksType, Letter
<1>4. CallsType'
  BY <1>2, <1>3 DEF TypeOK, CallsType, Deliver, callVars
<1> QED
  BY <1>1, <1>4
  DEF TypeOK, Deliver, TablesType, ReceiversType, LinkType, tableVars, linkVars

LEMMA HandleSingleType ==
  ASSUME TypeOK, NEW items \in Seq(Item), HandleSingle(items),
         UNCHANGED <<pendingBatchRequests, sweep>>
  PROVE  TablesType' /\ TasksType'
<1> DEFINE id == items[1].id
<1>1. CASE id \in DOMAIN pendingRequests
  <2>1. pendingRequests[id] \in Calls
    BY <1>1 DEF TypeOK, TablesType, Calls
  <2>2. TasksType'
    BY <1>1, <2>1, HandSteps, ValueFacts
    DEF HandleSingle, TypeOK, Tasks, TasksType, HandType
  <2>3. TablesType'
    BY <1>1 DEF HandleSingle, TypeOK, TablesType, Without, Restrict
  <2> QED
    BY <2>2, <2>3
<1>2. CASE id \notin DOMAIN pendingRequests
  BY <1>2 DEF HandleSingle, TypeOK, TablesType, TasksType
<1> QED
  BY <1>1, <1>2

LEMMA HandleArrayType ==
  ASSUME TypeOK, NEW items \in Seq(Item), HandleArray(items),
         UNCHANGED <<pendingRequests, sweep>>
  PROVE  TablesType' /\ TasksType'
<1>1. ASSUME NEW key \in DOMAIN pendingBatchRequests, Correlates(items, key),
             TakeFor("incoming", pendingBatchRequests[key],
                     Reply(InRequestOrder(items, key))),
             pendingBatchRequests' = Without(pendingBatchRequests, key)
      PROVE  TablesType' /\ TasksType'
  <2>1. pendingBatchRequests[key] \in Calls /\ key \in Nat \X Int
    BY <1>1 DEF TypeOK, TablesType, Calls
  <2>2. Reply(InRequestOrder(items, key)) \in Value
    BY <1>1, <2>1, PlacementType, ValueFacts
  <2>3. TasksType'
    BY <1>1, <2>1, <2>2, HandSteps DEF TypeOK, Tasks, TasksType, HandType
  <2>4. TablesType'
    BY <1>1 DEF TypeOK, TablesType, Without, Restrict
  <2> QED
    BY <2>3, <2>4
<1>2. ASSUME UNCHANGED <<hand, pendingBatchRequests>>
      PROVE  TablesType' /\ TasksType'
  BY <1>2 DEF TypeOK, TablesType, TasksType
<1> QED
  BY <1>1, <1>2 DEF HandleArray

LEMMA TypeIncoming ==
  ASSUME TypeOK, IncomingTask
  PROVE  TypeOK'
<1>1. CASE IncomingSubscribe
  <2>1. ReceiversType'
    BY <1>1 DEF IncomingSubscribe, TypeOK, ReceiversType, Subscribed, Receiver
  <2> QED
    BY <1>1, <2>1 DEF IncomingSubscribe, TypeOK, CallsType, TablesType, TasksType,
                      LinkType, callVars, tableVars, taskVars, linkVars
<1>2. CASE IncomingLagged
  <2>1. ReceiversType'
    BY <1>2 DEF IncomingLagged, TypeOK, ReceiversType, AcknowledgeLag, Receiver
  <2> QED
    BY <1>2, <2>1 DEF IncomingLagged, TypeOK, CallsType, TablesType, TasksType,
                      LinkType, callVars, tableVars, taskVars, linkVars
<1>3. CASE IncomingRecv
  <2> DEFINE frame == Head(messages.queue)
  <2>1. messages' \in Receiver(Frame) /\ frame \in Frame
    BY <1>3, ConsumeType DEF IncomingRecv, TypeOK, ReceiversType
  <2>2. frame.items \in Seq(Item)
    BY <2>1 DEF Frame
  <2>3. TablesType' /\ TasksType'
    <3>1. CASE HandleSingle(frame.items) /\ UNCHANGED pendingBatchRequests
      BY <1>3, <2>2, <3>1, HandleSingleType DEF IncomingRecv
    <3>2. CASE HandleArray(frame.items) /\ UNCHANGED pendingRequests
      BY <1>3, <2>2, <3>2, HandleArrayType DEF IncomingRecv
    <3>3. CASE UNCHANGED <<hand, tableVars>>
      BY <1>3, <3>3 DEF IncomingRecv, TypeOK, TablesType, TasksType, tableVars
    <3> QED
      BY <1>3, <3>1, <3>2, <3>3 DEF IncomingRecv
  <2> QED
    BY <1>3, <2>1, <2>3
    DEF IncomingRecv, TypeOK, CallsType, ReceiversType, LinkType, callVars, linkVars
<1>4. CASE Deliver("incoming")
  BY <1>4, DeliverType DEF Tasks
<1> QED
  BY <1>1, <1>2, <1>3, <1>4 DEF IncomingTask

LEMMA TypeDisconnect ==
  ASSUME TypeOK, DisconnectTask
  PROVE  TypeOK'
<1> USE DEF TypeOK
<1>1. CASE DisconnectSubscribe
  <2>1. ReceiversType'
    BY <1>1 DEF DisconnectSubscribe, ReceiversType, Subscribed, Receiver
  <2> QED
    BY <1>1, <2>1 DEF DisconnectSubscribe, CallsType, TablesType, TasksType,
                      LinkType, callVars, tableVars, taskVars, linkVars
<1>2. CASE DisconnectLagged
  <2>1. ReceiversType'
    BY <1>2 DEF DisconnectLagged, ReceiversType, AcknowledgeLag, Receiver
  <2> QED
    BY <1>2, <2>1 DEF DisconnectLagged, CallsType, TablesType, TasksType,
                      LinkType, callVars, tableVars, taskVars, linkVars
<1>3. CASE DisconnectRecv
  <2>1. ReceiversType'
    BY <1>3, ConsumeType DEF DisconnectRecv, ReceiversType
  <2>2. TasksType'
    BY <1>3 DEF DisconnectRecv, TasksType, Phases
  <2> QED
    BY <1>3, <2>1, <2>2
    DEF DisconnectRecv, CallsType, TablesType, LinkType, callVars, tableVars, linkVars
<1>4. CASE RequestsListed \/ RequestsFailed \/ BatchesListed \/ BatchesFailed
  <2>1. UNCHANGED hand
    BY <1>4 DEF RequestsListed, RequestsFailed, BatchesListed, BatchesFailed
  <2>2. PICK phase \in Phases : \E keys : sweep' = [phase |-> phase, keys |-> keys]
    <3>1. CASE RequestsListed \/ BatchesListed
      BY <3>1 DEF RequestsListed, BatchesListed, Phases
    <3>2. CASE RequestsFailed
      BY <3>2 DEF RequestsFailed, Phases
    <3>3. CASE BatchesFailed
      BY <3>3 DEF BatchesFailed, Phases
    <3> QED
      BY <1>4, <3>1, <3>2, <3>3
  <2>3. TasksType'
    BY <2>1, <2>2 DEF TasksType
  <2> QED
    BY <1>4, <2>3
    DEF RequestsListed, RequestsFailed, BatchesListed, BatchesFailed, CallsType,
        TablesType, ReceiversType, LinkType, callVars, tableVars, linkVars
<1>5. ASSUME NEW key \in sweep.keys, FailRequest(key)
      PROVE  TypeOK'
  <2>0. DOMAIN sweep' = {"phase", "keys"} /\ sweep'.phase \in Phases
    BY <1>5 DEF FailRequest, TasksType
  <2>1. CASE key \in DOMAIN pendingRequests
    <3>1. pendingRequests[key] \in Calls
      BY <2>1 DEF TablesType, Calls
    <3>2. HandType'
      BY <1>5, <2>1, <3>1, HandSteps, ValueFacts DEF FailRequest, Tasks
    <3>3. TablesType'
      BY <1>5, <2>1 DEF FailRequest, TablesType, Without, Restrict
    <3> QED
      BY <1>5, <2>0, <3>2, <3>3
      DEF FailRequest, HandType, TasksType, CallsType, ReceiversType, LinkType, callVars, linkVars
  <2>2. CASE key \notin DOMAIN pendingRequests
    BY <1>5, <2>0, <2>2
    DEF FailRequest, TablesType, TasksType, CallsType, ReceiversType, LinkType,
        callVars, linkVars
  <2> QED
    BY <2>1, <2>2
<1>6. ASSUME NEW key \in sweep.keys, FailBatch(key)
      PROVE  TypeOK'
  <2>0. DOMAIN sweep' = {"phase", "keys"} /\ sweep'.phase \in Phases
    BY <1>6 DEF FailBatch, TasksType
  <2>1. CASE key \in DOMAIN pendingBatchRequests
    <3>1. pendingBatchRequests[key] \in Calls
      BY <2>1 DEF TablesType, Calls
    <3>2. HandType'
      BY <1>6, <2>1, <3>1, HandSteps, ValueFacts DEF FailBatch, Tasks
    <3>3. TablesType'
      BY <1>6, <2>1 DEF FailBatch, TablesType, Without, Restrict
    <3> QED
      BY <1>6, <2>0, <3>2, <3>3
      DEF FailBatch, HandType, TasksType, CallsType, ReceiversType, LinkType, callVars, linkVars
  <2>2. CASE key \notin DOMAIN pendingBatchRequests
    BY <1>6, <2>0, <2>2
    DEF FailBatch, TablesType, TasksType, CallsType, ReceiversType, LinkType,
        callVars, linkVars
  <2> QED
    BY <2>1, <2>2
<1>7. CASE Deliver("disconnect")
  BY <1>7, DeliverType DEF Tasks
<1> QED
  BY <1>1, <1>2, <1>3, <1>4, <1>5, <1>6, <1>7 DEF DisconnectTask

LEMMA ArrayType ==
  ASSUME CallsType, NEW c \in Calls, NEW shape \in Seq(Nat),
         \A i \in DOMAIN shape : shape[i] <= Size(c)
  PROVE  [i \in DOMAIN shape |-> Answer(c, shape[i])] \in Seq(Item)
<1>1. Len(shape) \in Nat /\ DOMAIN shape = 1 .. Len(shape)
  OBVIOUS
<1>2. \A i \in 1 .. Len(shape) : shape[i] \in 0 .. Size(c)
  BY <1>1, SizeFacts
<1>3. \A i \in 1 .. Len(shape) : Answer(c, shape[i]) \in Item
  BY <1>2, AnswerType DEF CallsType
<1> QED
  BY <1>1, <1>3

LEMMA PublishMessageType ==
  ASSUME TypeOK, NEW items \in Seq(Item),
         NEW kind \in {"single", "array", "other"}, PublishMessage(kind, items)
  PROVE  messages' \in Receiver(Frame)
<1>1. [kind |-> kind, items |-> items] \in Frame
  BY DEF Frame
<1> QED
  BY <1>1, PublishType, ChannelAssumption DEF PublishMessage, TypeOK, ReceiversType

LEMMA PublishEventType ==
  ASSUME TypeOK, NEW event \in Events, PublishEvent(event)
  PROVE  events' \in Receiver(Events) /\ missedDisconnect' \in BOOLEAN
<1>1. events' \in Receiver(Events)
  BY PublishType, ChannelAssumption DEF PublishEvent, TypeOK, ReceiversType
<1>2. missedDisconnect' \in BOOLEAN
  BY DEF PublishEvent, TypeOK, LinkType, ReceiversType, Receiver
<1> QED
  BY <1>1, <1>2

LEMMA TypeTransport ==
  ASSUME TypeOK, Transport
  PROVE  TypeOK'
<1> USE DEF TypeOK
<1>1. ASSUME messages' \in Receiver(Frame),
             UNCHANGED <<callVars, tableVars, mailbox, taskVars, events, linkVars>>
      PROVE  TypeOK'
  BY <1>1 DEF CallsType, TablesType, TasksType, ReceiversType, LinkType,
              callVars, tableVars, taskVars, linkVars
<1>2. CASE Connect
  <2>1. events' \in Receiver(Events) /\ missedDisconnect' \in BOOLEAN
    BY <1>2, PublishEventType DEF Connect, Events
  <2> QED
    BY <1>2, <2>1 DEF Connect, CallsType, TablesType, TasksType, ReceiversType,
                      LinkType, callVars, tableVars, taskVars
<1>3. CASE Disconnect
  <2>1. events' \in Receiver(Events) /\ missedDisconnect' \in BOOLEAN
    BY <1>3, PublishEventType DEF Disconnect, Events
  <2> QED
    BY <1>3, <2>1 DEF Disconnect, CallsType, TablesType, TasksType, ReceiversType,
                      LinkType, callVars, tableVars, taskVars
<1>4. ASSUME NEW c \in Calls, Transmit(c) PROVE TypeOK'
  BY <1>4 DEF Transmit, CallsType, TablesType, TasksType, ReceiversType,
              LinkType, callVars, tableVars, taskVars
<1>5. ASSUME NEW c \in Calls, PeerAnswers(c) PROVE TypeOK'
  <2>1. PICK n \in 0 .. Size(c) : PublishMessage("single", <<Answer(c, n)>>)
    BY <1>5 DEF PeerAnswers
  <2>2. Answer(c, n) \in Item
    BY <2>1, AnswerType DEF CallsType
  <2>3. <<Answer(c, n)>> \in Seq(Item)
    BY <2>2
  <2>4. messages' \in Receiver(Frame)
    BY <2>1, <2>3, PublishMessageType
  <2> QED
    BY <1>1, <1>5, <2>4 DEF PeerAnswers
<1>6. ASSUME NEW c \in Calls, PeerAnswersArray(c) PROVE TypeOK'
  <2>1. PICK shape \in ReplyShapes :
          /\ \A i \in DOMAIN shape : shape[i] <= Size(c)
          /\ PublishMessage("array", [i \in DOMAIN shape |-> Answer(c, shape[i])])
    BY <1>6 DEF PeerAnswersArray
  <2>2. shape \in Seq(Nat)
    BY ChannelAssumption
  <2>3. [i \in DOMAIN shape |-> Answer(c, shape[i])] \in Seq(Item)
    BY <2>1, <2>2, ArrayType
  <2>4. messages' \in Receiver(Frame)
    BY <2>1, <2>3, PublishMessageType
  <2> QED
    BY <1>1, <1>6, <2>4 DEF PeerAnswersArray
<1>7. CASE PeerSendsOther
  <2>1. <<>> \in Seq(Item)
    OBVIOUS
  <2>2. messages' \in Receiver(Frame)
    BY <1>7, <2>1, PublishMessageType DEF PeerSendsOther
  <2> QED
    BY <1>1, <1>7, <2>2 DEF PeerSendsOther
<1> QED
  BY <1>2, <1>3, <1>4, <1>5, <1>6, <1>7 DEF Transport

LEMMA TypeNext == TypeOK /\ [Next]_vars => TypeOK'
<1>1. ASSUME TypeOK, UNCHANGED vars PROVE TypeOK'
  BY <1>1 DEF vars, callVars, tableVars, taskVars, linkVars, TypeOK, CallsType,
              TablesType, TasksType, ReceiversType, LinkType
<1> QED
  BY <1>1, TypeCall, TypeIncoming, TypeDisconnect, TypeTransport DEF Next, Idle

(***************************************************************************)
(* Whatever calls, tasks and transport do, every variable keeps its type:  *)
(* in particular the tables only ever map ids and ranges of ids to calls.  *)
(***************************************************************************)
THEOREM TypeCorrect == Spec => []TypeOK
BY TypeInit, TypeNext, PTL DEF Spec

=============================================================================
