--------------------------- MODULE WsAnswerProofs ---------------------------
(***************************************************************************)
(* A call of the WebSocket client only ever returns the answers to its own *)
(* requests, in their order: the proof of WsClient!OwnAnswer.              *)
(*                                                                         *)
(* OwnAnswer speaks of what has been returned. The inductive invariant     *)
(* follows a value back to where it came from: the mailbox, the hand of a  *)
(* task, the table whose key selected it, and the ids that were reserved.  *)
(***************************************************************************)
EXTENDS WsClientProofs

Started(c) == pc[c] # "idle"

HasIds(c) == Started(c) /\ Size(c) > 0

\* No id is handed out twice.
IdsReserved == \A c \in Calls : HasIds(c) => first[c] + Size(c) <= currentId

Apart(c, d) ==
  first[c] + Size(c) <= first[d] \/ first[d] + Size(d) <= first[c]

IdsApart == \A c, d \in Calls : c # d /\ HasIds(c) /\ HasIds(d) => Apart(c, d)

\* Every entry is filed under the ids of its own call.
KeysOwn ==
  /\ \A id \in DOMAIN pendingRequests :
       Started(pendingRequests[id]) /\ id = first[pendingRequests[id]]
  /\ \A key \in DOMAIN pendingBatchRequests :
       /\ Started(pendingBatchRequests[key])
       /\ key = RangeOf(pendingBatchRequests[key])

\* A call whose message a connection took has started; connections count from 1.
SentStarted ==
  /\ \A c \in Calls : sentOn[c] # 0 => Started(c)
  /\ connected => connection # 0

\* The peer labels its answers with the ids of the requests they answer.
Genuine(item) ==
  /\ Started(item.call)
  /\ item.entry \in 0 .. Size(item.call)
  /\ item = Answer(item.call, item.entry)

GenuineFrame(frame) ==
  /\ \A j \in DOMAIN frame.items : Genuine(frame.items[j])
  /\ frame.kind = "single" => Len(frame.items) = 1

FramesGenuine ==
  \A i \in DOMAIN messages.queue : GenuineFrame(messages.queue[i])

\* What a call may be given.
RightFor(c, value) ==
  value.tag = "reply" => Started(c) /\ value.items = OwnAnswers(c)

HandsRight == \A t \in Tasks : \A letter \in hand[t] : RightFor(letter.to, letter.value)

MailboxesRight == \A c \in Calls : \A value \in mailbox[c] : RightFor(c, value)

OutcomesRight == \A c \in Calls : RightFor(c, outcome[c])

AnswerInv ==
  /\ TypeOK
  /\ IdsReserved /\ IdsApart
  /\ KeysOwn
  /\ SentStarted /\ FramesGenuine
  /\ HandsRight /\ MailboxesRight /\ OutcomesRight

-----------------------------------------------------------------------------
(* Calls never go back *)

LEMMA CallersOnly ==
  ASSUME IncomingTask \/ DisconnectTask \/ Transport \/ UNCHANGED vars
  PROVE  UNCHANGED <<currentId, pc, first, outcome>>
BY DEF IncomingTask, DisconnectTask, Transport, vars, callVars, Deliver,
       IncomingSubscribe, IncomingLagged, IncomingRecv, DisconnectSubscribe,
       DisconnectLagged, DisconnectRecv, RequestsListed, FailRequest,
       RequestsFailed, BatchesListed, FailBatch, BatchesFailed, Connect,
       Disconnect, Transmit, PeerAnswers, PeerAnswersArray, PeerSendsOther

LEMMA CallSteps ==
  ASSUME TypeOK, NEW c \in Calls, Call(c)
  PROVE  /\ \E label \in Labels \ {"idle"} : pc' = [pc EXCEPT ![c] = label]
         /\ \/ UNCHANGED <<currentId, first>>
            \/ Reserve(c) /\ pc[c] = "idle"
         /\ Started(c) \/ StartRequest(c) \/ StartBatch(c) \/ StartNotify(c)
<1>1. {"reserved", "sendOnly", "registered", "awaiting", "sendFailed",
       "timedOut", "done", "cancelled"} = Labels \ {"idle"}
  BY DEF Labels
<1>2. \A label : Continue(c, label) => pc' = [pc EXCEPT ![c] = label]
  BY DEF Continue, Advance
<1>3. \A result : Return(c, result) => pc' = [pc EXCEPT ![c] = "done"]
  BY DEF Return, Advance
<1>4. \E label \in Labels \ {"idle"} : pc' = [pc EXCEPT ![c] = label]
  <2>1. CASE StartRequest(c) \/ StartBatch(c) \/ StartNotify(c) \/ Register(c)
    BY <1>1, <1>2, <1>3, <2>1 DEF StartRequest, StartBatch, StartNotify, Register
  <2>2. CASE SendOk(c) \/ SendErr(c) \/ CleanupSendError(c)
    BY <1>1, <1>2, <1>3, <2>2 DEF SendOk, SendErr, CleanupSendError
  <2>3. CASE Receive(c) \/ TimerFires(c) \/ CleanupTimeout(c) \/ Cancel(c)
    BY <1>1, <1>2, <1>3, <2>3 DEF Receive, TimerFires, CleanupTimeout, Cancel, Advance
  <2> QED
    BY <2>1, <2>2, <2>3 DEF Call
<1>5. \/ UNCHANGED <<currentId, first>>
      \/ Reserve(c) /\ pc[c] = "idle"
  BY DEF Call, StartRequest, StartBatch, StartNotify, Register, SendOk, SendErr,
         CleanupSendError, Receive, TimerFires, CleanupTimeout, Cancel
<1>6. Started(c) \/ StartRequest(c) \/ StartBatch(c) \/ StartNotify(c)
  BY DEF Started, Call, Register, SendOk, SendErr, CleanupSendError, Receive,
         TimerFires, CleanupTimeout, Cancel
<1> QED
  BY <1>4, <1>5, <1>6

LEMMA StartedStays ==
  ASSUME TypeOK, [Next]_vars, NEW c \in Calls, Started(c)
  PROVE  Started(c)' /\ first'[c] = first[c]
<1>1. ASSUME NEW d \in Calls, Call(d)
      PROVE  Started(c)' /\ first'[c] = first[c]
  <2>1. PICK label \in Labels \ {"idle"} : pc' = [pc EXCEPT ![d] = label]
    BY <1>1, CallSteps
  <2>2. Started(c)'
    BY <2>1 DEF Started, TypeOK, CallsType
  <2>3. first'[c] = first[c]
    BY <1>1, CallSteps DEF Started, Reserve, TypeOK, CallsType
  <2> QED
    BY <2>2, <2>3
<1>2. CASE UNCHANGED <<currentId, pc, first, outcome>>
  BY <1>2 DEF Started
<1> QED
  BY <1>1, <1>2, CallersOnly DEF Next, Idle

LEMMA GenuineStays ==
  ASSUME TypeOK, [Next]_vars, NEW item, item.call \in Calls, Genuine(item)
  PROVE  Genuine(item)'
BY StartedStays DEF Genuine, Answer, IdOf

LEMMA RightStays ==
  ASSUME TypeOK, [Next]_vars, NEW c \in Calls, NEW value, RightFor(c, value)
  PROVE  RightFor(c, value)'
<1>1. CASE value.tag = "reply"
  <2>1. Started(c)' /\ first'[c] = first[c]
    BY <1>1, StartedStays DEF RightFor
  <2>2. OwnAnswers(c)' = OwnAnswers(c)
    BY <2>1 DEF OwnAnswers, Answer, IdOf
  <2> QED
    BY <2>1, <2>2 DEF RightFor
<1>2. CASE value.tag # "reply"
  BY <1>2 DEF RightFor
<1> QED
  BY <1>1, <1>2

-----------------------------------------------------------------------------
(* Ids *)

LEMMA FreshIds ==
  ASSUME TypeOK, NEW c \in Calls, Call(c), ~Started(c), Size(c) > 0
  PROVE  Reserve(c)
<1>1. CASE StartRequest(c)
  BY <1>1 DEF StartRequest
<1>2. CASE StartBatch(c)
  <2>1. c \in Batches
    BY <1>2 DEF StartBatch
  <2>2. Queued[c].requests # 0
    BY <2>1, SizeFacts
  <2> QED
    BY <1>2, <2>2, Zenon DEF StartBatch
<1>3. CASE StartNotify(c)
  BY <1>3, CallsAssumption DEF StartNotify, Size
<1> QED
  BY <1>1, <1>2, <1>3, CallSteps

LEMMA IdsNext ==
  ASSUME TypeOK, IdsReserved, IdsApart, [Next]_vars
  PROVE  IdsReserved' /\ IdsApart'
<1>1. ASSUME NEW c \in Calls, Call(c)
      PROVE  IdsReserved' /\ IdsApart'
  <2>1. PICK label \in Labels \ {"idle"} : pc' = [pc EXCEPT ![c] = label]
    BY <1>1, CallSteps
  <2>2. \A d \in Calls \ {c} : HasIds(d)' <=> HasIds(d)
    BY <2>1 DEF HasIds, Started, TypeOK, CallsType
  <2>3. first \in [Calls -> Nat] /\ currentId \in Nat /\ \A d \in Calls : Size(d) \in Nat
    BY SizeFacts DEF TypeOK, CallsType
  <2>4. CASE Reserve(c) /\ pc[c] = "idle"
    <3>1. /\ currentId' = currentId + Size(c)
          /\ first'[c] = currentId
          /\ \A d \in Calls \ {c} : first'[d] = first[d]
      BY <2>3, <2>4 DEF Reserve
    <3>2. IdsReserved'
      BY <2>2, <2>3, <3>1 DEF IdsReserved
    <3>3. IdsApart'
      BY <2>2, <2>3, <3>1 DEF IdsReserved, IdsApart, Apart
    <3> QED
      BY <3>2, <3>3
  <2>5. CASE UNCHANGED <<currentId, first>> /\ ~Reserve(c)
    <3>1. HasIds(c)' => HasIds(c)
      BY <1>1, <2>5, FreshIds DEF HasIds
    <3> QED
      BY <2>2, <2>5, <3>1 DEF IdsReserved, IdsApart, Apart
  <2>6. CASE UNCHANGED <<currentId, first>> /\ Reserve(c)
    <3>1. Size(c) = 0 /\ first[c] = currentId
      BY <2>3, <2>6 DEF Reserve
    <3>2. ~HasIds(c)'
      BY <3>1 DEF HasIds
    <3> QED
      BY <2>2, <2>6, <3>2 DEF IdsReserved, IdsApart, Apart
  <2> QED
    BY <1>1, <2>4, <2>5, <2>6, CallSteps
<1>2. CASE UNCHANGED <<currentId, pc, first, outcome>>
  BY <1>2 DEF IdsReserved, IdsApart, Apart, HasIds, Started
<1> QED
  BY <1>1, <1>2, CallersOnly DEF Next, Idle

\* An answer that carries one of a call's ids answers that request of that call.
LEMMA Identify ==
  ASSUME TypeOK, IdsApart, NEW c \in Calls, Started(c), NEW n \in 1 .. Size(c),
         NEW item \in Item, Genuine(item), item.id = IdOf(c, n)
  PROVE  item = Answer(c, n)
<1> DEFINE d == item.call
           m == item.entry
<1>1. d \in Calls /\ m \in 0 .. Size(d) /\ Started(d)
  BY DEF Genuine, Item
<1>2. /\ first[c] \in Nat /\ first[d] \in Nat
      /\ Size(c) \in Nat /\ Size(d) \in Nat
  BY <1>1, SizeFacts DEF TypeOK, CallsType
<1>3. item.id = IF m = 0 THEN NoId ELSE first[d] + m - 1
  BY DEF Genuine, Answer, IdOf
<1>4. m # 0
  BY <1>2, <1>3 DEF IdOf, NoId
<1>5. first[d] + m - 1 = first[c] + n - 1
  BY <1>3, <1>4 DEF IdOf
<1>6. c = d
  <2> SUFFICES ASSUME c # d PROVE FALSE
    OBVIOUS
  <2>1. HasIds(c) /\ HasIds(d)
    BY <1>1, <1>2, <1>4 DEF HasIds
  <2>2. Apart(c, d)
    BY <1>1, <2>1 DEF IdsApart
  <2> QED
    BY <1>1, <1>2, <1>4, <1>5, <2>2 DEF Apart
<1>7. m = n
  BY <1>1, <1>2, <1>5, <1>6
<1> QED
  BY <1>6, <1>7 DEF Genuine

-----------------------------------------------------------------------------
(* Tables *)

\* The tasks only take entries out.
LEMMA TasksShrinkTables ==
  ASSUME TypeOK, IncomingTask \/ DisconnectTask \/ Transport \/ UNCHANGED vars
  PROVE  /\ DOMAIN pendingRequests' \subseteq DOMAIN pendingRequests
         /\ \A id \in DOMAIN pendingRequests' :
              pendingRequests'[id] = pendingRequests[id]
         /\ DOMAIN pendingBatchRequests' \subseteq DOMAIN pendingBatchRequests
         /\ \A key \in DOMAIN pendingBatchRequests' :
              pendingBatchRequests'[key] = pendingBatchRequests[key]
<1>1. CASE IncomingRecv
  BY <1>1 DEF IncomingRecv, HandleSingle, HandleArray, Without, Restrict, tableVars
<1>2. CASE \E key \in sweep.keys : FailRequest(key) \/ FailBatch(key)
  BY <1>2 DEF FailRequest, FailBatch, Without, Restrict
<1>3. CASE UNCHANGED tableVars
  BY <1>3 DEF tableVars
<1>4. CASE \/ IncomingSubscribe \/ IncomingLagged
           \/ Deliver("incoming") \/ Deliver("disconnect")
           \/ DisconnectSubscribe \/ DisconnectLagged \/ DisconnectRecv
           \/ RequestsListed \/ RequestsFailed \/ BatchesListed \/ BatchesFailed
  BY <1>3, <1>4 DEF IncomingSubscribe, IncomingLagged, Deliver, DisconnectSubscribe,
    DisconnectLagged, DisconnectRecv, RequestsListed, RequestsFailed, BatchesListed,
    BatchesFailed
<1>5. CASE Transport \/ UNCHANGED vars
  BY <1>3, <1>5 DEF Transport, Connect, Disconnect, Transmit, PeerAnswers,
    PeerAnswersArray, PeerSendsOther, vars
<1> QED
  BY <1>1, <1>2, <1>4, <1>5 DEF IncomingTask, DisconnectTask

LEMMA KeysOwnNext ==
  ASSUME TypeOK, KeysOwn, [Next]_vars
  PROVE  KeysOwn'
<1> DEFINE Shrinks ==
      /\ DOMAIN pendingRequests' \subseteq DOMAIN pendingRequests
      /\ \A id \in DOMAIN pendingRequests' :
           pendingRequests'[id] = pendingRequests[id]
      /\ DOMAIN pendingBatchRequests' \subseteq DOMAIN pendingBatchRequests
      /\ \A key \in DOMAIN pendingBatchRequests' :
           pendingBatchRequests'[key] = pendingBatchRequests[key]
<1>1. ASSUME NEW c \in Calls
      PROVE  Started(c) => Started(c)' /\ first'[c] = first[c] /\ RangeOf(c)' = RangeOf(c)
  BY StartedStays DEF RangeOf, IdOf
<1>2. /\ \A id \in DOMAIN pendingRequests : pendingRequests[id] \in Calls
      /\ \A key \in DOMAIN pendingBatchRequests : pendingBatchRequests[key] \in Calls
  BY DEF TypeOK, TablesType, Calls
<1>3. CASE Shrinks
  BY <1>1, <1>2, <1>3 DEF KeysOwn
<1>4. ASSUME NEW c \in Calls, Register(c) PROVE KeysOwn'
  <2>1. Started(c) /\ UNCHANGED first /\ Started(c)'
    BY <1>1, <1>4 DEF Register, Started
  <2>2. CASE c \in Requests /\ pendingRequests' = With(pendingRequests, first[c], c)
             /\ UNCHANGED pendingBatchRequests
    BY <1>1, <1>2, <2>1, <2>2 DEF KeysOwn, With
  <2>3. CASE c \in Batches
             /\ pendingBatchRequests' = With(pendingBatchRequests, RangeOf(c), c)
             /\ UNCHANGED pendingRequests
    BY <1>1, <1>2, <2>1, <2>3 DEF KeysOwn, With
  <2> QED
    BY <1>4, <2>2, <2>3 DEF Register
<1>5. ASSUME NEW c \in Calls, Call(c), ~Register(c) PROVE Shrinks
  <2>1. CASE RemoveEntry(c)
    BY <2>1 DEF RemoveEntry, Without, Restrict
  <2>2. CASE UNCHANGED tableVars
    BY <2>2 DEF tableVars
  <2> QED
    BY <1>5, <2>1, <2>2 DEF Call, StartRequest, StartBatch, StartNotify, SendOk,
      SendErr, CleanupSendError, Receive, TimerFires, CleanupTimeout, Cancel
<1> QED
  BY <1>3, <1>4, <1>5, TasksShrinkTables DEF Next, Idle

-----------------------------------------------------------------------------
(* Frames *)

LEMMA SentStartedNext ==
  ASSUME TypeOK, SentStarted, [Next]_vars
  PROVE  SentStarted'
<1>1. CASE \E c \in Calls : Transmit(c)
  BY <1>1, StartedStays DEF Transmit, SentStarted, Started, TypeOK, LinkType, callVars
<1>2. CASE Connect
  BY <1>2 DEF Connect, SentStarted, Started, TypeOK, LinkType, callVars
<1>3. CASE Disconnect
  BY <1>3 DEF Disconnect, SentStarted, Started, callVars
<1>4. CASE UNCHANGED <<sentOn, connected, connection>>
  BY <1>4, StartedStays DEF SentStarted
<1>5. \/ UNCHANGED <<sentOn, connected, connection>>
      \/ Connect \/ Disconnect \/ \E c \in Calls : Transmit(c)
  BY DEF Next, Idle, Call, IncomingTask, DisconnectTask, Transport, vars, linkVars,
    StartRequest, StartBatch, StartNotify, Register, SendOk, SendErr,
    CleanupSendError, Receive, TimerFires, CleanupTimeout, Cancel, Deliver,
    IncomingSubscribe, IncomingLagged, IncomingRecv, DisconnectSubscribe,
    DisconnectLagged, DisconnectRecv, RequestsListed, FailRequest, RequestsFailed,
    BatchesListed, FailBatch, BatchesFailed, PeerAnswers, PeerAnswersArray,
    PeerSendsOther
<1> QED
  BY <1>1, <1>2, <1>3, <1>4, <1>5

\* A queue after one step of its receiver holds nothing but what was in it
\* and, when something is published, that.
LEMMA PublishAll ==
  ASSUME NEW Message, NEW r \in Receiver(Message), NEW m \in Message,
         NEW capacity \in Nat \ {0}
  PROVE  \A i \in DOMAIN Publish(r, m, capacity).queue :
           LET x == Publish(r, m, capacity).queue[i]
           IN  x = m \/ \E j \in DOMAIN r.queue : x = r.queue[j]
<1>0. r.queue \in Seq(Message)
  BY DEF Receiver
<1>1. CASE ~r.subscribed
  BY <1>1 DEF Publish
<1>2. CASE r.subscribed /\ Overflows(r, capacity)
  <2>1. Len(r.queue) >= 1
    BY <1>0, <1>2 DEF Overflows
  <2>2. Publish(r, m, capacity).queue = Append(Tail(r.queue), m)
    BY <1>2 DEF Publish, Receiver
  <2>3. \A i \in DOMAIN Append(Tail(r.queue), m) :
           \/ Append(Tail(r.queue), m)[i] = m
           \/ /\ i + 1 \in DOMAIN r.queue
              /\ Append(Tail(r.queue), m)[i] = r.queue[i + 1]
    BY <1>0, <2>1
  <2> QED
    BY <2>2, <2>3
<1>3. CASE r.subscribed /\ ~Overflows(r, capacity)
  <2>1. Publish(r, m, capacity).queue = Append(r.queue, m)
    BY <1>3 DEF Publish, Receiver
  <2>2. \A i \in DOMAIN Append(r.queue, m) :
           \/ Append(r.queue, m)[i] = m
           \/ i \in DOMAIN r.queue /\ Append(r.queue, m)[i] = r.queue[i]
    BY <1>0
  <2> QED
    BY <2>1, <2>2
<1> QED
  BY <1>1, <1>2, <1>3

LEMMA ConsumeAll ==
  ASSUME NEW Message, NEW r \in Receiver(Message), Ready(r)
  PROVE  /\ 1 \in DOMAIN r.queue /\ Head(r.queue) = r.queue[1]
         /\ \A i \in DOMAIN Consume(r).queue :
              \E j \in DOMAIN r.queue : Consume(r).queue[i] = r.queue[j]
<1>1. r.queue \in Seq(Message) /\ r.queue # <<>>
  BY DEF Receiver, Ready
<1>2. Consume(r).queue = Tail(r.queue)
  BY DEF Consume, Receiver
<1>3. \A i \in DOMAIN Tail(r.queue) :
        i + 1 \in DOMAIN r.queue /\ Tail(r.queue)[i] = r.queue[i + 1]
  BY <1>1
<1> QED
  BY <1>1, <1>2, <1>3

\* Which frame a step may add to the queue.
LEMMA FramesOf ==
  ASSUME TypeOK, [Next]_vars
  PROVE  \/ \A i \in DOMAIN messages'.queue :
              \E j \in DOMAIN messages.queue : messages'.queue[i] = messages.queue[j]
         \/ \E c \in Calls : PeerAnswers(c) \/ PeerAnswersArray(c)
         \/ PeerSendsOther
<1>1. CASE UNCHANGED messages
  BY <1>1
<1>2. CASE IncomingSubscribe
  BY <1>2 DEF IncomingSubscribe, Subscribed
<1>3. CASE IncomingLagged
  BY <1>3 DEF IncomingLagged, AcknowledgeLag, TypeOK, ReceiversType, Receiver
<1>4. CASE IncomingRecv
  BY <1>4, ConsumeAll DEF IncomingRecv, TypeOK, ReceiversType
<1> QED
  BY <1>1, <1>2, <1>3, <1>4 DEF Next, Idle, Call, IncomingTask, DisconnectTask,
    Transport, vars, StartRequest, StartBatch, StartNotify, Register, SendOk,
    SendErr, CleanupSendError, Receive, TimerFires, CleanupTimeout, Cancel, Deliver,
    DisconnectSubscribe, DisconnectLagged, DisconnectRecv, RequestsListed,
    FailRequest, RequestsFailed, BatchesListed, FailBatch, BatchesFailed, Connect,
    Disconnect, Transmit

LEMMA PublishGenuine ==
  ASSUME TypeOK, FramesGenuine, [Next]_vars, NEW items \in Seq(Item),
         NEW kind \in {"single", "array", "other"}, PublishMessage(kind, items),
         UNCHANGED <<pc, first>>,
         \A j \in DOMAIN items : Genuine(items[j]), kind = "single" => Len(items) = 1
  PROVE  FramesGenuine'
<1> DEFINE frame == [kind |-> kind, items |-> items]
<1>1. frame \in Frame
  BY DEF Frame
<1>2. \A f : GenuineFrame(f) <=> GenuineFrame(f)'
  BY DEF GenuineFrame, Genuine, Started, Answer, IdOf
<1>3. GenuineFrame(frame)
  BY DEF GenuineFrame
<1>4. \A i \in DOMAIN messages'.queue :
        \/ messages'.queue[i] = frame
        \/ \E j \in DOMAIN messages.queue : messages'.queue[i] = messages.queue[j]
  BY <1>1, PublishAll, ChannelAssumption DEF PublishMessage, TypeOK, ReceiversType
<1> HIDE DEF frame
<1> QED
  BY <1>2, <1>3, <1>4 DEF FramesGenuine

LEMMA FramesNext ==
  ASSUME TypeOK, SentStarted, FramesGenuine, [Next]_vars
  PROVE  FramesGenuine'
<1>1. CASE \A i \in DOMAIN messages'.queue :
             \E j \in DOMAIN messages.queue : messages'.queue[i] = messages.queue[j]
  <2>1. ASSUME NEW f \in Frame, GenuineFrame(f) PROVE GenuineFrame(f)'
    <3>1. \A j \in DOMAIN f.items : f.items[j].call \in Calls
      <4>1. f.items \in Seq(Item)
        BY DEF Frame
      <4>2. \A j \in DOMAIN f.items : f.items[j] \in Item
        BY <4>1
      <4> QED
        BY <4>2 DEF Item
    <3> QED
      BY <2>1, <3>1, GenuineStays DEF GenuineFrame
  <2>2. \A j \in DOMAIN messages.queue :
          messages.queue[j] \in Frame /\ GenuineFrame(messages.queue[j])
    BY DEF FramesGenuine, TypeOK, ReceiversType, Receiver
  <2>3. \A i \in DOMAIN messages'.queue :
          messages'.queue[i] \in Frame /\ GenuineFrame(messages'.queue[i])
    <3> SUFFICES ASSUME NEW i \in DOMAIN messages'.queue
                 PROVE  messages'.queue[i] \in Frame /\ GenuineFrame(messages'.queue[i])
      OBVIOUS
    <3> QED
      BY <1>1, <2>2
  <2> QED
    BY <2>1, <2>3 DEF FramesGenuine
<1>2. ASSUME NEW c \in Calls, PeerAnswers(c) PROVE FramesGenuine'
  <2>1. PICK n \in 0 .. Size(c) : PublishMessage("single", <<Answer(c, n)>>)
    BY <1>2 DEF PeerAnswers
  <2>2. Answer(c, n) \in Item
    BY <2>1, AnswerType DEF TypeOK, CallsType
  <2>3. Started(c)
    BY <1>2, SizeFacts DEF PeerAnswers, CanAnswer, SentStarted, TypeOK, LinkType
  <2>4. Genuine(Answer(c, n))
    BY <2>1, <2>3 DEF Genuine, Answer
  <2> DEFINE items == <<Answer(c, n)>>
  <2>5. items \in Seq(Item) /\ Len(items) = 1 /\ \A j \in DOMAIN items : Genuine(items[j])
    BY <2>2, <2>4
  <2>6. UNCHANGED <<pc, first>>
    BY <1>2 DEF PeerAnswers, callVars
  <2> HIDE DEF items
  <2> QED
    BY <2>1, <2>5, <2>6, PublishGenuine DEF items
<1>3. ASSUME NEW c \in Calls, PeerAnswersArray(c) PROVE FramesGenuine'
  <2>1. PICK shape \in ReplyShapes :
          /\ \A i \in DOMAIN shape : shape[i] <= Size(c)
          /\ PublishMessage("array", [i \in DOMAIN shape |-> Answer(c, shape[i])])
    BY <1>3 DEF PeerAnswersArray
  <2>2. shape \in Seq(Nat)
    BY ChannelAssumption
  <2> DEFINE items == [i \in DOMAIN shape |-> Answer(c, shape[i])]
  <2>3. items \in Seq(Item)
    BY <2>1, <2>2, ArrayType DEF TypeOK
  <2>4. Started(c)
    BY <1>3 DEF PeerAnswersArray, CanAnswer, SentStarted, TypeOK, LinkType
  <2>5. \A j \in DOMAIN items : Genuine(items[j])
    <3>1. \A j \in DOMAIN shape : shape[j] \in 0 .. Size(c)
      BY <2>1, <2>2, SizeFacts
    <3> QED
      BY <2>4, <3>1 DEF Genuine, Answer
  <2>6. UNCHANGED <<pc, first>>
    BY <1>3 DEF PeerAnswersArray, callVars
  <2> HIDE DEF items
  <2> QED
    BY <2>1, <2>3, <2>5, <2>6, PublishGenuine DEF items
<1>4. CASE PeerSendsOther
  <2>1. <<>> \in Seq(Item) /\ DOMAIN <<>> = {}
    OBVIOUS
  <2>2. UNCHANGED <<pc, first>> /\ PublishMessage("other", <<>>)
    BY <1>4 DEF PeerSendsOther, callVars
  <2> QED
    BY <2>1, <2>2, PublishGenuine
<1> QED
  BY <1>1, <1>2, <1>3, <1>4, FramesOf

-----------------------------------------------------------------------------
(* From frame to caller *)

LEMMA SingleIsRight ==
  ASSUME AnswerInv, NEW items \in Seq(Item), Len(items) = 1, Genuine(items[1]),
         items[1].id \in DOMAIN pendingRequests
  PROVE  RightFor(pendingRequests[items[1].id], Reply(items))
<1> DEFINE c == pendingRequests[items[1].id]
<1>1. c \in Requests /\ c \in Calls /\ Started(c) /\ items[1].id = first[c]
  BY DEF AnswerInv, TypeOK, TablesType, KeysOwn, Calls
<1>2. Size(c) = 1 /\ first[c] \in Nat
  BY <1>1, SizeFacts DEF AnswerInv, TypeOK, CallsType
<1>3. items[1] = Answer(c, 1)
  <2>1. items[1] \in Item
    OBVIOUS
  <2>2. items[1].id = IdOf(c, 1) /\ 1 \in 1 .. Size(c)
    BY <1>1, <1>2 DEF IdOf
  <2> QED
    BY <1>1, <2>1, <2>2, Identify DEF AnswerInv
<1>4. OwnAnswers(c) = <<Answer(c, 1)>>
  BY <1>2 DEF OwnAnswers
<1>5. items = <<items[1]>>
  OBVIOUS
<1> QED
  BY <1>1, <1>3, <1>4, <1>5 DEF RightFor, Reply

LEMMA ArrayIsRight ==
  ASSUME AnswerInv, NEW items \in Seq(Item),
         \A j \in DOMAIN items : Genuine(items[j]),
         NEW key \in DOMAIN pendingBatchRequests, Correlates(items, key)
  PROVE  RightFor(pendingBatchRequests[key], Reply(InRequestOrder(items, key)))
<1> DEFINE c == pendingBatchRequests[key]
<1>1. /\ c \in Calls /\ Started(c) /\ key = RangeOf(c) /\ key \in Nat \X Int
  BY DEF AnswerInv, TypeOK, TablesType, KeysOwn, Calls
<1>2. first[c] \in Nat /\ Size(c) \in Nat
  BY <1>1, SizeFacts DEF AnswerInv, TypeOK, CallsType
<1>3. key[1] = first[c] /\ key[2] - key[1] + 1 = Size(c)
  BY <1>1, <1>2 DEF RangeOf, IdOf
<1>4. ASSUME NEW n \in 1 .. Size(c)
      PROVE  InRequestOrder(items, key)[n] = Answer(c, n)
  <2>1. PICK i \in Numbered(items) :
          /\ items[i].id = key[1] + n - 1
          /\ InRequestOrder(items, key)[n] = items[i]
    BY <1>1, <1>3, Placement
  <2>2. i \in DOMAIN items /\ items[i] \in Item /\ Genuine(items[i])
    BY DEF Numbered
  <2>3. items[i].id = IdOf(c, n)
    BY <1>3, <2>1 DEF IdOf
  <2> QED
    BY <1>1, <2>1, <2>2, <2>3, Identify DEF AnswerInv
<1>5. InRequestOrder(items, key) = OwnAnswers(c)
  BY <1>3, <1>4 DEF InRequestOrder, OwnAnswers
<1> QED
  BY <1>1, <1>5 DEF RightFor, Reply

LEMMA HandsNext ==
  ASSUME AnswerInv, [Next]_vars
  PROVE  HandsRight'
<1> USE DEF AnswerInv
<1>1. \A t \in Tasks : \A letter \in hand[t] :
        letter.to \in Calls /\ RightFor(letter.to, letter.value)'
  BY RightStays DEF HandsRight, TypeOK, TasksType, Letter
<1>2. ASSUME \A t \in Tasks : \A letter \in hand'[t] :
               letter \in hand[t] \/ RightFor(letter.to, letter.value)'
      PROVE  HandsRight'
  BY <1>1, <1>2 DEF HandsRight
<1>3. CASE UNCHANGED hand
  BY <1>2, <1>3
<1>4. ASSUME NEW t \in Tasks, Deliver(t) PROVE HandsRight'
  BY <1>2, <1>4 DEF Deliver, TypeOK, TasksType
<1>5. ASSUME NEW t \in Tasks, NEW c \in Calls, NEW value, RightFor(c, value),
             TakeFor(t, c, value)
      PROVE  HandsRight'
  <2>1. RightFor(c, value)'
    BY <1>5, RightStays
  <2>2. hand' = [hand EXCEPT ![t] = {[to |-> c, value |-> value]}]
    BY <1>5 DEF TakeFor
  <2> QED
    BY <1>2, <2>1, <2>2 DEF TypeOK, TasksType
<1>6. /\ \A id \in DOMAIN pendingRequests : pendingRequests[id] \in Calls
      /\ \A key \in DOMAIN pendingBatchRequests : pendingBatchRequests[key] \in Calls
  BY DEF TypeOK, TablesType, Calls
<1>7. CASE IncomingRecv
  <2> DEFINE frame == Head(messages.queue)
  <2>1. frame \in Frame /\ GenuineFrame(frame)
    <3>1. 1 \in DOMAIN messages.queue /\ frame = messages.queue[1]
      BY <1>7, ConsumeAll DEF IncomingRecv, TypeOK, ReceiversType
    <3>2. frame \in Frame
      BY <1>7, ConsumeType DEF IncomingRecv, TypeOK, ReceiversType
    <3> QED
      BY <3>1, <3>2 DEF FramesGenuine
  <2>2. /\ frame.items \in Seq(Item)
        /\ \A j \in DOMAIN frame.items : Genuine(frame.items[j])
        /\ frame.kind = "single" => Len(frame.items) = 1
    BY <2>1 DEF Frame, GenuineFrame
  <2> HIDE DEF frame
  <2>3. CASE frame.kind = "single" /\ HandleSingle(frame.items)
    <3>1. Genuine(frame.items[1])
      BY <2>2, <2>3
    <3>2. CASE frame.items[1].id \in DOMAIN pendingRequests
      <4>1. RightFor(pendingRequests[frame.items[1].id], Reply(frame.items))
        BY <2>2, <2>3, <3>1, <3>2, SingleIsRight
      <4>2. TakeFor("incoming", pendingRequests[frame.items[1].id], Reply(frame.items))
        BY <2>3, <3>2 DEF HandleSingle
      <4> QED
        BY <1>5, <1>6, <3>2, <4>1, <4>2 DEF Tasks
    <3>3. CASE frame.items[1].id \notin DOMAIN pendingRequests
      BY <1>3, <2>3, <3>3 DEF HandleSingle
    <3> QED
      BY <3>2, <3>3
  <2>4. CASE HandleArray(frame.items)
    <3>1. ASSUME NEW key \in DOMAIN pendingBatchRequests,
                 Correlates(frame.items, key),
                 TakeFor("incoming", pendingBatchRequests[key],
                         Reply(InRequestOrder(frame.items, key)))
          PROVE  HandsRight'
      <4>1. RightFor(pendingBatchRequests[key], Reply(InRequestOrder(frame.items, key)))
        BY <2>2, <3>1, ArrayIsRight
      <4> QED
        BY <1>5, <1>6, <3>1, <4>1 DEF Tasks
    <3> QED
      BY <1>3, <2>4, <3>1 DEF HandleArray
  <2>5. CASE UNCHANGED <<hand, tableVars>>
    BY <1>3, <2>5
  <2> QED
    BY <1>7, <2>3, <2>4, <2>5 DEF IncomingRecv, frame
<1>8. \A c : RightFor(c, ConnectionLost)
  BY DEF RightFor, ConnectionLost, Failure
<1>9. ASSUME NEW key \in sweep.keys, FailRequest(key) PROVE HandsRight'
  BY <1>3, <1>5, <1>6, <1>8, <1>9 DEF FailRequest, Tasks
<1>10. ASSUME NEW key \in sweep.keys, FailBatch(key) PROVE HandsRight'
  BY <1>3, <1>5, <1>6, <1>8, <1>10 DEF FailBatch, Tasks
<1>11. \/ UNCHANGED hand
       \/ \E t \in Tasks : Deliver(t)
       \/ IncomingRecv
       \/ \E key \in sweep.keys : FailRequest(key) \/ FailBatch(key)
  BY DEF Next, Idle, Call, IncomingTask, DisconnectTask, Transport, vars, taskVars,
    StartRequest, StartBatch, StartNotify, Register, SendOk, SendErr,
    CleanupSendError, Receive, TimerFires, CleanupTimeout, Cancel, Tasks,
    IncomingSubscribe, IncomingLagged, DisconnectSubscribe, DisconnectLagged,
    DisconnectRecv, RequestsListed, RequestsFailed, BatchesListed, BatchesFailed,
    Connect, Disconnect, Transmit, PeerAnswers, PeerAnswersArray, PeerSendsOther
<1> QED
  BY <1>3, <1>4, <1>7, <1>9, <1>10, <1>11

LEMMA MailboxesNext ==
  ASSUME AnswerInv, [Next]_vars
  PROVE  MailboxesRight'
<1> USE DEF AnswerInv
<1>1. \A c \in Calls : \A value \in mailbox[c] : RightFor(c, value)'
  BY RightStays DEF MailboxesRight
<1>2. CASE \A c \in Calls : mailbox'[c] \subseteq mailbox[c]
  BY <1>1, <1>2 DEF MailboxesRight
<1>3. ASSUME NEW t \in Tasks, Deliver(t) PROVE MailboxesRight'
  <2>1. PICK letter \in hand[t] :
          mailbox' = IF letter.to \in Listening
                       THEN [mailbox EXCEPT ![letter.to] = {letter.value}]
                       ELSE mailbox
    BY <1>3 DEF Deliver
  <2>2. letter.to \in Calls /\ RightFor(letter.to, letter.value)'
    BY <2>1, RightStays DEF HandsRight, TypeOK, TasksType, Letter
  <2> QED
    BY <1>1, <2>1, <2>2 DEF MailboxesRight, TypeOK, CallsType
<1>4. ASSUME NEW c \in Calls, Call(c)
      PROVE  \A d \in Calls : mailbox'[d] \subseteq mailbox[d]
  <2>1. UNCHANGED mailbox \/ mailbox' = [mailbox EXCEPT ![c] = {}]
    BY <1>4 DEF Call, StartRequest, StartBatch, StartNotify, Register, SendOk,
      SendErr, CleanupSendError, Receive, TimerFires, CleanupTimeout, Cancel,
      Continue, Return, DropReceiver
  <2> QED
    BY <2>1 DEF TypeOK, CallsType
<1>5. \/ UNCHANGED mailbox
      \/ \E t \in Tasks : Deliver(t)
      \/ \E c \in Calls : Call(c)
  BY DEF Next, Idle, IncomingTask, DisconnectTask, Transport, vars, Tasks,
    IncomingSubscribe, IncomingLagged, IncomingRecv, DisconnectSubscribe,
    DisconnectLagged, DisconnectRecv, RequestsListed, FailRequest, RequestsFailed,
    BatchesListed, FailBatch, BatchesFailed, Connect, Disconnect, Transmit,
    PeerAnswers, PeerAnswersArray, PeerSendsOther
<1> QED
  BY <1>2, <1>3, <1>4, <1>5

LEMMA OutcomesNext ==
  ASSUME AnswerInv, [Next]_vars
  PROVE  OutcomesRight'
<1> USE DEF AnswerInv
<1>1. \A c \in Calls : \A value \in mailbox[c] \union {outcome[c]} :
        RightFor(c, value)'
  BY RightStays DEF OutcomesRight, MailboxesRight
<1>2. CASE UNCHANGED outcome
  BY <1>1, <1>2 DEF OutcomesRight, RightFor
<1>3. ASSUME NEW c \in Calls, NEW value, RightFor(c, value)',
             outcome' = [outcome EXCEPT ![c] = value]
      PROVE  OutcomesRight'
  BY <1>1, <1>3 DEF OutcomesRight, TypeOK, CallsType
<1>4. ASSUME NEW c \in Calls, NEW tag, tag # "reply",
             outcome' = [outcome EXCEPT ![c] = Failure(tag)]
      PROVE  OutcomesRight'
  <2>1. RightFor(c, Failure(tag))'
    BY <1>4 DEF RightFor, Failure
  <2> QED
    BY <1>3, <1>4, <2>1
<1>5. ASSUME NEW c \in Calls, Receive(c) PROVE OutcomesRight'
  <2>1. PICK value \in mailbox[c] : outcome' = [outcome EXCEPT ![c] = value]
    BY <1>5 DEF Receive, Return
  <2> QED
    BY <1>1, <1>3, <2>1
<1>6. ASSUME NEW c \in Calls, Call(c), ~Receive(c)
      PROVE  \/ UNCHANGED outcome
             \/ \E tag : tag # "reply" /\ outcome' = [outcome EXCEPT ![c] = Failure(tag)]
  BY <1>6 DEF Call, StartRequest, StartBatch, StartNotify, Register, SendOk, SendErr,
    CleanupSendError, TimerFires, CleanupTimeout, Cancel, Continue, Return
<1> QED
  BY <1>2, <1>4, <1>5, <1>6, CallersOnly DEF Next, Idle

LEMMA AnswerInvInit == Init => AnswerInv
<1> SUFFICES ASSUME Init PROVE AnswerInv
  OBVIOUS
<1>1. \A c \in Calls : ~Started(c)
  BY DEF Init, Started
<1>2. IdsReserved /\ IdsApart
  BY <1>1 DEF IdsReserved, IdsApart, HasIds
<1>3. KeysOwn /\ SentStarted
  BY DEF Init, KeysOwn, SentStarted
<1>4. FramesGenuine /\ HandsRight /\ MailboxesRight
  BY DEF Init, FramesGenuine, HandsRight, MailboxesRight, Unsubscribed
<1>5. OutcomesRight
  BY DEF Init, OutcomesRight, RightFor, NotReturned, Failure
<1> QED
  BY <1>2, <1>3, <1>4, <1>5, TypeInit DEF AnswerInv

LEMMA AnswerInvNext == AnswerInv /\ [Next]_vars => AnswerInv'
BY TypeNext, IdsNext, KeysOwnNext, SentStartedNext, FramesNext, HandsNext,
   MailboxesNext, OutcomesNext DEF AnswerInv

(***************************************************************************)
(* Whatever the number of calls and connections, the capacities of the     *)
(* channels and the order in which the peer answers: a reply that a call   *)
(* returns consists of the answers to its own requests, in their order.    *)
(***************************************************************************)
THEOREM OwnAnswerHolds == Spec => []OwnAnswer
<1>1. AnswerInv => OwnAnswer
  BY DEF AnswerInv, OutcomesRight, RightFor, OwnAnswer
<1> QED
  BY <1>1, AnswerInvInit, AnswerInvNext, PTL DEF Spec

=============================================================================
