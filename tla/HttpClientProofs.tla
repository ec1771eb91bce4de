--------------------------- MODULE HttpClientProofs ---------------------------
(***************************************************************************)
(* Proofs about HttpClient, for any number of calls and bodies and any     *)
(* width of the counter: no id twice (RequestIdManager), replies out of    *)
(* success responses only, the answers a call gets are its own, batches    *)
(* are sent whole, and the client implements RpcCalls.                     *)
(***************************************************************************)
EXTENDS HttpClient, TLAPS

\* Until the counter has gone round, the ids are 0, 1, 2, ... in order.
IdsInv ==
  /\ IdsType
  /\ Len(issued) <= Modulus => \A i \in DOMAIN issued : issued[i] = i - 1
  /\ Len(issued) < Modulus => currentId = Len(issued)

LEMMA ModBelow == \A a \in 0 .. Modulus - 1 : a % Modulus = a
BY ModulusAssumption

LEMMA ModType == \A a \in Nat : a % Modulus \in 0 .. Modulus - 1
BY ModulusAssumption

LEMMA ConcatFacts ==
  ASSUME NEW S, NEW s \in Seq(S), NEW t \in Seq(S)
  PROVE  /\ s \o t \in Seq(S)
         /\ Len(s \o t) = Len(s) + Len(t)
         /\ \A i \in DOMAIN (s \o t) :
              (s \o t)[i] = IF i <= Len(s) THEN s[i] ELSE t[i - Len(s)]
OBVIOUS

\* What one fetch_add does to the history.
LEMMA TakeIds ==
  ASSUME IdsInv, NEW count \in Nat, Take(count)
  PROVE  IdsInv'
<1> DEFINE S == 0 .. Modulus - 1
           more == Covered(currentId, count)
<1>1. currentId \in S /\ issued \in Seq(S) /\ Len(issued) \in Nat
  BY DEF IdsInv, IdsType
<1>2. more \in Seq(S) /\ Len(more) = count
  <2>1. ASSUME NEW n \in 1 .. count PROVE (currentId + n - 1) % Modulus \in S
    <3>1. currentId + n - 1 \in Nat
      BY <1>1, ModulusAssumption
    <3> QED
      BY <3>1, ModType
  <2> QED
    BY <2>1 DEF Covered
<1>3. issued' = issued \o more /\ currentId' = (currentId + count) % Modulus
  BY DEF Take
<1> HIDE DEF S, more
<1>4. /\ issued' \in Seq(S)
      /\ Len(issued') = Len(issued) + count
      /\ \A i \in DOMAIN issued' :
           issued'[i] = IF i <= Len(issued) THEN issued[i] ELSE more[i - Len(issued)]
  BY <1>1, <1>2, <1>3, ConcatFacts
<1>5. IdsType'
  <2>1. currentId' \in S
    <3>1. currentId + count \in Nat
      BY <1>1, ModulusAssumption DEF S
    <3> QED
      BY <1>3, <3>1, ModType DEF S
  <2> QED
    BY <2>1, <1>4 DEF IdsType, S
<1>6. ASSUME Len(issued') <= Modulus, NEW i \in DOMAIN issued'
      PROVE  issued'[i] = i - 1
  <2>1. CASE i <= Len(issued)
    <3>1. i \in DOMAIN issued /\ Len(issued) <= Modulus
      BY <1>1, <1>4, <1>6, <2>1, ModulusAssumption
    <3> QED
      BY <1>4, <1>6, <2>1, <3>1 DEF IdsInv
  <2>2. CASE i > Len(issued)
    <3>1. i \in 1 .. Len(issued) + count /\ Len(issued) < Modulus
      BY <1>1, <1>4, <1>6, <2>2, ModulusAssumption
    <3>2. currentId = Len(issued)
      BY <3>1 DEF IdsInv
    <3>3. i - Len(issued) \in 1 .. count
      BY <1>1, <2>2, <3>1
    <3>4. more[i - Len(issued)] = (currentId + (i - Len(issued)) - 1) % Modulus
      BY <3>3 DEF more, Covered
    <3>5. currentId + (i - Len(issued)) - 1 = i - 1
      BY <1>1, <3>1, <3>2
    <3>6. i - 1 \in 0 .. Modulus - 1
      BY <1>1, <1>4, <1>6, <3>1, ModulusAssumption
    <3> QED
      BY <1>4, <1>6, <2>2, <3>1, <3>4, <3>5, <3>6, ModBelow
  <2>3. i \in Int /\ Len(issued) \in Int
    BY <1>1, <1>4, <1>6
  <2> QED
    BY <2>1, <2>2, <2>3
<1>7. ASSUME Len(issued') < Modulus
      PROVE  currentId' = Len(issued')
  <2>1. Len(issued) < Modulus /\ Len(issued) + count \in 0 .. Modulus - 1
    BY <1>1, <1>4, <1>7, ModulusAssumption
  <2> QED
    BY <1>3, <1>4, <2>1, ModBelow DEF IdsInv
<1> QED
  BY <1>5, <1>6, <1>7 DEF IdsInv

-----------------------------------------------------------------------------

LEMMA InitIdsInv == Init => IdsInv
<1> SUFFICES ASSUME Init PROVE IdsInv
  OBVIOUS
<1>1. currentId = 0 /\ issued = <<>>
  BY DEF Init, InitIds
<1> QED
  BY <1>1, ModulusAssumption DEF IdsInv, IdsType

\* The queues of the batches are sequences, so that a batch takes a number of ids.
QueuesAreSequences == requests \in [Batches -> Seq(Params)]

LEMMA InitQueuesType == Init => QueuesAreSequences
<1>1. <<>> \in Seq(Params)
  OBVIOUS
<1> QED
  BY <1>1 DEF Init, InitQueues, QueuesAreSequences

LEMMA StepQueues == QueuesAreSequences /\ [Next]_vars => QueuesAreSequences'
<1> SUFFICES ASSUME QueuesAreSequences, [Next]_vars PROVE QueuesAreSequences'
  OBVIOUS
<1>1. ASSUME NEW b \in Batches, Queue(b)
      PROVE  QueuesAreSequences'
  <2>1. PICK p \in Params : AddRequest(b, p) \/ AddNotification(b, p)
    BY <1>1 DEF Queue
  <2>2. Append(requests[b], p) \in Seq(Params)
    BY DEF QueuesAreSequences
  <2> QED
    BY <2>1, <2>2 DEF AddRequest, AddNotification, QueuesAreSequences
<1>2. CASE UNCHANGED requests
  BY <1>2 DEF QueuesAreSequences
<1> QED
  BY <1>1, <1>2 DEF Next, vars, queueVars, StartRequest, StartNotify, StartBatch,
     TransportFails, SendReturns, BodyArrives, Idle

LEMMA StepIds == IdsInv /\ QueuesAreSequences /\ [Next]_vars => IdsInv'
<1> SUFFICES ASSUME IdsInv, QueuesAreSequences, [Next]_vars PROVE IdsInv'
  OBVIOUS
<1>1. CASE UNCHANGED idVars
  BY <1>1 DEF idVars, IdsInv, IdsType
<1>2. ASSUME NEW c \in Requests, StartRequest(c) PROVE IdsInv'
  BY <1>2, TakeIds DEF StartRequest
<1>3. ASSUME NEW b \in Batches, StartBatch(b) PROVE IdsInv'
  <2>1. Len(requests[b]) \in Nat
    BY DEF QueuesAreSequences
  <2> QED
    BY <1>1, <1>3, <2>1, TakeIds DEF StartBatch, idVars
<1> QED
  BY <1>1, <1>2, <1>3 DEF Next, vars, Queue, StartRequest, StartNotify, StartBatch,
     TransportFails, SendReturns, BodyArrives, Idle

(***************************************************************************)
(* No id is handed out twice before the counter has gone round, whatever   *)
(* the calls of the client do at the same time.                            *)
(***************************************************************************)
THEOREM IdsAreUnique == Spec => []IdsUnique
<1>1. Init => IdsInv /\ QueuesAreSequences
  BY InitIdsInv, InitQueuesType
<1>2. (IdsInv /\ QueuesAreSequences) /\ [Next]_vars => (IdsInv /\ QueuesAreSequences)'
  BY StepIds, StepQueues
<1>3. IdsInv /\ QueuesAreSequences => IdsUnique
  <2> SUFFICES ASSUME IdsInv, Len(issued) <= Modulus,
                      NEW i \in DOMAIN issued, NEW j \in DOMAIN issued,
                      issued[i] = issued[j]
               PROVE  i = j
    BY DEF IdsUnique
  <2>1. i \in Int /\ j \in Int
    BY DEF IdsInv, IdsType
  <2> QED
    BY <2>1 DEF IdsInv
<1> QED
  BY <1>1, <1>2, <1>3, PTL DEF Spec
-----------------------------------------------------------------------------
(* How far a call is *)

HttpType ==
  /\ DOMAIN pc = Calls /\ DOMAIN posted = Calls
  /\ DOMAIN status = Calls /\ DOMAIN outcome = Calls
  /\ requests \in [Batches -> Seq(Params)]
  /\ notifications \in [Batches -> Seq(Params)]

\* What the point a call has reached says about its message and its outcome.
Progress(c) ==
  /\ pc[c] \in {"idle", "sending", "reading", "done"}
  /\ pc[c] \in {"idle", "sending"} => status[c] = "none"
  /\ pc[c] = "idle" => posted[c] = NothingPosted
  /\ pc[c] # "done" => outcome[c] = NotReturned
  /\ pc[c] \in {"sending", "reading"} => posted[c] # NothingPosted
  /\ pc[c] \in {"sending", "reading"} /\ c \in Batches => ~NothingQueued(c)
  /\ pc[c] = "reading" => status[c] = "success" /\ ExpectsReply(c)
  /\ outcome[c].tag = "reply" => status[c] = "success"
  /\ outcome[c].tag = "no batch" => c \in Batches

ProgressInv == HttpType /\ \A c \in Calls : Progress(c)

CallStep(c) ==
  \/ StartRequest(c) \/ StartNotify(c) \/ StartBatch(c)
  \/ TransportFails(c) \/ SendReturns(c) \/ BodyArrives(c)

LEMMA Tags ==
  /\ NotReturned.tag = "none yet"
  /\ \A tag : Failure(tag).tag = tag
  /\ \A p : Refusal(p) \in {"serde error", "invalid params"}
BY DEF NotReturned, Failure, Refusal

LEMMA DecodedTags ==
  ASSUME NEW body, NEW range, NEW parser, NEW parsers
  PROVE  /\ DecodeSingle(body, range, parser).tag \in {"reply", "serde error", "invalid message"}
         /\ DecodeBatch(body, range, parsers).tag \in {"reply", "serde error", "invalid message"}
BY Tags DEF DecodeSingle, DecodeBatch, Undecodable

LEMMA CallVariables ==
  ASSUME NEW c \in Calls, CallStep(c)
  PROVE  /\ UNCHANGED queueVars
         /\ \E label : pc' = [pc EXCEPT ![c] = label]
         /\ UNCHANGED posted \/ \E message : posted' = [posted EXCEPT ![c] = message]
         /\ UNCHANGED status \/ \E result : status' = [status EXCEPT ![c] = result]
         /\ UNCHANGED outcome \/ \E result : outcome' = [outcome EXCEPT ![c] = result]
<1>1. \A message : Post(c, message) =>
        /\ posted' = [posted EXCEPT ![c] = message]
        /\ pc' = [pc EXCEPT ![c] = "sending"]
        /\ UNCHANGED outcome
  BY DEF Post, Continue
<1>2. \A result : Return(c, result) =>
        /\ pc' = [pc EXCEPT ![c] = "done"]
        /\ outcome' = [outcome EXCEPT ![c] = result]
  BY DEF Return
<1>3. Continue(c, "reading") => pc' = [pc EXCEPT ![c] = "reading"] /\ UNCHANGED outcome
  BY DEF Continue
<1>4. CASE StartRequest(c) \/ StartNotify(c) \/ StartBatch(c)
  BY <1>1, <1>2, <1>4 DEF StartRequest, StartNotify, StartBatch
<1>5. CASE TransportFails(c)
  BY <1>2, <1>5 DEF TransportFails
<1>6. CASE SendReturns(c)
  BY <1>2, <1>3, <1>6 DEF SendReturns
<1>7. CASE BodyArrives(c)
  BY <1>2, <1>7 DEF BodyArrives
<1> QED
  BY <1>4, <1>5, <1>6, <1>7 DEF CallStep

\* A call moves nothing but its own state.
LEMMA OthersStay ==
  ASSUME HttpType, NEW c \in Calls, CallStep(c)
  PROVE  /\ HttpType'
         /\ \A d \in Calls \ {c} : /\ pc'[d] = pc[d] /\ posted'[d] = posted[d]
                                   /\ status'[d] = status[d] /\ outcome'[d] = outcome[d]
BY CallVariables DEF HttpType, queueVars

LEMMA Posts ==
  ASSUME HttpType, NEW c \in Calls, NEW message, Post(c, message)
  PROVE  pc'[c] = "sending" /\ posted'[c] = message /\ outcome'[c] = outcome[c]
BY DEF Post, Continue, HttpType

LEMMA Returns ==
  ASSUME HttpType, NEW c \in Calls, NEW result, Return(c, result)
  PROVE  pc'[c] = "done" /\ outcome'[c] = result
BY DEF Return, HttpType

LEMMA QueueSteps ==
  ASSUME HttpType, NEW b \in Batches, Queue(b)
  PROVE  /\ HttpType' /\ pc[b] = "idle"
         /\ UNCHANGED <<idVars, pc, posted, status, outcome>>
         /\ \A d \in Batches \ {b} : /\ requests'[d] = requests[d]
                                     /\ notifications'[d] = notifications[d]
<1>1. PICK p \in Params : AddRequest(b, p) \/ AddNotification(b, p)
  BY DEF Queue
<1>2. Append(requests[b], p) \in Seq(Params) /\ Append(notifications[b], p) \in Seq(Params)
  BY DEF HttpType
<1>3. /\ UNCHANGED requests \/ requests' = [requests EXCEPT ![b] = Append(@, p)]
      /\ UNCHANGED notifications \/ notifications' = [notifications EXCEPT ![b] = Append(@, p)]
  BY <1>1 DEF AddRequest, AddNotification
<1>4. pc[b] = "idle" /\ UNCHANGED <<idVars, pc, posted, status, outcome>>
  BY DEF Queue
<1> QED
  BY <1>2, <1>3, <1>4 DEF HttpType

LEMMA MessagesArePosted ==
  /\ \A start, count, items, parsers :
       [range |-> RangeFrom(start, count), items |-> items, parsers |-> parsers] # NothingPosted
  /\ \A p : [NothingPosted EXCEPT !.items = <<Notification(p)>>] # NothingPosted
<1>1. ASSUME NEW start, NEW count PROVE RangeFrom(start, count) # NoRange
  BY DEF RangeFrom, NoRange
<1>2. \A p : <<Notification(p)>> # <<>>
  OBVIOUS
<1> QED
  BY <1>1, <1>2 DEF NothingPosted

LEMMA BuiltIsPosted ==
  ASSUME HttpType, NEW b \in Batches, NEW start, ~NothingQueued(b)
  PROVE  Built(b, start) # NothingPosted
<1>1. CASE requests[b] # <<>>
  <2>1. Built(b, start).range = RangeFrom(start, Len(requests[b]))
    BY <1>1 DEF Built
  <2>2. RangeFrom(start, Len(requests[b])) # NoRange
    BY DEF RangeFrom, NoRange
  <2> QED
    BY <2>1, <2>2 DEF NothingPosted
<1>2. CASE requests[b] = <<>>
  <2>1. notifications[b] \in Seq(Params) /\ notifications[b] # <<>>
    BY <1>2 DEF HttpType, NothingQueued
  <2>2. Built(b, start).items = <<>> \o NotificationItems(notifications[b])
    BY <1>2 DEF Built
  <2>3. /\ NotificationItems(notifications[b]) \in Seq({Notification(p) : p \in Params})
        /\ Len(NotificationItems(notifications[b])) = Len(notifications[b])
    BY <2>1 DEF NotificationItems
  <2>4. Len(Built(b, start).items) = Len(notifications[b]) /\ Len(notifications[b]) # 0
    BY <2>1, <2>2, <2>3
  <2> QED
    BY <2>4 DEF NothingPosted
<1> QED
  BY <1>1, <1>2

-----------------------------------------------------------------------------
(* Progress is an invariant *)

LEMMA InitProgress == Init => ProgressInv
<1> SUFFICES ASSUME Init PROVE ProgressInv
  OBVIOUS
<1>1. HttpType
  BY InitQueuesType DEF Init, InitQueues, HttpType
<1>2. \A c \in Calls : Progress(c)
  BY Tags DEF Init, Progress
<1> QED
  BY <1>1, <1>2 DEF ProgressInv

LEMMA StartProgress ==
  ASSUME HttpType, NEW c \in Calls, Progress(c),
         StartRequest(c) \/ StartNotify(c) \/ StartBatch(c)
  PROVE  Progress(c)'
<1>1. /\ pc[c] = "idle" /\ status' = status /\ UNCHANGED queueVars
      /\ status[c] = "none" /\ outcome[c] = NotReturned /\ posted[c] = NothingPosted
  BY DEF StartRequest, StartNotify, StartBatch, Progress
<1>2. NothingQueued(c)' <=> NothingQueued(c)
  BY <1>1 DEF NothingQueued, queueVars
<1>3. ASSUME NEW message, Post(c, message), message # NothingPosted,
             c \in Batches => ~NothingQueued(c)
      PROVE  Progress(c)'
  <2>1. pc'[c] = "sending" /\ posted'[c] = message /\ outcome'[c] = outcome[c]
    BY <1>3, Posts
  <2> QED
    BY <1>1, <1>2, <1>3, <2>1, Tags DEF Progress
<1>4. ASSUME NEW tag, Return(c, Failure(tag)), tag # "reply", tag = "no batch" => c \in Batches
      PROVE  Progress(c)'
  <2>1. pc'[c] = "done" /\ outcome'[c] = Failure(tag)
    BY <1>4, Returns
  <2> QED
    BY <1>4, <2>1, Tags DEF Progress
<1>5. CASE StartRequest(c)
  <2>1. c \notin Batches
    BY <1>5, CallsAssumption DEF StartRequest
  <2>2. PICK p \in Params :
          \/ Post(c, [range   |-> RangeFrom(currentId, 1),
                      items   |-> <<Request(currentId, p)>>,
                      parsers |-> <<p>>])
          \/ Return(c, Failure(Refusal(p)))
    BY <1>5 DEF StartRequest
  <2>3. Return(c, Failure(Refusal(p))) => Progress(c)'
    BY <1>4, Tags
  <2> QED
    BY <1>3, <2>1, <2>2, <2>3, MessagesArePosted
<1>6. CASE StartNotify(c)
  <2>1. c \notin Batches
    BY <1>6, CallsAssumption DEF StartNotify
  <2>2. PICK p \in Params :
          \/ Post(c, [NothingPosted EXCEPT !.items = <<Notification(p)>>])
          \/ Return(c, Failure(Refusal(p)))
    BY <1>6 DEF StartNotify
  <2>3. Return(c, Failure(Refusal(p))) => Progress(c)'
    BY <1>4, Tags
  <2> QED
    BY <1>3, <2>1, <2>2, <2>3, MessagesArePosted
<1>7. CASE StartBatch(c)
  <2>0. c \in Batches
    BY <1>7 DEF StartBatch
  <2>1. \/ Return(c, Failure("no batch"))
        \/ Return(c, Failure("panic"))
        \/ ~NothingQueued(c) /\ Post(c, Built(c, currentId)) /\ c \in Batches
    BY <1>7 DEF StartBatch
  <2> QED
    BY <1>3, <1>4, <2>0, <2>1, BuiltIsPosted
<1> QED
  BY <1>5, <1>6, <1>7

LEMMA ExchangeProgress ==
  ASSUME HttpType, NEW c \in Calls, Progress(c),
         TransportFails(c) \/ SendReturns(c) \/ BodyArrives(c)
  PROVE  Progress(c)'
<1>1. /\ pc[c] \in {"sending", "reading"} /\ UNCHANGED <<posted, queueVars>>
      /\ posted[c] # NothingPosted
  BY DEF TransportFails, SendReturns, BodyArrives, Progress
<1>2. /\ NothingQueued(c)' <=> NothingQueued(c)
      /\ ExpectsReply(c)' <=> ExpectsReply(c)
  BY <1>1 DEF NothingQueued, queueVars, ExpectsReply
<1>3. ASSUME NEW tag, Return(c, Failure(tag)), tag # "reply", tag = "no batch" => c \in Batches
      PROVE  Progress(c)'
  <2>1. pc'[c] = "done" /\ outcome'[c] = Failure(tag)
    BY <1>3, Returns
  <2> QED
    BY <1>3, <2>1, Tags DEF Progress
<1>4. CASE TransportFails(c)
  BY <1>3, <1>4 DEF TransportFails
<1>5. CASE SendReturns(c)
  <2>1. PICK result \in {"success", "failure"} :
          /\ status' = [status EXCEPT ![c] = result]
          /\ \/ Return(c, Failure(IF c \in Batches THEN "no batch" ELSE "sent"))
             \/ Return(c, Failure("transport error"))
             \/ ExpectsReply(c) /\ result = "success" /\ Continue(c, "reading")
    BY <1>5 DEF SendReturns
  <2>2. CASE ExpectsReply(c) /\ result = "success" /\ Continue(c, "reading")
    <3>1. pc'[c] = "reading" /\ outcome'[c] = outcome[c] /\ posted'[c] = posted[c]
      BY <1>1, <2>2 DEF Continue, HttpType
    <3>2. status'[c] = "success" /\ pc[c] = "sending"
      BY <1>5, <2>1, <2>2 DEF HttpType, SendReturns
    <3> QED
      BY <1>1, <1>2, <2>2, <3>1, <3>2, Tags DEF Progress
  <2> QED
    BY <1>3, <2>1, <2>2
<1>6. CASE BodyArrives(c)
  <2>1. PICK body \in Bodies :
          Return(c, IF c \in Requests
                      THEN DecodeSingle(body, posted[c].range[1], posted[c].parsers[1])
                      ELSE DecodeBatch(body, posted[c].range, posted[c].parsers))
    BY <1>6 DEF BodyArrives
  <2>2. pc'[c] = "done" /\ outcome'[c].tag # "no batch"
    <3> DEFINE value == IF c \in Requests
                          THEN DecodeSingle(body, posted[c].range[1], posted[c].parsers[1])
                          ELSE DecodeBatch(body, posted[c].range, posted[c].parsers)
    <3>1. Return(c, value)
      BY <2>1
    <3>2. value.tag # "no batch"
      BY DecodedTags
    <3> HIDE DEF value
    <3> QED
      BY <3>1, <3>2, Returns
  <2>3. status'[c] = "success"
    BY <1>6 DEF BodyArrives, Progress
  <2> QED
    BY <2>2, <2>3 DEF Progress
<1> QED
  BY <1>4, <1>5, <1>6

LEMMA SameProgress ==
  ASSUME NEW d \in Calls, Progress(d),
         pc'[d] = pc[d], posted'[d] = posted[d], status'[d] = status[d],
         outcome'[d] = outcome[d],
         d \in Batches => requests'[d] = requests[d] /\ notifications'[d] = notifications[d]
  PROVE  Progress(d)'
BY DEF Progress, NothingQueued, ExpectsReply

LEMMA StepProgress == ProgressInv /\ [Next]_vars => ProgressInv'
<1> SUFFICES ASSUME ProgressInv, [Next]_vars PROVE ProgressInv'
  OBVIOUS
<1>1. HttpType /\ \A c \in Calls : Progress(c)
  BY DEF ProgressInv
<1>2. ASSUME NEW c \in Calls, CallStep(c) PROVE ProgressInv'
  <2>1. HttpType' /\ \A d \in Calls \ {c} : Progress(d)'
    BY <1>1, <1>2, OthersStay, CallVariables, SameProgress DEF queueVars
  <2>2. Progress(c)'
    BY <1>1, <1>2, StartProgress, ExchangeProgress DEF CallStep
  <2> QED
    BY <2>1, <2>2 DEF ProgressInv
<1>3. ASSUME NEW b \in Batches, Queue(b) PROVE ProgressInv'
  <2>1. HttpType' /\ pc[b] = "idle" /\ b \in Calls
        /\ UNCHANGED <<pc, posted, status, outcome>>
    BY <1>1, <1>3, QueueSteps DEF Calls
  <2>2. \A d \in Calls \ {b} : Progress(d)'
    BY <1>1, <1>3, <2>1, QueueSteps, SameProgress
  <2>3. Progress(b)'
    BY <1>1, <2>1, Tags DEF Progress
  <2> QED
    BY <2>1, <2>2, <2>3 DEF ProgressInv
<1>4. CASE UNCHANGED vars
  <2>1. HttpType'
    BY <1>1, <1>4 DEF HttpType, vars, queueVars
  <2>2. \A d \in Calls : Progress(d)'
    BY <1>1, <1>4, SameProgress DEF vars, queueVars
  <2> QED
    BY <2>1, <2>2 DEF ProgressInv
<1> QED
  BY <1>2, <1>3, <1>4 DEF Next, CallStep, Idle

(***************************************************************************)
(* A reply is only ever read out of a success response, whatever is        *)
(* exchanged at the same time (ensure_success).                            *)
(***************************************************************************)
THEOREM OnlySuccessReplies == Spec => []RepliesFromSuccess
<1>1. ProgressInv => RepliesFromSuccess
  BY DEF ProgressInv, Progress, RepliesFromSuccess
<1> QED
  BY <1>1, InitProgress, StepProgress, PTL DEF Spec

-----------------------------------------------------------------------------
(* The messages: until the ids go round, a call's ids are its own *)

Within == Len(issued) <= Modulus

First(c) == posted[c].range[1]
Count(c) == Len(posted[c].parsers)

\* A call that expects a reply has reserved the ids its items carry, one for
\* each thing it asks for.
Numbering(c) ==
  /\ c \in Requests \union Batches
  /\ c \in Requests => Count(c) = 1
  /\ c \in Batches => posted[c].parsers = requests[c]
  /\ Count(c) > 0
  /\ First(c) \in Nat /\ First(c) + Count(c) <= Len(issued)
  /\ posted[c].range = <<First(c), First(c) + Count(c) - 1>>
  /\ \A n \in 1 .. Count(c) :
       /\ posted[c].items[n].id = First(c) + n - 1
       /\ posted[c].items[n].params = posted[c].parsers[n]

MessageRight(c) ==
  /\ posted[c].parsers \in Seq(Params)
  /\ ExpectsReply(c) => Numbering(c)
  /\ ~ExpectsReply(c) => posted[c].parsers = <<>>

Apart(c, d) ==
  ExpectsReply(c) /\ ExpectsReply(d) =>
    First(c) + Count(c) <= First(d) \/ First(d) + Count(d) <= First(c)

MessagesRight ==
  Within => /\ \A c \in Calls : MessageRight(c)
            /\ \A c, d \in Calls : c # d => Apart(c, d)

LEMMA SameItem ==
  ASSUME Within, MessagesRight, NEW c \in Calls, NEW d \in Calls,
         NEW n \in DOMAIN posted[c].parsers, NEW m \in DOMAIN posted[d].parsers,
         posted[c].items[n].id = posted[d].items[m].id
  PROVE  c = d /\ n = m
<1>1. MessageRight(c) /\ MessageRight(d) /\ (c # d => Apart(c, d))
  BY DEF MessagesRight
<1>2. /\ n \in 1 .. Count(c) /\ Count(c) \in Nat
      /\ m \in 1 .. Count(d) /\ Count(d) \in Nat
  BY <1>1 DEF MessageRight, Count
<1>3. ExpectsReply(c) /\ ExpectsReply(d) /\ Numbering(c) /\ Numbering(d)
  BY <1>1, <1>2 DEF MessageRight, Count
<1>4. First(c) + n - 1 = First(d) + m - 1 /\ First(c) \in Nat /\ First(d) \in Nat
  BY <1>2, <1>3 DEF Numbering
<1> QED
  BY <1>1, <1>2, <1>3, <1>4 DEF Apart

\* The ids of a reservation that does not go round.
LEMMA TakeWithin ==
  ASSUME IdsInv, NEW count \in Nat, Take(count), Within'
  PROVE  /\ Within /\ Len(issued') = Len(issued) + count /\ Len(issued) \in Nat
         /\ count > 0 => /\ currentId = Len(issued)
                         /\ RangeFrom(currentId, count) = <<Len(issued), Len(issued) + count - 1>>
<1>1. currentId \in 0 .. Modulus - 1 /\ issued \in Seq(0 .. Modulus - 1) /\ Len(issued) \in Nat
  BY DEF IdsInv, IdsType
<1>2. Covered(currentId, count) \in Seq(0 .. Modulus - 1) /\ Len(Covered(currentId, count)) = count
  <2>1. ASSUME NEW n \in 1 .. count PROVE (currentId + n - 1) % Modulus \in 0 .. Modulus - 1
    <3>1. currentId + n - 1 \in Nat
      BY <1>1, ModulusAssumption
    <3> QED
      BY <3>1, ModType
  <2> QED
    BY <2>1 DEF Covered
<1>3. Len(issued') = Len(issued) + count
  BY <1>1, <1>2, ConcatFacts DEF Take
<1>4. Within
  BY <1>1, <1>3, ModulusAssumption DEF Within
<1>5. ASSUME count > 0
      PROVE  /\ currentId = Len(issued)
             /\ RangeFrom(currentId, count) = <<Len(issued), Len(issued) + count - 1>>
  <2>1. Len(issued) < Modulus /\ Len(issued) + count - 1 \in 0 .. Modulus - 1
    BY <1>1, <1>3, <1>5, ModulusAssumption DEF Within
  <2>2. currentId = Len(issued)
    BY <2>1 DEF IdsInv
  <2> QED
    BY <2>1, <2>2, ModBelow DEF RangeFrom
<1> QED
  BY <1>1, <1>3, <1>4, <1>5

LEMMA IssuedGrows ==
  ASSUME IdsInv, HttpType, [Next]_vars, Within'
  PROVE  Within
<1>1. CASE UNCHANGED idVars
  BY <1>1 DEF idVars, Within
<1>2. ASSUME NEW c \in Requests, StartRequest(c) PROVE Within
  BY <1>2, TakeWithin DEF StartRequest
<1>3. ASSUME NEW b \in Batches, StartBatch(b) PROVE Within
  <2>1. Len(requests[b]) \in Nat
    BY DEF HttpType
  <2> QED
    BY <1>1, <1>3, <2>1, TakeWithin DEF StartBatch, idVars
<1> QED
  BY <1>1, <1>2, <1>3 DEF Next, vars, Queue, StartRequest, StartNotify, StartBatch,
     TransportFails, SendReturns, BodyArrives, Idle

\* What a batch POSTs when its ids do not go round.
LEMMA BuiltFacts ==
  ASSUME HttpType, NEW b \in Batches, NEW start \in Nat,
         requests[b] # <<>> =>
           RangeFrom(start, Len(requests[b])) = <<start, start + Len(requests[b]) - 1>>
  PROVE  LET built == Built(b, start)
             size == Len(requests[b])
         IN  /\ built.parsers = requests[b]
             /\ built.range = IF requests[b] = <<>> THEN NoRange
                              ELSE <<start, start + size - 1>>
             /\ DOMAIN built.items = 1 .. size + Len(notifications[b])
             /\ \A n \in 1 .. size : built.items[n] = Request(start + n - 1, requests[b][n])
             /\ \A n \in 1 .. Len(notifications[b]) :
                  built.items[size + n] = Notification(notifications[b][n])
<1> DEFINE size == Len(requests[b])
           sent == IF requests[b] = <<>> THEN <<>>
                   ELSE RequestItems(requests[b], RangeFrom(start, size))
           told == NotificationItems(notifications[b])
           S == {Request(id, p) : id \in Int, p \in Params} \union {Notification(p) : p \in Params}
<1>1. /\ requests[b] \in Seq(Params) /\ size \in Nat
      /\ notifications[b] \in Seq(Params) /\ Len(notifications[b]) \in Nat
  BY DEF HttpType
<1>2. sent \in Seq(S) /\ Len(sent) = size
      /\ \A n \in 1 .. size : sent[n] = Request(start + n - 1, requests[b][n])
  <2>1. CASE requests[b] = <<>>
    BY <1>1, <2>1
  <2>2. CASE requests[b] # <<>>
    <3>1. size > 0 /\ RangeFrom(start, size) = <<start, start + size - 1>>
      BY <1>1, <2>2
    <3>2. sent = [n \in 1 .. size |-> Request(start + n - 1, requests[b][n])]
      BY <1>1, <2>2, <3>1 DEF RequestItems
    <3>3. ASSUME NEW n \in 1 .. size PROVE Request(start + n - 1, requests[b][n]) \in S
      <4>1. start + n - 1 \in Int /\ requests[b][n] \in Params
        BY <1>1
      <4> QED
        BY <4>1
    <3> HIDE DEF S, sent, size
    <3> QED
      BY <1>1, <3>2, <3>3
  <2> QED
    BY <2>1, <2>2
<1>3. told \in Seq(S) /\ Len(told) = Len(notifications[b])
      /\ \A n \in 1 .. Len(notifications[b]) : told[n] = Notification(notifications[b][n])
  BY <1>1 DEF NotificationItems
<1>4. /\ Built(b, start).items = sent \o told
      /\ Built(b, start).parsers = [n \in DOMAIN sent |-> requests[b][n]]
      /\ Built(b, start).range = IF requests[b] = <<>> THEN NoRange ELSE RangeFrom(start, size)
  BY DEF Built
<1> HIDE DEF sent, told, S, size
<1>5. /\ DOMAIN (sent \o told) = 1 .. size + Len(notifications[b])
      /\ \A i \in DOMAIN (sent \o told) :
           (sent \o told)[i] = IF i <= size THEN sent[i] ELSE told[i - size]
  <2>1. /\ sent \o told \in Seq(S)
        /\ Len(sent \o told) = size + Len(notifications[b])
    BY <1>2, <1>3, ConcatFacts
  <2>2. \A i \in DOMAIN (sent \o told) :
           (sent \o told)[i] = IF i <= Len(sent) THEN sent[i] ELSE told[i - Len(sent)]
    BY <1>2, <1>3, ConcatFacts
  <2> QED
    BY <1>2, <2>1, <2>2
<1>6. \A n \in 1 .. size : (sent \o told)[n] = sent[n]
  BY <1>1, <1>5
<1>7. \A n \in 1 .. Len(notifications[b]) : (sent \o told)[size + n] = told[n]
  BY <1>1, <1>5
<1>8. Built(b, start).parsers = requests[b]
  BY <1>1, <1>2, <1>4 DEF size
<1> QED
  BY <1>2, <1>3, <1>4, <1>5, <1>6, <1>7, <1>8 DEF size

LEMMA SameMessage ==
  ASSUME NEW d \in Calls, MessageRight(d), Within, Within',
         posted'[d] = posted[d], d \in Batches => requests'[d] = requests[d],
         Len(issued) <= Len(issued'), Len(issued) \in Nat, Len(issued') \in Nat
  PROVE  MessageRight(d)'
<1>1. posted'[d].parsers \in Seq(Params) /\ Count(d) \in Nat
  BY DEF MessageRight, Count
<1> QED
  BY <1>1 DEF MessageRight, Numbering, ExpectsReply, First, Count

\* A call that reserves count ids behind all those that were issued before.
LEMMA Reserved ==
  ASSUME ProgressInv, IdsInv, MessagesRight, Within', NEW c \in Calls, CallStep(c),
         NEW count \in Nat, Take(count), MessageRight(c)',
         ExpectsReply(c)' => First(c)' = Len(issued)
  PROVE  MessagesRight'
<1>1. /\ Within /\ Len(issued) \in Nat /\ Len(issued') = Len(issued) + count
  BY TakeWithin
<1>2. /\ \A d \in Calls \ {c} : posted'[d] = posted[d]
      /\ UNCHANGED queueVars
  BY OthersStay, CallVariables DEF ProgressInv
<1>3. ASSUME NEW d \in Calls, d # c PROVE MessageRight(d)'
  BY <1>1, <1>2, <1>3, SameMessage DEF MessagesRight, queueVars
<1>4. ASSUME NEW d \in Calls, d # c
      PROVE  ExpectsReply(c)' /\ ExpectsReply(d)' => First(d)' + Count(d)' <= First(c)'
  <2>1. posted'[d] = posted[d] /\ MessageRight(d)
    BY <1>1, <1>2, <1>4 DEF MessagesRight
  <2>2. ExpectsReply(d)' => First(d)' + Count(d)' <= Len(issued)
    BY <2>1 DEF MessageRight, Numbering, ExpectsReply, First, Count
  <2> QED
    BY <2>2
<1>5. ASSUME NEW d \in Calls, NEW e \in Calls, d # e PROVE Apart(d, e)'
  <2>1. CASE d = c \/ e = c
    BY <1>4, <1>5, <2>1 DEF Apart
  <2>2. CASE d # c /\ e # c
    <3>1. Apart(d, e) /\ posted'[d] = posted[d] /\ posted'[e] = posted[e]
      BY <1>1, <1>2, <1>5, <2>2 DEF MessagesRight
    <3> QED
      BY <3>1 DEF Apart, ExpectsReply, First, Count
  <2> QED
    BY <2>1, <2>2
<1> QED
  BY <1>3, <1>5 DEF MessagesRight

\* Nobody reserves anything.
LEMMA NoneReserved ==
  ASSUME IdsInv, MessagesRight, UNCHANGED issued,
         \A d \in Calls : \/ MessageRight(d)' /\ ~ExpectsReply(d)'
                          \/ /\ posted'[d] = posted[d]
                             /\ d \in Batches => requests'[d] = requests[d]
  PROVE  MessagesRight'
<1> SUFFICES ASSUME Within' PROVE MessagesRight'
  BY DEF MessagesRight
<1>1. Within /\ Len(issued) \in Nat
  BY DEF Within, IdsInv, IdsType
<1>2. \A d \in Calls : MessageRight(d)'
  BY <1>1, SameMessage DEF MessagesRight
<1>3. ASSUME NEW d \in Calls, NEW e \in Calls, d # e PROVE Apart(d, e)'
  <2>1. CASE ~ExpectsReply(d)' \/ ~ExpectsReply(e)'
    BY <2>1 DEF Apart
  <2>2. CASE posted'[d] = posted[d] /\ posted'[e] = posted[e]
    BY <1>1, <1>3, <2>2 DEF MessagesRight, Apart, ExpectsReply, First, Count
  <2> QED
    BY <2>1, <2>2
<1> QED
  BY <1>2, <1>3 DEF MessagesRight

LEMMA InitMessages == Init => MessagesRight
<1> SUFFICES ASSUME Init, NEW c \in Calls, NEW d \in Calls
             PROVE  MessageRight(c) /\ Apart(c, d)
  BY DEF MessagesRight
<1>1. ~ExpectsReply(c) /\ posted[c].parsers = <<>>
  BY DEF Init, ExpectsReply, NothingPosted, NoRange
<1>2. <<>> \in Seq(Params)
  OBVIOUS
<1> QED
  BY <1>1, <1>2 DEF MessageRight, Apart

LEMMA RequestMessage ==
  ASSUME ProgressInv, IdsInv, MessagesRight, Within', NEW c \in Calls, StartRequest(c)
  PROVE  MessagesRight'
<1>1. Take(1) /\ HttpType /\ CallStep(c) /\ Progress(c) /\ c \in Requests /\ c \notin Batches
  BY CallsAssumption DEF StartRequest, CallStep, ProgressInv
<1>2. /\ Len(issued) \in Nat /\ Len(issued') = Len(issued) + 1
      /\ RangeFrom(currentId, 1) = <<Len(issued), Len(issued)>> /\ currentId = Len(issued)
  BY <1>1, TakeWithin
<1>3. PICK p \in Params :
        \/ Post(c, [range   |-> RangeFrom(currentId, 1),
                    items   |-> <<Request(currentId, p)>>,
                    parsers |-> <<p>>])
        \/ Return(c, Failure(Refusal(p))) /\ UNCHANGED posted
  BY DEF StartRequest
<1>4. CASE UNCHANGED posted
  <2>1. posted'[c] = NothingPosted
    BY <1>1, <1>4 DEF Progress, StartRequest
  <2>2. MessageRight(c)' /\ ~ExpectsReply(c)'
    BY <2>1 DEF MessageRight, ExpectsReply, NothingPosted, NoRange
  <2> QED
    BY <1>1, <2>2, Reserved
<1>5. CASE Post(c, [range   |-> RangeFrom(currentId, 1),
                    items   |-> <<Request(currentId, p)>>,
                    parsers |-> <<p>>])
  <2>1. /\ posted'[c].range = <<Len(issued), Len(issued)>>
        /\ posted'[c].items = <<Request(Len(issued), p)>>
        /\ posted'[c].parsers = <<p>>
    BY <1>1, <1>2, <1>5, Posts
  <2>2. First(c)' = Len(issued) /\ Count(c)' = 1 /\ ExpectsReply(c)'
    BY <2>1 DEF First, Count, ExpectsReply, NoRange
  <2>3. Numbering(c)'
    BY <1>1, <1>2, <2>1, <2>2 DEF Numbering, Request
  <2>4. MessageRight(c)'
    BY <2>1, <2>2, <2>3 DEF MessageRight
  <2> QED
    BY <1>1, <2>2, <2>4, Reserved
<1> QED
  BY <1>3, <1>4, <1>5

LEMMA BatchMessage ==
  ASSUME ProgressInv, IdsInv, MessagesRight, NEW b \in Calls, StartBatch(b)
  PROVE  MessagesRight'
<1>1. /\ HttpType /\ CallStep(b) /\ Progress(b) /\ b \in Batches /\ b \notin Requests
      /\ UNCHANGED queueVars
  BY CallsAssumption DEF StartBatch, CallStep, ProgressInv
<1>2. \A d \in Calls \ {b} : posted'[d] = posted[d]
  BY <1>1, OthersStay
<1>3. Len(requests[b]) \in Nat /\ requests[b] \in Seq(Params)
  BY <1>1 DEF HttpType
<1>4. CASE UNCHANGED <<idVars, posted>>
  BY <1>1, <1>2, <1>4, NoneReserved DEF idVars, queueVars
<1>5. CASE Take(Len(requests[b])) /\ UNCHANGED posted
  <2> SUFFICES ASSUME Within' PROVE MessagesRight'
    BY DEF MessagesRight
  <2>1. posted'[b] = NothingPosted
    BY <1>1, <1>5 DEF Progress, StartBatch
  <2>2. <<>> \in Seq(Params)
    OBVIOUS
  <2>3. MessageRight(b)' /\ ~ExpectsReply(b)'
    BY <2>1, <2>2 DEF MessageRight, ExpectsReply, NothingPosted, NoRange
  <2> QED
    BY <1>1, <1>3, <1>5, <2>3, Reserved
<1>6. CASE Take(Len(requests[b])) /\ Post(b, Built(b, currentId))
  <2> SUFFICES ASSUME Within' PROVE MessagesRight'
    BY DEF MessagesRight
  <2> DEFINE size == Len(requests[b])
  <2>1. /\ Len(issued) \in Nat /\ Len(issued') = Len(issued) + size
        /\ size > 0 => /\ currentId = Len(issued)
                       /\ RangeFrom(currentId, size) = <<Len(issued), Len(issued) + size - 1>>
    BY <1>3, <1>6, TakeWithin
  <2>2. posted'[b] = Built(b, currentId) /\ requests'[b] = requests[b]
    BY <1>1, <1>6, Posts DEF queueVars
  <2>3. currentId \in Nat /\ (requests[b] # <<>> => size > 0)
    BY <1>3, ModulusAssumption DEF IdsInv, IdsType
  <2>4. /\ posted'[b].parsers = requests[b]
        /\ posted'[b].range = IF requests[b] = <<>> THEN NoRange
                              ELSE <<currentId, currentId + size - 1>>
        /\ \A n \in 1 .. size : posted'[b].items[n] = Request(currentId + n - 1, requests[b][n])
    BY <1>1, <2>1, <2>2, <2>3, BuiltFacts
  <2>5. CASE requests[b] = <<>>
    <3>1. MessageRight(b)' /\ ~ExpectsReply(b)'
      BY <1>3, <2>4, <2>5 DEF MessageRight, ExpectsReply
    <3> QED
      BY <1>1, <1>3, <1>6, <3>1, Reserved
  <2>6. CASE requests[b] # <<>>
    <3> HIDE DEF size
    <3>1. /\ posted'[b].range = <<Len(issued), Len(issued) + size - 1>>
          /\ size > 0 /\ currentId = Len(issued)
      BY <2>1, <2>3, <2>4, <2>6
    <3>2. First(b)' = Len(issued) /\ Count(b)' = size /\ ExpectsReply(b)'
      BY <2>4, <3>1 DEF First, Count, ExpectsReply, NoRange, size
    <3>3. ASSUME NEW n \in 1 .. size
          PROVE  /\ posted'[b].items[n].id = Len(issued) + n - 1
                 /\ posted'[b].items[n].params = posted'[b].parsers[n]
      <4>1. posted'[b].items[n] = Request(Len(issued) + n - 1, requests[b][n])
        BY <2>4, <3>1, <3>3
      <4>2. \A id, p : Request(id, p).id = id /\ Request(id, p).params = p
        BY DEF Request
      <4> QED
        BY <2>4, <4>1, <4>2
    <3>4. Numbering(b)'
      BY <1>1, <2>1, <2>2, <2>4, <3>1, <3>2, <3>3, <1>3 DEF Numbering
    <3>5. MessageRight(b)'
      BY <1>3, <2>4, <3>2, <3>4 DEF MessageRight
    <3> QED
      BY <1>1, <1>3, <1>6, <3>2, <3>5, Reserved
  <2> QED
    BY <2>5, <2>6
<1> QED
  BY <1>4, <1>5, <1>6 DEF StartBatch

LEMMA NotifyMessage ==
  ASSUME ProgressInv, IdsInv, MessagesRight, NEW c \in Calls, StartNotify(c)
  PROVE  MessagesRight'
<1>1. /\ HttpType /\ CallStep(c) /\ Progress(c) /\ UNCHANGED <<idVars, queueVars>>
      /\ pc[c] = "idle"
  BY DEF StartNotify, CallStep, ProgressInv
<1>2. \A d \in Calls \ {c} : posted'[d] = posted[d]
  BY <1>1, OthersStay
<1>3. \/ posted'[c] = NothingPosted
      \/ \E p \in Params : posted'[c] = [NothingPosted EXCEPT !.items = <<Notification(p)>>]
  BY <1>1, Posts DEF StartNotify, Progress
<1>4. posted'[c].range = NoRange /\ posted'[c].parsers = <<>>
  <2>1. ASSUME NEW p
        PROVE  /\ [NothingPosted EXCEPT !.items = <<Notification(p)>>].range = NoRange
               /\ [NothingPosted EXCEPT !.items = <<Notification(p)>>].parsers = <<>>
    BY DEF NothingPosted
  <2>2. NothingPosted.range = NoRange /\ NothingPosted.parsers = <<>>
    BY DEF NothingPosted
  <2> QED
    BY <1>3, <2>1, <2>2
<1>5. <<>> \in Seq(Params)
  OBVIOUS
<1>6. MessageRight(c)' /\ ~ExpectsReply(c)'
  BY <1>4, <1>5 DEF MessageRight, ExpectsReply
<1> QED
  BY <1>1, <1>2, <1>6, NoneReserved DEF idVars, queueVars

LEMMA StepMessages == ProgressInv /\ IdsInv /\ MessagesRight /\ [Next]_vars => MessagesRight'
<1> SUFFICES ASSUME ProgressInv, IdsInv, MessagesRight, [Next]_vars PROVE MessagesRight'
  OBVIOUS
<1>1. HttpType
  BY DEF ProgressInv
<1>2. ASSUME NEW c \in Calls, StartRequest(c) PROVE MessagesRight'
  BY <1>2, RequestMessage DEF MessagesRight
<1>3. ASSUME NEW c \in Calls, StartNotify(c) \/ StartBatch(c) PROVE MessagesRight'
  BY <1>3, NotifyMessage, BatchMessage
<1>4. CASE UNCHANGED <<issued, posted, requests>>
  BY <1>4, NoneReserved
<1>5. ASSUME NEW b \in Batches, Queue(b) PROVE MessagesRight'
  <2>1. /\ pc[b] = "idle" /\ b \in Calls /\ UNCHANGED <<issued, posted>>
        /\ \A d \in Batches \ {b} : requests'[d] = requests[d]
    BY <1>1, <1>5, QueueSteps DEF Calls, idVars
  <2>2. posted'[b] = NothingPosted
    BY <2>1 DEF ProgressInv, Progress
  <2>3. <<>> \in Seq(Params)
    OBVIOUS
  <2>4. MessageRight(b)' /\ ~ExpectsReply(b)'
    BY <2>2, <2>3 DEF MessageRight, ExpectsReply, NothingPosted, NoRange
  <2> QED
    BY <2>1, <2>4, NoneReserved
<1> QED
  BY <1>2, <1>3, <1>4, <1>5 DEF Next, vars, idVars, queueVars, TransportFails, SendReturns,
    BodyArrives, Idle

-----------------------------------------------------------------------------
(* What a body can be taken for *)

Own(c) == [n \in DOMAIN Asked(c) |-> [answer |-> AnswerTo(c, n), parser |-> Asked(c)[n]]]

\* The answers on the wire are those to things that were asked.
Genuine(object) ==
  \E d \in Calls : \E m \in DOMAIN posted[d].parsers :
    object.id = posted[d].items[m].id /\ object.answer = AnswerTo(d, m)

LEMMA Objects ==
  ASSUME NEW object, object \in Singles \/ object \in Answering("result") \union {Anonymous}
  PROVE  Genuine(object) \/ object = Anonymous \/ object = PeerCall
<1>1. ASSUME NEW member, object \in Answering(member) PROVE Genuine(object)
  <2>0. PICK d \in Calls :
          object \in {Object(posted[d].items[m].id, member, AnswerTo(d, m))
                     : m \in DOMAIN posted[d].parsers}
    BY <1>1 DEF Answering
  <2>1. PICK m \in DOMAIN posted[d].parsers :
          object = Object(posted[d].items[m].id, member, AnswerTo(d, m))
    BY <2>0
  <2>2. object.id = posted[d].items[m].id /\ object.answer = AnswerTo(d, m)
    BY <2>1 DEF Object
  <2> QED
    BY <2>2 DEF Genuine
<1> QED
  BY <1>1 DEF Singles

\* An object whose id is the n-th of a call answers the n-th thing it asks for.
LEMMA GenuineIsOwn ==
  ASSUME Within, MessagesRight, NEW object, Genuine(object),
         NEW c \in Calls, NEW n \in DOMAIN posted[c].parsers,
         Value(object) \in {posted[c].items[n].id, -1}
  PROVE  object.answer = AnswerTo(c, n)
<1>0. PICK d \in Calls :
        \E m \in DOMAIN posted[d].parsers :
          object.id = posted[d].items[m].id /\ object.answer = AnswerTo(d, m)
  BY DEF Genuine
<1>1. PICK m \in DOMAIN posted[d].parsers :
        object.id = posted[d].items[m].id /\ object.answer = AnswerTo(d, m)
  BY <1>0
<1>2. posted[d].items[m].id \in Nat
  <2>1. MessageRight(d) /\ m \in 1 .. Count(d) /\ Count(d) \in Nat
    BY DEF MessagesRight, MessageRight, Count
  <2>2. Numbering(d)
    BY <2>1 DEF MessageRight, Count
  <2>3. First(d) \in Nat /\ posted[d].items[m].id = First(d) + m - 1
    BY <2>1, <2>2 DEF Numbering
  <2> QED
    BY <2>1, <2>3
<1>3. Value(object) = posted[d].items[m].id /\ Value(object) # -1
  BY <1>1, <1>2 DEF Value
<1> QED
  BY <1>1, <1>3, SameItem

LEMMA NobodysObjects ==
  /\ Anonymous.answer = Nobody /\ Value(Anonymous) = -1
  /\ ProbeAsResponse(PeerCall) \notin Answers /\ Value(PeerCall) = -1
<1>1. /\ Anonymous.answer = Nobody /\ Anonymous.id = NullId
      /\ PeerCall.error = "absent" /\ PeerCall.result = "absent" /\ PeerCall.id = AbsentId
  BY DEF Anonymous, PeerCall, Object
<1> QED
  BY <1>1 DEF Value, NullId, AbsentId, ProbeAsResponse, HasResult, Given, Answers

LEMMA Kinds ==
  /\ \A kind : Refused(kind).kind = kind
  /\ \A kind, object : /\ Single(kind, object).kind = kind
                       /\ Single(kind, object).items[1].id = Value(object)
                       /\ Single(kind, object).items[1].answer = object.answer
  /\ \A objects : ProcessBatch(objects).kind \in {"batch", "invalid message"}
  /\ \A object : ProcessProbe(object).kind \in {"response", "error", "notification", "invalid message"}
<1>1. \A kind : Refused(kind).kind = kind
  BY DEF Refused
<1>2. \A kind, object : /\ Single(kind, object).kind = kind
                       /\ Single(kind, object).items[1].id = Value(object)
                       /\ Single(kind, object).items[1].answer = object.answer
  BY DEF Single, Item
<1>3. ASSUME NEW objects PROVE ProcessBatch(objects).kind \in {"batch", "invalid message"}
  <2>1. CASE \A n \in DOMAIN objects : ProbeAsResponse(objects[n]) \in Answers
    BY <2>1 DEF ProcessBatch
  <2>2. CASE ~\A n \in DOMAIN objects : ProbeAsResponse(objects[n]) \in Answers
    BY <1>1, <2>2 DEF ProcessBatch
  <2> QED
    BY <2>1, <2>2
<1>4. ASSUME NEW object
      PROVE  ProcessProbe(object).kind \in {"response", "error", "notification", "invalid message"}
  <2>1. CASE ProcessProbe(object) = Refused("invalid message")
    BY <1>1, <2>1
  <2>2. CASE ProcessProbe(object) = Single("notification", object)
    BY <1>2, <2>2
  <2>3. CASE /\ ProbeAsResponse(object) \in {"response", "error"}
             /\ ProcessProbe(object) = Single(ProbeAsResponse(object), object)
    <3>1. ProcessProbe(object).kind = ProbeAsResponse(object)
      BY <1>2, <2>3
    <3> QED
      BY <2>3, <3>1
  <2> QED
    BY <2>1, <2>2, <2>3 DEF ProcessProbe, Answers
<1> QED
  BY <1>1, <1>2, <1>3, <1>4

LEMMA SingleTaken ==
  ASSUME NEW body, TryFrom(body).kind \in Answers
  PROVE  /\ body.shape # "text" /\ body.shape # "array"
         /\ ProbeAsResponse(body.objects[1]) \in Answers
         /\ TryFrom(body).items[1].id = Value(body.objects[1])
         /\ TryFrom(body).items[1].answer = body.objects[1].answer
<1> DEFINE object == body.objects[1]
<1>1. TryFrom(body) # Refused("serde error") /\ TryFrom(body) # ProcessBatch(body.objects)
  <2>1. "serde error" \notin Answers /\ "batch" \notin Answers /\ "invalid message" \notin Answers
    BY DEF Answers
  <2>2. Refused("serde error").kind \notin Answers /\ ProcessBatch(body.objects).kind \notin Answers
    BY <2>1, Kinds
  <2> QED
    BY <2>2
<1>2. /\ TryFrom(body) = ProcessProbe(object)
      /\ body.shape # "text" /\ body.shape # "array"
  BY <1>1 DEF TryFrom
<1>3. TryFrom(body) # Single("notification", object) /\ TryFrom(body) # Refused("invalid message")
  <2>1. "notification" \notin Answers /\ "invalid message" \notin Answers
    BY DEF Answers
  <2>2. /\ Single("notification", object).kind = "notification"
        /\ Refused("invalid message").kind = "invalid message"
    BY Kinds
  <2> QED
    BY <2>1, <2>2
<1>4. /\ ProbeAsResponse(object) \in Answers
      /\ TryFrom(body) = Single(ProbeAsResponse(object), object)
  BY <1>2, <1>3 DEF ProcessProbe
<1>5. /\ TryFrom(body).items[1].id = Value(object)
      /\ TryFrom(body).items[1].answer = object.answer
  <2>1. ASSUME NEW kind
        PROVE  /\ Single(kind, object).items[1].id = Value(object)
               /\ Single(kind, object).items[1].answer = object.answer
    BY Kinds
  <2> QED
    BY <1>4, <2>1
<1> QED
  BY <1>2, <1>4, <1>5

LEMMA BatchTaken ==
  ASSUME NEW body, TryFrom(body).kind = "batch"
  PROVE  /\ body.shape = "array"
         /\ DOMAIN TryFrom(body).items = DOMAIN body.objects
         /\ \A n \in DOMAIN body.objects :
              /\ TryFrom(body).items[n].id = Value(body.objects[n])
              /\ TryFrom(body).items[n].answer = body.objects[n].answer
<1>1. /\ TryFrom(body) # Refused("serde error") /\ TryFrom(body) # Refused("invalid message")
      /\ TryFrom(body) # ProcessProbe(body.objects[1])
  <2>1. /\ Refused("serde error").kind # "batch" /\ Refused("invalid message").kind # "batch"
        /\ ProcessProbe(body.objects[1]).kind # "batch"
    BY Kinds
  <2> QED
    BY <2>1
<1>2. TryFrom(body) = ProcessBatch(body.objects) /\ body.shape = "array"
  BY <1>1 DEF TryFrom
<1>3. TryFrom(body) =
        [kind  |-> "batch",
         items |-> [n \in DOMAIN body.objects |->
                      Item(ProbeAsResponse(body.objects[n]), body.objects[n])]]
  BY <1>1, <1>2 DEF ProcessBatch
<1>4. TryFrom(body).items =
        [n \in DOMAIN body.objects |-> Item(ProbeAsResponse(body.objects[n]), body.objects[n])]
  BY <1>3
<1>5. \A kind, object : Item(kind, object).id = Value(object) /\ Item(kind, object).answer = object.answer
  BY DEF Item
<1> QED
  BY <1>2, <1>4, <1>5

LEMMA BodyObjects ==
  ASSUME NEW body \in Bodies
  PROVE  /\ body.shape \notin {"array", "text"} => body.objects[1] \in Singles
         /\ body.shape = "array" =>
              \A n \in DOMAIN body.objects :
                body.objects[n] \in Answering("result") \union {Anonymous}
<1>1. CASE body \in {[shape |-> "object", objects |-> <<object>>] : object \in Singles}
  <2>1. PICK object \in Singles : body = [shape |-> "object", objects |-> <<object>>]
    BY <1>1
  <2> QED
    BY <2>1
<1>2. CASE body \in [shape : {"array"},
                     objects : UNION {[1 .. n -> Answering("result") \union {Anonymous}]
                                      : n \in 0 .. MaxItems}]
  <2>1. body.shape = "array"
        /\ \E n \in 0 .. MaxItems :
             body.objects \in [1 .. n -> Answering("result") \union {Anonymous}]
    BY <1>2
  <2> QED
    BY <2>1
<1>3. CASE body \in [shape : {"text"}, objects : {<<>>}]
  BY <1>3
<1> QED
  BY <1>1, <1>2, <1>3 DEF Bodies

-----------------------------------------------------------------------------
(* A reply is the answer to what was asked *)

\* What a call that returns a reply may return.
AnswersOwn(c, items) ==
  (c \in Requests /\ items[1].answer = Nobody) \/ items = Own(c)

LEMMA SingleRight ==
  ASSUME Within, MessagesRight, NEW c \in Requests, c \in Calls, ExpectsReply(c),
         NEW body \in Bodies,
         DecodeSingle(body, posted[c].range[1], posted[c].parsers[1]).tag = "reply"
  PROVE  AnswersOwn(c, DecodeSingle(body, posted[c].range[1], posted[c].parsers[1]).items)
<1> DEFINE incoming == TryFrom(body)
           object == body.objects[1]
           parser == posted[c].parsers[1]
<1>1. /\ Numbering(c) /\ Count(c) = 1 /\ First(c) \in Nat
      /\ posted[c].parsers \in Seq(Params) /\ DOMAIN posted[c].parsers = 1 .. 1
      /\ posted[c].items[1].id = First(c) /\ posted[c].items[1].params = parser
  <2>1. /\ Numbering(c) /\ Count(c) = 1 /\ First(c) \in Nat
        /\ posted[c].parsers \in Seq(Params)
    BY DEF MessagesRight, MessageRight, Numbering
  <2>2. DOMAIN posted[c].parsers = 1 .. 1
    BY <2>1 DEF Count
  <2>3. /\ posted[c].items[1].id = First(c) + 1 - 1
        /\ posted[c].items[1].params = parser
    BY <2>1 DEF Numbering
  <2> QED
    BY <2>1, <2>2, <2>3
<1>2. /\ SingleAnswers(incoming, First(c))
      /\ DecodeSingle(body, posted[c].range[1], parser).items =
           <<[answer |-> incoming.items[1].answer, parser |-> parser]>>
  BY Tags DEF DecodeSingle, First, Undecodable
<1>3. incoming.kind \in Answers /\ incoming.items[1].id \in {First(c), -1}
  BY <1>2 DEF SingleAnswers, Answers
<1>4. /\ ProbeAsResponse(object) \in Answers /\ object \in Singles
      /\ Value(object) \in {First(c), -1}
      /\ incoming.items[1].answer = object.answer
  BY <1>3, SingleTaken, BodyObjects
<1>5. CASE object = Anonymous
  BY <1>2, <1>4, <1>5, NobodysObjects DEF AnswersOwn
<1>6. CASE Genuine(object)
  <2>1. object.answer = AnswerTo(c, 1)
    BY <1>1, <1>4, <1>6, GenuineIsOwn
  <2>2. Asked(c) = [n \in 1 .. 1 |-> parser]
    BY <1>1, CallsAssumption DEF Asked
  <2>3. Own(c) = <<[answer |-> AnswerTo(c, 1), parser |-> parser]>>
    BY <2>2 DEF Own
  <2> QED
    BY <1>2, <1>4, <2>1, <2>3 DEF AnswersOwn
<1> QED
  BY <1>4, <1>5, <1>6, Objects, NobodysObjects

LEMMA BatchRight ==
  ASSUME Within, MessagesRight, NEW c \in Batches, c \in Calls, ExpectsReply(c),
         NEW body \in Bodies,
         DecodeBatch(body, posted[c].range, posted[c].parsers).tag = "reply"
  PROVE  AnswersOwn(c, DecodeBatch(body, posted[c].range, posted[c].parsers).items)
<1> DEFINE items == TryFrom(body).items
           key == posted[c].range
           slots == InRequestOrder(items, key)
<1>1. /\ Numbering(c) /\ First(c) \in Nat /\ Count(c) \in Nat
      /\ key[1] = First(c) /\ key[2] = First(c) + Count(c) - 1
      /\ posted[c].parsers = requests[c] /\ DOMAIN posted[c].parsers = 1 .. Count(c)
  BY DEF MessagesRight, MessageRight, Numbering, Count
<1>2. /\ TryFrom(body).kind = "batch" /\ Accepts(items, key)
      /\ DecodeBatch(body, key, posted[c].parsers).items =
           [n \in DOMAIN posted[c].parsers |->
              [answer |-> slots[n].answer, parser |-> posted[c].parsers[n]]]
  BY Tags DEF DecodeBatch, Undecodable
<1>3. /\ DOMAIN items = DOMAIN body.objects
      /\ \A i \in DOMAIN body.objects :
           /\ items[i].id = Value(body.objects[i])
           /\ items[i].answer = body.objects[i].answer
           /\ body.objects[i] \in Answering("result") \union {Anonymous}
  BY <1>2, BatchTaken, BodyObjects
<1>4. ASSUME NEW n \in 1 .. Count(c) PROVE slots[n].answer = AnswerTo(c, n)
  <2> DEFINE i == CHOOSE k \in Numbered(items) : items[k].id = key[1] + n - 1
  <2>1. n \in 1 .. key[2] - key[1] + 1 /\ key[1] + n - 1 \in key[1] .. key[2]
    BY <1>1
  <2>2. slots[n] = items[i]
    BY <2>1 DEF InRequestOrder
  <2>3. \E k \in Numbered(items) : items[k].id = key[1] + n - 1
    BY <1>2, <2>1 DEF Accepts, Correlates, Ids
  <2>4. i \in Numbered(items) /\ items[i].id = key[1] + n - 1
    BY <2>3
  <2> HIDE DEF i
  <2>5. i \in DOMAIN body.objects
    BY <1>3, <2>4 DEF Numbered
  <2>6. /\ Value(body.objects[i]) = posted[c].items[n].id
        /\ Value(body.objects[i]) # -1
    BY <1>1, <1>3, <2>4, <2>5 DEF Numbering
  <2>7. Genuine(body.objects[i])
    BY <1>3, <2>5, <2>6, Objects, NobodysObjects
  <2>8. body.objects[i].answer = AnswerTo(c, n)
    BY <1>1, <2>6, <2>7, GenuineIsOwn
  <2> QED
    BY <1>3, <2>2, <2>5, <2>8
<1>5. Asked(c) = posted[c].parsers
  BY <1>1 DEF Asked
<1>6. Own(c) = [n \in 1 .. Count(c) |->
                  [answer |-> AnswerTo(c, n), parser |-> posted[c].parsers[n]]]
  BY <1>1, <1>5 DEF Own
<1> QED
  BY <1>1, <1>2, <1>4, <1>6 DEF AnswersOwn

\* The same reply, to the same question.
LEMMA SameAnswers ==
  ASSUME NEW d \in Calls, AnswersOwn(d, outcome[d].items),
         posted'[d] = posted[d], outcome'[d] = outcome[d],
         d \in Batches => requests'[d] = requests[d]
  PROVE  AnswersOwn(d, outcome[d].items)'
<1>1. Own(d)' = Own(d)
  BY DEF Own, Asked, AnswerTo
<1> QED
  BY <1>1 DEF AnswersOwn, Nobody

\* A call that returns now returns a failure, unless the body is decoded.
LEMMA NewReplies ==
  ASSUME HttpType, NEW c \in Calls, Progress(c), CallStep(c), outcome'[c].tag = "reply"
  PROVE  BodyArrives(c)
<1>1. \A tag : Failure(tag).tag = tag /\ NotReturned.tag # "reply"
  BY Tags
<1>2. ASSUME NEW tag, Return(c, Failure(tag)), tag # "reply" PROVE FALSE
  BY <1>1, <1>2, Returns
<1>3. ASSUME outcome'[c] = NotReturned PROVE FALSE
  BY <1>1, <1>3
<1>4. ASSUME NEW message, Post(c, message), pc[c] = "idle" PROVE FALSE
  <2>1. outcome'[c] = outcome[c] /\ outcome[c] = NotReturned
    BY <1>4, Posts DEF Progress
  <2> QED
    BY <1>3, <2>1
<1>5. ~StartRequest(c)
  BY <1>2, <1>4, Tags DEF StartRequest
<1>6. ~StartNotify(c)
  BY <1>2, <1>4, Tags DEF StartNotify
<1>7. ~StartBatch(c)
  BY <1>2, <1>4 DEF StartBatch
<1>8. ~TransportFails(c)
  BY <1>2 DEF TransportFails
<1>9. ~SendReturns(c)
  <2>1. Continue(c, "reading") /\ pc[c] = "sending" => FALSE
    BY <1>3 DEF Continue, Progress
  <2> QED
    BY <1>2, <2>1 DEF SendReturns
<1> QED
  BY <1>5, <1>6, <1>7, <1>8, <1>9 DEF CallStep

LEMMA StepReplies ==
  ProgressInv /\ IdsInv /\ MessagesRight /\ OwnReply /\ [Next]_vars => OwnReply'
<1> SUFFICES ASSUME ProgressInv, IdsInv, MessagesRight, OwnReply, [Next]_vars, Within',
                    NEW c \in Calls, outcome'[c].tag = "reply"
             PROVE  AnswersOwn(c, outcome[c].items)'
  BY DEF OwnReply, Within, AnswersOwn, Own
<1>1. HttpType /\ Progress(c) /\ Within
  BY IssuedGrows DEF ProgressInv
<1>2. outcome[c].tag = "reply" => AnswersOwn(c, outcome[c].items)
  BY <1>1 DEF OwnReply, Within, AnswersOwn, Own
<1>3. ASSUME outcome'[c] = outcome[c], posted'[c] = posted[c],
             c \in Batches => requests'[c] = requests[c]
      PROVE  AnswersOwn(c, outcome[c].items)'
  BY <1>2, <1>3, SameAnswers
<1>4. ASSUME NEW d \in Calls, CallStep(d) PROVE AnswersOwn(c, outcome[c].items)'
  <2>1. UNCHANGED requests
    BY <1>4, CallVariables DEF queueVars
  <2>2. CASE d # c
    BY <1>1, <1>3, <1>4, <2>1, <2>2, OthersStay
  <2>3. CASE d = c
    <3>1. BodyArrives(c)
      BY <1>1, <1>4, <2>3, NewReplies
    <3>2. ExpectsReply(c) /\ c \in Requests \union Batches /\ UNCHANGED posted
      BY <1>1, <3>1 DEF BodyArrives, Progress, MessagesRight, MessageRight, Numbering
    <3>3. PICK body \in Bodies :
            Return(c, IF c \in Requests
                        THEN DecodeSingle(body, posted[c].range[1], posted[c].parsers[1])
                        ELSE DecodeBatch(body, posted[c].range, posted[c].parsers))
      BY <3>1 DEF BodyArrives
    <3>4. outcome'[c] = IF c \in Requests
                          THEN DecodeSingle(body, posted[c].range[1], posted[c].parsers[1])
                          ELSE DecodeBatch(body, posted[c].range, posted[c].parsers)
      BY <1>1, <3>3, Returns
    <3>5. AnswersOwn(c, outcome'[c].items)
      <4>1. CASE c \in Requests
        BY <1>1, <3>2, <3>4, <4>1, SingleRight
      <4>2. CASE c \in Batches /\ c \notin Requests
        BY <1>1, <3>2, <3>4, <4>2, BatchRight
      <4> QED
        BY <3>2, <4>1, <4>2
    <3>6. Own(c)' = Own(c)
      BY <2>1, <3>2 DEF Own, Asked, AnswerTo
    <3> QED
      BY <3>5, <3>6 DEF AnswersOwn, Nobody
  <2> QED
    BY <2>2, <2>3
<1>5. ASSUME NEW b \in Batches, Queue(b) PROVE AnswersOwn(c, outcome[c].items)'
  <2>1. /\ pc[b] = "idle" /\ b \in Calls /\ UNCHANGED <<posted, outcome>>
        /\ \A d \in Batches \ {b} : requests'[d] = requests[d]
    BY <1>1, <1>5, QueueSteps DEF Calls
  <2>2. b # c
    <3>1. outcome[b] = NotReturned
      BY <2>1 DEF ProgressInv, Progress
    <3> QED
      BY <2>1, <3>1, Tags
  <2> QED
    BY <1>3, <2>1, <2>2
<1>6. CASE UNCHANGED vars
  BY <1>3, <1>6 DEF vars, queueVars
<1> QED
  BY <1>4, <1>5, <1>6 DEF Next, CallStep, Idle

ReplyInv == ProgressInv /\ IdsInv /\ QueuesAreSequences /\ MessagesRight /\ OwnReply

LEMMA ReplyInvInit == Init => ReplyInv
<1>1. Init => OwnReply
  BY Tags DEF Init, OwnReply
<1> QED
  BY <1>1, InitProgress, InitIdsInv, InitQueuesType, InitMessages DEF ReplyInv

LEMMA ReplyInvNext == ReplyInv /\ [Next]_vars => ReplyInv'
BY StepProgress, StepIds, StepQueues, StepMessages, StepReplies DEF ReplyInv

(***************************************************************************)
(* A call that returns a reply returns the answers to what it asked for,   *)
(* all of them and in its order, whatever bodies the exchanges get: the    *)
(* decoder and the correlation let nothing else through (decode_single,    *)
(* correlate_batch_items).                                                 *)
(***************************************************************************)
THEOREM OwnRepliesOnly == Spec => []OwnReply
<1>1. ReplyInv => OwnReply
  BY DEF ReplyInv
<1> QED
  BY <1>1, ReplyInvInit, ReplyInvNext, PTL DEF Spec

-----------------------------------------------------------------------------
(* What a batch POSTs is all that was queued *)

Whole(b) ==
  /\ [n \in DOMAIN posted[b].items |-> posted[b].items[n].params] = requests[b] \o notifications[b]
  /\ \A n \in DOMAIN posted[b].items :
       posted[b].items[n].id >= 0 <=> n \in DOMAIN posted[b].parsers

LEMMA SequenceIsFunction ==
  ASSUME NEW S, NEW s \in Seq(S)
  PROVE  DOMAIN s = 1 .. Len(s) /\ s = [n \in DOMAIN s |-> s[n]]
OBVIOUS

LEMMA BuiltIsWhole ==
  ASSUME ProgressInv, IdsInv, Within', NEW b \in Batches, b \in Calls,
         Take(Len(requests[b])), Post(b, Built(b, currentId)), UNCHANGED queueVars
  PROVE  Whole(b)'
<1> DEFINE size == Len(requests[b])
           more == Len(notifications[b])
           items == Built(b, currentId).items
           queued == requests[b] \o notifications[b]
<1>1. /\ requests[b] \in Seq(Params) /\ size \in Nat /\ HttpType
      /\ notifications[b] \in Seq(Params) /\ more \in Nat
      /\ currentId \in Nat
  BY ModulusAssumption DEF ProgressInv, HttpType, IdsInv, IdsType
<1>2. size > 0 => RangeFrom(currentId, size) = <<currentId, currentId + size - 1>>
  BY <1>1, TakeWithin
<1>3. requests[b] # <<>> => size > 0
  BY <1>1
<1>4. /\ Built(b, currentId).parsers = requests[b]
      /\ DOMAIN items = 1 .. size + more
      /\ \A n \in 1 .. size : items[n] = Request(currentId + n - 1, requests[b][n])
      /\ \A n \in 1 .. more : items[size + n] = Notification(notifications[b][n])
  BY <1>1, <1>2, <1>3, BuiltFacts
<1>5. /\ queued = [n \in DOMAIN queued |-> queued[n]]
      /\ DOMAIN queued = 1 .. size + more
      /\ \A n \in DOMAIN queued :
           queued[n] = IF n <= size THEN requests[b][n] ELSE notifications[b][n - size]
  <2>1. queued \in Seq(Params) /\ Len(queued) = size + more
    BY <1>1, ConcatFacts
  <2>2. \A n \in DOMAIN queued :
           queued[n] = IF n <= size THEN requests[b][n] ELSE notifications[b][n - size]
    BY <1>1, ConcatFacts
  <2> HIDE DEF queued, size, more
  <2>3. DOMAIN queued = 1 .. Len(queued) /\ queued = [n \in DOMAIN queued |-> queued[n]]
    BY <2>1, SequenceIsFunction
  <2> QED
    BY <2>1, <2>2, <2>3
<1> HIDE DEF items, queued, size, more
<1>6. ASSUME NEW n \in 1 .. size + more
      PROVE  items[n].params = queued[n] /\ (items[n].id >= 0 <=> n \in 1 .. size)
  <2>0. /\ \A id, p : Request(id, p).id = id /\ Request(id, p).params = p
        /\ \A p : Notification(p).id = -1 /\ Notification(p).params = p
    BY DEF Request, Notification
  <2>1. CASE n <= size
    <3>1. n \in 1 .. size /\ currentId + n - 1 >= 0
      BY <1>1, <2>1
    <3>2. items[n] = Request(currentId + n - 1, requests[b][n]) /\ queued[n] = requests[b][n]
      BY <1>4, <1>5, <1>6, <2>1, <3>1
    <3> QED
      BY <2>0, <3>1, <3>2
  <2>2. CASE n > size
    <3>1. n - size \in 1 .. more /\ size + (n - size) = n /\ n \notin 1 .. size /\ ~(n <= size)
      BY <1>1, <2>2
    <3>2. items[n] = Notification(notifications[b][n - size])
      BY <1>4, <3>1
    <3>3. queued[n] = notifications[b][n - size]
      BY <1>5, <1>6, <3>1
    <3> QED
      BY <2>0, <3>1, <3>2, <3>3
  <2> QED
    BY <1>1, <2>1, <2>2
<1>7. queued = [n \in DOMAIN items |-> items[n].params]
  <2>1. DOMAIN items = DOMAIN queued /\ \A n \in DOMAIN queued : items[n].params = queued[n]
    BY <1>4, <1>5, <1>6
  <2>2. [n \in DOMAIN items |-> items[n].params] = [n \in DOMAIN queued |-> queued[n]]
    BY <2>1
  <2> QED
    BY <1>5, <2>2
<1>8. /\ posted'[b].items = items /\ posted'[b].parsers = requests[b]
      /\ requests'[b] \o notifications'[b] = queued
  BY <1>1, <1>4, Posts DEF items, queued, queueVars, size
<1>9. DOMAIN requests[b] = 1 .. size
  BY <1>1 DEF size
<1> QED
  BY <1>4, <1>6, <1>7, <1>8, <1>9 DEF Whole

\* Nothing is queued any more once the batch is on its way.
LEMMA StepWhole ==
  ProgressInv /\ IdsInv /\ NothingLeftOut /\ [Next]_vars => NothingLeftOut'
<1> SUFFICES ASSUME ProgressInv, IdsInv, NothingLeftOut, [Next]_vars, Within',
                    NEW b \in Batches, pc'[b] \in {"sending", "reading"}
             PROVE  Whole(b)'
  BY DEF NothingLeftOut, Within, Whole
<1>1. HttpType /\ Within /\ b \in Calls /\ Progress(b)
  BY IssuedGrows DEF ProgressInv, Calls
<1>2. pc[b] \in {"sending", "reading"} => Whole(b)
  BY <1>1 DEF NothingLeftOut, Within, Whole
<1>3. ASSUME pc[b] \in {"sending", "reading"}, posted'[b] = posted[b],
             requests'[b] = requests[b], notifications'[b] = notifications[b]
      PROVE  Whole(b)'
  BY <1>2, <1>3 DEF Whole
<1>4. ASSUME NEW d \in Calls, CallStep(d) PROVE Whole(b)'
  <2>1. UNCHANGED queueVars
    BY <1>4, CallVariables
  <2>2. CASE d # b
    BY <1>1, <1>3, <1>4, <2>1, <2>2, OthersStay DEF queueVars
  <2>3. CASE d = b /\ pc[b] \in {"sending", "reading"}
    <3>1. UNCHANGED posted
      BY <1>4, <2>3 DEF CallStep, StartRequest, StartNotify, StartBatch, TransportFails,
         SendReturns, BodyArrives
    <3> QED
      BY <1>3, <2>1, <2>3, <3>1 DEF queueVars
  <2>4. CASE d = b /\ pc[b] \notin {"sending", "reading"}
    <3>1. ~TransportFails(b) /\ ~SendReturns(b) /\ ~BodyArrives(b)
      BY <2>4 DEF TransportFails, SendReturns, BodyArrives
    <3>2. StartBatch(b)
      BY <1>4, <2>4, <3>1, CallsAssumption DEF CallStep, StartRequest, StartNotify
    <3>3. \A value : ~Return(b, value)
      BY <1>1, Returns
    <3> QED
      BY <1>1, <2>1, <3>2, <3>3, BuiltIsWhole DEF StartBatch
  <2> QED
    BY <2>2, <2>3, <2>4
<1>5. ASSUME NEW d \in Batches, Queue(d) PROVE Whole(b)'
  <2>1. /\ pc[d] = "idle" /\ UNCHANGED <<pc, posted>>
        /\ \A e \in Batches \ {d} : /\ requests'[e] = requests[e]
                                    /\ notifications'[e] = notifications[e]
    BY <1>1, <1>5, QueueSteps
  <2> QED
    BY <1>3, <2>1
<1>6. CASE UNCHANGED vars
  BY <1>3, <1>6 DEF vars, queueVars
<1> QED
  BY <1>4, <1>5, <1>6 DEF Next, CallStep, Idle

(***************************************************************************)
(* A batch on its way holds everything that was queued and nothing else,   *)
(* each request under its own id, however long the queues are              *)
(* (BatchBuilder::build).                                                  *)
(***************************************************************************)
THEOREM BatchesAreWhole == Spec => []NothingLeftOut
<1> DEFINE Inv == ProgressInv /\ IdsInv /\ QueuesAreSequences /\ NothingLeftOut
<1>1. Init => Inv
  <2>1. Init => NothingLeftOut
    BY DEF Init, NothingLeftOut, Calls
  <2> QED
    BY <2>1, InitProgress, InitIdsInv, InitQueuesType
<1>2. Inv /\ [Next]_vars => Inv'
  BY StepProgress, StepIds, StepQueues, StepWhole
<1>3. Inv => NothingLeftOut
  OBVIOUS
<1> QED
  BY <1>1, <1>2, <1>3, PTL DEF Spec

-----------------------------------------------------------------------------
(* HttpClient implements RpcCalls *)

\* How RpcCalls sees a call, from its outcome.
Seen(c) ==
  LET tag == outcome[c].tag
  IN  /\ tag = "none yet" => CallResult(c) = "none"
      /\ tag = "reply" => \/ CallResult(c) = "failed" /\ outcome[c].items[1].answer = Nobody
                          \/ CallResult(c) = "answers" /\ outcome[c].items[1].answer # Nobody
      /\ tag = "sent" => CallResult(c) = "sent"
      /\ tag = "no batch" => CallResult(c) = IF NothingQueued(c) THEN "empty" ELSE "sent"
      /\ tag \notin {"none yet", "reply", "sent", "no batch"} =>
           CallResult(c) = IF posted[c] = NothingPosted THEN "refused" ELSE "failed"

LEMMA RepliesAreEntitled ==
  ASSUME OwnReply, NEW c \in Calls, outcome[c].tag = "reply"
  PROVE  outcome[c].items[1].answer = Nobody \/ Entitled(c) \/ ~(Len(issued) \in Nat)
BY ModulusAssumption DEF OwnReply, Entitled

LEMMA SeenRight ==
  ASSUME OwnReply, IdsInv, NEW c \in Calls
  PROVE  Seen(c)
<1>1. outcome[c].tag = "reply" => outcome[c].items[1].answer = Nobody \/ Entitled(c)
  BY RepliesAreEntitled DEF IdsInv, IdsType
<1> DEFINE tag == outcome[c].tag
<1>2. CASE tag = "reply"
  BY <1>1, <1>2 DEF Seen, CallResult
<1>3. CASE tag # "reply"
  BY <1>3 DEF Seen, CallResult
<1> QED
  BY <1>2, <1>3

\* As much as the other calls' moves leave of a call.
LEMMA SameSeen ==
  ASSUME NEW d \in Calls, Seen(d), Seen(d)',
         outcome'[d] = outcome[d], posted'[d] = posted[d],
         outcome[d].tag = "no batch" => NothingQueued(d)' = NothingQueued(d)
  PROVE  CallResult(d)' = CallResult(d)
<1>1. CASE outcome[d].tag = "none yet"
  BY <1>1 DEF Seen
<1>2. CASE outcome[d].tag = "reply"
  BY <1>2 DEF Seen, Nobody
<1>3. CASE outcome[d].tag = "sent"
  BY <1>3 DEF Seen
<1>4. CASE outcome[d].tag = "no batch"
  BY <1>4 DEF Seen
<1>5. CASE outcome[d].tag \notin {"none yet", "reply", "sent", "no batch"}
  <2>1. (posted'[d] = NothingPosted') = (posted[d] = NothingPosted)
    BY DEF NothingPosted, NoRange
  <2>2. CallResult(d) = IF posted[d] = NothingPosted THEN "refused" ELSE "failed"
    BY <1>5 DEF Seen
  <2>3. CallResult(d)' = IF posted'[d] = NothingPosted' THEN "refused" ELSE "failed"
    BY <1>5 DEF Seen
  <2> QED
    BY <2>1, <2>2, <2>3
<1> QED
  BY <1>1, <1>2, <1>3, <1>4, <1>5

LEMMA Stages ==
  ASSUME NEW c \in Calls
  PROVE  /\ pc[c] = "idle" => CallStage(c) = "idle"
         /\ pc[c] \in {"sending", "reading"} => CallStage(c) = "pending"
         /\ pc'[c] \in {"sending", "reading"} => CallStage(c)' = "pending"
         /\ pc'[c] = "done" => CallStage(c)' = "ended"
BY DEF CallStage

Taken(c) == status[c] # "none"

\* Nothing but call c moves, as RpcCalls sees it.
Only(c) ==
  \A d \in Calls \ {c} :
    CallStage(d)' = CallStage(d) /\ Taken(d)' = Taken(d) /\ CallResult(d)' = CallResult(d)

LEMMA Unmoved ==
  ASSUME \A d \in Calls :
           CallStage(d)' = CallStage(d) /\ Taken(d)' = Taken(d) /\ CallResult(d)' = CallResult(d)
  PROVE  UNCHANGED Rpc!rpcVars
BY DEF Taken, Rpc!rpcVars

LEMMA Begins ==
  ASSUME NEW c \in Calls, Only(c), CallStage(c) = "idle", CallStage(c)' = "pending",
         status' = status, CallResult(c)' = CallResult(c)
  PROVE  Rpc!Begin(c)
BY DEF Only, Rpc!Begin, Rpc!Set

LEMMA Declines ==
  ASSUME NEW c \in Calls, Only(c), CallStage(c) = "idle", CallStage(c)' = "ended",
         status' = status, CallResult(c)' \in {"refused", "empty"}
  PROVE  Rpc!Decline(c)
BY DEF Only, Rpc!Decline, Rpc!Set

\* The transport has taken the message of c, now or before.
LEMMA TakenNow ==
  ASSUME NEW c \in Calls, Only(c), status'[c] # "none"
  PROVE  [d \in Calls |-> status'[d] # "none"] =
           [[d \in Calls |-> status[d] # "none"] EXCEPT ![c] = TRUE]
<1>1. \A d \in Calls : (status'[d] # "none") = (d = c \/ status[d] # "none")
  BY DEF Only, Taken
<1>2. [d \in Calls |-> status'[d] # "none"] = [d \in Calls |-> d = c \/ status[d] # "none"]
  BY <1>1
<1>3. [d \in Calls |-> d = c \/ status[d] # "none"] =
        [[d \in Calls |-> status[d] # "none"] EXCEPT ![c] = TRUE]
  OBVIOUS
<1> QED
  BY <1>2, <1>3

LEMMA TakesMessage ==
  ASSUME NEW c \in Calls, Only(c), CallStage(c) = "pending", CallStage(c)' = "pending",
         status[c] = "none", status'[c] # "none", CallResult(c)' = CallResult(c)
  PROVE  Rpc!TakeMessage(c)
BY TakenNow DEF Only, Rpc!TakeMessage, Rpc!Set

LEMMA Fails ==
  ASSUME NEW c \in Calls, Only(c), CallStage(c) = "pending", CallStage(c)' = "ended",
         status' = status \/ status'[c] # "none", CallResult(c)' = "failed"
  PROVE  Rpc!Fail(c)
<1>1. CASE status' = status
  BY <1>1 DEF Only, Rpc!Fail, Rpc!Set
<1>2. CASE status'[c] # "none"
  BY <1>2, TakenNow DEF Only, Rpc!Fail, Rpc!Set
<1> QED
  BY <1>1, <1>2

LEMMA Succeeds ==
  ASSUME NEW c \in Calls, Only(c), CallStage(c) = "pending", CallStage(c)' = "ended",
         status'[c] # "none", CallResult(c)' \in {"answers", "sent"}
  PROVE  Rpc!Succeed(c)
BY TakenNow DEF Only, Rpc!Succeed, Rpc!Set

AbstractStep(c) ==
  \/ Rpc!Begin(c) \/ Rpc!Decline(c) \/ Rpc!TakeMessage(c)
  \/ Rpc!Fail(c) \/ Rpc!Succeed(c)

-----------------------------------------------------------------------------
(* Every step of the client is a step of RpcCalls or a stutter *)

\* What holds before and after every step, of what a call may be seen as.
SeenInv == ProgressInv /\ \A c \in Calls : Seen(c)

LEMMA OnlyTheCall ==
  ASSUME SeenInv, SeenInv', NEW c \in Calls, CallStep(c)
  PROVE  Only(c)
<1> SUFFICES ASSUME NEW d \in Calls \ {c}
             PROVE  /\ CallStage(d)' = CallStage(d)
                    /\ Taken(d)' = Taken(d)
                    /\ CallResult(d)' = CallResult(d)
  BY DEF Only
<1>1. /\ pc'[d] = pc[d] /\ posted'[d] = posted[d]
      /\ status'[d] = status[d] /\ outcome'[d] = outcome[d]
      /\ UNCHANGED queueVars
  BY OthersStay, CallVariables DEF SeenInv, ProgressInv
<1>2. NothingQueued(d)' = NothingQueued(d)
  BY <1>1 DEF NothingQueued, queueVars
<1>3. CallStage(d)' = CallStage(d) /\ Taken(d)' = Taken(d)
  BY <1>1 DEF CallStage, Taken
<1> QED
  BY <1>1, <1>2, <1>3, SameSeen DEF SeenInv

LEMMA StartStep ==
  ASSUME SeenInv, SeenInv', NEW c \in Calls,
         StartRequest(c) \/ StartNotify(c) \/ StartBatch(c)
  PROVE  AbstractStep(c)
<1>1. /\ HttpType /\ Progress(c) /\ CallStep(c) /\ pc[c] = "idle" /\ status' = status
      /\ UNCHANGED queueVars
  BY DEF SeenInv, ProgressInv, CallStep, StartRequest, StartNotify, StartBatch
<1>2. /\ outcome[c] = NotReturned /\ posted[c] = NothingPosted /\ CallStage(c) = "idle"
      /\ Only(c) /\ CallResult(c) = "none"
  BY <1>1, OnlyTheCall, Stages, Tags DEF Progress, SeenInv, Seen
<1>3. ASSUME NEW message, Post(c, message) PROVE AbstractStep(c)
  <2>1. pc'[c] = "sending" /\ outcome'[c] = NotReturned
    BY <1>1, <1>2, <1>3, Posts
  <2>2. CallStage(c)' = "pending" /\ CallResult(c)' = "none"
    <3>1. outcome'[c].tag = "none yet"
      BY <2>1, Tags
    <3> QED
      BY <2>1, <3>1, Stages DEF SeenInv, Seen
  <2> QED
    BY <1>1, <1>2, <2>2, Begins DEF AbstractStep
<1>4. ASSUME NEW tag, Return(c, Failure(tag)), UNCHANGED posted,
             tag \notin {"none yet", "reply", "sent"},
             tag = "no batch" => NothingQueued(c)
      PROVE  AbstractStep(c)
  <2>1. pc'[c] = "done" /\ outcome'[c].tag = tag
    BY <1>1, <1>4, Returns, Tags
  <2>2. posted'[c] = NothingPosted' /\ (NothingQueued(c)' = NothingQueued(c))
    BY <1>1, <1>2, <1>4 DEF NothingQueued, queueVars, NothingPosted, NoRange
  <2>3. CallResult(c)' \in {"refused", "empty"}
    BY <1>4, <2>1, <2>2 DEF SeenInv, Seen
  <2>4. CallStage(c)' = "ended"
    BY <2>1, Stages
  <2> QED
    BY <1>1, <1>2, <2>3, <2>4, Declines DEF AbstractStep
<1>5. \A p : Return(c, Failure(Refusal(p))) /\ UNCHANGED posted => AbstractStep(c)
  BY <1>4, Tags
<1>6. CASE StartRequest(c) \/ StartNotify(c)
  BY <1>3, <1>5, <1>6 DEF StartRequest, StartNotify
<1>7. CASE StartBatch(c)
  BY <1>3, <1>4, <1>7 DEF StartBatch
<1> QED
  BY <1>6, <1>7

LEMMA ExchangeStep ==
  ASSUME SeenInv, SeenInv', NEW c \in Calls,
         TransportFails(c) \/ SendReturns(c) \/ BodyArrives(c)
  PROVE  AbstractStep(c)
<1>1. /\ HttpType /\ Progress(c) /\ CallStep(c) /\ pc[c] \in {"sending", "reading"}
      /\ UNCHANGED <<posted, queueVars>>
  BY DEF SeenInv, ProgressInv, CallStep, TransportFails, SendReturns, BodyArrives
<1>2. /\ outcome[c] = NotReturned /\ CallStage(c) = "pending"
      /\ Only(c) /\ CallResult(c) = "none"
  BY <1>1, OnlyTheCall, Stages, Tags DEF Progress, SeenInv, Seen
<1>3. posted'[c] # NothingPosted'
  BY <1>1 DEF Progress, NothingPosted, NoRange
<1>4. ASSUME NEW value, Return(c, value),
             value.tag \notin {"none yet", "reply", "sent", "no batch"},
             status' = status \/ status'[c] # "none"
      PROVE  AbstractStep(c)
  <2>1. pc'[c] = "done" /\ outcome'[c].tag = value.tag
    BY <1>1, <1>4, Returns
  <2>2. CallResult(c)' = "failed" /\ CallStage(c)' = "ended"
    BY <1>3, <1>4, <2>1, Stages DEF SeenInv, Seen
  <2> QED
    BY <1>2, <1>4, <2>2, Fails DEF AbstractStep
<1>5. CASE TransportFails(c)
  <2>1. Return(c, Failure("transport error")) /\ status' = status
    BY <1>5 DEF TransportFails
  <2>2. Failure("transport error").tag = "transport error"
    BY Tags
  <2> QED
    BY <1>4, <2>1, <2>2
<1>6. CASE SendReturns(c)
  <2>0. PICK response \in {"success", "failure"} :
          /\ status' = [status EXCEPT ![c] = response]
          /\ \/ Return(c, Failure(IF c \in Batches THEN "no batch" ELSE "sent"))
             \/ Return(c, Failure("transport error"))
             \/ Continue(c, "reading")
    BY <1>6 DEF SendReturns
  <2>1. status[c] = "none" /\ status'[c] # "none"
    BY <1>1, <1>6, <2>0 DEF SendReturns, Progress, HttpType
  <2>2. CASE Return(c, Failure(IF c \in Batches THEN "no batch" ELSE "sent"))
    <3>1. pc'[c] = "done" /\ outcome'[c].tag = IF c \in Batches THEN "no batch" ELSE "sent"
      BY <1>1, <2>2, Returns, Tags
    <3>2. c \in Batches => ~NothingQueued(c)'
      BY <1>1 DEF Progress, NothingQueued, queueVars
    <3>3. CallResult(c)' = "sent" /\ CallStage(c)' = "ended"
      BY <3>1, <3>2, Stages DEF SeenInv, Seen
    <3> QED
      BY <1>2, <2>1, <3>3, Succeeds DEF AbstractStep
  <2>3. CASE Return(c, Failure("transport error"))
    <3>1. Failure("transport error").tag = "transport error"
      BY Tags
    <3> QED
      BY <1>4, <2>1, <2>3, <3>1
  <2>4. CASE Continue(c, "reading")
    <3>1. pc'[c] = "reading" /\ outcome'[c] = NotReturned
      BY <1>1, <1>2, <2>4 DEF Continue, HttpType
    <3>2. outcome'[c].tag = "none yet"
      BY <3>1, Tags
    <3>3. CallStage(c)' = "pending" /\ CallResult(c)' = "none"
      BY <3>1, <3>2, Stages DEF SeenInv, Seen
    <3> QED
      BY <1>2, <2>1, <3>3, TakesMessage DEF AbstractStep
  <2> QED
    BY <2>0, <2>2, <2>3, <2>4
<1>7. CASE BodyArrives(c)
  <2>1. status'[c] # "none"
    BY <1>7 DEF BodyArrives, Progress, SeenInv, ProgressInv
  <2>2. PICK body \in Bodies :
          Return(c, IF c \in Requests
                      THEN DecodeSingle(body, posted[c].range[1], posted[c].parsers[1])
                      ELSE DecodeBatch(body, posted[c].range, posted[c].parsers))
    BY <1>7 DEF BodyArrives
  <2> DEFINE value == IF c \in Requests
                        THEN DecodeSingle(body, posted[c].range[1], posted[c].parsers[1])
                        ELSE DecodeBatch(body, posted[c].range, posted[c].parsers)
  <2>3. value.tag \in {"reply", "serde error", "invalid message"}
    BY DecodedTags
  <2>4. Return(c, value)
    BY <2>2
  <2> HIDE DEF value
  <2>5. CASE value.tag # "reply"
    BY <1>4, <2>1, <2>3, <2>4, <2>5
  <2>6. CASE value.tag = "reply"
    <3>1. pc'[c] = "done" /\ outcome'[c].tag = "reply"
      BY <1>1, <2>4, <2>6, Returns
    <3>2. CallResult(c)' \in {"failed", "answers"} /\ CallStage(c)' = "ended"
      BY <3>1, Stages DEF SeenInv, Seen
    <3> QED
      BY <1>2, <2>1, <3>2, Fails, Succeeds DEF AbstractStep
  <2> QED
    BY <2>5, <2>6
<1> QED
  BY <1>5, <1>6, <1>7

LEMMA StepImplements == SeenInv /\ SeenInv' /\ [Next]_vars => [Rpc!RpcNext]_(Rpc!rpcVars)
<1> SUFFICES ASSUME SeenInv, SeenInv', [Next]_vars
             PROVE  (\E c \in Calls : AbstractStep(c)) \/ UNCHANGED Rpc!rpcVars
  BY DEF AbstractStep, Rpc!RpcNext
<1>1. ASSUME NEW c \in Calls, CallStep(c) PROVE AbstractStep(c)
  BY <1>1, StartStep, ExchangeStep DEF CallStep
<1>2. ASSUME UNCHANGED <<pc, posted, status, outcome>>,
             \A d \in Calls :
               outcome[d].tag = "no batch" => NothingQueued(d)' = NothingQueued(d)
      PROVE  UNCHANGED Rpc!rpcVars
  <2>1. ASSUME NEW d \in Calls
        PROVE  /\ CallStage(d)' = CallStage(d) /\ Taken(d)' = Taken(d)
               /\ CallResult(d)' = CallResult(d)
    <3>1. CallStage(d)' = CallStage(d) /\ Taken(d)' = Taken(d)
      BY <1>2 DEF CallStage, Taken
    <3> QED
      BY <1>2, <3>1, SameSeen DEF SeenInv
  <2> QED
    BY <2>1, Unmoved
<1>3. ASSUME NEW b \in Batches, Queue(b) PROVE UNCHANGED Rpc!rpcVars
  <2>1. /\ UNCHANGED <<pc, posted, status, outcome>> /\ pc[b] = "idle" /\ b \in Calls
        /\ \A d \in Batches \ {b} : /\ requests'[d] = requests[d]
                                    /\ notifications'[d] = notifications[d]
    BY <1>3, QueueSteps DEF Calls, SeenInv, ProgressInv
  <2>2. outcome[b].tag # "no batch"
    BY <2>1, Tags DEF SeenInv, ProgressInv, Progress
  <2>3. \A d \in Calls : outcome[d].tag = "no batch" => d \in Batches \ {b}
    BY <2>2 DEF SeenInv, ProgressInv, Progress
  <2> QED
    BY <1>2, <2>1, <2>3 DEF NothingQueued
<1>4. CASE UNCHANGED vars
  BY <1>2, <1>4 DEF vars, queueVars, NothingQueued
<1> QED
  BY <1>1, <1>3, <1>4 DEF Next, CallStep, Idle

LEMMA InitImplements == Init => Rpc!RpcInit
<1> SUFFICES ASSUME Init PROVE Rpc!RpcInit
  OBVIOUS
<1>1. ASSUME NEW c \in Calls
      PROVE  CallStage(c) = "idle" /\ (status[c] # "none") = FALSE /\ CallResult(c) = "none"
  <2>1. pc[c] = "idle" /\ status[c] = "none" /\ outcome[c].tag = "none yet"
    BY Tags DEF Init
  <2>2. CallResult(c) = "none"
    BY <2>1 DEF CallResult
  <2> QED
    BY <2>1, <2>2, Stages
<1> QED
  BY <1>1 DEF Rpc!RpcInit

(***************************************************************************)
(* HttpClient implements RpcCalls: with any number of calls in exchange at *)
(* once, whatever the exchanges return, every behaviour of the client is   *)
(* one that the trait Client promises its callers.                         *)
(***************************************************************************)
THEOREM HttpImplementsRpc == Spec => ImplementsRpc
<1> DEFINE Inv == ReplyInv
<1>1. Inv => SeenInv
  BY SeenRight DEF ReplyInv, SeenInv
<1>2. Inv /\ Inv' /\ [Next]_vars => [Rpc!RpcNext]_(Rpc!rpcVars)
  <2>1. Inv' => SeenInv'
    BY <1>1, PTL
  <2> QED
    BY <1>1, <2>1, StepImplements
<1> QED
  BY <1>2, ReplyInvInit, ReplyInvNext, InitImplements, PTL
  DEF Spec, ImplementsRpc, Rpc!RpcSpec

=============================================================================
