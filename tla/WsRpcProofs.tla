----------------------------- MODULE WsRpcProofs -----------------------------
(***************************************************************************)
(* The WebSocket client implements RpcCalls, for any number of calls and   *)
(* connections: WsClient!ImplementsRpc. Every step of a call is a step of  *)
(* the abstract call or a stutter; that a reply consists of the call's own *)
(* answers is the invariant of WsAnswerProofs.                             *)
(***************************************************************************)
EXTENDS WsAnswerProofs

\* What the point a call has reached says about its message and its outcome.
PhaseRight(c) ==
  /\ pc[c] \in {"idle", "reserved"} => sentOn[c] = 0
  /\ pc[c] \in {"awaiting", "timedOut"} => sentOn[c] # 0
  /\ pc[c] = "sendOnly" /\ c \in Batches => Queued[c].notifications # 0
  /\ pc[c] # "done" => outcome[c] = NotReturned

PhasesRight == \A c \in Calls : PhaseRight(c)

LEMMA InitPhases == Init => PhasesRight
BY DEF Init, PhasesRight, PhaseRight

\* A call touches nobody else's state, and leaves its sentOn to the transport.
LEMMA OneCall ==
  ASSUME TypeOK, NEW c \in Calls, Call(c)
  PROVE  /\ sentOn' = sentOn
         /\ \A d \in Calls \ {c} :
              pc'[d] = pc[d] /\ outcome'[d] = outcome[d] /\ first'[d] = first[d]
         /\ pc[c] # "idle" => first'[c] = first[c]
<1>1. sentOn' = sentOn
  BY DEF Call, StartRequest, StartBatch, StartNotify, Register, SendOk, SendErr,
    CleanupSendError, Receive, TimerFires, CleanupTimeout, Cancel, linkVars
<1>2. \/ UNCHANGED outcome
      \/ \E result : outcome' = [outcome EXCEPT ![c] = result]
  BY DEF Call, StartRequest, StartBatch, StartNotify, Register, SendOk, SendErr,
    CleanupSendError, Receive, TimerFires, CleanupTimeout, Cancel, Continue, Return
<1>3. \E label : pc' = [pc EXCEPT ![c] = label]
  BY CallSteps
<1>4. UNCHANGED first \/ (pc[c] = "idle" /\ \E id : first' = [first EXCEPT ![c] = id])
  BY CallSteps DEF Reserve
<1> QED
  BY <1>1, <1>2, <1>3, <1>4 DEF TypeOK, CallsType

-----------------------------------------------------------------------------
(* Steps that return, and steps that go on *)

LEMMA Returned ==
  ASSUME TypeOK, NEW c \in Calls, NEW result, Return(c, result)
  PROVE  pc'[c] = "done" /\ outcome'[c] = result
BY DEF Return, Advance, TypeOK, CallsType

LEMMA Continued ==
  ASSUME TypeOK, NEW c \in Calls, NEW label, Continue(c, label)
  PROVE  pc'[c] = label /\ outcome'[c] = outcome[c]
BY DEF Continue, Advance, TypeOK, CallsType

LEMMA PhasesNext == TypeOK /\ PhasesRight /\ [Next]_vars => PhasesRight'
<1> SUFFICES ASSUME TypeOK, PhasesRight, [Next]_vars, NEW d \in Calls
             PROVE  PhaseRight(d)'
  BY DEF PhasesRight
<1>1. PhaseRight(d)
  BY DEF PhasesRight
<1>2. ASSUME UNCHANGED <<pc, outcome, sentOn>> PROVE PhaseRight(d)'
  BY <1>1, <1>2 DEF PhaseRight
<1>3. ASSUME NEW c \in Calls, Call(c), c # d PROVE PhaseRight(d)'
  <2>1. sentOn'[d] = sentOn[d] /\ pc'[d] = pc[d] /\ outcome'[d] = outcome[d]
    BY <1>3, OneCall
  <2> QED
    BY <1>1, <2>1 DEF PhaseRight
<1>4. ASSUME Call(d) PROVE PhaseRight(d)'
  <2>1. sentOn' = sentOn
    BY <1>4, OneCall
  <2>2. ASSUME NEW result, Return(d, result) PROVE PhaseRight(d)'
    BY <2>2, Returned DEF PhaseRight
  <2>3. CASE StartRequest(d)
    BY <1>1, <2>1, <2>2, <2>3, Continued DEF StartRequest, PhaseRight
  <2>4. CASE StartBatch(d)
    <3>1. CASE Continue(d, "reserved") /\ pc[d] = "idle"
      BY <1>1, <2>1, <3>1, Continued DEF PhaseRight
    <3>2. CASE Continue(d, "sendOnly") /\ pc[d] = "idle" /\ Queued[d].notifications > 0
      BY <1>1, <2>1, <3>2, Continued DEF PhaseRight
    <3> QED
      BY <2>2, <2>4, <3>1, <3>2 DEF StartBatch
  <2>5. CASE StartNotify(d)
    BY <1>1, <2>1, <2>2, <2>5, Continued, CallsAssumption DEF StartNotify, PhaseRight
  <2>6. CASE Register(d) \/ TimerFires(d)
    BY <1>1, <2>1, <2>6, Continued DEF Register, TimerFires, PhaseRight
  <2>7. CASE SendOk(d) \/ SendErr(d)
    <3>1. CASE Continue(d, "awaiting") /\ sentOn[d] # 0 /\ pc[d] = "registered"
      BY <1>1, <2>1, <3>1, Continued DEF PhaseRight
    <3>2. CASE Continue(d, "sendFailed") /\ pc[d] = "registered"
      BY <1>1, <2>1, <3>2, Continued DEF PhaseRight
    <3> QED
      BY <2>2, <2>7, <3>1, <3>2 DEF SendOk, SendErr
  <2>8. CASE CleanupSendError(d) \/ CleanupTimeout(d) \/ Receive(d)
    BY <2>2, <2>8 DEF CleanupSendError, CleanupTimeout, Receive
  <2>9. CASE Cancel(d)
    <3>1. pc'[d] = "cancelled" /\ outcome'[d] = outcome[d] /\ pc[d] # "done"
      BY <2>9 DEF Cancel, Advance, TypeOK, CallsType
    <3> QED
      BY <1>1, <3>1 DEF PhaseRight
  <2> QED
    BY <1>4, <2>3, <2>4, <2>5, <2>6, <2>7, <2>8, <2>9 DEF Call
<1>5. ASSUME NEW c \in Calls, Transmit(c) PROVE PhaseRight(d)'
  <2>1. UNCHANGED <<pc, outcome>> /\ pc[c] \in {"registered", "sendOnly"}
    BY <1>5 DEF Transmit, callVars
  <2>2. sentOn'[d] = sentOn[d] \/ d = c
    BY <1>5 DEF Transmit, TypeOK, LinkType
  <2> QED
    BY <1>1, <2>1, <2>2 DEF PhaseRight
<1>6. CASE IncomingTask \/ DisconnectTask
  BY <1>2, <1>6 DEF IncomingTask, DisconnectTask, callVars, linkVars, Deliver,
    IncomingSubscribe, IncomingLagged, IncomingRecv, DisconnectSubscribe,
    DisconnectLagged, DisconnectRecv, RequestsListed, FailRequest, RequestsFailed,
    BatchesListed, FailBatch, BatchesFailed
<1>7. ASSUME NEW c \in Calls, PeerAnswers(c) \/ PeerAnswersArray(c) PROVE PhaseRight(d)'
  BY <1>2, <1>7 DEF PeerAnswers, PeerAnswersArray, callVars, linkVars
<1>8. CASE Connect \/ Disconnect \/ PeerSendsOther
  BY <1>2, <1>8 DEF Connect, Disconnect, PeerSendsOther, callVars, linkVars
<1>9. CASE UNCHANGED vars
  BY <1>2, <1>9 DEF vars, callVars, linkVars
<1> QED
  BY <1>3, <1>4, <1>5, <1>6, <1>7, <1>8, <1>9 DEF Next, Transport, Idle

-----------------------------------------------------------------------------
(* What a call does, in the terms of RpcCalls *)

\* Nothing but call c moves, as the abstract specification sees it.
Only(c) ==
  \A d \in Calls \ {c} :
    CallStage(d)' = CallStage(d) /\ sentOn'[d] = sentOn[d] /\ CallResult(d)' = CallResult(d)

LEMMA Stages ==
  ASSUME NEW c \in Calls
  PROVE  /\ pc[c] = "idle" => CallStage(c) = "idle"
         /\ Finished(c) => CallStage(c) = "ended"
         /\ pc[c] # "idle" /\ ~Finished(c) => CallStage(c) = "pending"
         /\ pc'[c] = "idle" => CallStage(c)' = "idle"
         /\ Finished(c)' => CallStage(c)' = "ended"
         /\ pc'[c] # "idle" /\ ~Finished(c)' => CallStage(c)' = "pending"
BY DEF CallStage, Finished

\* The result only depends on the outcome and, for a reply, on the call's ids.
LEMMA SameResult ==
  ASSUME NEW d \in Calls, outcome'[d] = outcome[d],
         outcome[d].tag = "reply" => first'[d] = first[d]
  PROVE  CallResult(d)' = CallResult(d)
<1>1. CASE outcome[d].tag = "reply"
  <2>1. OwnAnswers(d)' = OwnAnswers(d)
    BY <1>1 DEF OwnAnswers, Answer, IdOf, Size
  <2> QED
    BY <1>1, <2>1 DEF CallResult
<1>2. CASE outcome[d].tag # "reply"
  BY <1>2 DEF CallResult
<1> QED
  BY <1>1, <1>2

LEMMA NotReturnedYet ==
  ASSUME NEW d \in Calls, outcome[d] = NotReturned
  PROVE  outcome[d].tag # "reply" /\ CallResult(d) = "none"
<1>1. NotReturned.tag = "none yet"
  BY DEF NotReturned, Failure
<1> QED
  BY <1>1 DEF CallResult

LEMMA OnlyTheCall ==
  ASSUME TypeOK, NEW c \in Calls, Call(c)
  PROVE  Only(c)
<1> SUFFICES ASSUME NEW d \in Calls \ {c}
             PROVE  /\ CallStage(d)' = CallStage(d)
                    /\ sentOn'[d] = sentOn[d]
                    /\ CallResult(d)' = CallResult(d)
  BY DEF Only
<1>1. /\ pc'[d] = pc[d] /\ outcome'[d] = outcome[d] /\ first'[d] = first[d]
      /\ sentOn'[d] = sentOn[d]
  BY OneCall
<1>2. CallStage(d)' = CallStage(d)
  BY <1>1 DEF CallStage, Finished
<1> QED
  BY <1>1, <1>2, SameResult

-----------------------------------------------------------------------------
(* The actions of RpcCalls, for one call at a time *)

LEMMA Unmoved ==
  ASSUME NEW c \in Calls, Only(c), CallStage(c)' = CallStage(c),
         sentOn'[c] = sentOn[c], CallResult(c)' = CallResult(c)
  PROVE  UNCHANGED Rpc!rpcVars
BY DEF Only, Rpc!rpcVars

LEMMA Begins ==
  ASSUME NEW c \in Calls, Only(c), CallStage(c) = "idle", CallStage(c)' = "pending",
         sentOn'[c] = sentOn[c], CallResult(c)' = CallResult(c)
  PROVE  Rpc!Begin(c)
BY DEF Only, Rpc!Begin, Rpc!Set

LEMMA Declines ==
  ASSUME NEW c \in Calls, Only(c), CallStage(c) = "idle", CallStage(c)' = "ended",
         sentOn'[c] = sentOn[c], CallResult(c)' \in {"refused", "empty"}
  PROVE  Rpc!Decline(c)
BY DEF Only, Rpc!Decline, Rpc!Set

LEMMA TakesMessage ==
  ASSUME NEW c \in Calls, Only(c), CallStage(c) = "pending", CallStage(c)' = "pending",
         sentOn[c] = 0, sentOn'[c] # 0, CallResult(c)' = CallResult(c)
  PROVE  Rpc!TakeMessage(c)
<1>1. \A d \in Calls : (sentOn'[d] # 0) = (d = c \/ sentOn[d] # 0)
  BY DEF Only
<1>2. [d \in Calls |-> sentOn'[d] # 0] = [d \in Calls |-> d = c \/ sentOn[d] # 0]
  BY <1>1
<1>3. [d \in Calls |-> d = c \/ sentOn[d] # 0] =
        [[d \in Calls |-> sentOn[d] # 0] EXCEPT ![c] = TRUE]
  OBVIOUS
<1> QED
  BY <1>2, <1>3 DEF Only, Rpc!TakeMessage, Rpc!Set

LEMMA Fails ==
  ASSUME NEW c \in Calls, Only(c), CallStage(c) = "pending", CallStage(c)' = "ended",
         sentOn'[c] = sentOn[c], CallResult(c)' = "failed"
  PROVE  Rpc!Fail(c)
BY DEF Only, Rpc!Fail, Rpc!Set

LEMMA Succeeds ==
  ASSUME NEW c \in Calls, Only(c), CallStage(c) = "pending", CallStage(c)' = "ended",
         sentOn[c] # 0, sentOn'[c] = sentOn[c], CallResult(c)' \in {"answers", "sent"}
  PROVE  Rpc!Succeed(c)
BY DEF Only, Rpc!Succeed, Rpc!Set

LEMMA Drops ==
  ASSUME NEW c \in Calls, Only(c), CallStage(c) = "pending", CallStage(c)' = "ended",
         sentOn'[c] = sentOn[c], CallResult(c)' = CallResult(c)
  PROVE  Rpc!Drop(c)
BY DEF Only, Rpc!Drop, Rpc!Set

-----------------------------------------------------------------------------
(* Every step of the client is a step of RpcCalls or a stutter *)

AbstractStep(c) ==
  \/ Rpc!Begin(c) \/ Rpc!Decline(c) \/ Rpc!TakeMessage(c)
  \/ Rpc!Fail(c) \/ Rpc!Succeed(c) \/ Rpc!Drop(c)
  \/ UNCHANGED Rpc!rpcVars

\* How a call that returns tag is seen, unless it is a reply.
LEMMA Results ==
  ASSUME NEW c \in Calls, NEW tag, outcome'[c] = Failure(tag)
  PROVE  /\ tag \in {"lost", "send error", "timeout"} => CallResult(c)' = "failed"
         /\ tag = "invalid" => CallResult(c)' = "refused"
         /\ tag = "sent" => CallResult(c)' = "sent"
         /\ tag = "no batch" =>
              CallResult(c)' = IF Queued[c].notifications = 0 THEN "empty" ELSE "sent"
<1>1. outcome'[c].tag = tag
  BY DEF Failure
<1> QED
  BY <1>1 DEF CallResult

LEMMA StartStep ==
  ASSUME TypeOK, PhasesRight, NEW c \in Calls, Call(c),
         StartRequest(c) \/ StartBatch(c) \/ StartNotify(c)
  PROVE  AbstractStep(c)
<1>1. pc[c] = "idle"
  BY DEF StartRequest, StartBatch, StartNotify
<1>2. outcome[c] = NotReturned
  BY <1>1 DEF PhasesRight, PhaseRight
<1>3. Only(c) /\ sentOn' = sentOn /\ CallStage(c) = "idle"
  BY <1>1, OnlyTheCall, OneCall, Stages
<1>4. ASSUME NEW label \in {"reserved", "sendOnly"}, Continue(c, label)
      PROVE  AbstractStep(c)
  <2>1. pc'[c] = label /\ outcome'[c] = outcome[c]
    BY <1>4, Continued
  <2>2. CallStage(c)' = "pending"
    BY <2>1, Stages DEF Finished
  <2>3. CallResult(c)' = CallResult(c)
    BY <1>2, <2>1, NotReturnedYet, SameResult
  <2> QED
    BY <1>3, <2>2, <2>3, Begins DEF AbstractStep
<1>5. ASSUME NEW tag \in {"invalid", "no batch"}, Return(c, Failure(tag)),
             tag = "no batch" => Queued[c].notifications = 0
      PROVE  AbstractStep(c)
  <2>1. pc'[c] = "done" /\ outcome'[c] = Failure(tag)
    BY <1>5, Returned
  <2>2. CallStage(c)' = "ended"
    BY <2>1, Stages DEF Finished
  <2>3. CallResult(c)' \in {"refused", "empty"}
    BY <1>5, <2>1, Results
  <2> QED
    BY <1>3, <2>2, <2>3, Declines DEF AbstractStep
<1>6. Return(c, Failure("invalid")) => AbstractStep(c)
  BY <1>5
<1>7. Return(c, Failure("no batch")) /\ Queued[c].notifications = 0 => AbstractStep(c)
  BY <1>5
<1>8. Continue(c, "reserved") \/ Continue(c, "sendOnly") => AbstractStep(c)
  BY <1>4
<1>9. CASE StartRequest(c)
  BY <1>6, <1>8, <1>9 DEF StartRequest
<1>10. CASE StartBatch(c)
  BY <1>7, <1>8, <1>10 DEF StartBatch
<1>11. CASE StartNotify(c)
  BY <1>6, <1>8, <1>11 DEF StartNotify
<1> QED
  BY <1>9, <1>10, <1>11

\* The steps of a call that the abstract specification does not see.
LEMMA InnerStep ==
  ASSUME TypeOK, PhasesRight, NEW c \in Calls, Call(c), NEW label, Continue(c, label),
         pc[c] \in {"reserved", "registered", "awaiting"},
         label \in {"registered", "awaiting", "sendFailed", "timedOut"}
  PROVE  AbstractStep(c)
<1>1. Only(c) /\ sentOn' = sentOn
  BY OnlyTheCall, OneCall
<1>2. pc'[c] = label /\ outcome'[c] = outcome[c]
  BY Continued
<1>3. CallStage(c)' = CallStage(c)
  BY <1>2, Stages DEF Finished
<1>4. outcome[c] = NotReturned
  BY DEF PhasesRight, PhaseRight
<1>5. CallResult(c)' = CallResult(c)
  BY <1>2, <1>4, NotReturnedYet, SameResult
<1> QED
  BY <1>1, <1>3, <1>5, Unmoved DEF AbstractStep

LEMMA FailStep ==
  ASSUME TypeOK, NEW c \in Calls, Call(c),
         NEW tag \in {"lost", "send error", "timeout"}, Return(c, Failure(tag)),
         pc[c] \in {"sendOnly", "sendFailed", "timedOut", "awaiting"}
  PROVE  AbstractStep(c)
<1>1. Only(c) /\ sentOn' = sentOn
  BY OnlyTheCall, OneCall
<1>2. pc'[c] = "done" /\ outcome'[c] = Failure(tag)
  BY Returned
<1>3. CallStage(c) = "pending" /\ CallStage(c)' = "ended"
  BY <1>2, Stages DEF Finished
<1>4. CallResult(c)' = "failed"
  BY <1>2, Results
<1> QED
  BY <1>1, <1>3, <1>4, Fails DEF AbstractStep

\* A notification, or a batch of notifications, has been sent.
LEMMA SentStep ==
  ASSUME TypeOK, PhasesRight, NEW c \in Calls, Call(c), pc[c] = "sendOnly", sentOn[c] # 0,
         Return(c, Failure(IF c \in Batches THEN "no batch" ELSE "sent"))
  PROVE  AbstractStep(c)
<1>1. Only(c) /\ sentOn' = sentOn
  BY OnlyTheCall, OneCall
<1>2. /\ pc'[c] = "done"
      /\ outcome'[c] = Failure(IF c \in Batches THEN "no batch" ELSE "sent")
  BY Returned
<1>3. CallStage(c) = "pending" /\ CallStage(c)' = "ended"
  BY <1>2, Stages DEF Finished
<1>4. CallResult(c)' = "sent"
  <2>1. c \in Batches => Queued[c].notifications # 0
    BY DEF PhasesRight, PhaseRight
  <2> QED
    BY <1>2, <2>1, Results
<1> QED
  BY <1>1, <1>3, <1>4, Succeeds DEF AbstractStep

\* A reply in the mailbox is the answer to this call, so it was sent.
LEMMA ReceiveStep ==
  ASSUME AnswerInv, PhasesRight, NEW c \in Calls, Call(c), Receive(c)
  PROVE  AbstractStep(c)
<1>1. TypeOK /\ pc[c] = "awaiting"
  BY DEF AnswerInv, Receive
<1>2. PICK value \in mailbox[c] : Return(c, value)
  BY DEF Receive
<1>3. value \in Value /\ RightFor(c, value)
  BY <1>1 DEF AnswerInv, MailboxesRight, TypeOK, CallsType
<1>4. CASE value.tag = "reply"
  <2>1. Only(c) /\ sentOn' = sentOn /\ first'[c] = first[c]
    BY <1>1, OnlyTheCall, OneCall
  <2>2. pc'[c] = "done" /\ outcome'[c] = value
    BY <1>1, <1>2, Returned
  <2>3. CallStage(c) = "pending" /\ CallStage(c)' = "ended"
    BY <1>1, <2>2, Stages DEF Finished
  <2>4. OwnAnswers(c)' = OwnAnswers(c)
    BY <2>1 DEF OwnAnswers, Answer, IdOf, Size
  <2>5. CallResult(c)' = "answers"
    BY <1>3, <1>4, <2>2, <2>4 DEF RightFor, CallResult
  <2>6. sentOn[c] # 0
    BY <1>1 DEF PhasesRight, PhaseRight
  <2> QED
    BY <2>1, <2>3, <2>5, <2>6, Succeeds DEF AbstractStep
<1>5. CASE value.tag = "lost"
  <2>1. Only(c) /\ sentOn' = sentOn
    BY <1>1, OnlyTheCall, OneCall
  <2>2. pc'[c] = "done" /\ outcome'[c] = value
    BY <1>1, <1>2, Returned
  <2>3. CallStage(c) = "pending" /\ CallStage(c)' = "ended"
    BY <1>1, <2>2, Stages DEF Finished
  <2>4. CallResult(c)' = "failed"
    BY <1>5, <2>2 DEF CallResult
  <2> QED
    BY <2>1, <2>3, <2>4, Fails DEF AbstractStep
<1> QED
  BY <1>3, <1>4, <1>5 DEF Value

LEMMA CancelStep ==
  ASSUME TypeOK, PhasesRight, NEW c \in Calls, Call(c), Cancel(c)
  PROVE  AbstractStep(c)
<1>1. Only(c) /\ sentOn' = sentOn
  BY OnlyTheCall, OneCall
<1>2. /\ pc[c] \in {"registered", "awaiting"} /\ pc'[c] = "cancelled"
      /\ outcome'[c] = outcome[c]
  BY DEF Cancel, Advance, TypeOK, CallsType
<1>3. CallStage(c) = "pending" /\ CallStage(c)' = "ended"
  BY <1>2, Stages DEF Finished
<1>4. outcome[c] = NotReturned
  BY <1>2 DEF PhasesRight, PhaseRight
<1>5. CallResult(c)' = CallResult(c)
  BY <1>2, <1>4, NotReturnedYet, SameResult
<1> QED
  BY <1>1, <1>3, <1>5, Drops DEF AbstractStep

LEMMA CallStep ==
  ASSUME AnswerInv, PhasesRight, NEW c \in Calls, Call(c)
  PROVE  AbstractStep(c)
<1>1. TypeOK
  BY DEF AnswerInv
<1>2. CASE StartRequest(c) \/ StartBatch(c) \/ StartNotify(c)
  BY <1>1, <1>2, StartStep
<1>3. CASE Register(c) \/ TimerFires(c)
  BY <1>1, <1>3, InnerStep DEF Register, TimerFires
<1>4. CASE SendOk(c)
  BY <1>1, <1>4, InnerStep, SentStep DEF SendOk
<1>5. CASE SendErr(c)
  BY <1>1, <1>5, InnerStep, FailStep DEF SendErr
<1>6. CASE CleanupSendError(c) \/ CleanupTimeout(c)
  BY <1>1, <1>6, FailStep DEF CleanupSendError, CleanupTimeout
<1>7. CASE Receive(c)
  BY <1>7, ReceiveStep
<1>8. CASE Cancel(c)
  BY <1>1, <1>8, CancelStep
<1> QED
  BY <1>2, <1>3, <1>4, <1>5, <1>6, <1>7, <1>8 DEF Call

\* Connections count from 1, so that a message on one is a message taken.
LEMMA TransmitStep ==
  ASSUME AnswerInv, PhasesRight, NEW c \in Calls, Transmit(c)
  PROVE  AbstractStep(c)
<1>1. UNCHANGED <<pc, first, outcome>> /\ sentOn[c] = 0
  BY DEF Transmit, callVars
<1>2. /\ \A d \in Calls \ {c} : sentOn'[d] = sentOn[d]
      /\ sentOn'[c] # 0
  BY DEF Transmit, AnswerInv, TypeOK, LinkType, SentStarted
<1>3. \A d \in Calls : CallStage(d)' = CallStage(d)
  BY <1>1 DEF CallStage, Finished
<1>4. \A d \in Calls : CallResult(d)' = CallResult(d)
  BY <1>1, SameResult
<1>5. Only(c)
  BY <1>2, <1>3, <1>4 DEF Only
<1>6. CallStage(c) = "pending"
  BY Stages DEF Transmit, Finished
<1> QED
  BY <1>1, <1>2, <1>3, <1>4, <1>5, <1>6, TakesMessage DEF AbstractStep

LEMMA OtherSteps ==
  ASSUME UNCHANGED <<pc, first, outcome, sentOn>>
  PROVE  UNCHANGED Rpc!rpcVars
<1>1. \A d \in Calls : CallStage(d)' = CallStage(d)
  BY DEF CallStage, Finished
<1>2. \A d \in Calls : CallResult(d)' = CallResult(d)
  BY SameResult
<1> QED
  BY <1>1, <1>2 DEF Rpc!rpcVars

LEMMA StepImplements ==
  AnswerInv /\ PhasesRight /\ [Next]_vars => [Rpc!RpcNext]_(Rpc!rpcVars)
<1> SUFFICES ASSUME AnswerInv, PhasesRight, [Next]_vars
             PROVE  (\E c \in Calls : AbstractStep(c)) \/ UNCHANGED Rpc!rpcVars
  BY DEF AbstractStep, Rpc!RpcNext
<1>1. CASE \E c \in Calls : Call(c)
  BY <1>1, CallStep
<1>2. CASE \E c \in Calls : Transmit(c)
  BY <1>2, TransmitStep
<1>3. CASE IncomingTask \/ DisconnectTask
  BY <1>3, OtherSteps DEF IncomingTask, DisconnectTask, callVars, linkVars, Deliver,
    IncomingSubscribe, IncomingLagged, IncomingRecv, DisconnectSubscribe,
    DisconnectLagged, DisconnectRecv, RequestsListed, FailRequest, RequestsFailed,
    BatchesListed, FailBatch, BatchesFailed
<1>4. CASE \/ Connect \/ Disconnect \/ PeerSendsOther
           \/ \E c \in Calls : PeerAnswers(c) \/ PeerAnswersArray(c)
  BY <1>4, OtherSteps DEF Connect, Disconnect, PeerSendsOther, PeerAnswers,
    PeerAnswersArray, callVars, linkVars
<1>5. CASE UNCHANGED vars
  BY <1>5, OtherSteps DEF vars, callVars, linkVars
<1> QED
  BY <1>1, <1>2, <1>3, <1>4, <1>5 DEF Next, Transport, Idle

LEMMA InitImplements == Init => Rpc!RpcInit
<1> SUFFICES ASSUME Init PROVE Rpc!RpcInit
  OBVIOUS
<1>1. ASSUME NEW c \in Calls
      PROVE  CallStage(c) = "idle" /\ sentOn[c] = 0 /\ CallResult(c) = "none"
  BY Stages, NotReturnedYet DEF Init
<1> QED
  BY <1>1 DEF Rpc!RpcInit

(***************************************************************************)
(* WsClient implements RpcCalls: with any number of calls, reconnections,  *)
(* sweeps and timers, every behaviour of the client is one that the trait  *)
(* Client promises its callers.                                            *)
(***************************************************************************)
THEOREM ClientImplementsRpc == Spec => ImplementsRpc
<1>1. Init => AnswerInv /\ PhasesRight
  BY AnswerInvInit, InitPhases
<1>2. AnswerInv /\ PhasesRight /\ [Next]_vars => (AnswerInv /\ PhasesRight)'
  BY AnswerInvNext, PhasesNext DEF AnswerInv
<1> QED
  BY <1>1, <1>2, InitImplements, StepImplements, PTL DEF Spec, ImplementsRpc, Rpc!RpcSpec
=============================================================================
