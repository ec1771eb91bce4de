----------------------------- MODULE HttpClient -----------------------------
(***************************************************************************)
(* HttpClient (jsonrpc_http_client): every call is an HTTP POST of its     *)
(* own. Calls run concurrently and share nothing but the id counter. What  *)
(* answers them is external and may be anything: a proxy's error page, the *)
(* response to another call, a mixture.                                    *)
(***************************************************************************)
EXTENDS BatchBuilder, BatchCorrelation, Decode

CONSTANTS
  Requests,   \* calls of request
  Notifies,   \* calls of notify
  MaxItems    \* bound: the longest batch response

ASSUME CallsAssumption ==
  /\ Requests \intersect Batches = {}
  /\ Requests \intersect Notifies = {}
  /\ Batches \intersect Notifies = {}
  /\ MaxItems \in Nat

Calls == Requests \union Batches \union Notifies

VARIABLES
  pc,        \* where each call is in its async fn
  posted,    \* what the call POSTs: range, items and parsers
  status,    \* the status of its HTTP response
  outcome    \* what the call returned

vars == <<idVars, queueVars, pc, posted, status, outcome>>

NotReturned == [tag |-> "none yet", items |-> <<>>]
Failure(tag) == [tag |-> tag, items |-> <<>>]
NothingPosted == [range |-> NoRange, items |-> <<>>, parsers |-> <<>>]

Init ==
  /\ InitIds
  /\ InitQueues
  /\ pc = [c \in Calls |-> "idle"]
  /\ posted = [c \in Calls |-> NothingPosted]
  /\ status = [c \in Calls |-> "none"]
  /\ outcome = [c \in Calls |-> NotReturned]

Return(c, result) ==
  /\ pc' = [pc EXCEPT ![c] = "done"]
  /\ outcome' = [outcome EXCEPT ![c] = result]

Continue(c, label) ==
  /\ pc' = [pc EXCEPT ![c] = label]
  /\ UNCHANGED outcome

Post(c, message) ==
  /\ posted' = [posted EXCEPT ![c] = message]
  /\ Continue(c, "sending")

-----------------------------------------------------------------------------
(* Up to the await of send() *)

\* The batch is queued before batch_request takes it.
Queue(b) ==
  /\ pc[b] = "idle"
  /\ \E p \in Params : AddRequest(b, p) \/ AddNotification(b, p)
  /\ UNCHANGED <<idVars, pc, posted, status, outcome>>

\* The id of a request whose params are refused is not given back.
StartRequest(c) ==
  /\ c \in Requests
  /\ pc[c] = "idle"
  /\ Take(1)
  /\ \E p \in Params :
       \/ /\ Acceptable(p)
          /\ Post(c, [range   |-> RangeFrom(currentId, 1),
                      items   |-> <<Request(currentId, p)>>,
                      parsers |-> <<p>>])
       \/ ~Acceptable(p) /\ Return(c, Failure(Refusal(p))) /\ UNCHANGED posted
  /\ UNCHANGED <<queueVars, status>>

StartNotify(c) ==
  /\ c \in Notifies
  /\ pc[c] = "idle"
  /\ \E p \in Params :
       \/ /\ Acceptable(p)
          /\ Post(c, [NothingPosted EXCEPT !.items = <<Notification(p)>>])
       \/ ~Acceptable(p) /\ Return(c, Failure(Refusal(p))) /\ UNCHANGED posted
  /\ UNCHANGED <<idVars, queueVars, status>>

StartBatch(b) ==
  /\ b \in Batches
  /\ pc[b] = "idle"
  /\ \/ /\ NothingQueued(b)
        /\ Return(b, Failure("no batch"))
        /\ UNCHANGED <<idVars, posted>>
     \/ /\ ~NothingQueued(b)
        /\ Take(Len(requests[b]))
        /\ \/ Post(b, Built(b, currentId))
           \/ /\ requests[b] # <<>>
              /\ Overflow(currentId, Len(requests[b]))
              /\ Return(b, Failure("panic"))
              /\ UNCHANGED posted
  /\ UNCHANGED <<queueVars, status>>

-----------------------------------------------------------------------------
(* The exchange *)

\* Fault: goes back to the start and tries the call again.
TransportFailsRetrying(c) ==
  /\ pc[c] \in {"sending", "reading"}
  /\ Continue(c, "idle")
  /\ posted' = [posted EXCEPT ![c] = NothingPosted]
  /\ UNCHANGED <<idVars, queueVars, status>>

\* send() or bytes() fails: no connection, a connection lost, a timeout.
TransportFails(c) ==
  /\ pc[c] \in {"sending", "reading"}
  /\ Return(c, Failure("transport error"))
  /\ UNCHANGED <<idVars, queueVars, posted, status>>

ExpectsReply(c) == posted[c].range # NoRange

\* Fault: leaves it to the decoder to find out that the response is an error page.
SendReturnsUnchecked(c) ==
  /\ pc[c] = "sending"
  /\ \E result \in {"success", "failure"} :
       /\ status' = [status EXCEPT ![c] = result]
       /\ \/ ~ExpectsReply(c) /\ Return(c, Failure("sent"))
          \/ ExpectsReply(c) /\ Continue(c, "reading")
  /\ UNCHANGED <<idVars, queueVars, posted>>

\* send() returns a response. Its status is looked at only if a reply is
\* expected: a notification, or a batch of nothing else, has been sent.
SendReturns(c) ==
  /\ pc[c] = "sending"
  /\ \E result \in {"success", "failure"} :
       /\ status' = [status EXCEPT ![c] = result]
       /\ \/ /\ ~ExpectsReply(c)
             /\ Return(c, Failure(IF c \in Batches THEN "no batch" ELSE "sent"))
          \/ ExpectsReply(c) /\ result = "failure" /\ Return(c, Failure("transport error"))
          \/ ExpectsReply(c) /\ result = "success" /\ Continue(c, "reading")
  /\ UNCHANGED <<idVars, queueVars, posted>>

-----------------------------------------------------------------------------
(* What may come back *)

\* The answer to the n-th request of c, as an object on the wire: a result or
\* an error.
AnswerTo(c, n) == [call |-> c, entry |-> n]

Object(id, member, answer) ==
  [version |-> "2.0", id |-> id, method |-> "absent",
   result |-> IF member = "result" THEN "value" ELSE "absent",
   error  |-> IF member = "error" THEN "plain" ELSE "absent", answer |-> answer]

Answering(member) ==
  UNION {{Object(posted[c].items[n].id, member, AnswerTo(c, n))
          : n \in DOMAIN posted[c].parsers} : c \in Calls}

\* The peer could not tell which request the error belongs to.
Nobody == [call |-> "nobody", entry |-> 0]
Anonymous == Object(NullId, "error", Nobody)

\* The peer calls a method of the client.
PeerCall == [Object(AbsentId, "none", Nobody) EXCEPT !.method = "plain"]

Singles == Answering("result") \union Answering("error") \union {Anonymous, PeerCall}

Bodies ==
  {[shape |-> "object", objects |-> <<object>>] : object \in Singles}
    \union
  [shape : {"array"},
   objects : UNION {[1 .. n -> Answering("result") \union {Anonymous}] : n \in 0 .. MaxItems}]
    \union
  [shape : {"text"}, objects : {<<>>}]

Undecodable == {"serde error", "invalid message"}

\* JsonRpcIncoming::try_from, then decode_single_response.
DecodeSingle(body, id, parser) ==
  LET incoming == TryFrom(body)
  IN  IF SingleAnswers(incoming, id)
        THEN [tag   |-> "reply",
              items |-> <<[answer |-> incoming.items[1].answer, parser |-> parser]>>]
        ELSE Failure(IF incoming.kind \in Undecodable THEN incoming.kind
                     ELSE "invalid message")

\* try_from, then correlate_batch_items, as HttpCorrelate shows it to work;
\* each item meets the parser of its request.
DecodeBatch(body, range, parsers) ==
  LET incoming == TryFrom(body)
      slots    == InRequestOrder(incoming.items, range)
  IN  IF incoming.kind = "batch" /\ Accepts(incoming.items, range)
        THEN [tag   |-> "reply",
              items |-> [n \in DOMAIN parsers |->
                           [answer |-> slots[n].answer, parser |-> parsers[n]]]]
        ELSE Failure(IF incoming.kind \in Undecodable THEN incoming.kind
                     ELSE "invalid message")

\* bytes() returns the body, which is decoded without another await.
BodyArrives(c) ==
  /\ pc[c] = "reading"
  /\ \E body \in Bodies :
       Return(c, IF c \in Requests
                   THEN DecodeSingle(body, posted[c].range[1], posted[c].parsers[1])
                   ELSE DecodeBatch(body, posted[c].range, posted[c].parsers))
  /\ UNCHANGED <<idVars, queueVars, posted, status>>

-----------------------------------------------------------------------------

\* Every call has returned.
Idle == (\A c \in Calls : pc[c] = "done") /\ UNCHANGED vars

Next ==
  \/ \E b \in Batches : Queue(b)
  \/ \E c \in Calls :
       \/ StartRequest(c) \/ StartNotify(c) \/ StartBatch(c)
       \/ TransportFails(c) \/ SendReturns(c) \/ BodyArrives(c)
  \/ Idle

Spec == Init /\ [][Next]_vars

-----------------------------------------------------------------------------
(* Properties *)

\* What a call asks for, in order.
Asked(c) == IF c \in Batches THEN requests[c]
            ELSE [n \in DOMAIN posted[c].parsers |-> posted[c].items[n].params]

(***************************************************************************)
(* A call that returns a reply returns the answers to what it asked for,   *)
(* all of them, in the order it asked, each parsed by the parser queued    *)
(* with it, whichever body its exchange gets. Only an error that names no  *)
(* request can be somebody else's. Ids must not have gone round.           *)
(***************************************************************************)
OwnReply ==
  Len(issued) <= Modulus =>
    \A c \in Calls : outcome[c].tag = "reply" =>
      \/ c \in Requests /\ outcome[c].items[1].answer = Nobody
      \/ outcome[c].items =
           [n \in DOMAIN Asked(c) |-> [answer |-> AnswerTo(c, n), parser |-> Asked(c)[n]]]

\* The answers a call is entitled to, unless the ids have gone round.
Entitled(c) ==
  Len(issued) > Modulus
    \/ outcome[c].items =
         [n \in DOMAIN Asked(c) |-> [answer |-> AnswerTo(c, n), parser |-> Asked(c)[n]]]

CallStage(c) == CASE pc[c] = "idle" -> "idle" [] pc[c] = "done" -> "ended" [] OTHER -> "pending"

\* An error that names no request is a failure of whoever reads it.
CallResult(c) ==
  LET tag == outcome[c].tag
  IN  CASE tag = "none yet" -> "none"
        [] tag = "reply" -> IF outcome[c].items[1].answer = Nobody THEN "failed"
                            ELSE IF Entitled(c) THEN "answers"
                            ELSE "somebody else's"
        [] tag = "sent" -> "sent"
        [] tag = "no batch" -> IF NothingQueued(c) THEN "empty" ELSE "sent"
        [] OTHER -> IF posted[c] = NothingPosted THEN "refused" ELSE "failed"

Rpc == INSTANCE RpcCalls WITH
  stage  <- [c \in Calls |-> CallStage(c)],
  taken  <- [c \in Calls |-> status[c] # "none"],
  result <- [c \in Calls |-> CallResult(c)]

(***************************************************************************)
(* The HTTP client keeps the promises of RpcCalls: a call makes at most    *)
(* one exchange, ends once, and has its own answers only after the         *)
(* exchange.                                                               *)
(***************************************************************************)
ImplementsRpc == Rpc!RpcSpec

(***************************************************************************)
(* A batch that is POSTed holds everything that was queued, each request   *)
(* under its own id with its own params, until the ids go round            *)
(* (BatchBuilder::build).                                                  *)
(***************************************************************************)
NothingLeftOut ==
  Len(issued) <= Modulus =>
    \A b \in Batches : pc[b] \in {"sending", "reading"} =>
      /\ [n \in DOMAIN posted[b].items |-> posted[b].items[n].params]
           = requests[b] \o notifications[b]
      /\ \A n \in DOMAIN posted[b].items :
           posted[b].items[n].id >= 0 <=> n \in DOMAIN posted[b].parsers

(***************************************************************************)
(* No reply is ever read out of an error page (ensure_success).            *)
(***************************************************************************)
RepliesFromSuccess ==
  \A c \in Calls : outcome[c].tag = "reply" => status[c] = "success"
=============================================================================
