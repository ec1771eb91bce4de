------------------------------ MODULE RpcCalls ------------------------------
(***************************************************************************)
(* What the trait Client (jsonrpc_core, client.rs) promises the callers of *)
(* request, notify and batch_request, whatever the transport: the message  *)
(* of a call is taken by the transport at most once and never after the    *)
(* call has ended; a call ends once; it ends with answers only if its      *)
(* message was taken, and they are its own; what is refused beforehand is  *)
(* never sent. WsClient and HttpClient implement this specification.       *)
(***************************************************************************)
CONSTANT Calls

VARIABLES
  stage,    \* "idle", "pending", "ended"
  taken,    \* the transport has taken the call's message
  result    \* how the call ended

rpcVars == <<stage, taken, result>>

RpcInit ==
  /\ stage = [c \in Calls |-> "idle"]
  /\ taken = [c \in Calls |-> FALSE]
  /\ result = [c \in Calls |-> "none"]

Set(f, c, value) == [f EXCEPT ![c] = value]

Begin(c) ==
  /\ stage[c] = "idle"
  /\ stage' = Set(stage, c, "pending")
  /\ UNCHANGED <<taken, result>>

\* Nothing to send, or nothing that may be sent.
Decline(c) ==
  /\ stage[c] = "idle"
  /\ stage' = Set(stage, c, "ended")
  /\ result' \in {Set(result, c, "refused"), Set(result, c, "empty")}
  /\ UNCHANGED taken

TakeMessage(c) ==
  /\ stage[c] = "pending"
  /\ ~taken[c]
  /\ taken' = Set(taken, c, TRUE)
  /\ UNCHANGED <<stage, result>>

\* An error, with the message taken or not: the peer may have acted on it.
Fail(c) ==
  /\ stage[c] = "pending"
  /\ stage' = Set(stage, c, "ended")
  /\ result' = Set(result, c, "failed")
  /\ taken' \in {taken, Set(taken, c, TRUE)}

\* The call's own answers, or the knowledge that it was sent.
Succeed(c) ==
  /\ stage[c] = "pending"
  /\ stage' = Set(stage, c, "ended")
  /\ result' \in {Set(result, c, "answers"), Set(result, c, "sent")}
  /\ taken' = Set(taken, c, TRUE)

\* The caller drops the future.
Drop(c) ==
  /\ stage[c] = "pending"
  /\ stage' = Set(stage, c, "ended")
  /\ UNCHANGED <<taken, result>>

RpcNext ==
  \E c \in Calls :
    Begin(c) \/ Decline(c) \/ TakeMessage(c) \/ Fail(c) \/ Succeed(c) \/ Drop(c)

RpcSpec == RpcInit /\ [][RpcNext]_rpcVars
=============================================================================
