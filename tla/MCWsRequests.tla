---------------------------- MODULE MCWsRequests ----------------------------
(* Unary requests only: two calls that race with reconnection. *)
EXTENDS WsClient

MCQueued == [b \in {} |-> 0]
MCReplyShapes == {<<1>>}
=============================================================================
