---------------------------- MODULE MCWsBatches ----------------------------
(* A request and a batch of two. The peer answers them in any order,       *)
(* incompletely, twice, one by one, or with errors that carry no id.       *)
EXTENDS WsClient

MCQueued == [b \in Batches |-> [requests |-> 2, notifications |-> 1]]
MCReplyShapes == {<<1, 2>>, <<2, 1>>, <<2>>, <<1, 1>>, <<2, 0, 1>>}
=============================================================================
