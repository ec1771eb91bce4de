------------------------------ MODULE MCWsLiveness ------------------------------
(* Liveness: calls of every kind. *)
EXTENDS WsClient, FiniteSets

CONSTANTS b1, b2, b3

MCQueued ==
  [b \in Batches |->
     CASE b = b1 -> [requests |-> 1, notifications |-> 0]
       [] b = b2 -> [requests |-> 0, notifications |-> 1]
       [] b = b3 -> [requests |-> 0, notifications |-> 0]]
MCReplyShapes == {<<1>>, <<0>>}
MCAnswerShapes == {<<1>>}

\* Bound: any two of the calls run together. Nothing has to start a call, so
\* this takes no fair step away.
AtMostTwoStart == Cardinality({c \in Calls : pc'[c] # "idle"}) <= 2
=============================================================================
