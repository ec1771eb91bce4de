----------------------------- MODULE MCSession -----------------------------
(* One subscriber, of a client that pings every two units of time, never,  *)
(* or with an interval of zero.                                            *)
EXTENDS WsSession

MCPingIntervals == {NoInterval, 0, 2}
MCNoPings == {NoInterval}
MCMaxNotes == [i \in PingIntervals |-> IF i = NoInterval THEN 3 ELSE 1]
=============================================================================
