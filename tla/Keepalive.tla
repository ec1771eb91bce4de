----------------------------- MODULE Keepalive -----------------------------
(***************************************************************************)
(* management_task (handles.rs): in every turn of its loop it waits for    *)
(* whatever comes first, a message, which it only logs, or the ticker of   *)
(* tokio::time, on which it sends a Ping and waits for that to be sent.    *)
(* Time passes in units.                                                   *)
(***************************************************************************)
EXTENDS WsLifecycle

CONSTANTS
  PingIntervals,  \* what the builder may be given: NoInterval, or a duration
  Backlog,        \* capacity of the channel of incoming messages
  MaxLate         \* bound: how late a tick can be

NoInterval == -1

ASSUME KeepaliveAssumption ==
  /\ PingIntervals \subseteq Nat \union {NoInterval}
  /\ Backlog \in Nat \ {0}
  /\ MaxLate \in Nat

VARIABLES
  interval,  \* ping_interval
  unread,    \* messages that wait for management_task
  due,       \* time to the next tick; late when negative
  quiet,     \* time since the last tick, as far as it matters
  pinging    \* send(Ping).await is in progress

pingVars == <<interval, unread, due, quiet, pinging>>

InitPings ==
  /\ interval \in PingIntervals
  /\ unread = 0
  /\ due = 0
  /\ quiet = IF interval > 0 THEN interval ELSE 0
  /\ pinging = FALSE

\* tokio's interval() panics on a period of zero, and takes the task with it.
\* Its first tick is due at once.
ManagementStart ==
  /\ task["management"] = "spawned"
  /\ task' = [task EXCEPT !["management"] = IF interval = 0 THEN "gone" ELSE "started"]
  /\ UNCHANGED <<client, aborts, connected, stopped, pingVars>>

\* To a full channel the report of what was missed takes a message's place.
Unread == IF Running("management") /\ unread < Backlog THEN unread + 1 ELSE unread

\* Fault: a new ticker for every turn of the loop.
ManagementRecvRestarting ==
  /\ Running("management")
  /\ ~pinging
  /\ unread > 0
  /\ unread' = unread - 1
  /\ due' = interval
  /\ UNCHANGED <<interval, quiet, pinging>>

\* messages.recv() wins: the tick is dropped, the ticker is not.
ManagementRecv ==
  /\ Running("management")
  /\ ~pinging
  /\ unread > 0
  /\ unread' = unread - 1
  /\ UNCHANGED <<interval, due, quiet, pinging>>

\* Fault: MissedTickBehavior::Burst, tokio's default.
NextDueBurst == due + interval

\* MissedTickBehavior::Delay.
NextDue == interval

Tick ==
  /\ Running("management")
  /\ ~pinging
  /\ interval > 0
  /\ due <= 0
  /\ due' = NextDue
  /\ quiet' = 0
  /\ pinging' = TRUE
  /\ UNCHANGED <<interval, unread>>

\* Sent, or an error that is logged.
PingReturns ==
  /\ pinging
  /\ Running("management")
  /\ pinging' = FALSE
  /\ UNCHANGED <<interval, unread, due, quiet>>

Elapse ==
  /\ Running("management")
  /\ interval > 0
  /\ due > -MaxLate
  /\ due' = due - 1
  /\ quiet' = IF quiet < interval THEN quiet + 1 ELSE quiet
  /\ UNCHANGED <<interval, unread, pinging>>
=============================================================================
