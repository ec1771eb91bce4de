---------------------------- MODULE WsLifecycle ----------------------------
(***************************************************************************)
(* The life of a WsClient (client.rs): built, run, shut down or dropped,   *)
(* and of the four tokio tasks that run() spawns. abort() only asks: a     *)
(* task goes on until its next await, on a thread of its own.              *)
(***************************************************************************)
EXTENDS Integers, Sequences

VARIABLES
  client,     \* the handle: "built", "running", "dropping", "dropped"
  task,       \* each task: "none", "spawned", "started", "aborting", "gone"
  aborts,     \* how many tasks Drop has aborted
  connected,  \* is_connected()
  stopped     \* WebSocketClient::shutdown has been signalled

lifeVars == <<client, task, aborts, connected, stopped>>

TaskNames == {"incoming", "management", "disconnect", "run"}

InitLife ==
  /\ client = "built"
  /\ task = [t \in TaskNames |-> "none"]
  /\ aborts = 0
  /\ connected = FALSE
  /\ stopped = FALSE

\* Aborted or not, a task that has started may go on to its next await.
Running(t) == task[t] \in {"started", "aborting"}

\* Every task holds an Arc of WsClientInner, and so does the handle.
InnerReleased == client = "dropped" /\ \A t \in TaskNames : task[t] \in {"none", "gone"}

-----------------------------------------------------------------------------
(* WsClient::run *)

Run ==
  /\ client = "built"
  /\ client' = "running"
  /\ task' = [t \in TaskNames |-> "spawned"]
  /\ UNCHANGED <<aborts, connected, stopped>>

\* The first poll of a task.
Start(t) ==
  /\ task[t] = "spawned"
  /\ task' = [task EXCEPT ![t] = "started"]
  /\ UNCHANGED <<client, aborts, connected, stopped>>

-----------------------------------------------------------------------------
(* The run task drives the connection: client.run(), external *)

Connect ==
  /\ Running("run")
  /\ ~connected
  /\ ~stopped
  /\ connected' = TRUE
  /\ UNCHANGED <<client, task, aborts, stopped>>

Lose ==
  /\ connected
  /\ connected' = FALSE
  /\ UNCHANGED <<client, task, aborts, stopped>>

\* run() sees the signal, or gives up. Nobody reads what it returns.
RunReturns ==
  /\ Running("run")
  /\ task' = [task EXCEPT !["run"] = "gone"]
  /\ connected' = FALSE
  /\ UNCHANGED <<client, aborts, stopped>>

\* get_websocket_client().shutdown(), before or after run().
StopTransport ==
  /\ client \in {"built", "running"}
  /\ ~stopped
  /\ stopped' = TRUE
  /\ UNCHANGED <<client, task, aborts, connected>>

-----------------------------------------------------------------------------
(* Drop for Connected *)

\* Fault: leaves out management_task, added to the struct last.
AbortOrderIncomplete == <<"incoming", "disconnect", "run">>

AbortOrder == <<"incoming", "management", "disconnect", "run">>

\* shutdown() signals the transport and drops the handle; or just a drop.
\* Both need the handle for themselves.
BeginDrop ==
  /\ client = "running"
  /\ client' = "dropping"
  /\ stopped' \in {stopped, TRUE}
  /\ UNCHANGED <<task, aborts, connected>>

\* JoinHandle::abort, one after the other, while the tasks run. A task that
\* has not been polled yet never is.
Abort ==
  /\ client = "dropping"
  /\ aborts < Len(AbortOrder)
  /\ aborts' = aborts + 1
  /\ task' = [task EXCEPT ![AbortOrder[aborts']] =
                CASE @ = "spawned" -> "gone"
                  [] @ = "started" -> "aborting"
                  [] @ \in {"aborting", "gone"} -> @]
  /\ UNCHANGED <<client, connected, stopped>>

FinishDrop ==
  /\ client = "dropping"
  /\ aborts = Len(AbortOrder)
  /\ stopped' = TRUE
  /\ client' = "dropped"
  /\ UNCHANGED <<task, aborts, connected>>

\* The runtime drops an aborted task, and with the run task the connection.
Cancelled(t) ==
  /\ task[t] = "aborting"
  /\ task' = [task EXCEPT ![t] = "gone"]
  /\ connected' = (connected /\ t # "run")
  /\ UNCHANGED <<client, aborts, stopped>>
=============================================================================
