------------------------------ MODULE Outgoing ------------------------------
(***************************************************************************)
(* What a client sends (jsonrpc_core, protocol.rs and params.rs): requests *)
(* and notifications whose params are an Array or an Object, or are left   *)
(* out. The method is not modelled; params stand for the whole item.       *)
(***************************************************************************)
EXTENDS Integers

CONSTANTS
  Params,           \* what a caller may give for params, NoParams included
  NoParams,         \* () or None: the member is left out
  Structured,       \* the values that serialize to an Array or an Object
  Unserializable    \* the values whose Serialize implementation fails

ASSUME ParamsAssumption ==
  /\ NoParams \in Params
  /\ Structured \subseteq Params \ {NoParams}
  /\ Unserializable \subseteq Params \ {NoParams}
  /\ Structured \intersect Unserializable = {}

\* try_new and try_new_owned succeed: params, if there are any, serialize and
\* start with a brace or a bracket (is_object_or_array).
Acceptable(p) == p = NoParams \/ p \in Structured

\* The error for params that are not acceptable. Some(()) is one of those: it
\* serializes to null.
Refusal(p) == IF p \in Unserializable THEN "serde error" ELSE "invalid params"

\* JsonRpcRequest; the id is what it has beyond a notification.
Request(id, p) == [id |-> id, params |-> p]

\* JsonRpcNotification
Notification(p) == [id |-> -1, params |-> p]
=============================================================================
