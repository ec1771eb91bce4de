----------------------------- MODULE Correlate -----------------------------
(***************************************************************************)
(* One response to a batch, correlated by both clients: by the loop of     *)
(* HttpCorrelate, and by the algorithm of WsCorrelate, which takes the     *)
(* items the decoder has found.                                            *)
(***************************************************************************)
EXTENDS HttpCorrelate, WsCorrelate

\* An id of a message is a u64.
ASSUME IdsFitAssumption ==
  /\ MaxId \in Nat
  /\ \A m \in Messages : \A n \in DOMAIN m.objects : m.objects[n].id <= MaxId

(***************************************************************************)
(* Sorting the ids and comparing neighbours finds the entry of a batch     *)
(* exactly when the response answers every request of it once, and items   *)
(* without an id do not matter (handle_message).                           *)
(***************************************************************************)
WindowsDecide == key \in RangeKeys(items) <=> Correlates(items, key)

(***************************************************************************)
(* Then the placing loop fills every slot, so its expect() does not panic, *)
(* and the answers are in the order of the requests (handle_message).      *)
(***************************************************************************)
WsPlaces == key \in RangeKeys(items) => Placed(items, key) = InRequestOrder(items, key)

(***************************************************************************)
(* Comparing neighbours can only overflow on a response that repeats the   *)
(* last id there is: sorted, no other id follows it (handle_message).      *)
(***************************************************************************)
OverflowNeedsRepetition ==
  SumOverflows(SortedIds(items)) => ~NoDuplicates(items)
=============================================================================
