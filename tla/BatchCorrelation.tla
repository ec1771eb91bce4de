-------------------------- MODULE BatchCorrelation --------------------------
(***************************************************************************)
(* How the clients match the array of responses a peer sends with the      *)
(* batch that waits for it: the ids that come back, in whatever order,     *)
(* must be exactly a contiguous range of ids, and each response is placed  *)
(* by its distance from the first id.                                      *)
(*                                                                         *)
(* An item is a record with an id; a negative id stands for an error       *)
(* response that carries none.                                             *)
(***************************************************************************)
EXTENDS Integers, Sequences

\* The positions of the items that carry an id (filter_map).
Numbered(items) == {i \in DOMAIN items : items[i].id >= 0}

Ids(items) == {items[i].id : i \in Numbered(items)}

NoDuplicates(items) ==
  \A i, j \in Numbered(items) : items[i].id = items[j].id => i = j

\* What sorting the ids and comparing neighbours finds out: the ids are the
\* contiguous range that the key (first, last) names, each of them once.
Correlates(items, key) ==
  /\ key[1] <= key[2]
  /\ Ids(items) = key[1] .. key[2]
  /\ NoDuplicates(items)

\* Fault: leaves the items in the order in which they arrived.
InArrivalOrder(items, key) == items

\* items[idx] = Some(item), with idx = id - first; items without an id are
\* skipped.
InRequestOrder(items, key) ==
  [n \in 1 .. key[2] - key[1] + 1 |->
     items[CHOOSE i \in Numbered(items) : items[i].id = key[1] + n - 1]]

\* What correlate_batch_items of the HTTP client asks for beyond that: an item
\* without an id is not skipped but refused.
Accepts(items, key) == Numbered(items) = DOMAIN items /\ Correlates(items, key)
=============================================================================
