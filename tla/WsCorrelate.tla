----------------------------- MODULE WsCorrelate -----------------------------
(***************************************************************************)
(* The batch branch of handle_message (jsonrpc_ws_client), step by step:   *)
(* collect the ids, sort them, compare neighbours, look the range up, and  *)
(* place the items. WsTasks uses the set-based definitions of              *)
(* BatchCorrelation for the same.                                          *)
(***************************************************************************)
EXTENDS BatchCorrelation, Functions

CONSTANT MaxId   \* u64::MAX

\* filter_map: items without an id are left out.
IdsOf(items) ==
  LET ids[n \in 0 .. Len(items)] ==
        IF n = 0 THEN <<>>
        ELSE IF items[n].id < 0 THEN ids[n - 1] ELSE Append(ids[n - 1], items[n].id)
  IN  ids[Len(items)]

\* Fault: compares the ids in the order in which they arrived.
SortedIdsUnsorted(items) == IdsOf(items)

\* sort_unstable: the ids in an order in which they do not decrease.
SortedIds(items) ==
  LET ids == IdsOf(items)
      order == CHOOSE p \in Bijection(DOMAIN ids, DOMAIN ids) :
                 \A i, j \in DOMAIN ids : i < j => ids[p[i]] <= ids[p[j]]
  IN  [i \in DOMAIN ids |-> ids[order[i]]]

\* Fault: compares with <=, so that a repeated id passes.
IsContiguousLoosely(ids) == \A i \in 1 .. Len(ids) - 1 : ids[i + 1] <= ids[i] + 1

\* windows(2).all(w[1] == w[0] + 1)
IsContiguous(ids) == \A i \in 1 .. Len(ids) - 1 : ids[i + 1] = ids[i] + 1

\* The sum w[0] + 1 leaves the u64, which panics in a debug build; all() stops at
\* the first pair that does not fit. (In a release build it is 0, which no later
\* id equals.)
SumOverflows(ids) ==
  \E i \in 1 .. Len(ids) - 1 : ids[i] = MaxId /\ IsContiguous(SubSeq(ids, 1, i))

\* The range the entry is removed under, if it comes to that.
RangeKeys(items) ==
  LET ids == SortedIds(items)
  IN  IF ids # <<>> /\ IsContiguous(ids) THEN {<<ids[1], ids[Len(ids)]>>} ELSE {}

\* Fault: places the items by their position in the message.
PlacedByPosition(items, key) ==
  [n \in 1 .. Len(IdsOf(items)) |-> items[n]]

\* items[idx] = Some(item): items without an id are skipped. A slot that
\* nothing fills is None, and expect() panics on it.
Placed(items, key) ==
  LET slots[n \in 0 .. Len(items)] ==
        IF n = 0 THEN [m \in 1 .. Len(IdsOf(items)) |-> "None"]
        ELSE IF items[n].id < 0 THEN slots[n - 1]
        ELSE [slots[n - 1] EXCEPT ![items[n].id - key[1] + 1] = items[n]]
  IN  slots[Len(items)]
=============================================================================
