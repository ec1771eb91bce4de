----------------------------- MODULE RequestIds -----------------------------
(***************************************************************************)
(* RequestIdManager (jsonrpc_core): an atomic counter of Modulus values    *)
(* (2^64 in the code) from which any number of threads reserve ids. Each   *)
(* reservation is a single fetch_add. No client calls reset().             *)
(***************************************************************************)
EXTENDS Integers, Sequences

CONSTANT Modulus

ASSUME ModulusAssumption == Modulus \in Nat \ {0}

VARIABLES
  currentId,    \* RequestIdManager::current_id
  issued        \* history: the ids handed out so far, in order

idVars == <<currentId, issued>>

InitIds == currentId = 0 /\ issued = <<>>

\* The ids a fetch_add of count covers: the n-th of them, for n in 1 .. count.
Covered(start, count) == [n \in 1 .. count |-> (start + n - 1) % Modulus]

\* reserve_range's Some(start ..= start + count - 1), with the wrapping
\* arithmetic of a release build: a range that crosses the end is inverted.
RangeFrom(start, count) == <<start, (start + count - 1) % Modulus>>

\* In a debug build the sum start + count is checked.
Overflow(start, count) == start + count >= Modulus

\* Fault: counts a batch as one id.
TakeOne(count) ==
  /\ currentId' = (currentId + 1) % Modulus
  /\ issued' = issued \o Covered(currentId, count)

\* fetch_add(count), which wraps around in every build. With count = 1 it is
\* reserve_id.
Take(count) ==
  /\ currentId' = (currentId + count) % Modulus
  /\ issued' = issued \o Covered(currentId, count)

-----------------------------------------------------------------------------

\* The counter only holds its own values.
IdsType ==
  /\ currentId \in 0 .. Modulus - 1
  /\ issued \in Seq(0 .. Modulus - 1)

(***************************************************************************)
(* Ids are unique until the counter has gone all the way round: however    *)
(* reservations of one id and of ranges interleave, no two of them overlap *)
(* (reserve_id, reserve_range).                                            *)
(***************************************************************************)
IdsUnique ==
  Len(issued) <= Modulus =>
    \A i, j \in DOMAIN issued : issued[i] = issued[j] => i = j
=============================================================================
