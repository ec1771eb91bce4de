------------------------- MODULE CorrelateProofs -------------------------
(***************************************************************************)
(* Proofs about the decoding and correlation of a batch response, for      *)
(* every response and every range.                                         *)
(*                                                                         *)
(* The loop of the HTTP client: the slots of correlate_batch_items are all *)
(* filled when it unwraps them, by the pigeonhole principle, as each turn  *)
(* of the loop fills one slot that was empty, and the loop makes as many   *)
(* turns as there are slots. What it accepts is what was asked for, and    *)
(* the decoder takes objects and arrays for what they are.                 *)
(*                                                                         *)
(* The algorithm of the WebSocket client, by induction over the items: the *)
(* ids that are collected enumerate the numbered items; a sorted order of  *)
(* them exists (by insertion), and is a range without gaps exactly when    *)
(* the response answers every request once; the placing loop then fills    *)
(* every slot. So the two clients agree.                                   *)
(***************************************************************************)
EXTENDS Correlate, FiniteSetTheorems, DataInduction

Verdicts ==
  {"decoding", "no batch", "invalid message", "serde error", "counting", "placing",
   "placed", "wrong count", "no id", "outside the range", "duplicate", "panic"}

BatchItem == [kind : {"response", "error"}, id : Int, answer : Int]

InputsType ==
  /\ message.objects \in Seq(Object)
  /\ items \in Seq(BatchItem)
  /\ key \in Nat \X Nat
  /\ key[1] <= key[2]
  /\ next \in 1 .. Len(items) + 1
  /\ verdict \in Verdicts

\* As many slots are filled as items have been placed.
SlotsFilled ==
  /\ DOMAIN slots \subseteq 1 .. ExpectedLen
  /\ IsFiniteSet(DOMAIN slots)
  /\ Cardinality(DOMAIN slots) = next - 1

Counted == verdict \in {"placing", "placed"} => Len(items) = ExpectedLen

\* The loop has not begun.
Fresh == verdict = "decoding" => slots = <<>> /\ next = 1

LoopInv == Fresh /\ InputsType /\ SlotsFilled /\ Counted /\ NeverPanics

-----------------------------------------------------------------------------

LEMMA InitLoop == Init => LoopInv
<1> SUFFICES ASSUME Init PROVE LoopInv
  OBVIOUS
<1>1. InputsType
  <2>1. message.objects \in Seq(Object) /\ key \in Nat \X Nat /\ key[1] <= key[2]
    BY CorrelateAssumption DEF Init
  <2>2. items = <<>> /\ <<>> \in Seq(BatchItem) /\ Len(items) = 0
    BY DEF Init
  <2> QED
    BY <2>1, <2>2 DEF Init, InputsType, Verdicts
<1>2. SlotsFilled
  <2>1. DOMAIN slots = {}
    BY DEF Init
  <2> QED
    BY <2>1, FS_EmptySet DEF Init, SlotsFilled
<1> QED
  BY <1>1, <1>2 DEF Init, LoopInv, Fresh, Counted, NeverPanics

LEMMA ItemAt ==
  ASSUME NEW S, NEW seq \in Seq(S), NEW n \in 1 .. Len(seq) + 1, n <= Len(seq)
  PROVE  n \in DOMAIN seq /\ seq[n] \in S
OBVIOUS

\* A set of as many slots as there are is all of them.
LEMMA AllSlotsFilled ==
  ASSUME InputsType, SlotsFilled, next - 1 = ExpectedLen
  PROVE  1 .. ExpectedLen \subseteq DOMAIN slots
<1>1. ExpectedLen \in Nat
  BY DEF InputsType, ExpectedLen
<1>2. IsFiniteSet(1 .. ExpectedLen) /\ Cardinality(1 .. ExpectedLen) = ExpectedLen
  BY <1>1, FS_Interval
<1>3. Cardinality(DOMAIN slots) = Cardinality(1 .. ExpectedLen)
  BY <1>2 DEF SlotsFilled
<1> QED
  BY <1>2, <1>3, FS_Subset DEF SlotsFilled

\* The items of a batch response are records with an id.
LEMMA BatchItems ==
  ASSUME NEW m, m.objects \in Seq(Object), TryFrom(m).kind = "batch"
  PROVE  TryFrom(m).items \in Seq(BatchItem)
<1> DEFINE objects == m.objects
           Decoded(n) == Item(ProbeAsResponse(objects[n]), objects[n])
<1>1. /\ TryFrom(m) = ProcessBatch(objects)
      /\ \A n \in DOMAIN objects : ProbeAsResponse(objects[n]) \in Answers
  BY DEF TryFrom, ProcessBatch, ProcessProbe, Refused, Single, Answers
<1>2. TryFrom(m).items = [n \in DOMAIN objects |-> Decoded(n)]
  <2> DEFINE decoded == [n \in DOMAIN objects |-> Decoded(n)]
  <2>1. ProcessBatch(objects) = [kind |-> "batch", items |-> decoded]
    BY <1>1, Zenon DEF ProcessBatch
  <2> HIDE DEF decoded
  <2>2. TryFrom(m).items = decoded
    BY <1>1, <2>1
  <2> QED
    BY <2>2, Zenon DEF decoded
<1>3. Len(objects) \in Nat /\ DOMAIN objects = 1 .. Len(objects)
  OBVIOUS
<1>4. ASSUME NEW n \in DOMAIN objects
      PROVE  Decoded(n) \in BatchItem
  <2>1. objects[n] \in Object
    BY <1>3
  <2>2. Value(objects[n]) \in Int /\ objects[n].answer \in Int
    BY <2>1 DEF Object, Value, ForeignId, NullId, AbsentId
  <2>3. ProbeAsResponse(objects[n]) \in {"response", "error"}
    BY <1>1 DEF Answers
  <2> QED
    BY <2>2, <2>3 DEF Item, BatchItem
<1> QED
  BY <1>2, <1>3, <1>4

LEMMA StepLoop == LoopInv /\ [Next]_vars => LoopInv'
<1> SUFFICES ASSUME LoopInv, [Next]_vars PROVE LoopInv'
  OBVIOUS
<1> USE DEF LoopInv
<1>0. CASE DecodeBody
  <2>1. CASE TryFrom(message).kind = "batch" /\ items' = TryFrom(message).items
             /\ verdict' = "counting" /\ UNCHANGED <<message, key, next, slots>>
    <3>1. items' \in Seq(BatchItem)
      BY <2>1, BatchItems DEF InputsType
    <3>2. next = 1 /\ slots = <<>>
      BY <1>0 DEF DecodeBody, Fresh
    <3>3. next' \in 1 .. Len(items') + 1
      BY <2>1, <3>1, <3>2
    <3>4. InputsType'
      BY <2>1, <3>1, <3>3 DEF InputsType, Verdicts
    <3> QED
      BY <2>1, <3>4 DEF Fresh, SlotsFilled, Counted, NeverPanics, ExpectedLen
  <2>2. CASE /\ UNCHANGED <<message, items, key, next, slots>>
             /\ verdict' \in {"no batch", "invalid message", "serde error"}
    BY <2>2 DEF Fresh, InputsType, SlotsFilled, Counted, NeverPanics, ExpectedLen, Verdicts
  <2> QED
    BY <1>0, <2>1, <2>2 DEF DecodeBody, End
<1>1. CASE CheckCount
  BY <1>1 DEF CheckCount, End, Fresh, InputsType, SlotsFilled, Counted, NeverPanics,
              ExpectedLen, Verdicts
<1>2. CASE Place
  <2> DEFINE item == items[next]
             slot == item.id - key[1] + 1
  <2>1. next \in DOMAIN items /\ item.id \in Int
    <3>1. next <= Len(items)
      BY <1>2 DEF Place
    <3>2. items \in Seq(BatchItem) /\ next \in 1 .. Len(items) + 1
      BY DEF InputsType
    <3>3. next \in DOMAIN items /\ items[next] \in BatchItem
      BY <3>1, <3>2, ItemAt
    <3> QED
      BY <3>3 DEF BatchItem
  <2>2. CASE UNCHANGED slots
    <3>1. /\ UNCHANGED <<message, items, key, next, slots>>
          /\ verdict' \in {"no id", "outside the range", "duplicate"}
      <4>1. CASE Fill(slot, item) /\ slot \notin DOMAIN slots
        <5>1. slot \in DOMAIN slots'
          BY <4>1 DEF Fill
        <5> QED
          BY <2>2, <4>1, <5>1
      <4> QED
        BY <1>2, <4>1 DEF Place, End
    <3> QED
      BY <3>1 DEF Fresh, InputsType, SlotsFilled, Counted, NeverPanics, ExpectedLen, Verdicts
  <2>3. CASE Fill(slot, item) /\ next' = next + 1 /\ slot \notin DOMAIN slots
             /\ InRange(item.id) /\ UNCHANGED <<message, items, key, verdict>>
    <3>1. slot \in 1 .. ExpectedLen
      BY <2>1, <2>3 DEF InRange, InputsType, ExpectedLen
    <3>2. DOMAIN slots' = DOMAIN slots \union {slot}
      BY <2>3 DEF Fill
    <3>3. /\ IsFiniteSet(DOMAIN slots \union {slot})
          /\ Cardinality(DOMAIN slots \union {slot}) = Cardinality(DOMAIN slots) + 1
      BY <2>3, FS_AddElement DEF SlotsFilled
    <3>4. SlotsFilled'
      <4>1. ExpectedLen' = ExpectedLen
        BY <2>3 DEF ExpectedLen
      <4>2. DOMAIN slots' \subseteq 1 .. ExpectedLen
        BY <3>1, <3>2 DEF SlotsFilled
      <4>3. Cardinality(DOMAIN slots') = next' - 1
        BY <2>3, <3>2, <3>3 DEF SlotsFilled, InputsType
      <4> QED
        BY <4>1, <4>2, <4>3, <3>2, <3>3 DEF SlotsFilled
    <3>5. InputsType'
      <4>1. next' \in 1 .. Len(items) + 1
        BY <2>1, <2>3 DEF InputsType
      <4> QED
        BY <2>3, <4>1 DEF InputsType
    <3> QED
      BY <1>2, <2>3, <3>4, <3>5 DEF Place, Fresh, Counted, NeverPanics, ExpectedLen
  <2> QED
    BY <1>2, <2>2, <2>3 DEF Place, End
<1>3. CASE Unwrap
  <2>1. verdict = "placing" /\ next - 1 = Len(items)
    BY <1>3 DEF Unwrap, InputsType
  <2>2. 1 .. ExpectedLen \subseteq DOMAIN slots
    BY <2>1, AllSlotsFilled DEF Counted
  <2> QED
    BY <1>3, <2>1, <2>2 DEF Unwrap, End, Fresh, InputsType, SlotsFilled, Counted,
       NeverPanics, ExpectedLen, Verdicts
<1>4. CASE UNCHANGED vars
  BY <1>4 DEF vars, Fresh, InputsType, SlotsFilled, Counted, NeverPanics, ExpectedLen
<1> QED
  BY <1>0, <1>1, <1>2, <1>3, <1>4 DEF Next

(***************************************************************************)
(* expect() in correlate_batch_items never panics, whatever the peer sent  *)
(* and however long the batch.                                             *)
(***************************************************************************)
THEOREM SlotsNeverEmpty == Spec => []NeverPanics
<1>1. Init => LoopInv
  BY InitLoop
<1>2. LoopInv /\ [Next]_vars => LoopInv'
  BY StepLoop
<1>3. LoopInv => NeverPanics
  BY DEF LoopInv
<1> QED
  BY <1>1, <1>2, <1>3, PTL DEF Spec

-----------------------------------------------------------------------------

\* Every code survives the conversion to JsonRpcErrorCode and back.
LEMMA RoundTrip ==
  ASSUME NEW code \in Int
  PROVE  IntoCode(FromCode(code)) = code
<1>1. CASE \E name \in DOMAIN Predefined : Predefined[name] = code
  <2> DEFINE chosen == CHOOSE name \in DOMAIN Predefined : Predefined[name] = code
  <2>1. chosen \in DOMAIN Predefined /\ Predefined[chosen] = code
    BY <1>1, Zenon
  <2>2. FromCode(code) = [variant |-> chosen]
    BY <1>1, Zenon DEF FromCode
  <2> HIDE DEF chosen
  <2>3. FromCode(code).variant = chosen
    BY <2>2
  <2> QED
    BY <2>1, <2>3, Zenon DEF IntoCode
<1>2. CASE ~ \E name \in DOMAIN Predefined : Predefined[name] = code
  <2>1. \/ FromCode(code) = [variant |-> "ServerError", code |-> code]
        \/ FromCode(code) = [variant |-> "Other", code |-> code]
    BY <1>2, Zenon DEF FromCode
  <2>2. /\ FromCode(code).variant \in {"ServerError", "Other"}
        /\ FromCode(code).code = code
    BY <2>1
  <2>3. FromCode(code).variant \notin DOMAIN Predefined
    BY <2>2 DEF Predefined
  <2> QED
    BY <2>2, <2>3, Zenon DEF IntoCode
<1> QED
  BY <1>1, <1>2

(***************************************************************************)
(* Every error code reaches the caller as it was sent: for all integers,   *)
(* hence for every i64 (error.rs).                                         *)
(***************************************************************************)
THEOREM CodesSurvive == Spec => []CodesRoundTrip
<1>1. Init => LoopInv
  BY InitLoop
<1>2. LoopInv /\ [Next]_vars => LoopInv'
  BY StepLoop
<1>3. LoopInv => CodesRoundTrip
  <2> SUFFICES ASSUME LoopInv, NEW n \in DOMAIN message.objects
               PROVE  LET code == message.objects[n].answer
                      IN  IntoCode(FromCode(code)) = code
    BY DEF CodesRoundTrip
  <2>1. message.objects[n] \in Object
    BY DEF LoopInv, InputsType
  <2>2. message.objects[n].answer \in Int
    BY <2>1 DEF Object
  <2> QED
    BY <2>2, RoundTrip
<1> QED
  BY <1>1, <1>2, <1>3, PTL DEF Spec
-----------------------------------------------------------------------------
(* What is accepted, and where it is placed *)

SlotOf(i) == items[i].id - key[1] + 1

LEMMA Inputs ==
  ASSUME InputsType
  PROVE  /\ items \in Seq(BatchItem) /\ Len(items) \in Nat /\ DOMAIN items = 1 .. Len(items)
         /\ next \in 1 .. Len(items) + 1
         /\ key[1] \in Nat /\ key[2] \in Nat /\ key[1] <= key[2]
         /\ \A i \in DOMAIN items : items[i].id \in Int
<1>1. items \in Seq(BatchItem) /\ next \in 1 .. Len(items) + 1
  BY DEF InputsType
<1>2. Len(items) \in Nat /\ DOMAIN items = 1 .. Len(items)
  BY <1>1
<1>3. \A i \in DOMAIN items : items[i] \in BatchItem
  BY <1>1
<1>4. \A item \in BatchItem : item.id \in Int
  BY DEF BatchItem
<1> QED
  BY <1>1, <1>2, <1>3, <1>4 DEF InputsType

\* The loop has placed every item before next, each in a slot of its own.
PlacedRight ==
  /\ slots = [m \in DOMAIN slots |-> slots[m]]
  /\ \A i \in 1 .. next - 1 : /\ items[i].id \in key[1] .. key[2]
                              /\ SlotOf(i) \in DOMAIN slots
                              /\ slots[SlotOf(i)] = items[i]
  /\ \A i, j \in 1 .. next - 1 : items[i].id = items[j].id => i = j
  /\ \A m \in DOMAIN slots : \E i \in 1 .. next - 1 : SlotOf(i) = m

NoBatch == {"no batch", "invalid message", "serde error"}

\* What each verdict has found out.
VerdictRight ==
  /\ verdict \in NoBatch => TryFrom(message).kind # "batch"
  /\ verdict \notin NoBatch \union {"decoding"} =>
       TryFrom(message).kind = "batch" /\ items = TryFrom(message).items
  /\ verdict = "wrong count" => Len(items) # ExpectedLen
  /\ verdict = "no id" => next \in DOMAIN items /\ items[next].id < 0
  /\ verdict = "outside the range" =>
       next \in DOMAIN items /\ items[next].id >= 0 /\ ~InRange(items[next].id)
  /\ verdict = "duplicate" =>
       /\ next \in DOMAIN items /\ items[next].id >= 0
       /\ \E i \in 1 .. next - 1 : items[i].id = items[next].id
  /\ verdict = "placed" => next - 1 = Len(items)

RightInv == PlacedRight /\ VerdictRight

LEMMA InitRight == Init => RightInv
<1> SUFFICES ASSUME Init PROVE RightInv
  OBVIOUS
<1>1. next = 1 /\ slots = <<>> /\ verdict = "decoding" /\ 1 .. next - 1 = {}
  BY DEF Init
<1>2. <<>> = [m \in DOMAIN <<>> |-> <<>>[m]] /\ DOMAIN <<>> = {}
  OBVIOUS
<1>3. PlacedRight
  BY <1>1, <1>2 DEF PlacedRight
<1>4. VerdictRight
  BY <1>1 DEF VerdictRight, NoBatch
<1> QED
  BY <1>3, <1>4 DEF RightInv

\* The turn that places an item.
LEMMA PlaceRight ==
  ASSUME LoopInv, RightInv, next \in DOMAIN items, InRange(items[next].id),
         SlotOf(next) \notin DOMAIN slots, Fill(SlotOf(next), items[next]),
         next' = next + 1, UNCHANGED <<message, items, key, verdict>>
  PROVE  PlacedRight'
<1>1. /\ items \in Seq(BatchItem) /\ key[1] \in Nat /\ key[2] \in Nat /\ Len(items) \in Nat
      /\ next \in 1 .. Len(items)
  BY Inputs DEF LoopInv
<1>2. \A i \in 1 .. Len(items) : items[i].id \in Int
  BY Inputs DEF LoopInv
<1>3. \A i : SlotOf(i)' = SlotOf(i)
  BY DEF SlotOf
<1>4. /\ DOMAIN slots' = DOMAIN slots \union {SlotOf(next)}
      /\ slots'[SlotOf(next)] = items[next]
      /\ \A m \in DOMAIN slots : slots'[m] = slots[m]
      /\ slots' = [m \in DOMAIN slots' |-> slots'[m]]
  <2> DEFINE filled == [m \in DOMAIN slots \union {SlotOf(next)} |->
                          IF m = SlotOf(next) THEN items[next] ELSE slots[m]]
  <2>1. slots' = filled
    BY DEF Fill
  <2>2. filled = [m \in DOMAIN filled |-> filled[m]]
    OBVIOUS
  <2>3. /\ DOMAIN filled = DOMAIN slots \union {SlotOf(next)}
        /\ filled[SlotOf(next)] = items[next]
        /\ \A m \in DOMAIN slots : filled[m] = slots[m]
    OBVIOUS
  <2> HIDE DEF filled
  <2> QED
    BY <2>1, <2>2, <2>3
<1>5. 1 .. next' - 1 = 1 .. next /\ \A i \in 1 .. next : i = next \/ i \in 1 .. next - 1
  BY <1>1
<1>6. ASSUME NEW i \in 1 .. next
      PROVE  /\ items[i].id \in key[1] .. key[2]
             /\ SlotOf(i) \in DOMAIN slots'
             /\ slots'[SlotOf(i)] = items[i]
  BY <1>4, <1>5 DEF RightInv, PlacedRight, InRange
<1>7. ASSUME NEW i \in 1 .. next - 1 PROVE items[i].id # items[next].id
  BY DEF RightInv, PlacedRight, SlotOf
<1>8. \A i, j \in 1 .. next : items[i].id = items[j].id => i = j
  BY <1>5, <1>7 DEF RightInv, PlacedRight
<1>9. ASSUME NEW m \in DOMAIN slots' PROVE \E i \in 1 .. next : SlotOf(i) = m
  <2>1. CASE m = SlotOf(next)
    BY <1>1, <2>1
  <2>2. CASE m \in DOMAIN slots
    <3>1. PICK i \in 1 .. next - 1 : SlotOf(i) = m
      BY <2>2 DEF RightInv, PlacedRight
    <3> QED
      BY <1>1, <3>1
  <2> QED
    BY <1>4, <1>9, <2>1, <2>2
<1> QED
  BY <1>3, <1>4, <1>5, <1>6, <1>8, <1>9 DEF PlacedRight

LEMMA StepRight == LoopInv /\ RightInv /\ [Next]_vars => RightInv'
<1> SUFFICES ASSUME LoopInv, RightInv, [Next]_vars PROVE RightInv'
  OBVIOUS
<1>1. UNCHANGED <<items, key, next, slots>> => PlacedRight'
  BY DEF RightInv, PlacedRight, SlotOf
<1>2. CASE DecodeBody
  <2>1. next = 1 /\ slots = <<>> /\ verdict = "decoding"
    BY <1>2 DEF DecodeBody, LoopInv, Fresh
  <2>2. next' = next /\ slots' = slots /\ message' = message
    BY <1>2 DEF DecodeBody, End
  <2>3. PlacedRight'
    <3>1. 1 .. next' - 1 = {} /\ slots' = <<>>
      BY <2>1, <2>2
    <3>2. <<>> = [m \in DOMAIN <<>> |-> <<>>[m]] /\ DOMAIN <<>> = {}
      OBVIOUS
    <3> QED
      BY <3>1, <3>2 DEF PlacedRight
  <2>4. CASE /\ TryFrom(message).kind = "batch" /\ items' = TryFrom(message).items
             /\ verdict' = "counting"
    BY <2>2, <2>3, <2>4 DEF RightInv, VerdictRight, NoBatch
  <2>5. CASE TryFrom(message).kind # "batch" /\ verdict' \in NoBatch
    BY <2>2, <2>3, <2>5 DEF RightInv, VerdictRight, NoBatch
  <2> QED
    BY <1>2, <2>4, <2>5 DEF DecodeBody, End, Answers, NoBatch
<1>3. CASE CheckCount
  <2>1. /\ UNCHANGED <<message, items, key, next, slots>> /\ verdict = "counting"
        /\ \/ verdict' = "placing"
           \/ verdict' = "wrong count" /\ Len(items) # ExpectedLen
    BY <1>3 DEF CheckCount, End
  <2>2. ExpectedLen' = ExpectedLen
    BY <2>1 DEF ExpectedLen
  <2> QED
    BY <1>1, <2>1, <2>2 DEF RightInv, VerdictRight, NoBatch
<1>4. CASE Place
  <2>1. /\ verdict = "placing" /\ next \in DOMAIN items /\ items[next].id \in Int
        /\ TryFrom(message).kind = "batch" /\ items = TryFrom(message).items
    <3>1. next <= Len(items) /\ verdict = "placing"
      BY <1>4 DEF Place
    <3>2. items \in Seq(BatchItem) /\ next \in 1 .. Len(items) + 1
      BY DEF LoopInv, InputsType
    <3>3. next \in DOMAIN items /\ items[next] \in BatchItem
      BY <3>1, <3>2, ItemAt
    <3> QED
      BY <3>1, <3>3 DEF BatchItem, RightInv, VerdictRight, NoBatch
  <2>2. CASE items[next].id < 0 /\ End("no id")
    BY <1>1, <2>1, <2>2 DEF End, RightInv, VerdictRight, NoBatch
  <2>3. CASE items[next].id >= 0 /\ ~InRange(items[next].id) /\ End("outside the range")
    BY <1>1, <2>1, <2>3 DEF End, RightInv, VerdictRight, NoBatch, InRange
  <2>4. CASE /\ items[next].id >= 0 /\ SlotOf(next) \in DOMAIN slots /\ End("duplicate")
    <3>1. PICK i \in 1 .. next - 1 : SlotOf(i) = SlotOf(next)
      BY <2>4 DEF RightInv, PlacedRight
    <3>2. items[i].id \in key[1] .. key[2] /\ key[1] \in Nat /\ key[2] \in Nat
      BY <3>1 DEF RightInv, PlacedRight, LoopInv, InputsType
    <3>3. items[i].id = items[next].id
      BY <2>1, <3>1, <3>2 DEF SlotOf
    <3> QED
      BY <1>1, <2>1, <2>4, <3>1, <3>3 DEF End, RightInv, VerdictRight, NoBatch
  <2>5. CASE /\ InRange(items[next].id) /\ SlotOf(next) \notin DOMAIN slots
             /\ Fill(SlotOf(next), items[next]) /\ next' = next + 1
             /\ UNCHANGED <<message, items, key, verdict>>
    <3>1. PlacedRight'
      BY <2>1, <2>5, PlaceRight
    <3> QED
      BY <2>1, <2>5, <3>1 DEF RightInv, VerdictRight, NoBatch
  <2> QED
    BY <1>4, <2>2, <2>3, <2>4, <2>5 DEF Place, SlotOf
<1>5. CASE Unwrap
  <2>1. next \in 1 .. Len(items) + 1 /\ next > Len(items) /\ Len(items) \in Nat
    BY <1>5 DEF Unwrap, LoopInv, InputsType
  <2>2. /\ UNCHANGED <<message, items, key, next, slots>> /\ verdict = "placing"
        /\ verdict' \in {"placed", "panic"}
    BY <1>5 DEF Unwrap, End
  <2>3. next' - 1 = Len(items')
    BY <2>1, <2>2
  <2>4. TryFrom(message').kind = "batch" /\ items' = TryFrom(message').items
    BY <2>2 DEF RightInv, VerdictRight, NoBatch
  <2>5. VerdictRight'
    BY <2>2, <2>3, <2>4 DEF VerdictRight, NoBatch
  <2> QED
    BY <1>1, <2>2, <2>5 DEF RightInv
<1>6. CASE UNCHANGED vars
  <2>1. ExpectedLen' = ExpectedLen /\ UNCHANGED <<message, items, key, next, slots, verdict>>
    BY <1>6 DEF ExpectedLen, vars
  <2> QED
    BY <1>1, <2>1 DEF RightInv, VerdictRight, InRange
<1> QED
  BY <1>2, <1>3, <1>4, <1>5, <1>6 DEF Next

LEMMA Sizes ==
  ASSUME InputsType
  PROVE  /\ IsFiniteSet(1 .. Len(items)) /\ Cardinality(1 .. Len(items)) = Len(items)
         /\ Cardinality(key[1] .. key[2]) = ExpectedLen
<1>1. ASSUME NEW n \in Nat PROVE IsFiniteSet(1 .. n) /\ Cardinality(1 .. n) = n
  BY FS_Interval
<1>2. ASSUME NEW a \in Nat, NEW b \in Nat, a <= b PROVE Cardinality(a .. b) = b - a + 1
  BY <1>2, FS_Interval
<1>3. Len(items) \in Nat /\ key[1] \in Nat /\ key[2] \in Nat /\ key[1] <= key[2]
  BY Inputs
<1> QED
  BY <1>1, <1>2, <1>3 DEF ExpectedLen

LEMMA Signs == \A n \in Int : n >= 0 => ~(n < 0)
OBVIOUS

\* A response that answers every request once has as many items as requests.
LEMMA AcceptedLength ==
  ASSUME InputsType
  PROVE  Accepts(items, key) => Len(items) = ExpectedLen
<1>0. SUFFICES ASSUME Accepts(items, key) PROVE Len(items) = ExpectedLen
  OBVIOUS
<1> DEFINE f == [i \in 1 .. Len(items) |-> items[i].id]
           range == key[1] .. key[2]
<1>1. /\ items \in Seq(BatchItem) /\ Len(items) \in Nat /\ DOMAIN items = 1 .. Len(items)
      /\ key[1] \in Nat /\ key[2] \in Nat /\ key[1] <= key[2]
  BY Inputs
<1>2. /\ Numbered(items) = 1 .. Len(items)
      /\ \A i \in 1 .. Len(items) : items[i].id \in range
      /\ \A n \in range : \E i \in 1 .. Len(items) : items[i].id = n
      /\ \A i, j \in 1 .. Len(items) : items[i].id = items[j].id => i = j
  BY <1>0, <1>1 DEF Accepts, Correlates, Ids, NoDuplicates
<1>3. f \in Bijection(1 .. Len(items), range)
  BY <1>2 DEF Bijection, Injection, Surjection, IsInjective
<1>4. ExistsBijection(1 .. Len(items), range)
  BY <1>3 DEF ExistsBijection
<1>5. /\ IsFiniteSet(1 .. Len(items)) /\ Cardinality(1 .. Len(items)) = Len(items)
      /\ Cardinality(range) = ExpectedLen
  BY Sizes
<1>6. Cardinality(range) = Cardinality(1 .. Len(items))
  BY <1>4, <1>5, FS_Bijection
<1> QED
  BY <1>5, <1>6

\* When every item has been placed, the slots are the answers in order.
LEMMA PlacedIsAccepted ==
  ASSUME LoopInv, RightInv, verdict = "placed"
  PROVE  Accepts(items, key) /\ slots = InRequestOrder(items, key)
<1>1. /\ items \in Seq(BatchItem) /\ Len(items) \in Nat /\ DOMAIN items = 1 .. Len(items)
      /\ key[1] \in Nat /\ key[2] \in Nat /\ key[1] <= key[2]
      /\ next - 1 = Len(items) /\ 1 .. next - 1 = DOMAIN items /\ Len(items) = ExpectedLen
  BY DEF LoopInv, InputsType, Counted, RightInv, VerdictRight
<1>2. DOMAIN slots = 1 .. ExpectedLen
  BY <1>1, AllSlotsFilled DEF LoopInv, SlotsFilled
<1>3. /\ \A i \in DOMAIN items : items[i].id \in key[1] .. key[2] /\ slots[SlotOf(i)] = items[i]
      /\ \A i, j \in DOMAIN items : items[i].id = items[j].id => i = j
      /\ \A m \in 1 .. ExpectedLen : \E i \in DOMAIN items : SlotOf(i) = m
  BY <1>1, <1>2 DEF RightInv, PlacedRight
<1>4. Numbered(items) = DOMAIN items
  BY <1>1, <1>3 DEF Numbered
<1>5. Ids(items) = key[1] .. key[2]
  <2>1. ASSUME NEW n \in key[1] .. key[2] PROVE n \in Ids(items)
    <3>1. n - key[1] + 1 \in 1 .. ExpectedLen
      BY <1>1, <2>1 DEF ExpectedLen
    <3>2. PICK i \in DOMAIN items : SlotOf(i) = n - key[1] + 1
      BY <1>3, <3>1
    <3>3. items[i].id = n
      BY <1>1, <1>3, <2>1, <3>2 DEF SlotOf
    <3> QED
      BY <1>4, <3>3 DEF Ids
  <2> QED
    BY <1>3, <1>4, <2>1 DEF Ids
<1>6. Accepts(items, key)
  BY <1>1, <1>3, <1>4, <1>5 DEF Accepts, Correlates, NoDuplicates
<1>7. ASSUME NEW m \in 1 .. ExpectedLen
      PROVE  slots[m] = items[CHOOSE i \in Numbered(items) : items[i].id = key[1] + m - 1]
  <2> DEFINE j == CHOOSE i \in Numbered(items) : items[i].id = key[1] + m - 1
  <2>1. \E i \in Numbered(items) : items[i].id = key[1] + m - 1
    <3>1. PICK i \in DOMAIN items : SlotOf(i) = m
      BY <1>3, <1>7
    <3>2. items[i].id \in Int /\ m \in Int
      BY <1>1, <1>3, <1>7 DEF ExpectedLen
    <3>3. items[i].id = key[1] + m - 1
      BY <1>1, <3>1, <3>2 DEF SlotOf
    <3> QED
      BY <1>4, <3>3
  <2>2. j \in Numbered(items) /\ items[j].id = key[1] + m - 1
    BY <2>1
  <2> HIDE DEF j
  <2>3. SlotOf(j) = m
    BY <1>1, <1>7, <2>2 DEF SlotOf, ExpectedLen
  <2>4. slots[m] = items[j]
    BY <1>3, <1>4, <2>2, <2>3
  <2> QED
    BY <2>4 DEF j
<1>8. slots = [m \in 1 .. ExpectedLen |-> slots[m]]
  BY <1>2 DEF RightInv, PlacedRight
<1>9. slots = [m \in 1 .. ExpectedLen |->
                 items[CHOOSE i \in Numbered(items) : items[i].id = key[1] + m - 1]]
  BY <1>7, <1>8
<1> QED
  BY <1>6, <1>9 DEF InRequestOrder, ExpectedLen

LEMMA RefusedIsNotAccepted ==
  ASSUME LoopInv, RightInv,
         verdict \in {"wrong count", "no id", "outside the range", "duplicate"}
  PROVE  ~Accepts(items, key)
<1>0. SUFFICES ASSUME Accepts(items, key) PROVE FALSE
  OBVIOUS
<1>1. /\ items \in Seq(BatchItem) /\ DOMAIN items = 1 .. Len(items) /\ Len(items) \in Nat
      /\ next \in 1 .. Len(items) + 1 /\ InputsType
      /\ \A i \in DOMAIN items : items[i].id \in Int
  BY Inputs DEF LoopInv
<1>2. CASE verdict = "wrong count"
  BY <1>0, <1>1, <1>2, AcceptedLength DEF RightInv, VerdictRight
<1>3. ASSUME NEW i \in DOMAIN items PROVE items[i].id >= 0 /\ items[i].id \in key[1] .. key[2]
  BY <1>0 DEF Accepts, Correlates, Numbered, Ids
<1>4. CASE verdict = "no id"
  <2>1. next \in DOMAIN items /\ items[next].id < 0
    BY <1>4 DEF RightInv, VerdictRight
  <2>2. items[next].id \in Int /\ items[next].id >= 0
    BY <1>1, <1>3, <2>1
  <2> QED
    BY <2>1, <2>2, Signs
<1>5. CASE verdict = "outside the range"
  BY <1>3, <1>5 DEF RightInv, VerdictRight, InRange
<1>6. CASE verdict = "duplicate"
  <2>1. PICK i \in 1 .. next - 1 : items[i].id = items[next].id
    BY <1>6 DEF RightInv, VerdictRight
  <2>2. i \in DOMAIN items /\ next \in DOMAIN items /\ i # next
    BY <1>1, <1>6, <2>1 DEF RightInv, VerdictRight
  <2> QED
    BY <1>0, <2>1, <2>2 DEF Accepts, Correlates, NoDuplicates
<1> QED
  BY <1>2, <1>4, <1>5, <1>6

(***************************************************************************)
(* The loop of correlate_batch_items, which looks at one item at a time,   *)
(* accepts the responses that answer every request once and no others.     *)
(***************************************************************************)
THEOREM LoopAcceptsExactly == Spec => []AcceptsExactly
<1>1. LoopInv /\ RightInv => AcceptsExactly
  <2> SUFFICES ASSUME LoopInv, RightInv, Ended
               PROVE  verdict = "placed" <=> /\ TryFrom(message).kind = "batch"
                                             /\ Accepts(TryFrom(message).items, key)
    BY DEF AcceptsExactly
  <2>1. CASE verdict \in NoBatch
    BY <2>1 DEF RightInv, VerdictRight, NoBatch
  <2>2. CASE verdict \in {"wrong count", "no id", "outside the range", "duplicate"}
    BY <2>2, RefusedIsNotAccepted DEF RightInv, VerdictRight, NoBatch
  <2>3. CASE verdict = "placed"
    BY <2>3, PlacedIsAccepted DEF RightInv, VerdictRight, NoBatch
  <2> QED
    BY <2>1, <2>2, <2>3 DEF Ended, LoopInv, InputsType, Verdicts, NeverPanics, NoBatch
<1> QED
  BY <1>1, InitLoop, StepLoop, InitRight, StepRight, PTL DEF Spec

(***************************************************************************)
(* What is accepted is placed where the WebSocket client would place it,   *)
(* and nothing else is placed (InRequestOrder).                            *)
(***************************************************************************)
THEOREM LoopPlacesInOrder == Spec => []PlacedInOrder
<1>1. LoopInv /\ RightInv => PlacedInOrder
  BY PlacedIsAccepted DEF PlacedInOrder
<1> QED
  BY <1>1, InitLoop, StepLoop, InitRight, StepRight, PTL DEF Spec

-----------------------------------------------------------------------------
(* What the decoder makes of an object *)

\* The message does not change after it has arrived.
MessageGiven == message \in Messages

LEMMA InitMessage == Init => MessageGiven
BY DEF Init, MessageGiven

LEMMA StepMessage == MessageGiven /\ [Next]_vars => MessageGiven'
<1>1. [Next]_vars => message' = message
  BY DEF Next, vars, DecodeBody, CheckCount, Place, Unwrap, End
<1> QED
  BY <1>1 DEF MessageGiven

LEMMA ProbeKinds ==
  ASSUME NEW object
  PROVE  LET probe == ProbeAsResponse(object)
             incoming == ProcessProbe(object)
         IN  /\ probe \in Answers => /\ incoming = Single(probe, object)
                                     /\ incoming.kind = probe
                                     /\ incoming.items[1] = Item(probe, object)
             /\ probe \notin Answers => incoming.kind \in {"notification", "invalid message"}
             /\ incoming.kind = "notification" <=>
                  probe = "neither" /\ Given(object.method) /\ ~IsPresent(object)
<1> DEFINE probe == ProbeAsResponse(object)
           incoming == ProcessProbe(object)
<1>1. ASSUME NEW kind PROVE Single(kind, object).kind = kind /\ Refused(kind).kind = kind
  BY DEF Single, Refused
<1>2. ASSUME NEW kind PROVE Single(kind, object).items[1] = Item(kind, object)
  BY DEF Single
<1>3. "neither" \notin Answers /\ "notification" \notin Answers
  BY DEF Answers
<1>4. CASE probe \in Answers
  <2>1. incoming = Single(probe, object)
    BY <1>4 DEF ProcessProbe
  <2>2. incoming.kind = probe /\ incoming.items[1] = Item(probe, object)
    BY <1>1, <1>2, <2>1
  <2> QED
    BY <1>3, <1>4, <2>1, <2>2
<1>5. CASE probe \notin Answers /\ probe = "neither" /\ Given(object.method) /\ ~IsPresent(object)
  <2>1. incoming = Single("notification", object)
    BY <1>5 DEF ProcessProbe
  <2> QED
    BY <1>1, <1>5, <2>1
<1>6. CASE probe \notin Answers /\ ~(probe = "neither" /\ Given(object.method) /\ ~IsPresent(object))
  <2>1. incoming = Refused("invalid message")
    BY <1>6 DEF ProcessProbe
  <2>2. incoming.kind = "invalid message"
    BY <1>1, <2>1
  <2> HIDE DEF incoming, probe
  <2> QED
    BY <1>6, <2>2 DEF incoming, probe
<1> QED
  BY <1>4, <1>5, <1>6

\* An object by itself.
LEMMA TakenAlone ==
  ASSUME NEW object
  PROVE  LET alone == TryFrom([shape |-> "object", objects |-> <<object>>])
         IN  /\ Deserializes(object) => alone = ProcessProbe(object)
             /\ ~Deserializes(object) => alone.kind \notin Answers
<1> DEFINE body == [shape |-> "object", objects |-> <<object>>]
<1>1. /\ body.shape = "object" /\ DOMAIN body.objects = {1} /\ body.objects[1] = object
  OBVIOUS
<1> HIDE DEF body
<1>2. CASE Deserializes(object)
  <2>1. TryFrom(body) = ProcessProbe(object)
    BY <1>1, <1>2 DEF TryFrom
  <2> QED
    BY <1>2, <2>1 DEF body
<1>3. CASE ~Deserializes(object)
  <2>1. TryFrom(body) = Refused("serde error")
    BY <1>1, <1>3 DEF TryFrom
  <2>2. Refused("serde error").kind \notin Answers
    BY DEF Refused, Answers
  <2> QED
    BY <1>3, <2>1, <2>2 DEF body
<1> QED
  BY <1>2, <1>3

(***************************************************************************)
(* An array is a batch response exactly when each of its objects alone     *)
(* would be an answer, however long it is (process_batch).                 *)
(***************************************************************************)
THEOREM BatchesAreTheirItems == Spec => []BatchMeansItsItems
<1>1. BatchMeansItsItems
  <2> DEFINE Alone(n) == TryFrom([shape |-> "object", objects |-> <<message.objects[n]>>])
             Answering(n) == ProbeAsResponse(message.objects[n]) \in Answers
  <2> SUFFICES ASSUME message.shape = "array"
               PROVE  /\ TryFrom(message).kind = "batch"
                           <=> \A n \in DOMAIN message.objects : Alone(n).kind \in Answers
                      /\ TryFrom(message).kind = "batch" =>
                           TryFrom(message).items =
                             [n \in DOMAIN message.objects |-> Alone(n).items[1]]
    BY DEF BatchMeansItsItems
  <2>1. ASSUME NEW n \in DOMAIN message.objects
        PROVE  /\ Alone(n).kind \in Answers <=> Deserializes(message.objects[n]) /\ Answering(n)
               /\ Alone(n).kind \in Answers =>
                    Alone(n).items[1] = Item(ProbeAsResponse(message.objects[n]), message.objects[n])
    <3>1. "notification" \notin Answers /\ "invalid message" \notin Answers
      BY DEF Answers
    <3>2. /\ Deserializes(message.objects[n]) => Alone(n) = ProcessProbe(message.objects[n])
          /\ ~Deserializes(message.objects[n]) => Alone(n).kind \notin Answers
      BY TakenAlone
    <3> HIDE DEF Alone
    <3> QED
      BY <3>1, <3>2, ProbeKinds
  <2> HIDE DEF Alone
  <2>2. \A kind : Refused(kind).kind = kind
    BY DEF Refused
  <2>3. CASE \E n \in DOMAIN message.objects : ~Deserializes(message.objects[n])
    <3>1. TryFrom(message) = Refused("serde error")
      BY <2>3 DEF TryFrom
    <3> QED
      BY <2>1, <2>2, <2>3, <3>1
  <2>4. CASE \A n \in DOMAIN message.objects : Deserializes(message.objects[n])
    <3>1. TryFrom(message) = ProcessBatch(message.objects)
      BY <2>4 DEF TryFrom
    <3>2. CASE \A n \in DOMAIN message.objects : Answering(n)
      <4> DEFINE taken == [n \in DOMAIN message.objects |->
                             Item(ProbeAsResponse(message.objects[n]), message.objects[n])]
      <4>1. TryFrom(message) = [kind |-> "batch", items |-> taken]
        BY <3>1, <3>2, Zenon DEF ProcessBatch
      <4> HIDE DEF taken
      <4>2. TryFrom(message).kind = "batch" /\ TryFrom(message).items = taken
        BY <4>1
      <4>3. \A n \in DOMAIN message.objects : Alone(n).kind \in Answers
        BY <2>1, <2>4, <3>2
      <4>4. taken = [n \in DOMAIN message.objects |-> Alone(n).items[1]]
        BY <2>1, <4>3 DEF taken
      <4> QED
        BY <4>2, <4>3, <4>4
    <3>3. CASE ~\A n \in DOMAIN message.objects : Answering(n)
      <4>1. TryFrom(message) = Refused("invalid message")
        BY <3>1, <3>3 DEF ProcessBatch
      <4> QED
        BY <2>1, <2>2, <3>3, <4>1
    <3> QED
      BY <3>2, <3>3
  <2> QED
    BY <2>3, <2>4
<1> QED
  BY <1>1, PTL

(***************************************************************************)
(* A single object is taken for what JSON-RPC says it is, for all ids and  *)
(* all combinations of members (process_probe).                            *)
(***************************************************************************)
THEOREM ObjectsAreTakenRight == Spec => []TakenForWhatItIs
<1>1. MessageGiven => TakenForWhatItIs
  <2> DEFINE object == message.objects[1]
             incoming == TryFrom(message)
             probe == ProbeAsResponse(object)
  <2> SUFFICES ASSUME MessageGiven, message.shape = "object", WellFormed(object), ~Escaped(object)
               PROVE  /\ Role(object) \in Answers => incoming = Single(Role(object), object)
                      /\ incoming.kind = "notification" <=> Role(object) = "notification"
    BY DEF TakenForWhatItIs
  <2>1. message.objects \in Seq(Object) /\ Len(message.objects) = 1
    BY CorrelateAssumption DEF MessageGiven
  <2>2. DOMAIN message.objects = {1} /\ object \in Object
    BY <2>1
  <2>3. Deserializes(object)
    BY <2>2 DEF Deserializes, OurVersion, Borrows, WellFormed, Escaped
  <2>4. incoming = ProcessProbe(object)
    BY <2>2, <2>3 DEF TryFrom
  <2> HIDE DEF object, incoming
  <2>5. object.id \in Nat \union {-1, -2, -3}
    BY <2>2 DEF Object, ForeignId, NullId, AbsentId
  <2>6. /\ Role(object) = "response" => probe = "response"
        /\ Role(object) = "error" => probe = "error"
        /\ Role(object) = "notification" <=>
             probe = "neither" /\ Given(object.method) /\ ~IsPresent(object)
    <3> DEFINE result == object.result # "absent"
               error  == Given(object.error)
               method == Given(object.method)
    <3>1. probe = IF error THEN "error" ELSE IF ~result THEN "neither"
                  ELSE IF object.id >= 0 THEN "response" ELSE "invalid message"
      BY DEF ProbeAsResponse, HasResult
    <3>2. Role(object) =
            CASE result /\ ~error /\ ~method /\ object.id >= 0 -> "response"
              [] error /\ ~result /\ ~method -> "error"
              [] method /\ ~result /\ ~error /\ object.id = AbsentId -> "notification"
              [] method /\ ~result /\ ~error /\ object.id # AbsentId -> "call"
              [] OTHER -> "nothing"
      BY DEF Role
    <3>3. IsPresent(object) <=> object.id # AbsentId
      BY DEF IsPresent
    <3> HIDE DEF result, error, method
    <3> QED
      BY <3>1, <3>2, <3>3 DEF method
  <2>7. probe \in Answers => incoming = Single(probe, object)
    BY <2>4, ProbeKinds
  <2>8. incoming.kind = "notification" <=>
          probe = "neither" /\ Given(object.method) /\ ~IsPresent(object)
    BY <2>4, ProbeKinds
  <2> QED
    BY <2>6, <2>7, <2>8 DEF Answers
<1> QED
  BY <1>1, InitMessage, StepMessage, PTL DEF Spec

-----------------------------------------------------------------------------
(* The algorithm of the WebSocket client *)

\* What the collecting loop has after n items.
Collects(ids, its) ==
  ids = [n \in 0 .. Len(its) |->
           IF n = 0 THEN <<>>
           ELSE IF its[n].id < 0 THEN ids[n - 1] ELSE Append(ids[n - 1], its[n].id)]

LEMMA ItemsType ==
  ASSUME NEW its \in Seq(BatchItem)
  PROVE  Len(its) \in Nat /\ \A n \in 1 .. Len(its) : its[n] \in BatchItem /\ its[n].id \in Int
<1>1. Len(its) \in Nat /\ \A n \in 1 .. Len(its) : its[n] \in BatchItem
  OBVIOUS
<1> QED
  BY <1>1 DEF BatchItem

LEMMA CollectsExists ==
  ASSUME NEW its \in Seq(BatchItem)
  PROVE  \E ids \in [0 .. Len(its) -> Seq(Int)] : Collects(ids, its)
<1> DEFINE step == [n \in 1 .. Len(its) |-> [s \in Seq(Int) |->
                      IF its[n].id < 0 THEN s ELSE Append(s, its[n].id)]]
<1>1. Len(its) \in Nat /\ \A n \in 1 .. Len(its) : its[n].id \in Int
  BY ItemsType
<1>2. ASSUME NEW n \in 1 .. Len(its), NEW s \in Seq(Int)
      PROVE  /\ step[n][s] = IF its[n].id < 0 THEN s ELSE Append(s, its[n].id)
             /\ step[n][s] \in Seq(Int)
  BY <1>1
<1>3. step \in [1 .. Len(its) -> [Seq(Int) -> Seq(Int)]]
  BY <1>1
<1>4. <<>> \in Seq(Int)
  OBVIOUS
<1> HIDE DEF step
<1>5. PICK ids \in [0 .. Len(its) -> Seq(Int)] : Carries(ids, Len(its), <<>>, step)
  BY <1>1, <1>3, <1>4, Loop
<1>6. /\ ids[0] = <<>>
      /\ \A n \in 1 .. Len(its) : ids[n] = step[n][ids[n - 1]]
  BY <1>5 DEF Carries
<1>7. ASSUME NEW n \in 1 .. Len(its)
      PROVE  ids[n] = IF its[n].id < 0 THEN ids[n - 1] ELSE Append(ids[n - 1], its[n].id)
  <2>1. n - 1 \in 0 .. Len(its)
    BY <1>1
  <2>2. ids[n - 1] \in Seq(Int)
    BY <2>1
  <2> QED
    BY <1>2, <1>6, <2>2
<1> DEFINE After(n) == IF its[n].id < 0 THEN ids[n - 1] ELSE Append(ids[n - 1], its[n].id)
<1>8. \A n \in 0 .. Len(its) : ids[n] = IF n = 0 THEN <<>> ELSE After(n)
  <2>1. \A n \in 0 .. Len(its) : n = 0 \/ n \in 1 .. Len(its)
    BY <1>1
  <2>2. \A n \in 1 .. Len(its) : n # 0
    OBVIOUS
  <2>3. \A n \in 1 .. Len(its) : ids[n] = After(n)
    BY <1>7, Zenon
  <2> HIDE DEF After
  <2> QED
    BY <1>6, <2>1, <2>2, <2>3
<1>9. ids = [n \in 0 .. Len(its) |-> ids[n]]
  OBVIOUS
<1>10. ids = [n \in 0 .. Len(its) |-> IF n = 0 THEN <<>> ELSE After(n)]
  <2> HIDE DEF After
  <2> QED
    BY <1>8, <1>9
<1>11. Collects(ids, its)
  BY <1>10, Zenon DEF Collects
<1> QED
  BY <1>11

LEMMA IdsOfIs ==
  ASSUME NEW its \in Seq(BatchItem)
  PROVE  \E ids : Collects(ids, its) /\ IdsOf(its) = ids[Len(its)]
<1> DEFINE all == CHOOSE ids : Collects(ids, its)
<1>1. IdsOf(its) = all[Len(its)]
  BY DEF IdsOf, Collects
<1>2. Collects(all, its)
  BY CollectsExists, Zenon
<1> QED
  BY <1>1, <1>2

\* One more turn of the collecting loop.
LEMMA CollectsNext ==
  ASSUME NEW its \in Seq(BatchItem), NEW ids, Collects(ids, its)
  PROVE  /\ ids[0] = <<>>
         /\ \A n \in 1 .. Len(its) :
              ids[n] = IF its[n].id < 0 THEN ids[n - 1] ELSE Append(ids[n - 1], its[n].id)
<1> DEFINE After(n) == IF its[n].id < 0 THEN ids[n - 1] ELSE Append(ids[n - 1], its[n].id)
<1>1. ids = [n \in 0 .. Len(its) |-> IF n = 0 THEN <<>> ELSE After(n)]
  BY Zenon DEF Collects
<1>2. Len(its) \in Nat
  OBVIOUS
<1>3. \A n \in 1 .. Len(its) : n \in 0 .. Len(its) /\ n # 0
  BY <1>2
<1>4. 0 \in 0 .. Len(its)
  BY <1>2
<1>5. ids[0] = <<>> /\ \A n \in 1 .. Len(its) : ids[n] = After(n)
  <2> HIDE DEF After
  <2> QED
    BY <1>1, <1>3, <1>4, Zenon
<1> QED
  BY <1>5, Zenon

\* s holds the ids of the first n items that have one, e says whose each is.
Enumerates(e, s, its, n) ==
  /\ e \in [1 .. Len(s) -> {i \in 1 .. n : its[i].id >= 0}]
  /\ \A i, j \in 1 .. Len(s) : e[i] = e[j] => i = j
  /\ \A v \in 1 .. n : its[v].id >= 0 => \E i \in 1 .. Len(s) : e[i] = v
  /\ \A i \in 1 .. Len(s) : s[i] = its[e[i]].id

LEMMA EnumeratesMore ==
  ASSUME NEW its \in Seq(BatchItem), NEW n \in 0 .. Len(its) - 1, NEW s \in Seq(Nat),
         NEW e, Enumerates(e, s, its, n), its[n + 1].id >= 0
  PROVE  \E d : Enumerates(d, Append(s, its[n + 1].id), its, n + 1)
<1> DEFINE m == Len(s)
           t == Append(s, its[n + 1].id)
           d == [i \in 1 .. m + 1 |-> IF i <= m THEN e[i] ELSE n + 1]
<1>1. n \in Nat /\ m \in Nat /\ n + 1 \in 1 .. n + 1 /\ Len(its) \in Nat
  OBVIOUS
<1>2. Len(t) = m + 1
  BY <1>1
<1>3. t[m + 1] = its[n + 1].id /\ \A i \in 1 .. m : t[i] = s[i]
  BY <1>1
<1>4. \A i \in 1 .. m : e[i] \in 1 .. n /\ its[e[i]].id >= 0
  BY DEF Enumerates
<1>5. d[m + 1] = n + 1 /\ \A i \in 1 .. m : d[i] = e[i]
  BY <1>1
<1>6. ASSUME NEW i \in 1 .. m + 1
      PROVE  \/ i \in 1 .. m /\ d[i] = e[i] /\ d[i] \in 1 .. n
             \/ i = m + 1 /\ d[i] = n + 1
  BY <1>1, <1>4, <1>5
<1>7. d \in [1 .. Len(t) -> {i \in 1 .. n + 1 : its[i].id >= 0}]
  <2>1. d = [i \in 1 .. m + 1 |-> d[i]]
    OBVIOUS
  <2>2. ASSUME NEW i \in 1 .. m + 1 PROVE d[i] \in 1 .. n + 1 /\ its[d[i]].id >= 0
    <3> HIDE DEF d
    <3>1. CASE i \in 1 .. m
      <4>1. d[i] = e[i] /\ e[i] \in 1 .. n /\ its[e[i]].id >= 0
        BY <1>4, <1>5, <3>1
      <4>2. e[i] \in 1 .. n + 1
        BY <1>1, <4>1
      <4> QED
        BY <4>1, <4>2
    <3>2. CASE i = m + 1
      BY <1>1, <1>5, <3>2
    <3> QED
      BY <1>1, <3>1, <3>2
  <2> HIDE DEF d
  <2> QED
    BY <1>2, <2>1, <2>2
<1> HIDE DEF d, t
<1>8. ASSUME NEW i \in 1 .. m + 1, NEW j \in 1 .. m + 1, d[i] = d[j] PROVE i = j
  <2>1. \A a, b \in 1 .. m : e[a] = e[b] => a = b
    BY DEF Enumerates
  <2> QED
    BY <1>1, <1>6, <1>8, <2>1
<1>9. ASSUME NEW v \in 1 .. n + 1, its[v].id >= 0
      PROVE  \E i \in 1 .. m + 1 : d[i] = v
  <2>1. CASE v = n + 1
    <3>1. m + 1 \in 1 .. m + 1
      BY <1>1
    <3> QED
      BY <1>5, <2>1, <3>1
  <2>2. CASE v # n + 1
    <3>1. v \in 1 .. n
      BY <1>1, <2>2
    <3>2. PICK i \in 1 .. m : e[i] = v
      BY <1>9, <3>1 DEF Enumerates
    <3>3. i \in 1 .. m + 1
      BY <1>1
    <3> QED
      BY <1>5, <3>2, <3>3
  <2> QED
    BY <2>1, <2>2
<1>10. ASSUME NEW i \in 1 .. m + 1 PROVE t[i] = its[d[i]].id
  <2>1. CASE i \in 1 .. m
    BY <1>3, <1>5, <2>1 DEF Enumerates
  <2>2. CASE i = m + 1
    BY <1>3, <1>5, <2>2
  <2> QED
    BY <1>1, <2>1, <2>2
<1>11. Enumerates(d, t, its, n + 1)
  BY <1>2, <1>7, <1>8, <1>9, <1>10 DEF Enumerates
<1> QED
  BY <1>11 DEF t

LEMMA EnumeratesSame ==
  ASSUME NEW its \in Seq(BatchItem), NEW n \in 0 .. Len(its) - 1, NEW s,
         NEW e, Enumerates(e, s, its, n), ~(its[n + 1].id >= 0)
  PROVE  Enumerates(e, s, its, n + 1)
<1>1. \A i : i \in 1 .. n + 1 /\ its[i].id >= 0 <=> i \in 1 .. n /\ its[i].id >= 0
  <2>1. \A i : i \in 1 .. n + 1 <=> i \in 1 .. n \/ i = n + 1
    OBVIOUS
  <2> QED
    BY <2>1
<1>2. {i \in 1 .. n + 1 : its[i].id >= 0} = {i \in 1 .. n : its[i].id >= 0}
  BY <1>1
<1> QED
  BY <1>1, <1>2, Zenon DEF Enumerates

\* filter_map collects the id of every item that has one.
LEMMA IdsOfEnumerates ==
  ASSUME NEW its \in Seq(BatchItem)
  PROVE  /\ IdsOf(its) \in Seq(Nat)
         /\ \E e : Enumerates(e, IdsOf(its), its, Len(its))
<1>1. PICK ids : Collects(ids, its) /\ IdsOf(its) = ids[Len(its)]
  BY IdsOfIs
<1> DEFINE Enumerated(n) == ids[n] \in Seq(Nat) /\ \E e : Enumerates(e, ids[n], its, n)
           S == {n \in 0 .. Len(its) : Enumerated(n)}
<1>2. Len(its) \in Nat /\ \A n \in 1 .. Len(its) : its[n].id \in Int
  BY ItemsType
<1>3. 0 \in S
  <2>1. ids[0] = <<>> /\ 1 .. 0 = {} /\ Len(<<>>) = 0
    BY <1>1, CollectsNext
  <2> DEFINE e == [i \in 1 .. 0 |-> i]
  <2>2. e \in [1 .. 0 -> {i \in 1 .. 0 : its[i].id >= 0}]
    BY <2>1
  <2> HIDE DEF e
  <2>3. Enumerates(e, ids[0], its, 0)
    BY <2>1, <2>2 DEF Enumerates
  <2>4. 0 \in 0 .. Len(its) /\ ids[0] \in Seq(Nat)
    BY <1>2, <2>1
  <2> QED
    BY <2>3, <2>4
<1>4. ASSUME NEW n \in 0 .. Len(its) - 1, n \in S PROVE n + 1 \in S
  <2>1. n + 1 \in 0 .. Len(its) /\ n + 1 \in 1 .. Len(its) /\ (n + 1) - 1 = n
    BY <1>2
  <2>2. ids[n + 1] = IF its[n + 1].id < 0 THEN ids[n] ELSE Append(ids[n], its[n + 1].id)
    BY <1>1, <2>1, CollectsNext
  <2>3. its[n + 1].id \in Int
    BY <1>2, <2>1
  <2>4. ids[n] \in Seq(Nat) /\ \E e : Enumerates(e, ids[n], its, n)
    BY <1>4
  <2>5. PICK e : Enumerates(e, ids[n], its, n)
    BY <2>4
  <2>6. CASE its[n + 1].id < 0
    <3>1. ids[n + 1] = ids[n] /\ ~(its[n + 1].id >= 0)
      BY <2>2, <2>3, <2>6
    <3>2. Enumerates(e, ids[n], its, n + 1)
      BY <2>5, <3>1, EnumeratesSame
    <3>3. Enumerated(n + 1)
      BY <2>4, <3>1, <3>2
    <3> QED
      BY <2>1, <3>3
  <2>7. CASE ~(its[n + 1].id < 0)
    <3>1. ids[n + 1] = Append(ids[n], its[n + 1].id)
      BY <2>2, <2>7
    <3>2. its[n + 1].id \in Nat /\ its[n + 1].id >= 0
      BY <2>3, <2>7
    <3>3. \E d : Enumerates(d, Append(ids[n], its[n + 1].id), its, n + 1)
      BY <2>4, <2>5, <3>2, EnumeratesMore
    <3>4. Append(ids[n], its[n + 1].id) \in Seq(Nat)
      BY <2>4, <3>2
    <3>5. Enumerated(n + 1)
      BY <3>1, <3>3, <3>4
    <3> QED
      BY <2>1, <3>5
  <2> QED
    BY <2>6, <2>7
<1> HIDE DEF S, Enumerated
<1>5. 0 .. Len(its) \subseteq S
  BY <1>2, <1>3, <1>4, InductionUpTo
<1>6. Len(its) \in S
  BY <1>2, <1>5
<1> QED
  BY <1>1, <1>6 DEF S, Enumerated

LEMMA OrdersAreBijections ==
  ASSUME NEW n \in Nat
  PROVE  Bijection(1 .. n, 1 .. n) = Orders(n)
<1>1. \A p \in [1 .. n -> 1 .. n] : DOMAIN p = 1 .. n
  OBVIOUS
<1> QED
  BY <1>1 DEF Orders, Bijection, Injection, Surjection, IsInjective

\* Another order of s enumerates the same items.
LEMMA EnumeratesReordered ==
  ASSUME NEW its \in Seq(BatchItem), NEW n \in Nat, NEW s \in Seq(Nat), NEW e,
         Enumerates(e, s, its, n), NEW p \in Orders(Len(s)), NEW r \in Seq(Nat),
         Len(r) = Len(s), \A i \in 1 .. Len(s) : r[i] = s[p[i]]
  PROVE  \E d : Enumerates(d, r, its, n)
<1> DEFINE m == Len(s)
           d == [i \in 1 .. m |-> e[p[i]]]
<1>1. \A i \in 1 .. m : p[i] \in 1 .. m
  BY DEF Orders
<1>2. /\ \A i, j \in 1 .. m : p[i] = p[j] => i = j
      /\ \A v \in 1 .. m : \E i \in 1 .. m : p[i] = v
  BY DEF Orders
<1>3. \A i \in 1 .. m : d[i] = e[p[i]]
  OBVIOUS
<1>4. d \in [1 .. m -> {i \in 1 .. n : its[i].id >= 0}]
  BY <1>1 DEF Enumerates
<1>5. /\ \A i, j \in 1 .. m : e[i] = e[j] => i = j
      /\ \A v \in 1 .. n : its[v].id >= 0 => \E i \in 1 .. m : e[i] = v
  BY DEF Enumerates
<1>6. \A i \in 1 .. m : s[i] = its[e[i]].id
  BY DEF Enumerates
<1>7. \A i \in 1 .. m : r[i] = s[p[i]]
  OBVIOUS
<1> HIDE DEF d, m
<1>8. ASSUME NEW i \in 1 .. m, NEW j \in 1 .. m, d[i] = d[j] PROVE i = j
  <2>1. p[i] \in 1 .. m /\ p[j] \in 1 .. m
    BY <1>1
  <2>2. e[p[i]] = e[p[j]]
    BY <1>3, <1>8, Zenon
  <2>3. p[i] = p[j]
    BY <1>5, <2>1, <2>2, Zenon
  <2> QED
    BY <1>2, <2>3, Zenon
<1>9. ASSUME NEW v \in 1 .. n, its[v].id >= 0 PROVE \E i \in 1 .. m : d[i] = v
  <2>1. PICK j \in 1 .. m : e[j] = v
    BY <1>5, <1>9
  <2>2. PICK i \in 1 .. m : p[i] = j
    BY <1>2
  <2> QED
    BY <1>3, <2>1, <2>2
<1>10. ASSUME NEW i \in 1 .. m PROVE r[i] = its[d[i]].id
  <2>1. p[i] \in 1 .. m
    BY <1>1
  <2> QED
    BY <1>3, <1>6, <1>7, <2>1, Zenon
<1>11. Len(r) = m
  BY DEF m
<1>12. Enumerates(d, r, its, n)
  BY <1>4, <1>8, <1>9, <1>10, <1>11 DEF Enumerates
<1> QED
  BY <1>12

\* sort_unstable gives the ids of the items that have one, in order.
LEMMA SortedIdsIs ==
  ASSUME NEW its \in Seq(BatchItem)
  PROVE  /\ SortedIds(its) \in Seq(Nat)
         /\ Len(SortedIds(its)) = Len(IdsOf(its))
         /\ \A i, j \in 1 .. Len(SortedIds(its)) :
              i < j => SortedIds(its)[i] <= SortedIds(its)[j]
         /\ \E e : Enumerates(e, SortedIds(its), its, Len(its))
<1> DEFINE ids == IdsOf(its)
           n == Len(ids)
           Sorts(p) == \A i, j \in DOMAIN ids : i < j => ids[p[i]] <= ids[p[j]]
           order == CHOOSE p \in Bijection(DOMAIN ids, DOMAIN ids) : Sorts(p)
           sorted == [i \in DOMAIN ids |-> ids[order[i]]]
<1>1. ids \in Seq(Nat) /\ \E e : Enumerates(e, ids, its, Len(its))
  BY IdsOfEnumerates
<1>2. SortedIds(its) = sorted
  BY DEF SortedIds
<1> HIDE DEF ids
<1>3. n \in Nat /\ DOMAIN ids = 1 .. n /\ ids \in [1 .. n -> Int]
  BY <1>1
<1>4. Bijection(DOMAIN ids, DOMAIN ids) = Orders(n)
  BY <1>3, OrdersAreBijections
<1>5. \E p \in Orders(n) : Ascends(ids, p, n)
  BY <1>3, SortingOrder
<1>6. \E p \in Bijection(DOMAIN ids, DOMAIN ids) : Sorts(p)
  BY <1>3, <1>4, <1>5 DEF Ascends
<1> HIDE DEF Sorts
<1>7. order \in Bijection(DOMAIN ids, DOMAIN ids) /\ Sorts(order)
  BY <1>6, Zenon
<1> HIDE DEF order
<1>8. order \in Orders(n)
  BY <1>4, <1>7
<1>9. \A i \in 1 .. n : order[i] \in 1 .. n
  BY <1>8 DEF Orders
<1>10. sorted \in Seq(Nat) /\ Len(sorted) = n
  <2>1. sorted = [i \in 1 .. n |-> ids[order[i]]]
    BY <1>3
  <2>2. \A i \in 1 .. n : ids[order[i]] \in Nat
    BY <1>1, <1>9
  <2> HIDE DEF sorted
  <2>3. sorted \in [1 .. n -> Nat]
    BY <2>1, <2>2
  <2> QED
    BY <1>3, <2>3
<1>11. \A i \in 1 .. n : sorted[i] = ids[order[i]]
  BY <1>3
<1> HIDE DEF sorted
<1>12. \A i, j \in 1 .. n : i < j => sorted[i] <= sorted[j]
  BY <1>3, <1>7, <1>11 DEF Sorts
<1>13. \E e : Enumerates(e, sorted, its, Len(its))
  <2>1. PICK e : Enumerates(e, ids, its, Len(its))
    BY <1>1
  <2>2. Len(its) \in Nat
    OBVIOUS
  <2> QED
    BY <1>1, <1>8, <1>10, <1>11, <2>1, <2>2, EnumeratesReordered
<1> QED
  BY <1>2, <1>10, <1>12, <1>13 DEF ids

\* The same, in the terms of BatchCorrelation.
LEMMA SortedIdsAre ==
  ASSUME NEW its \in Seq(BatchItem)
  PROVE  LET ids == SortedIds(its)
             n == Len(ids)
         IN  /\ ids \in Seq(Nat) /\ n \in Nat /\ n = Len(IdsOf(its))
             /\ \A i, j \in 1 .. n : i < j => ids[i] <= ids[j]
             /\ Ids(its) = {ids[i] : i \in 1 .. n}
             /\ NoDuplicates(its) <=> \A i, j \in 1 .. n : ids[i] = ids[j] => i = j
<1> DEFINE ids == SortedIds(its)
           n == Len(ids)
<1>1. /\ ids \in Seq(Nat) /\ n \in Nat /\ n = Len(IdsOf(its))
      /\ \A i, j \in 1 .. n : i < j => ids[i] <= ids[j]
  BY SortedIdsIs
<1>2. PICK e : Enumerates(e, ids, its, Len(its))
  BY SortedIdsIs
<1>3. Numbered(its) = {i \in 1 .. Len(its) : its[i].id >= 0}
  BY DEF Numbered
<1> HIDE DEF ids
<1>4. /\ \A i \in 1 .. n : e[i] \in Numbered(its) /\ ids[i] = its[e[i]].id
      /\ \A i, j \in 1 .. n : e[i] = e[j] => i = j
      /\ \A v \in Numbered(its) : \E i \in 1 .. n : e[i] = v
  BY <1>2, <1>3 DEF Enumerates
<1> HIDE DEF n
<1>5. Ids(its) = {ids[i] : i \in 1 .. n}
  BY <1>4 DEF Ids
<1>6. NoDuplicates(its) => \A i, j \in 1 .. n : ids[i] = ids[j] => i = j
  BY <1>4 DEF NoDuplicates
<1>7. (\A i, j \in 1 .. n : ids[i] = ids[j] => i = j) => NoDuplicates(its)
  <2> SUFFICES ASSUME \A i, j \in 1 .. n : ids[i] = ids[j] => i = j,
                      NEW v \in Numbered(its), NEW w \in Numbered(its),
                      its[v].id = its[w].id
               PROVE  v = w
    BY DEF NoDuplicates
  <2>1. PICK i \in 1 .. n : e[i] = v
    BY <1>4
  <2>2. PICK j \in 1 .. n : e[j] = w
    BY <1>4
  <2>3. ids[i] = ids[j]
    BY <1>4, <2>1, <2>2
  <2> QED
    BY <2>1, <2>2, <2>3
<1> QED
  BY <1>1, <1>5, <1>6, <1>7 DEF ids, n

\* Neighbours that all differ by one make a range.
LEMMA ContiguousIsRange ==
  ASSUME NEW ids \in Seq(Nat), IsContiguous(ids), Len(ids) > 0
  PROVE  \A i \in 1 .. Len(ids) : ids[i] = ids[1] + i - 1
<1> DEFINE n == Len(ids)
           S == {k \in 0 .. n - 1 : ids[k + 1] = ids[1] + k}
<1>1. n \in Nat /\ n - 1 \in Nat /\ \A i \in 1 .. n : ids[i] \in Nat
  OBVIOUS
<1>2. \A i \in 1 .. n - 1 : ids[i + 1] = ids[i] + 1
  BY DEF IsContiguous
<1> HIDE DEF n
<1>3. ids[1] \in Nat
  BY <1>1
<1>4. 0 \in S
  BY <1>1, <1>3
<1>5. ASSUME NEW k \in 0 .. (n - 1) - 1, k \in S PROVE k + 1 \in S
  <2>1. k + 1 \in 1 .. n - 1 /\ k + 1 \in 0 .. n - 1
    BY <1>1
  <2>2. ids[(k + 1) + 1] = ids[k + 1] + 1 /\ ids[k + 1] = ids[1] + k
    BY <1>2, <1>5, <2>1
  <2>3. ids[(k + 1) + 1] = ids[1] + (k + 1)
    BY <1>3, <2>2
  <2> QED
    BY <2>1, <2>3
<1> HIDE DEF S
<1>6. 0 .. n - 1 \subseteq S
  BY <1>1, <1>4, <1>5, InductionUpTo
<1>7. ASSUME NEW i \in 1 .. n PROVE ids[i] = ids[1] + i - 1
  <2>1. i - 1 \in 0 .. n - 1 /\ (i - 1) + 1 = i
    BY <1>1
  <2>2. ids[(i - 1) + 1] = ids[1] + (i - 1)
    BY <1>6, <2>1 DEF S
  <2> QED
    BY <1>3, <2>1, <2>2
<1> QED
  BY <1>7 DEF n

\* What comparing neighbours accepts answers every request once.
LEMMA RangeCorrelates ==
  ASSUME NEW its \in Seq(BatchItem), NEW k, k \in RangeKeys(its)
  PROVE  /\ k[1] \in Nat /\ k[2] \in Nat
         /\ Correlates(its, k)
         /\ Len(IdsOf(its)) = k[2] - k[1] + 1
<1> DEFINE ids == SortedIds(its)
           n == Len(ids)
<1>1. ids \in Seq(Nat) /\ n \in Nat /\ n = Len(IdsOf(its))
  BY SortedIdsAre
<1>2. /\ Ids(its) = {ids[i] : i \in 1 .. n}
      /\ NoDuplicates(its) <=> \A i, j \in 1 .. n : ids[i] = ids[j] => i = j
  BY SortedIdsAre
<1>3. ids # <<>> /\ IsContiguous(ids) /\ k = <<ids[1], ids[n]>>
  BY DEF RangeKeys
<1> HIDE DEF ids
<1>4. n > 0 /\ 1 \in 1 .. n /\ n \in 1 .. n
  BY <1>1, <1>3
<1>5. \A i \in 1 .. n : ids[i] = ids[1] + i - 1
  BY <1>1, <1>3, <1>4, ContiguousIsRange
<1>6. ids[1] \in Nat /\ ids[n] \in Nat /\ ids[n] = ids[1] + n - 1
  BY <1>1, <1>4, <1>5
<1>7. k[1] = ids[1] /\ k[2] = ids[n]
  BY <1>3
<1> HIDE DEF n
<1>8. NoDuplicates(its)
  <2>1. ASSUME NEW i \in 1 .. n, NEW j \in 1 .. n, ids[i] = ids[j] PROVE i = j
    <3>1. ids[1] + i - 1 = ids[1] + j - 1
      BY <1>5, <2>1
    <3> QED
      BY <1>6, <3>1
  <2> QED
    BY <1>2, <2>1
<1>9. Ids(its) = k[1] .. k[2]
  <2>1. ASSUME NEW i \in 1 .. n PROVE ids[i] \in k[1] .. k[2]
    <3>1. ids[i] = ids[1] + i - 1
      BY <1>5
    <3> QED
      BY <1>1, <1>6, <1>7, <3>1
  <2>2. ASSUME NEW v \in k[1] .. k[2] PROVE \E i \in 1 .. n : ids[i] = v
    <3>1. v - ids[1] + 1 \in 1 .. n
      BY <1>1, <1>6, <1>7
    <3>2. ids[v - ids[1] + 1] = ids[1] + (v - ids[1] + 1) - 1
      BY <1>5, <3>1
    <3>3. ids[1] + (v - ids[1] + 1) - 1 = v
      BY <1>6, <1>7
    <3> QED
      BY <3>1, <3>2, <3>3
  <2> QED
    BY <1>2, <2>1, <2>2
<1>10. k[1] <= k[2]
  BY <1>1, <1>4, <1>6, <1>7
<1>11. n = k[2] - k[1] + 1
  BY <1>1, <1>6, <1>7
<1> QED
  BY <1>1, <1>6, <1>7, <1>8, <1>9, <1>10, <1>11 DEF Correlates, n

\* And the other way round: sorted, the ids of a range have no gap.
LEMMA CorrelatesIsRange ==
  ASSUME NEW its \in Seq(BatchItem), NEW k \in Nat \X Nat, Correlates(its, k)
  PROVE  k \in RangeKeys(its)
<1> DEFINE ids == SortedIds(its)
           n == Len(ids)
           a == k[1]
           b == k[2]
<1>1. /\ ids \in Seq(Nat) /\ n \in Nat /\ a \in Nat /\ b \in Nat /\ k = <<a, b>>
      /\ \A i \in 1 .. n : ids[i] \in Nat
  BY SortedIdsAre
<1>2. /\ \A i, j \in 1 .. n : i < j => ids[i] <= ids[j]
      /\ Ids(its) = {ids[i] : i \in 1 .. n}
      /\ NoDuplicates(its) <=> \A i, j \in 1 .. n : ids[i] = ids[j] => i = j
  BY SortedIdsAre
<1>3. a <= b /\ Ids(its) = a .. b /\ NoDuplicates(its)
  BY DEF Correlates
<1>4. RangeKeys(its) = IF ids # <<>> /\ IsContiguous(ids) THEN {<<ids[1], ids[n]>>} ELSE {}
  BY DEF RangeKeys
<1> HIDE DEF ids, n, a, b
<1>5. \A i \in 1 .. n : ids[i] \in a .. b
  BY <1>2, <1>3
<1>6. \A v \in a .. b : \E i \in 1 .. n : ids[i] = v
  BY <1>2, <1>3
<1>7. \A i, j \in 1 .. n : i < j => ids[i] < ids[j]
  <2> SUFFICES ASSUME NEW i \in 1 .. n, NEW j \in 1 .. n, i < j PROVE ids[i] < ids[j]
    OBVIOUS
  <2>1. ids[i] <= ids[j] /\ ids[i] # ids[j]
    BY <1>1, <1>2, <1>3
  <2>2. ids[i] \in Nat /\ ids[j] \in Nat
    BY <1>1
  <2> QED
    BY <2>1, <2>2
<1>8. n > 0
  <2>1. a \in a .. b
    BY <1>1, <1>3
  <2>2. PICK i \in 1 .. n : ids[i] = a
    BY <1>6, <2>1
  <2> QED
    BY <1>1
<1>9. 1 \in 1 .. n /\ n \in 1 .. n
  BY <1>1, <1>8
<1>10. ids[1] = a
  <2>1. PICK i \in 1 .. n : ids[i] = a
    <3>1. a \in a .. b
      BY <1>1, <1>3
    <3> QED
      BY <1>6, <3>1
  <2>2. CASE i = 1
    BY <2>1, <2>2
  <2>3. CASE 1 < i
    <3>1. ids[1] < ids[i] /\ ids[1] \in a .. b
      BY <1>5, <1>7, <1>9, <2>3
    <3> QED
      BY <1>1, <2>1, <3>1
  <2>4. i = 1 \/ 1 < i
    BY <1>1
  <2> QED
    BY <2>2, <2>3, <2>4
<1>11. ids[n] = b
  <2>1. PICK i \in 1 .. n : ids[i] = b
    <3>1. b \in a .. b
      BY <1>1, <1>3
    <3> QED
      BY <1>6, <3>1
  <2>2. CASE i = n
    BY <2>1, <2>2
  <2>3. CASE i < n
    <3>1. ids[i] < ids[n] /\ ids[n] \in a .. b
      BY <1>5, <1>7, <1>9, <2>3
    <3> QED
      BY <1>1, <2>1, <3>1
  <2>4. i = n \/ i < n
    BY <1>1
  <2> QED
    BY <2>2, <2>3, <2>4
<1>12. ASSUME NEW i \in 1 .. n - 1 PROVE ids[i + 1] = ids[i] + 1
  <2>1. i \in 1 .. n /\ i + 1 \in 1 .. n /\ i < i + 1
    BY <1>1
  <2>2. ids[i] < ids[i + 1]
    BY <1>7, <2>1
  <2> DEFINE v == ids[i]
             w == ids[i + 1]
  <2>3. v \in a .. b /\ w \in a .. b /\ v < w
    BY <1>5, <2>1, <2>2
  <2> HIDE DEF v, w
  <2>4. ASSUME v + 1 < w PROVE FALSE
    <3>1. v + 1 \in a .. b
      BY <1>1, <2>3, <2>4
    <3>2. PICK j \in 1 .. n : ids[j] = v + 1
      BY <1>6, <3>1
    <3>3. ids[j] \in Int /\ v \in Int /\ w \in Int
      BY <1>1, <2>3, <3>2
    <3>4. CASE j < i
      <4>1. ids[j] < v
        BY <1>7, <2>1, <3>4 DEF v
      <4> QED
        BY <3>2, <3>3, <4>1
    <3>5. CASE j = i
      BY <3>2, <3>3, <3>5 DEF v
    <3>6. CASE j = i + 1
      BY <2>4, <3>2, <3>3, <3>6 DEF w
    <3>7. CASE i + 1 < j
      <4>1. w < ids[j]
        BY <1>7, <2>1, <3>7 DEF w
      <4> QED
        BY <2>4, <3>2, <3>3, <4>1
    <3>8. j < i \/ j = i \/ j = i + 1 \/ i + 1 < j
      BY <1>1, <2>1
    <3> QED
      BY <3>4, <3>5, <3>6, <3>7, <3>8
  <2>5. w = v + 1
    BY <1>1, <2>3, <2>4
  <2> QED
    BY <2>5 DEF v, w
<1>13. IsContiguous(ids) /\ ids # <<>>
  <2>1. ids # <<>>
    BY <1>1, <1>8 DEF n
  <2> QED
    BY <1>12, <2>1 DEF IsContiguous, n
<1> QED
  BY <1>1, <1>4, <1>10, <1>11, <1>13

\* What the placing loop has after n items.
Slotted(t, its, k) ==
  t = [n \in 0 .. Len(its) |->
         IF n = 0 THEN [m \in 1 .. Len(IdsOf(its)) |-> "None"]
         ELSE IF its[n].id < 0 THEN t[n - 1]
         ELSE [t[n - 1] EXCEPT ![its[n].id - k[1] + 1] = its[n]]]

Slots(l) == [1 .. l -> BatchItem \union {"None"}]

LEMMA SlottedExists ==
  ASSUME NEW its \in Seq(BatchItem), NEW k
  PROVE  \E t \in [0 .. Len(its) -> Slots(Len(IdsOf(its)))] : Slotted(t, its, k)
<1> DEFINE l == Len(IdsOf(its))
           none == [m \in 1 .. l |-> "None"]
           Turn(n, s) == IF its[n].id < 0 THEN s
                         ELSE [s EXCEPT ![its[n].id - k[1] + 1] = its[n]]
           step == [n \in 1 .. Len(its) |-> [s \in Slots(l) |-> Turn(n, s)]]
<1>1. Len(its) \in Nat /\ \A n \in 1 .. Len(its) : its[n] \in BatchItem
  BY ItemsType
<1> HIDE DEF l
<1>2. none \in Slots(l)
  BY DEF Slots
<1>3. ASSUME NEW n \in 1 .. Len(its), NEW s \in Slots(l) PROVE Turn(n, s) \in Slots(l)
  BY <1>1 DEF Slots
<1> HIDE DEF none, Turn
<1>4. step \in [1 .. Len(its) -> [Slots(l) -> Slots(l)]]
  BY <1>3
<1>5. \A n \in 1 .. Len(its), s \in Slots(l) : step[n][s] = Turn(n, s)
  OBVIOUS
<1> HIDE DEF step
<1>6. PICK t \in [0 .. Len(its) -> Slots(l)] : Carries(t, Len(its), none, step)
  BY <1>1, <1>2, <1>4, Loop
<1>7. ASSUME NEW n \in 0 .. Len(its)
      PROVE  t[n] = IF n = 0 THEN none ELSE Turn(n, t[n - 1])
  <2>1. CASE n = 0
    BY <1>6, <2>1 DEF Carries
  <2>2. CASE n # 0
    <3>1. n \in 1 .. Len(its) /\ n - 1 \in 0 .. Len(its)
      BY <1>1, <2>2
    <3>2. t[n] = step[n][t[n - 1]] /\ t[n - 1] \in Slots(l)
      BY <1>6, <3>1 DEF Carries
    <3> QED
      BY <1>5, <2>2, <3>1, <3>2
  <2> QED
    BY <2>1, <2>2
<1>8. t = [n \in 0 .. Len(its) |-> IF n = 0 THEN none ELSE Turn(n, t[n - 1])]
  BY <1>7
<1>9. Slotted(t, its, k)
  BY <1>8, Zenon DEF Slotted, none, Turn, l
<1> QED
  BY <1>9 DEF l

LEMMA PlacedIs ==
  ASSUME NEW its \in Seq(BatchItem), NEW k
  PROVE  \E t : Slotted(t, its, k) /\ Placed(its, k) = t[Len(its)]
<1> DEFINE all == CHOOSE t : Slotted(t, its, k)
<1>1. Placed(its, k) = all[Len(its)]
  BY DEF Placed, Slotted
<1>2. Slotted(all, its, k)
  BY SlottedExists, Zenon
<1> QED
  BY <1>1, <1>2

\* One more turn of the placing loop.
LEMMA SlottedNext ==
  ASSUME NEW its \in Seq(BatchItem), NEW k, NEW t, Slotted(t, its, k)
  PROVE  /\ t[0] = [m \in 1 .. Len(IdsOf(its)) |-> "None"]
         /\ \A n \in 1 .. Len(its) :
              t[n] = IF its[n].id < 0 THEN t[n - 1]
                     ELSE [t[n - 1] EXCEPT ![its[n].id - k[1] + 1] = its[n]]
<1> DEFINE none == [m \in 1 .. Len(IdsOf(its)) |-> "None"]
           After(n) == IF its[n].id < 0 THEN t[n - 1]
                       ELSE [t[n - 1] EXCEPT ![its[n].id - k[1] + 1] = its[n]]
<1>1. t = [n \in 0 .. Len(its) |-> IF n = 0 THEN none ELSE After(n)]
  BY Zenon DEF Slotted
<1>2. Len(its) \in Nat
  OBVIOUS
<1>3. \A n \in 1 .. Len(its) : n \in 0 .. Len(its) /\ n # 0
  BY <1>2
<1>4. 0 \in 0 .. Len(its)
  BY <1>2
<1>5. t[0] = none /\ \A n \in 1 .. Len(its) : t[n] = After(n)
  <2> HIDE DEF After, none
  <2> QED
    BY <1>1, <1>3, <1>4, Zenon
<1> QED
  BY <1>5, Zenon

\* The loop puts every item into the slot of its request, and leaves none empty.
LEMMA PlacedInRequestOrder ==
  ASSUME NEW its \in Seq(BatchItem), NEW k, k \in RangeKeys(its)
  PROVE  Placed(its, k) = InRequestOrder(its, k)
<1> DEFINE a == k[1]
           l == Len(IdsOf(its))
           Slot(i) == its[i].id - a + 1
<1>1. /\ a \in Nat /\ k[2] \in Nat /\ l = k[2] - a + 1
      /\ Ids(its) = a .. k[2] /\ NoDuplicates(its)
  BY RangeCorrelates DEF Correlates
<1>2. PICK t : Slotted(t, its, k) /\ Placed(its, k) = t[Len(its)]
  BY PlacedIs
<1>3. Len(its) \in Nat /\ \A n \in 1 .. Len(its) : its[n] \in BatchItem /\ its[n].id \in Int
  BY ItemsType
<1>4. Numbered(its) = {i \in 1 .. Len(its) : its[i].id >= 0}
  BY DEF Numbered
<1>5. /\ t[0] = [m \in 1 .. l |-> "None"]
      /\ \A n \in 1 .. Len(its) :
           t[n] = IF its[n].id < 0 THEN t[n - 1] ELSE [t[n - 1] EXCEPT ![Slot(n)] = its[n]]
  BY <1>2, SlottedNext
<1>6. ASSUME NEW i \in Numbered(its) PROVE Slot(i) \in 1 .. l
  <2>1. its[i].id \in a .. k[2]
    BY <1>1 DEF Ids
  <2> QED
    BY <1>1, <2>1
<1>7. \A i, j \in Numbered(its) : Slot(i) = Slot(j) => i = j
  <2> SUFFICES ASSUME NEW i \in Numbered(its), NEW j \in Numbered(its), Slot(i) = Slot(j)
               PROVE  i = j
    OBVIOUS
  <2>1. its[i].id \in Int /\ its[j].id \in Int
    BY <1>3, <1>4
  <2>2. its[i].id = its[j].id
    BY <1>1, <2>1
  <2> QED
    BY <1>1, <2>2 DEF NoDuplicates
<1> DEFINE Filled(n) == /\ DOMAIN t[n] = 1 .. l
                        /\ t[n] = [m \in 1 .. l |-> t[n][m]]
                        /\ \A i \in Numbered(its) : i <= n => t[n][Slot(i)] = its[i]
           S == {n \in 0 .. Len(its) : Filled(n)}
<1> HIDE DEF Slot, l, a
<1>8. 0 \in S
  <2>1. \A i \in Numbered(its) : ~(i <= 0)
    BY <1>4
  <2>2. t[0] = [m \in 1 .. l |-> "None"]
    BY <1>5
  <2>3. DOMAIN t[0] = 1 .. l /\ t[0] = [m \in 1 .. l |-> t[0][m]]
    BY <2>2
  <2>4. Filled(0)
    BY <2>1, <2>3
  <2>5. 0 \in 0 .. Len(its)
    BY <1>3
  <2> HIDE DEF Filled
  <2> QED
    BY <2>4, <2>5
<1>9. ASSUME NEW n \in 0 .. Len(its) - 1, n \in S PROVE n + 1 \in S
  <2>1. /\ n + 1 \in 0 .. Len(its) /\ n + 1 \in 1 .. Len(its) /\ (n + 1) - 1 = n
        /\ n \in Int
    BY <1>3
  <2>2. /\ DOMAIN t[n] = 1 .. l /\ t[n] = [m \in 1 .. l |-> t[n][m]]
        /\ \A i \in Numbered(its) : i <= n => t[n][Slot(i)] = its[i]
    BY <1>9
  <2>3. t[n + 1] = IF its[n + 1].id < 0 THEN t[n]
                   ELSE [t[n] EXCEPT ![Slot(n + 1)] = its[n + 1]]
    BY <1>5, <2>1
  <2>4. its[n + 1].id \in Int
    BY <1>3, <2>1
  <2>5. CASE its[n + 1].id < 0
    <3>1. t[n + 1] = t[n]
      BY <2>3, <2>5
    <3>2. n + 1 \notin Numbered(its)
      BY <1>4, <2>4, <2>5
    <3>3. \A i \in Numbered(its) : i <= n + 1 => i <= n
      BY <1>4, <2>1, <3>2
    <3>4. Filled(n + 1)
      BY <2>2, <3>1, <3>3
    <3> QED
      BY <2>1, <3>4
  <2>6. CASE ~(its[n + 1].id < 0)
    <3>1. t[n + 1] = [t[n] EXCEPT ![Slot(n + 1)] = its[n + 1]]
      BY <2>3, <2>6
    <3>2. n + 1 \in Numbered(its)
      BY <1>4, <2>1, <2>4, <2>6
    <3>3. Slot(n + 1) \in 1 .. l
      BY <1>6, <3>2
    <3>4. /\ DOMAIN t[n + 1] = 1 .. l /\ t[n + 1][Slot(n + 1)] = its[n + 1]
          /\ \A m \in 1 .. l : m # Slot(n + 1) => t[n + 1][m] = t[n][m]
          /\ t[n + 1] = [m \in 1 .. l |-> t[n + 1][m]]
      BY <2>2, <3>1, <3>3
    <3>5. ASSUME NEW i \in Numbered(its), i <= n + 1 PROVE t[n + 1][Slot(i)] = its[i]
      <4>1. CASE i = n + 1
        BY <3>4, <4>1
      <4>2. CASE i # n + 1
        <5>1. i <= n
          BY <1>4, <2>1, <3>5, <4>2
        <5>2. Slot(i) \in 1 .. l /\ Slot(i) # Slot(n + 1)
          BY <1>6, <1>7, <3>2, <4>2
        <5> QED
          BY <2>2, <3>4, <5>1, <5>2
      <4> QED
        BY <4>1, <4>2
    <3>6. Filled(n + 1)
      BY <3>4, <3>5
    <3> QED
      BY <2>1, <3>6
  <2> QED
    BY <2>5, <2>6
<1> HIDE DEF S
<1>10. 0 .. Len(its) \subseteq S
  BY <1>3, <1>8, <1>9, InductionUpTo
<1>11. Len(its) \in S
  BY <1>3, <1>10
<1>12. /\ t[Len(its)] = [m \in 1 .. l |-> t[Len(its)][m]]
       /\ \A i \in Numbered(its) : i <= Len(its) => t[Len(its)][Slot(i)] = its[i]
  BY <1>11 DEF S
<1>13. ASSUME NEW m \in 1 .. l
       PROVE  t[Len(its)][m] = its[CHOOSE i \in Numbered(its) : its[i].id = a + m - 1]
  <2> DEFINE i == CHOOSE i \in Numbered(its) : its[i].id = a + m - 1
  <2>1. a + m - 1 \in a .. k[2]
    BY <1>1
  <2>2. \E j \in Numbered(its) : its[j].id = a + m - 1
    BY <1>1, <2>1 DEF Ids
  <2>3. i \in Numbered(its) /\ its[i].id = a + m - 1
    BY <2>2, Zenon
  <2> HIDE DEF i
  <2>4. i <= Len(its) /\ Slot(i) = m
    BY <1>1, <1>3, <1>4, <2>3 DEF Slot
  <2>5. t[Len(its)][m] = its[i]
    BY <1>12, <2>3, <2>4
  <2> QED
    BY <2>5 DEF i
<1>14. InRequestOrder(its, k)
         = [m \in 1 .. l |-> its[CHOOSE i \in Numbered(its) : its[i].id = a + m - 1]]
  BY <1>1, Zenon DEF InRequestOrder, a
<1> QED
  BY <1>2, <1>12, <1>13, <1>14

\* Only a repetition of the last id there is makes the sum of a neighbour overflow.
LEMMA OverflowRepeats ==
  ASSUME NEW its \in Seq(BatchItem), \A n \in 1 .. Len(its) : its[n].id <= MaxId,
         SumOverflows(SortedIds(its))
  PROVE  ~NoDuplicates(its)
<1> DEFINE ids == SortedIds(its)
           n == Len(ids)
<1>1. ids \in Seq(Nat) /\ n \in Nat
  BY SortedIdsAre
<1>2. /\ \A i, j \in 1 .. n : i < j => ids[i] <= ids[j]
      /\ Ids(its) = {ids[i] : i \in 1 .. n}
      /\ NoDuplicates(its) <=> \A i, j \in 1 .. n : ids[i] = ids[j] => i = j
  BY SortedIdsAre
<1>3. PICK i \in 1 .. n - 1 : ids[i] = MaxId
  BY DEF SumOverflows
<1> HIDE DEF ids
<1>4. /\ i \in 1 .. n /\ i + 1 \in 1 .. n /\ i < i + 1 /\ i # i + 1
      /\ ids[i] \in Nat /\ ids[i + 1] \in Nat
  BY <1>1
<1> HIDE DEF n
<1>5. ids[i] <= ids[i + 1]
  BY <1>2, <1>4
<1>6. ids[i + 1] <= MaxId
  <2>1. ids[i + 1] \in Ids(its)
    BY <1>2, <1>4
  <2> QED
    BY <2>1 DEF Ids, Numbered
<1>7. ids[i + 1] = ids[i]
  BY <1>3, <1>4, <1>5, <1>6
<1> QED
  BY <1>2, <1>4, <1>7

-----------------------------------------------------------------------------

\* The ids the decoder found fit, as those of the message do.
IdsFit == \A n \in 1 .. Len(items) : items[n].id <= MaxId

\* A batch response holds the ids of the objects of its message.
LEMMA BatchIdsFit ==
  ASSUME NEW m \in Messages, TryFrom(m).kind = "batch"
  PROVE  \A n \in 1 .. Len(TryFrom(m).items) : TryFrom(m).items[n].id <= MaxId
<1> DEFINE objects == m.objects
           Decoded(n) == Item(ProbeAsResponse(objects[n]), objects[n])
           decoded == [n \in DOMAIN objects |-> Decoded(n)]
<1>1. objects \in Seq(Object)
  BY CorrelateAssumption
<1>2. /\ TryFrom(m) = ProcessBatch(objects)
      /\ \A n \in DOMAIN objects : ProbeAsResponse(objects[n]) \in Answers
  BY DEF TryFrom, ProcessBatch, ProcessProbe, Refused, Single, Answers
<1>3. ProcessBatch(objects) = [kind |-> "batch", items |-> decoded]
  BY <1>2, Zenon DEF ProcessBatch
<1> HIDE DEF decoded
<1>4. TryFrom(m).items = decoded
  BY <1>2, <1>3
<1>5. Len(objects) \in Nat /\ DOMAIN objects = 1 .. Len(objects)
  BY <1>1
<1>6. /\ DOMAIN decoded = 1 .. Len(objects)
      /\ \A n \in 1 .. Len(objects) : decoded[n] = Decoded(n)
  BY <1>5 DEF decoded
<1>7. Len(decoded) = Len(objects)
  <2>1. decoded \in Seq(BatchItem)
    BY <1>1, <1>4, BatchItems
  <2> QED
    BY <1>5, <1>6, <2>1
<1>8. ASSUME NEW n \in 1 .. Len(objects) PROVE Decoded(n).id <= MaxId
  <2>1. Decoded(n).id = Value(objects[n])
    BY DEF Item
  <2>2. objects[n].id <= MaxId /\ MaxId \in Nat
    BY <1>5, IdsFitAssumption
  <2> QED
    BY <2>1, <2>2 DEF Value
<1> HIDE DEF Decoded
<1> QED
  BY <1>4, <1>6, <1>7, <1>8

LEMMA InitIdsFit == Init => IdsFit
BY DEF Init, IdsFit

LEMMA StepIdsFit == MessageGiven /\ IdsFit /\ [Next]_vars => IdsFit'
<1> SUFFICES ASSUME MessageGiven, IdsFit, [Next]_vars PROVE IdsFit'
  OBVIOUS
<1>1. CASE UNCHANGED items
  BY <1>1 DEF IdsFit
<1>2. CASE DecodeBody
  <2>1. CASE TryFrom(message).kind = "batch" /\ items' = TryFrom(message).items
    <3>1. \A n \in 1 .. Len(TryFrom(message).items) : TryFrom(message).items[n].id <= MaxId
      BY <2>1, BatchIdsFit DEF MessageGiven
    <3>2. items' = TryFrom(message).items
      BY <2>1
    <3> QED
      BY <3>1, <3>2, Zenon DEF IdsFit
  <2> QED
    BY <1>1, <1>2, <2>1 DEF DecodeBody, End
<1>3. CASE CheckCount \/ Place \/ Unwrap \/ (Ended /\ UNCHANGED vars) \/ UNCHANGED vars
  BY <1>1, <1>3 DEF CheckCount, Place, Unwrap, End, vars
<1> QED
  BY <1>2, <1>3 DEF Next

(***************************************************************************)
(* handle_message of the WebSocket client, for every response and whatever *)
(* batches wait: the range it looks up is that of a batch whose every      *)
(* request the response answers once, if one waits, and the replies it     *)
(* hands over are in the order of the requests. So HandleArray of WsTasks  *)
(* may say it with Correlates and InRequestOrder.                          *)
(***************************************************************************)
THEOREM CorrelationByRange ==
  ASSUME NEW its \in Seq(BatchItem), NEW waiting \in SUBSET (Nat \X Nat)
  PROVE  /\ {k \in waiting : Correlates(its, k)} = waiting \cap RangeKeys(its)
         /\ \A k \in waiting \cap RangeKeys(its) : Placed(its, k) = InRequestOrder(its, k)
<1>1. \A k \in waiting : k \in RangeKeys(its) <=> Correlates(its, k)
  BY RangeCorrelates, CorrelatesIsRange
<1>2. \A k \in waiting \cap RangeKeys(its) : Placed(its, k) = InRequestOrder(its, k)
  BY PlacedInRequestOrder
<1> QED
  BY <1>1, <1>2

(***************************************************************************)
(* For every response, of any length, and every range: sorting the ids and *)
(* comparing neighbours finds the entry exactly when the response answers  *)
(* every request once (handle_message). WsTasks relies on it: it has the   *)
(* right-hand side in place of the algorithm.                              *)
(***************************************************************************)
THEOREM WindowsDecideAlways == Spec => []WindowsDecide
<1>1. LoopInv => WindowsDecide
  <2> SUFFICES ASSUME LoopInv PROVE WindowsDecide
    OBVIOUS
  <2>1. items \in Seq(BatchItem) /\ key \in Nat \X Nat
    BY DEF LoopInv, InputsType
  <2> QED
    BY <2>1, RangeCorrelates, CorrelatesIsRange DEF WindowsDecide
<1> QED
  BY <1>1, InitLoop, StepLoop, PTL DEF Spec

(***************************************************************************)
(* The placing loop of the WebSocket client leaves no slot empty, so its   *)
(* expect() does not panic, and the answers are in the order of the        *)
(* requests, whatever the order in which they came (handle_message).       *)
(***************************************************************************)
THEOREM WsPlacesAlways == Spec => []WsPlaces
<1>1. LoopInv => WsPlaces
  BY PlacedInRequestOrder DEF LoopInv, InputsType, WsPlaces
<1> QED
  BY <1>1, InitLoop, StepLoop, PTL DEF Spec

(***************************************************************************)
(* The sum of a neighbour leaves the u64 only when the response has the    *)
(* last id twice, however many ids there are (handle_message).             *)
(***************************************************************************)
THEOREM OverflowMeansRepetition == Spec => []OverflowNeedsRepetition
<1>1. LoopInv /\ IdsFit => OverflowNeedsRepetition
  BY OverflowRepeats DEF LoopInv, InputsType, IdsFit, OverflowNeedsRepetition
<1> QED
  BY <1>1, InitLoop, StepLoop, InitMessage, StepMessage, InitIdsFit, StepIdsFit, PTL DEF Spec

\* What both clients make of a response: the WebSocket client takes more, as
\* items without an id do not disturb it, and nothing differently.
ClientsAgree ==
  Ended =>
    /\ verdict = "placed" <=> key \in RangeKeys(items) /\ Numbered(items) = DOMAIN items
    /\ verdict = "placed" => slots = Placed(items, key)

NoItemsYet == verdict \in NoBatch \union {"decoding"} => items = <<>>

LEMMA InitItems == Init => NoItemsYet
BY DEF Init, NoItemsYet

LEMMA StepItems == NoItemsYet /\ [Next]_vars => NoItemsYet'
<1> SUFFICES ASSUME NoItemsYet, [Next]_vars PROVE NoItemsYet'
  OBVIOUS
<1>1. CASE DecodeBody
  BY <1>1 DEF DecodeBody, End, NoItemsYet, NoBatch
<1>2. CASE CheckCount \/ Place \/ Unwrap
  BY <1>2 DEF CheckCount, Place, Unwrap, End, NoItemsYet, NoBatch
<1>3. CASE (Ended /\ UNCHANGED vars) \/ UNCHANGED vars
  BY <1>3 DEF vars, NoItemsYet
<1> QED
  BY <1>1, <1>2, <1>3 DEF Next

(***************************************************************************)
(* Two algorithms, one verdict: the loop of correlate_batch_items, which   *)
(* checks item by item, and the sorting of handle_message accept the same  *)
(* responses, except that the loop refuses an item without an id, and put  *)
(* the same item into every slot.                                          *)
(***************************************************************************)
THEOREM LoopAgreesWithSorting == Spec => []ClientsAgree
<1>1. LoopInv /\ RightInv /\ NoItemsYet => ClientsAgree
  <2> SUFFICES ASSUME LoopInv, RightInv, NoItemsYet, Ended
               PROVE  /\ verdict = "placed" <=> /\ key \in RangeKeys(items)
                                               /\ Numbered(items) = DOMAIN items
                      /\ verdict = "placed" => slots = Placed(items, key)
    BY DEF ClientsAgree
  <2>1. items \in Seq(BatchItem) /\ key \in Nat \X Nat
    BY DEF LoopInv, InputsType
  <2>2. Accepts(items, key) <=> key \in RangeKeys(items) /\ Numbered(items) = DOMAIN items
    BY <2>1, RangeCorrelates, CorrelatesIsRange DEF Accepts
  <2>3. CASE verdict \in NoBatch
    <3>1. Ids(items) = {}
      BY <2>3 DEF NoItemsYet, Ids, Numbered
    <3>2. ~Correlates(items, key)
      BY <2>1, <3>1 DEF Correlates
    <3> QED
      BY <2>2, <2>3, <3>2 DEF NoBatch, Accepts
  <2>4. CASE verdict \in {"wrong count", "no id", "outside the range", "duplicate"}
    BY <2>2, <2>4, RefusedIsNotAccepted
  <2>5. CASE verdict = "placed"
    <3>1. Accepts(items, key) /\ slots = InRequestOrder(items, key)
      BY <2>5, PlacedIsAccepted
    <3> QED
      BY <2>1, <2>2, <2>5, <3>1, PlacedInRequestOrder
  <2> QED
    BY <2>3, <2>4, <2>5 DEF Ended, LoopInv, InputsType, Verdicts, NeverPanics, NoBatch
<1> QED
  BY <1>1, InitLoop, StepLoop, InitRight, StepRight, InitItems, StepItems, PTL DEF Spec
=============================================================================
