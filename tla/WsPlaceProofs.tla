---------------------------- MODULE WsPlaceProofs ----------------------------
(***************************************************************************)
(* Where the sender of a call is, and that a sweep of disconnect_task      *)
(* misses none, for any number of calls, connections and events: the       *)
(* proofs of SenderInOnePlace, EntriesInFlight and NoneStranded (WsClient).*)
(*                                                                         *)
(* A sender moves from the table to the hand of a task to the mailbox, and *)
(* three parties may move it; the first invariant says where it is not.    *)
(* The second says what is still going to reach a stranded entry: an event *)
(* in the channel, or the sweep that is under way.                         *)
(***************************************************************************)
EXTENDS WsRpcProofs

InAnyHand(c) == InHand("incoming", c) \/ InHand("disconnect", c)

NotYetRegistered(c) == pc[c] \in {"idle", "reserved", "sendOnly"}

Waiting(c) == pc[c] \in {"registered", "sendFailed", "awaiting"}

PlaceRight(c) ==
  /\ NotYetRegistered(c) => ~InTable(c) /\ ~InAnyHand(c)
  /\ pc[c] = "done" => ~InTable(c)
  /\ InAnyHand(c) => ~InTable(c)
  /\ ~(InHand("incoming", c) /\ InHand("disconnect", c))
  /\ mailbox[c] # {} => Waiting(c) /\ ~InTable(c) /\ ~InAnyHand(c)
  /\ Waiting(c) => InTable(c) \/ InAnyHand(c) \/ mailbox[c] # {}

PlacesRight == \A c \in Calls : PlaceRight(c)

\* Only calls that have ids are ever registered.
Exchange(c) ==
  pc[c] \in {"reserved", "registered", "sendFailed", "awaiting", "timedOut"} => Size(c) > 0

ExchangesHaveIds == \A c \in Calls : Exchange(c)

\* A task holds one sender at a time.
HandsSingle == \A t \in Tasks : \A a, b \in hand[t] : a = b

PlaceInv == AnswerInv /\ ExchangesHaveIds /\ HandsSingle /\ PlacesRight

LEMMA PlaceInvInit == Init => PlaceInv
<1> SUFFICES ASSUME Init PROVE PlaceInv
  OBVIOUS
<1>1. ASSUME NEW c \in Calls
      PROVE  /\ pc[c] = "idle" /\ mailbox[c] = {}
             /\ ~InTable(c) /\ ~InHand("incoming", c) /\ ~InHand("disconnect", c)
  BY DEF Init, InTable, InHand, Tasks
<1>2. ExchangesHaveIds /\ HandsSingle
  BY <1>1 DEF ExchangesHaveIds, Exchange, HandsSingle, Init
<1>3. PlacesRight
  BY <1>1 DEF PlacesRight, PlaceRight, NotYetRegistered, Waiting, InAnyHand
<1> QED
  BY <1>2, <1>3, AnswerInvInit DEF PlaceInv

-----------------------------------------------------------------------------
(* Tables: under the key of a call there is nobody else's sender *)

LEMMA KeyIsOwn ==
  ASSUME AnswerInv, NEW c \in Calls, Started(c), Size(c) > 0
  PROVE  /\ first[c] \in DOMAIN pendingRequests => pendingRequests[first[c]] = c
         /\ RangeOf(c) \in DOMAIN pendingBatchRequests => pendingBatchRequests[RangeOf(c)] = c
<1>1. ASSUME NEW d \in Calls, HasIds(d), first[d] = first[c] PROVE d = c
  <2> SUFFICES ASSUME d # c PROVE FALSE
    OBVIOUS
  <2>1. Apart(c, d)
    BY <1>1 DEF AnswerInv, IdsApart, HasIds
  <2>2. /\ first[c] \in Nat /\ Size(c) \in Nat /\ Size(d) \in Nat
        /\ Size(d) > 0
    BY <1>1, SizeFacts DEF AnswerInv, TypeOK, CallsType, HasIds
  <2> QED
    BY <1>1, <2>1, <2>2 DEF Apart
<1>2. ASSUME first[c] \in DOMAIN pendingRequests
      PROVE  pendingRequests[first[c]] = c
  <2> DEFINE d == pendingRequests[first[c]]
  <2>1. d \in Requests /\ d \in Calls /\ Started(d) /\ first[d] = first[c]
    BY <1>2 DEF AnswerInv, KeysOwn, TypeOK, TablesType, Calls
  <2>2. HasIds(d)
    BY <2>1, SizeFacts DEF HasIds
  <2> QED
    BY <1>1, <2>1, <2>2
<1>3. ASSUME RangeOf(c) \in DOMAIN pendingBatchRequests
      PROVE  pendingBatchRequests[RangeOf(c)] = c
  <2> DEFINE d == pendingBatchRequests[RangeOf(c)]
  <2>1. d \in Calls /\ Started(d) /\ RangeOf(d) = RangeOf(c)
    BY <1>3 DEF AnswerInv, KeysOwn, TypeOK, TablesType, Calls
  <2>2. first[d] = first[c] /\ first[d] + Size(d) - 1 = first[c] + Size(c) - 1
    BY <2>1 DEF RangeOf, IdOf
  <2>3. first[c] \in Nat /\ Size(c) \in Nat /\ Size(d) \in Nat
    BY <2>1, SizeFacts DEF AnswerInv, TypeOK, CallsType
  <2>4. HasIds(d)
    BY <2>1, <2>2, <2>3 DEF HasIds
  <2> QED
    BY <1>1, <2>1, <2>2, <2>4
<1> QED
  BY <1>2, <1>3

LEMMA TableSides ==
  ASSUME AnswerInv, NEW c \in Calls
  PROVE  /\ c \in Requests =>
              (InTable(c) <=> first[c] \in DOMAIN pendingRequests
                                /\ pendingRequests[first[c]] = c)
         /\ c \in Batches =>
              (InTable(c) <=> RangeOf(c) \in DOMAIN pendingBatchRequests
                                /\ pendingBatchRequests[RangeOf(c)] = c)
         /\ InTable(c) => c \in Requests \/ c \in Batches
BY CallsAssumption DEF InTable, AnswerInv, KeysOwn, TypeOK, TablesType

\* Removing what is under an entry's own key takes that call out of the
\* tables, and no other.
LEMMA RequestRemoved ==
  ASSUME AnswerInv, NEW id \in DOMAIN pendingRequests, NEW c, c = pendingRequests[id],
         pendingRequests' = Without(pendingRequests, id), UNCHANGED pendingBatchRequests
  PROVE  /\ c \in Calls /\ InTable(c) /\ ~InTable(c)'
         /\ \A d \in Calls \ {c} : InTable(d)' <=> InTable(d)
<1>1. c \in Requests /\ id = first[c]
  BY DEF AnswerInv, KeysOwn, TypeOK, TablesType
<1>2. \A other \in DOMAIN pendingRequests \ {id} : pendingRequests[other] # c
  BY <1>1 DEF AnswerInv, KeysOwn
<1>3. \A other \in DOMAIN pendingBatchRequests : pendingBatchRequests[other] # c
  BY <1>1, CallsAssumption DEF AnswerInv, TypeOK, TablesType
<1>4. /\ DOMAIN pendingRequests' = DOMAIN pendingRequests \ {id}
      /\ \A other \in DOMAIN pendingRequests \ {id} : pendingRequests'[other] = pendingRequests[other]
  BY DEF Without, Restrict
<1>5. InTable(c) /\ ~InTable(c)'
  BY <1>2, <1>3, <1>4 DEF InTable
<1>6. ASSUME NEW d \in Calls \ {c} PROVE InTable(d)' <=> InTable(d)
  BY <1>4, <1>6 DEF InTable
<1> QED
  BY <1>1, <1>5, <1>6 DEF Calls

LEMMA BatchRemoved ==
  ASSUME AnswerInv, NEW key \in DOMAIN pendingBatchRequests, NEW c, c = pendingBatchRequests[key],
         pendingBatchRequests' = Without(pendingBatchRequests, key), UNCHANGED pendingRequests
  PROVE  /\ c \in Calls /\ InTable(c) /\ ~InTable(c)'
         /\ \A d \in Calls \ {c} : InTable(d)' <=> InTable(d)
<1>1. c \in Batches /\ key = RangeOf(c)
  BY DEF AnswerInv, KeysOwn, TypeOK, TablesType
<1>2. \A other \in DOMAIN pendingBatchRequests \ {key} : pendingBatchRequests[other] # c
  BY <1>1 DEF AnswerInv, KeysOwn
<1>3. \A other \in DOMAIN pendingRequests : pendingRequests[other] # c
  BY <1>1, CallsAssumption DEF AnswerInv, TypeOK, TablesType
<1>4. /\ DOMAIN pendingBatchRequests' = DOMAIN pendingBatchRequests \ {key}
      /\ \A other \in DOMAIN pendingBatchRequests \ {key} : pendingBatchRequests'[other] = pendingBatchRequests[other]
  BY DEF Without, Restrict
<1>5. InTable(c) /\ ~InTable(c)'
  BY <1>2, <1>3, <1>4 DEF InTable
<1>6. ASSUME NEW d \in Calls \ {c} PROVE InTable(d)' <=> InTable(d)
  BY <1>4, <1>6 DEF InTable
<1> QED
  BY <1>1, <1>5, <1>6 DEF Calls

\* A call that cleans up leaves nothing behind, whoever came first.
LEMMA EntryRemoved ==
  ASSUME AnswerInv, NEW c \in Calls, Started(c), Size(c) > 0, RemoveEntry(c)
  PROVE  ~InTable(c)' /\ \A d \in Calls \ {c} : InTable(d)' <=> InTable(d)
<1>1. CASE /\ c \in Requests
           /\ pendingRequests' = Without(pendingRequests, first[c])
           /\ UNCHANGED pendingBatchRequests
  <2>1. CASE first[c] \in DOMAIN pendingRequests
    BY <1>1, <2>1, KeyIsOwn, RequestRemoved
  <2>2. CASE first[c] \notin DOMAIN pendingRequests
    <3>1. ~InTable(c)
      BY <1>1, <2>2, TableSides
    <3>2. /\ DOMAIN pendingRequests' = DOMAIN pendingRequests
          /\ \A id \in DOMAIN pendingRequests : pendingRequests'[id] = pendingRequests[id]
      BY <1>1, <2>2 DEF Without, Restrict
    <3> QED
      BY <1>1, <3>1, <3>2 DEF InTable
  <2> QED
    BY <2>1, <2>2
<1>2. CASE /\ c \in Batches
           /\ pendingBatchRequests' = Without(pendingBatchRequests, RangeOf(c))
           /\ UNCHANGED pendingRequests
  <2>1. CASE RangeOf(c) \in DOMAIN pendingBatchRequests
    BY <1>2, <2>1, KeyIsOwn, BatchRemoved
  <2>2. CASE RangeOf(c) \notin DOMAIN pendingBatchRequests
    <3>1. ~InTable(c)
      BY <1>2, <2>2, TableSides
    <3>2. /\ DOMAIN pendingBatchRequests' = DOMAIN pendingBatchRequests
          /\ \A key \in DOMAIN pendingBatchRequests :
               pendingBatchRequests'[key] = pendingBatchRequests[key]
      BY <1>2, <2>2 DEF Without, Restrict
    <3> QED
      BY <1>2, <3>1, <3>2 DEF InTable
  <2> QED
    BY <2>1, <2>2
<1> QED
  BY <1>1, <1>2 DEF RemoveEntry

LEMMA EntryInserted ==
  ASSUME AnswerInv, NEW c \in Calls, Size(c) > 0, Register(c)
  PROVE  InTable(c)' /\ \A d \in Calls \ {c} : InTable(d)' <=> InTable(d)
<1>1. Started(c)
  BY DEF Register, Started
<1>2. CASE c \in Requests /\ pendingRequests' = With(pendingRequests, first[c], c)
           /\ UNCHANGED pendingBatchRequests
  <2>1. /\ DOMAIN pendingRequests' = DOMAIN pendingRequests \union {first[c]}
        /\ pendingRequests'[first[c]] = c
        /\ \A id \in DOMAIN pendingRequests : pendingRequests'[id] = pendingRequests[id]
    BY <1>1, <1>2, KeyIsOwn DEF With
  <2> QED
    BY <1>2, <2>1 DEF InTable
<1>3. CASE c \in Batches
           /\ pendingBatchRequests' = With(pendingBatchRequests, RangeOf(c), c)
           /\ UNCHANGED pendingRequests
  <2>1. /\ DOMAIN pendingBatchRequests' = DOMAIN pendingBatchRequests \union {RangeOf(c)}
        /\ pendingBatchRequests'[RangeOf(c)] = c
        /\ \A key \in DOMAIN pendingBatchRequests :
             pendingBatchRequests'[key] = pendingBatchRequests[key]
    BY <1>1, <1>3, KeyIsOwn DEF With
  <2> QED
    BY <1>3, <2>1 DEF InTable
<1> QED
  BY <1>2, <1>3 DEF Register

-----------------------------------------------------------------------------
(* Calls *)

\* Another call moves.
LEMMA SameForOthers ==
  ASSUME PlaceInv, NEW c \in Calls, Call(c)
  PROVE  /\ UNCHANGED hand
         /\ \A d \in Calls \ {c} :
              pc'[d] = pc[d] /\ mailbox'[d] = mailbox[d] /\ (InTable(d)' <=> InTable(d))
<1> USE DEF PlaceInv
<1>1. TypeOK /\ Exchange(c)
  BY DEF AnswerInv, ExchangesHaveIds
<1>2. UNCHANGED hand
  BY DEF Call, StartRequest, StartBatch, StartNotify, Register, SendOk, SendErr,
    CleanupSendError, Receive, TimerFires, CleanupTimeout, Cancel, taskVars
<1>3. \A d \in Calls \ {c} : pc'[d] = pc[d]
  BY <1>1, CallSteps DEF TypeOK, CallsType
<1>4. UNCHANGED mailbox \/ mailbox' = [mailbox EXCEPT ![c] = {}]
  BY DEF Call, StartRequest, StartBatch, StartNotify, Register, SendOk,
    SendErr, CleanupSendError, Receive, TimerFires, CleanupTimeout, Cancel,
    Continue, Return, DropReceiver
<1>5. \A d \in Calls \ {c} : mailbox'[d] = mailbox[d]
  BY <1>1, <1>4 DEF TypeOK, CallsType
<1>6. CASE UNCHANGED tableVars
  BY <1>2, <1>3, <1>5, <1>6 DEF tableVars, InTable
<1>7. CASE Register(c)
  <2>1. Size(c) > 0
    BY <1>1, <1>7 DEF Exchange, Register
  <2> QED
    BY <1>2, <1>3, <1>5, <1>7, <2>1, EntryInserted
<1>8. CASE RemoveEntry(c) /\ pc[c] \in {"sendFailed", "timedOut"}
  <2>1. Size(c) > 0 /\ Started(c)
    BY <1>1, <1>8 DEF Exchange, Started
  <2> QED
    BY <1>2, <1>3, <1>5, <1>8, <2>1, EntryRemoved
<1>9. \/ UNCHANGED tableVars \/ Register(c)
      \/ RemoveEntry(c) /\ pc[c] \in {"sendFailed", "timedOut"}
  BY DEF Call, StartRequest, StartBatch, StartNotify, SendOk, SendErr,
    CleanupSendError, Receive, TimerFires, CleanupTimeout, Cancel
<1> QED
  BY <1>6, <1>7, <1>8, <1>9

LEMMA Ends ==
  ASSUME TypeOK, NEW c \in Calls, NEW result, Return(c, result)
  PROVE  pc'[c] = "done" /\ mailbox'[c] = {}
BY DEF Return, Advance, DropReceiver, TypeOK, CallsType

LEMMA GoesOn ==
  ASSUME TypeOK, NEW c \in Calls, NEW label, Continue(c, label)
  PROVE  pc'[c] = label /\ mailbox'[c] = mailbox[c]
BY DEF Continue, Advance, TypeOK, CallsType

LEMMA OwnCallStep ==
  ASSUME PlaceInv, NEW c \in Calls, Call(c)
  PROVE  PlaceRight(c)' /\ Exchange(c)'
<1> USE DEF PlaceInv
<1>1. /\ TypeOK /\ Exchange(c) /\ PlaceRight(c)
      /\ UNCHANGED hand
  BY SameForOthers DEF AnswerInv, ExchangesHaveIds, PlacesRight
<1>2. InAnyHand(c)' <=> InAnyHand(c)
  BY <1>1 DEF InAnyHand, InHand
<1>3. ~(InHand("incoming", c) /\ InHand("disconnect", c))'
  BY <1>1 DEF InHand, PlaceRight
<1>4. Size(c) \in Nat /\ Size(c)' = Size(c)
  BY SizeFacts DEF Size
<1>5. (InTable(c)' <=> InTable(c)) \/ ~UNCHANGED tableVars
  BY DEF InTable, tableVars
<1>6. ASSUME NEW result, Return(c, result), ~InTable(c)'
      PROVE  PlaceRight(c)' /\ Exchange(c)'
  <2>1. pc'[c] = "done" /\ mailbox'[c] = {}
    BY <1>1, <1>6, Ends
  <2>2. Exchange(c)'
    BY <2>1 DEF Exchange
  <2>3. ~Waiting(c)' /\ ~NotYetRegistered(c)'
    BY <2>1 DEF Waiting, NotYetRegistered
  <2> QED
    BY <1>2, <1>3, <1>6, <2>1, <2>2, <2>3 DEF PlaceRight
<1>7. CASE StartRequest(c) \/ StartBatch(c) \/ StartNotify(c)
  <2>1. pc[c] = "idle" /\ UNCHANGED tableVars
    BY <1>7 DEF StartRequest, StartBatch, StartNotify
  <2>2. ~InTable(c)' /\ ~InAnyHand(c)' /\ mailbox[c] = {}
    BY <1>1, <1>2, <1>5, <2>1 DEF PlaceRight, NotYetRegistered, Waiting
  <2>3. ASSUME NEW label \in {"reserved", "sendOnly"}, Continue(c, label),
               label = "reserved" => Size(c) > 0
        PROVE  PlaceRight(c)' /\ Exchange(c)'
    <3>1. pc'[c] = label /\ mailbox'[c] = {}
      BY <1>1, <2>2, <2>3, GoesOn
    <3>2. ~Waiting(c)' /\ pc'[c] # "done"
      BY <3>1 DEF Waiting
    <3>3. Exchange(c)'
      BY <1>4, <2>3, <3>1 DEF Exchange
    <3> QED
      BY <1>3, <2>2, <3>1, <3>2, <3>3 DEF PlaceRight
  <2>4. Continue(c, "sendOnly") => PlaceRight(c)' /\ Exchange(c)'
    BY <2>3
  <2>5. Continue(c, "reserved") /\ Size(c) > 0 => PlaceRight(c)' /\ Exchange(c)'
    BY <2>3
  <2>6. CASE StartRequest(c)
    BY <1>6, <2>2, <2>5, <2>6, SizeFacts DEF StartRequest
  <2>7. CASE StartBatch(c)
    BY <1>6, <2>2, <2>4, <2>5, <2>7, SizeFacts DEF StartBatch
  <2>8. CASE StartNotify(c)
    BY <1>6, <2>2, <2>4, <2>8 DEF StartNotify
  <2> QED
    BY <1>7, <2>6, <2>7, <2>8
<1>8. CASE Register(c)
  <2>1. pc[c] = "reserved" /\ pc'[c] = "registered" /\ mailbox'[c] = mailbox[c]
    BY <1>1, <1>8, GoesOn DEF Register
  <2>2. Size(c) > 0 /\ InTable(c)'
    BY <1>1, <1>8, <2>1, EntryInserted DEF Exchange
  <2>3. ~InAnyHand(c)' /\ mailbox'[c] = {}
    BY <1>1, <1>2, <2>1 DEF PlaceRight, NotYetRegistered, Waiting
  <2>4. Exchange(c)' /\ ~NotYetRegistered(c)' /\ pc'[c] # "done"
    BY <1>4, <2>1, <2>2 DEF Exchange, NotYetRegistered
  <2> QED
    BY <1>3, <2>2, <2>3, <2>4 DEF PlaceRight
<1>9. ASSUME pc[c] \in {"registered", "awaiting"}, UNCHANGED tableVars,
             NEW label \in {"awaiting", "sendFailed", "timedOut"}, Continue(c, label),
             label = "timedOut" => mailbox[c] = {}
      PROVE  PlaceRight(c)' /\ Exchange(c)'
  <2>1. pc'[c] = label /\ mailbox'[c] = mailbox[c]
    BY <1>1, <1>9, GoesOn
  <2>2. InTable(c)' <=> InTable(c)
    BY <1>5, <1>9
  <2>3. Waiting(c) /\ (label # "timedOut" => Waiting(c)') /\ (label = "timedOut" => ~Waiting(c)')
    BY <1>9, <2>1 DEF Waiting
  <2>4. Exchange(c)' /\ ~NotYetRegistered(c)' /\ pc'[c] # "done"
    BY <1>1, <1>4, <1>9, <2>1 DEF Exchange, NotYetRegistered
  <2> QED
    BY <1>1, <1>2, <1>3, <1>9, <2>1, <2>2, <2>3, <2>4 DEF PlaceRight
<1>10. CASE SendOk(c) \/ SendErr(c)
  <2>1. UNCHANGED tableVars
    BY <1>10 DEF SendOk, SendErr
  <2>2. CASE pc[c] = "registered"
    BY <1>9, <1>10, <2>1, <2>2 DEF SendOk, SendErr
  <2>3. CASE pc[c] = "sendOnly"
    <3>1. ~InTable(c)'
      BY <1>1, <1>5, <2>1, <2>3 DEF PlaceRight, NotYetRegistered
    <3> QED
      BY <1>6, <1>10, <2>3, <3>1 DEF SendOk, SendErr
  <2> QED
    BY <1>10, <2>2, <2>3 DEF SendOk, SendErr
<1>11. CASE CleanupSendError(c) \/ CleanupTimeout(c)
  <2>1. RemoveEntry(c) /\ pc[c] \in {"sendFailed", "timedOut"}
    BY <1>11 DEF CleanupSendError, CleanupTimeout
  <2>2. Size(c) > 0 /\ Started(c)
    BY <1>1, <2>1 DEF Exchange, Started
  <2>3. ~InTable(c)'
    BY <2>1, <2>2, EntryRemoved
  <2> QED
    BY <1>6, <1>11, <2>3 DEF CleanupSendError, CleanupTimeout
<1>12. CASE Receive(c)
  <2>1. PICK value \in mailbox[c] : Return(c, value)
    BY <1>12 DEF Receive
  <2>2. ~InTable(c)'
    BY <1>1, <1>5, <1>12, <2>1 DEF PlaceRight, Receive
  <2> QED
    BY <1>6, <2>1, <2>2
<1>13. CASE TimerFires(c)
  BY <1>9, <1>13 DEF TimerFires
<1>14. CASE Cancel(c)
  <2>1. pc'[c] = "cancelled" /\ mailbox'[c] = {} /\ UNCHANGED tableVars
    BY <1>1, <1>14 DEF Cancel, Advance, DropReceiver, TypeOK, CallsType
  <2>2. ~Waiting(c)' /\ ~NotYetRegistered(c)' /\ Exchange(c)'
    BY <2>1 DEF Waiting, NotYetRegistered, Exchange
  <2> QED
    BY <1>1, <1>2, <1>3, <1>5, <2>1, <2>2 DEF PlaceRight
<1> QED
  BY <1>7, <1>8, <1>10, <1>11, <1>12, <1>13, <1>14 DEF Call

LEMMA CallPlaces ==
  ASSUME PlaceInv, NEW c \in Calls, Call(c)
  PROVE  ExchangesHaveIds' /\ HandsSingle' /\ PlacesRight'
<1> USE DEF PlaceInv
<1>1. UNCHANGED hand
  BY SameForOthers
<1>2. HandsSingle'
  BY <1>1 DEF HandsSingle
<1>3. ASSUME NEW d \in Calls, d # c PROVE PlaceRight(d)' /\ Exchange(d)'
  <2>1. /\ pc'[d] = pc[d] /\ mailbox'[d] = mailbox[d] /\ (InTable(d)' <=> InTable(d))
        /\ PlaceRight(d) /\ Exchange(d)
    BY <1>3, SameForOthers DEF PlacesRight, ExchangesHaveIds
  <2>2. /\ InHand("incoming", d)' <=> InHand("incoming", d)
        /\ InHand("disconnect", d)' <=> InHand("disconnect", d)
    BY <1>1 DEF InHand
  <2>3. Exchange(d)'
    BY <2>1 DEF Exchange, Size
  <2> QED
    BY <2>1, <2>2, <2>3 DEF PlaceRight, InAnyHand, NotYetRegistered, Waiting
<1>4. \A d \in Calls : PlaceRight(d)' /\ Exchange(d)'
  BY <1>3, OwnCallStep
<1> QED
  BY <1>2, <1>4 DEF PlacesRight, ExchangesHaveIds

-----------------------------------------------------------------------------
(* Tasks *)

\* A task takes the sender of c out of its table.
TakenOut(t, c) ==
  /\ hand[t] = {}
  /\ \E letter : letter.to = c /\ hand' = [hand EXCEPT ![t] = {letter}]
  /\ InTable(c) /\ ~InTable(c)'
  /\ \A d \in Calls \ {c} : InTable(d)' <=> InTable(d)

LEMMA Letters ==
  ASSUME NEW t, NEW c, NEW value, TakeFor(t, c, value)
  PROVE  \E letter : letter.to = c /\ hand' = [hand EXCEPT ![t] = {letter}]
<1> DEFINE letter == [to |-> c, value |-> value]
<1>1. letter.to = c /\ hand' = [hand EXCEPT ![t] = {letter}]
  BY DEF TakeFor
<1> QED
  BY <1>1

LEMMA RequestTaken ==
  ASSUME AnswerInv, NEW t, hand[t] = {}, NEW id \in DOMAIN pendingRequests, NEW value,
         TakeFor(t, pendingRequests[id], value),
         pendingRequests' = Without(pendingRequests, id), UNCHANGED pendingBatchRequests
  PROVE  \E c \in Calls : TakenOut(t, c)
<1>1. PICK c : c = pendingRequests[id]
  OBVIOUS
<1>2. c \in Calls /\ InTable(c) /\ ~InTable(c)'
      /\ \A d \in Calls \ {c} : InTable(d)' <=> InTable(d)
  BY <1>1, RequestRemoved
<1> QED
  BY <1>1, <1>2, Letters DEF TakenOut

LEMMA BatchTaken ==
  ASSUME AnswerInv, NEW t, hand[t] = {}, NEW key \in DOMAIN pendingBatchRequests, NEW value,
         TakeFor(t, pendingBatchRequests[key], value),
         pendingBatchRequests' = Without(pendingBatchRequests, key), UNCHANGED pendingRequests
  PROVE  \E c \in Calls : TakenOut(t, c)
<1>1. PICK c : c = pendingBatchRequests[key]
  OBVIOUS
<1>2. c \in Calls /\ InTable(c) /\ ~InTable(c)'
      /\ \A d \in Calls \ {c} : InTable(d)' <=> InTable(d)
  BY <1>1, BatchRemoved
<1> QED
  BY <1>1, <1>2, Letters DEF TakenOut

Quiet == UNCHANGED <<hand, mailbox, tableVars>>

Takes == UNCHANGED mailbox /\ \E t \in Tasks, c \in Calls : TakenOut(t, c)

LEMMA IncomingTakes ==
  ASSUME AnswerInv, IncomingRecv
  PROVE  Takes \/ Quiet
<1> DEFINE frame == Head(messages.queue)
<1>1. UNCHANGED mailbox /\ hand["incoming"] = {}
  BY DEF IncomingRecv
<1>2. CASE HandleSingle(frame.items) /\ UNCHANGED pendingBatchRequests
  <2>1. PICK id : id = frame.items[1].id
    OBVIOUS
  <2>2. CASE id \in DOMAIN pendingRequests
    <3>1. /\ TakeFor("incoming", pendingRequests[id], Reply(frame.items))
          /\ pendingRequests' = Without(pendingRequests, id)
      BY <1>2, <2>1, <2>2 DEF HandleSingle
    <3> QED
      BY <1>1, <1>2, <2>2, <3>1, RequestTaken DEF Takes, Tasks
  <2>3. CASE id \notin DOMAIN pendingRequests
    BY <1>1, <1>2, <2>1, <2>3 DEF HandleSingle, Quiet, tableVars
  <2> QED
    BY <2>2, <2>3
<1>3. CASE HandleArray(frame.items) /\ UNCHANGED pendingRequests
  <2>1. ASSUME NEW key \in DOMAIN pendingBatchRequests,
               TakeFor("incoming", pendingBatchRequests[key],
                       Reply(InRequestOrder(frame.items, key))),
               pendingBatchRequests' = Without(pendingBatchRequests, key)
        PROVE  Takes
    BY <1>1, <1>3, <2>1, BatchTaken DEF Takes, Tasks
  <2>2. CASE UNCHANGED <<hand, pendingBatchRequests>>
    BY <1>1, <1>3, <2>2 DEF Quiet, tableVars
  <2> QED
    BY <1>3, <2>1, <2>2 DEF HandleArray
<1>4. CASE UNCHANGED <<hand, tableVars>>
  BY <1>1, <1>4 DEF Quiet
<1> QED
  BY <1>2, <1>3, <1>4 DEF IncomingRecv

LEMMA SweepTakes ==
  ASSUME AnswerInv, NEW key, FailRequest(key) \/ FailBatch(key)
  PROVE  Takes \/ Quiet
<1>1. UNCHANGED mailbox /\ hand["disconnect"] = {}
  BY DEF FailRequest, FailBatch
<1>2. CASE FailRequest(key) /\ key \in DOMAIN pendingRequests
  <2>1. /\ TakeFor("disconnect", pendingRequests[key], ConnectionLost)
        /\ pendingRequests' = Without(pendingRequests, key)
        /\ UNCHANGED pendingBatchRequests
    BY <1>2 DEF FailRequest
  <2> QED
    BY <1>1, <1>2, <2>1, RequestTaken DEF Takes, Tasks
<1>3. CASE FailBatch(key) /\ key \in DOMAIN pendingBatchRequests
  <2>1. /\ TakeFor("disconnect", pendingBatchRequests[key], ConnectionLost)
        /\ pendingBatchRequests' = Without(pendingBatchRequests, key)
        /\ UNCHANGED pendingRequests
    BY <1>3 DEF FailBatch
  <2> QED
    BY <1>1, <1>3, <2>1, BatchTaken DEF Takes, Tasks
<1>4. CASE FailRequest(key) /\ key \notin DOMAIN pendingRequests
  BY <1>1, <1>4 DEF FailRequest, Quiet, tableVars
<1>5. CASE FailBatch(key) /\ key \notin DOMAIN pendingBatchRequests
  BY <1>1, <1>5 DEF FailBatch, Quiet, tableVars
<1> QED
  BY <1>2, <1>3, <1>4, <1>5

LEMMA QuietPlaces ==
  ASSUME PlaceInv, Quiet, UNCHANGED pc
  PROVE  ExchangesHaveIds' /\ HandsSingle' /\ PlacesRight'
<1> USE DEF PlaceInv
<1>1. ExchangesHaveIds' /\ HandsSingle'
  BY DEF Quiet, ExchangesHaveIds, Exchange, HandsSingle, Size
<1>2. PlacesRight'
  BY DEF Quiet, tableVars, PlacesRight, PlaceRight, InAnyHand, InHand, InTable,
    NotYetRegistered, Waiting
<1> QED
  BY <1>1, <1>2

LEMMA TakePlaces ==
  ASSUME PlaceInv, Takes, UNCHANGED pc
  PROVE  ExchangesHaveIds' /\ HandsSingle' /\ PlacesRight'
<1> USE DEF PlaceInv
<1>1. PICK t \in Tasks, c \in Calls : TakenOut(t, c)
  BY DEF Takes
<1>2. PICK letter : letter.to = c /\ hand' = [hand EXCEPT ![t] = {letter}]
  BY <1>1 DEF TakenOut
<1>3. DOMAIN hand = Tasks /\ hand[t] = {} /\ UNCHANGED mailbox
  BY <1>1 DEF TakenOut, Takes, AnswerInv, TypeOK, TasksType
<1>4. hand'[t] = {letter} /\ \A u \in Tasks \ {t} : hand'[u] = hand[u]
  BY <1>2, <1>3
<1>5. ExchangesHaveIds' /\ HandsSingle'
  BY <1>4 DEF ExchangesHaveIds, Exchange, HandsSingle, Size
<1>6. PlaceRight(c)'
  <2>1. PlaceRight(c) /\ InTable(c) /\ ~InTable(c)'
    BY <1>1 DEF PlacesRight, TakenOut
  <2>2. ~InAnyHand(c) /\ mailbox[c] = {} /\ ~NotYetRegistered(c)
    BY <2>1 DEF PlaceRight
  <2>3. InHand(t, c)' /\ \A u \in Tasks \ {t} : ~InHand(u, c)'
    BY <1>2, <1>4, <2>2 DEF InHand, InAnyHand, Tasks
  <2>4. InAnyHand(c)' /\ ~(InHand("incoming", c) /\ InHand("disconnect", c))'
    BY <2>3 DEF InAnyHand, Tasks
  <2>5. mailbox'[c] = {} /\ ~NotYetRegistered(c)'
    BY <1>3, <2>2 DEF NotYetRegistered
  <2> QED
    BY <2>1, <2>4, <2>5 DEF PlaceRight
<1>7. ASSUME NEW d \in Calls, d # c PROVE PlaceRight(d)'
  <2>1. PlaceRight(d) /\ (InTable(d)' <=> InTable(d)) /\ mailbox'[d] = mailbox[d]
    BY <1>1, <1>3, <1>7 DEF PlacesRight, TakenOut
  <2>2. \A u \in Tasks : InHand(u, d)' <=> InHand(u, d)
    BY <1>2, <1>3, <1>4, <1>7 DEF InHand
  <2>3. /\ InHand("incoming", d)' <=> InHand("incoming", d)
        /\ InHand("disconnect", d)' <=> InHand("disconnect", d)
    BY <2>2 DEF Tasks
  <2> QED
    BY <2>1, <2>3 DEF PlaceRight, InAnyHand, NotYetRegistered, Waiting
<1> QED
  BY <1>5, <1>6, <1>7 DEF PlacesRight

LEMMA DeliverPlaces ==
  ASSUME PlaceInv, NEW t \in Tasks, Deliver(t)
  PROVE  ExchangesHaveIds' /\ HandsSingle' /\ PlacesRight'
<1> USE DEF PlaceInv
<1>1. PICK letter \in hand[t] :
        mailbox' = IF letter.to \in Listening
                     THEN [mailbox EXCEPT ![letter.to] = {letter.value}]
                     ELSE mailbox
  BY DEF Deliver
<1>2. letter.to \in Calls /\ DOMAIN hand = Tasks /\ DOMAIN mailbox = Calls
  BY DEF AnswerInv, TypeOK, TasksType, CallsType, Letter
<1>3. hand'[t] = {} /\ \A u \in Tasks \ {t} : hand'[u] = hand[u]
  BY <1>2 DEF Deliver
<1>4. UNCHANGED <<pc, tableVars>>
  BY DEF Deliver, callVars
<1>5. ExchangesHaveIds' /\ HandsSingle'
  BY <1>3, <1>4 DEF ExchangesHaveIds, Exchange, HandsSingle, Size
<1>6. \A d \in Calls : /\ InTable(d)' <=> InTable(d)
                       /\ Waiting(d)' <=> Waiting(d)
                       /\ NotYetRegistered(d)' <=> NotYetRegistered(d)
  BY <1>4 DEF InTable, tableVars, Waiting, NotYetRegistered
<1>7. PICK c \in Calls : c = letter.to
  BY <1>2
<1>8. InHand(t, c) /\ ~InHand(t, c)'
  BY <1>1, <1>3, <1>7 DEF InHand
<1>9. PlaceRight(c)'
  <2>1. PlaceRight(c) /\ ~InTable(c) /\ InAnyHand(c)
    BY <1>8 DEF PlacesRight, PlaceRight, InAnyHand, Tasks
  <2>2. \A u \in Tasks : ~InHand(u, c)'
    BY <1>3, <1>8, <2>1 DEF InHand, PlaceRight, Tasks
  <2>3. ~InAnyHand(c)' /\ ~(InHand("incoming", c) /\ InHand("disconnect", c))'
    BY <2>2 DEF InAnyHand, Tasks
  <2>4. CASE Waiting(c)
    <3>1. c \in Listening
      BY <2>4 DEF Waiting, Listening
    <3>2. mailbox'[c] # {}
      BY <1>1, <1>2, <1>7, <3>1
    <3> QED
      BY <1>4, <1>6, <2>1, <2>3, <2>4, <3>2 DEF PlaceRight
  <2>5. CASE ~Waiting(c)
    <3>1. mailbox'[c] = {}
      BY <1>1, <1>7, <2>1, <2>5 DEF PlaceRight, Waiting, Listening
    <3> QED
      BY <1>4, <1>6, <2>1, <2>3, <2>5, <3>1 DEF PlaceRight
  <2> QED
    BY <2>4, <2>5
<1>10. ASSUME NEW d \in Calls, d # c PROVE PlaceRight(d)'
  <2>1. PlaceRight(d) /\ mailbox'[d] = mailbox[d]
    BY <1>1, <1>2, <1>7, <1>10 DEF PlacesRight
  <2>2. ~InHand(t, d)
    BY <1>1, <1>7, <1>10 DEF InHand, HandsSingle
  <2>3. \A u \in Tasks : InHand(u, d)' <=> InHand(u, d)
    BY <1>3, <2>2 DEF InHand
  <2>4. /\ InHand("incoming", d)' <=> InHand("incoming", d)
        /\ InHand("disconnect", d)' <=> InHand("disconnect", d)
    BY <2>3 DEF Tasks
  <2> QED
    BY <1>4, <1>6, <2>1, <2>4 DEF PlaceRight, InAnyHand
<1> QED
  BY <1>5, <1>9, <1>10 DEF PlacesRight

-----------------------------------------------------------------------------
(* The invariant and what follows from it *)

LEMMA PlaceInvNext == PlaceInv /\ [Next]_vars => PlaceInv'
<1> SUFFICES ASSUME PlaceInv, [Next]_vars
             PROVE  ExchangesHaveIds' /\ HandsSingle' /\ PlacesRight'
  BY AnswerInvNext DEF PlaceInv
<1>1. AnswerInv
  BY DEF PlaceInv
<1>2. CASE \E c \in Calls : Call(c)
  BY <1>2, CallPlaces
<1>3. CASE \E t \in Tasks : Deliver(t)
  BY <1>3, DeliverPlaces
<1>4. CASE (Takes \/ Quiet) /\ UNCHANGED pc
  BY <1>4, TakePlaces, QuietPlaces
<1>5. CASE IncomingRecv \/ \E key \in sweep.keys : FailRequest(key) \/ FailBatch(key)
  <2>1. UNCHANGED pc
    BY <1>5 DEF IncomingRecv, FailRequest, FailBatch, callVars
  <2> QED
    BY <1>1, <1>4, <1>5, <2>1, IncomingTakes, SweepTakes
<1>6. CASE \/ IncomingSubscribe \/ IncomingLagged
           \/ DisconnectSubscribe \/ DisconnectLagged \/ DisconnectRecv
           \/ RequestsListed \/ RequestsFailed \/ BatchesListed \/ BatchesFailed
  BY <1>4, <1>6 DEF IncomingSubscribe, IncomingLagged, DisconnectSubscribe,
    DisconnectLagged, DisconnectRecv, RequestsListed, RequestsFailed, BatchesListed,
    BatchesFailed, callVars, taskVars, Quiet
<1>7. CASE Transport \/ UNCHANGED vars
  BY <1>4, <1>7 DEF Transport, Connect, Disconnect, Transmit, PeerAnswers,
    PeerAnswersArray, PeerSendsOther, vars, callVars, taskVars, Quiet
<1> QED
  BY <1>2, <1>3, <1>5, <1>6, <1>7 DEF Next, Idle, IncomingTask, DisconnectTask, Tasks

LEMMA PlaceInvHolds == Spec => []PlaceInv
BY PlaceInvInit, PlaceInvNext, PTL DEF Spec

(***************************************************************************)
(* While a caller waits, its sender is in exactly one place, whatever the  *)
(* two dispatch tasks and the other callers do: it is never dropped unused *)
(* and never used twice.                                                   *)
(***************************************************************************)
THEOREM SendersInOnePlace == Spec => []SenderInOnePlace
<1>1. PlaceInv => SenderInOnePlace
  <2> SUFFICES ASSUME PlaceInv, NEW c \in Calls, pc[c] = "awaiting"
               PROVE  LET places == << InTable(c), InHand("incoming", c),
                                       InHand("disconnect", c), mailbox[c] # {} >>
                      IN  \E i \in DOMAIN places :
                            places[i] /\ \A j \in DOMAIN places \ {i} : ~places[j]
    BY DEF SenderInOnePlace
  <2> DEFINE places == << InTable(c), InHand("incoming", c), InHand("disconnect", c),
                          mailbox[c] # {} >>
  <2>1. PlaceRight(c) /\ Waiting(c)
    BY DEF PlaceInv, PlacesRight, Waiting
  <2>2. /\ InTable(c) \/ InHand("incoming", c) \/ InHand("disconnect", c) \/ mailbox[c] # {}
        /\ InTable(c) => ~InHand("incoming", c) /\ ~InHand("disconnect", c) /\ mailbox[c] = {}
        /\ InHand("incoming", c) => ~InHand("disconnect", c) /\ mailbox[c] = {}
        /\ InHand("disconnect", c) => mailbox[c] = {}
    BY <2>1 DEF PlaceRight, InAnyHand
  <2>3. DOMAIN places = 1 .. 4
    OBVIOUS
  <2>4. /\ places[1] = InTable(c) /\ places[2] = InHand("incoming", c)
        /\ places[3] = InHand("disconnect", c) /\ places[4] = (mailbox[c] # {})
    OBVIOUS
  <2> HIDE DEF places
  <2>5. \E i \in 1 .. 4 : places[i] /\ \A j \in 1 .. 4 \ {i} : ~places[j]
    <3>1. 1 .. 4 = {1, 2, 3, 4}
      OBVIOUS
    <3>2. CASE InTable(c)
      <4>1. places[1] /\ ~places[2] /\ ~places[3] /\ ~places[4]
        BY <2>2, <2>4, <3>2
      <4> QED
        BY <3>1, <4>1
    <3>3. CASE InHand("incoming", c)
      <4>1. places[2] /\ ~places[1] /\ ~places[3] /\ ~places[4]
        BY <2>2, <2>4, <3>3
      <4> QED
        BY <3>1, <4>1
    <3>4. CASE InHand("disconnect", c)
      <4>1. places[3] /\ ~places[1] /\ ~places[2] /\ ~places[4]
        BY <2>2, <2>4, <3>4
      <4> QED
        BY <3>1, <4>1
    <3>5. CASE mailbox[c] # {}
      <4>1. places[4] /\ ~places[1] /\ ~places[2] /\ ~places[3]
        BY <2>2, <2>4, <3>5
      <4> QED
        BY <3>1, <4>1
    <3> QED
      BY <2>2, <3>2, <3>3, <3>4, <3>5
  <2> QED
    BY <2>3, <2>5 DEF places
<1> QED
  BY <1>1, PlaceInvHolds, PTL

(***************************************************************************)
(* A call that returns, in whichever way, leaves no entry behind, and every*)
(* entry is under the key of its own call.                                 *)
(***************************************************************************)
THEOREM NoEntryLeftBehind == Spec => []EntriesInFlight
<1>1. PlaceInv => EntriesInFlight
  <2> SUFFICES ASSUME PlaceInv PROVE EntriesInFlight
    OBVIOUS
  <2>1. ASSUME NEW c \in Calls, InTable(c)
        PROVE  c \in InFlight \/ pc[c] = "cancelled"
    <3>1. PlaceRight(c) /\ pc[c] \in Labels
      BY DEF PlaceInv, PlacesRight, AnswerInv, TypeOK, CallsType
    <3>2. pc[c] \notin {"idle", "reserved", "sendOnly", "done"}
      BY <2>1, <3>1 DEF PlaceRight, NotYetRegistered
    <3> QED
      BY <3>1, <3>2 DEF Labels, InFlight
  <2>2. /\ \A id \in DOMAIN pendingRequests :
             /\ pendingRequests[id] \in Calls /\ InTable(pendingRequests[id])
             /\ id = first[pendingRequests[id]]
        /\ \A key \in DOMAIN pendingBatchRequests :
             /\ pendingBatchRequests[key] \in Calls /\ InTable(pendingBatchRequests[key])
             /\ key = RangeOf(pendingBatchRequests[key])
    BY DEF PlaceInv, AnswerInv, KeysOwn, TypeOK, TablesType, InTable, Calls
  <2> QED
    BY <2>1, <2>2 DEF EntriesInFlight
<1> QED
  BY <1>1, PlaceInvHolds, PTL

-----------------------------------------------------------------------------
(* The sweep of disconnect_task *)


RequestsPhases == {"list requests", "fail requests"}
BatchesPhases == {"list batches", "fail batches"}

Covered(c) ==
  \/ DisconnectPending
  \/ c \in Requests /\ sweep.phase \in RequestsPhases /\ first[c] \in sweep.keys
  \/ c \in Batches /\ sweep.phase \in RequestsPhases
  \/ c \in Batches /\ sweep.phase \in BatchesPhases /\ RangeOf(c) \in sweep.keys

StrandedCovered ==
  ~missedDisconnect => \A c \in Calls : Stranded(c) /\ InTable(c) => Covered(c)

LinkRight ==
  /\ \A c \in Calls : sentOn[c] <= connection
  /\ ~events.subscribed => events.queue = <<>>

SweepInv == PlaceInv /\ PhasesRight /\ LinkRight /\ StrandedCovered

-----------------------------------------------------------------------------
(* The channel of events *)

LEMMA PendingStays ==
  ASSUME TypeOK, NEW event, PublishEvent(event), ~missedDisconnect', DisconnectPending
  PROVE  DisconnectPending'
<1>1. events.queue \in Seq(Events) /\ EventCapacity \in Nat \ {0}
  BY ChannelAssumption DEF TypeOK, ReceiversType, Receiver
<1>2. PICK i \in DOMAIN events.queue : events.queue[i] = "Disconnected"
  BY DEF DisconnectPending
<1>3. CASE ~events.subscribed
  BY <1>3 DEF PublishEvent, Publish, DisconnectPending
<1>4. CASE events.subscribed /\ Overflows(events, EventCapacity)
  <2>1. events.queue # <<>> /\ i \in 1 .. Len(events.queue) /\ Len(events.queue) \in Nat
    BY <1>1, <1>2
  <2>2. Head(events.queue) # "Disconnected"
    BY <1>4 DEF PublishEvent
  <2>3. i # 1
    BY <1>1, <1>2, <2>1, <2>2
  <2>4. events'.queue = Append(Tail(events.queue), event)
    BY <1>4 DEF PublishEvent, Publish, TypeOK, ReceiversType, Receiver
  <2>5. i - 1 \in DOMAIN events'.queue /\ events'.queue[i - 1] = events.queue[i]
    BY <1>1, <2>1, <2>3, <2>4
  <2> QED
    BY <1>2, <2>5 DEF DisconnectPending
<1>5. CASE events.subscribed /\ ~Overflows(events, EventCapacity)
  <2>1. events'.queue = Append(events.queue, event)
    BY <1>5 DEF PublishEvent, Publish, TypeOK, ReceiversType, Receiver
  <2>2. i \in DOMAIN events'.queue /\ events'.queue[i] = events.queue[i]
    BY <1>1, <1>2, <2>1
  <2> QED
    BY <1>2, <2>2 DEF DisconnectPending
<1> QED
  BY <1>3, <1>4, <1>5

LEMMA LastPending ==
  ASSUME NEW q \in Seq(Events), events'.queue = Append(q, "Disconnected")
  PROVE  DisconnectPending'
<1>1. Len(q) + 1 \in DOMAIN events'.queue /\ events'.queue[Len(q) + 1] = "Disconnected"
  OBVIOUS
<1> QED
  BY <1>1 DEF DisconnectPending

LEMMA PendingPublished ==
  ASSUME TypeOK, PublishEvent("Disconnected"), ~missedDisconnect'
  PROVE  DisconnectPending'
<1>1. events.queue \in Seq(Events) /\ EventCapacity \in Nat \ {0}
  BY ChannelAssumption DEF TypeOK, ReceiversType, Receiver
<1>2. events.subscribed
  BY DEF PublishEvent
<1>3. CASE Overflows(events, EventCapacity)
  <2>1. events'.queue = Append(Tail(events.queue), "Disconnected")
    BY <1>2, <1>3 DEF PublishEvent, Publish, TypeOK, ReceiversType, Receiver
  <2>2. Tail(events.queue) \in Seq(Events)
    BY <1>1, <1>3 DEF Overflows
  <2> QED
    BY <2>1, <2>2, LastPending
<1>4. CASE ~Overflows(events, EventCapacity)
  <2>1. events'.queue = Append(events.queue, "Disconnected")
    BY <1>2, <1>4 DEF PublishEvent, Publish, TypeOK, ReceiversType, Receiver
  <2> QED
    BY <1>1, <2>1, LastPending
<1> QED
  BY <1>3, <1>4

LEMMA PendingConsumed ==
  ASSUME TypeOK, Ready(events), events' = Consume(events),
         Head(events.queue) # "Disconnected", DisconnectPending
  PROVE  DisconnectPending'
<1>1. events.queue \in Seq(Events) /\ events.queue # <<>>
  BY DEF TypeOK, ReceiversType, Receiver, Ready
<1>2. PICK i \in DOMAIN events.queue : events.queue[i] = "Disconnected"
  BY DEF DisconnectPending
<1>3. i \in 1 .. Len(events.queue) /\ i # 1 /\ Len(events.queue) \in Nat
  BY <1>1, <1>2
<1>4. events'.queue = Tail(events.queue)
  BY DEF Consume, TypeOK, ReceiversType, Receiver
<1>5. i - 1 \in DOMAIN events'.queue /\ events'.queue[i - 1] = events.queue[i]
  BY <1>1, <1>3, <1>4
<1> QED
  BY <1>2, <1>5 DEF DisconnectPending

-----------------------------------------------------------------------------

LEMMA InitSweep == Init => SweepInv
<1> SUFFICES ASSUME Init PROVE SweepInv
  OBVIOUS
<1>1. LinkRight
  BY DEF Init, LinkRight, Unsubscribed
<1>2. \A c \in Calls : ~Stranded(c)
  BY DEF Init, Stranded
<1> QED
  BY <1>1, <1>2, PlaceInvInit, InitPhases DEF SweepInv, StrandedCovered

LEMMA LinkNext == TypeOK /\ LinkRight /\ [Next]_vars => LinkRight'
<1> SUFFICES ASSUME TypeOK, LinkRight, [Next]_vars PROVE LinkRight'
  OBVIOUS
<1>1. connection \in Nat /\ sentOn \in [Calls -> Nat] /\ events \in Receiver(Events)
  BY DEF TypeOK, LinkType, ReceiversType
<1>2. CASE UNCHANGED <<sentOn, connection, events>>
  BY <1>2 DEF LinkRight
<1>3. ASSUME NEW event, PublishEvent(event)
      PROVE  ~events'.subscribed => events'.queue = <<>>
  BY <1>1, <1>3 DEF PublishEvent, Publish, LinkRight, Receiver
<1>4. CASE Connect
  BY <1>1, <1>3, <1>4 DEF Connect, LinkRight
<1>5. CASE Disconnect
  BY <1>3, <1>5 DEF Disconnect, LinkRight
<1>6. CASE \E c \in Calls : Transmit(c)
  BY <1>1, <1>6 DEF Transmit, LinkRight
<1>7. CASE DisconnectSubscribe \/ DisconnectLagged \/ DisconnectRecv
  <2>1. UNCHANGED <<sentOn, connection>>
    BY <1>7 DEF DisconnectSubscribe, DisconnectLagged, DisconnectRecv, linkVars
  <2>2. CASE DisconnectSubscribe
    BY <2>1, <2>2 DEF DisconnectSubscribe, Subscribed, LinkRight
  <2>3. CASE DisconnectLagged
    <3>1. events'.subscribed = events.subscribed /\ events'.queue = events.queue
      BY <1>1, <2>3 DEF DisconnectLagged, AcknowledgeLag, Receiver
    <3> QED
      BY <2>1, <3>1 DEF LinkRight
  <2>4. CASE DisconnectRecv
    <3>1. events'.subscribed
      BY <1>1, <2>4 DEF DisconnectRecv, Consume, Ready, Receiver
    <3> QED
      BY <2>1, <3>1 DEF LinkRight
  <2> QED
    BY <1>7, <2>2, <2>3, <2>4
<1>8. \/ UNCHANGED <<sentOn, connection, events>>
      \/ Connect \/ Disconnect \/ \E c \in Calls : Transmit(c)
      \/ DisconnectSubscribe \/ DisconnectLagged \/ DisconnectRecv
  BY DEF Next, Idle, Call, IncomingTask, DisconnectTask, Transport, vars, linkVars,
    StartRequest, StartBatch, StartNotify, Register, SendOk, SendErr,
    CleanupSendError, Receive, TimerFires, CleanupTimeout, Cancel, Deliver,
    IncomingSubscribe, IncomingLagged, IncomingRecv, RequestsListed, FailRequest,
    RequestsFailed, BatchesListed, FailBatch, BatchesFailed, PeerAnswers,
    PeerAnswersArray, PeerSendsOther
<1> QED
  BY <1>2, <1>4, <1>5, <1>6, <1>7, <1>8

-----------------------------------------------------------------------------
(* Every step leaves what is stranded covered *)

\* What covers an entry goes on to cover it while nothing is received or swept.
LEMMA StillCovered ==
  ASSUME NEW c \in Calls, Covered(c), first'[c] = first[c], UNCHANGED <<events, sweep>>
  PROVE  Covered(c)'
BY DEF Covered, DisconnectPending, RangeOf, IdOf, Size

LEMMA SameStranded ==
  ASSUME NEW c \in Calls, UNCHANGED <<sentOn, connected, connection>>
  PROVE  Stranded(c)' <=> Stranded(c)
BY DEF Stranded

LEMMA EntriesStarted ==
  ASSUME AnswerInv, [Next]_vars, NEW c \in Calls, InTable(c)
  PROVE  first'[c] = first[c] /\ RangeOf(c)' = RangeOf(c)
<1>1. Started(c)
  BY DEF InTable, AnswerInv, KeysOwn
<1>2. first'[c] = first[c]
  BY <1>1, StartedStays DEF AnswerInv
<1> QED
  BY <1>2 DEF RangeOf, IdOf, Size

LEMMA OnlyShrinks ==
  ASSUME TypeOK, IncomingTask \/ DisconnectTask \/ Transport \/ UNCHANGED vars,
         NEW c \in Calls, InTable(c)'
  PROVE  InTable(c)
BY TasksShrinkTables DEF InTable

LEMMA MissedForGood == [Next]_vars /\ ~missedDisconnect' => ~missedDisconnect
<1>1. \A event : PublishEvent(event) /\ ~missedDisconnect' => ~missedDisconnect
  BY DEF PublishEvent
<1>2. Connect \/ Disconnect => \E event : PublishEvent(event)
  BY DEF Connect, Disconnect
<1>3. [Next]_vars => Connect \/ Disconnect \/ UNCHANGED missedDisconnect
  BY DEF Next, Idle, Call, IncomingTask, DisconnectTask, Transport, vars, linkVars,
    StartRequest, StartBatch, StartNotify, Register, SendOk, SendErr,
    CleanupSendError, Receive, TimerFires, CleanupTimeout, Cancel, Deliver,
    IncomingSubscribe, IncomingLagged, IncomingRecv, DisconnectSubscribe,
    DisconnectLagged, DisconnectRecv, RequestsListed, FailRequest, RequestsFailed,
    BatchesListed, FailBatch, BatchesFailed, Transmit, PeerAnswers,
    PeerAnswersArray, PeerSendsOther
<1> QED
  BY <1>1, <1>2, <1>3

\* A call that has just been registered has sent nothing.
LEMMA CallCovers ==
  ASSUME SweepInv, ~missedDisconnect, NEW d \in Calls, Call(d),
         NEW c \in Calls, Stranded(c)', InTable(c)'
  PROVE  Covered(c)'
<1>1. PlaceInv /\ AnswerInv /\ TypeOK
  BY DEF SweepInv, PlaceInv, AnswerInv
<1>2. UNCHANGED <<sentOn, connected, connection, events, sweep>>
  BY DEF Call, StartRequest, StartBatch, StartNotify, Register, SendOk, SendErr,
    CleanupSendError, Receive, TimerFires, CleanupTimeout, Cancel, linkVars, taskVars
<1>3. Stranded(c)
  BY <1>2, SameStranded
<1>4. InTable(c)
  <2>1. CASE c # d
    BY <1>1, <2>1, SameForOthers
  <2>2. CASE c = d /\ UNCHANGED tableVars
    BY <2>2 DEF InTable, tableVars
  <2>3. CASE c = d /\ Register(c)
    BY <1>3, <2>3 DEF SweepInv, PhasesRight, PhaseRight, Register, Stranded
  <2>4. CASE c = d /\ (CleanupSendError(c) \/ CleanupTimeout(c))
    <3>1. RemoveEntry(c) /\ Started(c) /\ Size(c) > 0
      BY <1>1, <2>4 DEF CleanupSendError, CleanupTimeout, Started, PlaceInv,
        ExchangesHaveIds, Exchange
    <3> QED
      BY <1>1, <3>1, EntryRemoved
  <2> QED
    BY <2>1, <2>2, <2>3, <2>4 DEF Call, StartRequest, StartBatch, StartNotify, SendOk,
      SendErr, Receive, TimerFires, Cancel
<1>5. [Next]_vars
  BY DEF Next
<1>6. first'[c] = first[c]
  BY <1>1, <1>4, <1>5, EntriesStarted
<1> QED
  BY <1>2, <1>3, <1>4, <1>6, StillCovered DEF SweepInv, StrandedCovered

\* What the tasks and the transport do without the events and the sweep.
LEMMA ElsewhereCovers ==
  ASSUME SweepInv, ~missedDisconnect,
         IncomingTask \/ DisconnectTask \/ Transport \/ UNCHANGED vars,
         UNCHANGED <<sentOn, connected, connection, events, sweep>>,
         NEW c \in Calls, Stranded(c)', InTable(c)'
  PROVE  Covered(c)'
<1>1. AnswerInv /\ TypeOK /\ [Next]_vars
  BY DEF SweepInv, PlaceInv, AnswerInv, Next
<1>2. Stranded(c) /\ InTable(c)
  BY <1>1, SameStranded, OnlyShrinks
<1>3. first'[c] = first[c]
  BY <1>1, <1>2, EntriesStarted
<1> QED
  BY <1>2, <1>3, StillCovered DEF SweepInv, StrandedCovered

\* The connection takes a message: a call that is sending is not stranded.
LEMMA TransmitCovers ==
  ASSUME SweepInv, ~missedDisconnect, NEW d \in Calls, Transmit(d),
         NEW c \in Calls, Stranded(c)', InTable(c)'
  PROVE  Covered(c)'
<1>1. AnswerInv /\ TypeOK /\ [Next]_vars
  BY DEF SweepInv, PlaceInv, AnswerInv, Next, Transport
<1>2. UNCHANGED <<connected, connection, events, sweep>> /\ connected
  BY DEF Transmit, taskVars
<1>3. connection \in Nat /\ sentOn \in [Calls -> Nat] /\ sentOn' = [sentOn EXCEPT ![d] = connection]
  BY <1>1 DEF TypeOK, LinkType, Transmit
<1>4. c # d
  BY <1>2, <1>3 DEF Stranded
<1>5. Stranded(c) /\ InTable(c)
  BY <1>1, <1>2, <1>3, <1>4, OnlyShrinks DEF Stranded, Transport
<1>6. first'[c] = first[c]
  BY <1>1, <1>5, EntriesStarted
<1> QED
  BY <1>2, <1>5, <1>6, StillCovered DEF SweepInv, StrandedCovered

\* A new connection strands nobody who was not stranded before.
LEMMA ConnectCovers ==
  ASSUME SweepInv, ~missedDisconnect, ~missedDisconnect', Connect,
         NEW c \in Calls, Stranded(c)', InTable(c)'
  PROVE  Covered(c)'
<1>1. AnswerInv /\ TypeOK /\ [Next]_vars
  BY DEF SweepInv, PlaceInv, AnswerInv, Next, Transport
<1>2. Stranded(c) /\ InTable(c)
  BY <1>1, OnlyShrinks DEF Stranded, Connect, Transport
<1>3. Covered(c) /\ first'[c] = first[c] /\ RangeOf(c)' = RangeOf(c)
  BY <1>1, <1>2, EntriesStarted DEF SweepInv, StrandedCovered
<1>4. UNCHANGED sweep /\ PublishEvent("Connected")
  BY DEF Connect, taskVars
<1>5. DisconnectPending => DisconnectPending'
  BY <1>1, <1>4, PendingStays
<1> QED
  BY <1>3, <1>4, <1>5 DEF Covered

-----------------------------------------------------------------------------
(* The steps of disconnect_task *)

LEMMA ReceiverCovers ==
  ASSUME SweepInv, ~missedDisconnect, DisconnectSubscribe \/ DisconnectLagged,
         NEW c \in Calls, Stranded(c)', InTable(c)'
  PROVE  Covered(c)'
<1>1. AnswerInv /\ TypeOK /\ [Next]_vars /\ LinkRight
  BY DEF SweepInv, PlaceInv, AnswerInv, Next, DisconnectTask
<1>2. UNCHANGED <<sentOn, connected, connection, sweep>>
  BY DEF DisconnectSubscribe, DisconnectLagged, linkVars, taskVars
<1>3. Stranded(c) /\ InTable(c)
  BY <1>1, <1>2, SameStranded, OnlyShrinks DEF DisconnectTask
<1>4. Covered(c) /\ first'[c] = first[c] /\ RangeOf(c)' = RangeOf(c)
  BY <1>1, <1>3, EntriesStarted DEF SweepInv, StrandedCovered
<1>5. DisconnectPending => DisconnectPending'
  <2>1. CASE DisconnectSubscribe
    <3>1. events.queue = <<>>
      BY <1>1, <2>1 DEF DisconnectSubscribe, LinkRight
    <3> QED
      BY <3>1 DEF DisconnectPending
  <2>2. CASE DisconnectLagged
    <3>1. events'.queue = events.queue
      BY <1>1, <2>2 DEF DisconnectLagged, AcknowledgeLag, TypeOK, ReceiversType, Receiver
    <3> QED
      BY <3>1 DEF DisconnectPending
  <2> QED
    BY <2>1, <2>2
<1> QED
  BY <1>2, <1>4, <1>5 DEF Covered

\* A Disconnected event starts a sweep that finds every entry of the table.
LEMMA RecvCovers ==
  ASSUME SweepInv, ~missedDisconnect, DisconnectRecv,
         NEW c \in Calls, Stranded(c)', InTable(c)'
  PROVE  Covered(c)'
<1>1. AnswerInv /\ TypeOK /\ [Next]_vars
  BY DEF SweepInv, PlaceInv, AnswerInv, Next, DisconnectTask
<1>2. UNCHANGED <<sentOn, connected, connection>> /\ sweep.phase = "recv"
  BY DEF DisconnectRecv, linkVars
<1>3. Stranded(c) /\ InTable(c)
  BY <1>1, <1>2, SameStranded, OnlyShrinks DEF DisconnectTask
<1>4. first'[c] = first[c]
  BY <1>1, <1>3, EntriesStarted
<1>5. CASE Head(events.queue) = "Disconnected"
  <2>1. sweep'.phase = "list requests" /\ sweep'.keys = DOMAIN pendingRequests
    BY <1>5 DEF DisconnectRecv
  <2>2. (c \in Requests /\ first[c] \in DOMAIN pendingRequests) \/ c \in Batches
    BY <1>1, <1>3, TableSides
  <2> QED
    BY <1>4, <2>1, <2>2 DEF Covered, RequestsPhases
<1>6. CASE Head(events.queue) # "Disconnected"
  <2>1. DisconnectPending
    BY <1>2, <1>3 DEF SweepInv, StrandedCovered, Covered, RequestsPhases, BatchesPhases
  <2>2. Ready(events) /\ events' = Consume(events)
    BY DEF DisconnectRecv
  <2> QED
    BY <1>1, <1>6, <2>1, <2>2, PendingConsumed DEF Covered
<1> QED
  BY <1>5, <1>6

\* The sweep goes on to its next loop.
LEMMA LoopCovers ==
  ASSUME SweepInv, ~missedDisconnect,
         RequestsListed \/ RequestsFailed \/ BatchesListed \/ BatchesFailed,
         NEW c \in Calls, Stranded(c)', InTable(c)'
  PROVE  Covered(c)'
<1>1. AnswerInv /\ TypeOK /\ [Next]_vars
  BY DEF SweepInv, PlaceInv, AnswerInv, Next, DisconnectTask
<1>2. UNCHANGED <<sentOn, connected, connection, events>>
  BY DEF RequestsListed, RequestsFailed, BatchesListed, BatchesFailed, linkVars
<1>3. Stranded(c) /\ InTable(c)
  BY <1>1, <1>2, SameStranded, OnlyShrinks DEF DisconnectTask
<1>4. Covered(c) /\ first'[c] = first[c] /\ RangeOf(c)' = RangeOf(c)
  BY <1>1, <1>3, EntriesStarted DEF SweepInv, StrandedCovered
<1>5. DisconnectPending => Covered(c)'
  BY <1>2 DEF Covered, DisconnectPending
<1>6. CASE RequestsListed
  <2>1. PICK late : sweep' = [phase |-> "fail requests", keys |-> sweep.keys \union late]
    BY <1>6 DEF RequestsListed
  <2>2. sweep.phase = "list requests"
    BY <1>6 DEF RequestsListed
  <2>3. sweep'.phase = "fail requests" /\ sweep.keys \subseteq sweep'.keys
    BY <2>1
  <2> QED
    BY <1>4, <1>5, <2>2, <2>3 DEF Covered, RequestsPhases, BatchesPhases
<1>7. CASE RequestsFailed
  <2>1. /\ sweep.phase = "fail requests" /\ sweep'.phase = "list batches"
        /\ sweep.keys = {} /\ sweep'.keys = DOMAIN pendingBatchRequests
    BY <1>7 DEF RequestsFailed
  <2>2. c \in Batches => RangeOf(c) \in DOMAIN pendingBatchRequests
    BY <1>1, <1>3, TableSides
  <2> QED
    BY <1>4, <1>5, <2>1, <2>2 DEF Covered, RequestsPhases, BatchesPhases
<1>8. CASE BatchesListed
  <2>1. PICK late : sweep' = [phase |-> "fail batches", keys |-> sweep.keys \union late]
    BY <1>8 DEF BatchesListed
  <2>2. sweep.phase = "list batches"
    BY <1>8 DEF BatchesListed
  <2>3. sweep'.phase = "fail batches" /\ sweep.keys \subseteq sweep'.keys
    BY <2>1
  <2> QED
    BY <1>4, <1>5, <2>2, <2>3 DEF Covered, RequestsPhases, BatchesPhases
<1>9. CASE BatchesFailed
  <2>1. sweep.phase = "fail batches" /\ sweep.keys = {}
    BY <1>9 DEF BatchesFailed
  <2> QED
    BY <1>4, <1>5, <2>1 DEF Covered, RequestsPhases, BatchesPhases
<1> QED
  BY <1>6, <1>7, <1>8, <1>9

\* A key leaves the sweep when its entry has left the table.
LEMMA FailCovers ==
  ASSUME SweepInv, ~missedDisconnect, NEW key \in sweep.keys,
         FailRequest(key) \/ FailBatch(key),
         NEW c \in Calls, Stranded(c)', InTable(c)'
  PROVE  Covered(c)'
<1>1. AnswerInv /\ TypeOK /\ [Next]_vars
  BY DEF SweepInv, PlaceInv, AnswerInv, Next, DisconnectTask
<1>2. UNCHANGED <<sentOn, connected, connection, events>>
  BY DEF FailRequest, FailBatch, linkVars
<1>3. Stranded(c) /\ InTable(c)
  BY <1>1, <1>2, SameStranded, OnlyShrinks DEF DisconnectTask
<1>4. Covered(c) /\ first'[c] = first[c] /\ RangeOf(c)' = RangeOf(c)
  BY <1>1, <1>3, EntriesStarted DEF SweepInv, StrandedCovered
<1>5. DisconnectPending => Covered(c)'
  BY <1>2 DEF Covered, DisconnectPending
<1>6. DOMAIN sweep = {"phase", "keys"} /\ sweep' = [sweep EXCEPT !.keys = @ \ {key}]
  BY <1>1 DEF TypeOK, TasksType, FailRequest, FailBatch
<1>7. sweep'.phase = sweep.phase /\ sweep'.keys = sweep.keys \ {key}
  BY <1>6
<1>8. CASE FailRequest(key)
  <2>1. sweep.phase = "fail requests"
    BY <1>8 DEF FailRequest
  <2>2. c \in Requests => first[c] # key
    <3> SUFFICES ASSUME c \in Requests, first[c] = key PROVE FALSE
      OBVIOUS
    <3>1. key \in DOMAIN pendingRequests /\ pendingRequests[key] = c
      BY <1>1, <1>3, TableSides
    <3>2. pendingRequests' = Without(pendingRequests, key) /\ UNCHANGED pendingBatchRequests
      BY <1>8, <3>1 DEF FailRequest
    <3> QED
      BY <1>1, <3>1, <3>2, RequestRemoved
  <2> QED
    BY <1>4, <1>5, <1>7, <2>1, <2>2 DEF Covered, RequestsPhases, BatchesPhases
<1>9. CASE FailBatch(key)
  <2>1. sweep.phase = "fail batches"
    BY <1>9 DEF FailBatch
  <2>2. c \in Batches => RangeOf(c) # key
    <3> SUFFICES ASSUME c \in Batches, RangeOf(c) = key PROVE FALSE
      OBVIOUS
    <3>1. key \in DOMAIN pendingBatchRequests /\ pendingBatchRequests[key] = c
      BY <1>1, <1>3, TableSides
    <3>2. pendingBatchRequests' = Without(pendingBatchRequests, key) /\ UNCHANGED pendingRequests
      BY <1>9, <3>1 DEF FailBatch
    <3> QED
      BY <1>1, <3>1, <3>2, BatchRemoved
  <2> QED
    BY <1>4, <1>5, <1>7, <2>1, <2>2 DEF Covered, RequestsPhases, BatchesPhases
<1> QED
  BY <1>8, <1>9

-----------------------------------------------------------------------------
(* The invariant and what follows from it *)

LEMMA CoveredNext == SweepInv /\ [Next]_vars => StrandedCovered'
<1> SUFFICES ASSUME SweepInv, [Next]_vars, ~missedDisconnect',
                    NEW c \in Calls, Stranded(c)', InTable(c)'
             PROVE  Covered(c)'
  BY DEF StrandedCovered
<1>1. ~missedDisconnect /\ TypeOK
  BY MissedForGood DEF SweepInv, PlaceInv, AnswerInv
<1>2. CASE \E d \in Calls : Call(d)
  BY <1>1, <1>2, CallCovers
<1>3. CASE IncomingTask \/ Deliver("disconnect")
  <2>1. UNCHANGED <<sentOn, connected, connection, events, sweep>>
    BY <1>3 DEF IncomingTask, IncomingSubscribe, IncomingLagged, IncomingRecv, Deliver,
      linkVars, taskVars
  <2> QED
    BY <1>1, <1>3, <2>1, ElsewhereCovers DEF DisconnectTask
<1>4. CASE DisconnectSubscribe \/ DisconnectLagged
  BY <1>1, <1>4, ReceiverCovers
<1>5. CASE DisconnectRecv
  BY <1>1, <1>5, RecvCovers
<1>6. CASE RequestsListed \/ RequestsFailed \/ BatchesListed \/ BatchesFailed
  BY <1>1, <1>6, LoopCovers
<1>7. CASE \E key \in sweep.keys : FailRequest(key) \/ FailBatch(key)
  BY <1>1, <1>7, FailCovers
<1>8. CASE Connect
  BY <1>1, <1>8, ConnectCovers
<1>9. CASE Disconnect
  BY <1>1, <1>9, PendingPublished DEF Disconnect, Covered
<1>10. CASE \E d \in Calls : Transmit(d)
  BY <1>1, <1>10, TransmitCovers
<1>11. CASE PeerSendsOther \/ (\E d \in Calls : PeerAnswers(d) \/ PeerAnswersArray(d))
            \/ UNCHANGED vars
  <2>1. UNCHANGED <<sentOn, connected, connection, events, sweep>>
    BY <1>11 DEF PeerSendsOther, PeerAnswers, PeerAnswersArray, linkVars, taskVars, vars
  <2> QED
    BY <1>1, <1>11, <2>1, ElsewhereCovers DEF Transport
<1> QED
  BY <1>2, <1>3, <1>4, <1>5, <1>6, <1>7, <1>8, <1>9, <1>10, <1>11
     DEF Next, DisconnectTask, Transport, Idle

LEMMA SweepInvNext == SweepInv /\ [Next]_vars => SweepInv'
<1> SUFFICES ASSUME SweepInv, [Next]_vars PROVE SweepInv'
  OBVIOUS
<1>1. TypeOK
  BY DEF SweepInv, PlaceInv, AnswerInv
<1> QED
  BY <1>1, PlaceInvNext, PhasesNext, LinkNext, CoveredNext DEF SweepInv

LEMMA SweepInvSuffices == SweepInv => NoneStranded
BY DEF SweepInv, StrandedCovered, NoneStranded, Covered, RequestsPhases, BatchesPhases

(***************************************************************************)
(* When disconnect_task waits for its next event and no Disconnected is in *)
(* its channel, no call whose connection is gone is left in a table, for   *)
(* any number of calls, connections and events, unless an event has been   *)
(* missed (disconnect_task and fail_pending_requests).                     *)
(***************************************************************************)
THEOREM NobodyStranded == Spec => []NoneStranded
<1> QED
  BY InitSweep, SweepInvNext, SweepInvSuffices, PTL DEF Spec
=============================================================================
