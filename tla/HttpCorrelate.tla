---------------------------- MODULE HttpCorrelate ----------------------------
(***************************************************************************)
(* What the HTTP client (jsonrpc_http_client) does with the body of the    *)
(* response to a batch: it decodes it, and correlate_batch_items places    *)
(* each item into the slot of its request, stopping at the first item that *)
(* does not belong there. After the loop every slot is unwrapped with      *)
(* expect(), which panics on an empty one.                                 *)
(***************************************************************************)
EXTENDS BatchCorrelation, Decode, ErrorCodes, FiniteSets

CONSTANTS
  Messages,  \* the bodies a batch may be answered with
  Keys       \* the ranges <<first, last>> of ids a batch may have

Object ==
  [version : {"2.0", "other"}, id : Nat \union {ForeignId, NullId, AbsentId},
   method : Texts, result : {"absent", "null", "value"}, error : Texts,
   answer : Int]

ASSUME CorrelateAssumption ==
  /\ \A message \in Messages :
       /\ message.shape \in {"object", "array", "text"}
       /\ message.objects \in Seq(Object)
       /\ message.shape = "object" => Len(message.objects) = 1
  /\ Keys \subseteq {key \in Nat \X Nat : key[1] <= key[2]}

VARIABLES
  message,   \* the body
  items,     \* the items of the batch response it turns out to be
  key,       \* the range of ids that was sent
  next,      \* the position of the item the loop is at
  slots,     \* the slots that are Some
  verdict    \* how far it is, or how it ended

vars == <<message, items, key, next, slots, verdict>>

ExpectedLen == key[2] - key[1] + 1

Init ==
  /\ message \in Messages
  /\ key \in Keys
  /\ items = <<>>
  /\ next = 1
  /\ slots = <<>>
  /\ verdict = "decoding"

End(result) == verdict' = result /\ UNCHANGED <<message, items, key, next, slots>>

\* JsonRpcIncoming::try_from; anything but a batch response is an error.
DecodeBody ==
  LET incoming == TryFrom(message)
  IN  /\ verdict = "decoding"
      /\ \/ /\ incoming.kind = "batch"
            /\ items' = incoming.items
            /\ verdict' = "counting"
            /\ UNCHANGED <<message, key, next, slots>>
         \/ incoming.kind \in Answers \union {"notification"} /\ End("no batch")
         \/ incoming.kind \in {"invalid message", "serde error"} /\ End(incoming.kind)

\* Fault: accepts a response that is too short.
CheckCountAtMost ==
  /\ verdict = "counting"
  /\ End(IF Len(items) <= ExpectedLen THEN "placing" ELSE "wrong count")

CheckCount ==
  /\ verdict = "counting"
  /\ End(IF Len(items) = ExpectedLen THEN "placing" ELSE "wrong count")

\* Fault: pushes the items in the order in which they arrive.
FillNext(n, item) == slots' = Append(slots, item)

\* Some(item) for slot n; slots are numbered from 1.
Fill(n, item) ==
  slots' = [m \in DOMAIN slots \union {n} |-> IF m = n THEN item ELSE slots[m]]

\* Fault: takes the range for a half-open one.
InHalfOpenRange(id) == id \in key[1] .. key[2] - 1

InRange(id) == id \in key[1] .. key[2]

\* One turn of the loop.
Place ==
  LET item == items[next]
      slot == item.id - key[1] + 1
  IN  /\ verdict = "placing"
      /\ next <= Len(items)
      /\ \/ item.id < 0 /\ End("no id")
         \/ item.id >= 0 /\ ~InRange(item.id) /\ End("outside the range")
         \/ item.id >= 0 /\ InRange(item.id) /\ slot \in DOMAIN slots /\ End("duplicate")
         \/ /\ item.id >= 0
            /\ InRange(item.id)
            /\ slot \notin DOMAIN slots
            /\ Fill(slot, item)
            /\ next' = next + 1
            /\ UNCHANGED <<message, items, key, verdict>>

\* After the loop: expect() on every slot.
Unwrap ==
  /\ verdict = "placing"
  /\ next > Len(items)
  /\ End(IF 1 .. ExpectedLen \subseteq DOMAIN slots THEN "placed" ELSE "panic")

Ended == verdict \notin {"decoding", "counting", "placing"}

Next ==
  \/ DecodeBody
  \/ CheckCount
  \/ Place
  \/ Unwrap
  \/ Ended /\ UNCHANGED vars

Spec == Init /\ [][Next]_vars

-----------------------------------------------------------------------------

(***************************************************************************)
(* expect("batch response slot unexpectedly empty") does not panic: after  *)
(* the count, the range and the duplicates have been checked item by item, *)
(* no slot can be left empty.                                              *)
(***************************************************************************)
NeverPanics == verdict # "panic"

(***************************************************************************)
(* The loop accepts exactly the responses that answer every request once,  *)
(* whatever their order. The WebSocket client accepts those as well (see   *)
(* Accepts), so the two clients disagree only on items without an id.      *)
(***************************************************************************)
AcceptsExactly ==
  Ended => (verdict = "placed" <=> /\ TryFrom(message).kind = "batch"
                                   /\ Accepts(TryFrom(message).items, key))

(***************************************************************************)
(* What is accepted, and nothing else, is placed where the WebSocket client*)
(* would place it.                                                         *)
(***************************************************************************)
PlacedInOrder ==
  verdict = "placed" => Accepts(items, key) /\ slots = InRequestOrder(items, key)

-----------------------------------------------------------------------------

\* A JSON-RPC 2.0 object whose strings are strings.
WellFormed(object) ==
  object.version = "2.0" /\ object.method # "ill-formed" /\ object.error # "ill-formed"

Escaped(object) == "escaped" \in {object.method, object.error}

\* What an object with the given members is in JSON-RPC 2.0. An error may have
\* an id that names no request of this client; everything else is "nothing".
Role(object) ==
  LET result == object.result # "absent"
      error  == Given(object.error)
      method == Given(object.method)
  IN  CASE result /\ ~error /\ ~method /\ object.id >= 0 -> "response"
        [] error /\ ~result /\ ~method -> "error"
        [] method /\ ~result /\ ~error /\ object.id = AbsentId -> "notification"
        [] method /\ ~result /\ ~error /\ object.id # AbsentId -> "call"
        [] OTHER -> "nothing"

(***************************************************************************)
(* A single object is taken for what it is: a result of null is a result,  *)
(* an error whose id is no id of ours names no request, and a call by the  *)
(* peer is not taken for a notification, not even with an id of null.      *)
(* Strings without escapes are assumed (process_probe).                    *)
(***************************************************************************)
TakenForWhatItIs ==
  LET object   == message.objects[1]
      incoming == TryFrom(message)
  IN  message.shape = "object" /\ WellFormed(object) /\ ~Escaped(object) =>
        /\ Role(object) \in Answers => incoming = Single(Role(object), object)
        /\ incoming.kind = "notification" <=> Role(object) = "notification"

(***************************************************************************)
(* An array is a batch response exactly when each of its objects alone     *)
(* would be an answer, and it has those answers in their order: an object  *)
(* that is none fails the whole array (process_batch, process_probe).      *)
(***************************************************************************)
BatchMeansItsItems ==
  LET Alone(n) == TryFrom([shape |-> "object", objects |-> <<message.objects[n]>>])
      batch    == TryFrom(message)
  IN  message.shape = "array" =>
        /\ batch.kind = "batch"
             <=> \A n \in DOMAIN message.objects : Alone(n).kind \in Answers
        /\ batch.kind = "batch" =>
             batch.items = [n \in DOMAIN message.objects |-> Alone(n).items[1]]

(***************************************************************************)
(* The caller gets the error code the peer sent, whichever range it is in: *)
(* a predefined one, a reserved one, or one of the application             *)
(* (JsonRpcErrorCode's documentation: "round-trips without loss").         *)
(***************************************************************************)
CodesRoundTrip ==
  \A n \in DOMAIN message.objects :
    LET code == message.objects[n].answer
    IN  Given(message.objects[n].error) => IntoCode(FromCode(code)) = code

\* A batch response that answers every request of the batch once, in objects
\* that are each a valid result or error.
CompleteResponse ==
  /\ message.shape = "array"
  /\ Accepts(message.objects, key)
  /\ \A n \in DOMAIN message.objects :
       /\ WellFormed(message.objects[n])
       /\ Role(message.objects[n]) \in Answers

(***************************************************************************)
(* The documentation of Error::SerdeError: a message failed to deserialize *)
(* "as valid JSON". So a batch response that is valid and complete is not  *)
(* refused with it, whatever the texts of its errors are (try_from).       *)
(***************************************************************************)
SerdeErrorMeansMalformed == CompleteResponse => verdict # "serde error"
=============================================================================
