------------------------------- MODULE Decode -------------------------------
(***************************************************************************)
(* The decoder of incoming messages (jsonrpc_core, decode.rs), on which    *)
(* both clients depend to tell a response, an error and a notification     *)
(* apart: JsonRpcIncoming::try_from and decode_single_response.            *)
(*                                                                         *)
(* An object on the wire is a record of its members:                       *)
(*   version   "2.0" or "other" (a missing one included)                   *)
(*   id        a natural number (a u64), or one of the three below         *)
(*   method    a Text                                                      *)
(*   result    "absent", "null" or "value"                                 *)
(*   error     a Text: the error object, named after its message           *)
(*   answer    what the object says, opaque to the decoder                 *)
(* A message is an object, an array of objects, or some other text.        *)
(***************************************************************************)
EXTENDS Integers, Sequences

ForeignId == -1   \* a string, a negative number, a fraction, ...
NullId == -2
AbsentId == -3

\* A string, where one is expected: "plain" is written as it is, "escaped"
\* has an escape sequence in it, "ill-formed" is no string at all.
Texts == {"absent", "null", "plain", "escaped", "ill-formed"}

-----------------------------------------------------------------------------
(* struct Probe *)

\* Option<&str> is Some.
Given(text) == text \notin {"absent", "null"}

\* &str borrows from the message, so a string that has to be unescaped is
\* refused by serde_json like something that is no string.
Borrows(text) == text \notin {"escaped", "ill-formed"}

\* JsonRpcVersion::deserialize
OurVersion(object) == object.version = "2.0"

\* serde_json::from_slice::<Probe> succeeds.
Deserializes(object) ==
  /\ OurVersion(object)
  /\ Borrows(object.method)
  /\ Borrows(object.error)

\* Fault: forgets that null is a result (Option's shortcut).
HasResultUnlessNull(object) == object.result = "value"

\* deserialize_present_raw: null is a result.
HasResult(object) == object.result # "absent"

\* Fault: takes an id that is null for one that is missing.
IsPresentUnlessNull(object) == object.id \notin {AbsentId, NullId}

\* ProbeId::is_present
IsPresent(object) == object.id # AbsentId

\* ProbeId::value. An item without an id has a negative one.
Value(object) == IF object.id >= 0 THEN object.id ELSE -1

-----------------------------------------------------------------------------
(* Classification *)

Item(kind, object) == [kind |-> kind, id |-> Value(object), answer |-> object.answer]

Single(kind, object) == [kind |-> kind, items |-> <<Item(kind, object)>>]
Refused(kind) == [kind |-> kind, items |-> <<>>]

\* probe_as_response; "neither" is None.
ProbeAsResponse(object) ==
  IF Given(object.error) THEN "error"
  ELSE IF ~HasResult(object) THEN "neither"
  ELSE IF object.id >= 0 THEN "response"
  ELSE "invalid message"

Answers == {"response", "error"}

ProcessProbe(object) ==
  LET kind == ProbeAsResponse(object)
  IN  IF kind \in Answers THEN Single(kind, object)
      ELSE IF kind = "neither" /\ Given(object.method) /\ ~IsPresent(object)
        THEN Single("notification", object)
      ELSE Refused("invalid message")

\* Fault: leaves the items out that are not answers.
ProcessBatchLenient(objects) ==
  LET answering == SelectSeq(objects, LAMBDA o : ProbeAsResponse(o) \in Answers)
  IN  [kind  |-> "batch",
       items |-> [n \in DOMAIN answering |->
                    Item(ProbeAsResponse(answering[n]), answering[n])]]

\* One item that is no answer fails the whole batch.
ProcessBatch(objects) ==
  IF \A n \in DOMAIN objects : ProbeAsResponse(objects[n]) \in Answers
    THEN [kind  |-> "batch",
          items |-> [n \in DOMAIN objects |-> Item(ProbeAsResponse(objects[n]), objects[n])]]
    ELSE Refused("invalid message")

\* JsonRpcIncoming::try_from.
TryFrom(message) ==
  IF message.shape = "text" \/ \E n \in DOMAIN message.objects : ~Deserializes(message.objects[n])
    THEN Refused("serde error")
  ELSE IF message.shape = "array" THEN ProcessBatch(message.objects)
  ELSE ProcessProbe(message.objects[1])

-----------------------------------------------------------------------------
(* decode_single_response *)

\* Fault: takes any response for the one that was asked for.
SingleAnswersAny(incoming, id) == incoming.kind \in Answers

\* It answers the request with this id, by a result or by an error. The id of
\* an error is compared if there is one.
SingleAnswers(incoming, id) ==
  \/ incoming.kind = "response" /\ incoming.items[1].id = id
  \/ incoming.kind = "error" /\ incoming.items[1].id \in {id, -1}
=============================================================================
