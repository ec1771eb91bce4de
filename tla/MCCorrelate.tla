----------------------------- MODULE MCCorrelate -----------------------------
(* Every batch of up to four answers with ids 0 .. 4 or none, for batches   *)
(* of one to four requests, correlated by both clients; and every object    *)
(* with any combination of members, alone, in an array, and in an array     *)
(* before or after an answer. And the complete responses to a batch of two  *)
(* whose errors may have escaped texts.                                     *)
EXTENDS Correlate

Result(id, n) ==
  [version |-> "2.0", id |-> id, method |-> "absent", result |-> "value",
   error |-> "absent", answer |-> n]

Error(id, code) ==
  [version |-> "2.0", id |-> id, method |-> "absent", result |-> "absent",
   error |-> "plain", answer |-> code]

ArrayOf(objects) == [shape |-> "array", objects |-> objects]
ObjectOf(object) == [shape |-> "object", objects |-> <<object>>]

Batches ==
  UNION {{[i \in 1 .. n |-> IF ids[i] < 0 THEN Error(NullId, i) ELSE Result(ids[i], i)]
          : ids \in [1 .. n -> -1 .. 4]}
         : n \in 0 .. 4}

AnyObject ==
  [version : {"2.0", "other"}, id : {1, ForeignId, NullId, AbsentId},
   method : Texts, result : {"absent", "null", "value"}, error : Texts,
   answer : {1}]

Codes ==
  {-32768, -32701, -32700, -32604, -32603, -32602, -32601, -32600, -32599,
   -32100, -32099, -32000, -31999, -1, 0, 7}

MCMessages ==
  {ArrayOf(objects) : objects \in Batches}
    \union {ObjectOf(object) : object \in AnyObject}
    \union UNION {{ArrayOf(<<object>>), ArrayOf(<<object, Result(2, 2)>>),
                   ArrayOf(<<Error(2, 2), object>>)} : object \in AnyObject}
    \union {ObjectOf(Error(1, code)) : code \in Codes}
    \union {[shape |-> "text", objects |-> <<>>]}

\* Both requests of a batch with ids 1 and 2 are answered, in either order; the
\* message of an error may have an escape sequence in it.
MCCompleteResponses ==
  LET Replies(id) == {Result(id, id), Error(id, id), [Error(id, id) EXCEPT !.error = "escaped"]}
  IN  UNION {{ArrayOf(<<reply, other>>), ArrayOf(<<other, reply>>)}
             : reply \in Replies(1), other \in Replies(2)}

MCEscapedKeys == {<<1, 2>>}

MCKeys == {<<0, 0>>, <<1, 2>>, <<1, 3>>, <<1, 4>>}
=============================================================================
