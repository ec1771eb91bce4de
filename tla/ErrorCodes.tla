----------------------------- MODULE ErrorCodes -----------------------------
(***************************************************************************)
(* JsonRpcErrorCode (jsonrpc_core, error.rs): the code of an error object, *)
(* an i64, becomes a variant of the enum when Error::from turns the        *)
(* response into the error a caller gets, and can be turned back.          *)
(***************************************************************************)
EXTENDS Integers

\* The variants that stand for one code each.
Predefined ==
  [ParseError |-> -32700, InvalidRequest |-> -32600, MethodNotFound |-> -32601,
   InvalidParams |-> -32602, InternalError |-> -32603]

ServerErrors == -32099 .. -32000

\* Fault: takes the reserved codes without a name of their own for internal errors.
FromCodeLossy(code) ==
  IF \E name \in DOMAIN Predefined : Predefined[name] = code
    THEN [variant |-> CHOOSE name \in DOMAIN Predefined : Predefined[name] = code]
  ELSE IF code \in -32768 .. -32000 THEN [variant |-> "InternalError"]
  ELSE [variant |-> "Other", code |-> code]

\* From<i64> for JsonRpcErrorCode
FromCode(code) ==
  IF \E name \in DOMAIN Predefined : Predefined[name] = code
    THEN [variant |-> CHOOSE name \in DOMAIN Predefined : Predefined[name] = code]
  ELSE IF code \in ServerErrors THEN [variant |-> "ServerError", code |-> code]
  ELSE [variant |-> "Other", code |-> code]

\* From<JsonRpcErrorCode> for i64
IntoCode(error) ==
  IF error.variant \in DOMAIN Predefined THEN Predefined[error.variant] ELSE error.code
=============================================================================
