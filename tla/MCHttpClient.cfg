CONSTANTS
  array = array
  scalar = scalar
  broken = broken
  NoParams = NoParams
  Params = {NoParams, array, scalar, broken}
  Structured = {array}
  Unserializable = {broken}
  Modulus = 3
  Requests = {r1, r2}
  Batches = {b1}
  Notifies = {n1}
  MaxQueued = 2
  MaxItems = 2
SYMMETRY MCSymmetry
SPECIFICATION Spec
INVARIANTS
  IdsUnique
  OwnReply
  NothingLeftOut
  RepliesFromSuccess
PROPERTY
  ImplementsRpc
