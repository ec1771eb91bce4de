CONSTANTS
  Requests = {r1, r2}
  Batches = {}
  Notifies = {}
  Queued <- MCQueued
  Cancellable = {r1}
  ReplyShapes <- MCReplyShapes
  MessageCapacity = 1
  EventCapacity = 2
  MaxConnections = 2
SPECIFICATION Spec
INVARIANTS
  SenderInOnePlace
  EntriesInFlight
  NoneStranded
PROPERTY
  ImplementsRpc
