CONSTANTS
  Requests = {r1}
  Batches = {b1}
  Notifies = {}
  Queued <- MCQueued
  Cancellable = {}
  ReplyShapes <- MCReplyShapes
  MessageCapacity = 2
  EventCapacity = 1
  MaxConnections = 1
SPECIFICATION Spec
INVARIANTS
  TypeOK
  OwnAnswer
  SenderInOnePlace
  EntriesInFlight
