CONSTANTS
  Requests = {r1}
  Batches = {}
  Notifies = {}
  Queued <- MCQueued
  Cancellable = {}
  ReplyShapes <- MCReplyShapes
  MessageCapacity = 1
  EventCapacity = 4
  MaxConnections = 2
SPECIFICATION Spec
INVARIANT
  LostMeansLost
