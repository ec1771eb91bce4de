CONSTANTS
  b1 = b1
  b2 = b2
  b3 = b3
  Requests = {r1}
  Batches = {b1}
  Notifies = {}
  Queued <- MCQueued
  Cancellable = {}
  ReplyShapes <- MCReplyShapes
  MessageCapacity = 1
  EventCapacity = 2
  MaxConnections = 1
SPECIFICATION TaskSpec
PROPERTY
  DisconnectResolves
