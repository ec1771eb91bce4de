CONSTANTS
  b1 = b1
  b2 = b2
  b3 = b3
  Requests = {r1}
  Batches = {b1, b2, b3}
  Notifies = {n1}
  Queued <- MCQueued
  Cancellable = {}
  ReplyShapes <- MCAnswerShapes
  MessageCapacity = 1
  EventCapacity = 1
  MaxConnections = 1
SPECIFICATION TimedSpec
ACTION_CONSTRAINT
  AtMostTwoStart
PROPERTY
  CallsReturn
