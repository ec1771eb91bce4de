CONSTANTS
  Streams = {s1}
  MessageCapacity = 1
  NotificationCapacity = 1
  MaxNotes <- MCMaxNotes
  PingIntervals <- MCPingIntervals
  Backlog = 1
  MaxLate = 2
SPECIFICATION Spec
INVARIANT
  NothingLostSilently
