CONSTANTS
  Streams = {s1}
  MessageCapacity = 2
  NotificationCapacity = 1
  MaxNotes <- MCMaxNotes
  PingIntervals <- MCPingIntervals
  Backlog = 1
  MaxLate = 2
SPECIFICATION FairSpec
INVARIANTS
  GapsReported
  ArrivalOrder
PROPERTIES
  SlowStreamsDoNotBlock
  DropReleases
  DropIsFinal
  PingsSpaced
  KeepsPinging
