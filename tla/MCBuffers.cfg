SPECIFICATION MCFairSpec
CONSTANTS
  Subjects = {"queue", "rings", "pool"}
  Producers = {p1}
  Consumers = {c1}
  Msgs = {1, 2, 3, 4}
  Size <- MCSize
  MemSize = 1
  MaxLength = 2
  GarbageLength = {0, 1, 4}
  Garbage = Garbage
  DiskFaults = TRUE
  MaxLives = 2
  Kinds = {"ring", "sized"}
  RingSize = 3
  MaxPacket = 3
  ReadSizes = {1, 2}
  MaxWritten = 6
  MaxResets = 2
  MaxClosers = 2
  PoolStreams = {"s", "t"}
  PoolUsers = {u1, u2, u3}
  PoolBuffers = 2
  PoolSize = 2
INVARIANTS CountersExact LaneOrder BoundariesSurviveRestart NoBufferShared
PROPERTIES ClosedMeansDrained EventuallyDelivered RingsServe
