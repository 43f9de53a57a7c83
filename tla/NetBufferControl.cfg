SPECIFICATION FairSpec
CONSTANTS
  Size = 10
  Block = 2
  MaxRead = 3
  Burst = 8
  QueueDepth = 4
  Byte = {a}
  Session = {s1, s2}
  NoSession = NoSession
INVARIANTS
  TypeOK
  RingConsistent
  NoOverrun
  NoLostWakeup
  NoMutualWait
  ReadyMeansData
  CleanStart
  OwnedOnce
PROPERTIES
  ReaderReleased
  SuspendedStop
