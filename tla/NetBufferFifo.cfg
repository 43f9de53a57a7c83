SPECIFICATION Spec
CONSTANTS
  Size = 5
  Block = 2
  MaxRead = 3
  Burst = 3
  QueueDepth = 4
  Byte = {a, b}
  Session = {s1}
  NoSession = NoSession
PROPERTIES
  ImplementsFifo
