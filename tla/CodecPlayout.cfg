SPECIFICATION FairSpec
CONSTANTS
  DATA_NODE_MAX = 5
  Block = {b1, b2}
  NoBlock = NoBlock
  ContextCheck = FALSE
  Windows = {}
INVARIANTS
  TypeOK
  OneHolder
  PlaysHead
  NoStall
PROPERTIES
  BufferComes
  ImplementsPlayout
