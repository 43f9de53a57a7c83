SPECIFICATION Spec
CONSTANTS
  DATA_NODE_MAX = 5
  Block = {b1, b2}
  NoBlock = NoBlock
  ContextCheck = TRUE
  Windows = {}
INVARIANT NoMutexInInterrupt
CHECK_DEADLOCK FALSE
