SPECIFICATION Spec
CONSTANTS
  Length = 5
  Metaint = 7
  Unit = 2
  MaxMeta = 2
CHECK_DEADLOCK FALSE
INVARIANT
  MetaSkipped
