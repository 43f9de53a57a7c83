SPECIFICATION Spec
CONSTANTS
  NumSockets = 3
  Stations = {old, new}
  Downloads = {}
  Updates = {}
  None = None
  old = old
  new = new
INVARIANT
  ValidSocket
CHECK_DEADLOCK FALSE
