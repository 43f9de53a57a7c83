SPECIFICATION Spec
CONSTANTS
  NumSockets = 3
  Stations = {old, new}
  Downloads = {song, list}
  Updates = {update}
  None = None
  old = old
  new = new
  song = song
  list = list
  update = update
INVARIANTS
  TypeOK
  OwnStream
PROPERTY
  LostOnlyThere
CHECK_DEADLOCK FALSE
