SPECIFICATION FairSpec
CONSTANTS
  UiSlots = 4
  Kind = {"mp3", "wav", "radio", "wma"}
  Lists <- SomeLists
CHECK_DEADLOCK FALSE
INVARIANTS
  TypeOK
  ModeExact
  QuietAtRest
  CurrentInList
PROPERTIES
  StopWorks
