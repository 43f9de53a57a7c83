SPECIFICATION FairSpec
CONSTANTS
  DOUBAN_SONG_MAX = 4
  Room = 2
CHECK_DEADLOCK FALSE
INVARIANTS
  TypeOK
  LiveUrl
  GivenBack
PROPERTIES
  ReadReturns
