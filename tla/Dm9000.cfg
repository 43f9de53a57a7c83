SPECIFICATION FairSpec
CONSTANTS
  MailSize = 2
  Room = 2
INVARIANTS
  TypeOK
  AckComes
  NoneUnseen
PROPERTIES
  InOrder
  Served
