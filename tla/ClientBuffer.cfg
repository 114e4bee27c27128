CONSTANTS
  BUF_LEN = 40
  MSG_LEN = 26
  Requests <- MCRequests
  Types = {"text", "closing"}
  Lengths = {0, 20, 30, 100, 256}
  Garbage <- MCGarbage
  MaxFrames = 2
  Splits = {1, 8}
SPECIFICATION FairSpec
INVARIANTS
  TypeOK
  RoomToRead
  NothingStranded
  DiesOnlyInHeader
PROPERTIES
  MessagesInOrder
  MessagesArrive
CHECK_DEADLOCK FALSE
