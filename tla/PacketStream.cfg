SPECIFICATION FairSpec
CONSTANTS
  Capacity = 5
  HEADER_SIZE = 2
  KeySize = 2
  Width = 3
  MaxPayload = 1
  MaxPacket = 2
  MaxIssue = 2
INVARIANTS
  TypeOK
  HandledInOrder
  OnlySplitPacketsWait
  CrashNeedsSecondLogin
PROPERTIES
  AllHandled
CHECK_DEADLOCK FALSE
