SPECIFICATION FairSpec
CONSTANTS
  Capacity = 6
  HEADER_SIZE = 2
  KeySize = 2
  Width = 3
  MaxPayload = 1
  MaxPacket = 2
  MaxIssue = 1
PROPERTIES
  DecryptRestores
CHECK_DEADLOCK FALSE
