SPECIFICATION Spec
CONSTANTS
  Player = {p1}
  IoThread = {t1, t2}
  NoThread = NoThread
  StartDelay = 1
  HeartBeat = 2
  BuffDuration = {4}
  MaxTick = 3
  MaxAccept = 2
PROPERTY ResetUnregisters
CHECK_DEADLOCK FALSE
