SPECIFICATION Spec
CONSTANTS
  Player = {p1, p2}
  IoThread = {t1, t2}
  NoThread = NoThread
  StartDelay = 1
  HeartBeat = 1
  BuffDuration = {2}
  MaxTick = 2
  MaxAccept = 2
INVARIANTS
  TypeOK
  TopIsRunning
  AliveHasTick
  AliveIsRegistered
CHECK_DEADLOCK FALSE
