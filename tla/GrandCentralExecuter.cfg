SPECIFICATION FairSpec
CONSTANTS
  Thread = {t1, t2, t3}
  MaxDispatch = 2
INVARIANTS
  TypeOK
  NothingStranded
PROPERTIES
  ImplementsSerial
  EveryTaskRuns
CHECK_DEADLOCK FALSE
