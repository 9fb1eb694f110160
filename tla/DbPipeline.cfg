SPECIFICATION FairSpec
CONSTANTS
  Session = {s1}
  IoThread = {t1, t2}
  NoThread = NoThread
  MaxIssue = 2
  MaxEcho = 2
INVARIANTS
  TypeOK
  ResultsAreOwn
  AssertsHold
PROPERTIES
  RequestAnswered
  SpinEnds
CHECK_DEADLOCK FALSE
