SPECIFICATION Spec
CONSTANTS
  Session = {s1}
  IoThread = {t1, t2}
  NoThread = NoThread
  MaxIssue = 2
  MaxRequest = 2
INVARIANT PendingMeansIncomplete
CHECK_DEADLOCK FALSE
