SPECIFICATION Spec
CONSTANTS
  Session = {s1}
  IoThread = {t1, t2}
  NoThread = NoThread
  MaxIssue = 1
  MaxRequest = 2
INVARIANT ReturnedIsIdle
CHECK_DEADLOCK FALSE
