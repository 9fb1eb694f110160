SPECIFICATION FairSpec
CONSTANTS
  Session = {s1, s2}
  IoThread = {t1, t2, t3}
  Main = Main
  NoSession = NoSession
INVARIANTS
  TypeOK
  RefCountIsExact
  ReturnIsSafe
  OneStagePerIssue
  OneIoAtATime
PROPERTIES
  OnlyIssueRevives
  DisconnectedIsReturned
CHECK_DEADLOCK FALSE
