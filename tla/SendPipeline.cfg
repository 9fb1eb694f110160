SPECIFICATION FairSpec
CONSTANTS
  Session = {s1}
  IoThread = {t1, t2}
  NoThread = NoThread
  MaxIssue = 2
  MaxRequest = 2
INVARIANTS
  TypeOK
  OneSendAtATime
  SentInOrder
  WaitingIsListed
  AssertsHold
 
CHECK_DEADLOCK FALSE
