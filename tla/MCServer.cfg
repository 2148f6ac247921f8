CONSTANTS
  t1 = t1
  t2 = t2
  Retained = 2
  Thread = {t1, t2}
  Capacity = 1
  Quotas <- MCQuotas
SPECIFICATION FairSpec
CHECK_DEADLOCK FALSE
INVARIANTS
  TypeOK
  StaleIsNeverReady
  OldLockNotReady
  OneJobAtATime
  TimedOutFails
  ConfirmedOnce
PROPERTIES
  JobsEnd
  CommitsCurrentSource
