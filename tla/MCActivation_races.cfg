CONSTANTS
  Session <- MCSession
  Closure <- MCClosure
  Candidate <- MCCandidate
  Installed = "installed"
  Free = Free
  Collectable = TRUE
  Overlaps = TRUE
  MaxWaiting = 0
  MaxFailures = 0
SPECIFICATION Spec
CHECK_DEADLOCK FALSE
INVARIANTS
  TypeOK
  BootsOnlyTested
PROPERTIES
  TimerBeforeTest
