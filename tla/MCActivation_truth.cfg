CONSTANTS
  Session <- MCSession
  Closure <- MCClosure
  Candidate <- MCCandidate
  Installed = "installed"
  Free = Free
  Collectable = FALSE
  Overlaps = TRUE
  MaxWaiting = 4
  MaxFailures = 0
SPECIFICATION Spec
CHECK_DEADLOCK FALSE
PROPERTIES
  EndsTellTheTruth
