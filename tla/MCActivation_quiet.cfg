CONSTANTS
  Session <- MCSession
  Closure <- MCClosure
  Candidate <- MCCandidate
  Installed = "installed"
  Free = Free
  Collectable = FALSE
  Overlaps = FALSE
  MaxWaiting = 4
  MaxFailures = 2
SPECIFICATION FairSpec
CHECK_DEADLOCK FALSE
INVARIANTS
  QuietMeansConsistent
PROPERTIES
  TestsBlockEachOther
  EndsTellTheTruth
  FinishedStays
  TestsEnd
