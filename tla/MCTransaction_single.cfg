CONSTANTS
  t1 = t1
  t2 = t2
  Txn = {t1}
  File <- MCFile
  Dir <- MCDir
  Content <- MCContent
  Absent = Absent
  Nobody = Nobody
  Recovery = Recovery
  RootDir = "root"
  Original <- MCOriginal
  Scope <- OneScope
  Candidate <- OneCandidate
  DirOf <- MCDirOf
  EditsRaceReplace = TRUE
  Foreign <- AllForeign
  MaxEdits = 2
  MaxCrashes = 2
SPECIFICATION FairSpec
CHECK_DEADLOCK FALSE
INVARIANTS
  BackupsReproducePlan
  UntouchedStaysRecoverable
PROPERTIES
  LockReleased
  WorkerStops
  ImplementsAtomicApply
