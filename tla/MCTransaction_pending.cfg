CONSTANTS
  t1 = t1
  t2 = t2
  Txn = {t1, t2}
  File <- MCFile
  Dir <- MCDir
  Content <- MCContent
  Absent = Absent
  Nobody = Nobody
  Recovery = Recovery
  RootDir = "root"
  Original <- MCOriginal
  Scope <- MCScope
  Candidate <- MCCandidate
  DirOf <- MCDirOf
  EditsRaceReplace = FALSE
  Foreign <- MCForeign
  MaxEdits = 0
  MaxCrashes = 1
SPECIFICATION Spec
CHECK_DEADLOCK FALSE
PROPERTIES
  RestoredBeforeNewOperation
