CONSTANTS
  t1 = t1
  t2 = t2
  Txn = {t1}
  File <- MCFile
  Dir <- MCDir
  Content <- MCContent
  Absent = Absent
  Nobody = Nobody
  Recovery = Recovery
  RootDir = "root"
  Original <- MCOriginal
  Scope <- OneScope
  Candidate <- OneCandidate
  DirOf <- MCDirOf
  EditsRaceReplace = TRUE
  Foreign <- AllForeign
  MaxEdits = 1
  MaxCrashes = 0
SPECIFICATION Spec
CHECK_DEADLOCK FALSE
PROPERTIES
  NoLostEdit
