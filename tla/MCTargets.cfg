CONSTANTS
  Path <- MCPath
  Below <- MCBelow
  Fixture <- MCFixture
  EtcNixos <- MCEtcNixos
  Unsafe <- MCUnsafe
  Null = Null
  Absent = Absent
  Rejected = Rejected
  Raws <- MCRaws
SPECIFICATION Spec
CHECK_DEADLOCK FALSE
INVARIANTS
  ModeDecides
  JournalsApart
  NewerSchemaAgrees
