CONSTANTS
  Client = {"ann's", "bob's"}
  Uid = {"ann", "bob"}
  UidOf <- MCUidOf
  Target = {"fixture", "control"}
  Flags <- MCFlags
  Plan = {"p"}
  Answerable <- PolkitActions
  None = None
  MaxReceipts = 2
  MaxQueue = 1
SPECIFICATION Spec
PROPERTIES
  DeniedOnlyByPkcheck
