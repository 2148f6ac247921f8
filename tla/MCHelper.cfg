CONSTANTS
  Client = {"ann's", "bob's"}
  Uid = {"ann", "bob"}
  UidOf <- MCUidOf
  Target = {"fixture", "control"}
  Flags <- MCFlags
  Plan = {"p"}
  Answerable <- AllActions
  None = None
  MaxReceipts = 2
  MaxQueue = 1
SPECIFICATION FairSpec
INVARIANTS
  TypeOK
  OwnRequestGranted
  PreparedHaveReceipts
  
PROPERTIES
  SpentStaysSpent
  FreshWhenAsked
  Served
