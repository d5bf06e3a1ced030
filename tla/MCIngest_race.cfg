\* Two receipts and their comments change up to twice while the run reads them.
SPECIFICATION Spec
CONSTANTS
  None = None
  Escape = Escape
  Broken = Broken
  Torn = Torn
  U32Max = 9
  CockpitId = 4
  SensorReasons = {"r"}
  OtherSection = 22
  Sensors = {1, 2}
  UnsafeIds = {3}
  Files <- FewFiles
  Configs <- AllConfigs
  Inputs <- RaceInputs
  Comments <- GoneComments
  Elsewhere <- Anywhere
  MaxReceipts = 1
  MaxReceiptBytes = 4
  EnvBudget = 2
INVARIANTS
  CommentFollowsReport
  NoConfigNeverBlocks
PROPERTIES
  ImplementsGate
  ReceiptUsedAsChecked
CHECK_DEADLOCK FALSE
