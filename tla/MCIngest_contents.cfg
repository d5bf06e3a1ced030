\* Every content of two receipts under every configuration; nothing changes while the run reads.
SPECIFICATION Spec
CONSTANTS
  None = None
  Escape = Escape
  Broken = Broken
  Torn = Torn
  U32Max = 9
  CockpitId = 4
  SensorReasons = {"r"}
  OtherSection = 22
  Sensors = {1, 2}
  UnsafeIds = {3}
  Files <- AllFiles
  Configs <- AllConfigs
  Inputs <- AllInputs
  Comments <- CalmComments
  Elsewhere <- Anywhere
  MaxReceipts = 1
  MaxReceiptBytes = 4
  EnvBudget = 0
INVARIANTS
  TypeOK
  EverySensorListed
  HighlightsAreTheTop
  CountsAddUp
  RedIsExplained
CHECK_DEADLOCK FALSE
