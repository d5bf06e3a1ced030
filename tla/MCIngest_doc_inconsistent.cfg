\* What the documentation says of receipt_inconsistent.
SPECIFICATION Spec
CONSTANTS
  None = None
  Escape = Escape
  Broken = Broken
  Torn = Torn
  U32Max = 9
  CockpitId = 4
  SensorReasons = {"r"}
  OtherSection = 22
  Sensors = {1, 2}
  UnsafeIds = {3}
  Files <- AllFiles
  Configs <- AllConfigs
  Inputs <- AllInputs
  Comments <- CalmComments
  Elsewhere <- Anywhere
  MaxReceipts = 2
  MaxReceiptBytes = 4
  EnvBudget = 0
INVARIANT InconsistentMeansMismatch
CHECK_DEADLOCK FALSE
