\* Every run ends, with one change of a file while it reads.
SPECIFICATION Spec
CONSTANTS
  None = None
  Escape = Escape
  Broken = Broken
  Torn = Torn
  U32Max = 9
  CockpitId = 4
  SensorReasons = {"r"}
  OtherSection = 22
  Sensors = {1, 2}
  UnsafeIds = {3}
  Files <- TinyFiles
  Configs <- AllConfigs
  Inputs <- RaceInputs
  Comments <- GoneComments
  Elsewhere <- Anywhere
  MaxReceipts = 1
  MaxReceiptBytes = 4
  EnvBudget = 1
PROPERTY Terminates
CHECK_DEADLOCK FALSE
