\* The order determinism.md gives against the order check_ordering wants.
SPECIFICATION Spec
CONSTANTS
  None = None
  U32Max = 9
  CockpitId = 4
  SensorReasons = {"r", "BadToken", "tool_error"}
  OtherSection = 22
  IllFormed = {3}
  InvalidTokens = {"BadToken"}
  ToolError = "tool_error"
  RuntimeError = 5
  PathFaults <- MCPathFaults
  Dirs = {1, 3}
  Contents <- MCContents
  Unreadable = Unreadable
  Pending = Pending
  Absent = Absent
  Unknown = 9
  Config <- MCConfig
  Commands <- MCCommands
  EnvBudget = 0
CHECK_DEADLOCK FALSE
INVARIANT
  CanonicalOrderPasses
