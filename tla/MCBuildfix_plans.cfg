\* Two sensors' plans, one change while they are read, an actuator that may stop anywhere.
SPECIFICATION Spec
CONSTANTS
  None = None
  U32Max = 9
  CockpitId = 4
  SensorReasons = {"r"}
  OtherSection = 22
  Escape = Escape
  AnswerIds = {2, 9}
  Sensors = {1, 2}
  PlanFiles <- AllPlans
  MaxPlanBytes = 3
  Inputs <- AllInputs
  Elsewhere <- Anywhere
  EnvBudget = 1
INVARIANTS
  TypeOK
  OnlyJustifiedFixesAreAsked
  UnmatchedIsExplained
  EvidenceCoversTree
PROPERTY PlanUsedAsChecked
CHECK_DEADLOCK FALSE
