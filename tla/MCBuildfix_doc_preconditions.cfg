\* A fix made for another commit is applied.
SPECIFICATION Spec
CONSTANTS
  None = None
  U32Max = 9
  CockpitId = 4
  SensorReasons = {"r"}
  OtherSection = 22
  Escape = Escape
  AnswerIds = {}
  Sensors = {1, 2}
  PlanFiles <- FewPlans
  MaxPlanBytes = 3
  Inputs <- FewInputs
  Elsewhere <- NoPlan
  EnvBudget = 0
INVARIANT PreconditionsHold
CHECK_DEADLOCK FALSE
