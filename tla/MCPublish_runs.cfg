\* Two invocations with any options over one output directory, one of them killed.
SPECIFICATION Spec
CONSTANTS
  None = None
  Torn = Torn
  U32Max = 9
  CockpitId = 4
  SensorReasons = {"r"}
  Invocations <- AllInvocations
  MaxRuns = 2
  MaxCrashes = 1
INVARIANTS
  TypeOK
  ExitMatchesFiles
  CommentNeverAhead
  DisabledFeaturesLeaveNothing
  EvidenceMatchesReport
  SignedWithTheNamedKey
PROPERTIES
  ActuatorAfterVerdict
  RunsEnd
CHECK_DEADLOCK FALSE
