\* A hook whose input does not fit into a pipe, with every script of three operations.
SPECIFICATION Spec
CONSTANTS
  None = None
  Scripts <- AllScripts
  Payload = 2
  PipeSize = 1
  MaxOps = 3
INVARIANTS
  TypeOK
  OkIsComplete
  NoChildLeftBehind
PROPERTY PatientCommandsReturn
CHECK_DEADLOCK FALSE
