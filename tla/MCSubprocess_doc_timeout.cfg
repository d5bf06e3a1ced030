\* What the documentation says of the timeout.
SPECIFICATION Spec
CONSTANTS
  None = None
  Scripts <- EagerScripts
  Payload = 2
  PipeSize = 1
  MaxOps = 3
PROPERTY TimeoutBoundsTheCall
CHECK_DEADLOCK FALSE
