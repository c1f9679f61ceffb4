SPECIFICATION Spec
CONSTANTS
  MaxRuntimes = 2
  MaxPending = 2
  MaxFrames = 4
  MaxInputs = 2
  MaxAttempts = 2
  MaxFaults = 1
\* A socket that is closed stays closed.
CHECK_DEADLOCK FALSE
INVARIANTS StreamHasNoHole  InputInOrder
 
