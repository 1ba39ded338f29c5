SPECIFICATION Spec
CONSTANTS
  Slots = {1}
  MaxFrames = 2
  MaxCommands = 2
  MaxFailures = 1
INVARIANT NoReplay
CHECK_DEADLOCK FALSE
