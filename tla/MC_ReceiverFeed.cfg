SPECIFICATION Spec
CONSTANTS
  Slots = {1, 2}
  MaxFrames = 2
  MaxCommands = 2
  MaxFailures = 1
INVARIANTS OnceInOrder NothingLost IqComplete TailsFirst
CHECK_DEADLOCK FALSE
