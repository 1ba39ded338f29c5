SPECIFICATION Spec
CONSTANTS
  Kinds = {"iqs", "pnm"}
  MaxOwners = 2
  StreakLimit = 2
INVARIANT OneSession
CHECK_DEADLOCK FALSE
