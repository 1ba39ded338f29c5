SPECIFICATION FairSpec
CONSTANTS
  Kinds = {"swp", "rta", "iqs"}
  MaxOwners = 2
  StreakLimit = 2
INVARIANTS OneSession Accounted NeverBusy ExclusiveServer
PROPERTY CallReturns
CHECK_DEADLOCK FALSE
