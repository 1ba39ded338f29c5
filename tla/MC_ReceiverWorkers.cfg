SPECIFICATION FairSpec
CONSTANTS
  Slots = {0, 1}
  WORKERS = 2
  InputCap = 2
  ResultCap = 2
  SearchCap = 1
  MaxSubmit = 3
  MaxChanges = 2
  MaxCalls = 4
  MaxJobs = 1
INVARIANTS CurrentOnly OwnStream ContractKept
PROPERTIES Complete Forgotten CallReturns
CHECK_DEADLOCK FALSE
