SPECIFICATION FairSpec
CONSTANTS
  QueueCap = 2
  PollMax = 2
  PoolHold = 1
  Changes = {"keep", "configure", "recapture"}
  MaxCommands = 1
  InputCap = 1
  OutputCap = 1
  FrameLen = 2
  MaxPackets = 3
INVARIANTS InOrder CleanCut
PROPERTIES TailsFirst NothingOldShown CallReturns
CHECK_DEADLOCK FALSE
