SPECIFICATION FineFairSpec
CONSTANTS
  InputCap = 2
  OutputCap = 2
  FrameLen = 2
  MaxPackets = 11
INVARIANTS AllHandedOn FailureReported
PROPERTIES FineReturns
CHECK_DEADLOCK FALSE
