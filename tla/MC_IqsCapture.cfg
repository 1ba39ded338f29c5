SPECIFICATION FairCaptureSpec
CONSTANTS
  PacketQueue = 1
  MaxFetch = 3
  MaxReconfigure = 2
  MaxGnss = 1
INVARIANTS NoStaleIQ NoFalseGap FailureFinal
PROPERTIES Returns
CHECK_DEADLOCK FALSE
