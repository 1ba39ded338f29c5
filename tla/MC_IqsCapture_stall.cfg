SPECIFICATION CaptureSpec
CONSTANTS
  PacketQueue = 1
  MaxFetch = 2
  MaxReconfigure = 1
  MaxGnss = 0
PROPERTIES StallKept
CHECK_DEADLOCK FALSE
