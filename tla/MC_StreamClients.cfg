SPECIFICATION FairSpec
CONSTANTS
  MAX_IDENTITIES = 2
  SeqLimit = 6
  Kinds = {"audio", "decode", "acked"}
  FifoSlots = 2
  PendingLimit = 2
  AckWindow = 2
  MaxEvents = 3
  MaxRetunes = 1
  MaxFailures = 1
  MaxGuesses = 1
INVARIANTS Delivered LimitsExact FailureFinal
PROPERTY Ends
CHECK_DEADLOCK FALSE
