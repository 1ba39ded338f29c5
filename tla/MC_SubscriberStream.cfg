SPECIFICATION Spec
CONSTANTS
  MAX_IDENTITIES = 2
  SeqLimit = 2
  Slots = {1, 2}
  Kinds = {"audio", "decode"}
  Formats = {1, 2}
  MaxChanges = 2
  MaxFaults = 1
INVARIANTS KeptAndServed
PROPERTIES Numbered SourceKept
CHECK_DEADLOCK FALSE
