SPECIFICATION FairSpec
CONSTANTS
  w1 = w1  w2 = w2  w3 = w3  selA = selA  selB = selB  None = None
  Workers <- MCWorkers
  MAX_IN_FLIGHT = 6
  ADMIT = 3
  READY = 3
  HistoryLen = 3
  Hop = 2
  PacketSizes <- MCPacketSizes
  Selections <- MCSelections
  MaxPackets = 5
INVARIANTS Ordered Conserved TaskExact AdmissionBound
PROPERTIES ImplementsPipe CallReturns
