SPECIFICATION Spec
CONSTANTS
  p1 = p1
  p2 = p2
  Peers <- MCPeers
  NumOutgoing = 1
  MaxConvos = 3
  MaxCalls = 3
SYMMETRY MCSymmetry
INVARIANTS TypeOK UniformTraffic SelectedListed UnseenMarked ActiveListed NewestCallKept
CHECK_DEADLOCK FALSE
