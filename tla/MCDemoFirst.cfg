SPECIFICATION Spec
CONSTANTS
  caller = caller
  callee = callee
  Clients <- MCClients
  Peer <- MCPeer
  NumMixers = 2
  RecvCap = 2
  MaxRound = 2
  Flights = 2
  MaxDrops = 0
INVARIANT FirstMessageIsText
CHECK_DEADLOCK FALSE
