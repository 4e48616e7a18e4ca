SPECIFICATION FairSpec
CONSTANTS
  caller = caller
  callee = callee
  Clients <- MCClients
  Peer <- MCPeer
  NumMixers = 2
  RecvCap = 1
  MaxRound = 2
  Flights = 2
  MaxDrops = 1
INVARIANTS TypeOK DependenciesUp CleanExit SentOnce FromPeer
PROPERTIES ScriptEnds
CHECK_DEADLOCK FALSE
