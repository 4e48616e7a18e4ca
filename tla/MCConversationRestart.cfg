SPECIFICATION Spec
CONSTANTS
  alice = alice
  bob = bob
  Users <- MCPair
  Peer <- MCPairPeer
  MaxRound = 3
  MaxTexts <- MCAliceTwo
  Callers <- MCAlice
  MaxCalls = 2
  MaxRestarts = 1
  Flights = 1
  Window = 1
  Overtaking = 3
  RedialRounds = 0
INVARIANTS NoLoss DisplayOrder NoGap
CHECK_DEADLOCK FALSE
