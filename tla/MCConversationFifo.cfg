SPECIFICATION Spec
CONSTANTS
  alice = alice
  bob = bob
  Users <- MCPair
  Peer <- MCPairPeer
  MaxRound = 3
  MaxTexts <- MCAliceTwo
  Callers <- MCAlice
  MaxCalls = 1
  MaxRestarts = 0
  Flights = 2
  Window = 1
  Overtaking = 3
  RedialRounds = 0
INVARIANTS TypeOK NoLossBeforeRestart DeliveryInv
PROPERTIES ImplementsFifo
CHECK_DEADLOCK FALSE
