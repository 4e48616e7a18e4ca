SPECIFICATION FairSpec
CONSTANTS
  c1 = c1
  c2 = c2
  Conns <- MCTwoConns
  NumOutgoing <- MCOutgoing
  NumInFlight = 2
  RoundSkip = 4
  PersistEvery = 2
  PersistDelay = 1
  MaxRound = 6
  MaxCrashes = 0
  MayClose = TRUE
INVARIANTS TypeOK TokensConserved RepliesMatch
PROPERTIES RoundsEnd CloseCompletes
CHECK_DEADLOCK FALSE
