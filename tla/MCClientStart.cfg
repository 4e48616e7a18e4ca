SPECIFICATION FairSpec
CONSTANTS
  MaxRound = 2
  MaxConfig = 2
  MaxFaults = 2
  NumPKGs = 2
  MaxRegistering = 2
INVARIANTS TypeOK ReplyExpected OnionsMatchConfig ConnCurrent RegisteredIdentityKept ConnectsRegistered
PROPERTIES ConfigForward RejoinsService
CHECK_DEADLOCK FALSE
