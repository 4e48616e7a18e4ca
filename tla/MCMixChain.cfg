SPECIFICATION FairSpec
CONSTANTS
  N = 2
  Batches <- MCBatches
  NumNoise <- MCNoise
  MaxJobs = 2
  MaxCrashes = 1
  MaxFailures = 1
INVARIANTS TypeOK RepliesAnswer NoLateJobs
PROPERTIES RoundTerminates DoneRoundsForgotten
CHECK_DEADLOCK FALSE
