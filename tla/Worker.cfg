SPECIFICATION FairSpec
CONSTANTS
  Deliveries <- MCDeliveries
  WebhookRetries = 2
  MaxErrors = 1
  Batches <- MCBatches
  IngestionRetries = 1
  Chunks = 2
  Files <- MCFiles
  ImportRetries = 1
  MaxRows = 3
  ApplySize = 2
  Runs <- MCRuns
  SourceRetries = 1
  Keys <- MCKeys
  Archives = TRUE
  Tables <- MCTables
  MaxChanges = 1
  Dispatchers = {d1, d2}
  NoClaim = NoClaim
  BatchLimit = 2
  Lease = 0
  MaxWait = 1
  MaxAttempts = 7
  MaxFaults = 2
  MaxLate = 1
  MaxMishaps <- MCMishaps
INVARIANT RowsComeOnce
PROPERTIES OutcomeIsFinal AppliedInOrder RunMirrorsProvider QueuedTasksEnd
CHECK_DEADLOCK FALSE
