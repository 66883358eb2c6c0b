\* A batch of two cells that is cancelled while one worker expands it and
\* another executes its runs; one crash or storage error happens, or one
\* claim expires under a worker.
SPECIFICATION Spec
CONSTANTS
  Cells <- TwoCells
  MaxEvents = 3
  Dispatchers = {d1, d2}
  NoClaim = NoClaim
  BatchLimit = 1
  Lease = 0
  MaxWait = 1
  MaxRetries = 1
  MaxAttempts = 2
  MaxFaults = 1
  MaxLate = 1
  Mode = "pending"
  ChunkSize = 1
  Cancellable = TRUE
SYMMETRY Workers
CONSTRAINT OneDisturbance
INVARIANTS BatchAccounts CancelledBatchIsQuiet ActiveRunIsDriven CellShowsUncancelledRun
