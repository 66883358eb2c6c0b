\* A provider fails after the batch of its run was cancelled.
SPECIFICATION Spec
CONSTANTS
  Cells <- TwoCells
  MaxEvents = 2
  Dispatchers = {d1, d2}
  NoClaim = NoClaim
  BatchLimit = 1
  Lease = 1
  MaxWait = 1
  MaxRetries = 1
  MaxAttempts = 2
  MaxFaults = 0
  MaxLate = 0
  Mode = "all"
  ChunkSize = 1
  Cancellable = TRUE
INVARIANTS CellShowsItsRun
