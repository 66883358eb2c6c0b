\* One crash or storage error under a single worker: a later batch waits in
\* its handler for an earlier one that only the same worker could retry.
SPECIFICATION FairSpec
CONSTANTS
  Batches = {1, 2}
  Chunks = 2
  Dispatchers = {d1}
  NoClaim = NoClaim
  BatchLimit = 2
  Lease = 1
  MaxWait = 1
  MaxRetries = 1
  MaxAttempts = 4
  MaxFaults = 1
  MaxLate = 9
PROPERTIES EventuallyOver
