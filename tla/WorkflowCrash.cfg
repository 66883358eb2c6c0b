\* One crash: the run may never finish.
SPECIFICATION FairSpec
CONSTANTS
  trigger = trigger
  filter = filter
  enrich = enrich
  webhook = webhook
  write = write
  NoStep = NoStep
  Steps <- MCSteps
  Parent <- MCParent
  Handle <- MCHandle
  Kind <- MCKind
  Dispatchers = {d1, d2}
  NoClaim = NoClaim
  Lease = 1
  MaxWait = 1
  MaxRetries = 2
  MaxLate = 0
  MaxAttempts = 6
  MaxFaults = 1
PROPERTIES EventuallyFinished
