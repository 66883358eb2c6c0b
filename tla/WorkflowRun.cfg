\* Two workers on a branching plan, leases expiring at will.
SPECIFICATION Spec
CONSTANTS
  trigger = trigger
  filter = filter
  enrich = enrich
  webhook = webhook
  write = write
  NoStep = NoStep
  Steps <- MCSteps
  Parent <- MCParent
  Handle <- MCHandle
  Handles <- MCHandles
  Workers = {w1, w2}
  NoWorker = NoWorker
  Lease = 1
  RetryDelay = 1
  MaxAttempts = 2
  MaxRetried = 1
INVARIANT OutputOfLatestAttempt
PROPERTY ImplementsBranchRun
