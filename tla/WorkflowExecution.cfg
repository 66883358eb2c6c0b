\* One crash or storage error, and one expiry of the event's claim under a
\* worker, anywhere; any step may throw.
SPECIFICATION FairSpec
CONSTANTS
  trigger = trigger
  filter = filter
  enrich = enrich
  webhook = webhook
  write = write
  NoStep = NoStep
  Steps <- MCSteps
  Parent <- MCParent
  Handle <- MCHandle
  Kind <- MCKind
  Dispatchers = {d1, d2}
  NoClaim = NoClaim
  Lease = 1
  MaxWait = 1
  MaxRetries = 2
  MaxAttempts = 4
  MaxFaults = 1
  MaxLate = 1
PROPERTIES FailsOnlyOnError SettledByLatestAttempt FinishesUnlessBroken
