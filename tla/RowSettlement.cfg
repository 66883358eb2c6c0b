\* Both connectors automatic, with a webhook and two writebacks, limits of
\* one.  A quiet row stays quiet: no deadlock check.
SPECIFICATION FairSpec
CONSTANTS
  Inputs <- InputColumns
  Formulas <- FormulaColumns
  Connectors <- ConnectorColumns
  Automatic <- ConnectorColumns
  Depends <- Dependencies
  Destinations <- TwoDestinations
  Relevant <- RelevantToTwo
  Webhooks = TRUE
  MaxRuns = 1
  MaxWritebacks = 1
  MaxRetries = 0
  MaxVersion = 15
  MaxUser = 3
  MaxFaults = 1
INVARIANTS DeliveredUnlessCancelled NoChangeForgotten
PROPERTIES RunsOnlyForChanges DeliveredRowIsComplete CascadeEnds
CHECK_DEADLOCK FALSE
