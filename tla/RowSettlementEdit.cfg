\* Two edits before the first is settled, in a table without webhooks.
SPECIFICATION Spec
CONSTANTS
  Inputs <- InputColumns
  Formulas <- FormulaColumns
  Connectors <- ConnectorColumns
  Automatic <- OnlyA
  Depends <- Dependencies
  Destinations <- None
  Relevant <- RelevantToNone
  Webhooks = FALSE
  MaxRuns = 2
  MaxWritebacks = 1
  MaxRetries = 1
  MaxVersion = 6
  MaxUser = 2
  MaxFaults = 0
INVARIANTS NoChangeForgotten
CHECK_DEADLOCK FALSE
