\* As Tables.cfg; in the part of the grid a source page replaces a cell between
\* what a user saw and the save.
SPECIFICATION TablesSpec
CONSTANTS
  Fields = {f}
  Computed = {k}
  Types = {"text", "number"}
  NoColumn = NoColumn
  MaxRefs = 1
  Written = {a, b}
  Formula = {f, g}
  TableRows = {r}
  Values = 3
  GridRows <- MCGridRows
  Matching <- MCMatching
  PageSize = 1
  NoDraft = NoDraft
  MaxChanges = 3
  MaxCalls = 2
  Providers = 3
  MaxRunAttempts = 3
  MaxRunFaults = 1
  Messages <- MCMessages
  Checkpoint = Checkpoint
  MaxRecords = 1
  RequestTries = 2
  MaxSyncs = 3
  StepRowsGiven = {1}
  Executors = {x, y}
  NoExecutor = NoExecutor
  ChunkSize = 1
  ItemRetries = 1
  MaxStepFaults = 0
  NodeIds = {1}
  NodeKinds = {"trigger", "filter", "enrich", "write"}
  Pages = {p, q}
  MaxEdits = 0
  MaxRevision = 1
  MaxOpen = 1
PROPERTY StaleSavesConflict
CHECK_DEADLOCK FALSE
