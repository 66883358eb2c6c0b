\* One field and one computed column; two columns and two formulas of a row;
\* a page of one of two rows, three changes and two requests under way; three
\* providers and one crash; three syncs and two tries per request;
\* three rows of a step, one per chunk (rows of one chunk touch records of
\* their own and meet only at its end), two executors and one fault; four
\* nodes, room for a cycle behind a filter and for two triggers; two pages
\* with two requests under way.
\* Every part may stop: what nobody asks for does not happen.
SPECIFICATION TablesSpec
CONSTANTS
  Fields = {f}
  Computed = {k}
  Types = {"text", "number"}
  NoColumn = NoColumn
  MaxRefs = 1
  Written = {a, b}
  Formula = {f, g}
  TableRows = {r}
  Values = 3
  GridRows <- MCGridRows
  Matching <- MCMatching
  PageSize = 1
  NoDraft = NoDraft
  MaxChanges = 3
  MaxCalls = 2
  Providers = 3
  MaxRunAttempts = 3
  MaxRunFaults = 1
  Messages <- MCMessages
  Checkpoint = Checkpoint
  MaxRecords = 1
  RequestTries = 2
  MaxSyncs = 3
  StepRowsGiven = {1, 2, 3}
  Executors = {x, y}
  NoExecutor = NoExecutor
  ChunkSize = 1
  ItemRetries = 1
  MaxStepFaults = 1
  NodeIds = {1, 2, 3, 4}
  NodeKinds = {"trigger", "filter", "enrich", "write"}
  Pages = {p, q}
  MaxEdits = 2
  MaxRevision = 3
  MaxOpen = 2
INVARIANTS ReferencesActive ChainIsFollowed AckedIsWritten PublishableIsPlan
PROPERTIES FormulasFollow SavesReplaceWhatWasSeen StepEndsAsItsRows
PROPERTY DraftsAsSubmitted
CHECK_DEADLOCK FALSE
