-------------------------------- MODULE Tables -------------------------------
(***************************************************************************)
(* What happens to the cells of a table: the lifecycle of its schema, the  *)
(* formulas, a user at the grid, a waterfall enrichment, the Airbyte       *)
(* destination, a step of a workflow that works on rows, and, before it    *)
(* can run, the graph of the workflow and its drafts.  Each of the eight   *)
(* modules looks at columns, rows, runs and pages of its own, and none     *)
(* assumes fairness.                                                       *)
(*                                                                         *)
(* A behaviour follows one part, chosen at the start, and leaves the       *)
(* others as they began.                                                   *)
(***************************************************************************)
EXTENDS Integers, Sequences, FiniteSets

CONSTANTS
  Fields, Computed, Types, NoColumn, MaxRefs,                      \* Schema
  Written, Formula, TableRows, Values,                             \* Formulas
  GridRows, Matching, PageSize, NoDraft, MaxChanges, MaxCalls,     \* GridEditor
  Providers, MaxRunAttempts, MaxRunFaults,                         \* Waterfall
  Messages, Checkpoint, MaxRecords, RequestTries, MaxSyncs,        \* Airbyte
  StepRowsGiven, Executors, NoExecutor, ChunkSize, ItemRetries,
  MaxStepFaults,                                                   \* StepRows
  NodeIds, NodeKinds,                                         \* WorkflowGraph
  Pages, MaxEdits, MaxRevision, MaxOpen                      \* WorkflowDrafts

VARIABLES
  part,                                                     \* what is followed
  table, column, type, deps, stored, source, import, view, writeback,  \* Schema
  life, refs, shown, value,                                 \* Formulas
  cell, changes, listing, display, draft, saving, requests, \* GridEditor
  run, saved, exec, calls, runFaults,                       \* Waterfall
  sync, position, buffer, sequence, request, acked, accepted, written, \* Airbyte
  kind, step, claim, record, at, list, chunk, thread, stepFaults,      \* StepRows
  graph,                                                    \* WorkflowGraph
  workflow, version, known, canvas, busy, tasks, edits      \* WorkflowDrafts

S == INSTANCE Schema
F == INSTANCE Formulas
G == INSTANCE GridEditor WITH calls <- requests
W == INSTANCE Waterfall
B == INSTANCE Airbyte
R == INSTANCE StepRows
C == INSTANCE WorkflowGraph
D == INSTANCE WorkflowDrafts

ASSUME TablesAssumption ==
  /\ S!SchemaParameters
  /\ F!FormulaParameters
  /\ G!GridParameters
  /\ W!WaterfallParameters
  /\ B!AirbyteParameters
  /\ R!StepRowsParameters
  /\ C!WorkflowGraphParameters
  /\ D!WorkflowDraftsParameters

schemaVars ==
  <<table, column, type, deps, stored, source, import, view, writeback>>
formulaVars == <<life, refs, shown, value>>
gridVars == <<cell, changes, listing, display, draft, saving, requests>>
waterfallVars == <<run, saved, exec, calls, runFaults>>
airbyteVars == <<sync, position, buffer, sequence, request, acked, accepted,
                 written>>
stepVars == <<kind, step, claim, record, at, list, chunk, thread, stepFaults>>
draftsVars == <<workflow, version, known, canvas, busy, tasks, edits>>
tablesVars == <<part, schemaVars, formulaVars, gridVars, waterfallVars,
                airbyteVars, stepVars, graph, draftsVars>>

TablesInit ==
  /\ part \in {"schema", "formulas", "grid", "waterfall", "airbyte", "step",
               "graph", "drafts"}
  /\ S!SchemaInit
  /\ F!FormulaInit
  /\ G!GridInit
  /\ W!WaterfallInit
  /\ B!AirbyteInit
  /\ R!StepRowsInit
  /\ C!WorkflowGraphInit
  /\ D!WorkflowDraftsInit
  /\ part # "step" => kind = "write"

TablesNext ==
  /\ UNCHANGED part
  /\ \/ /\ part = "schema"
        /\ S!SchemaNext
        /\ UNCHANGED <<formulaVars, gridVars, waterfallVars, airbyteVars,
                       stepVars, graph, draftsVars>>
     \/ /\ part = "formulas"
        /\ F!FormulasNext
        /\ UNCHANGED <<schemaVars, gridVars, waterfallVars, airbyteVars,
                       stepVars, graph, draftsVars>>
     \/ /\ part = "grid"
        /\ G!GridNext
        /\ UNCHANGED <<schemaVars, formulaVars, waterfallVars, airbyteVars,
                       stepVars, graph, draftsVars>>
     \/ /\ part = "waterfall"
        /\ W!WaterfallNext
        /\ UNCHANGED <<schemaVars, formulaVars, gridVars, airbyteVars,
                       stepVars, graph, draftsVars>>
     \/ /\ part = "airbyte"
        /\ B!AirbyteNext
        /\ UNCHANGED <<schemaVars, formulaVars, gridVars, waterfallVars,
                       stepVars, graph, draftsVars>>
     \/ /\ part = "step"
        /\ R!StepRowsNext
        /\ UNCHANGED <<schemaVars, formulaVars, gridVars, waterfallVars,
                       airbyteVars, graph, draftsVars>>
     \/ /\ part = "graph"
        /\ C!WorkflowGraphNext
        /\ UNCHANGED <<schemaVars, formulaVars, gridVars, waterfallVars,
                       airbyteVars, stepVars, draftsVars>>
     \/ /\ part = "drafts"
        /\ D!WorkflowDraftsNext
        /\ UNCHANGED <<schemaVars, formulaVars, gridVars, waterfallVars,
                       airbyteVars, stepVars, graph>>

TablesSpec == TablesInit /\ [][TablesNext]_tablesVars

-----------------------------------------------------------------------------

\* What is in use refers only to columns in use (Schema).
ReferencesActive == S!ReferencesActive

\* Formulas follow the columns they depend on (Formulas).
FormulasFollow == F!FormulasFollow

\* A save replaces what its user saw, or another record (GridEditor).
SavesReplaceWhatWasSeen == G!SavesReplaceWhatWasSeen

\* A save that is not based on the current value is refused (GridEditor).
StaleSavesConflict == G!StaleSavesConflict

\* Providers are called in the order of the plan (Waterfall).
ChainIsFollowed == W!ChainIsFollowed

\* A step ends as the rows it worked on (StepRows).
StepEndsAsItsRows == R!StepEndsAsItsRows

\* A publishable graph compiles to a plan that can run (WorkflowGraph).
PublishableIsPlan == C!PublishableIsPlan

\* Drafts and versions are what their users submitted (WorkflowDrafts).
DraftsAsSubmitted == D!DraftsAsSubmitted

\* What is acknowledged is in the tables (Airbyte).
AckedIsWritten == B!AckedIsWritten

=============================================================================
