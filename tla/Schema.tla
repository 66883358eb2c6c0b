------------------------------- MODULE Schema --------------------------------
(***************************************************************************)
(* The lifecycle of one table's schema (packages/db/src/sqlite/            *)
(* schema-lifecycle.ts): columns are archived, restored and converted to   *)
(* another type, while a source and a CSV import write cells through the   *)
(* column mappings they have stored, and computed columns, a saved view    *)
(* and a writeback refer to columns.                                       *)
(*                                                                         *)
(* Every operation is one transaction.  An administrator's archival or     *)
(* conversion rebuilds its preview inside the transaction and proceeds     *)
(* only when it has no blocker; that the preview is the one shown before   *)
(* and that the name was typed correctly only restricts this further.      *)
(* The types of computed columns are left out, and so are ingestion        *)
(* endpoints, whose mappings block what a source's do.                     *)
(***************************************************************************)
EXTENDS Integers, FiniteSets

CONSTANTS
  Fields,      \* fields of source records and headers of CSV files
  Computed,    \* formula and connector columns
  Types,       \* value types, "text" among them
  NoColumn,    \* where a field that is not mapped yet goes
  MaxRefs      \* bound: columns that one view, writeback or formula refers to

SchemaParameters == "text" \in Types /\ MaxRefs \in Nat

\* An input column is named after a field; when that name is taken by a
\* column that takes no text, the planner adds a suffix.
Inputs == Fields \X {"plain", "suffixed"}
Columns == Inputs \union Computed
ColumnSets == {s \in SUBSET Columns : Cardinality(s) <= MaxRefs}

VARIABLES
  table,      \* whether data_tables.archived_at is set
  column,     \* whether a column exists and its archived_at is set
  type,       \* value_type of the input columns
  deps,       \* column_dependencies of the computed columns
  stored,     \* the types of the non-empty cells of each input column
  source,     \* status, field_mapping, and whether a run is active
  import,     \* an import job's status and its column_mapping
  view,       \* the columns that the saved view filters or sorts by
  writeback   \* status and the columns that the destination refers to

schemaVars ==
  <<table, column, type, deps, stored, source, import, view, writeback>>

Lifecycle == {"none", "active", "archived"}
Switch == {"none", "active", "paused"}

SchemaTypeOK ==
  /\ table \in {"active", "archived"}
  /\ column \in [Columns -> Lifecycle]
  /\ type \in [Inputs -> Types]
  /\ deps \in [Computed -> SUBSET Columns]
  /\ stored \in [Inputs -> SUBSET Types]
  /\ source \in [status : Switch, running : BOOLEAN,
                 mapping : [Fields -> Inputs \union {NoColumn}]]
  /\ import \in [status : {"none", "queued", "running", "over"},
                 mapping : SUBSET Inputs]
  /\ view \subseteq Columns
  /\ writeback \in [status : Switch, refs : SUBSET Columns]

SchemaInit ==
  /\ table = "active"
  /\ \E f \in Fields :
       column = [c \in Columns |->
                   IF c = <<f, "plain">> THEN "active" ELSE "none"]
  /\ type = [c \in Inputs |-> "text"]
  /\ deps = [c \in Computed |-> {}]
  /\ stored = [c \in Inputs |-> {}]
  /\ source = [status |-> "none", running |-> FALSE,
               mapping |-> [f \in Fields |-> NoColumn]]
  /\ import = [status |-> "none", mapping |-> {}]
  /\ view = {}
  /\ writeback = [status |-> "none", refs |-> {}]

-----------------------------------------------------------------------------

Active == {c \in Columns : column[c] = "active"}

\* The columns that the source's stored mapping leads to.
Mapped == {source.mapping[f] : f \in Fields} \ {NoColumn}

Dependents(c) == {k \in Computed \intersect Active : c \in deps[k]}

ImportActive == import.status \in {"queued", "running"}

\* createSqliteInputColumn; the name of an archived column stays taken.
CreateInput(f, t) ==
  /\ table = "active"
  /\ column[<<f, "plain">>] = "none"
  /\ column' = [column EXCEPT ![<<f, "plain">>] = "active"]
  /\ type' = [type EXCEPT ![<<f, "plain">>] = t]
  /\ UNCHANGED <<table, deps, stored, source, import, view, writeback>>

\* createSqliteFormulaColumn and the connector columns of enrichments.ts, which
\* may depend on no column.
CreateComputed(k, on) ==
  /\ table = "active"
  /\ column[k] = "none"
  /\ on \subseteq Active
  /\ column' = [column EXCEPT ![k] = "active"]
  /\ deps' = [deps EXCEPT ![k] = on]
  /\ UNCHANGED <<table, type, stored, source, import, view, writeback>>

\* Wrong variant: dependent columns do not block the archival.
BlocksArchivalWeak(c) ==
  \/ Active = {c}
  \/ source.status = "active" /\ c \in Mapped
  \/ writeback.status = "active" /\ c \in writeback.refs
  \/ c \in view

\* The blockers of buildColumnArchivePreview.
BlocksArchival(c) ==
  \/ Active = {c}
  \/ Dependents(c) # {}
  \/ source.status = "active" /\ c \in Mapped
  \/ writeback.status = "active" /\ c \in writeback.refs
  \/ c \in view

\* archiveSqliteWorkspaceColumn
ArchiveColumn(c) ==
  /\ table = "active"
  /\ column[c] = "active"
  /\ ~BlocksArchival(c)
  /\ column' = [column EXCEPT ![c] = "archived"]
  /\ UNCHANGED <<table, type, deps, stored, source, import, view, writeback>>

\* restoreSqliteWorkspaceColumn, once its dependencies are restored.
RestoreColumn(c) ==
  /\ table = "active"
  /\ column[c] = "archived"
  /\ c \in Computed => \A d \in deps[c] : column[d] # "archived"
  /\ column' = [column EXCEPT ![c] = "active"]
  /\ UNCHANGED <<table, type, deps, stored, source, import, view, writeback>>

\* The blockers of buildColumnTypeConversionPreview: active work, dependents,
\* active mappings, writebacks and views.
BlocksConversion(c) ==
  \/ source.running
  \/ ImportActive
  \/ Dependents(c) # {}
  \/ source.status = "active" /\ c \in Mapped
  \/ c \in writeback.refs
  \/ c \in view

\* convertSqliteWorkspaceColumnType: a cell of another type than the column's
\* or that cannot be converted blocks it, and every other cell is converted.
ConvertType(c, t) ==
  /\ table = "active"
  /\ column[c] = "active"
  /\ type[c] # t
  /\ ~BlocksConversion(c)
  /\ stored[c] \subseteq {type[c]}
  /\ type' = [type EXCEPT ![c] = t]
  /\ stored' = [stored EXCEPT ![c] = IF @ = {} THEN {} ELSE {t}]
  /\ UNCHANGED <<table, column, deps, source, import, view, writeback>>

\* buildTableArchivePreview: active work, sources and writebacks block it;
\* the workspace has another table.
ArchiveTable ==
  /\ table = "active"
  /\ ~source.running /\ ~ImportActive
  /\ source.status # "active" /\ writeback.status # "active"
  /\ table' = "archived"
  /\ UNCHANGED <<column, type, deps, stored, source, import, view, writeback>>

\* restoreSqliteWorkspaceTable
RestoreTable ==
  /\ table = "archived"
  /\ table' = "active"
  /\ UNCHANGED <<column, type, deps, stored, source, import, view, writeback>>

-----------------------------------------------------------------------------

\* The cells of column c after some of them were overwritten or emptied and a
\* value of type t was written, or nothing.
Overwritten(c, t) ==
  {kept \union new : kept \in SUBSET stored[c], new \in {{}, {t}}}

\* writeSqliteGridCell: the value has the type of the column.
WriteCell(c) ==
  /\ column[c] = "active"
  /\ \E cells \in Overwritten(c, type[c]) :
       stored' = [stored EXCEPT ![c] = cells]
  /\ UNCHANGED <<table, column, type, deps, source, import, view, writeback>>

\* planCsvColumns: the column that a field goes to which has no mapping yet.
\* A column of that name that takes text is reused; a missing one is created,
\* with a suffix when a column of another type has the name.
Planned(f) ==
  IF column[<<f, "plain">>] = "active" /\ type[<<f, "plain">>] # "text"
    THEN <<f, "suffixed">> ELSE <<f, "plain">>

\* The planned column is free to be created, or is there to be reused.  The
\* name of an archived column is taken, and the insertion fails.  A suffix
\* that is in use already leads to a third column, which is not explored.
Available(f) ==
  \/ column[Planned(f)] = "none"
  \/ Planned(f) = <<f, "plain">> /\ column[Planned(f)] = "active"

\* The columns that a plan for the fields creates.
Created(fields) ==
  {c \in {Planned(f) : f \in fields} : column[c] = "none"}

CreateColumns(new) ==
  /\ column' = [c \in Columns |-> IF c \in new THEN "active" ELSE column[c]]
  /\ type' = [c \in Inputs |-> IF c \in new THEN "text" ELSE type[c]]

\* Text is written to some of the given columns.
WriteText(columns) ==
  \E cells \in [columns -> SUBSET Types] :
    /\ \A c \in columns : cells[c] \in Overwritten(c, "text")
    /\ stored' = [c \in Inputs |-> IF c \in columns THEN cells[c] ELSE stored[c]]

\* createSqliteSource; the mapping is made when the first page arrives.
CreateSource ==
  /\ table = "active"
  /\ source.status = "none"
  /\ source' = [source EXCEPT !.status = "active"]
  /\ UNCHANGED <<table, column, type, deps, stored, import, view, writeback>>

\* setSqliteSourceStatus(paused)
PauseSource ==
  /\ table = "active"
  /\ source.status = "active"
  /\ source' = [source EXCEPT !.status = "paused"]
  /\ UNCHANGED <<table, column, type, deps, stored, import, view, writeback>>

\* Every mapped column is active; of what type it is does not matter.
MayResume == \A c \in Mapped : column[c] = "active"

\* setSqliteSourceStatus(active)
ResumeSource ==
  /\ table = "active"
  /\ source.status = "paused"
  /\ MayResume
  /\ source' = [source EXCEPT !.status = "active"]
  /\ UNCHANGED <<table, column, type, deps, stored, import, view, writeback>>

\* A manual or a scheduled run is queued.
QueueRun ==
  /\ source.status = "active"
  /\ ~source.running
  /\ source' = [source EXCEPT !.running = TRUE]
  /\ UNCHANGED <<table, column, type, deps, stored, import, view, writeback>>

\* applySqliteSourcePage: the mappings to active columns are kept whatever
\* their type, the other fields of the page are planned anew, and the page's
\* values are written as text.  The last page ends the run.
ApplyPage(fields, last) ==
  LET kept == {f \in Fields : /\ source.mapping[f] # NoColumn
                              /\ column[source.mapping[f]] = "active"}
      new == fields \ kept
      mapping == [f \in Fields |->
        IF f \in kept THEN source.mapping[f]
        ELSE IF f \in new THEN Planned(f) ELSE NoColumn]
      mapped == {mapping[f] : f \in kept \union new}
  IN /\ source.running
     /\ \A f \in new : Available(f)
     /\ CreateColumns(Created(new))
     /\ WriteText(mapped)
     /\ source' = [source EXCEPT !.mapping = mapping, !.running = ~last]
     /\ UNCHANGED <<table, deps, import, view, writeback>>

\* The run fails.
FailRun ==
  /\ source.running
  /\ source' = [source EXCEPT !.running = FALSE]
  /\ UNCHANGED <<table, column, type, deps, stored, import, view, writeback>>

-----------------------------------------------------------------------------

\* createSqliteCsvImportJob
CreateImport ==
  /\ table = "active"
  /\ import.status = "none"
  /\ import' = [import EXCEPT !.status = "queued"]
  /\ UNCHANGED <<table, column, type, deps, stored, source, view, writeback>>

\* prepareSqliteCsvImport fixes the mapping of the headers.
PrepareImport(headers) ==
  /\ import.status = "queued"
  /\ headers # {}
  /\ \A f \in headers : Available(f)
  /\ CreateColumns(Created(headers))
  /\ import' = [status |-> "running", mapping |-> {Planned(f) : f \in headers}]
  /\ UNCHANGED <<table, deps, stored, source, view, writeback>>

\* applySqliteCsvImportBatch writes new rows through the mapping, of which it
\* checks nothing any more.
ImportRows ==
  /\ import.status = "running"
  /\ WriteText(import.mapping)
  /\ \A c \in import.mapping : stored[c] \subseteq stored'[c]
  /\ UNCHANGED <<table, column, type, deps, source, import, view, writeback>>

\* The import succeeds, fails or is cancelled; nothing reads its mapping any
\* more.
FinishImport ==
  /\ ImportActive
  /\ import' = [status |-> "over", mapping |-> {}]
  /\ UNCHANGED <<table, column, type, deps, stored, source, view, writeback>>

\* createSqliteSavedGridView, updateSqliteSavedGridView and, with no columns,
\* deleteSqliteSavedGridView.
SaveView(columns) ==
  /\ table = "active"
  /\ columns \subseteq Active
  /\ columns # view
  /\ view' = columns
  /\ UNCHANGED <<table, column, type, deps, stored, source, import, writeback>>

\* createSqliteWritebackDestination
CreateWriteback(columns) ==
  /\ table = "active"
  /\ writeback.status = "none"
  /\ columns # {} /\ columns \subseteq Active
  /\ writeback' = [status |-> "active", refs |-> columns]
  /\ UNCHANGED <<table, column, type, deps, stored, source, import, view>>

\* updateSqliteWritebackDestination validates the columns of a destination
\* that is active afterwards.
SwitchWriteback(status) ==
  /\ table = "active"
  /\ writeback.status \notin {"none", status}
  /\ status = "active" => writeback.refs \subseteq Active
  /\ writeback' = [writeback EXCEPT !.status = status]
  /\ UNCHANGED <<table, column, type, deps, stored, source, import, view>>

SchemaNext ==
  \/ \E f \in Fields, t \in Types : CreateInput(f, t)
  \/ \E k \in Computed : \E on \in ColumnSets : CreateComputed(k, on)
  \/ \E c \in Columns : ArchiveColumn(c) \/ RestoreColumn(c)
  \/ \E c \in Inputs, t \in Types : ConvertType(c, t)
  \/ ArchiveTable \/ RestoreTable
  \/ \E c \in Inputs : WriteCell(c)
  \/ CreateSource \/ PauseSource \/ ResumeSource \/ QueueRun \/ FailRun
  \/ \E fields \in SUBSET Fields, last \in BOOLEAN : ApplyPage(fields, last)
  \/ CreateImport \/ ImportRows \/ FinishImport
  \/ \E headers \in SUBSET Fields : PrepareImport(headers)
  \/ \E columns \in ColumnSets : SaveView(columns) \/ CreateWriteback(columns)
  \/ \E status \in {"active", "paused"} : SwitchWriteback(status)

SchemaSpec == SchemaInit /\ [][SchemaNext]_schemaVars

-----------------------------------------------------------------------------

\* What is in use refers only to columns that are in use: no order of
\* archivals, restorations, resumptions and pages leaves an active computed
\* column, source or writeback, or a saved view, with an archived column, and
\* the table keeps a column; and no conversion gets under an import, which
\* writes text through its mapping without another look at the columns.
ReferencesActive ==
  /\ Active # {}
  /\ \A k \in Computed \intersect Active : deps[k] \subseteq Active
  /\ source.status = "active" => Mapped \subseteq Active
  /\ writeback.status = "active" => writeback.refs \subseteq Active
  /\ view \subseteq Active
  /\ import.status = "running" =>
       \A c \in import.mapping : type[c] = "text"

=============================================================================
