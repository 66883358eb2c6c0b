--------------------------- MODULE PostgresTables ---------------------------
(***************************************************************************)
(* The records the transactions of the PostgreSQL predecessor meet at, the *)
(* foreign keys between them, and the statements a transaction is made of; *)
(* then, as the statements they execute in order, its transactions on      *)
(* workspaces and their tables: tables, columns, views, formulas and       *)
(* single cells; the sources, the push ingestion and the CSV imports that  *)
(* bring records into a table; workspaces, members, credentials and        *)
(* connector revocations; and the leases on the events of the outbox and   *)
(* on the receipts of purged workspaces.                                   *)
(*                                                                         *)
(* There is one record of each kind, so any two transactions meet, and two *)
(* settlements of the row, whose transactions lock both. The table of      *)
(* cells appears three times: an input cell, the cell of a formula and the *)
(* cell of a connector, whose result is told from its status. What the     *)
(* conversion of a type rewrites is told from the rest of the column and   *)
(* of its cells: nothing else uses the values of a column that is          *)
(* converted. Users are left out, no transaction locks one.                *)
(***************************************************************************)
EXTENDS Integers, Sequences

-----------------------------------------------------------------------------
\* Foreign keys: a record, the record it refers to, and what the deletion of
\* the latter does.

WorkspaceKeys ==
  {<<"member", "workspace", "cascade">>, <<"hold", "workspace", "cascade">>,
   <<"invitation", "workspace", "cascade">>}

RevocationKeys == {<<"revocation", "workspace", "cascade">>}

TableKeys ==
  {<<x, "workspace", "cascade">> :
     x \in {"table", "column", "view", "dependency"}} \cup
  {<<"column", "table", "cascade">>, <<"view", "table", "cascade">>,
   <<"dependency", "column", "cascade">>}

\* Schema lifecycle events, rows and cells.
Cells == {"cell", "formula cell", "output cell"}

RowKeys ==
  {<<x, "workspace", "cascade">> : x \in {"change", "row"} \cup Cells} \cup
  {<<x, "table", "cascade">> : x \in {"row"} \cup Cells} \cup
  {<<x, y, "cascade">> : x \in Cells, y \in {"row", "column"}}

ImportKeys ==
  {<<x, "workspace", "cascade">> : x \in {"import", "key", "credential"}} \cup
  {<<"import", "table", "cascade">>, <<"staged row", "import", "cascade">>}

SourceKeys ==
  {<<"source", "workspace", "cascade">>, <<"source", "table", "cascade">>,
   <<"source", "credential", "restrict">>}

SourceRunKeys ==
  {<<"source run", "source", "cascade">>,
   <<"source record", "source run", "set null">>,
   <<"source record", "source", "cascade">>,
   <<"source record", "row", "cascade">>}

EndpointKeys ==
  {<<"endpoint", "workspace", "cascade">>, <<"endpoint", "table", "cascade">>,
   <<"push batch", "endpoint", "cascade">>}

PushKeys ==
  {<<"staged record", "push batch", "cascade">>,
   <<"push record", "push batch", "set null">>,
   <<"push record", "endpoint", "cascade">>,
   <<"push record", "row", "cascade">>}

WebhookKeys ==
  {<<"webhook", "workspace", "cascade">>, <<"webhook", "table", "cascade">>,
   <<"webhook", "credential", "restrict">>,
   <<"webhook delivery", "webhook", "cascade">>,
   <<"webhook delivery", "row", "cascade">>}

WritebackKeys ==
  {<<"writeback", "workspace", "cascade">>,
   <<"writeback", "table", "cascade">>,
   <<"writeback", "credential", "restrict">>,
   <<"writeback", "column", "restrict">>,
   <<"writeback delivery", "writeback", "cascade">>,
   <<"writeback delivery", "row", "cascade">>}

RunKeys ==
  {<<x, "workspace", "cascade">> :
     x \in {"settlement", "earlier settlement", "bulk batch"}} \cup
  {<<"settlement", "row", "cascade">>,
   <<"earlier settlement", "row", "cascade">>,
   <<"bulk batch", "table", "cascade">>, <<"bulk batch", "column", "cascade">>}

CellRunKeys ==
  {<<x, "workspace", "cascade">> : x \in {"run", "usage"}} \cup
  {<<"run", "output cell", "cascade">>, <<"run", "credential", "restrict">>,
   <<"item", "run", "set null">>, <<"item", "bulk batch", "cascade">>,
   <<"item", "row", "cascade">>, <<"usage", "run", "cascade">>}

OutboxKeys == {<<"event", "workspace", "cascade">>}

ForeignKeys ==
  WorkspaceKeys \cup RevocationKeys \cup TableKeys \cup RowKeys \cup
  ImportKeys \cup SourceKeys \cup SourceRunKeys \cup EndpointKeys \cup
  PushKeys \cup WebhookKeys \cup WritebackKeys \cup RunKeys \cup
  CellRunKeys \cup OutboxKeys

\* A user's own workspace and its first member are records of their own, so
\* that they do not meet the workspace the other transactions are in.
Records ==
  {fk[1] : fk \in ForeignKeys} \cup
  {"workspace", "receipt", "personal workspace", "personal member"}

\* The record that a part of one is locked with.
RowOf(x) ==
  CASE x = "column type" -> "column"
    [] x = "cell type" -> "cell"
    [] x = "result" -> "output cell"
    [] OTHER -> x

Related(S, action) ==
  {fk[1] : fk \in {k \in ForeignKeys : k[2] \in S /\ k[3] = action}}

\* What the check of the foreign keys of a new record locks.
Parents(S) ==
  {fk[2] : fk \in {k \in ForeignKeys : k[1] \in S}} \cup
  (IF "personal member" \in S THEN {"personal workspace"} ELSE {})

\* What goes with a record, down to the children of its grandchildren, and
\* what stays and loses its reference.
Cascade(S) ==
  LET Down(T) == T \cup Related(T, "cascade")
  IN  Down(Down(Down(Down(S))))

Cleared(S) ==
  LET Gone == Cascade(S)
  IN  Related(Gone, "set null") \ Gone

\* Records that a second insertion with the same key waits for.
Unique ==
  {"member", "invitation", "revocation", "column", "view", "receipt", "key",
   "cell", "formula cell", "output cell", "staged row", "source run",
   "source record", "push batch", "push record", "staged record",
   "webhook delivery", "writeback delivery", "settlement", "item", "usage",
   "personal workspace", "personal member"}

-----------------------------------------------------------------------------
\* Facts a transaction looks at: a record, and that there is no other of its
\* kind.

New(x) == "new " \o x

WithNew(S) == S \cup {New(x) : x \in S}

\* What formulas, requests and deliveries are made from.
Values == {"cell", "formula cell", "result"}

\* What is queued or running somewhere in a workspace.
Work ==
  {"output cell", "import", "source run", "push batch", "webhook delivery",
   "writeback delivery", "bulk batch", "run", "settlement"}

-----------------------------------------------------------------------------
\* Statements.  A program is a sequence of them, in the order a transaction
\* executes them; "from" are the facts the statement relies on and does not
\* look at again, and "over" is how far a statement of control goes.

Statement(do, on, from) ==
  <<[do |-> do, on |-> on, from |-> from, over |-> 0]>>

\* SELECT, SELECT ... FOR UPDATE, and the same with SKIP LOCKED, which does
\* not wait.
Read(records) == Statement("read", records, {})
Lock(record) == Statement("lock", {record}, {})
LockFree(record) == Statement("claim", {record}, {})

\* Transaction-level advisory locks.
Share(name) == Statement("share", {name}, {})
Exclude(name) == Statement("exclude", {name}, {})

\* UPDATE: Update is relative to the current record or repeats in its WHERE
\* what it depends on, Replace relies on what was looked at before, and Fence
\* goes on only if its WHERE has found the record as it must be.
Rewrite(records, from) == Statement("update", records, from)
Replace(record, from) == Rewrite({record}, from)
Update(record) == Replace(record, {})
Fence(record) == Statement("fence", {record}, {})

\* INSERT, which goes on with the check of the foreign keys; what is left to
\* ON CONFLICT DO NOTHING is a statement that may be left out.
Derive(record, from) ==
  Statement("insert", {record}, from) \o Statement("refer", {record}, {})
Insert(record) == Derive(record, {})

\* DELETE, which deletes and clears what refers to the record.
Remove(record, from) ==
  Statement("delete", {record}, from) \o Statement("clear", {record}, {})
Delete(record) == Remove(record, {})

\* The end of a transaction in a program that goes on with another, and the
\* end of the program.
Commit == Statement("commit", {}, {})
End == Statement("end", {}, {})

\* The foreign keys tell the records that a check locks, that a deletion takes
\* with it and that it clears.
Keyed(s) ==
  CASE s.do = "refer" -> [s EXCEPT !.on = Parents(@)]
    [] s.do = "delete" -> [s EXCEPT !.on = Cascade(@)]
    [] s.do = "clear" -> [s EXCEPT !.do = "update", !.on = Cleared(@)]
    [] OTHER -> s

\* Control: "skip" goes on, or to the statement that many further, and "jump"
\* always goes there.
Control(do, over) == <<[do |-> do, on |-> {}, from |-> {}, over |-> over]>>

\* A block that may be left out, one of two blocks, and a block that may be
\* repeated.
Perhaps(P) == Control("skip", Len(P)) \o P
OneOf(blocks) ==
  Control("skip", Len(blocks[1]) + 1) \o blocks[1] \o
  Control("jump", Len(blocks[2])) \o blocks[2]
Either(P, Q) == OneOf(<<P, Q>>)
Repeat(P) == P \o Control("skip", -(Len(P) + 1))

\* Programs to their ends, with what the foreign keys tell.
AllLaidOut(programs) ==
  [op \in DOMAIN programs |->
     [at \in DOMAIN programs[op] |-> Keyed(programs[op][at])] \o End]

-----------------------------------------------------------------------------
\* A change of a row raises its version and, if a destination or an automatic
\* column waits for it, records a settlement unless this version has one.
RecordRowMutation ==
  Update("row") \o
  Read({"webhook", "writeback", "dependency", "column", "settlement"}) \o
  Perhaps(Insert("settlement") \o Insert("event"))

\* Formulas that depend on a change are written again, in their order.
RecomputeDependentFormulas ==
  Read({"column", "dependency"} \cup Values) \o
  Perhaps(Repeat(Either(Replace("formula cell", {"cell", "result"}),
                        Derive("formula cell", {"cell", "result"}))))

RequireTableAccess == Read({"table", "member"})

\* A statement of its own, in no transaction with the look at the table.
CreateGridRow == RequireTableAccess \o Commit \o Insert("row")

\* What a cell is written from is looked at, then the row is locked.
WriteCell ==
  LET Seen == {"row", "column", "column type"}
  IN  Read(Seen \cup {"member"}) \o Lock("row") \o Read({"cell"}) \o
      Either(Derive("cell", Seen), Replace("cell", Seen)) \o
      RecomputeDependentFormulas \o RecordRowMutation

\* Mutant: a conversion of the column is not waited for.
WriteGridCellUnguarded == RequireTableAccess \o WriteCell

WriteGridCell == RequireTableAccess \o Share("cell schema") \o WriteCell

-----------------------------------------------------------------------------
\* Tables and columns are counted and their names compared.

CreateWorkspaceTable ==
  Exclude("workspace tables") \o Read({"member"}) \o Read({"table"}) \o
  Derive("table", WithNew({"table"})) \o Insert("column")

RenameWorkspaceTable ==
  Exclude("workspace tables") \o RequireTableAccess \o Read({"table"}) \o
  Replace("table", WithNew({"table"}))

CreateInputColumn ==
  Exclude("table columns") \o RequireTableAccess \o Read({"column"}) \o
  Derive("column", WithNew({"column"}))

\* The formula's first values are computed from rows it does not lock.
CreateFormulaColumn ==
  RequireTableAccess \o Read({"column", "column type"}) \o Insert("column") \o
  Derive("dependency", {"column", "column type"}) \o Read({"row"}) \o
  Perhaps(Repeat(RecomputeDependentFormulas \o RecordRowMutation))

\* Columns that run a connector, an HTTP request or a waterfall of them.
CreateConnectorActionColumn ==
  Read({"revocation"}) \o
  Either(Read({"column", "table", "member"}) \o
           Perhaps(Read({"credential"})) \o Insert("column") \o
           Derive("dependency", {"column"}),
         Perhaps(Read({"credential"})) \o Insert("column"))

CreateHttpWaterfallColumn ==
  Read({"column", "table", "member"}) \o Perhaps(Read({"credential"})) \o
  Insert("column") \o Derive("dependency", {"column"})

CreateHttpEnrichmentColumn ==
  Read({"column", "table", "member"}) \o Perhaps(Read({"credential"})) \o
  Insert("column") \o Derive("dependency", {"column"})

-----------------------------------------------------------------------------
\* Saved views refer to columns by what they are when the view is saved.

ValidateViewColumns == Read({"column", "column type"})

CreateSavedGridView ==
  Exclude("saved views") \o RequireTableAccess \o
  Either(ValidateViewColumns \o Read({"view"}) \o
           Derive("view", {"column", "column type"} \cup WithNew({"view"})),
         Read({"view"}) \o Derive("view", WithNew({"view"})))

UpdateSavedGridView ==
  Exclude("saved views") \o RequireTableAccess \o
  Either(ValidateViewColumns \o Read({"view"}) \o
           Replace("view", {"column", "column type"} \cup WithNew({"view"})),
         Read({"view"}) \o Replace("view", WithNew({"view"})))

DeleteSavedGridView ==
  Exclude("saved views") \o RequireTableAccess \o Delete("view")

-----------------------------------------------------------------------------
\* Schema lifecycle.  A table or a column is archived, and a column converted,
\* only if nothing active names it and nothing that uses it is under way.

TableUsers ==
  {"source", "webhook", "writeback", "output cell", "import", "source run",
   "webhook delivery", "writeback delivery", "bulk batch", "settlement"}

ArchiveWorkspaceTable ==
  Exclude("workspace tables") \o Read({"member"}) \o
  Read({"table", "row", "column", "view"} \cup TableUsers) \o
  Replace("table", WithNew({"table"} \cup TableUsers)) \o Insert("change")

RestoreWorkspaceTable ==
  Exclude("workspace tables") \o Read({"member"}) \o Read({"table"}) \o
  Replace("table", {"table"}) \o Insert("change")

ColumnUsers == {"dependency", "source", "writeback", "view", "output cell"}

ArchiveWorkspaceColumn ==
  Exclude("table columns") \o Read({"member"}) \o Read({"table"}) \o
  Read({"column"}) \o Read({"cell"} \cup ColumnUsers) \o
  Replace("column", {"column"} \cup WithNew(ColumnUsers)) \o Insert("change")

RestoreWorkspaceColumn ==
  Exclude("table columns") \o Read({"member"}) \o Read({"table"}) \o
  Read({"column"}) \o Read({"dependency", "column"}) \o
  Replace("column", {"column", "dependency"}) \o Insert("change")

\* Cells are looked at twice, for the preview and to convert them.
ConversionUsers ==
  ColumnUsers \cup {"import", "source run", "push batch", "endpoint"}

ScanColumnTypeConversion == Repeat(Read({"cell", "row"}))

ColumnTypeConversionPreview ==
  Read({"table"}) \o Read({"column", "column type"}) \o
  Read(ConversionUsers) \o ScanColumnTypeConversion

\* An upsert in the code, of cells that are there as long as no other writer
\* holds the shared schema lock.
ApplyColumnTypeConversion ==
  Read({"cell"}) \o
  Perhaps(Repeat(Replace("cell type", {"cell", "column type"}) \o
                 Read({"cell"})))

ConvertWorkspaceColumnType ==
  Read({"member"}) \o Exclude("cell schema") \o Exclude("table columns") \o
  ColumnTypeConversionPreview \o ApplyColumnTypeConversion \o
  Replace("column type",
          {"cell", "column", "column type"} \cup WithNew(ConversionUsers)) \o
  Insert("change")

TablePrograms ==
  [createGridRow |-> CreateGridRow,
   writeGridCell |-> WriteGridCell,
   createWorkspaceTable |-> CreateWorkspaceTable,
   renameWorkspaceTable |-> RenameWorkspaceTable,
   createInputColumn |-> CreateInputColumn,
   createFormulaColumn |-> CreateFormulaColumn,
   createConnectorActionColumn |-> CreateConnectorActionColumn,
   createHttpWaterfallColumn |-> CreateHttpWaterfallColumn,
   createHttpEnrichmentColumn |-> CreateHttpEnrichmentColumn,
   createSavedGridView |-> CreateSavedGridView,
   updateSavedGridView |-> UpdateSavedGridView,
   deleteSavedGridView |-> DeleteSavedGridView,
   archiveWorkspaceTable |-> ArchiveWorkspaceTable,
   restoreWorkspaceTable |-> RestoreWorkspaceTable,
   archiveWorkspaceColumn |-> ArchiveWorkspaceColumn,
   restoreWorkspaceColumn |-> RestoreWorkspaceColumn,
   convertWorkspaceColumnType |-> ConvertWorkspaceColumnType]

-----------------------------------------------------------------------------
\* Sources.

CreateHttpJsonSource ==
  RequireTableAccess \o Perhaps(Read({"credential"})) \o Insert("source")

CreateHubSpotContactsSource ==
  RequireTableAccess \o Read({"credential"}) \o Insert("source")

\* A source is resumed only if the columns it maps are in use.
SetSourceStatus ==
  RequireTableAccess \o Read({"source", "member"}) \o Lock("source") \o
  Either(Read({"column"}) \o Replace("source", {"source", "column"}),
         Replace("source", {"source"}))

EnqueueSourceRun == Insert("event")

\* A source has one active run: both ways of queueing one look for another
\* under the lock of the source.
QueueManualSourceRun ==
  RequireTableAccess \o Read({"source", "member"}) \o Lock("source") \o
  Read({"source run"}) \o
  Derive("source run", {"source", New("source run")}) \o EnqueueSourceRun

\* The next time is set also for a source whose last run is still active.
QueueDueSourceRuns ==
  Perhaps(Repeat(
    LockFree("source") \o Replace("source", {"source"}) \o
    Perhaps(Read({"source run"}) \o
            Derive("source run", {"source", New("source run")}) \o
            EnqueueSourceRun)))

MarkSourceRunRunning ==
  Lock("source run") \o Replace("source run", {"source run"})

-----------------------------------------------------------------------------
\* A page of a source: the columns of its fields, rows of records that are
\* new or return, the cells of its records anew, and, at the end of a run, the
\* records it missed.

MapFields ==
  Read({"column", "column type"}) \o Perhaps(Repeat(Insert("column")))

RestoreRecords ==
  Replace("row", {"source record"}) \o
  Replace("source record", {"source record"})

ReplaceCells ==
  Delete("cell") \o Perhaps(Derive("cell", {"column", "column type"})) \o
  Repeat(RecomputeDependentFormulas \o RecordRowMutation)

ArchiveMissing ==
  Read({"source record"}) \o Lock("source record") \o
  Perhaps(Replace("row", {"source record"}) \o
          Replace("source record", {"source record"}))

ApplySourceRunPage ==
  Read({"source", "source run"}) \o Lock("source run") \o
  Share("cell schema") \o MapFields \o Read({"source record"}) \o
  Perhaps(RestoreRecords) \o
  Perhaps(Insert("row") \o Insert("source record")) \o
  Perhaps(ReplaceCells) \o
  Perhaps(Update("source record")) \o
  Perhaps(ArchiveMissing) \o
  Update("source") \o Replace("source run", {"source run"}) \o
  Perhaps(Insert("event"))

SetSourceRunWorkerFailure == Update("source run")

-----------------------------------------------------------------------------
\* Push ingestion.

CreateIngestionEndpoint == RequireTableAccess \o Insert("endpoint")

RevokeIngestionEndpoint == Update("endpoint")

\* A repeated request finds the batch of the first.
StageIngestionBatch ==
  Read({"endpoint"}) \o
  Either(Insert("push batch") \o Insert("staged record") \o Insert("event"),
         Read({"push batch"}))

\* Batches wait for the earlier batches of their endpoint.
MarkIngestionBatchRunning ==
  Lock("endpoint") \o Lock("push batch") \o Read({"push batch"}) \o
  Replace("push batch", WithNew({"push batch"}))

ApplyIngestionBatchChunk ==
  Read({"push batch", "endpoint"}) \o Lock("push batch") \o
  Share("cell schema") \o Read({"staged record"}) \o
  Either(Replace("push batch", {"push batch"}) \o Delete("staged record") \o
           Insert("event"),
         MapFields \o Read({"push record"}) \o
         Perhaps(Insert("row") \o Insert("push record")) \o
         Perhaps(ReplaceCells) \o
         Update("push record") \o Replace("push batch", {"push batch"}) \o
         Update("endpoint"))

SetIngestionBatchWorkerFailure == Update("push batch")

-----------------------------------------------------------------------------
\* CSV imports.

CreateCsvImportJob == RequireTableAccess \o Commit \o Insert("import")

StageCsvImportRows ==
  Read({"import", "member"}) \o Lock("import") \o Insert("staged row") \o
  Replace("import", {"import"})

QueueCsvImport ==
  Read({"import", "member"}) \o Lock("import") \o
  Replace("import", {"import"}) \o Insert("event")

FailCsvImportUpload == Update("import") \o Perhaps(Delete("staged row"))

PrepareCsvImport ==
  Lock("import") \o
  Either(MapFields \o Replace("import", {"import", "column", "column type"}),
         Replace("import", {"import"}))

\* The mapping was fixed when the import was prepared.
ApplyCsvImportBatch ==
  Lock("import") \o Share("cell schema") \o Read({"staged row"}) \o
  Either(Replace("import", {"import"}) \o Delete("staged row") \o
           Insert("event"),
         Insert("row") \o Perhaps(Derive("cell", {"import"})) \o
         Repeat(RecomputeDependentFormulas \o RecordRowMutation) \o
         Replace("import", {"import"}))

SetCsvImportWorkerFailure == Update("import")

FeedPrograms ==
  [createHttpJsonSource |-> CreateHttpJsonSource,
   createHubSpotContactsSource |-> CreateHubSpotContactsSource,
   setSourceStatus |-> SetSourceStatus,
   queueManualSourceRun |-> QueueManualSourceRun,
   createIngestionEndpoint |-> CreateIngestionEndpoint,
   revokeIngestionEndpoint |-> RevokeIngestionEndpoint,
   stageIngestionBatch |-> StageIngestionBatch,
   createCsvImportJob |-> CreateCsvImportJob,
   stageCsvImportRows |-> StageCsvImportRows,
   queueCsvImport |-> QueueCsvImport,
   failCsvImportUpload |-> FailCsvImportUpload]

-----------------------------------------------------------------------------
\* Workspaces.

\* The first tables of the new workspace, which nobody else can see, are part
\* of it.
EnsurePersonalWorkspace ==
  Exclude("personal workspace") \o Read({"member", "personal member"}) \o
  Perhaps(
    Derive("personal workspace", {New("member"), New("personal member")}) \o
    Insert("personal member"))

BuildWorkspacePurgePreview ==
  Read({"workspace", "member"}) \o Lock("workspace") \o
  Read(Work \cup {"hold", "change", "revocation", "usage", "event", "cell",
                  "column", "credential", "source", "endpoint", "webhook",
                  "writeback", "invitation", "member", "row", "table"})

\* A workspace is deleted when no work is under way; work that is over does
\* not start again, only new work counts.
PurgeWorkspace ==
  Exclude("workspace purge") \o BuildWorkspacePurgePreview \o
  Insert("receipt") \o
  Remove("workspace", {"workspace"} \cup {New(x) : x \in Work \cup {"hold"}})

-----------------------------------------------------------------------------
\* Members and their invitations.

RequireMembershipRole == Read({"member"})

CreateWorkspaceInvitation ==
  RequireMembershipRole \o Exclude("invitation email") \o
  Read({"member"}) \o Read({"invitation"}) \o
  Perhaps(Replace("invitation", {"invitation"})) \o
  Derive("invitation", {New("member"), New("invitation")})

AcceptWorkspaceInvitation ==
  Lock("invitation") \o Replace("invitation", {"invitation"}) \o
  Perhaps(Insert("member")) \o Read({"member"})

RevokeWorkspaceInvitation ==
  RequireMembershipRole \o Read({"invitation"}) \o
  Replace("invitation", {"invitation"})

UpdateWorkspaceMemberRole ==
  RequireMembershipRole \o Read({"member"}) \o Replace("member", {"member"})

RemoveWorkspaceMember ==
  RequireMembershipRole \o Read({"member"}) \o Remove("member", {"member"})

-----------------------------------------------------------------------------
\* Credentials and connector revocations.

\* The key of the workspace is looked at again if it had to be inserted.
CreateEncryptedCredential ==
  Read({"member"}) \o Read({"key"}) \o
  Perhaps(Perhaps(Insert("key")) \o Read({"key"})) \o
  Derive("credential", {"key"})

RevokeCredential == Read({"member"}) \o Update("credential")

CreateConnectorRevocation == Read({"member"}) \o Insert("revocation")

LiftConnectorRevocation ==
  Read({"member"}) \o Lock("revocation") \o
  Replace("revocation", {"revocation"})

-----------------------------------------------------------------------------
\* Leases: a claim skips what others have locked, and what ends it repeats
\* the claim in its WHERE.

ClaimOutboxEvents == LockFree("event") \o Perhaps(Replace("event", {"event"}))

CompleteOutboxEvent == Fence("event")

RetryOutboxEvent == Fence("event")

ClaimAnalyticsEvents ==
  LockFree("event") \o Perhaps(Replace("event", {"event"}))

CompleteAnalyticsEvents == Fence("event")

RetryAnalyticsEvents == Fence("event")

ClaimWorkspaceAnalyticsErasures ==
  LockFree("receipt") \o Perhaps(Replace("receipt", {"receipt"}))

CompleteWorkspaceAnalyticsErasure == Fence("receipt")

RetryWorkspaceAnalyticsErasure == Fence("receipt")

AccountPrograms ==
  [ensurePersonalWorkspace |-> EnsurePersonalWorkspace,
   purgeWorkspace |-> PurgeWorkspace,
   createWorkspaceInvitation |-> CreateWorkspaceInvitation,
   acceptWorkspaceInvitation |-> AcceptWorkspaceInvitation,
   revokeWorkspaceInvitation |-> RevokeWorkspaceInvitation,
   updateWorkspaceMemberRole |-> UpdateWorkspaceMemberRole,
   removeWorkspaceMember |-> RemoveWorkspaceMember,
   createEncryptedCredential |-> CreateEncryptedCredential,
   revokeCredential |-> RevokeCredential,
   createConnectorRevocation |-> CreateConnectorRevocation,
   liftConnectorRevocation |-> LiftConnectorRevocation]

=============================================================================
