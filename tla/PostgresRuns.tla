---------------------------- MODULE PostgresRuns ----------------------------
(***************************************************************************)
(* Transactions of the PostgreSQL predecessor on what leaves a table,      *)
(* webhooks and HubSpot writebacks, and those that queue the runs of       *)
(* connector cells: by hand, in bulk and when a row settles. Then the      *)
(* tasks of its worker: each is a series of transactions, with the process *)
(* holding no lock between them and what it has looked at in its memory. A *)
(* transaction that fails is as if it had not been tried; the task goes on *)
(* with the statement that records the failure.                            *)
(***************************************************************************)
EXTENDS PostgresTables

-----------------------------------------------------------------------------
\* Webhooks.

CreateWebhookDestination ==
  RequireTableAccess \o Read({"credential"}) \o Insert("webhook")

UpdateWebhookDestination ==
  RequireTableAccess \o Read({"webhook", "member"}) \o Lock("webhook") \o
  Replace("webhook", {"webhook"})

\* The values of a row with the status of its cells.
Shown == Values \cup {"output cell"}

LoadWebhookRowSnapshot == Read({"row", "table"}) \o Read({"column"} \cup Shown)

\* The row is joined to the destination that is locked and is not locked
\* itself: the delivery gets its version from before the wait for that lock
\* and the cells as they are afterwards.
QueueWebhookDelivery ==
  Read({"webhook", "table", "row", "member"}) \o Lock("webhook") \o
  LoadWebhookRowSnapshot \o
  Either(Derive("webhook delivery", {"webhook", "row"} \cup Shown) \o
           Insert("event"),
         Read({"webhook delivery"}))

\* Runs in the transaction of a settlement, which holds the row.
QueueSettledWebhookDeliveries ==
  Read({"row", "table"}) \o
  Perhaps(
    Read({"webhook"}) \o
    Perhaps(
      LoadWebhookRowSnapshot \o
      Repeat(Perhaps(
        Derive("webhook delivery", {"webhook", "row"} \cup Shown) \o
        Insert("event")))))

MarkWebhookDeliveryRunning ==
  Lock("webhook delivery") \o
  Replace("webhook delivery", {"webhook delivery"})

MarkWebhookDeliverySucceeded == Fence("webhook delivery") \o Update("webhook")

SetWebhookDeliveryWorkerFailure == Update("webhook delivery")

-----------------------------------------------------------------------------
\* Writebacks.  The destinations of a table are counted.

CreateWritebackDestination ==
  Exclude("writeback destinations") \o RequireTableAccess \o
  Read({"writeback"}) \o Read({"credential"}) \o
  Read({"column", "column type"}) \o
  Derive("writeback", {"column", "column type", New("writeback")})

\* A destination is resumed only if the columns it names are in use.
UpdateWritebackDestination ==
  RequireTableAccess \o Read({"writeback", "member"}) \o Lock("writeback") \o
  Either(Read({"column", "column type"}) \o
           Replace("writeback", {"writeback", "column", "column type"}),
         Replace("writeback", {"writeback"}))

PrepareWritebackDelivery == Read(Shown)

QueueWritebackDelivery ==
  RequireTableAccess \o Read({"writeback", "row", "member"}) \o
  Lock("writeback") \o Read({"writeback delivery"}) \o
  Perhaps(
    PrepareWritebackDelivery \o
    Either(Derive("writeback delivery", {"writeback", "row"} \cup Shown) \o
             Insert("event"),
           Read({"writeback delivery"})))

\* Runs in the transaction of a settlement, which holds the row.
QueueSettledWritebackDeliveries ==
  Read({"row", "table"}) \o
  Perhaps(
    Read({"writeback"}) \o
    Perhaps(
      Repeat(Read({"row"} \cup Shown) \o Perhaps(PrepareWritebackDelivery)) \o
      Perhaps(Repeat(Perhaps(
        Derive("writeback delivery", {"writeback", "row"} \cup Shown) \o
        Insert("event"))))))

MarkWritebackDeliveryRunning ==
  Lock("writeback delivery") \o
  Replace("writeback delivery", {"writeback delivery"})

MarkWritebackDeliverySucceeded ==
  Fence("writeback delivery") \o Update("writeback")

SetWritebackDeliveryWorkerFailure == Update("writeback delivery")

-----------------------------------------------------------------------------
\* One run.

\* The cell of the run is locked, or inserted, or locked after another
\* transaction has inserted it, and refused while it has an active run.
PrepareTargetCell ==
  Either(Lock("output cell") \o Replace("output cell", {"output cell"}),
         Read({"output cell"}) \o
         Either(Insert("output cell"),
                Lock("output cell") \o
                Replace("output cell", {"output cell"})))

\* The request is frozen from cells and from the configuration of the column.
QueueRun(from) ==
  PrepareTargetCell \o Derive("run", from) \o Insert("event")

QueueWithInput ==
  Read(Values) \o QueueRun({"column"} \cup Values)

QueueHttpRun == Perhaps(Read({"credential"})) \o QueueWithInput

QueueConnectorActionRun ==
  Read({"revocation"}) \o Perhaps(Read({"credential"})) \o
  Either(QueueWithInput, QueueRun({"column"}))

QueueHttpWaterfallRun == Perhaps(Read({"credential"})) \o QueueWithInput

QueueForConfiguration ==
  Either(QueueHttpWaterfallRun, Either(QueueConnectorActionRun, QueueHttpRun))

QueueEnrichmentCellRun ==
  Read({"column", "row", "table", "member"}) \o QueueForConfiguration

QueueAutomaticEnrichmentCellRun ==
  Read({"column", "row", "table"}) \o QueueForConfiguration

-----------------------------------------------------------------------------
\* Bulk runs.

\* All the looks of a preview are at one snapshot, the transaction that
\* confirms one is REPEATABLE READ; rows that leave the selection later are
\* found out when they are expanded.
ColumnPlan == {"column", "table", "member"}
SelectedRows == {"view", "row"} \cup Shown
ComputeBulkRunPreview == Read(ColumnPlan \cup SelectedRows)

CreateBulkRunBatch ==
  ComputeBulkRunPreview \o Insert("bulk batch") \o Insert("item") \o
  Insert("event")

CancelBulkRunBatch ==
  Lock("bulk batch") \o Read({"member"}) \o Update("item") \o Update("run") \o
  Perhaps(Update("output cell")) \o Replace("bulk batch", {"bulk batch"})

\* A row that is no longer as selected, or whose run is refused, is skipped.
ExpandItem ==
  Read({"output cell"}) \o
  Either(Replace("item", {"bulk batch"}),
         Either(QueueEnrichmentCellRun \o Replace("item", {"bulk batch"}),
                Read({"column", "row", "table", "member"}) \o
                Perhaps(Lock("output cell")) \o
                Replace("item", {"bulk batch"})))

ExpandBulkRunBatchChunk ==
  Lock("bulk batch") \o
  Either(Replace("bulk batch", {"bulk batch"}),
         Perhaps(Replace("bulk batch", {"bulk batch"})) \o
         LockFree("item") \o Perhaps(Repeat(ExpandItem)) \o
         Replace("bulk batch", {"bulk batch"}))

-----------------------------------------------------------------------------
\* Settlement of a row.  A row has two of them here, so that the tasks of both
\* can meet: "own" is the one that is processed, "other" a candidate that is
\* consumed with it.

\* Mutant: the settlement is locked before its row.
LockSettlementFirst(own) == Lock(own) \o Lock("row")

LockToSettle(own) == Lock("row") \o Lock(own)

\* A settlement that ends alone: the row has changed since, or a run of the
\* row is active.
CloseSettlement(own) == Replace(own, {own, "row"})

ConsumeCandidateSettlements(candidates) ==
  IF candidates = {} THEN <<>> ELSE Rewrite(candidates, candidates)

QueueAutomaticRuns(own, candidates) ==
  Repeat(QueueAutomaticEnrichmentCellRun) \o
  ConsumeCandidateSettlements(candidates \ {own}) \o CloseSettlement(own)

QueueSettledDeliveries(own, candidates) ==
  QueueSettledWritebackDeliveries \o
  Perhaps(QueueSettledWebhookDeliveries) \o
  ConsumeCandidateSettlements(candidates) \o CloseSettlement(own)

\* Settlements whose automatic runs, or whose writebacks, are too many are
\* consumed and fail.
Settle(own, candidates) ==
  Perhaps(Read({"dependency", "column"}) \o Perhaps(Read({"output cell"}))) \o
  Either(CloseSettlement(own),
         Either(ConsumeCandidateSettlements(candidates) \o
                  CloseSettlement(own),
                Either(QueueAutomaticRuns(own, candidates),
                       Read(Shown) \o
                       Either(CloseSettlement(own),
                              QueueSettledDeliveries(own, candidates)))))

\* The candidates, itself among them, are locked with the row held.
LockAndSettle(own, others) ==
  Lock(own) \o
  (IF others = {} THEN <<>> ELSE Statement("lock", others, {})) \o
  Settle(own, {own} \cup others)

ProcessRowSettlement(own, other) ==
  LockToSettle(own) \o
  Perhaps(
    Replace(own, {own}) \o
    Either(CloseSettlement(own),
           OneOf([n \in 1 .. 2 |-> LockAndSettle(own, <<{}, {other}>>[n])])))

SetRowSettlementWorkerFailure(own) == Update(own)

RunPrograms ==
  [queueEnrichmentCellRun |-> QueueEnrichmentCellRun,
   createBulkRunBatch |-> CreateBulkRunBatch,
   cancelBulkRunBatch |-> CancelBulkRunBatch]

DeliveryPrograms ==
  [createWebhookDestination |-> CreateWebhookDestination,
   updateWebhookDestination |-> UpdateWebhookDestination,
   queueWebhookDelivery |-> QueueWebhookDelivery,
   createWritebackDestination |-> CreateWritebackDestination,
   updateWritebackDestination |-> UpdateWritebackDestination,
   queueWritebackDelivery |-> QueueWritebackDelivery]

-----------------------------------------------------------------------------
\* The task of a cell run.

LoadExecution == Read({"run", "output cell", "key", "credential"}) \o Commit

MarkRunning == Fence("run") \o Replace("output cell", {"run"}) \o Commit

ExecuteStoredConnector ==
  Read({"revocation"}) \o Commit \o Perhaps(Update("credential") \o Commit)

ResolveWaterfallCredential ==
  Read({"credential"}) \o Commit \o Update("credential") \o Commit

\* What has been tried is saved on the run, without looking whether the run
\* is still this one's.
ExecuteStoredWaterfall ==
  Repeat(Perhaps(ResolveWaterfallCredential) \o
         Perhaps(Replace("run", {"run"}) \o Commit))

MarkSucceeded ==
  Read({"output cell"}) \o Lock("row") \o Fence("run") \o
  Rewrite({"output cell", "result"}, {"run"}) \o RecomputeDependentFormulas \o
  RecordRowMutation \o Insert("event") \o Perhaps(Insert("usage"))

MarkFailed ==
  Read({"output cell"}) \o Lock("row") \o Fence("run") \o
  Replace("output cell", {"run"}) \o RecordRowMutation \o Insert("event")

MarkRetryScheduled == Fence("run") \o Replace("output cell", {"run"})

\* A transition that is lost leaves the run as it is found.
ExecuteCellRun ==
  LoadExecution \o
  Perhaps(
    MarkRunning \o
    Perhaps(Either(ExecuteStoredConnector, ExecuteStoredWaterfall)) \o
    Either(MarkSucceeded, Either(MarkRetryScheduled, MarkFailed)) \o Commit) \o
  Perhaps(LoadExecution)

-----------------------------------------------------------------------------
\* Tasks of deliveries, settlements and bulk runs.

LoadWebhookExecution ==
  Read({"webhook", "webhook delivery", "credential", "key"}) \o Commit

ExecuteWebhookDelivery ==
  MarkWebhookDeliveryRunning \o Commit \o Perhaps(LoadWebhookExecution) \o
  Either(MarkWebhookDeliverySucceeded \o Commit \o Update("credential"),
         SetWebhookDeliveryWorkerFailure)

LoadWritebackExecution ==
  Read({"writeback", "writeback delivery", "credential", "key"}) \o Commit

ExecuteWritebackDelivery ==
  MarkWritebackDeliveryRunning \o Commit \o Perhaps(LoadWritebackExecution) \o
  Either(MarkWritebackDeliverySucceeded \o Commit \o Update("credential"),
         SetWritebackDeliveryWorkerFailure)

RowSettlements == <<"settlement", "earlier settlement">>

RunRowSettlement ==
  OneOf([n \in 1 .. 2 |->
    Either(ProcessRowSettlement(RowSettlements[n], RowSettlements[3 - n]),
           SetRowSettlementWorkerFailure(RowSettlements[n]))])

ExpandBulkRun == Repeat(ExpandBulkRunBatchChunk \o Commit)

-----------------------------------------------------------------------------
\* Tasks that bring records in.

LoadSourceExecution ==
  Read({"source", "source run", "credential", "key"}) \o Commit

ExecuteSourceRun ==
  MarkSourceRunRunning \o Commit \o
  Perhaps(LoadSourceExecution \o Perhaps(Update("credential") \o Commit) \o
          Perhaps(Repeat(ApplySourceRunPage \o Commit \o
                         Perhaps(LoadSourceExecution)))) \o
  Perhaps(SetSourceRunWorkerFailure)

\* A batch that waits for an earlier one asks again after a second.
ApplyIngestionBatch ==
  Perhaps(Repeat(MarkIngestionBatchRunning \o Commit) \o
          Perhaps(Repeat(ApplyIngestionBatchChunk \o Commit))) \o
  Perhaps(SetIngestionBatchWorkerFailure)

ApplyCsvImport ==
  Perhaps(PrepareCsvImport \o Commit \o
          Perhaps(Repeat(ApplyCsvImportBatch \o Commit))) \o
  Perhaps(SetCsvImportWorkerFailure)

-----------------------------------------------------------------------------
\* Loops of the worker and of the projector.

DispatchBatch ==
  ClaimOutboxEvents \o Commit \o
  Perhaps(Repeat(Either(CompleteOutboxEvent, RetryOutboxEvent) \o Commit))

ProjectAnalyticsBatch ==
  ClaimAnalyticsEvents \o Commit \o
  Perhaps(Read({"receipt"}) \o Commit \o
          Either(CompleteAnalyticsEvents, RetryAnalyticsEvents))

EraseWorkspaces ==
  ClaimWorkspaceAnalyticsErasures \o Commit \o
  Perhaps(Repeat(Either(CompleteWorkspaceAnalyticsErasure,
                        RetryWorkspaceAnalyticsErasure) \o Commit))

ScheduleSources == QueueDueSourceRuns

WorkerPrograms ==
  [executeCellRun |-> ExecuteCellRun,
   executeWebhookDelivery |-> ExecuteWebhookDelivery,
   executeWritebackDelivery |-> ExecuteWritebackDelivery,
   runRowSettlement |-> RunRowSettlement,
   expandBulkRun |-> ExpandBulkRun,
   executeSourceRun |-> ExecuteSourceRun,
   applyIngestionBatch |-> ApplyIngestionBatch,
   applyCsvImport |-> ApplyCsvImport,
   dispatchBatch |-> DispatchBatch,
   projectAnalyticsBatch |-> ProjectAnalyticsBatch,
   eraseWorkspaces |-> EraseWorkspaces,
   scheduleSources |-> ScheduleSources]

=============================================================================
