------------------------------ MODULE StepRows ------------------------------
(***************************************************************************)
(* What a step of a workflow run does to the rows it is given              *)
(* (apps/workflow-worker/src/execute-step.ts): a write-table step inserts  *)
(* a row for each in one transaction; an enrichment or a webhook step      *)
(* first inserts a record for each, a cell run or a delivery with an       *)
(* identifier derived from run, step and row, and then executes the        *)
(* records in chunks, those of a chunk at once, with retries of its own.   *)
(* None of the records has an event in the outbox.                         *)
(*                                                                         *)
(* An executor is one claim of the step: executeWorkflowRun draws a new    *)
(* identifier for each.  Module WorkflowRun has the claims in full and     *)
(* this module what an executor does under one.  A slow executor is        *)
(* overtaken when its lease expires and goes on.                           *)
(***************************************************************************)
EXTENDS Integers, FiniteSets

CONSTANTS
  StepRowsGiven,   \* the rows of the inbound batch, naturals in its order
  Executors,       \* claims of the step
  NoExecutor,      \* the null value of claim_id
  ChunkSize,       \* records executed at once: five
  ItemRetries,     \* MAXIMUM_SQLITE_CELL_RUN_RETRIES, MAXIMUM_WEBHOOK_RETRIES
  MaxStepFaults    \* bound: failed statements and crashes

StepRowsParameters ==
  /\ StepRowsGiven \subseteq Nat
  /\ NoExecutor \notin Executors
  /\ ChunkSize \in Nat \ {0}
  /\ {ItemRetries, MaxStepFaults} \subseteq Nat

VARIABLES
  kind,       \* the kind of the step
  step,       \* its status in workflow_step_runs
  claim,      \* its claim_id
  record,     \* cell_runs, webhook_deliveries or target rows, by source row
  at,         \* where each executor is
  list,       \* the records each executor was given to execute
  chunk,      \* the chunk it executes, from zero
  thread,     \* where it is with each record, and the retries so far
  stepFaults  \* failed statements and crashes so far

ledger == <<step, claim>>
executor == <<at, list, chunk, thread>>
stepRowsVars == <<kind, ledger, record, executor, stepFaults>>

Kind == {"enrich", "webhook", "write"}
Stage == {"start", "calling", "accepted", "retryable", "fatal",
          "done", "rejected"}

StepRowsTypeOK ==
  /\ kind \in Kind
  /\ step \in {"ready", "running", "succeeded", "failed", "cancelled"}
  /\ claim \in Executors \union {NoExecutor}
  /\ record \in [StepRowsGiven ->
       {"absent", "queued", "running", "succeeded", "failed"}]
  /\ at \in [Executors -> {"idle", "queueing", "working", "failing", "over"}]
  /\ list \in [Executors -> SUBSET StepRowsGiven]
  /\ chunk \in [Executors -> Nat]
  /\ thread \in [Executors -> [StepRowsGiven ->
       [stage : Stage, retries : 0 .. ItemRetries]]]
  /\ stepFaults \in 0 .. MaxStepFaults

Fresh == [i \in StepRowsGiven |-> [stage |-> "start", retries |-> 0]]

StepRowsInit ==
  /\ kind \in Kind
  /\ step = "ready"
  /\ claim = NoExecutor
  /\ record = [i \in StepRowsGiven |-> "absent"]
  /\ at = [x \in Executors |-> "idle"]
  /\ list = [x \in Executors |-> {}]
  /\ chunk = [x \in Executors |-> 0]
  /\ thread = [x \in Executors |-> Fresh]
  /\ stepFaults = 0

-----------------------------------------------------------------------------

\* claimSqliteWorkflowSteps: the step is ready, or the lease of its claim has
\* expired.
Take(x) ==
  /\ at[x] = "idle"
  /\ step \in {"ready", "running"}
  /\ step' = "running"
  /\ claim' = x
  /\ at' = [at EXCEPT ![x] = "queueing"]
  /\ UNCHANGED <<kind, record, list, chunk, thread, stepFaults>>

Begins(x, rows) ==
  /\ list' = [list EXCEPT ![x] = rows]
  /\ at' = [at EXCEPT ![x] = "working"]

\* queueSqliteWorkflowEnrichmentCellRuns: the runs that exist for this step,
\* and new ones for the cells that the mode selects now.
QueueCellRuns(x, selected) ==
  LET existing == {i \in StepRowsGiven : record[i] # "absent"}
  IN /\ kind = "enrich"
     /\ at[x] = "queueing"
     /\ selected \intersect existing = {}
     /\ Begins(x, existing \union selected)
     /\ record' = [i \in StepRowsGiven |->
          IF i \in selected THEN "queued" ELSE record[i]]
     /\ UNCHANGED <<kind, ledger, chunk, thread, stepFaults>>

\* queueSqliteWorkflowWebhookDeliveries: a delivery of every row, unless it
\* exists.
QueueDeliveries(x) ==
  /\ kind = "webhook"
  /\ at[x] = "queueing"
  /\ Begins(x, StepRowsGiven)
  /\ record' = [i \in StepRowsGiven |->
       IF record[i] = "absent" THEN "queued" ELSE record[i]]
  /\ UNCHANGED <<kind, ledger, chunk, thread, stepFaults>>

\* writeSqliteWorkflowRowBatch: target rows with derived identifiers, unless
\* they exist.  There is nothing more to execute.
WriteRows(x) ==
  /\ kind = "write"
  /\ at[x] = "queueing"
  /\ Begins(x, StepRowsGiven)
  /\ record' = [i \in StepRowsGiven |-> "succeeded"]
  /\ thread' = [thread EXCEPT ![x] =
       [i \in StepRowsGiven |-> [stage |-> "done", retries |-> 0]]]
  /\ UNCHANGED <<kind, ledger, chunk, stepFaults>>

\* Any of the three throws and inserts nothing: a row, a column, a table or a
\* destination is gone or paused, a source cell is empty, types differ.
Refuse(x) ==
  /\ at[x] = "queueing"
  /\ at' = [at EXCEPT ![x] = "failing"]
  /\ UNCHANGED <<kind, ledger, record, list, chunk, thread, stepFaults>>

-----------------------------------------------------------------------------

\* The records of a chunk, in the order of the batch.
Chunk(x) ==
  {i \in list[x] :
     Cardinality({j \in list[x] : j < i}) \div ChunkSize = chunk[x]}

\* The executor leaves the rows, for the end of the step or for good.
Leaves(x, place) ==
  /\ at' = [at EXCEPT ![x] = place]
  /\ chunk' = [chunk EXCEPT ![x] = 0]
  /\ thread' = [thread EXCEPT ![x] = Fresh]

Executes(x, i, stage) ==
  /\ at[x] = "working"
  /\ i \in Chunk(x)
  /\ thread[x][i].stage = stage

Goes(x, i, stage) == thread' = [thread EXCEPT ![x][i].stage = stage]

\* executeWithRetries meets an error that is worth a retry.
Throws(x, i) ==
  thread' = [thread EXCEPT ![x][i] =
    IF @.retries < ItemRetries
      THEN [stage |-> "start", retries |-> @.retries + 1]
      ELSE [@ EXCEPT !.stage = "rejected"]]

\* Wrong variant of the definition that follows: a record that has failed is
\* taken for one that is over.
IsOver(i) == record[i] \in {"succeeded", "failed"}

\* The record needs nothing more.
Satisfied(i) == record[i] = "succeeded"

\* A cell run in progress is not started again, a delivery is.
Startable(i) ==
  record[i] \in {"queued"} \union (IF kind = "webhook" THEN {"running"} ELSE {})

\* markSqliteCellRunRunning, markSqliteWebhookDeliveryRunning: the record is
\* marked running, is over, or the call throws.
Start(x, i) ==
  /\ Executes(x, i, "start")
  /\ \/ /\ Startable(i)
        /\ record' = [record EXCEPT ![i] = "running"]
        /\ Goes(x, i, "calling")
     \/ Satisfied(i) /\ Goes(x, i, "done") /\ UNCHANGED record
     \/ ~Startable(i) /\ ~Satisfied(i) /\ Throws(x, i) /\ UNCHANGED record
  /\ UNCHANGED <<kind, ledger, at, list, chunk, stepFaults>>

\* The provider or the receiver answers, or does not, or the record cannot be
\* loaded.
Call(x, i, answer) ==
  /\ Executes(x, i, "calling")
  /\ Goes(x, i, answer)
  /\ UNCHANGED <<kind, ledger, record, at, list, chunk, stepFaults>>

\* markSqliteCellRunSucceeded, markSqliteWebhookDeliverySucceeded: refused
\* unless the record is running.
Record(x, i) ==
  /\ Executes(x, i, "accepted")
  /\ IF record[i] = "running"
       THEN /\ record' = [record EXCEPT ![i] = "succeeded"]
            /\ Goes(x, i, "done")
       ELSE Goes(x, i, "retryable") /\ UNCHANGED record
  /\ UNCHANGED <<kind, ledger, at, list, chunk, stepFaults>>

\* The catch block: setSqliteCellRunFailure, setSqliteWebhookDeliveryFailure.
Fail(x, i) ==
  /\ at[x] = "working"
  /\ i \in Chunk(x)
  /\ thread[x][i].stage \in {"retryable", "fatal"}
  /\ LET retrying == /\ thread[x][i].stage = "retryable"
                     /\ thread[x][i].retries < ItemRetries
     IN record' = [record EXCEPT ![i] =
          IF @ \notin {"queued", "running"} THEN @
          ELSE IF retrying THEN "queued" ELSE "failed"]
  /\ IF thread[x][i].stage = "fatal" THEN Goes(x, i, "rejected")
                                     ELSE Throws(x, i)
  /\ UNCHANGED <<kind, ledger, at, list, chunk, stepFaults>>

Settled(x) ==
  \A i \in Chunk(x) : thread[x][i].stage \in {"done", "rejected"}

\* Promise.allSettled has a rejected result.
Rejected(x) == \E i \in Chunk(x) : thread[x][i].stage = "rejected"

\* The loop goes on to the next chunk; after a rejection it throws, whatever
\* chunks are left.
NextChunk(x) ==
  /\ at[x] = "working"
  /\ Chunk(x) # {}
  /\ Settled(x)
  /\ IF Rejected(x)
       THEN Leaves(x, "failing")
       ELSE chunk' = [chunk EXCEPT ![x] = @ + 1] /\ UNCHANGED <<at, thread>>
  /\ UNCHANGED <<kind, ledger, record, list, stepFaults>>

\* completeSqliteWorkflowStep; it throws into the catch block when the claim
\* is lost.
Complete(x) ==
  /\ at[x] = "working"
  /\ Chunk(x) = {}
  /\ IF step = "running" /\ claim = x
       THEN /\ step' = "succeeded"
            /\ claim' = NoExecutor
            /\ Leaves(x, "over")
       ELSE Leaves(x, "failing") /\ UNCHANGED ledger
  /\ UNCHANGED <<kind, record, list, stepFaults>>

\* failSqliteWorkflowStep; it throws when the claim is lost.
FailStep(x) ==
  /\ at[x] = "failing"
  /\ at' = [at EXCEPT ![x] = "over"]
  /\ IF step = "running" /\ claim = x
       THEN step' = "failed" /\ claim' = NoExecutor
       ELSE UNCHANGED ledger
  /\ UNCHANGED <<kind, record, list, chunk, thread, stepFaults>>

\* Another step of the run fails and cancels this one.
CancelStep ==
  /\ step \in {"ready", "running"}
  /\ step' = "cancelled"
  /\ claim' = NoExecutor
  /\ UNCHANGED <<kind, record, executor, stepFaults>>

-----------------------------------------------------------------------------

Strikes == stepFaults < MaxStepFaults /\ stepFaults' = stepFaults + 1

\* A statement fails: before the try block or in the catch block the error
\* leaves the handler of the record, in between it meets the catch block.
StatementFails(x, i) ==
  /\ Strikes
  /\ \/ /\ \E stage \in {"start", "retryable", "fatal"} : Executes(x, i, stage)
        /\ Throws(x, i)
     \/ Executes(x, i, "accepted") /\ Goes(x, i, "retryable")
  /\ UNCHANGED <<kind, ledger, record, at, list, chunk>>

\* The success is recorded, but not the use of the credential after it.
SucceedsThenFails(x, i) ==
  /\ Strikes
  /\ Executes(x, i, "accepted")
  /\ record[i] = "running"
  /\ record' = [record EXCEPT ![i] = "succeeded"]
  /\ Goes(x, i, "retryable")
  /\ UNCHANGED <<kind, ledger, at, list, chunk>>

\* A statement of the step itself fails: in the catch block for good.
StepStatementFails(x) ==
  /\ Strikes
  /\ \/ at[x] = "queueing" \/ (at[x] = "working" /\ Chunk(x) = {})
     \/ at[x] = "failing"
  /\ Leaves(x, IF at[x] = "failing" THEN "over" ELSE "failing")
  /\ UNCHANGED <<kind, ledger, record, list>>

\* The worker dies.
Dies(x) ==
  /\ Strikes
  /\ at[x] \in {"queueing", "working", "failing"}
  /\ Leaves(x, "over")
  /\ UNCHANGED <<kind, ledger, record, list>>

ExecuteRow(x, i) ==
  \/ Start(x, i)
  \/ \E answer \in {"accepted", "retryable", "fatal"} : Call(x, i, answer)
  \/ Record(x, i)
  \/ Fail(x, i)
  \/ StatementFails(x, i)
  \/ SucceedsThenFails(x, i)

StepRowsNext ==
  \/ CancelStep
  \/ \E x \in Executors :
       \/ Take(x)
       \/ \E selected \in SUBSET StepRowsGiven : QueueCellRuns(x, selected)
       \/ QueueDeliveries(x)
       \/ WriteRows(x)
       \/ Refuse(x)
       \/ \E i \in StepRowsGiven : ExecuteRow(x, i)
       \/ NextChunk(x)
       \/ Complete(x)
       \/ FailStep(x)
       \/ StepStatementFails(x)
       \/ Dies(x)

StepRowsSpec == StepRowsInit /\ [][StepRowsNext]_stepRowsVars

-----------------------------------------------------------------------------

\* Nothing but the rows explains how the step ended.
Undisturbed ==
  /\ stepFaults = 0
  /\ \A x \in Executors : at[x] # "idle" => x = claim

\* A step succeeds only when every record it was given has succeeded,
\* whoever executed it, and fails only because a record failed, unless it
\* was refused its records, overtaken or struck (execute-step.ts with
\* markSqliteCellRunRunning and markSqliteWebhookDeliveryRunning).
StepEndsAsItsRows ==
  [][(step = "running" /\ step' \in {"succeeded", "failed"}) =>
       IF step' = "succeeded"
         THEN \A i \in list[claim] : record[i] = "succeeded"
         ELSE (Undisturbed /\ list[claim] # {}) =>
                \E i \in list[claim] : record[i] = "failed"]_stepRowsVars

=============================================================================
