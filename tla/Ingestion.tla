------------------------------ MODULE Ingestion ------------------------------
(***************************************************************************)
(* Push ingestion for one endpoint: batches are staged by the public route *)
(* and applied to the table in acceptance order, chunk by chunk            *)
(* (packages/db/src/sqlite/ingestion.ts), by the handler of                *)
(* apply-ingestion-batch.ts run from the dispatch loop of module Outbox.   *)
(*                                                                         *)
(* A batch is named by its event, in acceptance order.  Every batch writes *)
(* the same rows, one per chunk and in the same order, which is where the  *)
(* order of application shows.                                             *)
(***************************************************************************)
EXTENDS Integers, FiniteSets

CONSTANTS
  Batches,       \* batches, naturals in (createdAt, id) order
  Chunks,        \* chunks of staged records in a batch
  Dispatchers, NoClaim, BatchLimit, Lease, MaxWait, MaxRetries,
  MaxAttempts, MaxFaults, MaxLate   \* as in module Outbox

VARIABLES
  outbox, disp, faults,   \* module Outbox
  revoked,     \* whether the endpoint's token is revoked
  status,      \* ingestion_batches.status
  processed,   \* ingestion_batches.processedRecordCount, in chunks
  row,         \* the batch that wrote each row last, 0 before it exists
  stage        \* where each dispatcher is in applySqliteIngestionBatch

O == INSTANCE Outbox WITH Events <- Batches

outboxVars == <<outbox, disp, faults>>
local == <<revoked, status, processed, row, stage>>
vars == <<outboxVars, local>>

Active == {"queued", "running"}
Terminal == {"succeeded", "failed"}

\* about to mark the batch running, or polling while an earlier one is
\* active; applying chunks; in the catch block with either kind of failure
Stage == {"outside", "applying", "retryable", "fatal"}

IngestionTypeOK ==
  /\ revoked \in BOOLEAN
  /\ status \in [Batches -> {"absent"} \union Active \union Terminal]
  /\ processed \in [Batches -> 0 .. Chunks]
  /\ row \in [1 .. Chunks -> {0} \union Batches]
  /\ stage \in [Dispatchers -> Stage]

TypeOK == O!TypeOK /\ IngestionTypeOK

IngestionInit ==
  /\ revoked = FALSE
  /\ status = [b \in Batches |-> "absent"]
  /\ processed = [b \in Batches |-> 0]
  /\ row = [k \in 1 .. Chunks |-> 0]
  /\ stage = [d \in Dispatchers |-> "outside"]

Init == O!Init /\ IngestionInit

-----------------------------------------------------------------------------

\* Wrong variant: a batch holds up itself.
EarlierOrSelf(b) == \E a \in Batches : a <= b /\ status[a] \in Active

\* An earlier batch of the endpoint is still to be applied.
EarlierActive(b) == \E a \in Batches : a < b /\ status[a] \in Active

\* stageSqliteIngestionBatch for a fresh idempotency key; a replay of a key
\* returns the original batch or conflicts, and changes nothing.
StageBatch(b) ==
  /\ ~revoked
  /\ \A a \in Batches : a < b => status[a] # "absent"
  /\ O!Enqueue(b)
  /\ status' = [status EXCEPT ![b] = "queued"]
  /\ UNCHANGED <<revoked, processed, row, stage>>

\* revokeSqliteIngestionEndpoint
Revoke ==
  /\ ~revoked
  /\ revoked' = TRUE
  /\ UNCHANGED <<outboxVars, status, processed, row, stage>>

\* The dispatcher claims its next events.
Dispatch(d) == O!Claim(d) /\ UNCHANGED local

Handling(d, b, place) ==
  /\ O!Current(d, b)
  /\ disp[d].outcome = "running"
  /\ stage[d] = place

Leaves(d, result) ==
  /\ disp' = [disp EXCEPT ![d].outcome = result]
  /\ stage' = [stage EXCEPT ![d] = "outside"]

\* markSqliteIngestionBatchRunning returns 'ready'.  While it returns
\* 'waiting' the handler sleeps a second and calls it again, and no step of
\* the dispatcher is possible.
Begin(d, b) ==
  /\ Handling(d, b, "outside")
  /\ status[b] \in Active
  /\ ~EarlierActive(b)
  /\ status' = [status EXCEPT ![b] = "running"]
  /\ stage' = [stage EXCEPT ![d] = "applying"]
  /\ UNCHANGED <<outboxVars, revoked, processed, row>>

\* It finds the batch succeeded, or failed, which is a conflict.
BeginOver(d, b) ==
  /\ Handling(d, b, "outside")
  /\ status[b] \in Terminal
  /\ IF status[b] = "succeeded"
       THEN Leaves(d, "ok")
       ELSE stage' = [stage EXCEPT ![d] = "fatal"] /\ UNCHANGED disp
  /\ UNCHANGED <<outbox, faults, revoked, status, processed, row>>

\* Wrong variant: the chunk is applied whatever the status of the batch.
MayApplyUnfenced(b) == status[b] # "absent"

\* The batch is still running, so a chunk of it may be applied.
MayApply(b) == status[b] = "running"

\* No staged record is left.
AllProcessed(b) == processed[b] = Chunks

\* applySqliteIngestionBatchChunk applies the records after the last
\* processed one and advances the count in the same transaction.
ApplyChunk(d, b) ==
  /\ Handling(d, b, "applying")
  /\ MayApply(b)
  /\ ~AllProcessed(b)
  /\ row' = [row EXCEPT ![processed[b] + 1] = b]
  /\ processed' = [processed EXCEPT ![b] = @ + 1]
  /\ UNCHANGED <<outboxVars, revoked, status, stage>>

\* It finds no record left, and completes the batch.
Complete(d, b) ==
  /\ Handling(d, b, "applying")
  /\ MayApply(b)
  /\ AllProcessed(b)
  /\ status' = [status EXCEPT ![b] = "succeeded"]
  /\ Leaves(d, "ok")
  /\ UNCHANGED <<outbox, faults, revoked, processed, row>>

\* It throws: the batch is not running any more, or its fields do not fit
\* the table.
ApplyRefused(d, b) ==
  /\ Handling(d, b, "applying")
  /\ ~MayApply(b) \/ ~AllProcessed(b)
  /\ stage' = [stage EXCEPT ![d] = "fatal"]
  /\ UNCHANGED <<outboxVars, revoked, status, processed, row>>

\* Whether the catch block leaves the batch to another attempt.
Retries(d, b) ==
  stage[d] = "retryable" /\ disp[d].attempt[b] - 1 < MaxRetries

\* The status a failed attempt leaves behind.
FailureStatus(d, b) == IF Retries(d, b) THEN "queued" ELSE "failed"

\* setSqliteIngestionBatchWorkerFailure
Fail(d, b) ==
  /\ \E failure \in {"retryable", "fatal"} : Handling(d, b, failure)
  /\ status' = [status EXCEPT ![b] =
                  IF @ \in Active THEN FailureStatus(d, b) ELSE @]
  /\ Leaves(d, IF Retries(d, b) THEN "retryable" ELSE "fatal")
  /\ UNCHANGED <<outbox, faults, revoked, processed, row>>

\* A statement of the handler fails.  In the try block the catch block meets
\* the error; the error of the catch block leaves the handler.
StorageFault(d, b) ==
  /\ O!Current(d, b)
  /\ disp[d].outcome = "running"
  /\ O!Fault
  /\ IF stage[d] \in {"outside", "applying"}
       THEN stage' = [stage EXCEPT ![d] = "retryable"] /\ UNCHANGED disp
       ELSE Leaves(d, "retryable")
  /\ UNCHANGED <<outbox, revoked, status, processed, row>>

Settle(d) ==
  /\ \/ \E b \in Batches : O!Publish(d, b) \/ O!Retry(d, b) \/ O!LostClaim(d, b)
     \/ O!StorageError(d)
  /\ UNCHANGED local

Crash(d) ==
  /\ O!Crash(d)
  /\ stage' = [stage EXCEPT ![d] = "outside"]
  /\ UNCHANGED <<revoked, status, processed, row>>

Tick == O!Tick /\ UNCHANGED local

Handler(d, b) ==
  \/ Begin(d, b)
  \/ BeginOver(d, b)
  \/ ApplyChunk(d, b)
  \/ Complete(d, b)
  \/ ApplyRefused(d, b)
  \/ Fail(d, b)

\* The next step of the dispatch loop: to claim, to handle or to settle.
Work(d) == Dispatch(d) \/ (\E b \in Batches : Handler(d, b)) \/ Settle(d)

Next ==
  \/ \E b \in Batches : StageBatch(b)
  \/ Revoke
  \/ \E d \in Dispatchers :
       \/ Work(d)
       \/ \E b \in Batches : StorageFault(d, b)
       \/ Crash(d)
  \/ Tick

Spec == Init /\ [][Next]_vars

\* The dispatch loop and the polling of a waiting handler never stop, and
\* time passes.  The route need not be called.
Fairness ==
  /\ WF_vars(Tick)
  /\ \A d \in Dispatchers : WF_vars(Work(d))

FairSpec == Spec /\ Fairness

-----------------------------------------------------------------------------

\* Batches of an endpoint are applied in acceptance order and wholly: whatever
\* leases expire, workers crash or attempts fail, no row is ever overwritten
\* with the record of an earlier batch (ADR 0023), and a batch that succeeds
\* has reached every one of its rows, exactly up to what later ones overwrote.
AppliedInOrder ==
  [][\A k \in 1 .. Chunks :
       /\ row'[k] >= row[k]
       /\ \A b \in Batches : status'[b] = "succeeded" => row'[k] >= b]_vars

\* Every accepted batch is eventually applied or refused.
EventuallyOver ==
  \A b \in Batches : status[b] \in Active ~> status[b] \in Terminal

=============================================================================
