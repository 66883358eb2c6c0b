------------------------------- MODULE Imports -------------------------------
(***************************************************************************)
(* CSV imports (packages/db/src/sqlite/imports.ts): the upload route       *)
(* stages the rows of a file batch by batch and queues the import, and the *)
(* handler of apply-csv-import.ts, run from the dispatch loop of module    *)
(* Outbox, creates the staged rows in the table batch by batch.            *)
(*                                                                         *)
(* An import is named by its event.  A row is its number in the file; rows *)
(* are staged one at a time and applied ApplySize at a time.  Columns and  *)
(* cells are left out.                                                     *)
(***************************************************************************)
EXTENDS Integers, FiniteSets

CONSTANTS
  Files,         \* imports and their events, positive naturals
  MaxRows,       \* bound: rows of a file
  ApplySize,     \* rows of one transaction of the worker (batchSize)
  Dispatchers, NoClaim, BatchLimit, Lease, MaxWait, MaxRetries,
  MaxAttempts, MaxFaults, MaxLate   \* as in module Outbox

VARIABLES
  outbox, disp, faults,   \* module Outbox
  length,     \* rows of each uploaded file, 0 before its upload
  job,        \* import_jobs: status, row counts, whether columns are mapped
  staged,     \* numbers of the rows in import_staged_rows
  created,    \* how many table rows each file row has become
  stage       \* where each dispatcher is in applySqliteCsvImport

O == INSTANCE Outbox WITH Events <- Files

outboxVars == <<outbox, disp, faults>>
tables == <<job, staged, created>>
local == <<length, tables, stage>>
vars == <<outboxVars, local>>

Active == {"queued", "running"}
Terminal == {"succeeded", "failed"}

\* about to prepare the import; applying batches; in the catch block
Stage == {"outside", "applying", "retryable", "fatal"}

ImportTypeOK ==
  /\ length \in [Files -> 0 .. MaxRows]
  /\ job \in [Files -> [status   : {"absent", "staging"} \union Active \union Terminal,
                        mapped   : BOOLEAN,
                        staged   : 0 .. MaxRows,
                        imported : 0 .. MaxRows]]
  /\ staged \in [Files -> SUBSET (1 .. MaxRows)]
  /\ created \in [Files -> [1 .. MaxRows -> Nat]]
  /\ stage \in [Dispatchers -> Stage]

TypeOK == O!TypeOK /\ ImportTypeOK

ImportInit ==
  /\ length = [f \in Files |-> 0]
  /\ job = [f \in Files |-> [status |-> "absent", mapped |-> FALSE,
                            staged |-> 0, imported |-> 0]]
  /\ staged = [f \in Files |-> {}]
  /\ created = [f \in Files |-> [n \in 1 .. MaxRows |-> 0]]
  /\ stage = [d \in Dispatchers |-> "outside"]

Init == O!Init /\ ImportInit

-----------------------------------------------------------------------------

\* createSqliteCsvImportJob, for the header of a file of n rows
CreateJob(f, n) ==
  /\ job[f].status = "absent"
  /\ \A g \in Files : g < f => job[g].status # "absent"
  /\ length' = [length EXCEPT ![f] = n]
  /\ job' = [job EXCEPT ![f].status = "staging"]
  /\ UNCHANGED <<outboxVars, staged, created, stage>>

\* stageSqliteCsvImportRows, for the next row of the file
StageRow(f) ==
  /\ job[f].status = "staging"
  /\ job[f].staged < length[f]
  /\ staged' = [staged EXCEPT ![f] = @ \union {job[f].staged + 1}]
  /\ job' = [job EXCEPT ![f].staged = @ + 1]
  /\ UNCHANGED <<outboxVars, length, created, stage>>

\* queueSqliteCsvImport, at the end of the file.  A route that dies before
\* leaves the job staging.
QueueImport(f) ==
  /\ job[f].status = "staging"
  /\ job[f].staged = length[f]
  /\ O!Enqueue(f)
  /\ job' = [job EXCEPT ![f].status = "queued"]
  /\ UNCHANGED <<length, staged, created, stage>>

\* failSqliteCsvImportUpload, for a malformed or interrupted upload
FailUpload(f) ==
  /\ job[f].status = "staging"
  /\ job' = [job EXCEPT ![f].status = "failed"]
  /\ staged' = [staged EXCEPT ![f] = {}]
  /\ UNCHANGED <<outboxVars, length, created, stage>>

\* The dispatcher claims its next events.
Dispatch(d) == O!Claim(d) /\ UNCHANGED local

Handling(d, f, place) ==
  /\ O!Current(d, f)
  /\ disp[d].outcome = "running"
  /\ stage[d] = place

Leaves(d, result) ==
  /\ disp' = [disp EXCEPT ![d].outcome = result]
  /\ stage' = [stage EXCEPT ![d] = "outside"]

\* Wrong variant: an attempt starts the file from its first row.
PreparedAnew(f) ==
  [job[f] EXCEPT !.status = "running", !.mapped = TRUE, !.imported = 0]

\* The job as an attempt takes it up: after the rows already imported.
Prepared(f) == [job[f] EXCEPT !.status = "running", !.mapped = TRUE]

MayPrepare(f) == job[f].status \in Active

\* prepareSqliteCsvImport returns 'ready'.
Prepare(d, f) ==
  /\ Handling(d, f, "outside")
  /\ MayPrepare(f)
  /\ job' = [job EXCEPT ![f] = Prepared(f)]
  /\ stage' = [stage EXCEPT ![d] = "applying"]
  /\ UNCHANGED <<outboxVars, length, staged, created>>

\* The columns of the file, mapped by the first attempt, do not fit the table.
PrepareRefused(d, f) ==
  /\ Handling(d, f, "outside")
  /\ MayPrepare(f)
  /\ ~job[f].mapped
  /\ stage' = [stage EXCEPT ![d] = "fatal"]
  /\ UNCHANGED <<outboxVars, length, tables>>

\* It finds the import succeeded, or failed, which is an error of its own.
PrepareOver(d, f) ==
  /\ Handling(d, f, "outside")
  /\ ~MayPrepare(f)
  /\ IF job[f].status = "succeeded"
       THEN Leaves(d, "ok")
       ELSE stage' = [stage EXCEPT ![d] = "fatal"] /\ UNCHANGED disp
  /\ UNCHANGED <<outbox, faults, length, tables>>

\* Staged rows that are still to be imported.
Remaining(f) == {n \in staged[f] : n > job[f].imported}

\* The rows of the next transaction: the first of the remaining ones.
NextRows(f) ==
  {n \in Remaining(f) :
     Cardinality({m \in Remaining(f) : m < n}) < ApplySize}

MayApply(f) == job[f].status = "running"

\* applySqliteCsvImportBatch creates rows and advances the count in one
\* transaction.
ApplyRows(d, f) ==
  /\ Handling(d, f, "applying")
  /\ MayApply(f)
  /\ Remaining(f) # {}
  /\ created' = [created EXCEPT ![f] =
       [n \in 1 .. MaxRows |-> IF n \in NextRows(f) THEN @[n] + 1 ELSE @[n]]]
  /\ \E last \in NextRows(f) :
       /\ \A n \in NextRows(f) : n <= last
       /\ job' = [job EXCEPT ![f].imported = last]
  /\ UNCHANGED <<outboxVars, length, staged, stage>>

\* It finds no row left, completes the import and drops the staged rows.
Complete(d, f) ==
  /\ Handling(d, f, "applying")
  /\ MayApply(f)
  /\ Remaining(f) = {}
  /\ job[f].imported = job[f].staged
  /\ job' = [job EXCEPT ![f].status = "succeeded"]
  /\ staged' = [staged EXCEPT ![f] = {}]
  /\ Leaves(d, "ok")
  /\ UNCHANGED <<outbox, faults, length, created>>

\* It throws, because the import is not running any more.
ApplyRefused(d, f) ==
  /\ Handling(d, f, "applying")
  /\ ~MayApply(f)
  /\ stage' = [stage EXCEPT ![d] = "fatal"]
  /\ UNCHANGED <<outboxVars, length, tables>>

\* Whether the catch block leaves the import to another attempt.
Retries(d, f) ==
  stage[d] = "retryable" /\ disp[d].attempt[f] - 1 < MaxRetries

\* setSqliteCsvImportWorkerFailure, after which the catch block throws.
Fail(d, f) ==
  /\ \E failure \in {"retryable", "fatal"} : Handling(d, f, failure)
  /\ job' = [job EXCEPT ![f].status =
       IF @ \notin Active THEN @
       ELSE IF Retries(d, f) THEN "queued" ELSE "failed"]
  /\ Leaves(d, IF Retries(d, f) THEN "retryable" ELSE "fatal")
  /\ UNCHANGED <<outbox, faults, length, staged, created>>

\* A statement of the handler fails.  In the try block the catch block meets
\* the error; the error of the catch block leaves the handler.
StorageFault(d, f) ==
  /\ O!Current(d, f)
  /\ disp[d].outcome = "running"
  /\ O!Fault
  /\ IF stage[d] \in {"outside", "applying"}
       THEN stage' = [stage EXCEPT ![d] = "retryable"] /\ UNCHANGED disp
       ELSE Leaves(d, "retryable")
  /\ UNCHANGED <<outbox, length, tables>>

Settle(d) ==
  /\ \/ \E f \in Files : O!Publish(d, f) \/ O!Retry(d, f) \/ O!LostClaim(d, f)
     \/ O!StorageError(d)
  /\ UNCHANGED local

Crash(d) ==
  /\ O!Crash(d)
  /\ stage' = [stage EXCEPT ![d] = "outside"]
  /\ UNCHANGED <<length, tables>>

Tick == O!Tick /\ UNCHANGED local

Upload(f) ==
  \/ \E n \in 1 .. MaxRows : CreateJob(f, n)
  \/ StageRow(f)
  \/ QueueImport(f)
  \/ FailUpload(f)

Handler(d, f) ==
  \/ Prepare(d, f)
  \/ PrepareRefused(d, f)
  \/ PrepareOver(d, f)
  \/ ApplyRows(d, f)
  \/ Complete(d, f)
  \/ ApplyRefused(d, f)
  \/ Fail(d, f)

\* The next step of the dispatch loop: to claim, to handle or to settle.
Work(d) == Dispatch(d) \/ (\E f \in Files : Handler(d, f)) \/ Settle(d)

Next ==
  \/ \E f \in Files : Upload(f)
  \/ \E d \in Dispatchers :
       \/ Work(d)
       \/ \E f \in Files : StorageFault(d, f)
       \/ Crash(d)
  \/ Tick

Spec == Init /\ [][Next]_vars

-----------------------------------------------------------------------------

\* The table holds exactly the first rows of the file, each once, as many as
\* the import counts, and all of them once the import has succeeded: neither
\* a retry after some batches, nor a redelivered event, nor two workers that
\* apply one import at the same time repeat a row or skip one.
RowsComeOnce ==
  \A f \in Files :
    /\ \A n \in 1 .. MaxRows :
         created[f][n] = IF n <= job[f].imported THEN 1 ELSE 0
    /\ job[f].status = "succeeded" => job[f].imported = length[f]

=============================================================================
