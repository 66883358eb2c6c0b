------------------------------- MODULE CellRuns ------------------------------
(***************************************************************************)
(* Enrichment cell runs (packages/db/src/sqlite/enrichments.ts), the bulk  *)
(* batch that expands into them and may be cancelled (bulk-runs.ts), and   *)
(* the handlers of their events (execute-cell-run.ts, expand-bulk-run.ts)  *)
(* run by the dispatch loop of module Outbox.                              *)
(*                                                                         *)
(* One column is enriched; its cells are the rows of the table in their    *)
(* order.  A run is named by the event that requests it, and events are    *)
(* numbered in the order of creation.  The provider is external: a call    *)
(* takes any time, and returns or throws.                                  *)
(***************************************************************************)
EXTENDS Integers, FiniteSets

CONSTANTS
  Cells,         \* cells of the column, naturals in row order
  MaxEvents,     \* bound: events that a behaviour creates
  Dispatchers, NoClaim, BatchLimit, Lease, MaxWait, MaxRetries,
  MaxAttempts, MaxFaults, MaxLate,   \* as in module Outbox
  Mode,          \* "pending" or "all", the selection mode of the batch
  ChunkSize,     \* BULK_RUN_EXPANSION_CHUNK_SIZE
  Cancellable    \* whether a user may cancel the batch

Events == 1 .. MaxEvents

ASSUME CellRunsAssumption ==
  /\ Cells \subseteq Nat \ {0}
  /\ IsFiniteSet(Cells)
  /\ NoClaim \notin Dispatchers
  /\ {BatchLimit, MaxWait} \subseteq Nat \ {0}
  /\ {Lease, MaxRetries, MaxAttempts, MaxFaults, MaxLate} \subseteq Nat
  /\ MaxEvents \in Nat
  /\ Mode \in {"pending", "all"}
  /\ ChunkSize \in Nat \ {0}
  /\ Cancellable \in BOOLEAN

VARIABLES
  outbox, disp, faults,   \* module Outbox
  target,    \* what each event asks for: a cell, the batch, or nothing yet
  run,       \* cell_runs.status
  cell,      \* cells.status
  batch,     \* the bulk_run_batches row
  item,      \* the bulk_run_items rows, by cell
  stage      \* where each dispatcher is in executeSqliteCellRun

O == INSTANCE Outbox

outboxVars == <<outbox, disp, faults>>
bulkVars == <<batch, item>>
vars == <<outboxVars, target, run, cell, bulkVars, stage>>

Active == {"queued", "running"}
Terminal == {"succeeded", "failed", "cancelled"}
RunStatus == {"none"} \union Active \union Terminal
CellStatus == {"idle"} \union Active \union Terminal
BatchOver == {"completed", "failed", "cancelled"}
Nothing == 0
Bulk == -1   \* in place of a cell: the batch

\* outside the handler's try block; the provider at work; in the catch block
\* with a retryable or a non-retryable failure
Stage == {"outside", "provider", "retryable", "fatal"}

TypeOK ==
  /\ O!TypeOK
  /\ target \in [Events -> Cells \union {Nothing, Bulk}]
  /\ run \in [Events -> RunStatus]
  /\ cell \in [Cells -> CellStatus]
  /\ batch \in [ status  : {"none"} \union {"queued", "running"} \union BatchOver,
                 creator : BOOLEAN,
                 selected : 0 .. Cardinality(Cells),
                 queued  : 0 .. Cardinality(Cells),
                 skipped : 0 .. Cardinality(Cells) ]
  /\ batch.queued + batch.skipped <= batch.selected
  /\ item \in [Cells -> [ status : {"none", "pending", "queued", "skipped"},
                          run    : {Nothing} \union Events ]]
  /\ stage \in [Dispatchers -> Stage]

Init ==
  /\ O!Init
  /\ target = [e \in Events |-> Nothing]
  /\ run = [e \in Events |-> "none"]
  /\ cell = [c \in Cells |-> "idle"]
  /\ batch = [status |-> "none", creator |-> TRUE,
              selected |-> 0, queued |-> 0, skipped |-> 0]
  /\ item = [c \in Cells |-> [status |-> "none", run |-> Nothing]]
  /\ stage = [d \in Dispatchers |-> "outside"]

-----------------------------------------------------------------------------

Created == {e \in Events : target[e] # Nothing}

NextEvent == Cardinality(Created) + 1

\* Wrong variant: running cells are selected as well.
SelectableRunning(c) ==
  /\ cell[c] # "queued"
  /\ Mode = "pending" => cell[c] # "succeeded"

\* shouldSelectCellForBulkRun
Selectable(c) ==
  /\ cell[c] \notin Active
  /\ Mode = "pending" => cell[c] # "succeeded"

\* Items of the batch with a status.
Items(status) == {c \in Cells : item[c].status = status}

\* Wrong variant: items that were expanded before are taken again.
ChunkRepeated ==
  {c \in Cells \ Items("none") :
     Cardinality({b \in Cells \ Items("none") : b < c}) < ChunkSize}

\* The first pending items in sequence, up to the chunk size.
Chunk ==
  {c \in Items("pending") :
     Cardinality({b \in Items("pending") : b < c}) < ChunkSize}

\* A run of the given cell is queued with a new event, for each of a set of
\* cells in sequence: the cells, runs, targets and outbox rows after it.
EventOf(queue, c) == NextEvent + Cardinality({b \in queue : b < c})

NewRuns(queue) == {EventOf(queue, c) : c \in queue}

QueueRuns(queue) ==
  /\ NewRuns(queue) \subseteq Events
  /\ target' = [e \in Events |->
       IF e \in NewRuns(queue) THEN CHOOSE c \in queue : EventOf(queue, c) = e
                               ELSE target[e]]
  /\ run' = [e \in Events |-> IF e \in NewRuns(queue) THEN "queued" ELSE run[e]]
  /\ cell' = [c \in Cells |-> IF c \in queue THEN "queued" ELSE cell[c]]
  /\ outbox' = [e \in Events |->
       IF e \in NewRuns(queue) THEN [outbox[e] EXCEPT !.state = "pending"]
                               ELSE outbox[e]]

-----------------------------------------------------------------------------
(* The control plane.                                                      *)

\* queueSqliteEnrichmentCellRun and its automatic form: a cell with an
\* active run is refused.
RequestRun(c) ==
  /\ cell[c] \notin Active
  /\ QueueRuns({c})
  /\ UNCHANGED <<disp, faults, bulkVars, stage>>

\* createSqliteBulkRunBatch: the confirmed selection is still the current
\* one, a part of the selectable cells that the view filters.
CreateBatch ==
  /\ batch.status = "none"
  /\ \E S \in SUBSET {c \in Cells : Selectable(c)} :
       /\ S # {}
       /\ item' = [c \in Cells |->
            [item[c] EXCEPT !.status = IF c \in S THEN "pending" ELSE "none"]]
       /\ batch' = [batch EXCEPT !.status = "queued",
                                 !.selected = Cardinality(S)]
  /\ NextEvent \in Events
  /\ O!Enqueue(NextEvent)
  /\ target' = [target EXCEPT ![NextEvent] = Bulk]
  /\ UNCHANGED <<run, cell, stage>>

\* Runs of the batch that are still active.
BatchRuns == {item[c].run : c \in Items("queued")}

\* Wrong variant: only runs that no worker has started are cancelled.
CancelledRunsQueued == {r \in BatchRuns : run[r] = "queued"}

CancelledRuns == {r \in BatchRuns : run[r] \in Active}

\* cancelSqliteBulkRunBatch
CancelBatch ==
  /\ Cancellable
  /\ batch.status \in {"queued", "running"}
  /\ item' = [c \in Cells |->
       [item[c] EXCEPT !.status = IF @ = "pending" THEN "skipped" ELSE @]]
  /\ run' = [e \in Events |-> IF e \in CancelledRuns THEN "cancelled" ELSE run[e]]
  /\ cell' = [c \in Cells |->
       IF cell[c] \in Active /\ \E r \in CancelledRuns : target[r] = c
         THEN "cancelled" ELSE cell[c]]
  /\ batch' = [batch EXCEPT !.status = "cancelled",
                            !.skipped = @ + Cardinality(Items("pending"))]
  /\ UNCHANGED <<outboxVars, target, stage>>

\* The account of the batch's creator is deleted; createdByUserId is nulled.
CreatorLeaves ==
  /\ batch.status # "none"
  /\ batch.creator
  /\ batch' = [batch EXCEPT !.creator = FALSE]
  /\ UNCHANGED <<outboxVars, target, run, cell, item, stage>>

-----------------------------------------------------------------------------
(* The worker.                                                             *)

\* The dispatcher claims its next events.
Dispatch(d) ==
  /\ O!Claim(d)
  /\ UNCHANGED <<target, run, cell, bulkVars, stage>>

\* Dispatcher d is about to run, or is running, the handler of event e.
Handling(d, e, place) ==
  /\ O!Current(d, e)
  /\ disp[d].outcome = "running"
  /\ stage[d] = place

\* The handler of dispatcher d leaves with a result.
Leaves(d, result) ==
  /\ disp' = [disp EXCEPT ![d].outcome = result]
  /\ stage' = [stage EXCEPT ![d] = "outside"]

\* The expansion finds the batch over.
ExpansionOver == batch.status \in BatchOver

ExpandFinished(d, e) ==
  /\ Handling(d, e, "outside")
  /\ target[e] = Bulk
  /\ ExpansionOver
  /\ Leaves(d, "ok")
  /\ UNCHANGED <<outbox, faults, target, run, cell, bulkVars>>

\* The expansion finds that the requesting user no longer exists.
ExpandWithoutCreator(d, e) ==
  /\ Handling(d, e, "outside")
  /\ target[e] = Bulk
  /\ ~ExpansionOver
  /\ ~batch.creator
  /\ batch' = [batch EXCEPT !.status = "failed"]
  /\ Leaves(d, "ok")
  /\ UNCHANGED <<outbox, faults, target, run, cell, item>>

\* expandSqliteBulkRunBatchChunk, called until the batch is no longer
\* running.  Items whose cell lost its input or access are skipped, like
\* those that no longer match the mode.
ExpandChunk(d, e) ==
  /\ Handling(d, e, "outside")
  /\ target[e] = Bulk
  /\ ~ExpansionOver
  /\ batch.creator
  /\ \E queue \in SUBSET {c \in Chunk : Selectable(c)} :
       LET done == batch.queued + batch.skipped + Cardinality(Chunk)
           status == IF done = batch.selected THEN "completed"
                     ELSE IF Chunk = {} THEN "failed" ELSE "running"
       IN /\ QueueRuns(queue)
          /\ item' = [c \in Cells |->
               IF c \in queue
                 THEN [status |-> "queued", run |-> EventOf(queue, c)]
               ELSE IF c \in Chunk THEN [item[c] EXCEPT !.status = "skipped"]
               ELSE item[c]]
          /\ batch' = [batch EXCEPT
               !.status = status,
               !.queued = @ + Cardinality(queue),
               !.skipped = @ + Cardinality(Chunk \ queue)]
          /\ disp' = [disp EXCEPT
               ![d].outcome = IF status = "running" THEN @ ELSE "ok"]
  /\ UNCHANGED <<faults, stage>>

\* markSqliteCellRunRunning accepts the run.
MayStart(e) == run[e] = "queued"

StartRun(d, e) ==
  /\ Handling(d, e, "outside")
  /\ target[e] \in Cells
  /\ MayStart(e)
  /\ run' = [run EXCEPT ![e] = "running"]
  /\ cell' = [cell EXCEPT ![target[e]] = "running"]
  /\ stage' = [stage EXCEPT ![d] = "provider"]
  /\ UNCHANGED <<outboxVars, target, bulkVars>>

\* markSqliteCellRunRunning refuses it: over, or a conflict thrown outside
\* the try block.
SkipRun(d, e) ==
  /\ Handling(d, e, "outside")
  /\ target[e] \in Cells
  /\ ~MayStart(e)
  /\ Leaves(d, IF run[e] \in {"succeeded", "cancelled"} THEN "ok" ELSE "retryable")
  /\ UNCHANGED <<outbox, faults, target, run, cell, bulkVars>>

\* markSqliteCellRunSucceeded, fenced by the status of the run.
Succeed(d, e) ==
  /\ Handling(d, e, "provider")
  /\ run[e] = "running"
  /\ run' = [run EXCEPT ![e] = "succeeded"]
  /\ cell' = [cell EXCEPT ![target[e]] = "succeeded"]
  /\ Leaves(d, "ok")
  /\ UNCHANGED <<outbox, faults, target, bulkVars>>

\* The same, and the statement after it, which stamps the credential, fails:
\* the error enters the catch block although the run has succeeded.
SucceedThenFault(d, e) ==
  /\ Handling(d, e, "provider")
  /\ run[e] = "running"
  /\ O!Fault
  /\ run' = [run EXCEPT ![e] = "succeeded"]
  /\ cell' = [cell EXCEPT ![target[e]] = "succeeded"]
  /\ stage' = [stage EXCEPT ![d] = "retryable"]
  /\ UNCHANGED <<outbox, disp, target, bulkVars>>

\* A result that comes too late is a conflict, an unclassified error.
SucceedConflict(d, e) ==
  /\ Handling(d, e, "provider")
  /\ run[e] # "running"
  /\ stage' = [stage EXCEPT ![d] = "retryable"]
  /\ UNCHANGED <<outboxVars, target, run, cell, bulkVars>>

\* The provider, or loading the run, throws.
ProviderThrows(d, e) ==
  /\ Handling(d, e, "provider")
  /\ \E failure \in {"retryable", "fatal"} :
       stage' = [stage EXCEPT ![d] = failure]
  /\ UNCHANGED <<outboxVars, target, run, cell, bulkVars>>

\* Wrong variant: one retry more than the event has.
RetriesLate(d, e) ==
  stage[d] = "retryable" /\ disp[d].attempt[e] - 1 <= MaxRetries

\* Whether the catch block leaves the run to another attempt.
Retries(d, e) ==
  stage[d] = "retryable" /\ disp[d].attempt[e] - 1 < MaxRetries

\* setSqliteCellRunFailure leaves a run that is over alone.
FailedRun(e, status) ==
  [run EXCEPT ![e] = IF @ \in Active THEN status ELSE @]

\* setSqliteCellRunFailure; the cell's status follows whatever the run's is.
Fail(d, e) ==
  /\ \E failure \in {"retryable", "fatal"} : Handling(d, e, failure)
  /\ LET status == IF Retries(d, e) THEN "queued" ELSE "failed"
     IN /\ run' = FailedRun(e, status)
        /\ cell' = [cell EXCEPT ![target[e]] = status]
  /\ Leaves(d, stage[d])
  /\ UNCHANGED <<outbox, faults, target, bulkVars>>

\* A statement of the handler fails: in the try block the catch block meets
\* the error, elsewhere it leaves the handler.
StorageFault(d, e) ==
  /\ O!Current(d, e)
  /\ disp[d].outcome = "running"
  /\ O!Fault
  /\ IF stage[d] = "provider"
       THEN /\ stage' = [stage EXCEPT ![d] = "retryable"]
            /\ UNCHANGED disp
       ELSE Leaves(d, "retryable")
  /\ UNCHANGED <<outbox, target, run, cell, bulkVars>>

\* The dispatcher settles the event.
Settle(d) ==
  /\ \/ \E e \in Events : O!Publish(d, e) \/ O!Retry(d, e) \/ O!LostClaim(d, e)
     \/ O!StorageError(d)
  /\ UNCHANGED <<target, run, cell, bulkVars, stage>>

\* The process dies and restarts.
Crash(d) ==
  /\ O!Crash(d)
  /\ stage' = [stage EXCEPT ![d] = "outside"]
  /\ UNCHANGED <<target, run, cell, bulkVars>>

Tick ==
  /\ O!Tick
  /\ UNCHANGED <<target, run, cell, bulkVars, stage>>

Handler(d, e) ==
  \/ ExpandFinished(d, e)
  \/ ExpandWithoutCreator(d, e)
  \/ ExpandChunk(d, e)
  \/ StartRun(d, e)
  \/ SkipRun(d, e)
  \/ Succeed(d, e)
  \/ SucceedConflict(d, e)
  \/ ProviderThrows(d, e)
  \/ Fail(d, e)

Next ==
  \/ \E c \in Cells : RequestRun(c)
  \/ CreateBatch
  \/ CancelBatch
  \/ CreatorLeaves
  \/ \E d \in Dispatchers :
       \/ Dispatch(d)
       \/ \E e \in Events : Handler(d, e)
       \/ \E e \in Events : SucceedThenFault(d, e) \/ StorageFault(d, e)
       \/ Settle(d)
       \/ Crash(d)
  \/ Tick

Spec == Init /\ [][Next]_vars

\* The dispatch loop polls for ever, a provider call ends (its timeout is 30
\* seconds), and time passes.
Fairness ==
  /\ WF_vars(Tick)
  /\ \A d \in Dispatchers :
       /\ WF_vars(Dispatch(d))
       /\ WF_vars(\E e \in Events : Handler(d, e))
       /\ WF_vars(Settle(d))

FairSpec == Spec /\ Fairness

-----------------------------------------------------------------------------

\* The counters of the batch agree with its items through expansion,
\* cancellation and retried chunks, and a batch that completed or was
\* cancelled left no item unexpanded.
BatchAccounts ==
  /\ batch.queued = Cardinality(Items("queued"))
  /\ batch.skipped = Cardinality(Items("skipped"))
  /\ batch.status \in {"completed", "cancelled"} =>
       batch.queued + batch.skipped = batch.selected

\* Nothing of a cancelled batch is left to run: no item will be expanded and
\* no run is queued or running, although the expansion and the workers race
\* the cancellation (ADR 0034: cancelled work is not resurrected).
CancelledBatchIsQuiet ==
  batch.status = "cancelled" =>
    Items("pending") = {} /\ \A r \in BatchRuns : run[r] \in Terminal

\* A cell shows work in progress exactly when one run of it is queued or
\* running, and in the same state: that is how prepareTargetCell keeps a cell
\* from being enriched twice at once, and a cell without a run from being
\* locked for ever.
CellShowsItsRun ==
  \A c \in Cells :
    LET active == {e \in Events : target[e] = c /\ run[e] \in Active}
    IN IF cell[c] \in Active
         THEN \E e \in active : active = {e} /\ run[e] = cell[c]
         ELSE active = {}

\* While no process dies, no statement fails and no claim expires under a
\* worker.
Undisturbed == faults.broken = 0 /\ faults.late = 0

\* The same, claims that expire under a worker included, except that a late
\* answer may find its batch cancelled, and then does reach the cell.
CellShowsUncancelledRun ==
  faults.broken = 0 /\ batch.status # "cancelled" => CellShowsItsRun

\* Undisturbed, an active run is never forgotten: its event is still to be
\* settled, and while it is running a worker is executing it.  The two retry
\* budgets, the run's and the event's, therefore end together.
ActiveRunIsDriven ==
  Undisturbed => \A e \in Events :
    /\ run[e] = "queued" => outbox[e].state = "pending"
    /\ run[e] = "running" =>
         \E d \in Dispatchers : O!Current(d, e) /\ stage[d] # "outside"

\* Every run that is queued is eventually over, and every batch is
\* eventually expanded, failed or cancelled.
EventuallySettled ==
  /\ \A e \in Events : run[e] = "queued" ~> run[e] \in Terminal
  /\ batch.status = "queued" ~> batch.status \in BatchOver

=============================================================================
