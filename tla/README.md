# A verification of byok-grid's durable core

This directory holds TLA+ specifications of the part of byok-grid in which
things happen more than once, out of order, or half: the SQLite outbox and the
workers that drain it, the durable work they do (workflow runs and the rows of
their steps, cell runs and bulk runs, waterfalls, push ingestion, imports,
sources, deliveries, row settlement), the schema and the formulas under that
work, workflow drafts and graphs, the grid and workflow pages in the browser,
membership and purge of workspaces, the queue of write transactions, the life
of a worker process, backup files, the Airbyte destination, the analytics
projector, the rotation of the master key and the publication of releases; and
the transactions of the PostgreSQL predecessor. TLC checks the specifications
on small instances; TLAPS proves theorems for every value of the constants.

Every module is translated from the code under `src/`; `PROJECT.json` maps each
definition to the lines it stands for.

## 1. The system

The web application and the API routes write to one SQLite/libSQL database.
Whatever needs a worker is recorded in the same transaction as a row of
`outbox_events`. A worker process runs a dispatch loop: it claims up to ten
events under a lease of 300 seconds, runs their handlers **one after the
other**, and publishes or reschedules each. Several worker processes may run at
once. Handlers call into `packages/db`, whose exported operations are each one
immediate transaction (`withSqliteWriteTransaction`), and call external
providers in between. PostgreSQL code (`apps/worker`, the non-SQLite part of
`packages/db`) is the predecessor that ADR 0035 replaces. It has the same
operations, but many transactions at a time at READ COMMITTED, which only row
locks, the checks of foreign keys and advisory locks keep apart.

```
 routes, UI ──writes──▶ rows, cells, runs, batches ──same transaction──▶ outbox_events
                             ▲                                              │ claim (lease)
                             │ one transaction per call                     ▼
                        packages/db ◀── handlers ◀── dispatch loop (serial, n processes)
                                            │
                                            └──▶ providers, webhooks, HubSpot, sources
```

### Components, their state and what makes them correct

| Component | State | Operations | Hard part | Correct when | Module |
|---|---|---|---|---|---|
| Outbox and dispatch loop | `outbox_events` (state, claim, attempts, availableAt); the batch in a process's memory | enqueue, claim, complete, retry | leases expire under a working process; a batch shares one lease; crashes; settling fails | a lost claim settles nothing; published is final; every event is published | `Outbox` |
| Workflow run ledger | `workflow_runs`, `workflow_step_runs` | create, claim step, complete, fail, retry | several workers, expiring step claims, branch selection | branches follow outputs; run status agrees with steps; stale results are refused | `WorkflowRun`, `BranchRun` |
| Workflow execution | the handler's place | loop over steps until drained | two independent leases, error paths inside the catch block | the run is finished, and fails only if something threw | `WorkflowExecution` |
| Workflow step rows | cell runs, deliveries and rows a step makes, without events | insert with derived identifiers, execute in chunks, retry | overtaken executors on the same records; refusals; a chunk that fails | a step succeeds only if its records did, and fails only for one | `StepRows` |
| Workflow drafts | draft, revision, published version; each page's editor | save, publish, answers | several requests of several pages, answers late or lost | a save replaces its base; what is published was submitted | `WorkflowDrafts` |
| Workflow graph and compiler | the canvas | connect, validate, compile | what the canvas allows and the validation must refuse | publishable graphs compile to forests in a fixed order | `WorkflowGraph` |
| Cell runs | `cell_runs`, `cells.status` | queue, start, succeed, fail or retry | a provider call outlives the lease; the run and its event have separate retry budgets | one call per run; a cell shows its run; no run forgotten | `CellRuns` |
| Bulk runs | `bulk_run_batches`, `bulk_run_items` | create, expand a chunk, cancel | cancellation races expansion and running work | counters agree; nothing of a cancelled batch is active | `CellRuns` |
| Waterfall | saved progress | next provider, save, resume | failed statements and crashes between an answer and its save | providers in order, none after a match | `Waterfall` |
| Push ingestion | `ingestion_batches`, endpoint, rows | stage, apply a chunk, fail, revoke | acceptance order across workers, a handler that waits | applied in order and wholly; every batch is over | `Ingestion` |
| Row mutations and settlement | `rows.version`, `row_settlements` | mutate, process settlement | versions overtake settlements; cascades; coalescing | no change forgotten, none paid twice, the last state delivered | `RowSettlement` |
| Webhook and writeback deliveries | `webhook_deliveries`, `writeback_deliveries` | queue, start, succeed, fail | repeated starts, late failures | a succeeded delivery stays so; ids make repeats harmless | `Delivery`; queueing in `RowSettlement` and `StepRows` |
| Sources | `sources`, `source_runs`, pages, records | schedule, start, apply page, reconcile | two workers on one run, pages that repeat, archival of unseen records | a successful run mirrors its provider | `Sources` |
| CSV imports | `csv_imports`, staged rows | create, stage, queue, prepare, apply, fail | an upload that dies, a retry after partial application | each row once, in order, all when it succeeded | `Imports` |
| Schema lifecycle | columns, tables, what refers to them | create, archive, restore, convert, map | archivals interleave with paused sources, imports, views | what is in use refers to what is in use | `Schema` |
| Formulas | formula cells, dependencies | create, recompute, archive, restore | topological order, rows hidden and restored | equal to evaluation from scratch | `Formulas` |
| Grid page | listing, drafts, requests in flight | type, save, poll, load, search | answers out of order, versions of a replaced cell | a save replaces what its user saw | `GridEditor` |
| Membership | members, roles, invitations | invite, accept, change role, remove, cancel | an invitation that outlives a removal | whoever is a member was invited after his last removal | `Membership` |
| Write transactions | the chain of promises per handle, the file lock | queue, begin, retry, commit, fail | the chain's end is forgotten while others queue | one writer at a time per handle and file | `WriteQueue` |
| Worker process | background tasks, handlers, signals | start, race, abort, drain, close | components that fail or do not stop; a second signal | the database closes after its last writer | `WorkerProcess` |
| Backup files | destination, temporary file, digest | snapshot, verify, link, remove | commands that race, die, or whose source changes | an output path holds nothing or a whole snapshot | `BackupFiles` |
| Airbyte destination | buffers, sequence, acknowledged state | buffer, flush, wait, acknowledge, resync | lost answers, repeated syncs | what is acknowledged is written | `Airbyte` |
| Key rotation | wrapped keys, key rings of replicas | stage, promote, re-wrap a batch, withdraw | two key rings at once, keys created meanwhile | every key is readable throughout | `KeyRotation` |
| Analytics and purge | `analytics` columns of events, purge receipts, the warehouse | claim, insert, complete, purge, erase | requests carried out late, projectors that die | an erased workspace stays erased | `Analytics` |
| Release publication | version tags, the GitHub Release | check, tag each image, verify, publish | jobs that fail half way and are repeated with other digests | a release describes what its tags point to | `Releases` |
| PostgreSQL predecessor | rows and their locks, advisory locks | every operation and task, statement by statement | what was read is changed by another transaction before it is relied on; locks in different orders | what is written follows what was read; the transactions of a row do not deadlock | `Postgres` and the modules it extends |

How they meet: an event of the outbox names the record whose handler runs
(`Worker`, `CellRuns`, `WorkflowExecution` compose the handlers with
`Outbox`); a settled row queues enrichments, webhooks and writebacks
(`RowSettlement`); a workflow run's claim of a step covers what `StepRows`
does, and a plan of `WorkflowGraph` is what `WorkflowRun` assumes of one; the
records of `Airbyte` go through the endpoints of `Ingestion`; and all of them
write through `WriteQueue` in a process that lives as `WorkerProcess`.

### Not modelled

- Connectors, their sandbox, encryption, request validation and rendering in
  `apps/web`: pure functions, external services, or no state that several steps
  share. A provider call returns or throws.
- What Hatchet does after it has accepted an event: its retries and their order
  are the hosted engine's. The dispatch loop in front of it is
  `WorkerProcess` and `Outbox`.
- Migrations (a list of statements run once), the drills (test programs that
  call operations modelled here), charts, packaging and the verification
  scripts (they read and compare): about a third of the source lines.
- What the records of the PostgreSQL predecessor hold: what an operation does
  with them is that of its SQLite counterpart, and only their locks differ. Its
  migrations, row-level security and read-only listings are left out.
- Parsing (CSV, formulas, the Airbyte protocol), the functions of the formula
  language, the conversion of single values and the compilation of filters and
  sorts to SQL: pure and unit-tested.
- Usage accounting and audit columns, which no operation reads back.

These are why the map covers about a third of the lines of the repository: of
the files that hold the state above, it covers most.

`PROJECT.json` lists every component with what is left out of it.

## 2. Modules

### The outbox and what it drives

**`Outbox`** is `sqlite/outbox.ts` and `local-dispatcher.ts`. One action per
transaction: `Enqueue`, `Claim` (a batch, in creation order), `Publish`,
`Retry`, `LostClaim` (the fence refuses the settlement and the whole batch is
abandoned, as the uncaught conflict does). `HandlerReturns` is the handler:
composing modules put its body there. `Crash` and `StorageError` may strike
between any two transactions. Time is relative: a claim has an age, a
rescheduled event a wait, and both saturate, so behaviours of any length have
finitely many states. A claim identifier is the name of its dispatcher, which is
exact because a dispatcher forgets its batch before it draws another.

**`WorkflowRun`** is `sqlite/workflow-runs.ts`: the ledger of one run over a
plan given by `Parent` and `Handle`. A completion activates the targets of the
selected handles, skips what no branch can reach any more
(`SkippedDescendants`, the least closed set, is `collectSkippedDescendants`
with its visited set), and derives the run's status. **`BranchRun`** is what the
ledger promises with workers, claims, leases and retries taken away: active
steps succeed or fail, branches are taken or skipped. `ImplementsBranchRun` is
the refinement.

**`WorkflowExecution`** composes `Outbox` and `WorkflowRun` by the handler
`execute-workflow-run.ts`. `Results` is what each kind of step returns in
`execute-step.ts`. A failed statement takes another way from each place: the
claim of a step is made outside the `try` block and its error leaves the handler,
one during the execution leads to the catch block, and one in the catch block
leaves the handler with the step still claimed.

**`CellRuns`** composes `Outbox` with `enrichments.ts`, `bulk-runs.ts`,
`execute-cell-run.ts` and `expand-bulk-run.ts`. A run is named by the event
that requests it. The stage `provider` is the time during which the external
call is under way; every other action may happen meanwhile.

**`Worker`** composes `Outbox` with four handlers, each a module of its own;
a behaviour follows the events of one type, since handlers of different types
share the outbox and the loop only. `Delivery` is the delivery half of
`webhooks.ts` with `execute-webhook-delivery.ts` (`writebacks.ts` and
`execute-writeback-delivery.ts` have the same machine with another adapter).
The receiver is outside: a request is accepted or fails, and a failure does not
tell whether it arrived. The success and the use of the credential are two
statements; either may fail alone. `Ingestion` is `ingestion.ts` with
`apply-ingestion-batch.ts`: batches write the same rows, one per chunk, and a
row remembers which batch wrote it last, which is where order shows; while an
earlier batch is active the handler polls inside the serial loop, so its
dispatcher has no step. `Imports` is `imports.ts` with `apply-csv-import.ts`
and the upload route. `Sources` is `sources.ts` with `execute-source-run.ts`
and the scheduler: a page is fetched before the transaction that applies it, so
another worker or the provider may have moved on, and `touched` are the records
the provider changed during a run, of which nothing is promised.

**`RowSettlement`** is `row-mutations.ts`, `row-automations.ts` and the
queueing in `webhooks.ts` and `writebacks.ts`, for one row. Enrichments are
reduced to being active, and events to what `Outbox` shows of them: any order,
again after a lost lease, a bounded number of attempts. That the statement of
the catch block fails as well, on the last attempt, is left out: it would leave
the settlement queued without an event. The variables `owed`
and `unsent` are history: what the automations promised and have not done.

### Platform: parts that keep to themselves

`Platform` is the outbox with the loop alone, and eight parts whose variables
nobody else has; steps of two parts commute, so a behaviour follows the part
chosen by `part`.

**`Analytics`** is the projector over `sqlite/analytics.ts` and the purge of
`workspaces.ts`. A request to the warehouse is carried out before its answer,
or, once nobody waits, at any later moment or never; `Deadline` and `Grace` are
the code's two time limits whose order makes erasure final.
**`KeyRotation`** is `master-key-rotation.ts` with the creation of keys, over
the operator's sequence of `docs/MASTER_KEY_ROTATION.md`, which is external.
**`WriteQueue`** is `withSqliteWriteTransaction`. **`Membership`** is
`collaboration.ts` with the roles of `workspace-policy.ts`; `admitted` and
`dismissed` are history. **`BackupFiles`** is `backup.ts`, statement by
statement, for commands that race and die. **`WorkerProcess`** is
`worker-lifecycle.ts` over the tasks of `local-worker.ts` and
`hatchet-worker.ts`. **`Releases`** is the publishing half of `release.yml`
with its scripts: a repeated run keeps its digests or builds others.

**`Postgres`** follows one operation of the predecessor and lets everybody else
commit around it. `PostgresTables` has the foreign keys of `schema.ts` and the
kinds of statements; it and `PostgresRuns` write each exported transaction as
the sequence of its statements (what it reads, locks, inserts, updates or
deletes; branches and loops are blocks with jumps over them), and each task of
the worker as a sequence of transactions. `AllLaidOut` adds to every statement
what the foreign keys make it refer to, lock and delete. A write names the
facts it relies on and does not look at again.
`Changes` computes, from all the programs, with which locks each fact can be
changed; `Interfere` lets such a change commit wherever these locks are free.
There is one record of each kind, so any two transactions meet (two settlements
of the row, which lock each other's). Conditions on the content of a record are
choices, so a program has every path of the code and some it has not; reads that
only authorise or that check that something is active are in no `from`.

### Tables: what happens to the cells of a table

`Tables` composes, by `part` as well: **`Schema`** (`schema-lifecycle.ts` and
the mappings of sources, imports, views and writebacks), **`Formulas`**
(`formulas.ts`; an expression is a sum, the order of computation is the
code's), **`GridEditor`** (`grid-editor.tsx` against `grid.ts`; a cell has an
identity and a version, and `seen` is what its user had before him),
**`Waterfall`** (`waterfall.ts` over the attempts of a run), **`Airbyte`** (the
destination over endpoints that apply in order), **`StepRows`**
(`execute-step.ts`), **`WorkflowGraph`** (`workflow-policy.ts`,
`workflow-compiler.ts`, the canvas; acyclicity needs no check of its own in
publishable graphs, where every node has one input and is reached from a
trigger) and **`WorkflowDrafts`** (`workflows.ts`, `workflow-panel.tsx`).
A run of `Waterfall` begins with its first step: what throws before it
(`execute-cell-run.ts:53`) neither calls a provider nor saves progress. A batch of
`Airbyte` may be flushed before it is full, since it may be too long in bytes. In
`GridEditor` a save made in a search is followed by a reload of the search; other
loads are `LoadList`.

`MC*` modules give the constants that a `.cfg` cannot write. In each module the
definitions headed "Wrong variant" are plausible bugs of the definition below
them; they are used by no specification, and each property is known to catch
the variant that `PROJECT.json` pairs it with.

## 3. What is checked

Bounds are named in the modules and set in the `.cfg` files; none bounds time.
Runs take from seconds to two and a half minutes (`tables`, 2.3 million
states; `platform`, 0.3 million with liveness).

| Run | Shows | Bounds |
|---|---|---|
| `workflow_run` | `OutputOfLatestAttempt`, and that the ledger implements `BranchRun` | a branching plan with steps two levels below a branch, 2 workers, 2 claims a step |
| `workflow_execution` | `FailsOnlyOnError`, `SettledByLatestAttempt` and `FinishesUnlessBroken` | 5 steps of all kinds, 2 workers, 1 crash or error, 1 expired lease, steps that throw |
| `cell_runs` | `BatchAccounts`, `CancelledBatchIsQuiet`, `CellShowsUncancelledRun`, `ActiveRunIsDriven` | 2 cells expanded one by one, runs by hand besides, 3 events, 2 workers, 1 crash, error or expired lease |
| `worker` | `OutcomeIsFinal` of deliveries, `AppliedInOrder` of batches, `RowsComeOnce` of imports, `RunMirrorsProvider` of sources, and `QueuedTasksEnd` of all four | 1 delivery with 2 retries, 2 batches of 2 chunks, 1 file of 3 rows in 2 applications, 2 runs over 2 records; 2 workers; up to 3 mishaps: 2 crashes or errors, 1 expired lease (`MCMishaps` per type) |
| `row_settlement` | `DeliveredUnlessCancelled`, `NoChangeForgotten`, `RunsOnlyForChanges`, `DeliveredRowIsComplete`, `CascadeEnds` | 2 inputs, a formula, a chain of 2 connectors, 2 writebacks, limits of one, 3 user actions, 1 fault of any kind |
| `platform` | `OwnedAttemptIsLatest`, `EventuallyPublished` always; `ExclusiveExecution` while no lease expires under its dispatcher; `ErasedForGood`, `AnalyticsSettle`; `KeysReadable`; `WritersTakeTurns`; `MembersWereInvited`; `OutputsAppearWhole`; `DrainsBeforeItEnds`; `ReleaseMatchesTags`; `WritesFollowReads`, `SettlementsTakeTurns` | 2 events in one batch, 2 dispatchers, 2 crashes, 1 expired lease, 1 retry; 2 workspaces, 2 projectors, 2 setbacks; 3 master keys, 2 replicas; 4 writers on 2 handles; 3 users, 3 invitations; 3 commands on 2 files; batches and slots of 2; 2 images, 3 runs of 2 builds; of the predecessor all 60 operations, one record of each kind, one change at a time |
| `tables` | `ReferencesActive`, `FormulasFollow`, `SavesReplaceWhatWasSeen`, `ChainIsFollowed`, `AckedIsWritten`, `StepEndsAsItsRows`, `PublishableIsPlan`, `DraftsAsSubmitted` | see `Tables.cfg`: the smallest instance of each part in which every action fires and every wrong variant shows |
| `workflow_crash`, `cell_runs_late`, `ingestion_stall`, `row_settlement_edit`, `stale_edit` | a disagreement each, section 5 | the least that shows it |

Why these are enough: the outbox treats events independently except within one
batch, so two events show every interaction; two workers show every overtaking,
since a fence only tells the current claimant from the others; one retry and
one fault reach the last attempt, where budgets meet; the plan of five steps
has a branch taken, one skipped and a chain behind each kind; four writers put
two behind one handle's end while it is forgotten; three invitations suffice
for one that is used, one that outlives the removal and a new one; four nodes
make a cycle behind a filter and a second trigger; locks of one fact say nothing
of another, so one change at a time shows whatever two would; in `row_settlement` the
version bound of 15 is above what three user actions can reach (13), so no
behaviour is cut short. `SYMMETRY` is used for the workers of `cell_runs` only,
which checks no liveness.

Four runs switch deadlock checking off: in `worker` an ingestion worker really
may wait for ever (section 5); a quiet row really stops; and in `platform` and
`tables` there are parts that end, as commands, publications and users do.

**Fairness.** Weak fairness of the dispatchers' and projectors' own steps,
since their loops run for ever and handlers return (provider calls have
timeouts); of the clock; and of the end of a request to the warehouse. None
of the control plane (edits, cancellations, requests), of crashes or of errors,
and none at all in `tables` and in the other parts of `platform`. Between
competing dispatchers nothing is assumed. The number of claims that expire
under a live dispatcher is bounded, without which an event could be overtaken
for ever.

## 4. What is proved

Eight modules hold the theorems; `PROJECT.json` lists the ones to know of. Every
safety property that a passing run checks is proved, but `WritesFollowReads` and
`SettlementsTakeTurns` of `Postgres` (see the end of this section). Each proof
has the same shape: an inductive invariant, which holds at first and is kept by every action, and from which the
property follows in one step. What is assumed of the constants is the `ASSUME`
of the module, which TLC evaluates for the constants of its runs; sets of
workers, users, rows, records and events may be infinite unless said otherwise.

### The outbox and workflow runs

**`OutboxProofs`**, from `OutboxAssumption`, for any events, dispatchers, batch
size, retry budget and number of mishaps: `OutboxTypeCorrect`;
`OutboxInvariance`, whose `IInv` is
`TypeOK /\ OwnedAttemptIsLatest /\ OnlyPendingClaimed /\ HeldWithinLease`;
and from it `FencedAttempt` (`OwnedAttemptIsLatest`), `Exclusive`
(`ExclusiveExecution`) and `PublicationFinal` (`PublishedIsFinal`).
`OwnedAttemptIsLatest` needs that only pending events are claimed, since a
dispatcher's attempt number is compared with a row that a published event no
longer changes; `ExclusiveExecution` needs `HeldWithinLease`: while no lease
has expired under its dispatcher, whatever a dispatcher holds it still owns,
and so nobody else finds it eligible.

A component that the outbox drives takes the outbox's steps together with its
own, and some of its steps are none of the outbox's: a database error inside a
handler makes the handler end without a statement of the dispatcher, an event is
there from the start. `HostSpec` is the outbox with such a guest, and
`HostInvariance`, `HostedClaims` and `HostedPublication` show that the outbox
keeps its promises to it. The other direction is the lemma `TasksKept`: if a guest
ends for good, with a success or with its last retry, only when its task is over
(`HandlerEnds`), then no event is published while its task is open (`Entrusted`).

**`WorkflowRunProofs`**, from `WorkflowAssumption` (steps form a plan with at
least one entry, the null values are no steps or workers): `TypeCorrect`;
`Invariance`, and from it `Branches` (`BranchesFollowOutputs`),
`RunStatusSound` (`RunMatchesSteps`) and `FencedOutput`
(`OutputOfLatestAttempt`); `Finality` (`SettledIsFinal`); and `Refinement`
(`ImplementsBranchRun`), the ledger implements the abstract run.

The invariants are not inductive alone. `BranchesFollowOutputs` needs to know
that a running step is not cancelled and that everything behind a running step
is still blocked, which takes the run's status into account; a failing run
breaks that, whence `CancelledByFailure` (cancelled steps exist in failed runs
only). `OutputOfLatestAttempt` needs `HeldAttempt`: a worker whose claim still
stands carries the attempt number that the row counts.

The one hard step is `Complete`. `SkippedClosed` and `SkippedLeast` state that
`SkippedDescendants` is the least closed set; `SkippedFacts` derives, by
choosing a suitable closed set, that only blocked steps are skipped and that a
step is skipped exactly if its parent is skipped or its branch was not taken.
That replaces an induction along the plan, and is why plans may be infinite.
`CompletePreserves` and `CompleteKeepsClaims` then treat the conjuncts one by
one, and `CompleteIsSucceed` shows that the concrete and the abstract
descendants agree, which is the refinement's only non-trivial step.

**`WorkflowExecutionProofs`**, from `ExecutionAssumption`:
`RunsFailForErrors` (`FailsOnlyOnError`), `LatestAttemptSettles`
(`SettledByLatestAttempt`), and `ExecutedRunsAreSound` and
`SettledStaysSettled`, which say of a run that is executed through the outbox
what `WorkflowRunProofs` says of the ledger. The lemma `ExecutionUsesLedger`
carries these over; it holds because the handler reaches the ledger only through
its operations, and says nothing of the handler's own guards. `ExecutionInv` says that a dispatcher inside the handler
has a batch and a running event (`InHandler`), that it holds a step from its
claim until the step is settled or given up (`HoldsStep`), without which a
completion might be of no step of the plan, and that steps run only in a run
that has begun (`RunningInRun`). For `FailsOnlyOnError` in addition
`RefusedLost`: a completion is refused only to a worker that has lost its step,
so that its attempt to fail the step is refused as well. That holds under
`RowsLeadOn`, the hypothesis of the theorem: every trigger and enrichment has a
route for its rows. The proof showed that the code needs it (section 5); the
plan of `workflow_execution` satisfies it.

`SettledByLatestAttempt` is about the other half of the catch block, which does
not tell what threw either: the error of a dispatcher that was overtaken must
not fail the step that another one executes by then, and the run with it. The
proof takes from the ledger that whoever owns a claim holds the attempt the row
counts (`HeldAttempt`), and from the handler that it settles only the step it
holds; a dispatcher whose step failed under another has lost its claim, and its
own report is refused.

The execution is a host of the outbox (`HostOfExecution`), whence
`RunsHaveOneExecutor`: until a lease has expired under its dispatcher, one
dispatcher at a time executes the run. Beyond that the leases of the event and
of the steps are independent, and the question is whether a run can be left to
nobody: a dispatcher finds no step to claim, reports a success and has the event
published, while the one that held the last step is refused. `RunsAreDriven`
says no, for every plan without a cycle (`Acyclic`) and as long as nothing dies
or fails: an unfinished run waits for its first claim, or some dispatcher is
about to claim a step or holds the one it executes (`RunIsDriven`). The
invariant adds that a running step is in the hands of the dispatcher that
claimed it (`RunningHeld`); the proof is `SomethingToDo`, that an unfinished run
has a step to claim or a running one (of the blocked steps one has a parent that
is not blocked, and it is unfinished by `BranchesFollowOutputs`), so that a
dispatcher that finds none leaves the run to whoever holds the running step. It
is what `FinishesUnlessBroken` needs besides fairness. The compiler gives a run
such a plan: `PublishedPlansAreForests` (`TablesProofs`, below) derives from the
order of the compiled steps that every publishable graph has entries, one parent
for each other step, and no cycle. Within the lease `RunsAreDriven` gives
`DroppedRunsAreOver`: the event of a run is not published before the run is
finished.

### Cell runs and row settlement

**`CellRunsProofs`**, from `CellRunsAssumption` (cells are finitely many
naturals, since a batch counts them), for any retries, workers, batch and chunk
size: `BatchAccounted`, `CancellationIsQuiet`, `ActiveRunsDriven` and
`CellsShowTheirRuns`, from `CellRunsInvariance`. What the outbox contributes is
taken from `OutboxProofs` by instance (`Claims`), after showing that each
transaction of a handler leaves the outbox as one of its own actions would.
`ActiveRunIsDriven` needs `DoneRunsAreOver` (undisturbed, a dispatcher that is
about to publish or give up an event leaves no active run behind it);
`CellShowsUncancelledRun` needs `WorkersApart`: as long as no process dies, one
worker at a time is inside the try block of a run, and the run is running.
`BatchAccounts` counts, so its proof is about cardinalities: an item that moves
from one state to another takes one off the first count and adds one to the
second (`ItemsMove`), and chunks and cancellations move sets of them; the runs of a
chunk get consecutive events, `Ranking`. `CellRunsHaveOneWorker` restates the
promises of the outbox with the handlers of cell runs and bulk runs in its loop.

**`RowSettlementProofs`**, from `RowSettlementAssumption`, for any table, any
dependencies, limits, edits and faults: `SettledRowsAreDelivered`
(`DeliveredUnlessCancelled`), `ChangesAreNotForgotten`, `RunsAreOwed`
(`RunsOnlyForChanges`) and `DeliveredRowsAreComplete`. The invariant relates
what is owed to who carries it: `OwedIsCarried` (a change some column is owed a
run for is a dirty column of a settlement that nobody has consumed, or that a
failed one consumed), `UnsentIsCarried` the same of destinations, and
`OpenIsOwed` the converse; `WaitsForActive` (a settlement that was skipped or has
queued runs waits for an active enrichment), `CurrentRecorded` and
`DeliveredConsumesAll`. `ChangesAreNotForgotten` proves
`Webhooks => NoChangeForgotten`: without a webhook the property is false, which
the run `row_settlement_edit` shows (section 5).

### The tasks of a worker

**`WorkerProofs`**, from `WorkerAssumption`: `DeliveryOutcomes`
(`OutcomeIsFinal`), `BatchesInOrder` (`AppliedInOrder`), `RowsCome`
(`RowsComeOnce`) and `RunsMirror` (`RunMirrorsProvider`). None of these four uses
the fence of the outbox: of the outbox only `RowsStay` is used, that an event once
inserted stays, so two workers may hold one event at any time and the
transactions of the handler alone must keep the promise. Imports: `JobFits`
relates the counters of a job to the staged rows, and the rows that are taken
next are the first that remain, so that what is imported is always an initial
segment of the file. Batches: `Ordered` (a batch has begun only if the ones
before it are over) and `Reached` (a row that was written last by a batch is one
the batch has reached). Sources: `Mirrored` (up to the cursor, a record is shown
if and only if the provider has it, but for the records it changed), `Right` and
`Answered` (an answer that is about to be applied as the next page fits the
run's cursor), which is what the checkpoint of a page protects; an answer to an
older page is refused and nothing is known of it.

With the outbox below them, `TasksInvariance` shows two more things.
`TasksStayDriven`: as long as a delivery, batch, import or source run is queued or
running, its event is pending, unless something has broken (a failed statement of
the handler, and for all but deliveries a dead worker). That is what
`QueuedTasksEnd` needs besides fairness, and two files have to agree for it: a
handler reads its own retry budget when it settles the task, and the dispatch
loop reads it again when it publishes the event. Expired leases do not disturb
it, since a worker that reports a success has found the task over.
`TasksHaveOneWorker`: while batches of events settle within their lease, a task is
in the hands of one worker, whatever crashes. The proofs are instances of
`OutboxProofs` for each kind (`PD`, `PI`, `PC`, `PS`), after showing that every
statement of a handler is a `TaskStep` (`DeliveryHandlerEnds`, `BatchHandlerEnds`,
`ImportHandlerEnds`, `RunHandlerEnds`).

### The platform and the tables

**`PlatformProofs`** and **`TablesProofs`** prove a rule of each part from the
part's specification alone, and `PartsBehave` that `PlatformSpec` and
`TablesSpec` imply each of these: a step of one part leaves the variables of the
others unchanged. What is assumed of a part's constants is its `...Parameters`,
which its invariant carries along, since the assumptions of an instantiated
module are not assumptions of the module that instantiates it.

| Part | Theorem | What the invariant adds to the property |
|---|---|---|
| `WriteQueue` | `WritersAreApart` | the calls of a handle that are not over are in some order up to its tail, in which each but the first waits for such a call (`Chained`), although the map forgets handles; a call past its wait has none before it (`TurnsReleased`) |
| `Membership` | `MembersInvited` | at most one open invitation per address and of nobody who is a member, made after its user's last dismissal (`PendingAlone`) |
| `Releases` | `ReleasesMatch` | one publisher at a time; what a publisher has inspected is still so (`TagsAsSeen`); a build that was tagged throughout stays |
| `WorkerProcess` | `ProcessDrains` | a dispatcher that is not busy has no batch, a worker that is off runs nothing, a process drains for a reason |
| `BackupFiles` | `OutputsAreWhole` | a command publishes a temporary file that it has verified |
| `Analytics` | `ErasureLasts` | an insertion that may still be carried out was sent before the purge of what it carries (`BeganBeforePurge`), and `Deadline < Grace` |
| `KeyRotation` | `AlwaysReadable` | the phases of a rotation (`UnderSettled`, `UnderStaged`, `UnderPromoted`), each with the keys that may still be wrapped and what every ring has to contain |
| `Schema` | `ReferencesAreActive` | what never existed is referred to by nothing (`DependenciesExist`, `SourceBegins`, `ImportColumnsExist`) |
| `Formulas` | `FormulasFollowChanges` | for finitely many formulas: columns can be ranked so that a formula comes after the columns it depends on (`Ranked`), and a column that was never created is in no formula (`Unmade`) |
| `GridEditor` | `SavesReplaceTheSeen` | whatever is shown, typed over or on its way is a record the cell was; the same version is the same record (`Follows`) |
| `Waterfall` | `ProvidersFollowThePlan` | where the calls so far lead (`MayCall`), and that saved progress forgets none while no statement fails (`Unforgotten`) |
| `Airbyte` | `AcknowledgedRecordsAreWritten` | what was sent is written (`SentIsWritten`); what is buffered or queued is newer, and batches of an endpoint are over in order |
| `StepRows` | `StepsEndAsRows` | earlier chunks have succeeded (`ChunksSucceeded`); records and threads of an executor that is alone go together (`AloneFits`) |
| `WorkflowGraph` | `PublishedGraphsArePlans` | a graph has finitely many nodes, which are naturals, and finitely many edges (`Finite`); the rest is about the compiler |
| `WorkflowDrafts` | `DraftsFollowSubmissions` | a revision has one draft, whoever was told of it (`RevisionsAgree`) |

Two of these are about functions defined by recursion: the cells of a row that
is recomputed, and the order in which the compiler takes the nodes of a graph.
No induction theorem of the library can be instantiated here, so `RecomputedFits`,
`SearchExists` and `LineExists` first show that a function with the recursive
equation exists at all: partial functions fit it up to any bound of a measure
which each call makes smaller (the rank of a column, the nodes left to reach,
what Kahn's algorithm still has to do), or else there is a least bound at which
they do not (`LeastElement`). What the function computes then follows in the same
way: `OrderMade` states of every set of nodes taken so far that the others come
out in order (`Orders`), and a counterexample with the fewest nodes left would
have a smaller one after it. That the nodes run out (`EndsWithAll`) uses that
every node has at most one input and is reached from a trigger; that the graph
is acyclic is not used, and follows. `PublishedPlansAreForests` states it in the
words of `WorkflowRun`: read as `Parent`, the routes of a compiled plan satisfy
`WorkflowAssumption` and the hypothesis `Acyclic` of `RunsAreDriven`, since of any
set of steps the first in the order has its parent outside.

### Only model-checked

- All liveness (`QueuedTasksEnd`, `CascadeEnds`, `FinishesUnlessBroken`,
  `EventuallyPublished`, `AnalyticsSettle`): TLAPS has no rules for `ENABLED`
  and fairness. Of the first and the third the part that is safety is proved:
  `TasksStayDriven` and `RunsAreDriven`.
- `WritesFollowReads` and `SettlementsTakeTurns`: `Postgres` has no parameters,
  its programs are constants, so that TLC's run is the whole of what a theorem
  would say.
- `TypeOK` of the parts is a conjunct of their invariants and is not checked by
  a run of its own; `BranchesFollowOutputs`, `RunMatchesSteps`,
  `SettledIsFinal` and `PublishedIsFinal` are proved and not checked again.

## 5. Where the code does something else than is said of it

Each of these is the counterexample of a run.

- `workflow_crash`: a worker that dies between claiming and settling a step
  leaves the run running for ever. The event is delivered again, finds no
  claimable step (the step's lease began after the event's), reports success
  and is published; nothing ever looks at the stale step again.
- `cell_runs_late`: a provider's answer that comes after the cancellation of
  its batch leaves the run cancelled but sets the cell back to queued, for
  ever. The predecessor returned before it touched the cell.
- `ingestion_stall`: a single worker hangs in the handler of a batch that waits
  for an earlier one whose event only the same worker could claim.
- `row_settlement_edit`: without a webhook, a second edit that no automation
  depends on makes the pending settlement of the first stale and records none:
  the automatic column does not run for the first edit.
- `stale_edit`: a source page or a pushed batch replaces a cell by one whose
  version starts again at 1, and a save typed over the old cell is accepted.
  `SavesReplaceWhatWasSeen` holds because it excludes a replaced cell.

Others were met while translating. They are no runs: some are excluded by the
hypotheses of properties, some lie outside what is modelled.

*Excluded by a hypothesis or by an instance.*

- A plan may end in an enrichment, and a trigger may lead nowhere as long as
  some other path reaches a destination (`validatePublishableWorkflowGraph`), but
  both report the handle `rows` whether or not a route leaves from it
  (`execute-step.ts:47`, `:125`; only the filter looks at its routes, `:66`), and
  completion refuses handles without a route (`workflow-runs.ts:481`): the run
  fails after all its work is done. Hence `RowsLeadOn` in `RunsFailForErrors`;
  the plan of `workflow_execution` connects its triggers and its enrichment.
- A cell run has no lease: after a crash during the provider call every later
  delivery is refused (`enrichments.ts:555`), and run and cell stay running.
  `ActiveRunIsDriven` speaks of what no crash has struck.
- If the statement of the catch block fails on the last attempt, the event of a
  delivery is given up while the delivery is still active; hence `Broken` in
  `QueuedTasksEnd`. For the same reason a batch, import or source run is only
  promised an end while no worker dies and no statement fails.
- Without the hypothesis on expired leases `ActiveRunIsDriven` fails: a second
  delivery that is refused while the first still works uses up the event's
  attempts.
- Cancelling a bulk run ends enrichments without a row mutation, so a
  settlement that was skipped because of them is never replaced
  (`bulk-runs.ts:379`); hence `DeliveredUnlessCancelled`.
- A terminal failure records its own column as changed and wakes its dependents
  although no value changed (`enrichments.ts:702`, against ADR 0013); hence the
  hypothesis of `RunsOnlyForChanges`. A fan-out over the limit consumes every
  candidate (`row-automations.ts:213`).
- A workflow enrichment step fails, and its run with it, when its lease expires
  under a slow worker and a second worker's start of a run in progress is
  refused; there is no heartbeat. Hence `Undisturbed` in `StepEndsAsItsRows`.
- A waterfall whose progress could not be saved calls a provider again that had
  answered (with the same idempotency key); hence `runFaults` in
  `ChainIsFollowed`. `saveProgress` (`execute-cell-run.ts:235`) is not fenced,
  and after a cancellation the executor still calls the remaining providers.
- Collecting metrics may outlive its timeout, and the handlers of an engine
  worker that could not be stopped may outlive the database; hence the
  exceptions in `DrainsBeforeItEnds`.

*Visible in a module, asserted by no property.*

- A workflow enrichment step that fails in one chunk leaves the cell runs of
  later chunks queued for ever, without an event (`execute-step.ts:120`), and
  their cells hold up the settlement of their rows (`row-automations.ts:197`).
- An overtaken worker's late failure requeues a delivery that another worker is
  sending, whose success is then refused and repeated; the receiver tells the
  two apart by the delivery's id.
- On the workflow page, edits made while a save is under way are lost when its
  answer mounts a new editor (`workflow-panel.tsx:262`), and a late publish
  answer may take the list back to an older revision.
- On the grid, `loadMore` racing a search appends rows of one query to the
  listing of another and takes over its cursor (`grid-editor.tsx:370`); stale
  answers of a row's refresh may take the display back.
- An import worker that was overtaken and finds the import queued again ends it
  as failed although a retry was left (`apply-csv-import.ts:29`); an upload
  route that dies leaves its import staging for ever.
- A restored formula column is not recomputed (`schema-lifecycle.ts:384`), and
  a row hidden while a formula is created may return without its value. With a
  formula archived, its dependency converted and the formula restored, every
  later write to the dependency throws (`formulas.ts:344`).
- Pausing a source, converting a mapped column and resuming the source mixes
  types (`sources.ts:662`, against ADR 0030); a running import does not block
  the archival of a column it maps (`imports.ts:506`, against ADR 0019).
- A version whose tags were partly published can be finished with the same
  digests only: a whole repetition with others is refused.

*In the predecessor.* `Unprotected` lists what a statement may rely on although
it has changed; `WritesFollowReads` holds for everything else.

- Archiving a table or a column, or converting one, looks for users under an
  advisory lock that those who become users (sources, imports, views, writebacks,
  runs) do not take; conversely a column can be archived or converted while it
  is put to use (`schema-lifecycle.ts:203`, `:315`, `:411`).
- A run queued by hand or in bulk freezes inputs, and a delivery queued by hand
  freezes a row version and cells, of a row that nobody has locked
  (`enrichments.ts:583`, `webhooks.ts:221`, `writebacks.ts:382`). So do the
  formulas of a source page, a pushed batch or an import, which are computed
  before the row is locked.
- A settlement queues deliveries for destinations that have been paused
  meanwhile, and beside cells that have been queued since it looked.
- An invitation may be made for somebody who has just accepted another, or be
  revoked after it was accepted (`collaboration.ts:288`); roles are changed and
  members removed without a lock.
- The progress of a waterfall is saved without a fence here as well.
- Outside the operations of `Settling` there are pairs that deadlock, and
  PostgreSQL aborts one of them: the expansion of a bulk run, a run or a
  delivery queued by hand, a source page, a pushed batch, a new formula column
  and the purge of the workspace lock cells, rows or destinations in another
  order than the tasks that finish work on them.

*Outside the modules.*

- The blockers of a purge (`workspaces.ts`, `activeWork`) do not count queued
  and running workflow runs, which ADR 0033 names.
- A write-table step that is executed again may fill a cell of a row it created
  before without recomputing formulas or settling it (`workflow-data.ts:345`).
- `writeSqliteGridCell` (`grid.ts:540`) does not look at the archival of the
  table; a paused source whose field's column was archived plans a column of
  the same name and fails on a unique index (`sources.ts:681`).

## 6. Plan

1. Proofs: that `CellRuns` implements an abstract batch in which a cancellation
   is one step; that the tasks of `Worker` implement one abstract task with an
   outcome.
2. What is left of partly modelled components: the incremental window of
   sources, the conversion of values, usage accounting, ingestion endpoints in
   `Schema`.
