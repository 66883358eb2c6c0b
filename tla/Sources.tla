------------------------------- MODULE Sources -------------------------------
(***************************************************************************)
(* The runs of one paginated source (packages/db/src/sqlite/sources.ts),   *)
(* queued by hand or by the schedule and executed page by page by the      *)
(* handler of execute-source-run.ts from the dispatch loop of module       *)
(* Outbox.  A run keeps a page checkpoint: a worker that takes it over     *)
(* goes on where the last applied page ended, and a completed run of a     *)
(* reconciling source archives the records it has not seen (ADR 0025).     *)
(*                                                                         *)
(* A run is named by its event.  The provider is outside the system: it    *)
(* delivers its records in the order of their keys, one on a page, and the *)
(* cursor of a page is its key.  Field mapping, cells and the settlement   *)
(* of the written rows are left out, and so is the incremental window.  A  *)
(* paused source is one of which no run is queued for a while.             *)
(***************************************************************************)
EXTENDS Integers, FiniteSets

CONSTANTS
  Runs,          \* runs and their events, positive naturals
  Keys,          \* record keys, positive naturals
  Archives,      \* missingRecordMode is 'archive'
  Tables,        \* initial states of the provider and the table (see Init)
  MaxChanges,    \* bound: records the provider gains or loses
  Dispatchers, NoClaim, BatchLimit, Lease, MaxWait, MaxRetries,
  MaxAttempts, MaxFaults, MaxLate   \* as in module Outbox

VARIABLES
  outbox, disp, faults,   \* module Outbox
  remote,     \* keys of the provider's records
  touched,    \* keys the provider gained or lost since the last run was queued
  changes,    \* how many it gained or lost in all
  run,        \* source_runs: status, pageCount and stored cursor
  known,      \* keys with an identity (source_records) and a row
  seen,       \* its lastSeenRunId, 0 for none and for runs before these
  archived,   \* keys whose identity and row are archived
  stage,      \* where each dispatcher is in executeSqliteSourceRun
  page        \* the answer each dispatcher has received and not applied

O == INSTANCE Outbox WITH Events <- Runs

outboxVars == <<outbox, disp, faults>>
world == <<remote, touched, changes>>
identities == <<known, seen, archived>>
local == <<world, run, identities, stage, page>>
vars == <<outboxVars, local>>

Active == {"queued", "running"}
Terminal == {"succeeded", "failed"}

\* about to mark the run running; about to load it and request its next
\* page; about to apply the answer; in the catch block
Stage == {"outside", "requesting", "applying", "retryable", "fatal"}

\* number: the expectedPage of the request; key: the record of the answer, 0
\* if there is none; more: whether the answer has a next cursor
NoPage == [number |-> 0, key |-> 0, more |-> FALSE]

Page == [number : Nat, key : {0} \union Keys, more : BOOLEAN]

SourceTypeOK ==
  /\ remote \subseteq Keys
  /\ touched \subseteq Keys
  /\ changes \in 0 .. MaxChanges
  /\ run \in [Runs -> [status : {"absent"} \union Active \union Terminal,
                       pages  : Nat,
                       cursor : {0} \union Keys]]
  /\ known \subseteq Keys
  /\ seen \in [Keys -> {0} \union Runs]
  /\ archived \subseteq known
  /\ stage \in [Dispatchers -> Stage]
  /\ page \in [Dispatchers -> Page]

TypeOK == O!TypeOK /\ SourceTypeOK

\* A source of which earlier runs, if any, have left rows and archived rows.
SourceInit ==
  /\ \E table \in Tables :
       /\ remote = table.remote
       /\ known = table.known
       /\ archived = table.archived
  /\ touched = {}
  /\ changes = 0
  /\ run = [r \in Runs |-> [status |-> "absent", pages |-> 0, cursor |-> 0]]
  /\ seen = [k \in Keys |-> 0]
  /\ stage = [d \in Dispatchers |-> "outside"]
  /\ page = [d \in Dispatchers |-> NoPage]

Init == O!Init /\ SourceInit

-----------------------------------------------------------------------------

\* Keys of the records whose rows the table shows.
Live == known \ archived

\* A run of the source is queued or running.
Busy == \E r \in Runs : run[r].status \in Active

\* The provider gains or loses a record.
RemoteChanges(k) ==
  /\ changes < MaxChanges
  /\ changes' = changes + 1
  /\ remote' = IF k \in remote THEN remote \ {k} ELSE remote \union {k}
  /\ touched' = touched \union {k}
  /\ UNCHANGED <<outboxVars, run, identities, stage, page>>

\* queueSqliteManualSourceRun refuses a source with an active run, and
\* queueDueSqliteSourceRuns only moves its schedule on.  Either inserts the
\* run and its event in one transaction.
Queue(r) ==
  /\ ~Busy
  /\ \A q \in Runs : q < r => run[q].status # "absent"
  /\ O!Enqueue(r)
  /\ run' = [run EXCEPT ![r].status = "queued"]
  /\ touched' = {}
  /\ UNCHANGED <<remote, changes, identities, stage, page>>

\* The dispatcher claims its next events.
Dispatch(d) == O!Claim(d) /\ UNCHANGED local

Handling(d, r, place) ==
  /\ O!Current(d, r)
  /\ disp[d].outcome = "running"
  /\ stage[d] = place

Leaves(d, result) ==
  /\ disp' = [disp EXCEPT ![d].outcome = result]
  /\ stage' = [stage EXCEPT ![d] = "outside"]
  /\ page' = [page EXCEPT ![d] = NoPage]

GoesTo(d, place) ==
  /\ stage' = [stage EXCEPT ![d] = place]
  /\ page' = [page EXCEPT ![d] = NoPage]

MayBegin(r) == run[r].status \in Active

\* markSqliteSourceRunRunning returns 'ready'.
Begin(d, r) ==
  /\ Handling(d, r, "outside")
  /\ MayBegin(r)
  /\ run' = [run EXCEPT ![r].status = "running"]
  /\ GoesTo(d, "requesting")
  /\ UNCHANGED <<outboxVars, world, identities>>

\* It returns 'succeeded', or throws for a failed run.  The call is outside
\* the try block, so its error leaves the handler.
BeginOver(d, r) ==
  /\ Handling(d, r, "outside")
  /\ ~MayBegin(r)
  /\ Leaves(d, IF run[r].status = "succeeded" THEN "ok" ELSE "retryable")
  /\ UNCHANGED <<outbox, faults, world, run, identities>>

\* The records the provider has after a cursor.
After(cursor) == {k \in remote : k > cursor}

\* loadSqliteSourceRunExecution and the request for the next page.  The page
\* number read with the cursor tells a stale answer when it is applied.
Request(d, r) ==
  /\ Handling(d, r, "requesting")
  /\ \E k \in {0} \union Keys :
       /\ IF After(run[r].cursor) = {}
            THEN k = 0
            ELSE k \in After(run[r].cursor)
       /\ \A other \in After(run[r].cursor) : k <= other
       /\ page' = [page EXCEPT ![d] =
            [number |-> run[r].pages + 1,
             key    |-> k,
             more   |-> After(run[r].cursor) \ {k} # {}]]
  /\ stage' = [stage EXCEPT ![d] = "applying"]
  /\ UNCHANGED <<outboxVars, world, run, identities>>

\* The request fails for a reason worth a retry, or for good: a page or
\* record limit reached, a revoked connector or credential, an answer that
\* is not one.
RequestFails(d, r, failure) ==
  /\ Handling(d, r, "requesting")
  /\ GoesTo(d, failure)
  /\ UNCHANGED <<outboxVars, world, run, identities>>

MayApply(r) == run[r].status = "running"

\* The page was applied by another worker.
Overtaken(d, r) == run[r].pages >= page[d].number

\* A record key comes twice in one run.
Repeats(d, r) == page[d].key # 0 /\ seen[page[d].key] = r

Received(d) == {page[d].key} \ {0}

\* Wrong variant: only identities created by this run are marked.
SeenNew(d, r) ==
  [k \in Keys |-> IF k \in Received(d) \ known THEN r ELSE seen[k]]

\* lastSeenRunId after the page: new identities, and those that exist.
SeenAfter(d, r) == [k \in Keys |-> IF k \in Received(d) THEN r ELSE seen[k]]

\* Identities the completed run has not seen, archived by a source of that
\* mode.
Missing(d, r) ==
  IF Archives /\ ~page[d].more
    THEN {k \in known : SeenAfter(d, r)[k] # r}
    ELSE {}

\* The run after the page: over if there is no next cursor.
Checkpoint(d) ==
  [status |-> IF page[d].more THEN "running" ELSE "succeeded",
   pages  |-> page[d].number,
   cursor |-> IF page[d].more THEN page[d].key ELSE 0]

\* applySqliteSourceRunPage: restores archived identities of the page, creates
\* the new ones, marks them all seen, archives the missing ones after the last
\* page and advances the checkpoint, in one transaction.
ApplyPage(d, r) ==
  /\ Handling(d, r, "applying")
  /\ MayApply(r)
  /\ ~Overtaken(d, r)
  /\ ~Repeats(d, r)
  /\ known' = known \union Received(d)
  /\ seen' = SeenAfter(d, r)
  /\ archived' = (archived \ Received(d)) \union Missing(d, r)
  /\ run' = [run EXCEPT ![r] = Checkpoint(d)]
  /\ IF page[d].more
       THEN GoesTo(d, "requesting") /\ UNCHANGED disp
       ELSE Leaves(d, "ok")
  /\ UNCHANGED <<outbox, faults, world>>

\* It returns the run as another worker left it.
ApplyNothing(d, r) ==
  /\ Handling(d, r, "applying")
  /\ run[r].status = "succeeded" \/ (MayApply(r) /\ Overtaken(d, r))
  /\ IF run[r].status = "succeeded"
       THEN Leaves(d, "ok")
       ELSE GoesTo(d, "requesting") /\ UNCHANGED disp
  /\ UNCHANGED <<outbox, faults, world, run, identities>>

\* It throws: the run was requeued or has failed, or a key was repeated.
ApplyRefused(d, r) ==
  /\ Handling(d, r, "applying")
  /\ run[r].status # "succeeded"
  /\ ~MayApply(r) \/ (~Overtaken(d, r) /\ Repeats(d, r))
  /\ GoesTo(d, "retryable")
  /\ UNCHANGED <<outboxVars, world, run, identities>>

\* Whether the catch block leaves the run to another attempt.
Retries(d, r) ==
  stage[d] = "retryable" /\ disp[d].attempt[r] - 1 < MaxRetries

\* setSqliteSourceRunWorkerFailure, after which the catch block throws.
Fail(d, r) ==
  /\ \E failure \in {"retryable", "fatal"} : Handling(d, r, failure)
  /\ run' = [run EXCEPT ![r].status =
       IF @ \notin Active THEN @
       ELSE IF Retries(d, r) THEN "queued" ELSE "failed"]
  /\ Leaves(d, stage[d])
  /\ UNCHANGED <<outbox, faults, world, identities>>

\* A statement of the handler fails.  In the try block the catch block meets
\* the error; before it and in the catch block the error leaves the handler.
StorageFault(d, r) ==
  /\ O!Current(d, r)
  /\ disp[d].outcome = "running"
  /\ O!Fault
  /\ IF stage[d] \in {"requesting", "applying"}
       THEN GoesTo(d, "retryable") /\ UNCHANGED disp
       ELSE Leaves(d, "retryable")
  /\ UNCHANGED <<outbox, world, run, identities>>

Settle(d) ==
  /\ \/ \E r \in Runs : O!Publish(d, r) \/ O!Retry(d, r) \/ O!LostClaim(d, r)
     \/ O!StorageError(d)
  /\ UNCHANGED local

Crash(d) ==
  /\ O!Crash(d)
  /\ GoesTo(d, "outside")
  /\ UNCHANGED <<world, run, identities>>

Tick == O!Tick /\ UNCHANGED local

Handler(d, r) ==
  \/ Begin(d, r)
  \/ BeginOver(d, r)
  \/ Request(d, r)
  \/ \E failure \in {"retryable", "fatal"} : RequestFails(d, r, failure)
  \/ ApplyPage(d, r)
  \/ ApplyNothing(d, r)
  \/ ApplyRefused(d, r)
  \/ Fail(d, r)

\* The next step of the dispatch loop: to claim, to handle or to settle.
Work(d) == Dispatch(d) \/ (\E r \in Runs : Handler(d, r)) \/ Settle(d)

Next ==
  \/ \E k \in Keys : RemoteChanges(k)
  \/ \E r \in Runs : Queue(r)
  \/ \E d \in Dispatchers :
       \/ Work(d)
       \/ \E r \in Runs : StorageFault(d, r)
       \/ Crash(d)
  \/ Tick

Spec == Init /\ [][Next]_vars

-----------------------------------------------------------------------------

\* A run that succeeds leaves the table showing every record the provider had
\* throughout the run, and, in a reconciling source, none that it lacked
\* throughout (ADR 0025): pages fetched by workers that overtook each other,
\* attempts that failed between two pages, crashes and the provider's changes
\* to other records neither lose a page nor archive what was seen.
RunMirrorsProvider ==
  [][\A r \in Runs :
       (run[r].status # "succeeded" /\ run'[r].status = "succeeded") =>
         \A k \in Keys \ touched :
           IF k \in remote THEN k \in Live' ELSE Archives => k \notin Live']_vars

=============================================================================
