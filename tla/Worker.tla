------------------------------- MODULE Worker --------------------------------
(***************************************************************************)
(* The worker processes with the handlers they run                         *)
(* (apps/workflow-worker/src/task-handlers.ts): resolveWorkerTask gives    *)
(* each type of outbox event its handler, and maximumWorkerTaskRetries its *)
(* retry budget.                                                           *)
(*                                                                         *)
(* Handlers of different types share the outbox, the dispatch loop and     *)
(* nothing else that this level of detail shows, so a behaviour follows    *)
(* the events of one type, chosen at the start.  Cell runs, bulk runs, row *)
(* settlements and workflow runs, which interact, have modules of their    *)
(* own.                                                                    *)
(***************************************************************************)
EXTENDS Integers, FiniteSets

CONSTANTS
  Deliveries, WebhookRetries, MaxErrors,               \* module Delivery
  Batches, IngestionRetries, Chunks,                   \* module Ingestion
  Files, ImportRetries, MaxRows, ApplySize,            \* module Imports
  Runs, SourceRetries, Keys, Archives, Tables, MaxChanges,   \* Sources
  Dispatchers, NoClaim, BatchLimit, Lease, MaxWait,
  MaxAttempts, MaxFaults, MaxLate,   \* as in module Outbox
  MaxMishaps     \* bound: faults and late claims together, by kind of event

Kinds == {"webhook_delivery", "ingestion_batch", "csv_import", "source_run"}

ASSUME WorkerAssumption ==
  /\ Deliveries \union Batches \union Files \union Runs \union Keys
       \subseteq Nat \ {0}
  /\ {WebhookRetries, IngestionRetries, ImportRetries, SourceRetries}
       \subseteq Nat
  /\ {MaxErrors, MaxRows, MaxChanges} \subseteq Nat
  /\ {Lease, MaxAttempts, MaxFaults, MaxLate} \subseteq Nat
  /\ {BatchLimit, MaxWait} \subseteq Nat \ {0}
  /\ NoClaim \notin Dispatchers
  /\ {Chunks, ApplySize} \subseteq Nat \ {0}
  /\ Archives \in BOOLEAN
  /\ \A table \in Tables :
       table.remote \subseteq Keys /\ table.archived \subseteq table.known
  /\ MaxMishaps \in [Kinds -> Nat]

VARIABLES
  kind,                          \* the event type of the behaviour
  outbox, disp, faults,          \* module Outbox
  stage,                         \* where each dispatcher is in its handler
  paused, revoked, delivery, errors,             \* module Delivery
  tokenRevoked, batch, processed, row,           \* module Ingestion
  length, job, staged, created,                  \* module Imports
  remote, touched, changes, run, known, seen, archived, page   \* Sources

D == INSTANCE Delivery WITH status <- delivery, MaxRetries <- WebhookRetries

I == INSTANCE Ingestion
       WITH status <- batch, revoked <- tokenRevoked,
            MaxRetries <- IngestionRetries

C == INSTANCE Imports WITH MaxRetries <- ImportRetries

S == INSTANCE Sources WITH MaxRetries <- SourceRetries

deliveryVars == <<paused, revoked, delivery, errors>>
ingestionVars == <<tokenRevoked, batch, processed, row>>
importVars == <<length, job, staged, created>>
sourceVars == <<remote, touched, changes, run, known, seen, archived, page>>

vars == <<kind, outbox, disp, faults, stage,
          deliveryVars, ingestionVars, importVars, sourceVars>>

TypeOK ==
  CASE kind = "webhook_delivery" -> D!TypeOK
    [] kind = "ingestion_batch"  -> I!TypeOK
    [] kind = "csv_import"       -> C!TypeOK
    [] kind = "source_run"       -> S!TypeOK

Init ==
  /\ kind \in Kinds
  /\ D!DeliveryInit /\ I!IngestionInit /\ C!ImportInit /\ S!SourceInit
  /\ CASE kind = "webhook_delivery" -> D!O!Init
       [] kind = "ingestion_batch"  -> I!O!Init
       [] kind = "csv_import"       -> C!O!Init
       [] kind = "source_run"       -> S!O!Init

-----------------------------------------------------------------------------

\* The handler's steps of the component that takes this kind of event.
Webhook(step) ==
  /\ kind = "webhook_delivery"
  /\ step
  /\ UNCHANGED <<kind, ingestionVars, importVars, sourceVars>>

Batch(step) ==
  /\ kind = "ingestion_batch"
  /\ step
  /\ UNCHANGED <<kind, deliveryVars, importVars, sourceVars>>

Import(step) ==
  /\ kind = "csv_import"
  /\ step
  /\ UNCHANGED <<kind, deliveryVars, ingestionVars, sourceVars>>

Source(step) ==
  /\ kind = "source_run"
  /\ step
  /\ UNCHANGED <<kind, deliveryVars, ingestionVars, importVars>>

Bounded == faults'.broken + faults'.late <= MaxMishaps[kind]

Next ==
  /\ \/ Webhook(D!Next)
     \/ Batch(I!Next)
     \/ Import(C!Next)
     \/ Source(S!Next)
  /\ Bounded

Spec == Init /\ [][Next]_vars

Tick ==
  /\ \/ Webhook(D!Tick)
     \/ Batch(I!Tick)
     \/ Import(C!Tick)
     \/ Source(S!Tick)
  /\ Bounded

\* The next step of the loop of dispatcher d: to claim, to execute a handler
\* or to settle.
Work(d) ==
  /\ \/ Webhook(D!Work(d))
     \/ Batch(I!Work(d))
     \/ Import(C!Work(d))
     \/ Source(S!Work(d))
  /\ Bounded

\* The dispatch loop of a worker never stops, its handlers return and time
\* passes, whatever the type of the events.
Fairness == WF_vars(Tick) /\ \A d \in Dispatchers : WF_vars(Work(d))

FairSpec == Spec /\ Fairness

-----------------------------------------------------------------------------

\* The outcome of a webhook delivery is final (Delivery).
OutcomeIsFinal == D!OutcomeIsFinal

\* Batches are applied in order and wholly (Ingestion).
AppliedInOrder == I!AppliedInOrder

\* The table holds the first rows of an imported file, each once (Imports).
RowsComeOnce == C!RowsComeOnce

\* A successful run leaves the table showing what the provider had and lacked
\* throughout the run (Sources).
RunMirrorsProvider == S!RunMirrorsProvider

Tasks == Deliveries \union Batches \union Files \union Runs

\* The task of event t is queued or running.
Open(t) ==
  CASE kind = "webhook_delivery" -> t \in Deliveries /\ delivery[t] \in D!Active
    [] kind = "ingestion_batch"  -> t \in Batches /\ batch[t] \in I!Active
    [] kind = "csv_import"       -> t \in Files /\ job[t].status \in C!Active
    [] kind = "source_run"       -> t \in Runs /\ run[t].status \in S!Active

Broken == IF kind = "webhook_delivery" THEN errors > 0 ELSE faults.broken > 0

\* Every task that a user, a schedule or a client has queued is eventually
\* over, one way or the other: a delivery unless a statement of its handler
\* fails, a batch, an import and a source run unless a worker dies or a
\* statement fails.  Expired leases and workers that overtake each other cost
\* no task its end.
QueuedTasksEnd == \A t \in Tasks : Open(t) ~> (~Open(t) \/ Broken)

=============================================================================
