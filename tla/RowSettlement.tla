---------------------------- MODULE RowSettlement ----------------------------
(***************************************************************************)
(* Row-settlement automations (packages/db/src/sqlite/row-mutations.ts,    *)
(* row-automations.ts, writebacks.ts and webhooks.ts, and the handler      *)
(* process-row-settlement.ts): every mutation of a row raises its version  *)
(* and may record a settlement, whose event later queues the automatic     *)
(* columns that depend on what changed or, once no enrichment of the row   *)
(* is active, its automatic deliveries.                                    *)
(*                                                                         *)
(* One row.  Enrichments are reduced to being active or not: module        *)
(* CellRuns has their life.  Events are reduced to what module Outbox      *)
(* promises of them: any order, again after a lost lease, a bounded number *)
(* of attempts.  A version is counted from the creation of the row.        *)
(***************************************************************************)
EXTENDS Integers, FiniteSets

CONSTANTS
  Inputs, Formulas, Connectors,   \* the columns of the table
  Automatic,       \* connectors whose runMode is "on_change"
  Depends,         \* column_dependencies of each formula and connector;
                   \* a formula's are the columns it reaches through formulas
  Destinations,    \* active writeback destinations with trigger row_settled
  Relevant,        \* columns a destination maps, filters on or identifies by
  Webhooks,        \* whether the table has an active row_settled webhook
  MaxRuns,         \* AUTOMATIC_RUN_MAX_PER_ROW_CHANGE
  MaxWritebacks,   \* AUTOMATIC_WRITEBACK_MAX_PER_ROW_CHANGE
  MaxRetries,      \* MAXIMUM_ROW_SETTLEMENT_RETRIES
  MaxVersion,      \* bound: versions of the row
  MaxUser,         \* bound: edits, runs by hand and archivals
  MaxFaults        \* bound: failed statements, events delivered again,
                   \* failed enrichments and cancelled bulk runs

Columns == Inputs \union Formulas \union Connectors
Versions == 1 .. MaxVersion

ASSUME RowSettlementAssumption ==
  /\ IsFiniteSet(Connectors)
  /\ Automatic \subseteq Connectors
  /\ Depends \in [Formulas \union Connectors -> SUBSET Columns]
  /\ Relevant \in [Destinations -> SUBSET Columns]
  /\ Webhooks \in BOOLEAN
  /\ {MaxRuns, MaxWritebacks} \subseteq Nat \ {0}
  /\ {MaxRetries, MaxVersion, MaxUser, MaxFaults} \subseteq Nat

VARIABLES
  version,      \* rows.version
  archived,     \* rows.archivedAt is set
  filled,       \* columns whose cell in the row has a value
  active,       \* connectors whose cell is queued or running
  bulk,         \* those of them whose run belongs to a bulk batch
  settlement,   \* the row_settlements rows, by version
  attempt,      \* failed attempts at each settlement's event
  events,       \* settlements whose event is not published
  sent,         \* version of the last webhook snapshot
  owed,         \* history: automatic columns to be run for a change
  unsent,       \* history: changes no writeback decision has covered
  user,         \* what users did so far
  faults        \* what went wrong so far, by kind

rowVars == <<version, archived, filled, settlement, events>>
history == <<sent, owed, unsent>>
vars == <<rowVars, active, bulk, attempt, history, user, faults>>

Status == {"none", "queued", "succeeded", "skipped", "failed"}
Fault == {"statement", "redelivery", "failure", "cancellation"}
NoConsumer == 0

TypeOK ==
  /\ version \in 0 .. MaxVersion
  /\ archived \in BOOLEAN
  /\ filled \subseteq Columns
  /\ bulk \subseteq active /\ active \subseteq Connectors
  /\ settlement \in [Versions -> [ status   : Status,
                                   changed  : SUBSET Columns,
                                   runs     : 0 .. MaxRuns,
                                   consumer : {NoConsumer} \union Versions ]]
  /\ attempt \in [Versions -> 0 .. MaxRetries]
  /\ events \subseteq {v \in Versions : settlement[v].status # "none"}
  /\ sent \in 0 .. version
  /\ owed \subseteq Automatic
  /\ unsent \in [Destinations -> SUBSET Columns]
  /\ user \in 0 .. MaxUser
  /\ faults \in [Fault -> 0 .. MaxFaults]

Init ==
  /\ version = 0
  /\ archived = FALSE
  /\ filled = {}
  /\ active = {} /\ bulk = {}
  /\ settlement = [v \in Versions |-> [status |-> "none", changed |-> {},
                                       runs |-> 0, consumer |-> NoConsumer]]
  /\ attempt = [v \in Versions |-> 0]
  /\ events = {}
  /\ sent = 0
  /\ owed = {}
  /\ unsent = [d \in Destinations |-> {}]
  /\ user = 0 /\ faults = [k \in Fault |-> 0]

-----------------------------------------------------------------------------
(* Mutations of the row.                                                   *)

DependsOn(c, D) == Depends[c] \intersect D # {}

\* Formulas that a change of the columns D makes the transaction recompute.
Recomputed(D) == {f \in Formulas : DependsOn(f, D)}

\* A settlement queued automatic runs, and its deliveries are still to come.
AwaitsDelivery ==
  \E v \in Versions : /\ settlement[v].status = "succeeded"
                      /\ settlement[v].runs > 0
                      /\ settlement[v].consumer = NoConsumer

\* Wrong variant: webhooks alone record no settlement.
NeedsSettlementSilent(D) ==
  \/ \E d \in Destinations : Relevant[d] \intersect D # {}
  \/ \E c \in Automatic : DependsOn(c, D)
  \/ AwaitsDelivery

\* Whether a mutation of the columns D records a settlement.
NeedsSettlement(D) ==
  \/ Webhooks
  \/ \E d \in Destinations : Relevant[d] \intersect D # {}
  \/ \E c \in Automatic : DependsOn(c, D)
  \/ AwaitsDelivery

\* recordSqliteRowMutationAndMaybeQueueSettlement, after earlier bumps.
Mutate(bumps, D) ==
  LET v == version + bumps
  IN /\ v \in Versions
     /\ version' = v
     /\ IF NeedsSettlement(D)
          THEN /\ settlement' = [settlement EXCEPT ![v].status = "queued",
                                                   ![v].changed = D]
               /\ events' = events \union {v}
          ELSE UNCHANGED <<settlement, events>>

\* The columns D have new values.
Changes(D) ==
  /\ owed' = owed \union {c \in Automatic : DependsOn(c, D)}
  /\ unsent' = [d \in Destinations |-> unsent[d] \union (Relevant[d] \intersect D)]
  /\ UNCHANGED sent

ByUser == user < MaxUser /\ user' = user + 1

\* One more fault of kind k, within the bound.
Faulty(k) ==
  /\ faults["statement"] + faults["redelivery"]
       + faults["failure"] + faults["cancellation"] < MaxFaults
  /\ faults' = [faults EXCEPT ![k] = @ + 1]

\* writeSqliteGridCell, or an import, ingestion or workflow write: input
\* cells get a value or lose it, and formulas that depend on them may follow.
Edit ==
  /\ ByUser
  /\ ~archived
  /\ \E D \in SUBSET Inputs \ {{}}, cleared \in BOOLEAN :
       \E F \in SUBSET Recomputed(D) :
         /\ Mutate(1, D \union F)
         /\ Changes(D \union F)
         /\ filled' = IF cleared THEN filled \ (D \union F) ELSE filled \union D \union F
  /\ UNCHANGED <<archived, active, bulk, attempt, faults>>

\* A source's completed run no longer has the row's record.
Archive ==
  /\ ByUser
  /\ ~archived
  /\ archived' = TRUE
  /\ version < MaxVersion
  /\ version' = version + 1
  /\ UNCHANGED <<filled, settlement, events, active, bulk, attempt, history, faults>>

\* A later run has it again: the row is restored, which raises its version,
\* and then rewritten.
Restore ==
  /\ archived
  /\ archived' = FALSE
  /\ \E F \in SUBSET Recomputed(Inputs) :
       /\ Mutate(2, Inputs \union F)
       /\ Changes(Inputs \union F)
       /\ filled' = filled \union Inputs \union F
  /\ UNCHANGED <<active, bulk, attempt, user, faults>>

-----------------------------------------------------------------------------
(* Enrichments.                                                            *)

\* queueConnectorActionRun can prepare the cell: its sources have values.
Prepared(c) == Depends[c] \subseteq filled

\* A user runs the column, or a bulk batch does; see CellRuns.
RunByHand(c) ==
  /\ ByUser
  /\ ~archived
  /\ c \notin active
  /\ Prepared(c)
  /\ active' = active \union {c}
  /\ bulk' \in {bulk, bulk \union {c}}
  /\ UNCHANGED <<rowVars, attempt, history, faults>>

\* markSqliteCellRunSucceeded
Succeed(c) ==
  /\ c \in active
  /\ active' = active \ {c}
  /\ bulk' = bulk \ {c}
  /\ \E F \in SUBSET Recomputed({c}) :
       /\ Mutate(1, {c} \union F)
       /\ Changes({c} \union F)
       /\ filled' = filled \union {c} \union F
  /\ UNCHANGED <<archived, attempt, user, faults>>

\* setSqliteCellRunFailure, the last attempt: no value changes, but the
\* column is recorded as changed.
Fail(c) ==
  /\ c \in active
  /\ Faulty("failure")
  /\ active' = active \ {c}
  /\ bulk' = bulk \ {c}
  /\ Mutate(1, {c})
  /\ UNCHANGED <<archived, filled, attempt, history, user>>

\* cancelSqliteBulkRunBatch changes the cell and leaves the row alone.
Cancel(c) ==
  /\ c \in bulk
  /\ Faulty("cancellation")
  /\ active' = active \ {c}
  /\ bulk' = bulk \ {c}
  /\ UNCHANGED <<rowVars, attempt, history, user>>

-----------------------------------------------------------------------------
(* processSqliteRowSettlement, one transaction, and its handler.           *)

\* The handler returns: its event is published, or the lease was lost and
\* the event is delivered again.
Returns(v) ==
  \/ events' = events \ {v} /\ UNCHANGED faults
  \/ Faulty("redelivery") /\ UNCHANGED events

\* The settlement was processed before.  If it failed the handler throws,
\* and setSqliteRowSettlementWorkerFailure changes nothing.
Over(v) ==
  /\ v \in events
  /\ settlement[v].status # "queued"
  /\ Returns(v)
  /\ UNCHANGED <<version, archived, filled, settlement, active, bulk, attempt,
                 history, user>>

\* The settlement is of the row as it is.
Current(v) == ~archived /\ v = version

\* Unconsumed settlements up to version v.
Candidates(v) ==
  {u \in 1 .. v : /\ settlement[u].status # "none"
                  /\ settlement[u].consumer = NoConsumer}

Changed(S) == UNION {settlement[u].changed : u \in S}

\* Wrong variant: changes that runs were queued for wake columns again.
DirtyAgain(v) == Changed(Candidates(v))

\* Wrong variant: only the settlement's own changes count.
DirtyOwn(v) == settlement[v].changed

\* Changes that no automatic run was queued for.
Dirty(v) == Changed({u \in Candidates(v) : settlement[u].runs = 0})

\* Automatic columns the settlement wakes.
Woken(v) == {c \in Automatic : DependsOn(c, Dirty(v))}

\* Wrong variant: only enrichments that were woken hold the settlement back.
HeldWoken(v) == Woken(v) \intersect active # {}

\* The settlement waits for an active enrichment, of a column it wakes or,
\* when it wakes none, of any.
Held(v) ==
  IF Woken(v) = {} THEN active # {} ELSE Woken(v) \intersect active # {}

\* The settlement is processed now.
Processing(v) == v \in events /\ settlement[v].status = "queued"

\* It is of another version, or enrichments are active: skipped, unconsumed.
Skip(v) ==
  /\ Processing(v)
  /\ ~Current(v) \/ Held(v)
  /\ settlement' = [settlement EXCEPT ![v].status = "skipped"]
  /\ Returns(v)
  /\ UNCHANGED <<version, archived, filled, active, bulk, attempt, history, user>>

\* Wrong variant: candidates are not consumed.
ConsumedNone(v, outcome) == [settlement EXCEPT ![v] = outcome]

\* Settlement v ends with an outcome and has consumed its candidates.
Consumed(v, outcome) ==
  [u \in Versions |->
     IF u = v THEN outcome
     ELSE IF u \in Candidates(v)
       THEN [settlement[u] EXCEPT !.status = "skipped", !.consumer = v]
     ELSE settlement[u]]

\* Automatic columns are queued, and deliveries wait for them.
QueueRuns(v) ==
  /\ Processing(v) /\ Current(v) /\ ~Held(v)
  /\ Woken(v) # {}
  /\ Cardinality(Woken(v)) <= MaxRuns
  /\ \A c \in Woken(v) : Prepared(c)
  /\ active' = active \union Woken(v)
  /\ owed' = owed \ Woken(v)
  /\ settlement' = Consumed(v, [settlement[v] EXCEPT
       !.status = "succeeded",
       !.changed = Changed(Candidates(v)),
       !.runs = Cardinality(Woken(v))])
  /\ Returns(v)
  /\ UNCHANGED <<version, archived, filled, bulk, attempt, sent, unsent, user>>

Blocked(v) ==
  settlement' = Consumed(v, [settlement[v] EXCEPT !.status = "failed", !.consumer = v])

\* The fan-out is over the limit.
BlockRuns(v) ==
  /\ Processing(v) /\ Current(v) /\ ~Held(v)
  /\ Cardinality(Woken(v)) > MaxRuns
  /\ Blocked(v)
  /\ Returns(v)
  /\ UNCHANGED <<version, archived, filled, active, bulk, attempt, history, user>>

\* Destinations that one of the changes is relevant to.
Writebacks(v) ==
  {d \in Destinations : Relevant[d] \intersect Changed(Candidates(v)) # {}}

\* No run is to be queued and none is active.  The row may not match the
\* filters of some destinations, or have no valid payload for them.
Deliverable(v, matched) ==
  /\ Processing(v) /\ Current(v) /\ ~Held(v)
  /\ Woken(v) = {}
  /\ matched \subseteq Writebacks(v)

BlockWritebacks(v) ==
  /\ \E matched \in SUBSET Destinations :
       Deliverable(v, matched) /\ Cardinality(matched) > MaxWritebacks
  /\ Blocked(v)
  /\ Returns(v)
  /\ UNCHANGED <<version, archived, filled, active, bulk, attempt, history, user>>

\* queueSettledSqliteWebhookDeliveries: the version the webhooks are told of.
Snapshot(v) == IF Webhooks THEN v ELSE sent

\* queueSettledSqliteWritebackDeliveries and the webhooks
Deliver(v) ==
  /\ \E matched \in SUBSET Destinations :
       Deliverable(v, matched) /\ Cardinality(matched) <= MaxWritebacks
  /\ unsent' = [d \in Destinations |->
       IF d \in Writebacks(v) THEN {} ELSE unsent[d]]
  /\ sent' = Snapshot(v)
  /\ settlement' = Consumed(v, [settlement[v] EXCEPT !.status = "succeeded", !.consumer = v])
  /\ Returns(v)
  /\ UNCHANGED <<version, archived, filled, active, bulk, attempt, owed, user>>

\* The transaction throws and is rolled back; the catch block leaves the
\* settlement queued for another attempt, or fails it.
Throws(v) ==
  /\ IF attempt[v] < MaxRetries
       THEN /\ attempt' = [attempt EXCEPT ![v] = @ + 1]
            /\ UNCHANGED <<settlement, events>>
       ELSE /\ settlement' = [settlement EXCEPT ![v].status = "failed"]
            /\ events' = events \ {v}
            /\ UNCHANGED attempt
  /\ UNCHANGED <<version, archived, filled, active, bulk, history, user>>

\* A woken column cannot be prepared: one of its sources has no value.
Unprepared(v) ==
  /\ Processing(v) /\ Current(v) /\ ~Held(v)
  /\ Cardinality(Woken(v)) <= MaxRuns
  /\ \E c \in Woken(v) : ~Prepared(c)
  /\ Throws(v)
  /\ UNCHANGED faults

StorageFault(v) ==
  /\ Processing(v)
  /\ Faulty("statement")
  /\ Throws(v)

Process(v) ==
  \/ Over(v) \/ Skip(v)
  \/ QueueRuns(v) \/ BlockRuns(v) \/ Unprepared(v)
  \/ BlockWritebacks(v) \/ Deliver(v)

Next ==
  \/ Edit \/ Archive \/ Restore
  \/ \E c \in Connectors : RunByHand(c) \/ Succeed(c) \/ Fail(c) \/ Cancel(c)
  \/ \E v \in Versions : Process(v) \/ StorageFault(v)

Spec == Init /\ [][Next]_vars

\* The dispatch loop handles every event, and every enrichment ends.
Fairness ==
  /\ WF_vars(\E v \in Versions : Process(v))
  /\ WF_vars(\E c \in Connectors : Succeed(c) \/ Fail(c))

FairSpec == Spec /\ Fairness

-----------------------------------------------------------------------------

\* The row is quiet: no settlement is to be processed, no enrichment is active.
AtRest == events = {} /\ active = {}

\* The changes of settlement v are in, or wait behind, a settlement that failed.
Lost(v) ==
  \E u \in v .. MaxVersion :
    settlement[u].status = "failed" /\ settlement[v].consumer \in {NoConsumer, u}

\* A quiet row has told its webhooks of its current version, unless the
\* settlement of that version failed (ADR 0012: a row is settled when no cell
\* is queued or running): no order of edits, automatic runs and settlement
\* events leaves the last state of the row undelivered.
SettledRowIsDelivered ==
  AtRest /\ Webhooks /\ ~archived /\ version > 0 =>
    sent = version \/ Lost(version)

\* The same, as long as no bulk run is cancelled.
DeliveredUnlessCancelled ==
  faults["cancellation"] = 0 => SettledRowIsDelivered

\* No change is forgotten: in a quiet row every automatic column has been
\* queued since its sources last changed, and every writeback destination has
\* been considered since its columns did, unless the settlement that carried
\* the change failed or a bulk run was cancelled (ADR 0013: changes coalesce
\* without dropping dependencies).
NoChangeForgotten ==
  AtRest /\ ~archived /\ faults["cancellation"] = 0 =>
    /\ \A c \in owed : \E v \in Versions : Lost(v) /\ DependsOn(c, settlement[v].changed)
    /\ \A d \in Destinations :
         unsent[d] # {} =>
           \E v \in Versions : Lost(v) /\ unsent[d] \intersect settlement[v].changed # {}

\* An automatic column is queued only if one of its sources changed since it
\* was last queued by a settlement: redelivered, stale and coalesced
\* settlements never pay the provider twice for one change.  An enrichment
\* that fails does wake the columns that depend on it.
RunsOnlyForChanges ==
  [][faults["failure"] = 0 => \A c \in Automatic :
       (\E v \in Versions : QueueRuns(v)) /\ c \in active' \ active
         => c \in owed]_vars

\* A webhook snapshot is taken of a row with nothing left to run: at that
\* moment no enrichment is active, and no automatic column is still to be
\* queued for a change unless the settlement that carried it failed.
DeliveredRowIsComplete ==
  [][sent' # sent => active = {} /\ \A c \in owed : \E v \in Versions :
       Lost(v) /\ DependsOn(c, settlement[v].changed)]_vars

\* The cascade of automatic runs that an edit starts comes to an end.
CascadeEnds == <>[]AtRest

=============================================================================
