------------------------------ MODULE Analytics ------------------------------
(***************************************************************************)
(* The analytics projector (apps/analytics-projector/src) over its claims  *)
(* in the database (packages/db/src/sqlite/analytics.ts): it copies outbox *)
(* events to a ClickHouse warehouse, and erases from the warehouse what    *)
(* belonged to a workspace that was purged.                                *)
(*                                                                         *)
(* A projector alternates two batches for ever.  Every database call is    *)
(* one action.  An insertion is a request that the warehouse carries out   *)
(* at some moment before its answer, or, once the projector has given up   *)
(* on it or has died, at some later moment or never.                       *)
(*                                                                         *)
(* Time is relative, as in module Outbox.                                  *)
(***************************************************************************)
EXTENDS Integers, FiniteSets

CONSTANTS
  Facts,         \* analytics events, naturals in (createdAt, id) order
  Workspaces,    \* naturals
  WorkspaceOf,   \* the workspace of each event
  Invalid,       \* the events that toAnalyticsProjectionRow rejects
  Projectors,    \* projector processes
  NoProjector,   \* the null claim identifier
  FactLimit,     \* events, and receipts, per claim
  FactLease,     \* ticks after which a claim is stale
  FactWait,      \* cap, in ticks, of the retry delay
  Deadline,      \* ticks from the reading of the purge receipts by which an
                 \* insertion has reached the warehouse or never will
  Grace,         \* ticks from a purge to its erasure (graceSeconds)
  MaxSetbacks    \* bound: failures, crashes and late claims together

\* A request gives up after 30 seconds, and an hour passes before an erasure.
AnalyticsParameters ==
  /\ Facts \union Workspaces \subseteq Nat
  /\ WorkspaceOf \in [Facts -> Workspaces]
  /\ Invalid \subseteq Facts
  /\ NoProjector \notin Projectors
  /\ {FactLimit, FactWait} \subseteq Nat \ {0}
  /\ {FactLease, Deadline, Grace, MaxSetbacks} \subseteq Nat
  /\ Deadline < Grace

VARIABLES
  fact,        \* the analytics columns of the outbox_events rows
  receipt,     \* workspace_purge_receipts
  projector,   \* what each projector process remembers
  requests,    \* insertions under way that no projector waits for any more
  warehouse,   \* the events that the ClickHouse table holds rows of
  setbacks     \* failures, crashes and late claims so far

analyticsVars == <<fact, receipt, projector, requests, warehouse, setbacks>>

Lapse == [claim : Projectors \union {NoProjector},
          age : 0 .. FactLease + 1, wait : 0 .. FactWait]

Stage == {"erase", "erasing", "erased", "project", "claimed", "checked",
          "inserted", "failed"}

AnalyticsTypeOK ==
  /\ fact \in [Facts -> [state : {"absent", "pending", "projected", "deleted"},
                          lapse : Lapse]]
  /\ receipt \in [Workspaces -> [state : {"none", "purged", "erased"},
                                  since : 0 .. Grace, lapse : Lapse]]
  /\ projector \in [Projectors -> [stage : Stage, todo : SUBSET Workspaces,
                                   batch : SUBSET Facts, age : 0 .. Deadline]]
  /\ requests \subseteq [batch : SUBSET Facts, age : 0 .. Deadline]
  /\ warehouse \subseteq Facts
  /\ setbacks \in 0 .. MaxSetbacks

-----------------------------------------------------------------------------

Free == [claim |-> NoProjector, age |-> 0, wait |-> 0]
Claimed(p) == [claim |-> p, age |-> 0, wait |-> 0]
Delayed(ticks) == [claim |-> NoProjector, age |-> 0, wait |-> ticks]

AtStart == [stage |-> "erase", todo |-> {}, batch |-> {}, age |-> 0]

AnalyticsInit ==
  /\ fact = [e \in Facts |-> [state |-> "absent", lapse |-> Free]]
  /\ receipt = [w \in Workspaces |->
                  [state |-> "none", since |-> 0, lapse |-> Free]]
  /\ projector = [p \in Projectors |-> AtStart]
  /\ requests = {}
  /\ warehouse = {}
  /\ setbacks = 0

EventsOf(w) == {e \in Facts : WorkspaceOf[e] = w}
Purged(w) == receipt[w].state # "none"

\* Wrong variant: a claim never expires.
DueUnclaimed(lapse) == lapse.wait = 0 /\ lapse.claim = NoProjector

\* The time conditions that both eligibility predicates share.
Due(lapse) ==
  /\ lapse.wait = 0
  /\ lapse.claim = NoProjector \/ lapse.age > FactLease

\* analyticsEventEligibility
Projectable(e) == fact[e].state = "pending" /\ Due(fact[e].lapse)

\* Wrong variant: a purge is erased without a grace period.
ErasableAtOnce(w) == receipt[w].state = "purged" /\ Due(receipt[w].lapse)

\* analyticsErasureEligibility
Erasable(w) ==
  /\ receipt[w].state = "purged"
  /\ receipt[w].since = Grace
  /\ Due(receipt[w].lapse)

\* The first eligible events in creation order, up to the limit.
ProjectionBatch ==
  {e \in Facts :
     /\ Projectable(e)
     /\ Cardinality({f \in Facts : Projectable(f) /\ f < e}) < FactLimit}

\* Eligible receipts, up to the limit: the oldest first.
ErasureBatches ==
  {b \in SUBSET {w \in Workspaces : Erasable(w)} :
     /\ Cardinality(b) <= FactLimit
     /\ \A w \in Workspaces \ b :
          Erasable(w) => Cardinality(b) = FactLimit
     /\ b # {}}

Goto(p, next) == projector' = [projector EXCEPT ![p].stage = next]

\* A batch throws: the loop reports it and starts over, its claims stand.
Abandon(p) == projector' = [projector EXCEPT ![p] = AtStart]

Setback ==
  /\ setbacks < MaxSetbacks
  /\ setbacks' = setbacks + 1

-----------------------------------------------------------------------------

\* A transaction of the application commits an event of a workspace.
Record(e) ==
  /\ fact[e].state = "absent"
  /\ ~Purged(WorkspaceOf[e])
  /\ fact' = [fact EXCEPT ![e].state = "pending"]
  /\ UNCHANGED <<receipt, projector, requests, warehouse, setbacks>>

\* purgeSqliteWorkspace: the receipt, and the deletion that cascades to the
\* events of the workspace.
Purge(w) ==
  /\ ~Purged(w)
  /\ receipt' = [receipt EXCEPT ![w].state = "purged"]
  /\ fact' = [e \in Facts |->
       IF WorkspaceOf[e] = w THEN [state |-> "deleted", lapse |-> Free]
                             ELSE fact[e]]
  /\ UNCHANGED <<projector, requests, warehouse, setbacks>>

\* claimSqliteWorkspaceAnalyticsErasures
ClaimErasures(p) ==
  /\ projector[p].stage = "erase"
  /\ \/ /\ \A w \in Workspaces : ~Erasable(w)
        /\ Goto(p, "project")
        /\ UNCHANGED receipt
     \/ \E batch \in ErasureBatches :
          /\ receipt' = [w \in Workspaces |->
               IF w \in batch THEN [receipt[w] EXCEPT !.lapse = Claimed(p)]
                              ELSE receipt[w]]
          /\ projector' = [projector EXCEPT ![p].stage = "erasing",
                                            ![p].todo = batch]
  /\ UNCHANGED <<fact, requests, warehouse, setbacks>>

\* The next workspace of the batch, or event of either kind of batch.
First(set, x) == x \in set /\ \A y \in set : x <= y

\* eraseWorkspace: the warehouse deletes the rows of the next workspace.
EraseWorkspace(p, w) ==
  /\ projector[p].stage = "erasing"
  /\ First(projector[p].todo, w)
  /\ warehouse' = warehouse \ EventsOf(w)
  /\ Goto(p, "erased")
  /\ UNCHANGED <<fact, receipt, requests, setbacks>>

\* The batch goes on with the next workspace; after the last one the loop
\* goes on to projectAnalyticsBatch.
NextErasure(p, w) ==
  LET rest == projector[p].todo \ {w}
  IN projector' = [projector EXCEPT
       ![p].todo = rest,
       ![p].stage = IF rest = {} THEN "project" ELSE "erasing"]

\* The fence of the statements that settle an erasure.
HoldsErasure(p, w) ==
  receipt[w].state = "purged" /\ receipt[w].lapse.claim = p

\* completeSqliteWorkspaceAnalyticsErasure, or, when the claim was lost, its
\* conflict and that of the retry in the catch block, which nothing catches.
CompleteErasure(p, w) ==
  /\ projector[p].stage = "erased"
  /\ First(projector[p].todo, w)
  /\ IF HoldsErasure(p, w)
       THEN /\ receipt' = [receipt EXCEPT ![w].state = "erased",
                                          ![w].lapse = Free]
            /\ NextErasure(p, w)
       ELSE Abandon(p) /\ UNCHANGED receipt
  /\ UNCHANGED <<fact, requests, warehouse, setbacks>>

\* The deletion fails, or the statement that completes it:
\* retrySqliteWorkspaceAnalyticsErasure.
FailErasure(p, w) ==
  /\ projector[p].stage \in {"erasing", "erased"}
  /\ First(projector[p].todo, w)
  /\ Setback
  /\ IF HoldsErasure(p, w)
       THEN /\ \E ticks \in 1 .. FactWait :
                 receipt' = [receipt EXCEPT ![w].lapse = Delayed(ticks)]
            /\ NextErasure(p, w)
       ELSE Abandon(p) /\ UNCHANGED receipt
  /\ UNCHANGED <<fact, requests, warehouse>>

-----------------------------------------------------------------------------

\* claimSqliteAnalyticsEvents
ClaimFacts(p) ==
  /\ projector[p].stage = "project"
  /\ IF ProjectionBatch = {}
       THEN Abandon(p) /\ UNCHANGED fact
       ELSE /\ fact' = [e \in Facts |->
                 IF e \in ProjectionBatch
                   THEN [fact[e] EXCEPT !.lapse = Claimed(p)] ELSE fact[e]]
            /\ projector' = [projector EXCEPT ![p].stage = "claimed",
                                              ![p].batch = ProjectionBatch]
  /\ UNCHANGED <<receipt, requests, warehouse, setbacks>>

\* listSqlitePurgedAnalyticsWorkspaceIds, and the filter that follows.
Unpurged(batch) == {e \in batch : ~Purged(WorkspaceOf[e])}

\* The purge receipts are read; what is left is about to be inserted.
CheckPurges(p) ==
  /\ projector[p].stage = "claimed"
  /\ projector' = [projector EXCEPT ![p].stage = "checked",
                                    ![p].batch = Unpurged(@)]
  /\ UNCHANGED <<fact, receipt, requests, warehouse, setbacks>>

\* The fence of the statements that settle the projection of an event.
HoldsFact(p, e) == fact[e].state = "pending" /\ fact[e].lapse.claim = p

\* The events of a batch that the claim still covers, delayed for a retry.
RetriedFacts(p, batch) ==
  \E ticks \in 1 .. FactWait :
    fact' = [e \in Facts |->
      IF e \in batch /\ HoldsFact(p, e)
        THEN [fact[e] EXCEPT !.lapse = Delayed(ticks)] ELSE fact[e]]

\* An event that cannot be mapped to a row is scheduled for a retry on its
\* own; a conflict there ends the batch.
RejectFact(p, e) ==
  /\ projector[p].stage = "checked"
  /\ First(projector[p].batch \intersect Invalid, e)
  /\ RetriedFacts(p, {e})
  /\ IF HoldsFact(p, e)
       THEN projector' = [projector EXCEPT ![p].batch = @ \ {e}]
       ELSE Abandon(p)
  /\ UNCHANGED <<receipt, requests, warehouse, setbacks>>

\* Nothing is left to insert.
NothingToInsert(p) ==
  /\ projector[p].stage = "checked"
  /\ projector[p].batch = {}
  /\ Abandon(p)
  /\ UNCHANGED <<fact, receipt, requests, warehouse, setbacks>>

Inserting(p) ==
  /\ projector[p].stage = "checked"
  /\ projector[p].batch # {}
  /\ projector[p].batch \intersect Invalid = {}

\* The insertion reaches the warehouse, which confirms it.  Rows have the
\* event as their key (ReplacingMergeTree), so a repetition adds nothing.
Insert(p) ==
  /\ Inserting(p)
  /\ warehouse' = warehouse \union projector[p].batch
  /\ projector' = [projector EXCEPT ![p].stage = "inserted", ![p].age = 0]
  /\ UNCHANGED <<fact, receipt, requests, setbacks>>

\* completeSqliteAnalyticsEvents: one statement settles the events that the
\* claim still covers, and throws when they are not the whole batch.
CompleteFacts(p) ==
  /\ projector[p].stage = "inserted"
  /\ fact' = [e \in Facts |->
       IF e \in projector[p].batch /\ HoldsFact(p, e)
         THEN [state |-> "projected", lapse |-> Free] ELSE fact[e]]
  /\ IF \A e \in projector[p].batch : HoldsFact(p, e)
       THEN Abandon(p)
       ELSE Goto(p, "failed")
  /\ UNCHANGED <<receipt, requests, warehouse, setbacks>>

\* What becomes of the insertion that projector p stops waiting for: it may
\* still reach the warehouse.
Forsaken(p) ==
  requests' = IF Inserting(p)
    THEN requests \union {[batch |-> projector[p].batch,
                           age |-> projector[p].age]}
    ELSE requests

\* The insertion is not confirmed in time, or its completion fails.
FailInsertion(p) ==
  /\ Inserting(p) \/ projector[p].stage = "inserted"
  /\ Setback
  /\ Forsaken(p)
  /\ projector' = [projector EXCEPT ![p].stage = "failed", ![p].age = 0]
  /\ UNCHANGED <<fact, receipt, warehouse>>

\* retrySqliteAnalyticsEvents in the catch block; its conflict ends the batch
\* as its success does.
RetryFacts(p) ==
  /\ projector[p].stage = "failed"
  /\ RetriedFacts(p, projector[p].batch)
  /\ Abandon(p)
  /\ UNCHANGED <<receipt, requests, warehouse, setbacks>>

\* An insertion that nobody waits for reaches the warehouse, or is lost.
Settle(request) ==
  /\ request \in requests
  /\ requests' = requests \ {request}
  /\ \/ warehouse' = warehouse \union request.batch
     \/ UNCHANGED warehouse
  /\ UNCHANGED <<fact, receipt, projector, setbacks>>

\* The process dies, is aborted, or a statement outside the try blocks fails.
Interrupt(p) ==
  /\ projector[p] # AtStart
  /\ Setback
  /\ Forsaken(p)
  /\ Abandon(p)
  /\ UNCHANGED <<fact, receipt, warehouse>>

-----------------------------------------------------------------------------

Aged(lapse) ==
  [lapse EXCEPT
     !.age = IF lapse.claim = NoProjector \/ @ > FactLease THEN @ ELSE @ + 1,
     !.wait = IF @ = 0 THEN 0 ELSE @ - 1]

\* The next tick makes a claim stale that a live projector still works on.
Lapsing ==
  \E p \in Projectors :
    \/ \E e \in projector[p].batch :
         HoldsFact(p, e) /\ fact[e].lapse.age = FactLease
    \/ \E w \in projector[p].todo :
         HoldsErasure(p, w) /\ receipt[w].lapse.age = FactLease

\* Time passes, except beyond the deadline of an insertion under way.
Pass ==
  /\ \A p \in Projectors :
       projector[p].stage = "checked" => projector[p].age < Deadline
  /\ \A request \in requests : request.age < Deadline
  /\ IF Lapsing THEN Setback ELSE UNCHANGED setbacks
  /\ fact' = [e \in Facts |-> [fact[e] EXCEPT !.lapse = Aged(@)]]
  /\ receipt' = [w \in Workspaces |->
       [receipt[w] EXCEPT
          !.lapse = Aged(@),
          !.since = IF receipt[w].state = "none" \/ @ = Grace THEN @
                    ELSE @ + 1]]
  /\ projector' = [p \in Projectors |->
       IF projector[p].stage = "checked"
         THEN [projector[p] EXCEPT !.age = @ + 1] ELSE projector[p]]
  /\ requests' = {[request EXCEPT !.age = @ + 1] : request \in requests}
  /\ UNCHANGED warehouse

\* The next step of the loop of projector p.
Project(p) ==
  \/ ClaimErasures(p) \/ ClaimFacts(p) \/ CheckPurges(p)
  \/ NothingToInsert(p) \/ Insert(p) \/ CompleteFacts(p) \/ RetryFacts(p)
  \/ \E w \in Workspaces : EraseWorkspace(p, w) \/ CompleteErasure(p, w)
  \/ \E e \in Facts : RejectFact(p, e)

AnalyticsNext ==
  \/ \E e \in Facts : Record(e)
  \/ \E w \in Workspaces : Purge(w)
  \/ \E p \in Projectors : Project(p) \/ FailInsertion(p) \/ Interrupt(p)
  \/ \E p \in Projectors, w \in Workspaces : FailErasure(p, w)
  \/ \E request \in requests : Settle(request)
  \/ Pass

AnalyticsSpec == AnalyticsInit /\ [][AnalyticsNext]_analyticsVars

\* The loop never stops, requests end, and time passes.
AnalyticsFairness ==
  /\ WF_analyticsVars(Pass)
  /\ WF_analyticsVars(\E request \in requests : Settle(request))
  /\ \A p \in Projectors : WF_analyticsVars(Project(p))

-----------------------------------------------------------------------------

\* Once its erasure is recorded, a purged workspace never again has a row in
\* the warehouse: neither a projector that claimed its events before the
\* purge nor an insertion that nobody waits for any more brings one back.
ErasedForGood ==
  \A w \in Workspaces :
    receipt[w].state = "erased" => warehouse \intersect EventsOf(w) = {}

\* Every valid event reaches the warehouse unless its workspace is purged, and
\* every purged workspace is erased, through failed requests, crashes and
\* expired claims.
AnalyticsSettle ==
  /\ \A e \in Facts \ Invalid :
       fact[e].state = "pending" ~> (e \in warehouse \/ fact[e].state = "deleted")
  /\ \A w \in Workspaces :
       receipt[w].state = "purged" ~> receipt[w].state = "erased"

=============================================================================
