------------------------------- MODULE Outbox -------------------------------
(***************************************************************************)
(* The SQLite outbox (packages/db/src/sqlite/outbox.ts) and the local      *)
(* dispatch loop that drains it (apps/workflow-worker/src/                 *)
(* local-dispatcher.ts).                                                   *)
(*                                                                         *)
(* A dispatcher claims a batch of events under one claim identifier, runs  *)
(* their handlers one after the other, and publishes or reschedules each.  *)
(* Every database call is one immediate transaction, hence one action; a   *)
(* dispatcher may crash between any two of them.                           *)
(*                                                                         *)
(* Time is relative: a claim has an age and a rescheduled event a number   *)
(* of ticks to wait.  Both saturate, so eligibility is exact and the clock *)
(* needs no bound.  A claim identifier is the name of the dispatcher that  *)
(* drew it: a dispatcher has at most one live batch, and forgets it before *)
(* it draws the next identifier.                                           *)
(***************************************************************************)
EXTENDS Integers, FiniteSets

CONSTANTS
  Events,        \* event identifiers, naturals in (createdAt, id) order
  Dispatchers,   \* worker processes running the dispatch loop
  NoClaim,       \* the null dispatchClaimId
  BatchLimit,    \* events per claim
  Lease,         \* ticks after which a claim is stale (leaseSeconds)
  MaxWait,       \* cap, in ticks, of the retry delay
  MaxRetries,    \* maximumWorkerTaskRetries of the events' type
  MaxAttempts,   \* bound: claims of one event that a behaviour explores
  MaxFaults,     \* bound: crashes and storage errors a behaviour explores
  MaxLate        \* bound: claims that expire under a live dispatcher

ASSUME OutboxAssumption ==
  /\ Events \subseteq Nat
  /\ NoClaim \notin Dispatchers
  /\ BatchLimit \in Nat \ {0}
  /\ Lease \in Nat
  /\ MaxWait \in Nat \ {0}
  /\ MaxRetries \in Nat
  /\ MaxAttempts \in Nat
  /\ MaxFaults \in Nat
  /\ MaxLate \in Nat

VARIABLES
  outbox,   \* the outbox_events rows
  disp,     \* what each dispatcher process remembers
  faults    \* what went wrong so far: crashes and errors, and late batches

vars == <<outbox, disp, faults>>

OutboxState == {"absent", "pending", "published"}
Outcome == {"running", "ok", "retryable", "fatal"}

OutboxRow ==
  [ state    : OutboxState,
    claim    : Dispatchers \union {NoClaim},
    age      : 0 .. Lease + 1,
    attempts : Nat,
    wait     : 0 .. MaxWait ]

\* batch: claimed events still to settle, the least of them being executed;
\* attempt: their attempt numbers as the claim returned them.
Dispatcher ==
  [ batch   : SUBSET Events,
    attempt : [Events -> Nat],
    outcome : Outcome ]

TypeOK ==
  /\ outbox \in [Events -> OutboxRow]
  /\ disp \in [Dispatchers -> Dispatcher]
  /\ faults \in [broken : 0 .. MaxFaults, late : 0 .. MaxLate]

-----------------------------------------------------------------------------

Idle ==
  [batch |-> {}, attempt |-> [e \in Events |-> 0], outcome |-> "running"]

Init ==
  /\ outbox = [e \in Events |-> [state |-> "absent", claim |-> NoClaim,
                                 age |-> 0, attempts |-> 0, wait |-> 0]]
  /\ disp = [d \in Dispatchers |-> Idle]
  /\ faults = [broken |-> 0, late |-> 0]

\* Wrong variants of the definition that follows, against which the
\* properties are tried: a claim expires a tick early, or never.
EligibleEarly(e) ==
  /\ outbox[e].state = "pending"
  /\ outbox[e].wait = 0
  /\ outbox[e].claim = NoClaim \/ outbox[e].age >= Lease

EligibleUnclaimed(e) ==
  /\ outbox[e].state = "pending"
  /\ outbox[e].wait = 0
  /\ outbox[e].claim = NoClaim

\* dispatchEligibility
Eligible(e) ==
  /\ outbox[e].state = "pending"
  /\ outbox[e].wait = 0
  /\ \/ outbox[e].claim = NoClaim
     \/ outbox[e].age > Lease

\* The first events in creation order, up to the limit.
Candidates ==
  {e \in Events :
     /\ Eligible(e)
     /\ Cardinality({f \in Events : Eligible(f) /\ f < e}) < BatchLimit}

\* The event whose handler dispatcher d is executing or settling.
Current(d, e) ==
  /\ e \in disp[d].batch
  /\ \A f \in disp[d].batch : e <= f

\* Wrong variant: the settling statements are not fenced by the claim.
OwnsUnfenced(d, e) == outbox[e].state = "pending"

\* The fence of completeSqliteOutboxEvent and retrySqliteOutboxEvent.
Owns(d, e) ==
  /\ outbox[e].state = "pending"
  /\ outbox[e].claim = d

\* The dispatcher gives up on a failure: non-retryable, or no retry left.
GivesUp(d, e) ==
  \/ disp[d].outcome = "fatal"
  \/ /\ disp[d].outcome = "retryable"
     /\ disp[d].attempt[e] - 1 >= MaxRetries

\* Backoff that grows with the attempt, up to a cap.
RetryDelay(attempt) == IF attempt < MaxWait THEN attempt ELSE MaxWait

\* A row whose claim columns are cleared.
Released(row) == [row EXCEPT !.claim = NoClaim, !.age = 0]

-----------------------------------------------------------------------------

\* A committed transaction of the application inserts an event.
Enqueue(e) ==
  /\ outbox[e].state = "absent"
  /\ outbox' = [outbox EXCEPT ![e].state = "pending"]
  /\ UNCHANGED <<disp, faults>>

\* claimSqliteOutboxEvents, called with a fresh claim identifier.
Claim(d) ==
  /\ disp[d].batch = {}
  /\ Candidates # {}
  /\ \A e \in Candidates : outbox[e].attempts < MaxAttempts
  /\ outbox' = [e \in Events |->
       IF e \in Candidates
         THEN [outbox[e] EXCEPT !.claim = d, !.age = 0, !.wait = 0,
                                !.attempts = @ + 1]
         ELSE outbox[e]]
  /\ disp' = [disp EXCEPT ![d] =
       [batch   |-> Candidates,
        attempt |-> [e \in Events |->
                       IF e \in Candidates THEN outbox[e].attempts + 1 ELSE 0],
        outcome |-> "running"]]
  /\ UNCHANGED faults

\* The handler of the current event returns or throws.
HandlerReturns(d, result) ==
  /\ disp[d].batch # {}
  /\ disp[d].outcome = "running"
  /\ disp' = [disp EXCEPT ![d].outcome = result]
  /\ UNCHANGED <<outbox, faults>>

\* The dispatcher moves on to the next event of its batch.
Advance(d, e) ==
  disp' = [disp EXCEPT ![d].batch = @ \ {e}, ![d].outcome = "running"]

\* completeSqliteOutboxEvent, after a success or a terminal failure.
Publish(d, e) ==
  /\ Current(d, e)
  /\ disp[d].outcome = "ok" \/ GivesUp(d, e)
  /\ Owns(d, e)
  /\ outbox' = [outbox EXCEPT ![e] =
                  [Released(@) EXCEPT !.state = "published", !.wait = 0]]
  /\ Advance(d, e)
  /\ UNCHANGED faults

\* retrySqliteOutboxEvent, after a failure with retries left.
Retry(d, e) ==
  /\ Current(d, e)
  /\ disp[d].outcome = "retryable"
  /\ ~GivesUp(d, e)
  /\ Owns(d, e)
  /\ outbox' = [outbox EXCEPT ![e] =
                  [Released(@) EXCEPT !.wait = RetryDelay(disp[d].attempt[e])]]
  /\ Advance(d, e)
  /\ UNCHANGED faults

\* The claim was lost.  Completion throws inside the try block, the catch
\* block meets the same conflict, and the whole batch is abandoned.
LostClaim(d, e) ==
  /\ Current(d, e)
  /\ disp[d].outcome # "running"
  /\ ~Owns(d, e)
  /\ disp' = [disp EXCEPT ![d] = Idle]
  /\ UNCHANGED <<outbox, faults>>

\* A crash or a storage error, within the bound.
Fault ==
  /\ faults.broken < MaxFaults
  /\ faults' = [faults EXCEPT !.broken = @ + 1]

\* The settling statement itself fails.  After a success the catch block
\* treats that as a failure of the handler; inside the catch block nothing
\* catches it, and the rest of the batch waits for its lease to expire.
StorageError(d) ==
  /\ disp[d].batch # {}
  /\ disp[d].outcome # "running"
  /\ Fault
  /\ disp' = [disp EXCEPT ![d] =
                IF @.outcome = "ok" THEN [@ EXCEPT !.outcome = "retryable"]
                                    ELSE Idle]
  /\ UNCHANGED outbox

\* The process dies and restarts; its batch is lost, its claims are not.
Crash(d) ==
  /\ disp[d].batch # {}
  /\ Fault
  /\ disp' = [disp EXCEPT ![d] = Idle]
  /\ UNCHANGED outbox

\* The next tick makes a claim stale whose batch a live dispatcher is still
\* working on.
Overdue ==
  \E d \in Dispatchers, e \in Events :
    e \in disp[d].batch /\ Owns(d, e) /\ outbox[e].age = Lease

\* Time passes, beyond the lease of a live batch within the bound only.
Tick ==
  /\ Overdue => faults.late < MaxLate
  /\ faults' = [faults EXCEPT !.late = IF Overdue THEN @ + 1 ELSE @]
  /\ outbox' = [e \in Events |->
       [outbox[e] EXCEPT
          !.age = IF outbox[e].claim = NoClaim \/ @ > Lease THEN @ ELSE @ + 1,
          !.wait = IF @ = 0 THEN 0 ELSE @ - 1]]
  /\ UNCHANGED disp

Next ==
  \/ \E e \in Events : Enqueue(e)
  \/ \E d \in Dispatchers : Claim(d)
  \/ \E d \in Dispatchers, result \in Outcome \ {"running"} :
       HandlerReturns(d, result)
  \/ \E d \in Dispatchers, e \in Events : Publish(d, e)
  \/ \E d \in Dispatchers, e \in Events : Retry(d, e)
  \/ \E d \in Dispatchers, e \in Events : LostClaim(d, e)
  \/ \E d \in Dispatchers : StorageError(d)
  \/ \E d \in Dispatchers : Crash(d)
  \/ Tick

Spec == Init /\ [][Next]_vars

\* The next step of the loop of dispatcher d.
Loop(d) ==
  \/ Claim(d)
  \/ \E result \in Outcome \ {"running"} : HandlerReturns(d, result)
  \/ \E e \in Events : Publish(d, e) \/ Retry(d, e) \/ LostClaim(d, e)

\* The dispatch loop polls for ever, handlers return, and time passes.
Fairness == WF_vars(Tick) /\ \A d \in Dispatchers : WF_vars(Loop(d))

FairSpec == Spec /\ Fairness

-----------------------------------------------------------------------------

\* A dispatcher whose claim on an event of its batch still stands works on
\* the latest attempt: the retry budget it reads in local-dispatcher.ts is
\* the one the row records, and no older attempt can settle the event.
OwnedAttemptIsLatest ==
  \A d \in Dispatchers, e \in Events :
    (e \in disp[d].batch /\ Owns(d, e)) =>
      disp[d].attempt[e] = outbox[e].attempts

\* While batches settle within their lease, no event is in the hands of two
\* dispatchers at once, whatever crashes and storage errors do.
ExclusiveExecution ==
  faults.late = 0 =>
    \A d1, d2 \in Dispatchers :
      d1 # d2 => disp[d1].batch \intersect disp[d2].batch = {}

\* Publication is final: no claim, retry or late settlement by a dispatcher
\* that lost its lease touches a published row again.
PublishedIsFinal ==
  [][\A e \in Events : outbox[e].state = "published" => outbox'[e] = outbox[e]]_vars

\* Every event is eventually published, through retries, crashes, storage
\* errors, lost batches and claims that expire under a live dispatcher.
EventuallyPublished ==
  \A e \in Events : outbox[e].state = "pending" ~> outbox[e].state = "published"

=============================================================================
