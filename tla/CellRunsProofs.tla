--------------------------- MODULE CellRunsProofs ----------------------------
(***************************************************************************)
(* Proofs about enrichment cell runs and the bulk batch that expands into  *)
(* them, for any number of cells, events, workers and retries, whatever    *)
(* the chunk size and the batch limit: the accounts of the batch, the      *)
(* quiet after a cancellation, what a cell shows of its runs, and that no  *)
(* active run is forgotten.  What the outbox contributes is proved in      *)
(* module OutboxProofs.                                                    *)
(***************************************************************************)
EXTENDS CellRuns, FiniteSetTheorems, TLAPS

P == INSTANCE OutboxProofs

\* What is known of the outbox (module OutboxProofs).
Claims ==
  /\ P!TypeOK
  /\ P!OwnedAttemptIsLatest /\ P!OnlyPendingClaimed /\ P!HeldWithinLease

\* Events are created in order, each with a row in the outbox and, if it asks
\* for a cell, with a run.  Dispatchers hold events that were created.
EventsInOrder == Created = 1 .. Cardinality(Created)

EventsHaveRows ==
  \A e \in Events : target[e] = Nothing <=> outbox[e].state = "absent"

RunsHaveCells ==
  \A e \in Events : target[e] \in Cells <=> run[e] # "none"

HeldEventsExist ==
  \A d \in Dispatchers : disp[d].batch \subseteq Created

EventsSound ==
  /\ EventsInOrder /\ EventsHaveRows /\ RunsHaveCells /\ HeldEventsExist

\* A dispatcher inside the handler's try block is running the handler of a
\* cell's run.
HandlersRun ==
  \A d \in Dispatchers :
    stage[d] # "outside" =>
      /\ disp[d].outcome = "running"
      /\ \E e \in Events : O!Current(d, e) /\ target[e] \in Cells

\* The batch counts its items, none of which is left when it is over.
ItemsCounted ==
  /\ batch.status = "none" => Items("none") = Cells
  /\ batch.selected = Cardinality(Cells \ Items("none"))
  /\ batch.queued = Cardinality(Items("queued"))
  /\ batch.skipped = Cardinality(Items("skipped"))
  /\ batch.status \in {"completed", "cancelled"} => Items("pending") = {}

QueuedItemsHaveRuns ==
  \A c \in Items("queued") :
    item[c].run \in Events /\ target[item[c].run] = c

BatchSound == ItemsCounted /\ QueuedItemsHaveRuns /\ CancelledBatchIsQuiet

\* Undisturbed, a dispatcher that is done with an event leaves no active run.
DoneRunsAreOver ==
  Undisturbed => \A d \in Dispatchers, e \in Events :
    /\ O!Current(d, e)
    /\ disp[d].outcome = "ok" \/ O!GivesUp(d, e)
    => run[e] \notin Active

\* What a cell shows, as long as no statement fails, no process dies and the
\* batch is not cancelled: one worker at a time is inside the try block of a
\* run, and the run is running.
Sound == faults.broken = 0 /\ batch.status # "cancelled"

WorkersApart ==
  Sound => \A d \in Dispatchers, e \in Events :
    stage[d] # "outside" /\ O!Current(d, e) =>
      /\ run[e] = "running"
      /\ \A f \in Dispatchers \ {d} :
           ~ (stage[f] # "outside" /\ O!Current(f, e))

\* The inductive invariant.
IInv ==
  /\ TypeOK
  /\ Claims /\ EventsSound /\ HandlersRun /\ BatchSound
  /\ ActiveRunIsDriven /\ DoneRunsAreOver
  /\ WorkersApart /\ CellShowsUncancelledRun

-----------------------------------------------------------------------------

\* The outbox of this module is the one of module OutboxProofs.
LEMMA OutboxParameters == P!OutboxAssumption
  BY CellRunsAssumption DEF P!OutboxAssumption, Events

LEMMA SameOutbox ==
  /\ O!TypeOK <=> P!TypeOK
  /\ O!Init <=> P!Init
  /\ \A d \in Dispatchers : O!Claim(d) => P!Claim(d)
  /\ \A d \in Dispatchers, e \in Events :
       /\ O!Publish(d, e) => P!Publish(d, e)
       /\ O!Retry(d, e) => P!Retry(d, e)
       /\ O!LostClaim(d, e) => P!LostClaim(d, e)
  /\ O!Tick => P!Tick
<1>1. O!TypeOK <=> P!TypeOK
  BY DEF O!TypeOK, P!TypeOK, O!OutboxRow, P!OutboxRow, O!Dispatcher,
         P!Dispatcher, O!OutboxState, P!OutboxState, O!Outcome, P!Outcome
<1>2. O!Init <=> P!Init
  BY DEF O!Init, P!Init, O!Idle, P!Idle
<1>3. ASSUME NEW d \in Dispatchers PROVE O!Claim(d) => P!Claim(d)
  <2>1. \A S : O!Cardinality(S) = P!Cardinality(S)
    BY DEF O!Cardinality, P!Cardinality
  <2>2. O!Candidates = P!Candidates
    BY <2>1 DEF O!Candidates, P!Candidates, O!Eligible, P!Eligible
  <2>3. QED
    BY <2>2 DEF O!Claim, P!Claim
<1>4. ASSUME NEW d \in Dispatchers, NEW e \in Events
      PROVE  /\ O!Publish(d, e) => P!Publish(d, e)
             /\ O!Retry(d, e) => P!Retry(d, e)
             /\ O!LostClaim(d, e) => P!LostClaim(d, e)
  <2> USE DEF O!Current, P!Current, O!Owns, P!Owns, O!GivesUp, P!GivesUp,
              O!Advance, P!Advance, O!Released, P!Released
  <2>1. O!Publish(d, e) => P!Publish(d, e)
    BY Zenon DEF O!Publish, P!Publish
  <2>2. O!Retry(d, e) => P!Retry(d, e)
    BY Zenon DEF O!Retry, P!Retry, O!RetryDelay, P!RetryDelay
  <2>3. O!LostClaim(d, e) => P!LostClaim(d, e)
    BY Zenon DEF O!LostClaim, P!LostClaim, O!Idle, P!Idle
  <2>4. QED
    BY <2>1, <2>2, <2>3
<1>5. O!Tick => P!Tick
  <2>1. O!Overdue <=> P!Overdue
    BY DEF O!Overdue, P!Overdue, O!Owns, P!Owns
  <2>2. QED
    BY <2>1, Zenon DEF O!Tick, P!Tick
<1>6. QED
  BY <1>1, <1>2, <1>3, <1>4, <1>5

-----------------------------------------------------------------------------
(* New runs.                                                               *)

\* A finite set of naturals in order: how many are below one of them tells
\* them apart and takes every value up to their number.
Below(S, c) == {b \in S : b < c}

LEMMA Ranking ==
  ASSUME NEW S \in SUBSET Nat, IsFiniteSet(S), NEW n \in Nat
  PROVE  /\ \A c \in S : n + Cardinality(Below(S, c)) \in n .. n + Cardinality(S) - 1
         /\ \A b, c \in S :
              n + Cardinality(Below(S, b)) = n + Cardinality(Below(S, c)) => b = c
         /\ {n + Cardinality(Below(S, c)) : c \in S} = n .. n + Cardinality(S) - 1
<1>1. Cardinality(S) \in Nat
  BY FS_CardinalityType
<1>2. ASSUME NEW c \in S
      PROVE  /\ IsFiniteSet(Below(S, c)) /\ Cardinality(Below(S, c)) \in Nat
             /\ Cardinality(Below(S, c)) < Cardinality(S)
  <2>1. Below(S, c) \in SUBSET S /\ Below(S, c) # S
    BY DEF Below
  <2>2. IsFiniteSet(Below(S, c)) /\ Cardinality(Below(S, c)) <= Cardinality(S)
        /\ Cardinality(Below(S, c)) # Cardinality(S)
    BY <2>1, FS_Subset
  <2>3. Cardinality(Below(S, c)) \in Nat
    BY <2>2, FS_CardinalityType
  <2>4. QED
    BY <1>1, <2>2, <2>3
<1>3. ASSUME NEW b \in S, NEW c \in S, b < c
      PROVE  Cardinality(Below(S, b)) < Cardinality(Below(S, c))
  <2>1. Below(S, b) \in SUBSET Below(S, c) /\ b \in Below(S, c) \ Below(S, b)
    <3>1. \A x \in S : x \in Int
      OBVIOUS
    <3>2. \A x \in Int : x < b => x < c
      BY <1>3, <3>1
    <3>3. ~ (b < b) /\ b < c
      BY <1>3, <3>1
    <3>4. QED
      BY <3>1, <3>2, <3>3, Zenon DEF Below
  <2>2. Cardinality(Below(S, b)) <= Cardinality(Below(S, c))
        /\ Cardinality(Below(S, b)) # Cardinality(Below(S, c))
    BY <1>2, <2>1, FS_Subset
  <2>3. QED
    BY <1>2, <2>2
<1> DEFINE rank(c) == n + Cardinality(Below(S, c))
           I == n .. n + Cardinality(S) - 1
<1>4. \A c \in S : rank(c) \in I
  BY <1>1, <1>2
<1>5. \A b, c \in S : rank(b) = rank(c) => b = c
  <2> SUFFICES ASSUME NEW b \in S, NEW c \in S, b < c
               PROVE  rank(b) # rank(c)
    OBVIOUS
  <2>1. QED
    BY <1>2, <1>3
<1>6. {rank(c) : c \in S} = I
  <2> DEFINE f == [c \in S |-> rank(c)]
  <2> HIDE DEF rank
  <2>1. IsFiniteSet(I) /\ Cardinality(I) = Cardinality(S)
    <3>1. ASSUME NEW k \in Nat
          PROVE  IsFiniteSet(n .. n + k - 1) /\ Cardinality(n .. n + k - 1) = k
      <4>1. n \in Int /\ n + k - 1 \in Int
        OBVIOUS
      <4>2. QED
        BY <4>1, FS_Interval
    <3>2. QED
      BY <1>1, <3>1
  <2> HIDE DEF I
  <2>2. f \in Injection(S, I)
    BY <1>4, <1>5 DEF Injection, IsInjective
  <2> HIDE DEF f
  <2>3. f \in Surjection(S, I)
    BY <2>1, <2>2, FS_Injection
  <2> USE DEF f
  <2>4. QED
    BY <2>3 DEF Surjection
<1>7. QED
  BY <1>4, <1>5, <1>6

\* The next event, and the events of a set of cells (queueConnectorActionRun,
\* in sequence), continue those created so far, one for each cell.
LEMMA NewRunsContinue ==
  ASSUME EventsInOrder, NEW queue \in SUBSET Cells
  PROVE  /\ NextEvent \in Nat \ {0}
         /\ Created = 1 .. NextEvent - 1
         /\ IsFiniteSet(queue) /\ Cardinality(queue) \in Nat
         /\ \A c \in queue : EventOf(queue, c) \in NewRuns(queue)
         /\ \A b, c \in queue :
              EventOf(queue, b) = EventOf(queue, c) => b = c
         /\ NewRuns(queue) = NextEvent .. NextEvent + Cardinality(queue) - 1
<1>1. Cardinality(Created) \in Nat
  <2>1. IsFiniteSet(1 .. MaxEvents)
    BY FS_Interval, CellRunsAssumption
  <2>2. Created \in SUBSET (1 .. MaxEvents)
    BY DEF Events, Created
  <2>3. QED
    BY <2>1, <2>2, FS_Subset, FS_CardinalityType
<1>2. queue \in SUBSET Nat /\ IsFiniteSet(queue) /\ Cardinality(queue) \in Nat
  BY CellRunsAssumption, FS_Subset, FS_CardinalityType
<1>3. NextEvent \in Nat \ {0} /\ Created = 1 .. NextEvent - 1
  BY <1>1 DEF EventsInOrder, NextEvent
<1>4. \A c \in queue : EventOf(queue, c) = NextEvent + Cardinality(Below(queue, c))
  BY DEF EventOf, Below
<1>5. NewRuns(queue) = {NextEvent + Cardinality(Below(queue, c)) : c \in queue}
  BY <1>4 DEF NewRuns
<1>6. QED
  BY <1>2, <1>3, <1>4, <1>5, Ranking DEF NewRuns

\* What queueing runs for some cells does.
LEMMA QueueEffect ==
  ASSUME TypeOK, EventsInOrder, NEW queue \in SUBSET Cells, QueueRuns(queue)
  PROVE  /\ \A e \in Events \ NewRuns(queue) :
              /\ target'[e] = target[e]
              /\ run'[e] = run[e]
              /\ outbox'[e] = outbox[e]
         /\ \A e \in NewRuns(queue) :
              /\ e \in Events /\ target[e] = Nothing
              /\ target'[e] \in queue /\ EventOf(queue, target'[e]) = e
              /\ run'[e] = "queued"
              /\ outbox'[e] = [outbox[e] EXCEPT !.state = "pending"]
         /\ \A c \in queue : EventOf(queue, c) \in NewRuns(queue)
                             /\ target'[EventOf(queue, c)] = c
         /\ cell' = [c \in Cells |-> IF c \in queue THEN "queued" ELSE cell[c]]
         /\ Created' = Created \union NewRuns(queue)
         /\ EventsInOrder'
<1>1. /\ NewRuns(queue) \subseteq Events
      /\ target' = [e \in Events |->
           IF e \in NewRuns(queue) THEN CHOOSE c \in queue : EventOf(queue, c) = e
                                   ELSE target[e]]
      /\ run' = [e \in Events |-> IF e \in NewRuns(queue) THEN "queued" ELSE run[e]]
      /\ cell' = [c \in Cells |-> IF c \in queue THEN "queued" ELSE cell[c]]
      /\ outbox' = [e \in Events |->
           IF e \in NewRuns(queue) THEN [outbox[e] EXCEPT !.state = "pending"]
                                   ELSE outbox[e]]
  BY DEF QueueRuns
<1> USE NewRunsContinue
<1>2. \A e \in NewRuns(queue) : target[e] = Nothing
  BY <1>1 DEF Created
<1>3. ASSUME NEW e \in NewRuns(queue)
      PROVE  target'[e] \in queue /\ EventOf(queue, target'[e]) = e
  <2>1. \E c \in queue : EventOf(queue, c) = e
    BY DEF NewRuns
  <2>2. target'[e] = CHOOSE c \in queue : EventOf(queue, c) = e
    BY <1>1
  <2>3. QED
    BY <2>1, <2>2
<1>4. ASSUME NEW c \in queue
      PROVE  EventOf(queue, c) \in NewRuns(queue) /\ target'[EventOf(queue, c)] = c
  BY <1>3
<1>5. Created' = Created \union NewRuns(queue)
  <2>1. \A c \in queue : c # Nothing
    BY CellRunsAssumption DEF Nothing
  <2>2. \A e \in NewRuns(queue) : e \in Events /\ target'[e] # Nothing
    BY <1>1, <1>3, <2>1
  <2>3. \A e \in Events \ NewRuns(queue) : target'[e] = target[e]
    BY <1>1
  <2>4. QED
    BY <2>2, <2>3, Zenon DEF Created
<1>6. EventsInOrder'
  <2> DEFINE k == NextEvent - 1 + Cardinality(queue)
  <2>1. k \in Nat /\ Created' = 1 .. k
    <3>1. ASSUME NEW n \in Nat \ {0}, NEW m \in Nat
          PROVE  /\ n - 1 + m \in Nat
                 /\ (1 .. n - 1) \union (n .. n + m - 1) = 1 .. n - 1 + m
      OBVIOUS
    <3>2. QED
      BY <1>5, <3>1
  <2>2. Cardinality(1 .. k) = k
    BY <2>1, FS_Interval
  <2>3. QED
    BY <2>1, <2>2 DEF EventsInOrder
<1>7. QED
  BY <1>1, <1>2, <1>3, <1>4, <1>5, <1>6

\* The event of a new batch continues them as well.
LEMMA BatchEvent ==
  ASSUME TypeOK, EventsInOrder, EventsHaveRows, CreateBatch
  PROVE  /\ NextEvent \in Events /\ target[NextEvent] = Nothing
         /\ target'[NextEvent] = Bulk
         /\ outbox[NextEvent].state = "absent"
         /\ outbox'[NextEvent] = [outbox[NextEvent] EXCEPT !.state = "pending"]
         /\ \A e \in Events \ {NextEvent} :
              target'[e] = target[e] /\ outbox'[e] = outbox[e]
         /\ UNCHANGED <<disp, faults, run, cell, stage>>
         /\ Created' = Created \union {NextEvent}
         /\ EventsInOrder'
<1>1. NextEvent \in Nat \ {0} /\ Created = 1 .. NextEvent - 1
  BY NewRunsContinue
<1>2. NextEvent \in Events /\ target[NextEvent] = Nothing
  BY <1>1 DEF CreateBatch, Created
<1>3. /\ target'[NextEvent] = Bulk
      /\ \A e \in Events \ {NextEvent} : target'[e] = target[e]
  BY <1>2 DEF CreateBatch, TypeOK
<1>4. outbox' = [outbox EXCEPT ![NextEvent].state = "pending"]
      /\ UNCHANGED <<disp, faults, run, cell, stage>>
  BY DEF CreateBatch, O!Enqueue
<1>5. Created' = Created \union {NextEvent}
  BY <1>2, <1>3 DEF Created, Bulk, Nothing
<1>6. EventsInOrder'
  <2>1. Created' = 1 .. NextEvent
    BY <1>1, <1>5
  <2>2. Cardinality(1 .. NextEvent) = NextEvent
    BY <1>1, FS_Interval
  <2>3. QED
    BY <2>1, <2>2 DEF EventsInOrder
<1>7. outbox \in [Events -> P!OutboxRow]
  BY SameOutbox DEF TypeOK, P!TypeOK
<1>8. QED
  BY <1>2, <1>3, <1>4, <1>5, <1>6, <1>7 DEF EventsHaveRows

-----------------------------------------------------------------------------
(* The outbox.                                                             *)

\* A step of the dispatch loop keeps it.
LEMMA LoopKeepsClaims ==
  ASSUME Claims, [P!Next]_(P!vars) PROVE Claims'
<1>1. P!TypeOK'
  BY P!TypePreserved, OutboxParameters DEF Claims
<1>2. QED
  BY <1>1, P!ClaimsPreserved, OutboxParameters DEF Claims

\* A handler goes on, ends with an outcome, or meets a fault; events of the
\* given set may be enqueued.
GoesOn ==
  \/ disp' = disp
  \/ \E d \in Dispatchers, result \in {"ok", "retryable", "fatal"} :
       disp' = [disp EXCEPT ![d].outcome = result]

Enqueues(new) ==
  /\ DOMAIN outbox' = Events /\ outbox' = [e \in DOMAIN outbox' |-> outbox'[e]]
  /\ \A e \in new :
       /\ outbox[e].state = "absent"
       /\ outbox'[e] = [outbox[e] EXCEPT !.state = "pending"]
  /\ \A e \in Events \ new : outbox'[e] = outbox[e]

\* That keeps it too.
LEMMA HandlerKeepsClaims ==
  ASSUME Claims, NEW new \in SUBSET Events, Enqueues(new), GoesOn,
         faults' = faults \/ O!Fault
  PROVE  Claims'
<1>1. P!TypeOK'
  <2> USE DEF Claims, P!TypeOK
  <2>1. outbox' \in [Events -> P!OutboxRow]
    <3>1. ASSUME NEW e \in new
          PROVE  outbox'[e] \in P!OutboxRow
      <4>1. outbox[e] \in P!OutboxRow
        OBVIOUS
      <4>2. [outbox[e] EXCEPT !.state = "pending"] \in P!OutboxRow
        BY <4>1 DEF P!OutboxRow, P!OutboxState
      <4>3. outbox'[e] = [outbox[e] EXCEPT !.state = "pending"]
        BY DEF Enqueues
      <4>4. QED
        BY <4>2, <4>3
    <3>2. \A e \in new : outbox'[e] \in P!OutboxRow
      BY <3>1
    <3>3. \A e \in Events \ new : outbox'[e] \in P!OutboxRow
      BY DEF Enqueues
    <3>4. \A e \in Events : outbox'[e] \in P!OutboxRow
      BY <3>2, <3>3
    <3>5. QED
      BY <3>4 DEF Enqueues
  <2>2. disp' \in [Dispatchers -> P!Dispatcher]
    <3>1. ASSUME NEW d \in Dispatchers, NEW result \in {"ok", "retryable", "fatal"}
          PROVE  [disp EXCEPT ![d].outcome = result] \in [Dispatchers -> P!Dispatcher]
      BY DEF P!Dispatcher, P!Outcome
    <3>2. CASE disp' = disp
      BY <3>2
    <3>3. CASE disp' # disp
      <4>1. PICK d \in Dispatchers, result \in {"ok", "retryable", "fatal"} :
              disp' = [disp EXCEPT ![d].outcome = result]
        BY <3>3 DEF GoesOn
      <4>2. QED
        BY <3>1, <4>1
    <3>4. QED
      BY <3>2, <3>3
  <2>3. faults' \in [broken : 0 .. MaxFaults, late : 0 .. MaxLate]
    <3>1. CASE faults' = faults
      BY <3>1
    <3>2. CASE O!Fault
      BY <3>2, CellRunsAssumption DEF O!Fault
    <3>3. QED
      BY <3>1, <3>2
  <2>4. QED
    BY <2>1, <2>2, <2>3
<1>2. P!HandlerStep
  <2>1. \A f \in Dispatchers : /\ disp'[f].batch = disp[f].batch
                               /\ disp'[f].attempt = disp[f].attempt
    <3>1. ASSUME NEW d \in Dispatchers, NEW result,
                 disp' = [disp EXCEPT ![d].outcome = result],
                 NEW f \in Dispatchers
          PROVE  /\ disp'[f].batch = disp[f].batch
                 /\ disp'[f].attempt = disp[f].attempt
      BY <3>1 DEF Claims, P!TypeOK, P!Dispatcher
    <3>2. QED
      BY <3>1 DEF GoesOn
  <2>2. faults'.late = faults.late
    BY DEF O!Fault, Claims, P!TypeOK
  <2>3. QED
    BY <2>1, <2>2 DEF P!HandlerStep, Enqueues
<1>3. QED
  BY <1>1, <1>2, P!HandlersKeepClaims, OutboxParameters DEF Claims

\* Every step keeps it.
LEMMA ClaimsStep ==
  ASSUME TypeOK, Claims, EventsInOrder, EventsHaveRows, [Next]_vars
  PROVE  Claims'
<1>1. ASSUME NEW queue \in SUBSET Cells, QueueRuns(queue), GoesOn,
             UNCHANGED faults
      PROVE  Claims'
  <2>1. \A e \in NewRuns(queue) :
          /\ e \in Events /\ outbox[e].state = "absent"
          /\ outbox'[e] = [outbox[e] EXCEPT !.state = "pending"]
    BY <1>1, QueueEffect DEF EventsHaveRows
  <2>2. Enqueues(NewRuns(queue))
    <3>1. DOMAIN outbox' = Events /\ outbox' = [e \in DOMAIN outbox' |-> outbox'[e]]
      BY <1>1 DEF QueueRuns
    <3>2. QED
      BY <1>1, <2>1, <3>1, QueueEffect DEF Enqueues
  <2>3. QED
    BY <1>1, <2>1, <2>2, HandlerKeepsClaims
<1>2. ASSUME UNCHANGED outbox, GoesOn, faults' = faults \/ O!Fault
      PROVE  Claims'
  <2>1. DOMAIN outbox = Events /\ outbox = [e \in DOMAIN outbox |-> outbox[e]]
    BY DEF Claims, P!TypeOK
  <2>2. Enqueues({})
    BY <1>2, <2>1 DEF Enqueues
  <2>3. QED
    BY <1>2, <2>2, HandlerKeepsClaims
<1>3. ASSUME NEW c \in Cells, RequestRun(c) PROVE Claims'
  <2>1. {c} \in SUBSET Cells /\ QueueRuns({c}) /\ GoesOn /\ UNCHANGED faults
    BY <1>3 DEF RequestRun, GoesOn
  <2>2. QED
    BY <1>1, <2>1
<1>4. ASSUME CreateBatch PROVE Claims'
  <2>1. DOMAIN outbox' = Events /\ outbox' = [e \in DOMAIN outbox' |-> outbox'[e]]
    BY <1>4 DEF CreateBatch, O!Enqueue, Claims, P!TypeOK
  <2>2. Enqueues({NextEvent}) /\ GoesOn /\ UNCHANGED faults /\ NextEvent \in Events
    BY <1>4, <2>1, BatchEvent DEF Enqueues, GoesOn
  <2>3. QED
    BY <2>2, HandlerKeepsClaims
<1>5. ASSUME CancelBatch \/ CreatorLeaves \/ UNCHANGED vars PROVE Claims'
  BY <1>2, <1>5 DEF CancelBatch, CreatorLeaves, vars, outboxVars, GoesOn
<1>6. ASSUME NEW d \in Dispatchers, Dispatch(d) PROVE Claims'
  <2>1. P!Next
    BY <1>6, SameOutbox DEF Dispatch, P!Next
  <2>2. QED
    BY <2>1, LoopKeepsClaims
<1>7. ASSUME NEW d \in Dispatchers, NEW e \in Events, Handler(d, e)
      PROVE  Claims'
  <2>1. CASE ExpandChunk(d, e)
    <3>1. PICK queue \in SUBSET Cells : QueueRuns(queue)
      BY <2>1 DEF ExpandChunk, Chunk, Items
    <3>2. GoesOn /\ UNCHANGED faults
      <4>1. disp' = disp \/ disp' = [disp EXCEPT ![d].outcome = "ok"]
        <5>1. disp = [disp EXCEPT ![d].outcome = disp[d].outcome]
          BY DEF Claims, P!TypeOK, P!Dispatcher
        <5>2. PICK over \in BOOLEAN :
                disp' = [disp EXCEPT ![d].outcome = IF over THEN @ ELSE "ok"]
          BY <2>1, Zenon DEF ExpandChunk
        <5>3. QED
          BY <5>1, <5>2
      <4>2. QED
        BY <2>1, <4>1 DEF ExpandChunk, GoesOn
    <3>3. QED
      BY <1>1, <3>1, <3>2
  <2>2. CASE ~ ExpandChunk(d, e)
    <3>1. UNCHANGED outbox /\ UNCHANGED faults
      BY <1>7, <2>2 DEF Handler, ExpandFinished, ExpandWithoutCreator, StartRun,
         SkipRun, Succeed, SucceedConflict, ProviderThrows, Fail, outboxVars
    <3>2. GoesOn
      <4>1. ASSUME Fail(d, e) PROVE stage[d] \in {"retryable", "fatal"}
        BY <4>1 DEF Fail, Handling
      <4>2. QED
        BY <1>7, <2>2, <4>1
           DEF Handler, ExpandFinished, ExpandWithoutCreator, StartRun,
               SkipRun, Succeed, SucceedConflict, ProviderThrows, Fail,
               outboxVars, Leaves, GoesOn
    <3>3. QED
      BY <1>2, <3>1, <3>2
  <2>3. QED
    BY <2>1, <2>2
<1>8. ASSUME NEW d \in Dispatchers, NEW e \in Events,
             SucceedThenFault(d, e) \/ StorageFault(d, e)
      PROVE  Claims'
  BY <1>2, <1>8 DEF SucceedThenFault, StorageFault, Leaves, GoesOn
<1>9. ASSUME NEW d \in Dispatchers, Settle(d) PROVE Claims'
  <2>1. CASE \E e \in Events : O!Publish(d, e) \/ O!Retry(d, e) \/ O!LostClaim(d, e)
    <3>1. P!Next
      BY <2>1, SameOutbox DEF P!Next
    <3>2. QED
      BY <3>1, LoopKeepsClaims
  <2>2. CASE O!StorageError(d)
    <3>1. P!StorageError(d)
      BY <2>2 DEF O!StorageError, P!StorageError, O!Fault, P!Fault, O!Idle, P!Idle
    <3>2. P!Next
      BY <3>1 DEF P!Next
    <3>3. QED
      BY <3>2, LoopKeepsClaims
  <2>3. QED
    BY <1>9, <2>1, <2>2 DEF Settle
<1>10. ASSUME NEW d \in Dispatchers, Crash(d) PROVE Claims'
  <2>1. P!Crash(d)
    BY <1>10 DEF Crash, O!Crash, P!Crash, O!Fault, P!Fault, O!Idle, P!Idle
  <2>2. P!Next
    BY <2>1 DEF P!Next
  <2>3. QED
    BY <2>2, LoopKeepsClaims
<1>11. ASSUME Tick PROVE Claims'
  <2>1. P!Next
    BY <1>11, SameOutbox DEF Tick, P!Next
  <2>2. QED
    BY <2>1, LoopKeepsClaims
<1>12. QED
  BY <1>3, <1>4, <1>5, <1>6, <1>7, <1>8, <1>9, <1>10, <1>11 DEF Next

-----------------------------------------------------------------------------
(* Events and their runs.                                                  *)

\* Every step keeps events, their outbox rows and their runs together.
LEMMA EventsStep ==
  ASSUME TypeOK, Claims, EventsSound, [Next]_vars PROVE EventsSound'
<1> USE DEF EventsSound
<1> DEFINE SameRows == \A e \in Events :
             (outbox'[e].state = "absent") = (outbox[e].state = "absent")
           SameRuns == \A e \in Events : (run'[e] = "none") = (run[e] = "none")
           Held == \A d \in Dispatchers : disp'[d].batch \subseteq Created
           SameBatches == \A d \in Dispatchers : disp'[d].batch = disp[d].batch
<1>1. ASSUME target' = target, SameRows, SameRuns, Held PROVE EventsSound'
  <2>1. Created' = Created
    BY <1>1 DEF Created
  <2>2. EventsInOrder' /\ HeldEventsExist'
    BY <1>1, <2>1 DEF EventsInOrder, HeldEventsExist
  <2>3. EventsHaveRows' /\ RunsHaveCells'
    BY <1>1 DEF EventsHaveRows, RunsHaveCells
  <2>4. QED
    BY <2>2, <2>3
<1>2. SameBatches => Held
  BY DEF HeldEventsExist
<1>3. GoesOn => SameBatches
  BY DEF GoesOn, Claims, P!TypeOK, P!Dispatcher
<1>4. ASSUME NEW queue \in SUBSET Cells, QueueRuns(queue), SameBatches
      PROVE  EventsSound'
  <2>1. /\ \A e \in Events \ NewRuns(queue) :
             /\ target'[e] = target[e]
             /\ run'[e] = run[e]
             /\ outbox'[e] = outbox[e]
        /\ \A e \in NewRuns(queue) :
             /\ e \in Events /\ target'[e] \in queue
             /\ run'[e] = "queued"
             /\ outbox'[e] = [outbox[e] EXCEPT !.state = "pending"]
        /\ Created' = Created \union NewRuns(queue)
        /\ EventsInOrder'
    BY <1>4, QueueEffect
  <2>2. \A e \in NewRuns(queue) : outbox'[e].state = "pending"
    <3> TAKE e \in NewRuns(queue)
    <3>1. outbox[e] \in P!OutboxRow
      BY <2>1 DEF Claims, P!TypeOK
    <3>2. QED
      BY <2>1, <3>1 DEF P!OutboxRow
  <2>3. EventsHaveRows'
    BY <2>1, <2>2, CellRunsAssumption DEF EventsHaveRows, Nothing
  <2>4. RunsHaveCells'
    BY <2>1 DEF RunsHaveCells
  <2>5. HeldEventsExist'
    BY <1>4, <2>1 DEF HeldEventsExist
  <2>6. QED
    BY <2>1, <2>3, <2>4, <2>5
<1>5. ASSUME NEW c \in Cells, RequestRun(c) PROVE EventsSound'
  BY <1>4, <1>5 DEF RequestRun
<1>6. ASSUME CreateBatch PROVE EventsSound'
  <2>1. /\ NextEvent \in Events
        /\ target'[NextEvent] = Bulk /\ target[NextEvent] = Nothing
        /\ outbox'[NextEvent] = [outbox[NextEvent] EXCEPT !.state = "pending"]
        /\ \A e \in Events \ {NextEvent} :
             target'[e] = target[e] /\ outbox'[e] = outbox[e]
        /\ UNCHANGED <<disp, run>>
        /\ Created' = Created \union {NextEvent}
        /\ EventsInOrder'
    BY <1>6, BatchEvent
  <2>2. outbox'[NextEvent].state = "pending"
    <3>1. outbox[NextEvent] \in P!OutboxRow
      BY <2>1 DEF Claims, P!TypeOK
    <3>2. QED
      BY <2>1, <3>1 DEF P!OutboxRow
  <2>3. Bulk \notin Cells /\ Nothing \notin Cells /\ Bulk # Nothing
    BY CellRunsAssumption DEF Bulk, Nothing
  <2>4. EventsHaveRows'
    <3>1. target'[NextEvent] # Nothing /\ outbox'[NextEvent].state # "absent"
      BY <2>1, <2>2, <2>3
    <3>2. QED
      BY <2>1, <3>1 DEF EventsHaveRows
  <2>5. RunsHaveCells'
    BY <2>1, <2>3 DEF RunsHaveCells
  <2>6. HeldEventsExist'
    BY <2>1 DEF HeldEventsExist
  <2>7. QED
    BY <2>1, <2>4, <2>5, <2>6
<1>7. ASSUME CancelBatch PROVE EventsSound'
  BY <1>1, <1>2, <1>7
     DEF CancelBatch, outboxVars, CancelledRuns, Active, TypeOK
<1>8. ASSUME CreatorLeaves \/ UNCHANGED vars PROVE EventsSound'
  BY <1>1, <1>2, <1>8 DEF CreatorLeaves, vars, outboxVars
<1>9. ASSUME NEW d \in Dispatchers, Dispatch(d) PROVE EventsSound'
  <2>1. /\ \A e \in Events : outbox'[e].state = outbox[e].state
        /\ disp'[d].batch = P!Candidates
        /\ \A f \in Dispatchers \ {d} : disp'[f] = disp[f]
        /\ \A e \in P!Candidates : e \in Events /\ outbox[e].state = "pending"
    BY <1>9, SameOutbox, P!ClaimEffect, OutboxParameters DEF Dispatch, Claims
  <2>2. P!Candidates \subseteq Created
    BY <2>1 DEF EventsHaveRows, Created
  <2>3. target' = target /\ SameRows /\ SameRuns /\ Held
    BY <1>9, <2>1, <2>2 DEF Dispatch, HeldEventsExist
  <2>4. QED
    BY <1>1, <2>3
<1>10. ASSUME NEW d \in Dispatchers, NEW e \in Events, Handler(d, e)
       PROVE  EventsSound'
  <2> USE DEF outboxVars, Leaves, GoesOn
  <2>1. CASE ExpandChunk(d, e)
    <3>1. PICK queue \in SUBSET Cells : QueueRuns(queue)
      BY <2>1 DEF ExpandChunk, Chunk, Items
    <3>2. PICK result : disp' = [disp EXCEPT ![d].outcome = result]
      BY <2>1, Zenon DEF ExpandChunk
    <3>3. SameBatches
      BY <3>2 DEF Claims, P!TypeOK, P!Dispatcher
    <3>4. QED
      BY <1>4, <3>1, <3>3
  <2>2. CASE ExpandFinished(d, e) \/ ExpandWithoutCreator(d, e) \/ SkipRun(d, e)
    BY <1>1, <1>2, <1>3, <2>2 DEF ExpandFinished, ExpandWithoutCreator, SkipRun
  <2>3. CASE SucceedConflict(d, e) \/ ProviderThrows(d, e)
    BY <1>1, <1>2, <1>3, <2>3 DEF SucceedConflict, ProviderThrows
  <2>4. CASE StartRun(d, e)
    BY <1>1, <1>2, <1>3, <2>4 DEF StartRun, MayStart, TypeOK
  <2>5. CASE Succeed(d, e)
    BY <1>1, <1>2, <1>3, <2>5 DEF Succeed, TypeOK
  <2>6. CASE Fail(d, e)
    <3>1. stage[d] \in {"retryable", "fatal"}
      BY <2>6 DEF Fail, Handling
    <3>2. GoesOn /\ UNCHANGED <<outbox, target>>
      BY <2>6, <3>1 DEF Fail
    <3>3. PICK status \in {"queued", "failed"} : run' = FailedRun(e, status)
      BY <2>6 DEF Fail
    <3>4. SameRuns
      BY <3>3 DEF FailedRun, Active, TypeOK
    <3>5. QED
      BY <1>1, <1>2, <1>3, <3>2, <3>4
  <2>7. QED
    BY <1>10, <2>1, <2>2, <2>3, <2>4, <2>5, <2>6 DEF Handler
<1>11. ASSUME NEW d \in Dispatchers, NEW e \in Events,
              SucceedThenFault(d, e) \/ StorageFault(d, e)
       PROVE  EventsSound'
  BY <1>1, <1>2, <1>3, <1>11
     DEF SucceedThenFault, StorageFault, Leaves, GoesOn, TypeOK
<1>12. ASSUME NEW d \in Dispatchers, Settle(d) PROVE EventsSound'
  <2>1. ASSUME NEW e \in Events, O!Publish(d, e) \/ O!Retry(d, e)
        PROVE  SameRows /\ Held
    <3>1. /\ disp'[d].batch = disp[d].batch \ {e}
          /\ \A f \in Dispatchers \ {d} : disp'[f] = disp[f]
          /\ \A f \in Events \ {e} : outbox'[f] = outbox[f]
          /\ outbox'[e].state \in {"pending", "published"}
          /\ outbox[e].state = "pending"
      BY <2>1, SameOutbox, P!SettleEffect, OutboxParameters DEF Claims, P!Owns
    <3>2. QED
      BY <3>1 DEF HeldEventsExist
  <2>2. ASSUME NEW e \in Events, O!LostClaim(d, e) PROVE SameRows /\ Held
    BY <2>2 DEF O!LostClaim, O!Idle, HeldEventsExist, Claims, P!TypeOK
  <2>3. ASSUME O!StorageError(d) PROVE SameRows /\ Held
    BY <2>3 DEF O!StorageError, O!Idle, HeldEventsExist, Claims, P!TypeOK, P!Dispatcher
  <2>4. QED
    BY <1>1, <1>12, <2>1, <2>2, <2>3 DEF Settle
<1>13. ASSUME NEW d \in Dispatchers, Crash(d) PROVE EventsSound'
  BY <1>1, <1>13 DEF Crash, O!Crash, O!Idle, HeldEventsExist, Claims, P!TypeOK
<1>14. ASSUME Tick PROVE EventsSound'
  <2>1. SameRows /\ SameBatches
    BY <1>14, SameOutbox, P!TickEffect, OutboxParameters DEF Tick, Claims
  <2>2. QED
    BY <1>1, <1>2, <1>14, <2>1 DEF Tick
<1>15. QED
  BY <1>5, <1>6, <1>7, <1>8, <1>9, <1>10, <1>11, <1>12, <1>13, <1>14 DEF Next

\* What an event asks for never changes.
LEMMA TargetsKept ==
  ASSUME TypeOK, EventsSound, [Next]_vars,
         NEW e \in Events, target[e] # Nothing
  PROVE  target'[e] = target[e]
<1>1. ASSUME NEW queue \in SUBSET Cells, QueueRuns(queue)
      PROVE  target'[e] = target[e]
  BY <1>1, QueueEffect DEF EventsSound
<1>2. CASE \E c \in Cells : RequestRun(c)
  BY <1>1, <1>2 DEF RequestRun
<1>3. CASE CreateBatch
  BY <1>3, BatchEvent DEF EventsSound
<1>4. CASE \E d \in Dispatchers, f \in Events : ExpandChunk(d, f)
  <2>1. \E queue \in SUBSET Cells : QueueRuns(queue)
    BY <1>4 DEF ExpandChunk, Chunk, Items
  <2>2. QED
    BY <1>1, <2>1
<1>5. CASE target' = target
  BY <1>5
<1>6. QED
  BY <1>2, <1>3, <1>4, <1>5
     DEF Next, CancelBatch, CreatorLeaves, Dispatch, Handler, ExpandFinished,
         ExpandWithoutCreator, StartRun, SkipRun, Succeed, SucceedConflict,
         ProviderThrows, Fail, SucceedThenFault, StorageFault, Settle, Crash,
         Tick, vars

\* A dispatcher has one current event, until its batch changes.
LEMMA OneCurrent ==
  /\ \A d \in Dispatchers, e, f \in Events :
       O!Current(d, e) /\ O!Current(d, f) => e = f
  /\ \A d \in Dispatchers : disp'[d].batch = disp[d].batch =>
       \A e \in Events : O!Current(d, e)' <=> O!Current(d, e)
  /\ \A d \in Dispatchers, e \in Events : O!Current(d, e) => e \in disp[d].batch
BY DEF O!Current, Events

-----------------------------------------------------------------------------
(* The workers.                                                            *)

\* Every step leaves a dispatcher that is inside the try block running the
\* handler of a cell's run.
LEMMA HandlersStep ==
  ASSUME TypeOK, Claims, EventsSound, HandlersRun, [Next]_vars
  PROVE  HandlersRun'
<1> DEFINE Inside(d) == stage[d] # "outside" =>
             /\ disp[d].outcome = "running"
             /\ \E e \in Events : O!Current(d, e) /\ target[e] \in Cells
           Same(d) == disp'[d].batch = disp[d].batch
                      /\ disp'[d].outcome = disp[d].outcome
<1>1. \A d \in Dispatchers : Inside(d)
  BY DEF HandlersRun
<1>2. ASSUME NEW d \in Dispatchers, stage'[d] # "outside" => stage[d] # "outside",
             Same(d)
      PROVE  Inside(d)'
  <2>1. SUFFICES ASSUME stage'[d] # "outside" PROVE Inside(d)'
    OBVIOUS
  <2>2. PICK e \in Events : O!Current(d, e) /\ target[e] \in Cells
    BY <1>1, <1>2, <2>1
  <2>3. target'[e] = target[e]
    BY <2>2, TargetsKept, CellRunsAssumption DEF Nothing
  <2>4. O!Current(d, e)' /\ disp'[d].outcome = "running"
    BY <1>1, <1>2, <2>1, <2>2, OneCurrent
  <2>5. QED
    BY <2>2, <2>3, <2>4
<1>3. ASSUME \A d \in Dispatchers : Inside(d)' PROVE HandlersRun'
  BY <1>3 DEF HandlersRun
<1>4. ASSUME disp' = disp, stage' = stage PROVE HandlersRun'
  BY <1>2, <1>3, <1>4
<1>5. CASE \/ \E c \in Cells : RequestRun(c)
           \/ CreateBatch \/ CancelBatch \/ CreatorLeaves \/ Tick
           \/ UNCHANGED vars
  BY <1>4, <1>5 DEF RequestRun, CreateBatch, O!Enqueue, CancelBatch,
     CreatorLeaves, Tick, O!Tick, vars, outboxVars
<1>6. ASSUME NEW d \in Dispatchers,
             \A f \in Dispatchers \ {d} : disp'[f] = disp[f] /\ stage'[f] = stage[f],
             Inside(d)'
      PROVE  HandlersRun'
  BY <1>2, <1>3, <1>6
<1>7. ASSUME NEW d \in Dispatchers,
             \A f \in Dispatchers \ {d} : disp'[f] = disp[f] /\ stage'[f] = stage[f],
             \/ stage'[d] = "outside"
             \/ stage[d] # "outside" /\ disp' = disp
      PROVE  HandlersRun'
  <2>1. Inside(d)'
    BY <1>2, <1>7
  <2>2. QED
    BY <1>6, <1>7, <2>1
<1>8. ASSUME NEW d \in Dispatchers, NEW e \in Events, Handler(d, e)
      PROVE  HandlersRun'
  <2> USE DEF Handling, Leaves, outboxVars, TypeOK, Claims, P!TypeOK
  <2>1. CASE \/ ExpandFinished(d, e) \/ ExpandWithoutCreator(d, e)
             \/ SkipRun(d, e) \/ Succeed(d, e) \/ Fail(d, e)
    <3>1. \E result : Leaves(d, result)
      BY <2>1, Zenon DEF ExpandFinished, ExpandWithoutCreator, SkipRun, Succeed, Fail
    <3>2. QED
      BY <1>7, <3>1
  <2>2. CASE SucceedConflict(d, e) \/ ProviderThrows(d, e)
    BY <1>7, <2>2 DEF SucceedConflict, ProviderThrows
  <2>3. CASE StartRun(d, e)
    <3>1. /\ O!Current(d, e) /\ disp[d].outcome = "running"
          /\ target[e] \in Cells /\ disp' = disp /\ target' = target
          /\ \A f \in Dispatchers \ {d} : disp'[f] = disp[f] /\ stage'[f] = stage[f]
      BY <2>3 DEF StartRun, TypeOK
    <3>2. QED
      BY <1>6, <3>1, OneCurrent
  <2>4. CASE ExpandChunk(d, e)
    <3>1. PICK result : disp' = [disp EXCEPT ![d].outcome = result]
      BY <2>4, Zenon DEF ExpandChunk
    <3>2. stage' = stage /\ stage[d] = "outside"
      BY <2>4 DEF ExpandChunk
    <3>3. QED
      BY <1>7, <3>1, <3>2
  <2>5. QED
    BY <1>8, <2>1, <2>2, <2>3, <2>4 DEF Handler
<1>9. ASSUME NEW d \in Dispatchers, NEW e \in Events,
             SucceedThenFault(d, e) \/ StorageFault(d, e)
      PROVE  HandlersRun'
  <2> USE DEF TypeOK, Claims, P!TypeOK
  <2>1. CASE SucceedThenFault(d, e)
    BY <1>7, <2>1 DEF SucceedThenFault, Handling
  <2>2. CASE StorageFault(d, e)
    BY <1>7, <2>2 DEF StorageFault, Leaves
  <2>3. QED
    BY <1>9, <2>1, <2>2
<1>10. ASSUME NEW d \in Dispatchers, disp[d].batch = {} \/ disp[d].outcome # "running",
              \A f \in Dispatchers \ {d} : disp'[f] = disp[f],
              stage' = stage
       PROVE  HandlersRun'
  <2>1. stage[d] = "outside"
    BY <1>1, <1>10, OneCurrent
  <2>2. QED
    BY <1>6, <1>10, <2>1
<1>11. ASSUME NEW d \in Dispatchers, Dispatch(d) PROVE HandlersRun'
  BY <1>10, <1>11, SameOutbox, P!ClaimEffect, OutboxParameters DEF Dispatch, Claims
<1>12. ASSUME NEW d \in Dispatchers, Settle(d) PROVE HandlersRun'
  <2>1. ASSUME NEW e \in Events, O!Publish(d, e) \/ O!Retry(d, e)
        PROVE  HandlersRun'
    BY <1>10, <1>12, <2>1, SameOutbox, P!SettleEffect, OutboxParameters
       DEF Settle, Claims
  <2>2. ASSUME NEW e \in Events, O!LostClaim(d, e) PROVE HandlersRun'
    BY <1>10, <1>12, <2>2 DEF Settle, O!LostClaim, Claims, P!TypeOK
  <2>3. ASSUME O!StorageError(d) PROVE HandlersRun'
    BY <1>10, <1>12, <2>3 DEF Settle, O!StorageError, Claims, P!TypeOK
  <2>4. QED
    BY <1>12, <2>1, <2>2, <2>3 DEF Settle
<1>13. ASSUME NEW d \in Dispatchers, Crash(d) PROVE HandlersRun'
  BY <1>7, <1>13 DEF Crash, O!Crash, TypeOK, Claims, P!TypeOK
<1>14. QED
  BY <1>5, <1>8, <1>9, <1>11, <1>12, <1>13 DEF Next

-----------------------------------------------------------------------------
(* The batch.                                                              *)

\* A run that is over stays over.
LEMMA TerminalKept ==
  ASSUME TypeOK, EventsSound, [Next]_vars, NEW e \in Events, run[e] \in Terminal
  PROVE  run'[e] = run[e]
<1> USE DEF Terminal, Active
<1>1. target[e] # Nothing
  BY CellRunsAssumption DEF EventsSound, RunsHaveCells, Nothing
<1>2. ASSUME NEW queue \in SUBSET Cells, QueueRuns(queue) PROVE run'[e] = run[e]
  BY <1>1, <1>2, QueueEffect DEF EventsSound
<1>3. CASE \E c \in Cells : RequestRun(c)
  BY <1>2, <1>3 DEF RequestRun
<1>4. CASE \E d \in Dispatchers, f \in Events : ExpandChunk(d, f)
  <2>1. \E queue \in SUBSET Cells : QueueRuns(queue)
    BY <1>4 DEF ExpandChunk, Chunk, Items
  <2>2. QED
    BY <1>2, <2>1
<1>5. CASE CancelBatch
  BY <1>5 DEF CancelBatch, CancelledRuns
<1>6. CASE \E d \in Dispatchers, f \in Events :
              \/ StartRun(d, f) \/ Succeed(d, f)
              \/ SucceedThenFault(d, f) \/ Fail(d, f)
  BY <1>6 DEF StartRun, MayStart, Succeed, SucceedThenFault, Fail, FailedRun, TypeOK
<1>7. CASE run' = run
  BY <1>7
<1>8. QED
  BY <1>3, <1>4, <1>5, <1>6, <1>7
     DEF Next, CreateBatch, CreatorLeaves, Dispatch, Handler, ExpandFinished,
         ExpandWithoutCreator, SkipRun, SucceedConflict,
         ProviderThrows, StorageFault, Settle, Crash, Tick, vars, outboxVars

\* Rows of bulk_run_items are counted by their status.
LEMMA RowsCounted ==
  ASSUME NEW rows,
         \A c \in Cells : rows[c].status \in {"none", "pending", "queued", "skipped"}
  PROVE  LET R(status) == {c \in Cells : rows[c].status = status}
         IN Cardinality(Cells \ R("none")) =
              Cardinality(R("pending")) + Cardinality(R("queued"))
                + Cardinality(R("skipped"))
<1> DEFINE R(status) == {c \in Cells : rows[c].status = status}
<1>1. \A S \in SUBSET Cells : IsFiniteSet(S) /\ Cardinality(S) \in Nat
  BY CellRunsAssumption, FS_Subset, FS_CardinalityType
<1>2. ASSUME NEW S \in SUBSET Cells, NEW T \in SUBSET Cells, S \intersect T = {}
      PROVE  Cardinality(S \union T) = Cardinality(S) + Cardinality(T)
  <2>1. Cardinality(S \union T)
          = Cardinality(S) + Cardinality(T) - Cardinality(S \intersect T)
    BY <1>1, FS_Union
  <2>2. Cardinality(S \intersect T) = 0
    BY <1>2, FS_EmptySet
  <2>3. QED
    BY <1>1, <2>1, <2>2
<1>3. /\ R("pending") \in SUBSET Cells
      /\ R("queued") \in SUBSET Cells
      /\ R("skipped") \in SUBSET Cells
      /\ R("pending") \union R("queued") \in SUBSET Cells
      /\ R("pending") \intersect R("queued") = {}
      /\ (R("pending") \union R("queued")) \intersect R("skipped") = {}
      /\ Cells \ R("none")
           = (R("pending") \union R("queued")) \union R("skipped")
  OBVIOUS
<1> HIDE DEF R
<1>4. Cardinality(Cells \ R("none")) =
        Cardinality(R("pending")) + Cardinality(R("queued")) + Cardinality(R("skipped"))
  BY <1>2, <1>3
<1>5. QED
  BY <1>4 DEF R

\* The items of the batch are counted by their status.
LEMMA Counting ==
  ASSUME TypeOK
  PROVE  /\ \A S \in SUBSET Cells : IsFiniteSet(S) /\ Cardinality(S) \in Nat
         /\ \A S, T \in SUBSET Cells : S \intersect T = {} =>
              Cardinality(S \union T) = Cardinality(S) + Cardinality(T)
         /\ Cardinality(Cells \ Items("none")) =
              Cardinality(Items("pending")) + Cardinality(Items("queued"))
                + Cardinality(Items("skipped"))
<1>1. ASSUME NEW S \in SUBSET Cells
      PROVE  IsFiniteSet(S) /\ Cardinality(S) \in Nat
  BY CellRunsAssumption, FS_Subset, FS_CardinalityType
<1>2. ASSUME NEW S \in SUBSET Cells, NEW T \in SUBSET Cells, S \intersect T = {}
      PROVE  Cardinality(S \union T) = Cardinality(S) + Cardinality(T)
  <2>1. Cardinality(S \union T)
          = Cardinality(S) + Cardinality(T) - Cardinality(S \intersect T)
    BY <1>1, FS_Union
  <2>2. Cardinality(S \intersect T) = 0
    BY <1>2, FS_EmptySet
  <2>3. QED
    BY <1>1, <2>1, <2>2
<1>3. \A c \in Cells : item[c].status \in {"none", "pending", "queued", "skipped"}
  BY DEF TypeOK
<1>4. QED
  BY <1>1, <1>2, <1>3, RowsCounted DEF Items

\* Expanding a chunk, or all that is pending, moves items and counts them.
LEMMA ItemsMove ==
  ASSUME TypeOK, ItemsCounted, NEW queue, NEW skip,
         queue \subseteq Items("pending"), skip \subseteq Items("pending"),
         queue \intersect skip = {},
         \A c \in queue : item'[c].status = "queued",
         \A c \in skip : item'[c].status = "skipped",
         \A c \in Cells \ (queue \union skip) : item'[c].status = item[c].status,
         batch'.selected = batch.selected,
         batch'.queued = batch.queued + Cardinality(queue),
         batch'.skipped = batch.skipped + Cardinality(skip),
         batch'.status # "none",
         batch'.status \in {"completed", "cancelled"} =>
           batch.queued + batch.skipped + Cardinality(queue \union skip)
             = batch.selected
  PROVE  ItemsCounted'
<1>1. /\ Items("queued")' = Items("queued") \union queue
      /\ Items("skipped")' = Items("skipped") \union skip
      /\ Items("none")' = Items("none")
      /\ Items("pending")' = Items("pending") \ (queue \union skip)
      /\ Items("queued") \intersect queue = {}
      /\ Items("skipped") \intersect skip = {}
  BY DEF Items
<1>2. Items("queued") \subseteq Cells /\ Items("skipped") \subseteq Cells
      /\ Items("pending") \subseteq Cells
      /\ queue \subseteq Cells /\ skip \subseteq Cells
      /\ queue \union skip \subseteq Cells
  BY DEF Items
<1>3. /\ batch'.queued = Cardinality(Items("queued")')
      /\ batch'.skipped = Cardinality(Items("skipped")')
      /\ batch'.selected = Cardinality(Cells \ Items("none")')
  <2>1. /\ Items("queued") \in SUBSET Cells /\ Items("skipped") \in SUBSET Cells
        /\ queue \in SUBSET Cells /\ skip \in SUBSET Cells
    BY <1>2
  <2>2. Cardinality(Items("queued") \union queue)
          = Cardinality(Items("queued")) + Cardinality(queue)
    BY <1>1, <2>1, Counting
  <2>3. Cardinality(Items("skipped") \union skip)
          = Cardinality(Items("skipped")) + Cardinality(skip)
    BY <1>1, <2>1, Counting
  <2>4. QED
    BY <1>1, <2>2, <2>3 DEF ItemsCounted
<1>4. ASSUME batch'.status \in {"completed", "cancelled"}
      PROVE  Items("pending")' = {}
  <2>1. Cardinality(queue \union skip) = Cardinality(Items("pending"))
    <3>1. batch.queued + batch.skipped + Cardinality(queue \union skip)
            = Cardinality(Items("pending")) + batch.queued + batch.skipped
      BY <1>4, Counting DEF ItemsCounted
    <3>2. batch.queued \in Nat /\ batch.skipped \in Nat
      BY <1>2, Counting DEF ItemsCounted
    <3>3. Cardinality(queue \union skip) \in Nat /\ Cardinality(Items("pending")) \in Nat
      BY <1>2, Counting
    <3>4. QED
      BY <3>1, <3>2, <3>3
  <2>2. queue \union skip = Items("pending")
    BY <1>2, <2>1, Counting, FS_Subset
  <2>3. QED
    BY <1>1, <2>2
<1>5. QED
  BY <1>3, <1>4 DEF ItemsCounted

\* Every step keeps the accounts of the batch, the runs of its items, and the
\* quiet after a cancellation.
LEMMA BatchStep ==
  ASSUME TypeOK, EventsSound, BatchSound, [Next]_vars
  PROVE  BatchSound'
<1> USE DEF BatchSound
<1>1. ASSUME NEW c \in Cells, item'[c].run \in Events,
             target[item'[c].run] = c
      PROVE  target'[item'[c].run] = c
  BY <1>1, TargetsKept, CellRunsAssumption DEF Nothing
<1>2. ASSUME item' = item PROVE QueuedItemsHaveRuns'
  BY <1>1, <1>2 DEF QueuedItemsHaveRuns, Items
<1>3. ASSUME item' = item, batch'.status = "cancelled" => batch.status = "cancelled"
      PROVE  CancelledBatchIsQuiet'
  <2> SUFFICES ASSUME batch'.status = "cancelled"
               PROVE  Items("pending")' = {}
                      /\ \A r \in BatchRuns' : run'[r] \in Terminal
    BY DEF CancelledBatchIsQuiet
  <2>1. Items("pending") = {} /\ \A r \in BatchRuns : run[r] \in Terminal
    BY <1>3 DEF CancelledBatchIsQuiet
  <2>2. Items("pending")' = {} /\ BatchRuns' = BatchRuns
    BY <1>3, <2>1 DEF Items, BatchRuns
  <2>3. BatchRuns \subseteq Events
    BY DEF BatchRuns, QueuedItemsHaveRuns
  <2>4. QED
    BY <2>1, <2>2, <2>3, TerminalKept
<1>4. ASSUME item' = item, batch' = batch PROVE BatchSound'
  <2>1. ItemsCounted'
    BY <1>4 DEF ItemsCounted, Items
  <2>2. QED
    BY <1>2, <1>3, <1>4, <2>1
<1>5. ASSUME CreateBatch PROVE BatchSound'
  <2>1. PICK S \in SUBSET Cells :
          /\ item' = [c \in Cells |->
               [item[c] EXCEPT !.status = IF c \in S THEN "pending" ELSE "none"]]
          /\ batch' = [batch EXCEPT !.status = "queued",
                                    !.selected = Cardinality(S)]
    BY <1>5 DEF CreateBatch
  <2>2. \A c \in Cells : item'[c].status = IF c \in S THEN "pending" ELSE "none"
    BY <2>1 DEF TypeOK
  <2>3. /\ Items("pending")' = S /\ Items("none")' = Cells \ S
        /\ Items("queued")' = {} /\ Items("skipped")' = {}
    BY <2>2 DEF Items
  <2>4. /\ batch'.status = "queued" /\ batch'.selected = Cardinality(S)
        /\ batch'.queued = batch.queued /\ batch'.skipped = batch.skipped
    <3>1. /\ batch = [status |-> batch.status, creator |-> batch.creator,
                      selected |-> batch.selected, queued |-> batch.queued,
                      skipped |-> batch.skipped]
      BY DEF TypeOK
    <3>2. QED
      BY <2>1, <3>1
  <2>5. batch.queued = 0 /\ batch.skipped = 0
    <3>1. batch.status = "none" /\ Items("none") = Cells
      BY <1>5 DEF CreateBatch, ItemsCounted
    <3>2. Items("queued") = {} /\ Items("skipped") = {}
      BY <3>1 DEF Items
    <3>3. QED
      BY <3>2, FS_EmptySet DEF ItemsCounted
  <2>6. ItemsCounted'
    <3>1. Cells \ (Cells \ S) = S
      OBVIOUS
    <3>2. QED
      BY <2>3, <2>4, <2>5, <3>1, FS_EmptySet DEF ItemsCounted
  <2>7. QueuedItemsHaveRuns' /\ CancelledBatchIsQuiet'
    BY <2>3, <2>4 DEF QueuedItemsHaveRuns, CancelledBatchIsQuiet
  <2>8. QED
    BY <2>6, <2>7
<1>6. ASSUME CancelBatch PROVE BatchSound'
  <2>1. \A c \in Cells :
          /\ item'[c].status = IF item[c].status = "pending" THEN "skipped"
                               ELSE item[c].status
          /\ item'[c].run = item[c].run
    BY <1>6 DEF CancelBatch, TypeOK
  <2>2. /\ batch'.status = "cancelled" /\ batch'.selected = batch.selected
        /\ batch'.queued = batch.queued
        /\ batch'.skipped = batch.skipped + Cardinality(Items("pending"))
    <3>1. batch = [status |-> batch.status, creator |-> batch.creator,
                   selected |-> batch.selected, queued |-> batch.queued,
                   skipped |-> batch.skipped]
      BY DEF TypeOK
    <3>2. batch' = [batch EXCEPT !.status = "cancelled",
                      !.skipped = batch.skipped + Cardinality(Items("pending"))]
      BY <1>6 DEF CancelBatch
    <3>3. QED
      BY <3>1, <3>2
  <2>3. ItemsCounted'
    <3>1. \A c \in Items("pending") : item'[c].status = "skipped"
      BY <2>1 DEF Items
    <3>2. \A c \in Cells \ ({} \union Items("pending")) :
            item'[c].status = item[c].status
      BY <2>1 DEF Items
    <3>3. {} \union Items("pending") = Items("pending")
      OBVIOUS
    <3>4. batch'.queued = batch.queued + Cardinality({})
      BY <2>2, FS_EmptySet, Counting DEF ItemsCounted, Items
    <3>5. batch.queued + batch.skipped + Cardinality(Items("pending")) = batch.selected
      <4>1. /\ Cardinality(Items("pending")) \in Nat
            /\ Cardinality(Items("queued")) \in Nat
            /\ Cardinality(Items("skipped")) \in Nat
        BY Counting DEF Items
      <4>2. QED
        BY <4>1, Counting DEF ItemsCounted
    <3>6. QED
      BY <2>2, <3>1, <3>2, <3>3, <3>4, <3>5, ItemsMove
  <2>4. Items("queued")' = Items("queued") /\ Items("pending")' = {}
    BY <2>1 DEF Items
  <2>5. BatchRuns' = BatchRuns /\ BatchRuns \subseteq Events
    BY <2>1, <2>4 DEF BatchRuns, Items, QueuedItemsHaveRuns
  <2>6. QueuedItemsHaveRuns'
    BY <1>6, <2>1, <2>4 DEF CancelBatch, QueuedItemsHaveRuns, Items
  <2>7. \A r \in BatchRuns : run'[r] \in Terminal
    <3> TAKE r \in BatchRuns
    <3>1. r \in Events /\ run[r] # "none"
      BY <2>5 DEF BatchRuns, QueuedItemsHaveRuns, EventsSound, RunsHaveCells, Items
    <3>2. run[r] \in Active \union Terminal
      BY <3>1 DEF TypeOK, RunStatus
    <3>3. QED
      BY <1>6, <3>1, <3>2 DEF CancelBatch, CancelledRuns, Terminal
  <2>8. QED
    BY <2>3, <2>4, <2>5, <2>6, <2>7 DEF CancelledBatchIsQuiet
<1>7. ASSUME NEW d \in Dispatchers, NEW e \in Events, ExpandChunk(d, e)
      PROVE  BatchSound'
  <2>1. Chunk \subseteq Items("pending") /\ Items("pending") \subseteq Cells
    BY DEF Chunk, Items
  <2>2. PICK queue \in SUBSET {c \in Chunk : Selectable(c)} :
          LET done == batch.queued + batch.skipped + Cardinality(Chunk)
              status == IF done = batch.selected THEN "completed"
                        ELSE IF Chunk = {} THEN "failed" ELSE "running"
          IN /\ QueueRuns(queue)
             /\ item' = [c \in Cells |->
                  IF c \in queue
                    THEN [status |-> "queued", run |-> EventOf(queue, c)]
                  ELSE IF c \in Chunk THEN [item[c] EXCEPT !.status = "skipped"]
                  ELSE item[c]]
             /\ batch' = [batch EXCEPT
                  !.status = status,
                  !.queued = @ + Cardinality(queue),
                  !.skipped = @ + Cardinality(Chunk \ queue)]
    BY <1>7, Zenon DEF ExpandChunk
  <2> DEFINE skip == Chunk \ queue
  <2>3. /\ \A c \in queue : /\ item'[c].status = "queued"
                            /\ item'[c].run = EventOf(queue, c)
        /\ \A c \in skip : item'[c].status = "skipped"
        /\ \A c \in Cells \ (queue \union skip) : item'[c] = item[c]
    BY <2>1, <2>2 DEF TypeOK
  <2>4. /\ batch'.selected = batch.selected
        /\ batch'.queued = batch.queued + Cardinality(queue)
        /\ batch'.skipped = batch.skipped + Cardinality(skip)
        /\ batch'.status \in {"completed", "failed", "running"}
        /\ batch'.status = "completed" =>
             batch.queued + batch.skipped + Cardinality(Chunk) = batch.selected
    <3>1. batch = [status |-> batch.status, creator |-> batch.creator,
                   selected |-> batch.selected, queued |-> batch.queued,
                   skipped |-> batch.skipped]
      BY DEF TypeOK
    <3>2. PICK status \in {"completed", "failed", "running"} :
            /\ batch' = [batch EXCEPT
                 !.status = status,
                 !.queued = batch.queued + Cardinality(queue),
                 !.skipped = batch.skipped + Cardinality(skip)]
            /\ status = "completed" =>
                 batch.queued + batch.skipped + Cardinality(Chunk) = batch.selected
      BY <2>2
    <3>3. QED
      BY <3>1, <3>2
  <2>5. ItemsCounted'
    <3>1. queue \union skip = Chunk /\ queue \intersect skip = {}
      OBVIOUS
    <3>2. queue \subseteq Items("pending") /\ skip \subseteq Items("pending")
      BY <2>1
    <3>3. QED
      BY <2>3, <2>4, <3>1, <3>2, ItemsMove
  <2>6. QueuedItemsHaveRuns'
    <3> SUFFICES ASSUME NEW c \in Cells, item'[c].status = "queued"
                 PROVE  item'[c].run \in Events /\ target'[item'[c].run] = c
      BY DEF QueuedItemsHaveRuns, Items
    <3>1. CASE c \in queue
      <4>1. queue \in SUBSET Cells /\ QueueRuns(queue) /\ EventsInOrder
        BY <2>1, <2>2 DEF EventsSound
      <4>2. /\ EventOf(queue, c) \in NewRuns(queue)
            /\ target'[EventOf(queue, c)] = c
            /\ NewRuns(queue) \subseteq Events
        BY <3>1, <4>1, QueueEffect DEF QueueRuns
      <4>3. QED
        BY <2>3, <3>1, <4>2
    <3>2. CASE c \notin queue
      <4>1. item'[c] = item[c]
        BY <2>3, <3>2
      <4>2. item[c].run \in Events /\ target[item[c].run] = c
        BY <4>1 DEF QueuedItemsHaveRuns, Items
      <4>3. QED
        BY <1>1, <4>1, <4>2
    <3>3. QED
      BY <3>1, <3>2
  <2>7. CancelledBatchIsQuiet'
    BY <2>4 DEF CancelledBatchIsQuiet
  <2>8. QED
    BY <2>5, <2>6, <2>7
<1>8. ASSUME item' = item, batch'.status # "none", batch'.status # "cancelled",
             batch'.status # "completed",
             batch'.selected = batch.selected, batch'.queued = batch.queued,
             batch'.skipped = batch.skipped
      PROVE  BatchSound'
  <2>1. ItemsCounted'
    BY <1>8 DEF ItemsCounted, Items
  <2>2. QED
    BY <1>2, <1>3, <1>8, <2>1
<1>9. ASSUME CreatorLeaves PROVE BatchSound'
  <2>1. item' = item /\ batch'.status = batch.status
        /\ batch'.selected = batch.selected /\ batch'.queued = batch.queued
        /\ batch'.skipped = batch.skipped
    BY <1>9 DEF CreatorLeaves, TypeOK
  <2>2. ItemsCounted'
    BY <2>1 DEF ItemsCounted, Items
  <2>3. QED
    BY <1>2, <1>3, <2>1, <2>2
<1>10. ASSUME NEW d \in Dispatchers, NEW e \in Events, ExpandWithoutCreator(d, e)
       PROVE  BatchSound'
  BY <1>8, <1>10 DEF ExpandWithoutCreator, TypeOK
<1>11. CASE item' = item /\ batch' = batch
  BY <1>4, <1>11
<1>12. QED
  BY <1>5, <1>6, <1>7, <1>9, <1>10, <1>11
     DEF Next, RequestRun, Dispatch, Handler, ExpandFinished, StartRun,
         SkipRun, Succeed, SucceedConflict, ProviderThrows, Fail,
         SucceedThenFault, StorageFault, Settle, Crash, Tick, vars, bulkVars

-----------------------------------------------------------------------------
(* No run is forgotten, and a cell shows its run.                          *)

\* Faults and late claims are counted, never forgotten, and whatever fails or
\* dies is a fault.
LEMMA Disturbances ==
  ASSUME TypeOK, Claims, [Next]_vars
  PROVE  /\ faults'.broken = 0 => faults.broken = 0
         /\ faults'.late = 0 => faults.late = 0
         /\ faults'.broken = 0 => ~ O!Fault
<1> USE DEF Claims, P!TypeOK
<1>1. O!Fault => faults'.broken # 0 /\ faults'.late = faults.late
  BY DEF O!Fault
<1>2. CASE O!Fault
  BY <1>1, <1>2
<1>3. CASE O!Tick
  BY <1>1, <1>3, SameOutbox, P!TickEffect, OutboxParameters
<1>4. CASE faults' = faults
  BY <1>1, <1>4
<1>5. ASSUME NEW d \in Dispatchers, Dispatch(d) \/ Settle(d)
      PROVE  faults' = faults \/ O!Fault
  BY <1>5, Zenon DEF Dispatch, O!Claim, Settle, O!Publish, O!Retry, O!LostClaim,
     O!StorageError
<1>6. ASSUME NEW d \in Dispatchers, NEW e \in Events, Handler(d, e)
      PROVE  faults' = faults
  BY <1>6, Zenon DEF Handler, ExpandFinished, ExpandWithoutCreator, ExpandChunk,
     StartRun, SkipRun, Succeed, SucceedConflict, ProviderThrows, Fail, outboxVars
<1>7. QED
  BY <1>2, <1>3, <1>4, <1>5, <1>6
     DEF Next, RequestRun, CreateBatch, O!Enqueue, CancelBatch, CreatorLeaves,
         SucceedThenFault, StorageFault, Crash, O!Crash, Tick, vars, outboxVars

\* Undisturbed, one dispatcher holds an event, and its claim stands.
LEMMA HeldAlone ==
  ASSUME Claims, Undisturbed
  PROVE  /\ \A d \in Dispatchers, e \in Events :
              e \in disp[d].batch => P!Owns(d, e)
         /\ \A d, f \in Dispatchers, e \in Events :
              e \in disp[d].batch /\ e \in disp[f].batch => d = f
  BY DEF Claims, Undisturbed, P!HeldWithinLease, P!Owns

\* Every step, a handler's retry and the dispatcher's settlement among them,
\* leaves an active run with an event that is still to be settled.
LEMMA DrivenStep ==
  ASSUME TypeOK, Claims, EventsSound, HandlersRun,
         ActiveRunIsDriven, DoneRunsAreOver, [Next]_vars
  PROVE  ActiveRunIsDriven' /\ DoneRunsAreOver'
<1> SUFFICES ASSUME Undisturbed' PROVE ActiveRunIsDriven' /\ DoneRunsAreOver'
  BY DEF ActiveRunIsDriven, DoneRunsAreOver
<1> USE DEF EventsSound
<1> DEFINE Over(d, e) == O!Current(d, e) /\ (disp[d].outcome = "ok" \/ O!GivesUp(d, e))
                           => run[e] \notin Active
           Inside(d, e) == O!Current(d, e) /\ stage[d] # "outside"
           Goal == ActiveRunIsDriven' /\ DoneRunsAreOver'
           Still(f) == disp'[f] = disp[f] /\ stage'[f] = stage[f]
           Rows == \A e \in Events : outbox[e].state = "pending" => outbox'[e].state = "pending"
<1>1. Undisturbed /\ ~ O!Fault
  BY Disturbances DEF Undisturbed
<1>2. /\ \A e \in Events : run[e] = "queued" => outbox[e].state = "pending"
      /\ \A e \in Events : run[e] = "running" => \E d \in Dispatchers : Inside(d, e)
      /\ \A d \in Dispatchers, e \in Events : Over(d, e)
  BY <1>1 DEF ActiveRunIsDriven, DoneRunsAreOver
<1>3. ASSUME /\ \A e \in Events : run'[e] = "queued" => outbox'[e].state = "pending"
             /\ \A e \in Events : run'[e] = "running" => \E d \in Dispatchers : Inside(d, e)'
             /\ \A d \in Dispatchers, e \in Events : Over(d, e)'
      PROVE  Goal
  BY <1>3 DEF ActiveRunIsDriven, DoneRunsAreOver
<1>4. ASSUME NEW d \in Dispatchers, Still(d), NEW e \in Events
      PROVE  /\ O!Current(d, e)' <=> O!Current(d, e)
             /\ Inside(d, e)' <=> Inside(d, e)
             /\ (run'[e] \in Active => run[e] \in Active) /\ Over(d, e) => Over(d, e)'
  <2>1. O!Current(d, e)' <=> O!Current(d, e)
    BY <1>4, OneCurrent
  <2>2. O!GivesUp(d, e)' <=> O!GivesUp(d, e)
    BY <1>4 DEF O!GivesUp
  <2>3. QED
    BY <1>4, <2>1, <2>2
<1> HIDE DEF Over, Inside
\* Steps of the control plane, and time: the dispatchers stand still.
<1>5. ASSUME disp' = disp, stage' = stage, Rows,
             \A e \in Events :
               \/ run'[e] = run[e] \/ run'[e] \notin Active
               \/ /\ run'[e] = "queued" /\ outbox'[e].state = "pending"
                  /\ target[e] = Nothing
      PROVE  Goal
  <2>1. \A e \in Events : run'[e] = "queued" => outbox'[e].state = "pending"
    BY <1>2, <1>5 DEF Active
  <2>2. \A e \in Events : run'[e] = "running" => \E d \in Dispatchers : Inside(d, e)'
    BY <1>2, <1>4, <1>5 DEF Active
  <2>3. ASSUME NEW d \in Dispatchers, NEW e \in Events PROVE Over(d, e)'
    <3>1. O!Current(d, e) => target[e] # Nothing
      BY OneCurrent DEF HeldEventsExist, Created
    <3>2. ASSUME O!Current(d, e) PROVE run'[e] \in Active => run[e] \in Active
      BY <1>5, <3>1, <3>2
    <3>3. CASE O!Current(d, e)
      BY <1>2, <1>4, <1>5, <3>2, <3>3
    <3>4. CASE ~ O!Current(d, e)
      BY <1>4, <1>5, <3>4 DEF Over
    <3>5. QED
      BY <3>3, <3>4
  <2>4. QED
    BY <1>3, <2>1, <2>2, <2>3
<1>6. ASSUME NEW queue \in SUBSET Cells, QueueRuns(queue)
      PROVE  /\ Rows
             /\ \A e \in Events :
                  \/ run'[e] = run[e]
                  \/ /\ run'[e] = "queued" /\ outbox'[e].state = "pending"
                     /\ target[e] = Nothing
  <2>1. \A e \in Events : outbox[e] \in P!OutboxRow
    BY DEF Claims, P!TypeOK
  <2>2. \A e \in NewRuns(queue) :
          /\ target[e] = Nothing /\ run'[e] = "queued" /\ e \in Events
          /\ outbox'[e] = [outbox[e] EXCEPT !.state = "pending"]
    BY <1>6, QueueEffect
  <2>3. ASSUME NEW e \in NewRuns(queue) PROVE outbox'[e].state = "pending"
    <3>1. outbox[e] \in P!OutboxRow
      BY <2>1, <2>2
    <3>2. QED
      BY <2>2, <3>1 DEF P!OutboxRow
  <2>4. \A e \in Events \ NewRuns(queue) : run'[e] = run[e] /\ outbox'[e] = outbox[e]
    BY <1>6, QueueEffect
  <2>5. QED
    BY <2>2, <2>3, <2>4
<1>7. ASSUME NEW c \in Cells, RequestRun(c) PROVE Goal
  <2>1. {c} \in SUBSET Cells /\ QueueRuns({c}) /\ disp' = disp /\ stage' = stage
    BY <1>7 DEF RequestRun
  <2>2. QED
    BY <1>5, <1>6, <2>1
<1>8. ASSUME CreateBatch PROVE Goal
  <2>1. /\ outbox'[NextEvent] = [outbox[NextEvent] EXCEPT !.state = "pending"]
        /\ NextEvent \in Events
        /\ \A e \in Events \ {NextEvent} : outbox'[e] = outbox[e]
        /\ UNCHANGED <<disp, run, stage>>
    BY <1>8, BatchEvent
  <2>2. outbox[NextEvent] \in P!OutboxRow
    BY <2>1 DEF Claims, P!TypeOK
  <2>3. Rows
    BY <2>1, <2>2 DEF P!OutboxRow
  <2>4. QED
    BY <1>5, <2>1, <2>3
<1>9. ASSUME CancelBatch PROVE Goal
  <2>1. \A e \in Events : run'[e] = run[e] \/ run'[e] \notin Active
    BY <1>9 DEF CancelBatch, Active
  <2>2. QED
    BY <1>5, <1>9, <2>1 DEF CancelBatch, outboxVars
<1>10. ASSUME Tick PROVE Goal
  <2>1. Rows /\ disp' = disp
    BY <1>10, SameOutbox, P!TickEffect, OutboxParameters DEF Tick, Claims
  <2>2. QED
    BY <1>5, <1>10, <2>1 DEF Tick
<1>11. CASE CreatorLeaves \/ UNCHANGED vars
  BY <1>5, <1>11 DEF CreatorLeaves, vars, outboxVars
\* Steps of one dispatcher.
<1>12. ASSUME NEW d \in Dispatchers, \A f \in Dispatchers \ {d} : Still(f),
              \A e \in Events : run'[e] = "queued" => outbox'[e].state = "pending",
              \A e \in Events : run'[e] = "running" =>
                \/ run[e] = "running" /\ ~ Inside(d, e)
                \/ Inside(d, e)',
              \A e \in Events : Over(d, e)',
              \A f \in Dispatchers \ {d}, e \in Events :
                O!Current(f, e) /\ run'[e] \in Active => run[e] \in Active
       PROVE  Goal
  <2>1. ASSUME NEW e \in Events, run'[e] = "running"
        PROVE  \E f \in Dispatchers : Inside(f, e)'
    <3>1. CASE Inside(d, e)'
      BY <3>1
    <3>2. CASE run[e] = "running" /\ ~ Inside(d, e)
      <4>1. PICK f \in Dispatchers \ {d} : Inside(f, e)
        BY <1>2, <3>2
      <4>2. QED
        BY <1>4, <1>12, <4>1
    <3>3. QED
      BY <1>12, <2>1, <3>1, <3>2
  <2>2. ASSUME NEW f \in Dispatchers \ {d}, NEW e \in Events PROVE Over(f, e)'
    <3>1. CASE O!Current(f, e)
      BY <1>2, <1>4, <1>12, <3>1
    <3>2. CASE ~ O!Current(f, e)
      BY <1>4, <1>12, <3>2 DEF Over
    <3>3. QED
      BY <3>1, <3>2
  <2>3. QED
    BY <1>3, <1>12, <2>1, <2>2
<1>13. ASSUME NEW d \in Dispatchers, Dispatch(d) PROVE Goal
  <2>1. /\ disp[d].batch = {} /\ disp'[d].outcome = "running"
        /\ \A f \in Dispatchers \ {d} : disp'[f] = disp[f]
        /\ \A e \in Events : outbox'[e].state = outbox[e].state
    BY <1>13, SameOutbox, P!ClaimEffect, OutboxParameters DEF Dispatch, Claims
  <2>2. \A e \in Events : ~ Inside(d, e) /\ Over(d, e)'
    BY <2>1, OneCurrent DEF Inside, Over, O!GivesUp
  <2>3. UNCHANGED <<run, stage>>
    BY <1>13 DEF Dispatch
  <2>4. QED
    BY <1>2, <1>12, <2>1, <2>2, <2>3
\* An event in the hands of d is in nobody else's, and d executes no other.
<1>14. ASSUME NEW d \in Dispatchers, NEW e \in Events, O!Current(d, e)
       PROVE  /\ outbox[e].state = "pending"
              /\ \A f \in Dispatchers \ {d} : ~ O!Current(f, e)
              /\ \A f \in Events \ {e} : ~ O!Current(d, f)
  BY <1>1, <1>14, HeldAlone, OneCurrent DEF P!Owns
\* The handler of d ends, or goes on in another stage; only its own run moves.
<1>15. ASSUME NEW d \in Dispatchers, NEW e \in Events, O!Current(d, e),
              \A f \in Dispatchers \ {d} : Still(f),
              disp'[d].batch = disp[d].batch,
              \A f \in Events \ {e} : run'[f] = run[f],
              outbox' = outbox,
              run'[e] = "running" => stage'[d] # "outside",
              Over(d, e)'
       PROVE  Goal
  <2>1. \A f \in Events : O!Current(d, f)' <=> O!Current(d, f)
    BY <1>15, OneCurrent
  <2>2. \A f \in Events : run'[f] = "queued" => outbox'[f].state = "pending"
    BY <1>2, <1>14, <1>15
  <2>3. \A f \in Events : run'[f] = "running" =>
          \/ run[f] = "running" /\ ~ Inside(d, f)
          \/ Inside(d, f)'
    BY <1>14, <1>15, <2>1 DEF Inside
  <2>4. \A f \in Events : Over(d, f)'
    BY <1>14, <1>15, <2>1 DEF Over
  <2>5. \A f \in Dispatchers \ {d}, g \in Events :
          O!Current(f, g) /\ run'[g] \in Active => run[g] \in Active
    BY <1>14, <1>15
  <2>6. QED
    BY <1>12, <1>15, <2>2, <2>3, <2>4, <2>5
<1>16. ASSUME NEW d \in Dispatchers, NEW result, Leaves(d, result)
       PROVE  /\ \A f \in Dispatchers \ {d} : Still(f)
              /\ disp'[d].batch = disp[d].batch /\ disp'[d].outcome = result
              /\ disp'[d].attempt = disp[d].attempt
              /\ stage'[d] = "outside"
  BY <1>16 DEF Leaves, TypeOK, Claims, P!TypeOK, P!Dispatcher
<1>17. ASSUME NEW d \in Dispatchers, NEW e \in Events,
              ExpandFinished(d, e) \/ ExpandWithoutCreator(d, e)
       PROVE  Goal
  <2>1. /\ O!Current(d, e) /\ target[e] = Bulk /\ Leaves(d, "ok")
        /\ UNCHANGED <<outbox, run>>
    BY <1>17 DEF ExpandFinished, ExpandWithoutCreator, Handling
  <2>2. run[e] = "none"
    BY <2>1, CellRunsAssumption DEF RunsHaveCells, Bulk
  <2>3. QED
    BY <1>15, <1>16, <2>1, <2>2 DEF Over, Active
<1>18. ASSUME NEW d \in Dispatchers, NEW e \in Events, SkipRun(d, e) PROVE Goal
  <2>1. /\ O!Current(d, e) /\ target[e] \in Cells /\ stage[d] = "outside"
        /\ run[e] # "queued" /\ UNCHANGED <<outbox, run>>
    BY <1>18 DEF SkipRun, Handling, MayStart
  <2>2. PICK result : Leaves(d, result)
    BY <1>18 DEF SkipRun
  <2>3. run[e] # "running"
    BY <1>2, <1>14, <2>1 DEF Inside
  <2>4. QED
    BY <1>15, <1>16, <2>1, <2>2, <2>3 DEF Over, Active
<1>19. ASSUME NEW d \in Dispatchers, NEW e \in Events, Succeed(d, e) PROVE Goal
  <2>1. /\ O!Current(d, e) /\ Leaves(d, "ok") /\ UNCHANGED outbox
        /\ run' = [run EXCEPT ![e] = "succeeded"]
    BY <1>19 DEF Succeed, Handling
  <2>2. run'[e] = "succeeded" /\ \A f \in Events \ {e} : run'[f] = run[f]
    BY <2>1 DEF TypeOK
  <2>3. QED
    BY <1>15, <1>16, <2>1, <2>2 DEF Over, Active
<1>20. ASSUME NEW d \in Dispatchers, NEW e \in Events, Fail(d, e) PROVE Goal
  <2>1. /\ O!Current(d, e) /\ stage[d] \in {"retryable", "fatal"}
        /\ Leaves(d, stage[d]) /\ UNCHANGED outbox
        /\ run' = FailedRun(e, IF Retries(d, e) THEN "queued" ELSE "failed")
    BY <1>20 DEF Fail, Handling
  <2>2. /\ \A f \in Events \ {e} : run'[f] = run[f]
        /\ run'[e] # "running"
        /\ ~ Retries(d, e) => run'[e] \notin Active
    BY <2>1 DEF FailedRun, TypeOK, Active
  <2>3. /\ disp'[d].outcome = stage[d]
        /\ disp'[d].attempt = disp[d].attempt
    BY <1>16, <2>1
  <2>4. O!GivesUp(d, e)' \/ disp'[d].outcome = "ok" => ~ Retries(d, e)
    <3>1. disp[d].attempt[e] \in Nat /\ MaxRetries \in Nat
      BY CellRunsAssumption DEF Claims, P!TypeOK, P!Dispatcher
    <3>2. QED
      BY <2>1, <2>3, <3>1 DEF O!GivesUp, Retries
  <2>5. Over(d, e)'
    BY <2>2, <2>4 DEF Over
  <2>6. QED
    BY <1>15, <1>16, <2>1, <2>2, <2>5
<1>21. ASSUME NEW d \in Dispatchers, NEW e \in Events,
              StartRun(d, e) \/ SucceedConflict(d, e) \/ ProviderThrows(d, e)
       PROVE  Goal
  <2>1. /\ O!Current(d, e) /\ disp[d].outcome = "running"
        /\ UNCHANGED <<outbox, disp>>
        /\ \A f \in Dispatchers \ {d} : Still(f)
        /\ stage'[d] # "outside"
        /\ \A f \in Events \ {e} : run'[f] = run[f]
    BY <1>21 DEF StartRun, SucceedConflict, ProviderThrows, Handling,
       outboxVars, TypeOK
  <2>2. Over(d, e)'
    BY <2>1 DEF Over, O!GivesUp
  <2>3. QED
    BY <1>15, <2>1, <2>2
<1>22. ASSUME NEW d \in Dispatchers, NEW e \in Events, ExpandChunk(d, e)
       PROVE  Goal
  <2>1. PICK queue \in SUBSET Cells : QueueRuns(queue)
    BY <1>22 DEF ExpandChunk, Chunk, Items
  <2>2. PICK result : disp' = [disp EXCEPT ![d].outcome = result]
    BY <1>22, Zenon DEF ExpandChunk
  <2>3. /\ \A f \in Dispatchers \ {d} : Still(f)
        /\ disp'[d].batch = disp[d].batch
        /\ stage[d] = "outside" /\ O!Current(d, e) /\ target[e] = Bulk
    BY <1>22, <2>2 DEF ExpandChunk, Handling, Claims, P!TypeOK, P!Dispatcher
  <2>4. run[e] = "none"
    BY <2>3, CellRunsAssumption DEF RunsHaveCells, Bulk
  <2>5. \A f \in Dispatchers, g \in Events : O!Current(f, g) => run'[g] = run[g]
    BY <1>6, <2>1, OneCurrent DEF HeldEventsExist, Created
  <2>6. \A g \in Events : run'[g] = "queued" => outbox'[g].state = "pending"
    BY <1>2, <1>6, <2>1
  <2>7. \A g \in Events : run'[g] = "running" => run[g] = "running" /\ ~ Inside(d, g)
    BY <1>6, <2>1, <2>3 DEF Inside
  <2>8. \A g \in Events : Over(d, g)'
    BY <1>14, <2>3, <2>4, <2>5, OneCurrent DEF Over, Active
  <2>9. QED
    BY <1>12, <2>3, <2>5, <2>6, <2>7, <2>8
\* The dispatcher settles the event.
<1>23. ASSUME NEW d \in Dispatchers, Settle(d) PROVE Goal
  <2>1. PICK e \in Events : O!Publish(d, e) \/ O!Retry(d, e)
    <3>1. \A e \in Events : ~ O!LostClaim(d, e)
      BY <1>1, HeldAlone DEF O!LostClaim, O!Current, O!Owns, P!Owns
    <3>2. ~ O!StorageError(d)
      BY <1>1 DEF O!StorageError
    <3>3. QED
      BY <1>23, <3>1, <3>2 DEF Settle
  <2>2. /\ O!Current(d, e) /\ disp[d].outcome # "running"
        /\ disp'[d].outcome = "running"
        /\ \A f \in Dispatchers \ {d} : disp'[f] = disp[f]
        /\ \A f \in Events \ {e} : outbox'[f] = outbox[f]
        /\ outbox'[e].state # "pending" => disp[d].outcome = "ok" \/ O!GivesUp(d, e)
    <3>1. P!Publish(d, e) \/ P!Retry(d, e)
      BY <2>1, SameOutbox
    <3>2. /\ P!Current(d, e) <=> O!Current(d, e)
          /\ P!GivesUp(d, e) <=> O!GivesUp(d, e)
      BY DEF P!Current, O!Current, P!GivesUp, O!GivesUp
    <3>3. QED
      BY <3>1, <3>2, P!SettleEffect, OutboxParameters DEF Claims
  <2>3. UNCHANGED <<run, stage>>
    BY <1>23 DEF Settle
  <2>4. \A f \in Events : ~ Inside(d, f)
    BY <2>2 DEF Inside, HandlersRun
  <2>5. \A f \in Events : Over(d, f)'
    BY <2>2 DEF Over, O!GivesUp
  <2>6. \A f \in Events : run'[f] = "queued" => outbox'[f].state = "pending"
    BY <1>2, <2>2, <2>3 DEF Over, Active
  <2>7. QED
    BY <1>12, <2>2, <2>3, <2>4, <2>5, <2>6
<1>24. \A d \in Dispatchers :
         /\ ~ Crash(d)
         /\ \A e \in Events : ~ SucceedThenFault(d, e) /\ ~ StorageFault(d, e)
  BY <1>1 DEF SucceedThenFault, StorageFault, Crash, O!Crash
<1>25. ASSUME NEW d \in Dispatchers, NEW e \in Events, Handler(d, e) PROVE Goal
  BY <1>17, <1>18, <1>19, <1>20, <1>21, <1>22, <1>25 DEF Handler
<1>26. QED
  BY <1>7, <1>8, <1>9, <1>10, <1>11, <1>13, <1>23, <1>24, <1>25 DEF Next

\* Every step of a sound system leaves at most one worker inside the try
\* block of a run, and every cell showing the one active run that it has.
LEMMA ShownStep ==
  ASSUME TypeOK, Claims, EventsSound, HandlersRun,
         WorkersApart, CellShowsUncancelledRun, [Next]_vars
  PROVE  WorkersApart' /\ CellShowsUncancelledRun'
<1> SUFFICES ASSUME Sound' PROVE WorkersApart' /\ CellShowsUncancelledRun'
  BY DEF WorkersApart, CellShowsUncancelledRun, Sound
<1> USE DEF EventsSound
<1> DEFINE Inside(d, e) == stage[d] # "outside" /\ O!Current(d, e)
           Apart(d, e) == Inside(d, e) =>
             /\ run[e] = "running"
             /\ \A f \in Dispatchers \ {d} : ~ Inside(f, e)
           On(c) == {e \in Events : target[e] = c /\ run[e] \in Active}
           Shows(c) == IF cell[c] \in Active
                         THEN \E e \in On(c) : On(c) = {e} /\ run[e] = cell[c]
                         ELSE On(c) = {}
           Goal == WorkersApart' /\ CellShowsUncancelledRun'
           Still(f) == disp'[f].batch = disp[f].batch /\ stage'[f] = stage[f]
\* A cancelled batch stays so, and what was unsound remains so.
<1>1. Sound /\ ~ O!Fault /\ ~ CancelBatch
  <2>1. faults.broken = 0 /\ ~ O!Fault
    BY Disturbances DEF Sound
  <2>2. batch.status = "cancelled" => batch'.status = "cancelled"
    <3>1. ASSUME NEW d \in Dispatchers, NEW e \in Events,
                 ExpandChunk(d, e) \/ ExpandWithoutCreator(d, e)
          PROVE  batch.status # "cancelled"
      BY <3>1 DEF ExpandChunk, ExpandWithoutCreator, ExpansionOver, BatchOver
    <3>2. CreatorLeaves => batch'.status = batch.status
      BY DEF CreatorLeaves, TypeOK
    <3>3. CreateBatch => batch.status # "cancelled"
      BY DEF CreateBatch
    <3>4. CancelBatch => batch.status # "cancelled"
      BY DEF CancelBatch
    <3>5. batch' = batch => batch'.status = batch.status
      OBVIOUS
    <3>6. QED
      BY <3>1, <3>2, <3>3, <3>4, <3>5
         DEF Next, RequestRun, Dispatch, Handler, ExpandFinished, StartRun,
             SkipRun, Succeed, SucceedConflict, ProviderThrows, Fail,
             SucceedThenFault, StorageFault, Settle, Crash, Tick, vars, bulkVars
  <2>3. CancelBatch => batch'.status = "cancelled"
    BY DEF CancelBatch, TypeOK
  <2>4. QED
    BY <2>1, <2>2, <2>3 DEF Sound
<1>2. (\A d \in Dispatchers, e \in Events : Apart(d, e)) /\ \A c \in Cells : Shows(c)
  BY <1>1 DEF WorkersApart, CellShowsUncancelledRun, CellShowsItsRun, Sound
<1>3. ASSUME \A d \in Dispatchers, e \in Events : Apart(d, e)',
             \A c \in Cells : Shows(c)'
      PROVE  Goal
  BY <1>3 DEF WorkersApart, CellShowsUncancelledRun, CellShowsItsRun
<1>4. \A d \in Dispatchers, e \in Events : Still(d) =>
        (Inside(d, e)' <=> Inside(d, e))
  BY OneCurrent
<1>5. \A d \in Dispatchers, e \in Events : Inside(d, e) => target[e] \in Cells
  BY OneCurrent DEF HandlersRun
<1>6. \A c \in Cells, e \in Events :
        target[e] = c /\ run[e] \in Active => On(c) = {e} /\ run[e] = cell[c]
  BY <1>2
<1> HIDE DEF Inside, Shows, Apart, Goal
\* Nobody enters a try block, and no run of those inside changes.
<1>7. ASSUME \A d \in Dispatchers : Still(d) \/ stage'[d] = "outside",
             \A d \in Dispatchers, e \in Events :
               Inside(d, e) /\ Inside(d, e)' => run'[e] = run[e]
      PROVE  \A d \in Dispatchers, e \in Events : Apart(d, e)'
  <2>1. \A d \in Dispatchers, e \in Events : Inside(d, e)' => Inside(d, e)
    BY <1>4, <1>7 DEF Inside
  <2>2. QED
    BY <1>2, <1>7, <2>1 DEF Apart
\* No run and no cell changes.
<1>8. ASSUME run' = run, cell' = cell,
             \A e \in Events :
               \/ target'[e] = target[e]
               \/ target[e] \notin Cells /\ target'[e] \notin Cells
      PROVE  \A c \in Cells : Shows(c)'
  <2> TAKE c \in Cells
  <2>1. On(c)' = On(c)
    BY <1>8
  <2>2. QED
    BY <1>2, <1>8, <2>1 DEF Shows
\* An active run moves, and its cell with it.
<1>9. ASSUME NEW e \in Events, target[e] \in Cells, run[e] \in Active,
             NEW status, run' = [run EXCEPT ![e] = status],
             cell' = [cell EXCEPT ![target[e]] = status], target' = target
      PROVE  \A c \in Cells : Shows(c)'
  <2> TAKE c \in Cells
  <2>1. run'[e] = status /\ \A f \in Events \ {e} : run'[f] = run[f]
    BY <1>9 DEF TypeOK
  <2>2. CASE c = target[e]
    <3>1. On(c) = {e}
      BY <1>6, <1>9, <2>2
    <3>2. On(c)' = IF status \in Active THEN {e} ELSE {}
      BY <1>9, <2>1, <2>2, <3>1
    <3>3. cell'[c] = status
      BY <1>9, <2>2 DEF TypeOK
    <3>4. QED
      BY <2>1, <3>2, <3>3 DEF Shows
  <2>3. CASE c # target[e]
    <3>1. On(c)' = On(c) /\ cell'[c] = cell[c]
      BY <1>9, <2>1, <2>3 DEF TypeOK
    <3>2. \A f \in On(c) : run'[f] = run[f]
      BY <2>1, <2>3
    <3>3. QED
      BY <1>2, <3>1, <3>2 DEF Shows
  <2>4. QED
    BY <2>2, <2>3
\* Runs are queued for cells that have none.
<1>10. ASSUME NEW queue \in SUBSET Cells, QueueRuns(queue),
              \A c \in queue : cell[c] \notin Active
       PROVE  /\ \A c \in Cells : Shows(c)'
              /\ \A d \in Dispatchers, e \in Events : Inside(d, e) => run'[e] = run[e]
  <2>1. \A e \in NewRuns(queue) :
          /\ e \in Events /\ target[e] = Nothing /\ run'[e] = "queued"
          /\ target'[e] \in queue /\ EventOf(queue, target'[e]) = e
    BY <1>10, QueueEffect
  <2>2. \A e \in Events \ NewRuns(queue) : target'[e] = target[e] /\ run'[e] = run[e]
    BY <1>10, QueueEffect
  <2>3. cell' = [c \in Cells |-> IF c \in queue THEN "queued" ELSE cell[c]]
    BY <1>10, QueueEffect
  <2>4. ASSUME NEW c \in queue PROVE Shows(c)'
    <3>1. On(c) = {}
      BY <1>2, <1>10 DEF Shows
    <3>2. EventOf(queue, c) \in NewRuns(queue) /\ target'[EventOf(queue, c)] = c
      BY <1>10, QueueEffect
    <3>3. On(c)' = {EventOf(queue, c)}
      BY <2>1, <2>2, <3>1, <3>2 DEF Active
    <3>4. QED
      BY <2>1, <2>3, <3>2, <3>3 DEF Shows, Active
  <2>5. ASSUME NEW c \in Cells \ queue PROVE Shows(c)'
    <3>1. On(c)' = On(c)
      BY <2>1, <2>2, <2>5, CellRunsAssumption DEF Nothing
    <3>2. \A e \in On(c) : run'[e] = run[e]
      BY <2>1, <2>2, CellRunsAssumption DEF Nothing
    <3>3. QED
      BY <1>2, <2>3, <3>1, <3>2 DEF Shows
  <2>6. ASSUME NEW d \in Dispatchers, NEW e \in Events, Inside(d, e)
        PROVE  run'[e] = run[e]
    BY <1>5, <2>1, <2>2, <2>6, CellRunsAssumption DEF Nothing
  <2>7. QED
    BY <2>4, <2>5, <2>6
<1>11. ASSUME NEW c \in Cells, RequestRun(c) PROVE Goal
  <2>1. {c} \in SUBSET Cells /\ QueueRuns({c}) /\ cell[c] \notin Active
        /\ disp' = disp /\ stage' = stage
    BY <1>11 DEF RequestRun
  <2>2. QED
    BY <1>3, <1>7, <1>10, <2>1
<1>12. ASSUME disp' = disp, stage' = stage, run' = run, cell' = cell,
              \A e \in Events :
                \/ target'[e] = target[e]
                \/ target[e] \notin Cells /\ target'[e] \notin Cells
       PROVE  Goal
  BY <1>3, <1>7, <1>8, <1>12
<1>13. ASSUME CreateBatch PROVE Goal
  <2>1. Bulk \notin Cells /\ Nothing \notin Cells
    BY CellRunsAssumption DEF Bulk, Nothing
  <2>2. \A e \in Events :
          \/ target'[e] = target[e]
          \/ target[e] \notin Cells /\ target'[e] \notin Cells
    <3>1. /\ target[NextEvent] = Nothing /\ target'[NextEvent] = Bulk
          /\ \A e \in Events \ {NextEvent} : target'[e] = target[e]
      BY <1>13, BatchEvent
    <3>2. QED
      BY <2>1, <3>1
  <2>3. UNCHANGED <<disp, run, cell, stage>>
    BY <1>13, BatchEvent
  <2>4. QED
    BY <1>12, <2>2, <2>3
<1>14. ASSUME CreatorLeaves \/ Tick \/ UNCHANGED vars PROVE Goal
  BY <1>12, <1>14 DEF CreatorLeaves, Tick, O!Tick, vars, outboxVars
\* A dispatcher works on the run of the event that it holds.
<1>15. ASSUME NEW d \in Dispatchers, NEW e \in Events,
              NEW place \in {"provider", "retryable", "fatal"}, Handling(d, e, place)
       PROVE  /\ Inside(d, e) /\ target[e] \in Cells /\ run[e] = "running"
              /\ \A f \in Dispatchers \ {d} : ~ Inside(f, e)
              /\ \A f \in Events : Inside(d, f) => f = e
  <2>1. Inside(d, e)
    BY <1>15 DEF Handling, Inside
  <2>2. QED
    BY <1>2, <1>5, <2>1, OneCurrent DEF Inside, Apart
<1>16. ASSUME NEW d \in Dispatchers, NEW result, Leaves(d, result)
       PROVE  stage'[d] = "outside" /\ \A f \in Dispatchers \ {d} : Still(f)
  BY <1>16 DEF Leaves, TypeOK, Claims, P!TypeOK
<1>17. ASSUME NEW d \in Dispatchers,
              \A f \in Dispatchers \ {d} : Still(f),
              Still(d) \/ stage'[d] = "outside",
              UNCHANGED <<target, run, cell>>
       PROVE  Goal
  BY <1>3, <1>7, <1>8, <1>17
<1>18. ASSUME NEW d \in Dispatchers, NEW e \in Events,
              ExpandFinished(d, e) \/ ExpandWithoutCreator(d, e) \/ SkipRun(d, e)
       PROVE  Goal
  <2>1. UNCHANGED <<target, run, cell>> /\ \E result : Leaves(d, result)
    BY <1>18, Zenon DEF ExpandFinished, ExpandWithoutCreator, SkipRun
  <2>2. QED
    BY <1>16, <1>17, <2>1
<1>19. ASSUME NEW d \in Dispatchers, NEW e \in Events, ExpandChunk(d, e)
       PROVE  Goal
  <2>1. PICK queue \in SUBSET Cells :
          QueueRuns(queue) /\ \A c \in queue : cell[c] \notin Active
    BY <1>19 DEF ExpandChunk, Chunk, Items, Selectable
  <2>2. \A f \in Dispatchers : Still(f)
    <3>1. PICK result : disp' = [disp EXCEPT ![d].outcome = result]
      BY <1>19, Zenon DEF ExpandChunk
    <3>2. QED
      BY <1>19, <3>1 DEF ExpandChunk, Claims, P!TypeOK, P!Dispatcher
  <2>3. QED
    BY <1>3, <1>7, <1>10, <2>1, <2>2
<1>20. ASSUME NEW d \in Dispatchers, NEW e \in Events, StartRun(d, e) PROVE Goal
  <2>1. /\ O!Current(d, e) /\ target[e] \in Cells /\ run[e] = "queued"
        /\ run' = [run EXCEPT ![e] = "running"]
        /\ cell' = [cell EXCEPT ![target[e]] = "running"]
        /\ stage' = [stage EXCEPT ![d] = "provider"]
        /\ UNCHANGED <<disp, target>>
    BY <1>20 DEF StartRun, MayStart, Handling, outboxVars
  <2>2. \A c \in Cells : Shows(c)'
    BY <1>9, <2>1 DEF Active
  <2>3. run'[e] = "running" /\ \A f \in Events \ {e} : run'[f] = run[f]
    BY <2>1 DEF TypeOK
  <2>4. \A f \in Dispatchers : ~ Inside(f, e)
    BY <1>2, <2>1 DEF Apart
  <2>5. \A f \in Dispatchers \ {d}, g \in Events : Inside(f, g)' <=> Inside(f, g)
    BY <1>4, <2>1 DEF TypeOK
  <2>6. \A g \in Events : Inside(d, g)' => g = e
    BY <2>1, OneCurrent DEF Inside
  <2>7. \A f \in Dispatchers, g \in Events : Apart(f, g)'
    <3> TAKE f \in Dispatchers, g \in Events
    <3>1. CASE f = d
      BY <2>3, <2>4, <2>5, <2>6, <3>1 DEF Apart
    <3>2. CASE f # d
      BY <1>2, <2>3, <2>4, <2>5, <2>6, <3>2 DEF Apart
    <3>3. QED
      BY <3>1, <3>2
  <2>8. QED
    BY <1>3, <2>2, <2>7
<1>21. ASSUME NEW d \in Dispatchers, NEW e \in Events, NEW result, NEW status,
              NEW place \in {"provider", "retryable", "fatal"},
              Handling(d, e, place), Leaves(d, result),
              run' = [run EXCEPT ![e] = status],
              cell' = [cell EXCEPT ![target[e]] = status], target' = target
       PROVE  Goal
  <2>1. \A c \in Cells : Shows(c)'
    BY <1>9, <1>15, <1>21 DEF Active
  <2>2. \A f \in Events \ {e} : run'[f] = run[f]
    BY <1>21 DEF TypeOK
  <2>3. \A f \in Dispatchers, g \in Events : Inside(f, g) /\ Inside(f, g)' => g # e
    BY <1>15, <1>16, <1>21 DEF Inside
  <2>4. QED
    BY <1>3, <1>7, <1>16, <1>21, <2>1, <2>2, <2>3
<1>22. ASSUME NEW d \in Dispatchers, NEW e \in Events, Succeed(d, e) \/ Fail(d, e)
       PROVE  Goal
  <2>1. CASE Succeed(d, e)
    BY <1>21, <2>1 DEF Succeed
  <2>2. CASE Fail(d, e)
    <3>1. PICK place \in {"retryable", "fatal"} : Handling(d, e, place)
      BY <2>2 DEF Fail
    <3>2. PICK status :
            run' = FailedRun(e, status) /\ cell' = [cell EXCEPT ![target[e]] = status]
      BY <2>2, Zenon DEF Fail
    <3>3. run' = [run EXCEPT ![e] = status]
      BY <1>15, <3>1, <3>2 DEF FailedRun, Active
    <3>4. Leaves(d, stage[d]) /\ target' = target
      BY <2>2 DEF Fail
    <3>5. QED
      BY <1>21, <3>1, <3>2, <3>3, <3>4
  <2>3. QED
    BY <1>22, <2>1, <2>2
<1>23. ASSUME NEW d \in Dispatchers, NEW e \in Events,
              SucceedConflict(d, e) \/ ProviderThrows(d, e)
       PROVE  Goal
  <2>1. PICK place : stage' = [stage EXCEPT ![d] = place]
    BY <1>23, Zenon DEF SucceedConflict, ProviderThrows
  <2>2. /\ Handling(d, e, "provider")
        /\ UNCHANGED <<disp, target, run, cell>>
    BY <1>23 DEF SucceedConflict, ProviderThrows, outboxVars
  <2>3. \A f \in Dispatchers, g \in Events : Inside(f, g)' => Inside(f, g)
    <3> TAKE f \in Dispatchers, g \in Events
    <3>1. stage[d] # "outside"
      BY <2>2 DEF Handling
    <3>2. stage'[f] # "outside" => stage[f] # "outside"
      BY <2>1, <3>1 DEF TypeOK
    <3>3. QED
      BY <2>2, <3>2, OneCurrent DEF Inside
  <2>4. \A f \in Dispatchers, g \in Events : Apart(f, g)'
    BY <1>2, <2>2, <2>3 DEF Apart
  <2>5. \A c \in Cells : Shows(c)'
    BY <1>8, <2>2
  <2>6. QED
    BY <1>3, <2>4, <2>5
\* The loop claims or settles only outside the try block.
<1>24. ASSUME NEW d \in Dispatchers, stage[d] = "outside", stage' = stage,
              \A f \in Dispatchers \ {d} : disp'[f] = disp[f],
              UNCHANGED <<target, run, cell>>
       PROVE  Goal
  BY <1>17, <1>24
<1>25. ASSUME NEW d \in Dispatchers, Dispatch(d) PROVE Goal
  <2>1. disp[d].batch = {} /\ \A f \in Dispatchers \ {d} : disp'[f] = disp[f]
    BY <1>25, SameOutbox, P!ClaimEffect, OutboxParameters DEF Dispatch, Claims
  <2>2. stage[d] = "outside"
    BY <2>1, OneCurrent DEF HandlersRun
  <2>3. QED
    BY <1>24, <1>25, <2>1, <2>2 DEF Dispatch
<1>26. ASSUME NEW d \in Dispatchers, Settle(d) PROVE Goal
  <2> DEFINE Outside == disp[d].outcome # "running"
                        /\ \A f \in Dispatchers \ {d} : disp'[f] = disp[f]
  <2>1. Outside
    <3>1. ASSUME NEW e \in Events, O!Publish(d, e) \/ O!Retry(d, e)
          PROVE  Outside
      BY <3>1, SameOutbox, P!SettleEffect, OutboxParameters DEF Claims
    <3>2. ASSUME NEW e \in Events, O!LostClaim(d, e) PROVE Outside
      BY <3>2 DEF O!LostClaim, Claims, P!TypeOK
    <3>3. ~ O!StorageError(d)
      BY <1>1 DEF O!StorageError
    <3>4. QED
      BY <1>26, <3>1, <3>2, <3>3 DEF Settle
  <2>2. stage[d] = "outside"
    BY <2>1 DEF HandlersRun
  <2>3. QED
    BY <1>24, <1>26, <2>1, <2>2 DEF Settle
<1>27. \A d \in Dispatchers :
         /\ ~ Crash(d)
         /\ \A e \in Events : ~ SucceedThenFault(d, e) /\ ~ StorageFault(d, e)
  BY <1>1 DEF SucceedThenFault, StorageFault, Crash, O!Crash
<1>28. ASSUME NEW d \in Dispatchers, NEW e \in Events, Handler(d, e) PROVE Goal
  BY <1>18, <1>19, <1>20, <1>22, <1>23, <1>28 DEF Handler
<1>29. Goal
  BY <1>1, <1>11, <1>13, <1>14, <1>25, <1>26, <1>27, <1>28 DEF Next
<1>30. QED
  BY <1>29 DEF Goal

-----------------------------------------------------------------------------
(* The theorems.                                                           *)

\* Every step keeps the types, the counters of the batch within the column
\* among them.
LEMMA TypeStep ==
  ASSUME TypeOK, EventsSound, Claims', ItemsCounted', [Next]_vars
  PROVE  TypeOK'
<1> DEFINE BatchStatus == {"none"} \union {"queued", "running"} \union BatchOver
<1>1. O!TypeOK'
  BY DEF Claims, O!TypeOK, P!TypeOK, O!OutboxRow, P!OutboxRow, O!Dispatcher,
         P!Dispatcher, O!OutboxState, P!OutboxState, O!Outcome, P!Outcome
<1>2. /\ target \in [Events -> Cells \union {Nothing, Bulk}]
      /\ run \in [Events -> RunStatus]
      /\ cell \in [Cells -> CellStatus]
      /\ item \in [Cells -> [ status : {"none", "pending", "queued", "skipped"},
                              run    : {Nothing} \union Events ]]
      /\ stage \in [Dispatchers -> Stage]
  BY DEF TypeOK
<1>3. ASSUME NEW queue \in SUBSET Cells, QueueRuns(queue)
      PROVE  /\ target' \in [Events -> Cells \union {Nothing, Bulk}]
             /\ run' \in [Events -> RunStatus]
             /\ cell' \in [Cells -> CellStatus]
             /\ \A c \in queue : EventOf(queue, c) \in Events
  <2>1. /\ \A e \in Events \ NewRuns(queue) : target'[e] = target[e] /\ run'[e] = run[e]
        /\ \A e \in NewRuns(queue) : target'[e] \in queue /\ run'[e] = "queued"
        /\ \A c \in queue : EventOf(queue, c) \in NewRuns(queue)
        /\ NewRuns(queue) \subseteq Events
        /\ cell' = [c \in Cells |-> IF c \in queue THEN "queued" ELSE cell[c]]
    BY <1>3, QueueEffect DEF EventsSound, QueueRuns
  <2>2. /\ DOMAIN target' = Events /\ target' = [e \in DOMAIN target' |-> target'[e]]
        /\ DOMAIN run' = Events /\ run' = [e \in DOMAIN run' |-> run'[e]]
    BY <1>3 DEF QueueRuns
  <2>3. \A e \in Events : target'[e] \in Cells \union {Nothing, Bulk} /\ run'[e] \in RunStatus
    BY <1>2, <2>1 DEF RunStatus, Active
  <2>4. \A c \in Cells : (IF c \in queue THEN "queued" ELSE cell[c]) \in CellStatus
    BY <1>2 DEF CellStatus, Active
  <2>5. QED
    BY <2>1, <2>2, <2>3, <2>4
\* What is requested, the runs and what the cells show.
<1>4. /\ target' \in [Events -> Cells \union {Nothing, Bulk}]
      /\ run' \in [Events -> RunStatus]
      /\ cell' \in [Cells -> CellStatus]
  <2> DEFINE Goal == /\ target' \in [Events -> Cells \union {Nothing, Bulk}]
                     /\ run' \in [Events -> RunStatus]
                     /\ cell' \in [Cells -> CellStatus]
  <2> USE DEF RunStatus, CellStatus, Active, Terminal
  <2>1. ASSUME NEW c \in Cells, RequestRun(c) PROVE Goal
    BY <1>3, <2>1 DEF RequestRun
  <2>2. ASSUME CreateBatch PROVE Goal
    BY <1>2, <2>2 DEF CreateBatch
  <2>3. ASSUME CancelBatch PROVE Goal
    BY <1>2, <2>3 DEF CancelBatch
  <2>4. ASSUME NEW d \in Dispatchers, NEW e \in Events, ExpandChunk(d, e) PROVE Goal
    <3>1. \E queue \in SUBSET Cells : QueueRuns(queue)
      BY <2>4 DEF ExpandChunk, Chunk, Items
    <3>2. QED
      BY <1>3, <3>1
  <2>5. ASSUME NEW d \in Dispatchers, NEW e \in Events,
               StartRun(d, e) \/ Succeed(d, e) \/ SucceedThenFault(d, e)
        PROVE  Goal
    BY <1>2, <2>5 DEF StartRun, Succeed, SucceedThenFault
  <2>6. ASSUME NEW d \in Dispatchers, NEW e \in Events, Fail(d, e) PROVE Goal
    <3>1. PICK status \in {"queued", "failed"} :
            /\ run' = FailedRun(e, status)
            /\ cell' = [cell EXCEPT ![target[e]] = status]
            /\ target' = target
      BY <2>6 DEF Fail
    <3>2. QED
      BY <1>2, <3>1 DEF FailedRun
  <2>7. ASSUME UNCHANGED <<target, run, cell>> PROVE Goal
    BY <1>2, <2>7
  <2>8. ASSUME NEW d \in Dispatchers, NEW e \in Events, Handler(d, e) PROVE Goal
    BY <2>4, <2>5, <2>6, <2>7, <2>8
       DEF Handler, ExpandFinished, ExpandWithoutCreator, SkipRun,
           SucceedConflict, ProviderThrows
  <2>9. ASSUME NEW d \in Dispatchers, Dispatch(d) \/ Settle(d) \/ Crash(d) PROVE Goal
    BY <2>7, <2>9 DEF Dispatch, Settle, Crash
  <2>10. ASSUME NEW d \in Dispatchers, NEW e \in Events,
                SucceedThenFault(d, e) \/ StorageFault(d, e)
         PROVE  Goal
    BY <2>5, <2>7, <2>10 DEF StorageFault
  <2>11. CASE CreatorLeaves \/ Tick \/ UNCHANGED vars
    BY <2>7, <2>11 DEF CreatorLeaves, Tick, vars
  <2>12. QED
    BY <2>1, <2>2, <2>3, <2>8, <2>9, <2>10, <2>11 DEF Next
\* The items.
<1>5. item' \in [Cells -> [ status : {"none", "pending", "queued", "skipped"},
                            run    : {Nothing} \union Events ]]
  <2>1. CASE CreateBatch
    <3>1. ASSUME NEW c \in Cells, NEW status \in {"none", "pending"}
          PROVE  [item[c] EXCEPT !.status = status] \in
                   [ status : {"none", "pending", "queued", "skipped"},
                     run    : {Nothing} \union Events ]
      BY <1>2
    <3>2. PICK S \in SUBSET Cells :
            item' = [c \in Cells |->
              [item[c] EXCEPT !.status = IF c \in S THEN "pending" ELSE "none"]]
      BY <2>1 DEF CreateBatch
    <3>3. QED
      BY <3>1, <3>2
  <2>2. CASE CancelBatch
    BY <1>2, <2>2 DEF CancelBatch
  <2>3. ASSUME NEW d \in Dispatchers, NEW e \in Events, ExpandChunk(d, e)
        PROVE  item' \in [Cells -> [ status : {"none", "pending", "queued", "skipped"},
                                   run    : {Nothing} \union Events ]]
    <3>1. PICK queue \in SUBSET Cells :
            /\ QueueRuns(queue)
            /\ item' = [c \in Cells |->
                 IF c \in queue
                   THEN [status |-> "queued", run |-> EventOf(queue, c)]
                 ELSE IF c \in Chunk THEN [item[c] EXCEPT !.status = "skipped"]
                 ELSE item[c]]
      BY <2>3 DEF ExpandChunk, Chunk, Items
    <3>2. QED
      BY <1>2, <1>3, <3>1
  <2>4. CASE item' = item
    BY <1>2, <2>4
  <2>5. QED
    BY <2>1, <2>2, <2>3, <2>4
       DEF Next, RequestRun, CreatorLeaves, Dispatch, Handler, ExpandFinished,
           ExpandWithoutCreator, StartRun, SkipRun, Succeed, SucceedConflict,
           ProviderThrows, Fail, SucceedThenFault, StorageFault, Settle, Crash,
           Tick, vars, bulkVars
\* The batch, whose counters its items bound.
<1>6. batch = [status |-> batch.status, creator |-> batch.creator,
               selected |-> batch.selected, queued |-> batch.queued,
               skipped |-> batch.skipped]
      /\ batch.status \in BatchStatus /\ batch.creator \in BOOLEAN
  BY DEF TypeOK
<1> HIDE DEF BatchStatus
<1>7. /\ batch' = [status |-> batch'.status, creator |-> batch'.creator,
                   selected |-> batch'.selected, queued |-> batch'.queued,
                   skipped |-> batch'.skipped]
      /\ batch'.status \in BatchStatus /\ batch'.creator \in BOOLEAN
  <2> DEFINE Row(b) == /\ b = [status |-> b.status, creator |-> b.creator,
                               selected |-> b.selected, queued |-> b.queued,
                               skipped |-> b.skipped]
                       /\ b.status \in BatchStatus /\ b.creator \in BOOLEAN
  <2>1. ASSUME NEW status \in BatchStatus, NEW creator \in BOOLEAN,
               NEW selected, NEW queued, NEW skipped
        PROVE  Row([status |-> status, creator |-> creator, selected |-> selected,
                    queued |-> queued, skipped |-> skipped])
    OBVIOUS
  <2>2. Row(batch)
    BY <1>6
  <2>3. ASSUME CreateBatch \/ CancelBatch \/ CreatorLeaves PROVE Row(batch')
    <3>1. {"queued", "cancelled"} \subseteq BatchStatus
      BY DEF BatchStatus, BatchOver
    <3>2. CASE CreateBatch
      <4>1. PICK n : batch' = [batch EXCEPT !.status = "queued", !.selected = n]
        BY <3>2, Zenon DEF CreateBatch
      <4>2. QED
        BY <1>6, <3>1, <4>1
    <3>3. CASE CancelBatch
      <4>1. PICK n : batch' = [batch EXCEPT !.status = "cancelled", !.skipped = n]
        BY <3>3 DEF CancelBatch
      <4>2. QED
        BY <1>6, <3>1, <4>1
    <3>4. CASE CreatorLeaves
      BY <1>6, <3>4 DEF CreatorLeaves
    <3>5. QED
      BY <2>3, <3>2, <3>3, <3>4
  <2>4. ASSUME NEW d \in Dispatchers, NEW e \in Events,
               ExpandChunk(d, e) \/ ExpandWithoutCreator(d, e)
        PROVE  Row(batch')
    <3>1. {"completed", "failed", "running"} \subseteq BatchStatus
      BY DEF BatchStatus, BatchOver
    <3>2. CASE ExpandChunk(d, e)
      <4>1. PICK status \in {"completed", "failed", "running"} : \E n, m :
              batch' = [batch EXCEPT !.status = status, !.queued = n, !.skipped = m]
        BY <3>2 DEF ExpandChunk
      <4>2. PICK n, m :
              batch' = [batch EXCEPT !.status = status, !.queued = n, !.skipped = m]
        BY <4>1
      <4>3. QED
        BY <1>6, <3>1, <4>1, <4>2
    <3>3. CASE ExpandWithoutCreator(d, e)
      BY <1>6, <3>1, <3>3 DEF ExpandWithoutCreator
    <3>4. QED
      BY <2>4, <3>2, <3>3
  <2>5. ASSUME batch' = batch PROVE Row(batch')
    BY <1>6, <2>5
  <2>6. Row(batch')
    BY <2>3, <2>4, <2>5
       DEF Next, RequestRun, Dispatch, Handler, ExpandFinished,
           StartRun, SkipRun, Succeed, SucceedConflict,
           ProviderThrows, Fail, SucceedThenFault, StorageFault, Settle, Crash,
           Tick, vars, bulkVars
  <2>7. QED
    BY <2>6
<1>8. /\ batch'.selected \in 0 .. Cardinality(Cells)
      /\ batch'.queued \in 0 .. Cardinality(Cells)
      /\ batch'.skipped \in 0 .. Cardinality(Cells)
      /\ batch'.queued + batch'.skipped <= batch'.selected
  <2> DEFINE R(status) == {c \in Cells : item'[c].status = status}
             S == Cells \ R("none")
  <2>1. \A c \in Cells : item'[c].status \in {"none", "pending", "queued", "skipped"}
    BY <1>5
  <2>2. Cardinality(S) = Cardinality(R("pending")) + Cardinality(R("queued"))
                           + Cardinality(R("skipped"))
    BY <2>1, RowsCounted
  <2>3. \A T \in SUBSET Cells : Cardinality(T) \in Nat /\ Cardinality(T) <= Cardinality(Cells)
    BY CellRunsAssumption, FS_Subset, FS_CardinalityType
  <2>4. /\ S \in SUBSET Cells /\ R("pending") \in SUBSET Cells
        /\ R("queued") \in SUBSET Cells /\ R("skipped") \in SUBSET Cells
        /\ Cells \in SUBSET Cells
    OBVIOUS
  <2>5. /\ batch'.selected = Cardinality(S)
        /\ batch'.queued = Cardinality(R("queued"))
        /\ batch'.skipped = Cardinality(R("skipped"))
    BY DEF ItemsCounted, Items
  <2> HIDE DEF R, S
  <2>6. /\ Cardinality(S) \in Nat /\ Cardinality(S) <= Cardinality(Cells)
        /\ Cardinality(Cells) \in Nat /\ Cardinality(R("pending")) \in Nat
        /\ Cardinality(R("queued")) \in Nat /\ Cardinality(R("skipped")) \in Nat
        /\ Cardinality(R("queued")) <= Cardinality(Cells)
        /\ Cardinality(R("skipped")) <= Cardinality(Cells)
    BY <2>3, <2>4
  <2>7. QED
    BY <2>2, <2>5, <2>6
<1>9. batch' \in [ status  : {"none"} \union {"queued", "running"} \union BatchOver,
                   creator : BOOLEAN,
                   selected : 0 .. Cardinality(Cells),
                   queued  : 0 .. Cardinality(Cells),
                   skipped : 0 .. Cardinality(Cells) ]
  BY <1>7, <1>8 DEF BatchStatus
\* The stages.
<1>10. stage' \in [Dispatchers -> Stage]
  <2>1. ASSUME NEW d \in Dispatchers, NEW place \in Stage,
               stage' = [stage EXCEPT ![d] = place]
        PROVE  stage' \in [Dispatchers -> Stage]
    BY <1>2, <2>1
  <2>2. ASSUME NEW d \in Dispatchers, NEW e \in Events,
               Handler(d, e) \/ SucceedThenFault(d, e) \/ StorageFault(d, e) \/ Crash(d)
        PROVE  \/ stage' = stage
               \/ \E place \in Stage : stage' = [stage EXCEPT ![d] = place]
    BY <2>2 DEF Handler, ExpandFinished, ExpandWithoutCreator, ExpandChunk,
       StartRun, SkipRun, Succeed, SucceedConflict, ProviderThrows, Fail,
       SucceedThenFault, StorageFault, Crash, Leaves, Stage
  <2>3. ASSUME NEW d \in Dispatchers, Crash(d)
        PROVE  stage' = [stage EXCEPT ![d] = "outside"] /\ "outside" \in Stage
    BY <2>3 DEF Crash, Stage
  <2>4. ASSUME NEW d \in Dispatchers, Dispatch(d) \/ Settle(d) PROVE stage' = stage
    BY <2>4 DEF Dispatch, Settle
  <2>5. QED
    BY <1>2, <2>1, <2>2, <2>3, <2>4
       DEF Next, RequestRun, CreateBatch, CancelBatch, CreatorLeaves, Tick, vars
<1>11. QED
  BY <1>1, <1>4, <1>5, <1>8, <1>9, <1>10 DEF TypeOK

\* The initial state satisfies the inductive invariant.
LEMMA InitSound == Init => IInv
<1> SUFFICES ASSUME Init PROVE IInv
  OBVIOUS
<1> USE DEF Init
<1>1. Claims
  <2>1. P!Init
    BY SameOutbox
  <2>2. P!TypeOK /\ P!OwnedAttemptIsLatest /\ P!OnlyPendingClaimed /\ P!HeldWithinLease
    BY <2>1, OutboxParameters
       DEF P!OutboxAssumption, P!Init, P!TypeOK, P!OutboxRow, P!OutboxState,
           P!Dispatcher, P!Outcome, P!Idle, P!Owns, P!OwnedAttemptIsLatest,
           P!OnlyPendingClaimed, P!HeldWithinLease
  <2>3. QED
    BY <2>2 DEF Claims
<1>2. Created = {} /\ Items("none") = Cells /\ Items("pending") = {}
      /\ Items("queued") = {} /\ Items("skipped") = {}
  BY DEF Created, Items
<1>3. Cardinality({}) = 0 /\ Cardinality(Cells) \in Nat
  BY CellRunsAssumption, FS_EmptySet, FS_CardinalityType
<1>4. TypeOK
  <2>1. O!TypeOK
    BY <1>1, SameOutbox DEF Claims
  <2>2. QED
    BY <1>3, <2>1 DEF TypeOK, RunStatus, CellStatus, BatchOver, Stage
<1>5. EventsSound
  <2>1. EventsInOrder
    BY <1>2, <1>3 DEF EventsInOrder
  <2>2. EventsHaveRows
    BY DEF EventsHaveRows, O!Init
  <2>3. RunsHaveCells
    BY CellRunsAssumption DEF RunsHaveCells, Nothing
  <2>4. HeldEventsExist
    BY DEF HeldEventsExist, O!Init, O!Idle
  <2>5. QED
    BY <2>1, <2>2, <2>3, <2>4 DEF EventsSound
<1>6. BatchSound
  <2>1. Cells \ Cells = {}
    OBVIOUS
  <2>2. ItemsCounted
    BY <1>2, <1>3, <2>1 DEF ItemsCounted
  <2>3. QED
    BY <1>2, <2>2 DEF BatchSound, QueuedItemsHaveRuns, CancelledBatchIsQuiet
<1>7. HandlersRun /\ ActiveRunIsDriven /\ DoneRunsAreOver
      /\ WorkersApart /\ CellShowsUncancelledRun
  BY DEF HandlersRun, ActiveRunIsDriven, DoneRunsAreOver, WorkersApart,
     CellShowsUncancelledRun, CellShowsItsRun, O!Init, O!Idle, O!Current, Active
<1>8. QED
  BY <1>1, <1>4, <1>5, <1>6, <1>7 DEF IInv

\* The inductive invariant of cell runs, the batch and the dispatch loop that
\* runs their handlers.
THEOREM CellRunsInvariance == Spec => []IInv
<1>1. IInv /\ [Next]_vars => IInv'
  <2> SUFFICES ASSUME IInv, [Next]_vars PROVE IInv'
    OBVIOUS
  <2> USE DEF IInv
  <2>1. Claims'
    BY ClaimsStep DEF EventsSound
  <2>2. EventsSound'
    BY EventsStep
  <2>3. HandlersRun'
    BY HandlersStep
  <2>4. BatchSound'
    BY BatchStep
  <2>5. ActiveRunIsDriven' /\ DoneRunsAreOver'
    BY DrivenStep
  <2>6. WorkersApart' /\ CellShowsUncancelledRun'
    BY ShownStep
  <2>7. TypeOK'
    BY <2>1, <2>4, TypeStep DEF BatchSound
  <2>8. QED
    BY <2>1, <2>2, <2>3, <2>4, <2>5, <2>6, <2>7
<1>2. QED
  BY <1>1, InitSound, PTL DEF Spec

\* The rows of cell_runs, cells, bulk_run_batches and bulk_run_items and the
\* position of each handler keep their types; the counters of the batch stay
\* within what was selected.
THEOREM CellRunsTypeCorrect == Spec => []TypeOK
<1>1. IInv => TypeOK
  BY DEF IInv
<1>2. QED
  BY <1>1, CellRunsInvariance, PTL

\* The counters of the batch are those of its items (expansion, cancellation
\* and retried chunks of bulk-runs.ts), and all are accounted for when it is
\* completed or cancelled.
THEOREM BatchAccounted == Spec => []BatchAccounts
<1>1. IInv => BatchAccounts
  <2> SUFFICES ASSUME IInv PROVE BatchAccounts
    OBVIOUS
  <2>1. TypeOK /\ ItemsCounted
    BY DEF IInv, BatchSound
  <2>2. ASSUME batch.status \in {"completed", "cancelled"}
        PROVE  batch.queued + batch.skipped = batch.selected
    <3>1. Cardinality(Items("pending")) = 0
      BY <2>1, <2>2, FS_EmptySet DEF ItemsCounted
    <3>2. Cardinality(Items("queued")) \in Nat /\ Cardinality(Items("skipped")) \in Nat
      BY <2>1, Counting DEF Items
    <3>3. QED
      BY <2>1, <3>1, <3>2, Counting DEF ItemsCounted
  <2>3. QED
    BY <2>1, <2>2 DEF BatchAccounts, ItemsCounted
<1>2. QED
  BY <1>1, CellRunsInvariance, PTL

\* Cancelled work is not resurrected: nothing of a cancelled batch is left to
\* run, although its expansion and its workers race the cancellation.
THEOREM CancellationIsQuiet == Spec => []CancelledBatchIsQuiet
<1>1. IInv => CancelledBatchIsQuiet
  BY DEF IInv, BatchSound
<1>2. QED
  BY <1>1, CellRunsInvariance, PTL

\* No active run is forgotten by the handler and the dispatch loop between
\* them: their retry budgets end together.
THEOREM ActiveRunsDriven == Spec => []ActiveRunIsDriven
<1>1. IInv => ActiveRunIsDriven
  BY DEF IInv
<1>2. QED
  BY <1>1, CellRunsInvariance, PTL

\* A cell shows work in progress exactly while one run of it is active,
\* whatever claims expire under a worker (prepareTargetCell, and the status
\* writes of markSqliteCellRunRunning and setSqliteCellRunFailure).
THEOREM CellsShowTheirRuns == Spec => []CellShowsUncancelledRun
<1>1. IInv => CellShowsUncancelledRun
  BY DEF IInv
<1>2. QED
  BY <1>1, CellRunsInvariance, PTL

\* The outbox keeps its promises to the handlers of cell runs and bulk runs:
\* whoever owns the claim of an event works on its latest attempt, and until a
\* lease runs out under a worker, an event has one worker (outbox.ts under
\* execute-cell-run.ts and expand-bulk-run.ts).
THEOREM CellRunsHaveOneWorker ==
  Spec => [](O!OwnedAttemptIsLatest /\ O!ExclusiveExecution)
<1>1. IInv => O!OwnedAttemptIsLatest /\ O!ExclusiveExecution
  <2> SUFFICES ASSUME IInv PROVE O!OwnedAttemptIsLatest /\ O!ExclusiveExecution
    OBVIOUS
  <2>1. P!OwnedAttemptIsLatest /\ P!HeldWithinLease
    BY DEF IInv, Claims
  <2>2. P!ExclusiveExecution
    BY <2>1, OutboxParameters, P!HeldByOne
  <2>3. QED
    BY <2>1, <2>2
    DEF P!OwnedAttemptIsLatest, O!OwnedAttemptIsLatest, P!Owns, O!Owns,
        P!ExclusiveExecution, O!ExclusiveExecution
<1>2. QED
  BY <1>1, CellRunsInvariance, PTL

=============================================================================
