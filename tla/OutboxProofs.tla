---------------------------- MODULE OutboxProofs -----------------------------
(***************************************************************************)
(* Proofs about the outbox and its dispatch loop, for any number of        *)
(* events, dispatchers, retries, crashes and storage errors, and whatever  *)
(* the batch limit and the lease: types, the fence of the claim, finality  *)
(* of publication, and exclusive execution within the lease.               *)
(***************************************************************************)
EXTENDS Outbox, TLAPS

\* A row that is not pending is claimed by nobody and waits for nothing, so
\* that time leaves it alone.
OnlyPendingClaimed ==
  \A e \in Events :
    outbox[e].state # "pending" =>
      outbox[e].claim = NoClaim /\ outbox[e].wait = 0

\* Until a claim has expired under a live dispatcher, every event of a batch
\* is claimed by the dispatcher that holds it, and its claim is not stale.
HeldWithinLease ==
  faults.late = 0 =>
    \A d \in Dispatchers : \A e \in disp[d].batch :
      Owns(d, e) /\ outbox[e].age <= Lease

\* The inductive invariant.
IInv ==
  /\ TypeOK
  /\ OwnedAttemptIsLatest
  /\ OnlyPendingClaimed
  /\ HeldWithinLease

-----------------------------------------------------------------------------

\* What settling and ticking make of a row.
LEMMA RowUpdates ==
  ASSUME NEW row \in OutboxRow, NEW a \in 0 .. Lease + 1, NEW w \in 0 .. MaxWait
  PROVE  /\ [row EXCEPT !.age = a, !.wait = w] \in OutboxRow
         /\ [Released(row) EXCEPT !.wait = w] \in OutboxRow
         /\ [Released(row) EXCEPT !.wait = w].claim = NoClaim
         /\ [Released(row) EXCEPT !.wait = w].state = row.state
         /\ [Released(row) EXCEPT !.state = "published", !.wait = 0] \in OutboxRow
<1>1. NoClaim \in Dispatchers \union {NoClaim} /\ 0 \in 0 .. Lease + 1
      /\ 0 \in 0 .. MaxWait /\ "published" \in OutboxState
  BY OutboxAssumption DEF OutboxState
<1>2. [row EXCEPT !.age = a, !.wait = w] \in OutboxRow
  BY DEF OutboxRow
<1>3. /\ Released(row) \in OutboxRow /\ Released(row).claim = NoClaim
      /\ Released(row).state = row.state
  BY <1>1 DEF OutboxRow, Released
<1>4. ASSUME NEW r \in OutboxRow
      PROVE  /\ [r EXCEPT !.wait = w] \in OutboxRow
             /\ [r EXCEPT !.wait = w].claim = r.claim
             /\ [r EXCEPT !.wait = w].state = r.state
             /\ [r EXCEPT !.state = "published", !.wait = 0] \in OutboxRow
  BY <1>1 DEF OutboxRow
<1>5. QED
  BY <1>2, <1>3, <1>4

\* The dispatcher that moves on drops the event and keeps its attempts.
LEMMA AdvanceEffect ==
  ASSUME TypeOK, NEW d \in Dispatchers, NEW e \in Events, Advance(d, e)
  PROVE  /\ disp' \in [Dispatchers -> Dispatcher]
         /\ disp'[d].batch = disp[d].batch \ {e}
         /\ disp'[d].attempt = disp[d].attempt
         /\ \A f \in Dispatchers \ {d} : disp'[f] = disp[f]
<1>1. disp \in [Dispatchers -> Dispatcher] /\ disp[d] \in Dispatcher
  BY DEF TypeOK
<1> DEFINE row == [disp[d] EXCEPT !.batch = @ \ {e}, !.outcome = "running"]
<1>2. disp' = [disp EXCEPT ![d] = row]
  BY <1>1 DEF Advance
<1>3. /\ row \in Dispatcher
      /\ row.batch = disp[d].batch \ {e} /\ row.attempt = disp[d].attempt
  BY <1>1 DEF Dispatcher, Outcome
<1> HIDE DEF row
<1>4. QED
  BY <1>1, <1>2, <1>3

\* Every step keeps the types of rows, batches and counters.
LEMMA TypePreserved ==
  ASSUME TypeOK, [Next]_vars PROVE TypeOK'
<1> USE OutboxAssumption
<1> USE DEF TypeOK, OutboxRow, OutboxState, Dispatcher, Outcome
<1>1. ASSUME NEW e \in Events, Enqueue(e) PROVE TypeOK'
  <2>1. [outbox[e] EXCEPT !.state = "pending"] \in OutboxRow
    OBVIOUS
  <2>2. outbox' \in [Events -> OutboxRow]
    BY <1>1, <2>1 DEF Enqueue
  <2>3. QED
    BY <1>1, <2>2 DEF Enqueue
<1>2. ASSUME NEW d \in Dispatchers, Claim(d) PROVE TypeOK'
  <2>1. Candidates \subseteq Events
    BY DEF Candidates
  <2>2. outbox' \in [Events -> OutboxRow]
    <3>1. \A e \in Events :
            [outbox[e] EXCEPT !.claim = d, !.age = 0, !.wait = 0,
                              !.attempts = @ + 1] \in OutboxRow
      <4> TAKE e \in Events
      <4>1. outbox[e] \in OutboxRow /\ outbox[e].attempts + 1 \in Nat
        OBVIOUS
      <4>2. 0 \in 0 .. Lease + 1 /\ 0 \in 0 .. MaxWait
        OBVIOUS
      <4>3. QED
        BY <4>1, <4>2
    <3>2. QED
      BY <1>2, <3>1 DEF Claim
  <2>3. disp' \in [Dispatchers -> Dispatcher]
    <3>1. [e \in Events |-> IF e \in Candidates THEN outbox[e].attempts + 1
                                                ELSE 0] \in [Events -> Nat]
      OBVIOUS
    <3>2. QED
      BY <1>2, <2>1, <3>1 DEF Claim
  <2>4. QED
    BY <1>2, <2>2, <2>3 DEF Claim
<1>3. ASSUME NEW d \in Dispatchers, NEW result \in Outcome \ {"running"},
             HandlerReturns(d, result)
      PROVE  TypeOK'
  BY <1>3 DEF HandlerReturns
<1>4. ASSUME NEW d \in Dispatchers, NEW e \in Events, Publish(d, e)
      PROVE  TypeOK'
  <2>1. [Released(outbox[e]) EXCEPT !.state = "published", !.wait = 0]
          \in OutboxRow
    <3>1. outbox[e] \in OutboxRow /\ 0 \in 0 .. Lease + 1 /\ 0 \in 0 .. MaxWait
      OBVIOUS
    <3>2. QED
      BY <3>1, RowUpdates, Zenon
  <2>2. outbox' \in [Events -> OutboxRow]
    BY <1>4, <2>1 DEF Publish
  <2>3. disp' \in [Dispatchers -> Dispatcher]
    BY <1>4, AdvanceEffect DEF Publish
  <2>4. QED
    BY <1>4, <2>2, <2>3 DEF Publish
<1>5. ASSUME NEW d \in Dispatchers, NEW e \in Events, Retry(d, e)
      PROVE  TypeOK'
  <2>1. RetryDelay(disp[d].attempt[e]) \in 0 .. MaxWait
    BY DEF RetryDelay
  <2>2. [Released(outbox[e]) EXCEPT !.wait = RetryDelay(disp[d].attempt[e])]
          \in OutboxRow
    <3>1. outbox[e] \in OutboxRow /\ 0 \in 0 .. Lease + 1
      OBVIOUS
    <3>2. \A w \in 0 .. MaxWait : [Released(outbox[e]) EXCEPT !.wait = w] \in OutboxRow
      BY <3>1, RowUpdates
    <3>3. QED
      BY <2>1, <3>2, Zenon
  <2>3. outbox' \in [Events -> OutboxRow]
    BY <1>5, <2>2 DEF Retry
  <2>4. disp' \in [Dispatchers -> Dispatcher]
    BY <1>5, AdvanceEffect DEF Retry
  <2>5. QED
    BY <1>5, <2>3, <2>4 DEF Retry
<1>6. ASSUME NEW d \in Dispatchers, NEW e \in Events, LostClaim(d, e)
      PROVE  TypeOK'
  BY <1>6 DEF LostClaim, Idle
<1>7. ASSUME NEW d \in Dispatchers, StorageError(d) PROVE TypeOK'
  BY <1>7 DEF StorageError, Fault, Idle
<1>8. ASSUME NEW d \in Dispatchers, Crash(d) PROVE TypeOK'
  BY <1>8 DEF Crash, Fault, Idle
<1>9. ASSUME Tick PROVE TypeOK'
  <2>0. ASSUME NEW e \in Events
        PROVE  /\ outbox[e].age \in 0 .. Lease + 1
               /\ outbox[e].wait \in 0 .. MaxWait
    <3>1. outbox[e] \in OutboxRow
      OBVIOUS
    <3>2. QED
      BY <3>1
  <2>1. \A e \in Events :
          (IF outbox[e].claim = NoClaim \/ outbox[e].age > Lease
             THEN outbox[e].age ELSE outbox[e].age + 1) \in 0 .. Lease + 1
    <3>1. ASSUME NEW a \in 0 .. Lease + 1, ~(a > Lease)
          PROVE  a + 1 \in 0 .. Lease + 1
      BY <3>1
    <3>2. QED
      BY <2>0, <3>1
  <2>2. \A e \in Events :
          (IF outbox[e].wait = 0 THEN 0 ELSE outbox[e].wait - 1)
            \in 0 .. MaxWait
    <3>1. ASSUME NEW w \in 0 .. MaxWait, w # 0
          PROVE  w - 1 \in 0 .. MaxWait
      BY <3>1
    <3>2. 0 \in 0 .. MaxWait
      OBVIOUS
    <3>3. QED
      BY <2>0, <3>1, <3>2
  <2>3. outbox' \in [Events -> OutboxRow]
    <3>1. ASSUME NEW e \in Events, NEW a \in 0 .. Lease + 1,
                 NEW w \in 0 .. MaxWait
          PROVE  [outbox[e] EXCEPT !.age = a, !.wait = w] \in OutboxRow
      <4>1. outbox[e] \in OutboxRow
        OBVIOUS
      <4>2. QED
        BY <4>1, RowUpdates, Zenon
    <3>2. \A e \in Events :
            [outbox[e] EXCEPT
               !.age = IF outbox[e].claim = NoClaim \/ outbox[e].age > Lease
                       THEN outbox[e].age ELSE outbox[e].age + 1,
               !.wait = IF outbox[e].wait = 0
                        THEN 0 ELSE outbox[e].wait - 1] \in OutboxRow
      BY <2>1, <2>2, <3>1
    <3>3. QED
      BY <1>9, <3>2 DEF Tick
  <2>4. faults' \in [broken : 0 .. MaxFaults, late : 0 .. MaxLate]
    <3>1. faults.broken \in 0 .. MaxFaults /\ faults.late \in 0 .. MaxLate
      OBVIOUS
    <3>2. (IF Overdue THEN faults.late + 1 ELSE faults.late) \in 0 .. MaxLate
      <4>1. CASE Overdue
        <5>1. faults.late < MaxLate
          BY <1>9, <4>1 DEF Tick
        <5>2. faults.late + 1 \in 0 .. MaxLate
          BY <3>1, <5>1
        <5>3. QED
          BY <4>1, <5>2
      <4>2. CASE ~Overdue
        BY <3>1, <4>2
      <4>3. QED
        BY <4>1, <4>2
    <3>3. QED
      BY <1>9, <3>1, <3>2 DEF Tick
  <2>5. QED
    BY <1>9, <2>3, <2>4 DEF Tick
<1>10. CASE UNCHANGED vars
  BY <1>10 DEF vars
<1>11. QED
  BY <1>1, <1>2, <1>3, <1>4, <1>5, <1>6, <1>7, <1>8, <1>9, <1>10 DEF Next

\* Rows, batches and counters keep their types
\* (the columns of outbox_events and the locals of local-dispatcher.ts).
THEOREM OutboxTypeCorrect == Spec => []TypeOK
<1>1. Init => TypeOK
  BY OutboxAssumption
     DEF Init, TypeOK, OutboxRow, OutboxState, Dispatcher, Outcome, Idle
<1>2. TypeOK /\ [Next]_vars => TypeOK'
  BY TypePreserved
<1>3. QED
  BY <1>1, <1>2, PTL DEF Spec

-----------------------------------------------------------------------------

\* A tick keeps what is held within its lease unless a claim is overdue.
LEMMA TickWithinLease ==
  ASSUME TypeOK, HeldWithinLease, Tick
  PROVE  HeldWithinLease'
<1> USE OutboxAssumption
<1> SUFFICES ASSUME faults'.late = 0,
                    NEW d \in Dispatchers, NEW e \in disp'[d].batch
             PROVE  Owns(d, e)' /\ outbox'[e].age <= Lease
  BY DEF HeldWithinLease
<1>1. faults.late \in Nat /\ faults.late + 1 # 0
  BY DEF TypeOK
<1>2. ~Overdue /\ faults.late = 0
  <2>1. CASE Overdue
    BY <1>1, <2>1 DEF Tick, TypeOK
  <2>2. CASE ~Overdue
    BY <2>2 DEF Tick, TypeOK
  <2>3. QED
    BY <2>1, <2>2
<1>3. e \in disp[d].batch /\ e \in Events
  BY DEF Tick, TypeOK, Dispatcher
<1>4. Owns(d, e) /\ outbox[e].age <= Lease
  BY <1>2, <1>3 DEF HeldWithinLease
<1>5. outbox[e].age # Lease
  BY <1>2, <1>3, <1>4 DEF Overdue
<1>6. outbox[e].age \in 0 .. Lease + 1
  BY <1>3 DEF TypeOK, OutboxRow
<1>7. outbox'[e].state = outbox[e].state /\ outbox'[e].claim = outbox[e].claim
  BY <1>3 DEF Tick, TypeOK, OutboxRow
<1>8. outbox'[e].age = outbox[e].age + 1
  <2>1. outbox[e].claim # NoClaim /\ ~(outbox[e].age > Lease)
    BY <1>4, <1>6 DEF Owns
  <2>2. outbox[e] \in OutboxRow
    BY <1>3 DEF TypeOK
  <2>3. outbox'[e].age = IF outbox[e].claim = NoClaim \/ outbox[e].age > Lease
                           THEN outbox[e].age ELSE outbox[e].age + 1
    BY <1>3, <2>2 DEF Tick, OutboxRow
  <2>4. QED
    BY <2>1, <2>3
<1>9. QED
  BY <1>4, <1>5, <1>6, <1>7, <1>8 DEF Owns

\* What any handler may do to the outbox in a step: enqueue events, and end
\* itself or have its dispatcher forget the batch.
HandlerStep ==
  /\ \A e \in Events :
       \/ outbox'[e] = outbox[e]
       \/ /\ outbox[e].state = "absent"
          /\ outbox'[e] = [outbox[e] EXCEPT !.state = "pending"]
  /\ \A d \in Dispatchers :
       \/ disp'[d] = Idle
       \/ /\ disp'[d].batch = disp[d].batch
          /\ disp'[d].attempt = disp[d].attempt
  /\ faults'.late = faults.late

\* Such steps keep the three invariants about claims.
LEMMA HandlersKeepClaims ==
  ASSUME TypeOK, OwnedAttemptIsLatest, OnlyPendingClaimed, HeldWithinLease,
         HandlerStep
  PROVE  /\ OwnedAttemptIsLatest'
         /\ OnlyPendingClaimed'
         /\ HeldWithinLease'
<1> USE OutboxAssumption
<1> USE DEF TypeOK, OutboxRow, Dispatcher, Owns
<1>1. \A e \in Events :
        \/ outbox'[e] = outbox[e]
        \/ /\ outbox[e].state = "absent" /\ outbox'[e].state = "pending"
           /\ outbox[e].claim = NoClaim /\ outbox'[e].claim = NoClaim
           /\ outbox'[e].wait = outbox[e].wait
  <2> TAKE e \in Events
  <2>1. outbox[e] \in OutboxRow
    OBVIOUS
  <2>2. CASE outbox'[e] = outbox[e]
    BY <2>2
  <2>3. CASE /\ outbox[e].state = "absent"
             /\ outbox'[e] = [outbox[e] EXCEPT !.state = "pending"]
    <3>1. outbox'[e] = [ state |-> "pending", claim |-> outbox[e].claim,
                         age |-> outbox[e].age, attempts |-> outbox[e].attempts,
                         wait |-> outbox[e].wait ]
      BY <2>1, <2>3
    <3>2. outbox[e].claim = NoClaim
      BY <2>3 DEF OnlyPendingClaimed
    <3>3. QED
      BY <2>3, <3>1, <3>2
  <2>4. QED
    BY <2>2, <2>3 DEF HandlerStep
<1>2. ASSUME NEW d \in Dispatchers
      PROVE  \A e \in disp'[d].batch :
               e \in disp[d].batch /\ disp'[d].attempt = disp[d].attempt
  <2>1. CASE disp'[d] = Idle
    BY <2>1 DEF Idle
  <2>2. CASE disp'[d].batch = disp[d].batch /\ disp'[d].attempt = disp[d].attempt
    BY <2>2
  <2>3. QED
    BY <2>1, <2>2 DEF HandlerStep
<1>3. OwnedAttemptIsLatest'
  BY <1>1, <1>2 DEF OwnedAttemptIsLatest
<1>4. OnlyPendingClaimed'
  BY <1>1 DEF OnlyPendingClaimed
<1>5. HeldWithinLease'
  <2> SUFFICES ASSUME faults.late = 0,
                      NEW d \in Dispatchers, NEW e \in disp'[d].batch
               PROVE  Owns(d, e)' /\ outbox'[e].age <= Lease
    BY DEF HeldWithinLease, HandlerStep
  <2>1. e \in disp[d].batch /\ e \in Events
    BY <1>2
  <2>2. Owns(d, e) /\ outbox[e].age <= Lease
    BY <2>1 DEF HeldWithinLease
  <2>3. outbox'[e] = outbox[e]
    BY <1>1, <2>1, <2>2
  <2>4. QED
    BY <2>2, <2>3
<1>6. QED
  BY <1>3, <1>4, <1>5

\* Who holds what: every step keeps the three invariants about claims.
LEMMA ClaimsPreserved ==
  ASSUME TypeOK, TypeOK', OwnedAttemptIsLatest, OnlyPendingClaimed,
         HeldWithinLease, [Next]_vars
  PROVE  /\ OwnedAttemptIsLatest'
         /\ OnlyPendingClaimed'
         /\ HeldWithinLease'
<1> USE OutboxAssumption
<1> USE DEF TypeOK, OutboxRow, Dispatcher, Owns
<1> DEFINE Goal == /\ OwnedAttemptIsLatest'
                   /\ OnlyPendingClaimed'
                   /\ HeldWithinLease'
<1>1. ASSUME HandlerStep PROVE Goal
  BY <1>1, HandlersKeepClaims
<1>2. ASSUME NEW d \in Dispatchers, Claim(d) PROVE Goal
  <2>1. Candidates \subseteq Events /\ \A e \in Candidates : Eligible(e)
    BY DEF Candidates
  <2>2. \A e \in Candidates :
          /\ outbox'[e].state = "pending" /\ outbox'[e].claim = d
          /\ outbox'[e].age = 0 /\ outbox'[e].attempts = outbox[e].attempts + 1
    <3> TAKE e \in Candidates
    <3>1. outbox[e] \in OutboxRow /\ outbox[e].state = "pending"
      BY <2>1 DEF Eligible
    <3>2. outbox'[e] = [outbox[e] EXCEPT !.claim = d, !.age = 0, !.wait = 0,
                                         !.attempts = @ + 1]
      BY <1>2, <2>1 DEF Claim
    <3>3. QED
      BY <3>1, <3>2
  <2>3. \A e \in Events \ Candidates : outbox'[e] = outbox[e]
    BY <1>2 DEF Claim
  <2>4. /\ disp'[d].batch = Candidates
        /\ \A e \in Candidates : disp'[d].attempt[e] = outbox[e].attempts + 1
        /\ \A f \in Dispatchers \ {d} : disp'[f] = disp[f]
    BY <1>2, <2>1 DEF Claim
  <2>5. OwnedAttemptIsLatest'
    BY <2>1, <2>2, <2>3, <2>4 DEF OwnedAttemptIsLatest
  <2>6. OnlyPendingClaimed'
    BY <2>1, <2>2, <2>3 DEF OnlyPendingClaimed
  <2>7. HeldWithinLease'
    <3> SUFFICES ASSUME faults.late = 0,
                        NEW f \in Dispatchers, NEW e \in disp'[f].batch
                 PROVE  Owns(f, e)' /\ outbox'[e].age <= Lease
      BY <1>2 DEF HeldWithinLease, Claim
    <3>1. CASE f = d
      BY <2>1, <2>2, <2>4, <3>1
    <3>2. CASE f # d
      <4>1. e \in disp[f].batch /\ e \in Events
        BY <2>4, <3>2
      <4>2. Owns(f, e) /\ outbox[e].age <= Lease
        BY <4>1 DEF HeldWithinLease
      <4>3. outbox[e].age \in 0 .. Lease + 1 /\ f # NoClaim
        BY <4>1
      <4>4. e \notin Candidates
        BY <2>1, <4>2, <4>3 DEF Eligible
      <4>5. QED
        BY <2>3, <4>1, <4>2, <4>4
    <3>3. QED
      BY <3>1, <3>2
  <2>8. QED
    BY <2>5, <2>6, <2>7
<1>3. CASE \/ \E e \in Events : Enqueue(e)
           \/ \E d \in Dispatchers, result \in Outcome \ {"running"} :
                HandlerReturns(d, result)
           \/ \E d \in Dispatchers, e \in Events : LostClaim(d, e)
           \/ \E d \in Dispatchers : StorageError(d) \/ Crash(d)
  <2>1. CASE \E e \in Events : Enqueue(e)
    BY <1>1, <2>1 DEF Enqueue, HandlerStep
  <2>2. CASE \E d \in Dispatchers, result \in Outcome \ {"running"} :
               HandlerReturns(d, result)
    BY <1>1, <2>2 DEF HandlerReturns, HandlerStep
  <2>3. CASE \E d \in Dispatchers, e \in Events : LostClaim(d, e)
    BY <1>1, <2>3 DEF LostClaim, HandlerStep
  <2>4. CASE \E d \in Dispatchers : StorageError(d) \/ Crash(d)
    BY <1>1, <2>4 DEF StorageError, Crash, Fault, HandlerStep
  <2>5. QED
    BY <1>3, <2>1, <2>2, <2>3, <2>4
<1>4. ASSUME NEW d \in Dispatchers, NEW e \in Events,
             Publish(d, e) \/ Retry(d, e)
      PROVE  Goal
  <2>1. /\ Owns(d, e) /\ faults' = faults
        /\ outbox'[e].claim = NoClaim
        /\ outbox'[e].state # "pending" => outbox'[e].wait = 0
        /\ \A f \in Events \ {e} : outbox'[f] = outbox[f]
    <3>1. CASE Publish(d, e)
      BY <3>1 DEF Publish, Released
    <3>2. CASE Retry(d, e)
      <4>1. outbox[e] \in OutboxRow /\ 0 \in 0 .. Lease + 1
        OBVIOUS
      <4>2. RetryDelay(disp[d].attempt[e]) \in 0 .. MaxWait
        BY DEF RetryDelay
      <4>3. /\ outbox'[e] = [Released(outbox[e]) EXCEPT
                              !.wait = RetryDelay(disp[d].attempt[e])]
            /\ outbox[e].state = "pending"
        BY <3>2 DEF Retry
      <4>4. \A w \in 0 .. MaxWait :
              /\ [Released(outbox[e]) EXCEPT !.wait = w].claim = NoClaim
              /\ [Released(outbox[e]) EXCEPT !.wait = w].state = outbox[e].state
        BY <4>1, RowUpdates
      <4>5. outbox'[e].claim = NoClaim /\ outbox'[e].state = outbox[e].state
        BY <4>2, <4>3, <4>4, Zenon
      <4>6. QED
        BY <3>2, <4>3, <4>5 DEF Retry
    <3>3. QED
      BY <1>4, <3>1, <3>2
  <2>2. /\ disp'[d].batch = disp[d].batch \ {e}
        /\ disp'[d].attempt = disp[d].attempt
        /\ \A f \in Dispatchers \ {d} : disp'[f] = disp[f]
    BY <1>4, AdvanceEffect DEF Publish, Retry
  <2>3. OwnedAttemptIsLatest'
    BY <2>1, <2>2 DEF OwnedAttemptIsLatest
  <2>4. OnlyPendingClaimed'
    BY <2>1 DEF OnlyPendingClaimed
  <2>5. HeldWithinLease'
    <3> SUFFICES ASSUME faults.late = 0, NEW x \in Dispatchers, NEW f \in disp'[x].batch
                 PROVE  Owns(x, f)' /\ outbox'[f].age <= Lease
      BY <2>1 DEF HeldWithinLease
    <3>1. f \in disp[x].batch /\ (x = d => f # e)
      BY <2>2
    <3>2. Owns(x, f) /\ outbox[f].age <= Lease
      BY <3>1 DEF HeldWithinLease
    <3>3. f # e
      BY <2>1, <3>1, <3>2
    <3>4. QED
      BY <2>1, <3>1, <3>2, <3>3
  <2>6. QED
    BY <2>3, <2>4, <2>5
<1>5. ASSUME Tick PROVE Goal
  <2>1. \A e \in Events :
          /\ outbox'[e].state = outbox[e].state
          /\ outbox'[e].claim = outbox[e].claim
          /\ outbox'[e].attempts = outbox[e].attempts
          /\ outbox[e].wait = 0 => outbox'[e].wait = 0
    BY <1>5 DEF Tick
  <2>2. OwnedAttemptIsLatest'
    <3>1. disp' = disp
      BY <1>5 DEF Tick
    <3>2. QED
      BY <2>1, <3>1 DEF OwnedAttemptIsLatest
  <2>3. OnlyPendingClaimed'
    BY <2>1 DEF OnlyPendingClaimed
  <2>4. HeldWithinLease'
    BY <1>5, TickWithinLease
  <2>5. QED
    BY <2>2, <2>3, <2>4
<1>6. CASE UNCHANGED vars
  BY <1>6 DEF vars, OwnedAttemptIsLatest, OnlyPendingClaimed, HeldWithinLease
<1>7. QED
  BY <1>2, <1>3, <1>4, <1>5, <1>6 DEF Next

-----------------------------------------------------------------------------

\* Every step of the loop keeps the inductive invariant.
LEMMA InvariantPreserved == ASSUME IInv, [Next]_vars PROVE IInv'
<1>1. TypeOK'
  BY TypePreserved DEF IInv
<1>2. QED
  BY <1>1, ClaimsPreserved DEF IInv

\* Within the lease the claim of an event tells who has it in hands.
LEMMA HeldByOne == ASSUME HeldWithinLease PROVE ExclusiveExecution
<1> SUFFICES ASSUME faults.late = 0,
                    NEW d1 \in Dispatchers, NEW d2 \in Dispatchers, d1 # d2,
                    NEW e \in disp[d1].batch, e \in disp[d2].batch
             PROVE  FALSE
  BY DEF ExclusiveExecution
<1>1. outbox[e].claim = d1 /\ outbox[e].claim = d2
  BY DEF HeldWithinLease, Owns
<1>2. QED
  BY <1>1

\* No statement of the loop touches a published row.
LEMMA PublishedStays ==
  ASSUME IInv, [Next]_vars, NEW e \in Events, outbox[e].state = "published"
  PROVE  outbox'[e] = outbox[e]
<1> USE DEF TypeOK, IInv
<1>1. outbox[e].claim = NoClaim /\ outbox[e].wait = 0
  BY DEF OnlyPendingClaimed
<1>2. CASE \E f \in Events : Enqueue(f)
  BY <1>2 DEF Enqueue
<1>3. CASE \E d \in Dispatchers : Claim(d)
  BY <1>3 DEF Claim, Candidates, Eligible
<1>4. CASE \E d \in Dispatchers, f \in Events : Publish(d, f) \/ Retry(d, f)
  BY <1>4 DEF Publish, Retry, Owns
<1>5. CASE Tick
  <2>1. outbox'[e] = [outbox[e] EXCEPT !.age = outbox[e].age,
                                       !.wait = outbox[e].wait]
    BY <1>1, <1>5 DEF Tick
  <2>2. QED
    BY <2>1 DEF OutboxRow
<1>6. CASE outbox' = outbox
  BY <1>6
<1>7. QED
  BY <1>2, <1>3, <1>4, <1>5, <1>6
     DEF Next, vars, HandlerReturns, LostClaim, StorageError, Crash

\* The inductive invariant holds in every reachable state.
THEOREM OutboxInvariance == Spec => []IInv
<1>1. Init => IInv
  <2>1. Init => TypeOK
    BY OutboxAssumption
       DEF Init, TypeOK, OutboxRow, OutboxState, Dispatcher, Outcome, Idle
  <2>2. Init => OwnedAttemptIsLatest /\ OnlyPendingClaimed /\ HeldWithinLease
    BY DEF Init, Idle, OwnedAttemptIsLatest, OnlyPendingClaimed,
           HeldWithinLease
  <2>3. QED
    BY <2>1, <2>2 DEF IInv
<1>2. QED
  BY <1>1, InvariantPreserved, PTL DEF Spec

\* A dispatcher whose claim stands works on the attempt that the row counts:
\* no older attempt settles an event, and none is given up early
\* (the fence of outbox.ts, the budget of local-dispatcher.ts).
THEOREM FencedAttempt == Spec => []OwnedAttemptIsLatest
<1>1. IInv => OwnedAttemptIsLatest
  BY DEF IInv
<1>2. QED
  BY <1>1, OutboxInvariance, PTL

\* While batches settle within their lease, no two dispatchers have one event
\* in their hands (the eligibility of claimSqliteOutboxEvents).
THEOREM Exclusive == Spec => []ExclusiveExecution
<1>1. IInv => ExclusiveExecution
  BY HeldByOne DEF IInv
<1>2. QED
  BY <1>1, OutboxInvariance, PTL

\* A published row is never touched again by any of the statements
\* (completeSqliteOutboxEvent, retrySqliteOutboxEvent, the claim).
THEOREM PublicationFinal == Spec => PublishedIsFinal
<1> DEFINE Kept == \A e \in Events :
                     outbox[e].state = "published" => outbox'[e] = outbox[e]
<1>1. IInv /\ [Next]_vars => Kept
  BY PublishedStays
<1>2. QED
  BY <1>1, OutboxInvariance, PTL DEF Spec, PublishedIsFinal

-----------------------------------------------------------------------------
(* The outbox as a host: handlers of all kinds run in the dispatch loop, in *)
(* transactions of their own.                                               *)

\* A handler goes on or ends with an outcome, or its process dies; a statement
\* of it may fail on the way.
GuestStep ==
  /\ outbox' = outbox
  /\ \/ disp' = disp
     \/ \E d \in Dispatchers, result \in Outcome :
          disp' = [disp EXCEPT ![d].outcome = result]
     \/ \E d \in Dispatchers : disp' = [disp EXCEPT ![d] = Idle]
  /\ faults' = faults \/ Fault

\* Events that were enqueued before anything was claimed.
Untouched ==
  {[state |-> state, claim |-> NoClaim, age |-> 0, attempts |-> 0, wait |-> 0] :
     state \in {"absent", "pending"}}

HostInit ==
  /\ outbox \in [Events -> Untouched]
  /\ disp = [d \in Dispatchers |-> Idle]
  /\ faults = [broken |-> 0, late |-> 0]

HostSpec == HostInit /\ [][Next \/ GuestStep]_vars

\* The invariant holds at first.
LEMMA HostBegins == ASSUME HostInit PROVE IInv
<1> USE OutboxAssumption
<1>1. Untouched \subseteq OutboxRow
  BY DEF Untouched, OutboxRow, OutboxState
<1>2. TypeOK
  BY <1>1 DEF HostInit, TypeOK, Dispatcher, Outcome, Idle
<1>3. \A e \in Events : outbox[e].claim = NoClaim /\ outbox[e].wait = 0
  BY DEF HostInit, Untouched
<1>4. QED
  BY <1>2, <1>3
     DEF HostInit, IInv, OwnedAttemptIsLatest, OnlyPendingClaimed, HeldWithinLease, Idle

\* What a handler does keeps the types of the outbox.
LEMMA GuestTypes == ASSUME TypeOK, GuestStep PROVE TypeOK'
<1>1. \A d \in Dispatchers, result \in Outcome :
        [disp EXCEPT ![d].outcome = result] \in [Dispatchers -> Dispatcher]
  BY DEF TypeOK, Dispatcher
<1>2. \A d \in Dispatchers :
        [disp EXCEPT ![d] = Idle] \in [Dispatchers -> Dispatcher]
  BY DEF TypeOK, Dispatcher, Outcome, Idle
<1>3. disp' \in [Dispatchers -> Dispatcher]
  BY <1>1, <1>2 DEF GuestStep, TypeOK
<1>4. faults' \in [broken : 0 .. MaxFaults, late : 0 .. MaxLate]
  BY OutboxAssumption DEF GuestStep, Fault, TypeOK
<1>5. QED
  BY <1>3, <1>4 DEF GuestStep, TypeOK

\* What a handler does keeps the claims of the outbox in order.
LEMMA GuestsKeepInvariant == ASSUME IInv, GuestStep PROVE IInv'
<1>1. TypeOK'
  BY GuestTypes DEF IInv
<1>2. ASSUME NEW f \in Dispatchers
      PROVE  \/ disp'[f] = Idle
             \/ /\ disp'[f].batch = disp[f].batch
                /\ disp'[f].attempt = disp[f].attempt
  <2>1. ASSUME NEW d \in Dispatchers, NEW result,
               disp' = [disp EXCEPT ![d].outcome = result]
        PROVE  /\ disp'[f].batch = disp[f].batch
               /\ disp'[f].attempt = disp[f].attempt
    BY <2>1 DEF IInv, TypeOK, Dispatcher
  <2>2. ASSUME NEW d \in Dispatchers, disp' = [disp EXCEPT ![d] = Idle]
        PROVE  disp'[f] = Idle \/ disp'[f] = disp[f]
    BY <2>2 DEF IInv, TypeOK
  <2>3. QED
    BY <2>1, <2>2 DEF GuestStep
<1>3. faults'.late = faults.late
  BY DEF GuestStep, Fault, IInv, TypeOK
<1>4. HandlerStep
  BY <1>2, <1>3 DEF HandlerStep, GuestStep
<1>5. QED
  BY <1>1, <1>4, HandlersKeepClaims DEF IInv

\* Whatever handlers run in it, the inductive invariant holds of the outbox.
THEOREM HostInvariance == HostSpec => []IInv
<1>1. IInv /\ [Next \/ GuestStep]_vars => IInv'
  BY InvariantPreserved, GuestsKeepInvariant
<1>2. QED
  BY <1>1, HostBegins, PTL DEF HostSpec

\* Whatever handlers run in the dispatch loop, a claim that stands is of the
\* latest attempt, and within the lease an event is in the hands of one
\* dispatcher.
THEOREM HostedClaims ==
  HostSpec => [](OwnedAttemptIsLatest /\ ExclusiveExecution)
<1>1. IInv => OwnedAttemptIsLatest /\ ExclusiveExecution
  BY HeldByOne DEF IInv
<1>2. QED
  BY <1>1, HostInvariance, PTL

\* Whatever handlers run in the dispatch loop, published rows stay.
THEOREM HostedPublication == HostSpec => PublishedIsFinal
<1> DEFINE Kept == \A e \in Events :
                     outbox[e].state = "published" => outbox'[e] = outbox[e]
<1>1. IInv /\ [Next \/ GuestStep]_vars => Kept
  BY PublishedStays DEF GuestStep
<1>2. QED
  BY <1>1, HostInvariance, PTL DEF HostSpec, PublishedIsFinal

-----------------------------------------------------------------------------
(* What the steps of the loop do, for the modules that run handlers in it. *)

\* A claim gives an idle dispatcher the eligible events it takes.
LEMMA ClaimEffect ==
  ASSUME TypeOK, NEW d \in Dispatchers, Claim(d)
  PROVE  /\ disp[d].batch = {}
         /\ disp'[d].batch = Candidates /\ disp'[d].outcome = "running"
         /\ \A e \in Candidates : e \in Events /\ outbox[e].state = "pending"
         /\ \A f \in Dispatchers \ {d} : disp'[f] = disp[f]
         /\ \A e \in Events : outbox'[e].state = outbox[e].state
         /\ faults' = faults
<1>1. \A e \in Candidates : e \in Events /\ outbox[e].state = "pending"
  BY DEF Candidates, Eligible
<1>2. /\ disp'[d].batch = Candidates /\ disp'[d].outcome = "running"
      /\ \A f \in Dispatchers \ {d} : disp'[f] = disp[f]
  BY DEF Claim, TypeOK
<1>3. ASSUME NEW e \in Events PROVE outbox'[e].state = outbox[e].state
  <2>1. outbox[e] \in OutboxRow
    BY DEF TypeOK
  <2>2. \/ outbox'[e] = outbox[e]
        \/ outbox'[e] = [outbox[e] EXCEPT !.claim = d, !.age = 0, !.wait = 0,
                                          !.attempts = @ + 1]
    BY DEF Claim
  <2>3. QED
    BY <2>1, <2>2 DEF OutboxRow
<1>4. QED
  BY <1>1, <1>2, <1>3 DEF Claim

\* A settlement removes the event from the batch that it was executed in.
LEMMA SettleEffect ==
  ASSUME TypeOK, NEW d \in Dispatchers, NEW e \in Events,
         Publish(d, e) \/ Retry(d, e)
  PROVE  /\ Current(d, e) /\ Owns(d, e) /\ disp[d].outcome # "running"
         /\ Publish(d, e) => disp[d].outcome = "ok" \/ GivesUp(d, e)
         /\ disp'[d].batch = disp[d].batch \ {e} /\ disp'[d].outcome = "running"
         /\ \A f \in Dispatchers \ {d} : disp'[f] = disp[f]
         /\ \A f \in Events \ {e} : outbox'[f] = outbox[f]
         /\ outbox'[e].state \in {"pending", "published"}
         /\ ~ Publish(d, e) => outbox'[e].state = "pending"
         /\ faults' = faults
<1> USE DEF TypeOK, Dispatcher
<1>1. Current(d, e) /\ Owns(d, e) /\ outbox[e].state = "pending" /\ faults' = faults
  BY DEF Publish, Retry, Owns
<1>2. disp[d].outcome # "running"
        /\ (Publish(d, e) => disp[d].outcome = "ok" \/ GivesUp(d, e))
  BY DEF Publish, Retry, GivesUp
<1>3. /\ disp'[d].batch = disp[d].batch \ {e} /\ disp'[d].outcome = "running"
      /\ \A f \in Dispatchers \ {d} : disp'[f] = disp[f]
  BY DEF Publish, Retry, Advance
<1>4. \A f \in Events \ {e} : outbox'[f] = outbox[f]
  BY DEF Publish, Retry
<1>5. outbox[e] \in OutboxRow /\ Released(outbox[e]).state = outbox[e].state
  BY DEF OutboxRow, Released
<1>6. Publish(d, e) => outbox'[e].state = "published"
  BY <1>5 DEF Publish, Released, OutboxRow
<1>7. Retry(d, e) => outbox'[e].state = "pending"
  BY <1>1, <1>5 DEF Retry, Released, OutboxRow
<1>8. QED
  BY <1>1, <1>2, <1>3, <1>4, <1>6, <1>7

\* Time passes.
LEMMA TickEffect ==
  ASSUME TypeOK, Tick
  PROVE  /\ \A e \in Events : outbox'[e].state = outbox[e].state
         /\ disp' = disp
         /\ faults'.broken = faults.broken
         /\ faults'.late = 0 => faults.late = 0
<1>1. ASSUME NEW e \in Events PROVE outbox'[e].state = outbox[e].state
  <2>1. outbox[e] \in OutboxRow
    BY DEF TypeOK
  <2>2. \E age, wait : outbox'[e] = [outbox[e] EXCEPT !.age = age, !.wait = wait]
    BY Zenon DEF Tick
  <2>3. QED
    BY <2>1, <2>2 DEF OutboxRow
<1>2. faults'.broken = faults.broken /\ (faults'.late = 0 => faults.late = 0)
  <2>1. faults.late \in Nat
    BY DEF TypeOK
  <2>2. \/ faults' = [faults EXCEPT !.late = faults.late + 1]
        \/ faults' = [faults EXCEPT !.late = faults.late]
    BY DEF Tick
  <2>3. QED
    BY <2>1, <2>2 DEF TypeOK
<1>3. QED
  BY <1>1, <1>2 DEF Tick

-----------------------------------------------------------------------------
(* The tasks that a host entrusts to its events: an event has a task, which *)
(* is open or over, and is there for as long as the task is open.  What is  *)
(* said of them is said of values, those before a step and those after it.  *)

\* Dispatcher state h works on event e.
Heads(h, e) == e \in h.batch /\ \A f \in h.batch : e <= f

\* What it will settle the event with is its publication.
Concludes(h, e) ==
  \/ h.outcome \in {"ok", "fatal"}
  \/ h.outcome = "retryable" /\ h.attempt[e] - 1 >= MaxRetries

\* Open tasks have pending events, and what a dispatcher is about to publish is
\* the event of a task that is over, unless something has broken.  What it holds
\* has been inserted.
Entrusted(rows, hands, open, broken) ==
  /\ open \subseteq Events
  /\ \A e \in open : rows[e].state = "pending" \/ broken
  /\ \A d \in Dispatchers : \A e \in hands[d].batch :
       /\ rows[e].state # "absent"
       /\ Heads(hands[d], e) /\ Concludes(hands[d], e) => e \notin open \/ broken

\* An outbox without events keeps its invariant and owes nothing.
LEMMA TasksBegin ==
  ASSUME Init, NEW broken PROVE IInv /\ Entrusted(outbox, disp, {}, broken)
<1>1. HostInit
  BY DEF Init, HostInit, Untouched
<1>2. QED
  BY <1>1, HostBegins DEF HostInit, Entrusted, Idle

\* What the dispatch loop itself does.
LoopStep ==
  \/ \E d \in Dispatchers :
       \/ Claim(d) \/ StorageError(d) \/ Crash(d)
       \/ \E e \in Events : Publish(d, e) \/ Retry(d, e) \/ LostClaim(d, e)
  \/ Tick

\* The loop publishes no event of an open task.
LEMMA LoopKeepsTasks ==
  ASSUME TypeOK, LoopStep, NEW open, NEW broken, NEW open1, NEW broken1,
         Entrusted(outbox, disp, open, broken), open1 \subseteq open, broken => broken1
  PROVE  Entrusted(outbox', disp', open1, broken1)
<1> DEFINE Goal == Entrusted(outbox', disp', open1, broken1)
<1>1. ASSUME NEW d \in Dispatchers,
             \A c \in Dispatchers \ {d} : disp'[c] = disp[c],
             \A e \in Events :
               \/ outbox'[e].state = outbox[e].state
               \/ outbox'[e].state # "absent" /\ (e \in open => broken),
             \A e \in disp'[d].batch :
               /\ outbox'[e].state # "absent"
               /\ Heads(disp'[d], e) /\ Concludes(disp'[d], e) => e \notin open \/ broken
      PROVE  Goal
  <2>1. \A c \in Dispatchers : \A e \in disp[c].batch : e \in Events
    BY DEF TypeOK, Dispatcher
  <2>2. ASSUME NEW c \in Dispatchers, NEW e \in disp'[c].batch
        PROVE  /\ outbox'[e].state # "absent"
               /\ Heads(disp'[c], e) /\ Concludes(disp'[c], e) => e \notin open1 \/ broken1
    <3>1. CASE c = d
      BY <1>1, <2>2, <3>1
    <3>2. CASE c # d
      BY <1>1, <2>1, <2>2, <3>2 DEF Entrusted
    <3>3. QED
      BY <3>1, <3>2
  <2>3. ASSUME NEW e \in open1 PROVE outbox'[e].state = "pending" \/ broken1
    BY <1>1, <2>3 DEF Entrusted
  <2>4. QED
    BY <2>2, <2>3 DEF Entrusted
<1>2. ASSUME NEW d \in Dispatchers, Claim(d) PROVE Goal
  <2>1. /\ disp'[d].batch = Candidates /\ disp'[d].outcome = "running"
        /\ \A e \in Candidates : e \in Events /\ outbox[e].state = "pending"
        /\ \A c \in Dispatchers \ {d} : disp'[c] = disp[c]
        /\ \A e \in Events : outbox'[e].state = outbox[e].state
    BY <1>2, ClaimEffect
  <2> HIDE DEF Goal
  <2>2. QED
    BY <1>1, <2>1 DEF Concludes
<1>3. ASSUME NEW d \in Dispatchers, NEW e \in Events, Publish(d, e) \/ Retry(d, e)
      PROVE  Goal
  <2>1. /\ Current(d, e) /\ outbox[e].state = "pending"
        /\ disp'[d].batch = disp[d].batch \ {e} /\ disp'[d].outcome = "running"
        /\ \A c \in Dispatchers \ {d} : disp'[c] = disp[c]
        /\ \A f \in Events \ {e} : outbox'[f] = outbox[f]
        /\ outbox'[e].state \in {"pending", "published"}
        /\ outbox'[e].state # "pending" => disp[d].outcome = "ok" \/ GivesUp(d, e)
    BY <1>3, SettleEffect DEF Owns
  <2>2. disp[d].outcome = "ok" \/ GivesUp(d, e) =>
          Heads(disp[d], e) /\ Concludes(disp[d], e)
    BY <2>1 DEF Current, Heads, GivesUp, Concludes
  <2>3. outbox'[e].state # "pending" => e \notin open \/ broken
    BY <2>1, <2>2 DEF Entrusted, Current
  <2>4. ASSUME NEW f \in disp'[d].batch PROVE outbox'[f].state # "absent"
    <3>1. f \in disp[d].batch /\ f # e /\ f \in Events
      BY <2>1, <2>4 DEF TypeOK, Dispatcher
    <3>2. QED
      BY <2>1, <3>1 DEF Entrusted
  <2> HIDE DEF Goal
  <2>5. QED
    BY <1>1, <2>1, <2>3, <2>4 DEF Concludes
<1>4. ASSUME NEW d \in Dispatchers, outbox' = outbox, disp' = [disp EXCEPT ![d] = Idle]
      PROVE  Goal
  <2>1. disp'[d].batch = {} /\ \A c \in Dispatchers \ {d} : disp'[c] = disp[c]
    BY <1>4 DEF TypeOK, Idle
  <2> HIDE DEF Goal
  <2>2. QED
    BY <1>1, <1>4, <2>1
<1>5. ASSUME NEW d \in Dispatchers, StorageError(d), disp[d].outcome = "ok" PROVE Goal
  <2>1. /\ outbox' = outbox
        /\ disp' = [disp EXCEPT ![d] = [disp[d] EXCEPT !.outcome = "retryable"]]
    BY <1>5 DEF StorageError, TypeOK
  <2>2. /\ disp'[d].batch = disp[d].batch
        /\ \A c \in Dispatchers \ {d} : disp'[c] = disp[c]
    BY <2>1 DEF TypeOK, Dispatcher
  <2>3. \A e : Heads(disp'[d], e) => Heads(disp[d], e) /\ Concludes(disp[d], e)
    BY <1>5, <2>2 DEF Heads, Concludes
  <2>4. \A e \in disp[d].batch :
          outbox[e].state # "absent" /\ (Heads(disp[d], e) => e \notin open \/ broken)
    BY <1>5 DEF Entrusted, Concludes
  <2> HIDE DEF Goal
  <2>5. QED
    BY <1>1, <2>1, <2>2, <2>3, <2>4
<1>6. ASSUME NEW d \in Dispatchers, NEW e \in Events, LostClaim(d, e) PROVE Goal
  BY <1>4, <1>6 DEF LostClaim
<1>7. ASSUME NEW d \in Dispatchers, StorageError(d) \/ Crash(d) PROVE Goal
  <2>1. \/ StorageError(d) /\ disp[d].outcome = "ok"
        \/ outbox' = outbox /\ disp' = [disp EXCEPT ![d] = Idle]
    BY <1>7 DEF StorageError, Crash
  <2>2. QED
    BY <1>4, <1>5, <2>1
<1>8. CASE Tick
  <2>1. disp' = disp /\ \A e \in Events : outbox'[e].state = outbox[e].state
    BY <1>8, TickEffect
  <2>2. \A c \in Dispatchers : \A e \in disp[c].batch : e \in Events
    BY DEF TypeOK, Dispatcher
  <2>3. QED
    BY <2>1, <2>2 DEF Entrusted
<1>9. CASE \E d \in Dispatchers : Claim(d) \/ StorageError(d) \/ Crash(d)
  BY <1>2, <1>7, <1>9
<1>10. CASE \E d \in Dispatchers, e \in Events : Publish(d, e) \/ Retry(d, e) \/ LostClaim(d, e)
  BY <1>3, <1>6, <1>10
<1>11. QED
  BY <1>8, <1>9, <1>10 DEF LoopStep

\* A statement of the handler of event e, after which the handler goes on or ends
\* with a result; it ends for good only if the task is over or something broke.
HandlerEnds(d, e, open1, broken1) ==
  /\ Current(d, e) /\ disp[d].outcome = "running"
  /\ outbox' = outbox /\ (faults' = faults \/ Fault)
  /\ \E result \in Outcome :
       /\ disp' = disp \/ disp' = [disp EXCEPT ![d].outcome = result]
       /\ Concludes([disp[d] EXCEPT !.outcome = result], e) => e \notin open1 \/ broken1

\* A handler at work on an event leaves its task over when it ends for good.
LEMMA HandlerKeepsTasks ==
  ASSUME TypeOK, NEW open, NEW broken, NEW open1, NEW broken1,
         Entrusted(outbox, disp, open, broken), open1 \subseteq open, broken => broken1,
         NEW d \in Dispatchers, NEW e \in Events, HandlerEnds(d, e, open1, broken1)
  PROVE  Entrusted(outbox', disp', open1, broken1)
<1> PICK result \in Outcome :
      /\ disp' = disp \/ disp' = [disp EXCEPT ![d].outcome = result]
      /\ Concludes([disp[d] EXCEPT !.outcome = result], e) => e \notin open1 \/ broken1
  BY DEF HandlerEnds
<1> USE DEF HandlerEnds
<1>1. CASE disp' = disp
  BY <1>1 DEF Entrusted
<1>2. CASE disp' = [disp EXCEPT ![d].outcome = result]
  <2>1. /\ disp'[d] = [disp[d] EXCEPT !.outcome = result]
        /\ \A c \in Dispatchers \ {d} : disp'[c] = disp[c]
    BY <1>2 DEF TypeOK
  <2>2. disp'[d].batch = disp[d].batch
    BY <2>1 DEF TypeOK, Dispatcher
  <2>3. ASSUME NEW f \in disp'[d].batch, Heads(disp'[d], f) PROVE f = e
    <3>1. disp[d].batch \subseteq Nat
      BY OutboxAssumption DEF TypeOK, Dispatcher
    <3>2. f \in disp[d].batch /\ f <= e /\ e <= f /\ e \in disp[d].batch
      BY <2>2, <2>3 DEF Heads, Current
    <3>3. QED
      BY <3>1, <3>2
  <2>4. ASSUME NEW c \in Dispatchers, NEW f \in disp'[c].batch
        PROVE  /\ outbox'[f].state # "absent"
               /\ Heads(disp'[c], f) /\ Concludes(disp'[c], f) => f \notin open1 \/ broken1
    <3>1. CASE c = d
      BY <2>1, <2>2, <2>3, <2>4, <3>1 DEF Entrusted
    <3>2. CASE c # d
      BY <2>1, <2>4, <3>2 DEF Entrusted
    <3>3. QED
      BY <3>1, <3>2
  <2>5. QED
    BY <2>4 DEF Entrusted
<1>3. QED
  BY <1>1, <1>2

\* A new event may have a task that is open.
LEMMA EnqueueKeepsTasks ==
  ASSUME TypeOK, NEW open, NEW broken, NEW open1,
         Entrusted(outbox, disp, open, broken),
         NEW e \in Events, Enqueue(e), open1 \subseteq open \union {e}, NEW broken1,
         broken => broken1
  PROVE  Entrusted(outbox', disp', open1, broken1)
<1>1. /\ outbox'[e].state = "pending" /\ disp' = disp
      /\ \A f \in Events \ {e} : outbox'[f] = outbox[f]
  BY DEF Enqueue, TypeOK, OutboxRow
<1>2. \A d \in Dispatchers : \A f \in disp[d].batch : f \in Events /\ f # e
  BY DEF Enqueue, TypeOK, Dispatcher, Entrusted
<1>3. QED
  BY <1>1, <1>2 DEF Entrusted

\* What is broken stays broken, and a fault breaks something.
LEMMA BrokenStays ==
  ASSUME TypeOK
  PROVE  /\ \/ LoopStep \/ Fault \/ faults' = faults \/ \E e \in Events : Enqueue(e)
            => (faults.broken > 0 => faults'.broken > 0)
         /\ Fault => faults'.broken > 0
<1>1. /\ faults.broken \in Nat
      /\ \A n : [faults EXCEPT !.broken = n].broken = n
      /\ \A n : [faults EXCEPT !.late = n].broken = faults.broken
  BY OutboxAssumption DEF TypeOK
<1>2. Fault => faults'.broken = faults.broken + 1
  BY <1>1 DEF Fault
<1>3. \/ LoopStep \/ faults' = faults \/ \E e \in Events : Enqueue(e)
      => Fault \/ faults'.broken = faults.broken
  BY <1>1 DEF LoopStep, Claim, StorageError, Crash, Publish, Retry, LostClaim, Tick, Enqueue
<1>4. QED
  BY <1>1, <1>2, <1>3

\* What a host may do without losing a task: the loop's own steps, and steps of
\* handlers and of others, of which none opens a task but by inserting its event.
TaskStep(open, broken, open1, broken1) ==
  /\ broken => broken1
  /\ \/ \E e \in Events : Enqueue(e) /\ open1 \subseteq open \union {e}
     \/ /\ open1 \subseteq open
        /\ \/ LoopStep
           \/ \E d \in Dispatchers, e \in Events : HandlerEnds(d, e, open1, broken1)
           \/ UNCHANGED vars

\* A host that does no more keeps the outbox's invariant, and no event is published
\* whose task is open.
LEMMA TasksKept ==
  ASSUME IInv, NEW open, NEW broken, NEW open1, NEW broken1,
         Entrusted(outbox, disp, open, broken), TaskStep(open, broken, open1, broken1)
  PROVE  IInv' /\ Entrusted(outbox', disp', open1, broken1)
<1> DEFINE Goal == IInv' /\ Entrusted(outbox', disp', open1, broken1)
<1>1. TypeOK
  BY DEF IInv
<1>2. ASSUME NEW e \in Events, Enqueue(e), open1 \subseteq open \union {e} PROVE Goal
  <2>1. Next
    BY <1>2 DEF Next
  <2>2. Entrusted(outbox', disp', open1, broken1)
    BY <1>1, <1>2, EnqueueKeepsTasks DEF TaskStep
  <2>3. QED
    BY <2>1, <2>2, InvariantPreserved
<1>3. ASSUME LoopStep, open1 \subseteq open PROVE Goal
  <2>1. Next
    BY <1>3 DEF Next, LoopStep
  <2>2. Entrusted(outbox', disp', open1, broken1)
    BY <1>1, <1>3, LoopKeepsTasks DEF TaskStep
  <2>3. QED
    BY <2>1, <2>2, InvariantPreserved
<1>4. ASSUME NEW d \in Dispatchers, NEW e \in Events,
             HandlerEnds(d, e, open1, broken1), open1 \subseteq open
      PROVE  Goal
  <2>1. GuestStep
    BY <1>4 DEF HandlerEnds, GuestStep
  <2>2. Entrusted(outbox', disp', open1, broken1)
    BY <1>1, <1>4, HandlerKeepsTasks DEF TaskStep
  <2>3. QED
    BY <2>1, <2>2, GuestsKeepInvariant
<1>5. ASSUME UNCHANGED vars, open1 \subseteq open PROVE Goal
  <2>1. Entrusted(outbox', disp', open1, broken1)
    BY <1>5 DEF vars, Entrusted, TaskStep
  <2>2. QED
    BY <1>5, <2>1, InvariantPreserved
<1> HIDE DEF Goal
<1>6. Goal
  BY <1>2, <1>3, <1>4, <1>5 DEF TaskStep
<1>7. QED
  BY <1>6 DEF Goal

=============================================================================
