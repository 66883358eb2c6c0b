----------------------- MODULE WorkflowExecutionProofs -----------------------
(***************************************************************************)
(* Proofs about a workflow run that is executed through the outbox, for    *)
(* every plan, any number of dispatchers, retries, crashes and late        *)
(* claims: a step is settled in its latest attempt only, a run fails only  *)
(* because executing a step threw, and no run is left to nobody.           *)
(***************************************************************************)
EXTENDS WorkflowExecution, TLAPS

\* A dispatcher in the handler has a batch whose event it has not settled.
InHandler ==
  \A d \in Dispatchers : stage[d] # "outside" =>
    disp[d].batch # {} /\ disp[d].outcome = "running"

HandlerInv ==
  /\ stage \in [Dispatchers -> Stage]
  /\ DOMAIN disp = Dispatchers
  /\ InHandler

\* A dispatcher in the handler holds a step from its claim until it is
\* settled or given up, and at no other time.
HoldsStep ==
  \A d \in Dispatchers :
    IF stage[d] \in {"outside", "loop"} THEN worker[d] = W!Nothing
    ELSE Step(d) \in Steps

\* A step is executed in a run that has begun and is not over.
RunningInRun == \A s \in Steps : status[s] = "running" => run = "running"

\* A completion is refused only to a worker that has lost its step.
RefusedLost ==
  \A d \in Dispatchers : stage[d] = "refused" => ~W!Owns(d, Step(d))

\* Rows that a step hands on have somewhere to go.
RowsLeadOn ==
  \A s \in Steps : Kind[s] \in {"trigger.table_rows", "action.enrich_column"} =>
    "rows" \in W!AllowedHandles(s)

\* Workers hold the steps that they may hold.
HoldingInv ==
  /\ ExecutionAssumption
  /\ stage \in [Dispatchers -> Stage]
  /\ worker = [d \in Dispatchers |-> worker[d]]
  /\ status \in [Steps -> W!StepStatus]
  /\ claim \in [Steps -> Dispatchers \union {NoClaim}]
  /\ HoldsStep

-----------------------------------------------------------------------------
(* The ledger.                                                             *)

\* A step of the dispatchers is a step of the ledger, or the ledger does not
\* see it.
LEMMA LedgerSteps ==
  ASSUME HoldingInv, [Next]_vars
  PROVE  [W!Next]_(W!vars)
<1>1. ASSUME UNCHANGED runVars PROVE UNCHANGED W!vars
  BY <1>1 DEF runVars, W!vars, W!row
<1>2. ASSUME NEW d \in Dispatchers, Step(d) = NoStep => worker[d] = W!Nothing,
             worker' = [worker EXCEPT ![d] = W!Nothing],
             UNCHANGED <<run, status, claim, age, wait, attempt, output>>
      PROVE  [W!Next]_(W!vars)
  <2>1. CASE Step(d) = NoStep
    <3>1. worker' = worker
      BY <1>2, <2>1 DEF HoldingInv
    <3>2. QED
      BY <1>2, <3>1 DEF W!vars, W!row
  <2>2. CASE Step(d) # NoStep
    BY <1>2, <2>2 DEF W!Next, W!Abandon, W!row, Step
  <2>3. QED
    BY <2>1, <2>2
<1>3. ASSUME NEW d \in Dispatchers, Dispatch(d) PROVE [W!Next]_(W!vars)
  BY <1>1, <1>3 DEF Dispatch
<1>4. ASSUME NEW d \in Dispatchers, ClaimStep(d) PROVE [W!Next]_(W!vars)
  BY <1>4 DEF ClaimStep, W!Next
<1>5. ASSUME NEW d \in Dispatchers, Drained(d) PROVE [W!Next]_(W!vars)
  BY <1>1, <1>5 DEF Drained
<1>6. ASSUME NEW d \in Dispatchers, CompleteStep(d) PROVE [W!Next]_(W!vars)
  <2>1. PICK H : W!Complete(d, Step(d), H)
    BY <1>6 DEF CompleteStep
  <2>2. Step(d) \in Steps
    BY <1>6 DEF CompleteStep, HoldingInv, HoldsStep
  <2>3. H \in SUBSET Handles
    BY <2>1 DEF W!Complete, W!AllowedHandles, W!Targets, HoldingInv, ExecutionAssumption
  <2>4. QED
    BY <2>1, <2>2, <2>3 DEF W!Next
<1>7. ASSUME NEW d \in Dispatchers, CompletionRefused(d) PROVE [W!Next]_(W!vars)
  BY <1>1, <1>7 DEF CompletionRefused
<1>8. ASSUME NEW d \in Dispatchers, ExecutionThrows(d) PROVE [W!Next]_(W!vars)
  BY <1>1, <1>8 DEF ExecutionThrows
<1>9. ASSUME NEW d \in Dispatchers, FailStep(d) PROVE [W!Next]_(W!vars)
  <2>1. W!Fail(d, Step(d)) /\ Step(d) \in Steps
    BY <1>9 DEF FailStep, Failing, HoldingInv, HoldsStep
  <2>2. QED
    BY <2>1 DEF W!Next
<1>10. ASSUME NEW d \in Dispatchers, FailStepConflict(d) PROVE [W!Next]_(W!vars)
  BY <1>10 DEF FailStepConflict, W!Next
<1>11. ASSUME NEW d \in Dispatchers, StorageFault(d) PROVE [W!Next]_(W!vars)
  BY <1>1, <1>11 DEF StorageFault, W!Next
<1>12. ASSUME NEW d \in Dispatchers, Settle(d) PROVE [W!Next]_(W!vars)
  BY <1>1, <1>12 DEF Settle
<1>13. ASSUME NEW d \in Dispatchers, Crash(d) PROVE [W!Next]_(W!vars)
  <2>1. Step(d) = NoStep => worker[d] = W!Nothing
    BY DEF HoldingInv, HoldsStep, ExecutionAssumption
  <2>2. QED
    BY <1>2, <1>13, <2>1 DEF Crash
<1>14. ASSUME Tick PROVE [W!Next]_(W!vars)
  BY <1>14 DEF Tick, W!Next
<1>15. CASE UNCHANGED vars
  BY <1>1, <1>15 DEF vars
<1>16. QED
  BY <1>3, <1>4, <1>5, <1>6, <1>7, <1>8, <1>9, <1>10, <1>11, <1>12, <1>13, <1>14, <1>15
  DEF Next

-----------------------------------------------------------------------------
(* The dispatchers.                                                        *)

\* A dispatcher that leaves the handler or enters it with a batch.
LEMMA HandlerSteps ==
  ASSUME HandlerInv, NEW d \in Dispatchers, NEW place \in Stage, Goto(d, place),
         DOMAIN disp' = Dispatchers,
         \A c \in Dispatchers : c # d => disp'[c] = disp[c],
         place # "outside" => disp'[d].batch # {} /\ disp'[d].outcome = "running"
  PROVE  HandlerInv'
BY DEF HandlerInv, InHandler, Goto

\* What settles a batch settles it outside the handler.
LEMMA SettleIsOutside ==
  ASSUME HandlerInv, NEW d \in Dispatchers, Settle(d)
  PROVE  /\ stage[d] = "outside" /\ UNCHANGED stage /\ DOMAIN disp' = Dispatchers
         /\ \A c \in Dispatchers : c # d => disp'[c] = disp[c]
<1>1. disp[d].outcome # "running"
  BY DEF Settle, O!Publish, O!GivesUp, O!Retry, O!LostClaim, O!StorageError
<1>2. stage[d] = "outside"
  BY <1>1 DEF HandlerInv, InHandler
<1>3. UNCHANGED stage
  BY DEF Settle
<1>4. \E new : disp' = [disp EXCEPT ![d] = new]
  <2>1. CASE O!Publish(d, Event) \/ O!Retry(d, Event)
    <3>1. disp' = [disp EXCEPT ![d].batch = @ \ {Event}, ![d].outcome = "running"]
      BY <2>1 DEF O!Publish, O!Retry, O!Advance
    <3>2. disp' = [disp EXCEPT ![d] =
                     [[disp[d] EXCEPT !.batch = @ \ {Event}] EXCEPT !.outcome = "running"]]
      BY <3>1 DEF HandlerInv
    <3>3. QED
      BY <3>2
  <2>2. CASE O!LostClaim(d, Event) \/ O!StorageError(d)
    BY <2>2 DEF O!LostClaim, O!StorageError
  <2>3. QED
    BY <2>1, <2>2 DEF Settle
<1>5. QED
  BY <1>2, <1>3, <1>4 DEF HandlerInv

\* Every step leaves dispatchers in the handler with a batch.
LEMMA HandlerKept ==
  ASSUME HandlerInv, [Next]_vars
  PROVE  HandlerInv'
<1>1. "outside" \in Stage /\ "loop" \in Stage /\ "executing" \in Stage
      /\ "threw" \in Stage /\ "refused" \in Stage
  BY DEF Stage
<1>2. ASSUME NEW d \in Dispatchers, NEW place \in Stage, Goto(d, place),
             UNCHANGED disp, stage[d] # "outside"
      PROVE  HandlerInv'
  <2>1. disp[d].batch # {} /\ disp[d].outcome = "running" /\ DOMAIN disp = Dispatchers
    BY <1>2 DEF HandlerInv, InHandler
  <2>2. QED
    BY <1>2, <2>1, HandlerSteps
<1>3. ASSUME NEW d \in Dispatchers, Goto(d, "outside"),
             \/ UNCHANGED disp
             \/ \E result : disp' = [disp EXCEPT ![d].outcome = result]
             \/ disp' = [disp EXCEPT ![d] = O!Idle]
      PROVE  HandlerInv'
  <2>1. /\ DOMAIN disp' = Dispatchers
        /\ \A c \in Dispatchers : c # d => disp'[c] = disp[c]
    BY <1>3 DEF HandlerInv
  <2>2. QED
    BY <1>1, <1>3, <2>1, HandlerSteps
<1>4. ASSUME NEW d \in Dispatchers, Dispatch(d) PROVE HandlerInv'
  <2>1. PICK attempts :
          disp' = [disp EXCEPT ![d] = [batch |-> O!Candidates, attempt |-> attempts,
                                       outcome |-> "running"]]
    BY <1>4 DEF Dispatch, O!Claim
  <2>2. PICK new : new = [batch |-> O!Candidates, attempt |-> attempts,
                          outcome |-> "running"]
    OBVIOUS
  <2>3. /\ disp' = [disp EXCEPT ![d] = new]
        /\ new.batch = O!Candidates /\ new.outcome = "running"
    BY <2>1, <2>2
  <2>4. O!Candidates # {}
    BY <1>4 DEF Dispatch, O!Claim
  <2>5. /\ DOMAIN disp' = Dispatchers /\ disp'[d] = new
        /\ \A c \in Dispatchers : c # d => disp'[c] = disp[c]
    BY <2>3 DEF HandlerInv
  <2>6. Goto(d, "loop")
    BY <1>4 DEF Dispatch
  <2>7. QED
    BY <1>1, <2>3, <2>4, <2>5, <2>6, HandlerSteps
<1>5. ASSUME NEW d \in Dispatchers,
             ClaimStep(d) \/ CompleteStep(d) \/ CompletionRefused(d) \/ ExecutionThrows(d)
      PROVE  HandlerInv'
  <2>1. stage[d] # "outside" /\ UNCHANGED disp
    BY <1>5 DEF ClaimStep, CompleteStep, CompletionRefused, ExecutionThrows, outboxVars
  <2>2. Goto(d, "executing") \/ Goto(d, "loop") \/ Goto(d, "refused") \/ Goto(d, "threw")
    BY <1>5 DEF ClaimStep, CompleteStep, CompletionRefused, ExecutionThrows
  <2>3. QED
    BY <1>1, <1>2, <2>1, <2>2
<1>6. ASSUME NEW d \in Dispatchers, Drained(d) \/ FailStep(d) \/ FailStepConflict(d)
      PROVE  HandlerInv'
  BY <1>3, <1>6 DEF Drained, FailStep, FailStepConflict, O!HandlerReturns
<1>7. ASSUME NEW d \in Dispatchers, StorageFault(d) PROVE HandlerInv'
  <2>1. CASE stage[d] = "executing" /\ Goto(d, "threw") /\ UNCHANGED disp
    BY <1>1, <1>2, <2>1
  <2>2. CASE ErrorLeaves(d)
    BY <1>3, <2>2 DEF ErrorLeaves
  <2>3. QED
    BY <1>7, <2>1, <2>2 DEF StorageFault
<1>8. ASSUME NEW d \in Dispatchers, Settle(d) PROVE HandlerInv'
  BY <1>8, SettleIsOutside DEF HandlerInv, InHandler
<1>9. ASSUME NEW d \in Dispatchers, Crash(d) PROVE HandlerInv'
  BY <1>3, <1>9 DEF Crash, O!Crash
<1>10. ASSUME Tick PROVE HandlerInv'
  BY <1>10 DEF Tick, O!Tick, HandlerInv, InHandler
<1>11. CASE UNCHANGED vars
  BY <1>11 DEF vars, outboxVars, HandlerInv, InHandler
<1>12. QED
  BY <1>4, <1>5, <1>6, <1>7, <1>8, <1>9, <1>10, <1>11 DEF Next

\* What holds a step and where a dispatcher is change together.
LEMMA HoldingSteps ==
  ASSUME HoldingInv, NEW d \in Dispatchers, NEW place \in Stage, NEW held,
         IF place \in {"outside", "loop"} THEN held = W!Nothing ELSE held.step \in Steps,
         Goto(d, place), worker' = [worker EXCEPT ![d] = held],
         status' \in [Steps -> W!StepStatus],
         claim' \in [Steps -> Dispatchers \union {NoClaim}]
  PROVE  HoldingInv'
<1>1. /\ stage' \in [Dispatchers -> Stage] /\ worker' = [c \in Dispatchers |-> worker'[c]]
      /\ stage'[d] = place /\ worker'[d] = held
      /\ \A c \in Dispatchers : c # d => stage'[c] = stage[c] /\ worker'[c] = worker[c]
  BY DEF HoldingInv, Goto
<1>2. HoldsStep'
  <2> SUFFICES ASSUME NEW c \in Dispatchers
               PROVE  IF stage'[c] \in {"outside", "loop"} THEN worker'[c] = W!Nothing
                      ELSE worker'[c].step \in Steps
    BY DEF HoldsStep, Step, W!Nothing
  <2>1. CASE c = d
    BY <1>1, <2>1
  <2>2. CASE c # d
    BY <1>1, <2>2 DEF HoldingInv, HoldsStep, Step
  <2>3. QED
    BY <2>1, <2>2
<1>3. QED
  BY <1>1, <1>2 DEF HoldingInv, ExecutionAssumption

\* The statuses and claims that the ledger writes.
LEMMA LedgerTypes ==
  ASSUME HoldingInv, NEW d \in Dispatchers, NEW s \in Steps,
         W!Claim(d, s) \/ (\E H : W!Complete(d, s, H)) \/ W!Fail(d, s)
  PROVE  /\ status' \in [Steps -> W!StepStatus]
         /\ claim' \in [Steps -> Dispatchers \union {NoClaim}]
<1>1. CASE W!Claim(d, s)
  BY <1>1 DEF W!Claim, HoldingInv, W!StepStatus
<1>2. ASSUME NEW H, W!Complete(d, s, H)
      PROVE  /\ status' \in [Steps -> W!StepStatus]
             /\ claim' \in [Steps -> Dispatchers \union {NoClaim}]
  <2>1. claim' \in [Steps -> Dispatchers \union {NoClaim}]
    BY <1>2 DEF W!Complete, HoldingInv
  <2>2. \A t \in Steps : status'[t] \in {"succeeded", "ready", "skipped", status[t]}
    BY <1>2 DEF W!Complete
  <2>3. DOMAIN status' = Steps /\ status' = [t \in Steps |-> status'[t]]
    BY <1>2 DEF W!Complete
  <2>4. \A t \in Steps : status'[t] \in W!StepStatus
    BY <2>2 DEF HoldingInv, W!StepStatus
  <2>5. QED
    BY <2>1, <2>3, <2>4
<1>3. CASE W!Fail(d, s)
  <2>1. claim' \in [Steps -> Dispatchers \union {NoClaim}]
    BY <1>3 DEF W!Fail, HoldingInv
  <2>2. status' \in [Steps -> W!StepStatus]
    BY <1>3 DEF W!Fail, HoldingInv, W!StepStatus
  <2>3. QED
    BY <2>1, <2>2
<1>4. QED
  BY <1>1, <1>2, <1>3

\* Every step keeps the holding of steps in order.
LEMMA HoldingKept ==
  ASSUME HandlerInv, HoldingInv, [Next]_vars
  PROVE  HoldingInv'
<1>1. ASSUME UNCHANGED <<status, claim, worker, stage>> PROVE HoldingInv'
  BY <1>1 DEF HoldingInv, HoldsStep, Step, W!Nothing, ExecutionAssumption
<1>2. /\ "outside" \in Stage /\ "loop" \in Stage /\ "executing" \in Stage
      /\ "threw" \in Stage /\ "refused" \in Stage
  BY DEF Stage
<1>3. ASSUME NEW d \in Dispatchers, NEW place \in Stage, Goto(d, place),
             UNCHANGED <<status, claim, worker>>,
             stage[d] \in {"outside", "loop"} <=> place \in {"outside", "loop"}
      PROVE  HoldingInv'
  <2>1. PICK held : held = worker[d]
    OBVIOUS
  <2>2. worker' = [worker EXCEPT ![d] = held]
    BY <1>3, <2>1 DEF HoldingInv
  <2>3. IF place \in {"outside", "loop"} THEN held = W!Nothing ELSE held.step \in Steps
    BY <1>3, <2>1 DEF HoldingInv, HoldsStep, Step
  <2>4. status' \in [Steps -> W!StepStatus] /\ claim' \in [Steps -> Dispatchers \union {NoClaim}]
    BY <1>3 DEF HoldingInv
  <2>5. QED
    BY <1>3, <2>2, <2>3, <2>4, HoldingSteps
<1>4. ASSUME NEW d \in Dispatchers, Goto(d, "outside") \/ Goto(d, "loop"),
             worker' = [worker EXCEPT ![d] = W!Nothing],
             status' \in [Steps -> W!StepStatus],
             claim' \in [Steps -> Dispatchers \union {NoClaim}]
      PROVE  HoldingInv'
  BY <1>2, <1>4, HoldingSteps
<1>5. ASSUME NEW d \in Dispatchers, Goto(d, "outside"),
             worker' = [worker EXCEPT ![d] = W!Nothing], UNCHANGED <<status, claim>>
      PROVE  HoldingInv'
  BY <1>4, <1>5 DEF HoldingInv
<1>6. ASSUME NEW d \in Dispatchers, Dispatch(d) PROVE HoldingInv'
  <2>1. stage[d] = "outside" /\ Goto(d, "loop") /\ UNCHANGED <<status, claim, worker>>
    BY <1>6 DEF Dispatch, O!Claim, HandlerInv, InHandler, runVars
  <2>2. QED
    BY <1>2, <1>3, <2>1
<1>7. ASSUME NEW d \in Dispatchers, ClaimStep(d) PROVE HoldingInv'
  <2>1. PICK s \in Steps : W!Claim(d, s)
    BY <1>7 DEF ClaimStep
  <2>2. Goto(d, "executing")
    BY <1>7 DEF ClaimStep
  <2>3. PICK held : /\ held = [step |-> s, attempt |-> attempt[s] + 1]
                    /\ worker' = [worker EXCEPT ![d] = held]
    BY <2>1 DEF W!Claim
  <2>4. held.step \in Steps
    BY <2>3
  <2>5. QED
    BY <1>2, <2>1, <2>2, <2>3, <2>4, LedgerTypes, HoldingSteps
<1>8. ASSUME NEW d \in Dispatchers, Drained(d) PROVE HoldingInv'
  <2>1. stage[d] = "loop" /\ Goto(d, "outside") /\ UNCHANGED <<status, claim, worker>>
    BY <1>8 DEF Drained, runVars
  <2>2. QED
    BY <1>2, <1>3, <2>1
<1>9. ASSUME NEW d \in Dispatchers, CompleteStep(d) PROVE HoldingInv'
  <2>1. PICK H : W!Complete(d, Step(d), H)
    BY <1>9 DEF CompleteStep
  <2>2. /\ Goto(d, "loop") /\ worker' = [worker EXCEPT ![d] = W!Nothing]
        /\ Step(d) \in Steps
    BY <1>9, <2>1 DEF CompleteStep, W!Complete, HoldingInv, HoldsStep
  <2>3. QED
    BY <1>4, <2>1, <2>2, LedgerTypes
<1>10. ASSUME NEW d \in Dispatchers, CompletionRefused(d) \/ ExecutionThrows(d)
       PROVE  HoldingInv'
  <2>1. /\ stage[d] = "executing" /\ UNCHANGED <<status, claim, worker>>
        /\ Goto(d, "refused") \/ Goto(d, "threw")
    BY <1>10 DEF CompletionRefused, ExecutionThrows, runVars
  <2>2. QED
    BY <1>2, <1>3, <2>1
<1>11. ASSUME NEW d \in Dispatchers, FailStep(d) PROVE HoldingInv'
  <2>1. /\ W!Fail(d, Step(d)) /\ Goto(d, "outside") /\ Step(d) \in Steps
        /\ worker' = [worker EXCEPT ![d] = W!Nothing]
    BY <1>11 DEF FailStep, Failing, W!Fail, HoldingInv, HoldsStep
  <2>2. QED
    BY <1>4, <2>1, LedgerTypes
<1>12. ASSUME NEW d \in Dispatchers, FailStepConflict(d) PROVE HoldingInv'
  BY <1>5, <1>12 DEF FailStepConflict, W!Abandon, W!row
<1>13. ASSUME NEW d \in Dispatchers, StorageFault(d) PROVE HoldingInv'
  <2>1. CASE stage[d] = "executing" /\ Goto(d, "threw") /\ UNCHANGED runVars
    BY <1>2, <1>3, <2>1 DEF runVars
  <2>2. CASE Goto(d, "outside") /\ W!Abandon(d)
    BY <1>5, <2>2 DEF W!Abandon, W!row
  <2>3. CASE stage[d] = "loop" /\ Goto(d, "outside") /\ UNCHANGED runVars
    BY <1>2, <1>3, <2>3 DEF runVars
  <2>4. QED
    BY <1>13, <2>1, <2>2, <2>3 DEF StorageFault, ErrorLeaves
<1>14. ASSUME NEW d \in Dispatchers, Settle(d) PROVE HoldingInv'
  BY <1>1, <1>14 DEF Settle, runVars
<1>15. ASSUME NEW d \in Dispatchers, Crash(d) PROVE HoldingInv'
  BY <1>5, <1>15 DEF Crash
<1>16. ASSUME Tick PROVE HoldingInv'
  BY <1>1, <1>16 DEF Tick, W!Tick
<1>17. CASE UNCHANGED vars
  BY <1>1, <1>17 DEF vars, runVars
<1>18. QED
  BY <1>6, <1>7, <1>8, <1>9, <1>10, <1>11, <1>12, <1>13, <1>14, <1>15, <1>16, <1>17
  DEF Next

-----------------------------------------------------------------------------
(* The theorems.                                                           *)

\* The inductive invariant.
ExecutionInv == HandlerInv /\ HoldingInv /\ RunningInRun

\* A step is running only in a run that is.
LEMMA RunningKept ==
  ASSUME HandlerInv, HoldingInv, RunningInRun, [Next]_vars
  PROVE  RunningInRun'
<1>1. ASSUME UNCHANGED <<status, run>> PROVE RunningInRun'
  BY <1>1 DEF RunningInRun
<1>2. [W!Next]_(W!vars)
  BY LedgerSteps
<1>3. ASSUME NEW d \in Dispatchers, NEW s \in Steps, W!Claim(d, s) PROVE RunningInRun'
  BY <1>3 DEF W!Claim, RunningInRun
<1>4. ASSUME NEW d \in Dispatchers, NEW s \in Steps, NEW H, W!Complete(d, s, H)
      PROVE  RunningInRun'
  BY <1>4 DEF W!Complete, RunningInRun, W!Unfinished
<1>5. ASSUME NEW d \in Dispatchers, NEW s \in Steps, W!Fail(d, s) PROVE RunningInRun'
  BY <1>5 DEF W!Fail, RunningInRun, W!Unfinished
<1>6. ASSUME NEW d \in Dispatchers, NEW s \in Steps, W!Retry(d, s) PROVE RunningInRun'
  BY <1>6 DEF W!Retry, RunningInRun, HoldingInv
<1>7. CASE UNCHANGED W!vars \/ W!Tick \/ \E d \in Dispatchers : W!Abandon(d)
  BY <1>1, <1>7 DEF W!vars, W!row, W!Tick, W!Abandon
<1>8. QED
  BY <1>2, <1>3, <1>4, <1>5, <1>6, <1>7 DEF W!Next

\* A worker that has a step keeps it or has none.
LEMMA HeldOrNothing ==
  ASSUME HoldingInv, [W!Next]_(W!vars), NEW d \in Dispatchers, Step(d) # NoStep
  PROVE  worker'[d] = worker[d] \/ worker'[d] = W!Nothing
<1>1. ASSUME NEW c \in Dispatchers, NEW held, worker' = [worker EXCEPT ![c] = held]
      PROVE  worker'[d] = IF c = d THEN held ELSE worker[d]
  BY <1>1 DEF HoldingInv
<1>2. ASSUME NEW c \in Dispatchers, worker' = [worker EXCEPT ![c] = W!Nothing]
      PROVE  worker'[d] = worker[d] \/ worker'[d] = W!Nothing
  BY <1>1, <1>2
<1>3. ASSUME NEW c \in Dispatchers, NEW s \in Steps, W!Claim(c, s)
      PROVE  worker'[d] = worker[d]
  <2>1. c # d
    BY <1>3 DEF W!Claim, Step
  <2>2. PICK held : worker' = [worker EXCEPT ![c] = held]
    BY <1>3 DEF W!Claim
  <2>3. QED
    BY <1>1, <2>1, <2>2
<1>4. ASSUME NEW c \in Dispatchers, NEW s \in Steps,
             (\E H : W!Complete(c, s, H)) \/ W!Fail(c, s) \/ W!Retry(c, s)
      PROVE  worker' = [worker EXCEPT ![c] = W!Nothing]
  BY <1>4 DEF W!Complete, W!Fail, W!Retry
<1>5. CASE UNCHANGED W!vars \/ W!Tick \/ \E c \in Dispatchers : W!Abandon(c)
  BY <1>2, <1>5 DEF W!vars, W!Tick, W!Abandon
<1>6. QED
  BY <1>2, <1>3, <1>4, <1>5 DEF W!Next

\* Nobody gets a step but by claiming it.
LEMMA GainedByClaim ==
  ASSUME HoldingInv, [W!Next]_(W!vars), NEW d \in Dispatchers, NEW s \in Steps,
         ~(claim[s] = d /\ status[s] = "running"),
         claim'[s] = d, status'[s] = "running"
  PROVE  W!Claim(d, s)
<1>1. NoClaim \notin Dispatchers
  BY DEF HoldingInv, ExecutionAssumption
<1>2. ASSUME NEW c \in Dispatchers, NEW t \in Steps, W!Claim(c, t) PROVE W!Claim(d, s)
  <2>1. s # t => claim'[s] = claim[s] /\ status'[s] = status[s]
    BY <1>2 DEF W!Claim, HoldingInv
  <2>2. s = t => claim'[s] = c
    BY <1>2 DEF W!Claim, HoldingInv
  <2>3. s = t /\ c = d
    BY <2>1, <2>2
  <2>4. QED
    BY <1>2, <2>3
<1>3. ASSUME NEW c \in Dispatchers, NEW t \in Steps, NEW H, W!Complete(c, t, H) PROVE FALSE
  <2>1. \/ status'[s] \in {"succeeded", "ready", "skipped"}
        \/ s # t /\ status'[s] = status[s]
    BY <1>3 DEF W!Complete
  <2>2. s # t => claim'[s] = claim[s]
    BY <1>3 DEF W!Complete, HoldingInv
  <2>3. QED
    BY <2>1, <2>2
<1>4. ASSUME NEW c \in Dispatchers, NEW t \in Steps, W!Fail(c, t) PROVE FALSE
  <2>1. \/ status'[s] \in {"failed", "cancelled"}
        \/ status[s] \notin W!Unfinished /\ status'[s] = status[s]
    BY <1>4 DEF W!Fail
  <2>2. QED
    BY <2>1 DEF W!Unfinished
<1>5. ASSUME NEW c \in Dispatchers, NEW t \in Steps, W!Retry(c, t) PROVE FALSE
  BY <1>5 DEF W!Retry, HoldingInv
<1>6. CASE UNCHANGED W!vars \/ W!Tick \/ \E c \in Dispatchers : W!Abandon(c)
  BY <1>6 DEF W!vars, W!row, W!Tick, W!Abandon
<1>7. QED
  BY <1>2, <1>3, <1>4, <1>5, <1>6 DEF W!Next

\* A step that leads its rows on activates only handles with a route.
LEMMA ResultsHaveRoutes ==
  ASSUME RowsLeadOn, NEW s \in Steps, NEW H \in Results(s)
  PROVE  H \subseteq W!AllowedHandles(s)
BY DEF RowsLeadOn, Results

\* Only a refused completion leads to a refusal.
LEMMA RefusedByCompletion ==
  ASSUME HandlerInv, [Next]_vars, NEW d \in Dispatchers,
         stage'[d] = "refused", stage[d] # "refused"
  PROVE  CompletionRefused(d)
<1>1. ASSUME NEW c \in Dispatchers, NEW place, Goto(c, place), place # "refused"
      PROVE  FALSE
  BY <1>1 DEF Goto, HandlerInv
<1>2. ASSUME UNCHANGED stage PROVE FALSE
  BY <1>2
<1>3. ASSUME NEW c \in Dispatchers, CompletionRefused(c) PROVE c = d
  BY <1>3 DEF CompletionRefused, Goto, HandlerInv
<1>4. ASSUME NEW c \in Dispatchers, Dispatch(c) \/ ClaimStep(c) \/ Drained(c) PROVE FALSE
  <2>1. Goto(c, "loop") \/ Goto(c, "executing") \/ Goto(c, "outside")
    BY <1>4 DEF Dispatch, ClaimStep, Drained
  <2>2. QED
    BY <1>1, <2>1
<1>5. ASSUME NEW c \in Dispatchers,
             \/ CompleteStep(c) \/ ExecutionThrows(c) \/ FailStep(c)
             \/ FailStepConflict(c) \/ StorageFault(c) \/ Crash(c)
      PROVE  FALSE
  <2>1. Goto(c, "loop") \/ Goto(c, "threw") \/ Goto(c, "outside")
    BY <1>5 DEF CompleteStep, ExecutionThrows, FailStep, FailStepConflict,
                StorageFault, ErrorLeaves, Crash
  <2>2. QED
    BY <1>1, <2>1
<1>6. ASSUME NEW c \in Dispatchers, Settle(c) PROVE FALSE
  BY <1>2, <1>6 DEF Settle
<1>7. CASE Tick \/ UNCHANGED vars
  BY <1>2, <1>7 DEF Tick, vars
<1>8. QED
  BY <1>3, <1>4, <1>5, <1>6, <1>7 DEF Next

\* A worker whose completion was refused has lost its step and never gets it
\* back.
LEMMA RefusedKept ==
  ASSUME ExecutionInv, RowsLeadOn, RefusedLost, [Next]_vars, HoldingInv'
  PROVE  RefusedLost'
<1> SUFFICES ASSUME NEW d \in Dispatchers, stage'[d] = "refused",
                    claim'[worker'[d].step] = d, status'[worker'[d].step] = "running"
             PROVE  FALSE
  BY DEF RefusedLost, W!Owns, Step
<1>1. /\ HandlerInv /\ HoldingInv /\ [W!Next]_(W!vars)
      /\ worker'[d].step \in Steps /\ NoStep \notin Steps
  BY LedgerSteps DEF ExecutionInv, HoldingInv, HoldsStep, Step, ExecutionAssumption
<1>2. CASE stage[d] = "refused"
  <2>1. Step(d) \in Steps /\ ~(claim[Step(d)] = d /\ status[Step(d)] = "running")
    BY <1>1, <1>2 DEF HoldingInv, HoldsStep, RefusedLost, W!Owns
  <2>2. worker'[d].step = Step(d)
    BY <1>1, <2>1, HeldOrNothing DEF Step, W!Nothing
  <2>3. W!Claim(d, Step(d))
    BY <1>1, <2>1, <2>2, GainedByClaim
  <2>4. QED
    BY <1>1, <2>1, <2>3 DEF W!Claim, Step
<1>3. CASE stage[d] # "refused"
  <2>1. CompletionRefused(d)
    BY <1>1, <1>3, RefusedByCompletion
  <2>2. UNCHANGED <<status, claim, worker, run>>
    BY <2>1 DEF CompletionRefused, runVars
  <2>3. W!Owns(d, Step(d)) /\ Step(d) \in Steps
    BY <1>1, <2>2 DEF W!Owns, Step
  <2>4. run = "running"
    BY <2>3 DEF W!Owns, ExecutionInv, RunningInRun
  <2>5. PICK H \in Results(Step(d)) : ~(H \subseteq W!AllowedHandles(Step(d)))
    BY <2>1, <2>3, <2>4 DEF CompletionRefused
  <2>6. QED
    BY <2>3, <2>5, ResultsHaveRoutes
<1>4. QED
  BY <1>2, <1>3

\* The dispatchers and the ledger begin in order.
LEMMA ExecutionBegins ==
  ASSUME ExecutionAssumption, Init
  PROVE  ExecutionInv /\ RefusedLost
<1>1. HandlerInv
  BY DEF Init, HandlerInv, InHandler, Stage
<1>2. HoldsStep /\ worker = [d \in Dispatchers |-> worker[d]]
  BY DEF Init, W!Init, HoldsStep
<1>3. /\ status \in [Steps -> W!StepStatus]
      /\ claim \in [Steps -> Dispatchers \union {NoClaim}]
      /\ \A s \in Steps : status[s] # "running"
  BY DEF Init, W!Init, W!StepStatus
<1>4. QED
  BY <1>1, <1>2, <1>3 DEF Init, ExecutionInv, HoldingInv, RunningInRun, RefusedLost, Stage

\* The inductive invariant holds in every reachable state.
THEOREM ExecutionInvariance == Spec => []ExecutionInv
<1>1. Init => ExecutionInv
  BY ExecutionAssumption, ExecutionBegins
<1>2. ExecutionInv /\ [Next]_vars => ExecutionInv'
  BY HandlerKept, HoldingKept, RunningKept DEF ExecutionInv
<1>3. QED
  BY <1>1, <1>2, PTL DEF Spec

\* A run that is executed through the outbox is a behaviour of the ledger. By
\* itself this says little, since the handler acts on the ledger through its
\* operations only; it carries over what is proved of every such behaviour.
LEMMA ExecutionUsesLedger == Spec => W!Spec
<1>1. Init => W!Init
  BY DEF Init
<1>2. ExecutionInv /\ [Next]_vars => [W!Next]_(W!vars)
  BY LedgerSteps DEF ExecutionInv
<1>3. QED
  BY <1>1, <1>2, ExecutionInvariance, PTL DEF Spec, W!Spec

\* A run fails only because executing a step threw, if every trigger and every
\* enrichment of the plan leads its rows on (the catch block of
\* executeWorkflowRun).
THEOREM RunsFailForErrors == RowsLeadOn /\ Spec => FailsOnlyOnError
<1> SUFFICES ASSUME RowsLeadOn PROVE Spec => FailsOnlyOnError
  OBVIOUS
<1> DEFINE threw == (run' = "failed" /\ run # "failed") =>
                      \E d \in Dispatchers : stage[d] = "threw" /\ stage'[d] = "outside"
<1>1. Init => RefusedLost
  BY ExecutionAssumption, ExecutionBegins
<1>2. ExecutionInv /\ ExecutionInv' /\ RefusedLost /\ [Next]_vars => RefusedLost'
  BY RefusedKept DEF ExecutionInv
<1>3. ExecutionInv /\ RefusedLost /\ [Next]_vars => [threw]_vars
  <2> SUFFICES ASSUME ExecutionInv, RefusedLost, Next, run' = "failed", run # "failed"
               PROVE  \E d \in Dispatchers : stage[d] = "threw" /\ stage'[d] = "outside"
    OBVIOUS
  <2>1. PICK d \in Dispatchers : FailStep(d)
    <3>1. ~Tick
      BY DEF Tick, W!Tick
    <3>2. \A d \in Dispatchers : ~Settle(d) /\ ~Crash(d) /\ ~Dispatch(d) /\ ~Drained(d)
      BY DEF Settle, Crash, Dispatch, Drained, runVars
    <3>3. \A d \in Dispatchers : /\ ~ClaimStep(d) /\ ~CompletionRefused(d)
                                 /\ ~ExecutionThrows(d)
      BY DEF ClaimStep, W!Claim, CompletionRefused, ExecutionThrows, runVars
    <3>4. \A d \in Dispatchers : ~FailStepConflict(d) /\ ~StorageFault(d)
      BY DEF FailStepConflict, StorageFault, W!Abandon, runVars
    <3>5. \A d \in Dispatchers : ~CompleteStep(d)
      BY DEF CompleteStep, W!Complete
    <3>6. QED
      BY <3>1, <3>2, <3>3, <3>4, <3>5 DEF Next
  <2>2. /\ stage[d] \in {"threw", "refused"} /\ W!Owns(d, Step(d))
        /\ stage'[d] = "outside"
    BY <2>1 DEF FailStep, Failing, W!Fail, Goto, ExecutionInv, HandlerInv
  <2>3. QED
    BY <2>2 DEF RefusedLost
<1>4. Spec => []ExecutionInv
  BY ExecutionInvariance
<1>5. QED
  BY <1>1, <1>2, <1>3, <1>4, PTL DEF Spec, FailsOnlyOnError

-----------------------------------------------------------------------------
(* What the ledger guarantees to its workers holds of a run that is         *)
(* executed through the outbox: the theorems of WorkflowRunProofs.          *)

P == INSTANCE WorkflowRunProofs WITH
       Workers <- Dispatchers, NoWorker <- NoClaim,
       RetryDelay <- 0, MaxRetried <- 0

\* The assumptions of the execution are those of the ledger.
LEMMA LedgerAssumption == P!WorkflowAssumption
BY ExecutionAssumption DEF P!WorkflowAssumption

\* Two instances of the ledger stutter together.
LEMMA SameVariables == UNCHANGED P!vars <=> UNCHANGED W!vars
BY DEF P!vars, W!vars, P!row, W!row

\* Two instances of the ledger take the same steps.
LEMMA SameSteps == P!Next <=> W!Next
<1>1. \A d \in Dispatchers, s \in Steps : W!Claim(d, s) <=> P!Claim(d, s)
  BY DEF W!Claim, P!Claim, W!Eligible, P!Eligible
<1>2. \A d \in Dispatchers, s \in Steps : W!Fail(d, s) <=> P!Fail(d, s)
  BY DEF W!Fail, P!Fail, W!Owns, P!Owns, W!Unfinished, P!Unfinished,
         W!Nothing, P!Nothing
<1>3. \A d \in Dispatchers, s \in Steps : W!Retry(d, s) <=> P!Retry(d, s)
  BY DEF W!Retry, P!Retry, W!Owns, P!Owns, W!Nothing, P!Nothing
<1>4. \A d \in Dispatchers, s \in Steps : \A H :
        W!Complete(d, s, H) <=> P!Complete(d, s, H)
  BY DEF W!Complete, P!Complete, W!Owns, P!Owns, W!Nothing, P!Nothing,
         W!Unfinished, P!Unfinished, W!ActiveTargets, P!ActiveTargets,
         W!Targets, P!Targets, W!SkippedDescendants, P!SkippedDescendants,
         W!AllowedHandles, P!AllowedHandles
<1>5. \A d \in Dispatchers : W!Abandon(d) <=> P!Abandon(d)
  BY DEF W!Abandon, P!Abandon, W!row, P!row, W!Nothing, P!Nothing
<1>6. W!Tick <=> P!Tick
  BY DEF W!Tick, P!Tick
<1>7. QED
  BY <1>1, <1>2, <1>3, <1>4, <1>5, <1>6 DEF P!Next, W!Next

\* The run is a behaviour of the ledger the theorems are about.
LEMMA RunOfLedger == Spec => P!Spec
<1>1. P!Init <=> W!Init
  BY DEF P!Init, W!Init, P!Nothing, W!Nothing
<1>2. [P!Next]_(P!vars) <=> [W!Next]_(W!vars)
  BY SameVariables, SameSteps
<1>3. QED
  BY <1>1, <1>2, ExecutionUsesLedger, PTL DEF W!Spec, P!Spec

\* What the run and its steps guarantee at any time.
RunSound ==
  /\ W!BranchesFollowOutputs
  /\ W!RunMatchesSteps
  /\ W!OutputOfLatestAttempt

\* However dispatchers crash, lose their leases or come late, the branches of a
\* run follow its outputs, its status agrees with its steps, and an output is
\* that of the step's latest attempt (execute-workflow-run.ts over
\* sqlite/workflow-runs.ts).
THEOREM ExecutedRunsAreSound == Spec => []RunSound
<1>1. W!BranchesFollowOutputs <=> P!BranchesFollowOutputs
  BY DEF W!BranchesFollowOutputs, P!BranchesFollowOutputs, W!Unfinished,
         P!Unfinished
<1>2. W!RunMatchesSteps <=> P!RunMatchesSteps
  BY DEF W!RunMatchesSteps, P!RunMatchesSteps, W!Unfinished, P!Unfinished
<1>3. W!OutputOfLatestAttempt <=> P!OutputOfLatestAttempt
  BY DEF W!OutputOfLatestAttempt, P!OutputOfLatestAttempt
<1>4. Spec => []P!BranchesFollowOutputs
  BY LedgerAssumption, RunOfLedger, P!Branches, PTL
<1>5. Spec => []P!RunMatchesSteps
  BY LedgerAssumption, RunOfLedger, P!RunStatusSound, PTL
<1>6. Spec => []P!OutputOfLatestAttempt
  BY LedgerAssumption, RunOfLedger, P!FencedOutput, PTL
<1>7. QED
  BY <1>1, <1>2, <1>3, <1>4, <1>5, <1>6, PTL DEF RunSound

\* No dispatcher, however late, changes a settled step or a finished run (the
\* status and claim conditions of every update of sqlite/workflow-runs.ts).
THEOREM SettledStaysSettled == Spec => W!SettledIsFinal
<1> DEFINE kept(Unfinished) ==
      /\ run \in {"succeeded", "failed"} => run' = run
      /\ \A s \in Steps : status[s] \notin Unfinished =>
           status'[s] = status[s] /\ output'[s] = output[s]
<1>1. [kept(W!Unfinished)]_(W!vars) <=> [kept(P!Unfinished)]_(P!vars)
  BY SameVariables DEF W!Unfinished, P!Unfinished
<1>2. W!SettledIsFinal <=> P!SettledIsFinal
  BY <1>1, PTL DEF W!SettledIsFinal, P!SettledIsFinal
<1>3. QED
  BY <1>2, LedgerAssumption, RunOfLedger, P!Finality, PTL

\* A running step that a settling dispatcher changes is its own, and it owns the
\* claim, or is cancelled with the run.
LEMMA SettlingSteps ==
  ASSUME ExecutionInv, NEW d \in Dispatchers, NEW s \in Steps, status[s] = "running",
         status'[s] # "running",
         (\E H : W!Complete(d, Step(d), H)) \/ W!Fail(d, Step(d))
  PROVE  \/ status'[s] = "cancelled" /\ run' = "failed"
         \/ /\ status'[s] \in {"succeeded", "failed"}
            /\ s = Step(d) /\ W!Owns(d, s) /\ worker'[d] = W!Nothing
<1>1. run = "running" /\ DOMAIN worker = Dispatchers
  BY DEF ExecutionInv, RunningInRun, HoldingInv
<1>2. ASSUME NEW H, W!Complete(d, Step(d), H)
      PROVE  /\ status'[s] = "succeeded"
             /\ s = Step(d) /\ W!Owns(d, s) /\ worker'[d] = W!Nothing
  <2>1. s = Step(d) /\ status'[s] = "succeeded"
    BY <1>2 DEF W!Complete
  <2>2. QED
    BY <1>1, <1>2, <2>1 DEF W!Complete
<1>3. ASSUME W!Fail(d, Step(d))
      PROVE  \/ status'[s] = "cancelled" /\ run' = "failed"
             \/ /\ status'[s] = "failed"
                /\ s = Step(d) /\ W!Owns(d, s) /\ worker'[d] = W!Nothing
  BY <1>1, <1>3 DEF W!Fail, W!Unfinished
<1>4. QED
  BY <1>2, <1>3

\* However late a dispatcher comes out of an execution, and with whatever
\* result or error, it settles a step only in the step's latest attempt (the
\* claim in the completion and in the catch block of execute-workflow-run.ts).
THEOREM LatestAttemptSettles == Spec => SettledByLatestAttempt
<1> DEFINE settled ==
      \A s \in Steps : status[s] = "running" /\ status'[s] # "running" =>
        \/ status'[s] = "cancelled" /\ run' = "failed"
        \/ /\ status'[s] \in {"succeeded", "failed"}
           /\ \E d \in Dispatchers :
                /\ worker[d] = [step |-> s, attempt |-> attempt[s]]
                /\ worker'[d] = W!Nothing
<1>1. ExecutionInv /\ P!IInv /\ [Next]_vars => [settled]_vars
  <2> SUFFICES ASSUME ExecutionInv, P!IInv, Next,
                      NEW s \in Steps, status[s] = "running", status'[s] # "running"
               PROVE  \/ status'[s] = "cancelled" /\ run' = "failed"
                      \/ /\ status'[s] \in {"succeeded", "failed"}
                         /\ \E d \in Dispatchers :
                              /\ worker[d] = [step |-> s, attempt |-> attempt[s]]
                              /\ worker'[d] = W!Nothing
    OBVIOUS
  <2>1. PICK d \in Dispatchers : CompleteStep(d) \/ FailStep(d)
    <3>1. status' # status
      OBVIOUS
    <3>2. ~Tick
      BY <3>1 DEF Tick, W!Tick
    <3>3. \A d \in Dispatchers : /\ ~Dispatch(d) /\ ~Drained(d) /\ ~CompletionRefused(d)
                                 /\ ~ExecutionThrows(d) /\ ~FailStepConflict(d)
                                 /\ ~StorageFault(d) /\ ~Settle(d) /\ ~Crash(d)
      BY <3>1 DEF Dispatch, Drained, CompletionRefused, ExecutionThrows,
         FailStepConflict, StorageFault, Settle, Crash, W!Abandon, W!row, runVars
    <3>4. \A d \in Dispatchers : ~ClaimStep(d)
      BY DEF ClaimStep, W!Claim, ExecutionInv, HoldingInv
    <3>5. QED
      BY <3>2, <3>3, <3>4 DEF Next
  <2>2. (\E H : W!Complete(d, Step(d), H)) \/ W!Fail(d, Step(d))
    BY <2>1 DEF CompleteStep, FailStep
  <2>3. CASE s = Step(d) /\ W!Owns(d, s)
    <3>1. worker[d].attempt = attempt[s]
      BY <2>3 DEF P!IInv, P!HeldAttempt, P!Owns, W!Owns, Step
    <3>2. worker[d] = [step |-> worker[d].step, attempt |-> worker[d].attempt]
      BY DEF P!IInv, P!TypeOK, P!Holding
    <3>3. worker[d] = [step |-> s, attempt |-> attempt[s]]
      BY <2>3, <3>1, <3>2 DEF Step
    <3>4. QED
      BY <2>2, <3>3, SettlingSteps
  <2>4. CASE ~(s = Step(d) /\ W!Owns(d, s))
    BY <2>2, <2>4, SettlingSteps
  <2>5. QED
    BY <2>3, <2>4
<1>2. Spec => []P!IInv
  BY LedgerAssumption, RunOfLedger, P!Invariance, PTL
<1>3. QED
  BY <1>1, <1>2, ExecutionInvariance, PTL DEF Spec, SettledByLatestAttempt

-----------------------------------------------------------------------------
(* The outbox under the execution: the theorems of OutboxProofs.            *)

Box == INSTANCE OutboxProofs WITH Events <- {Event}, BatchLimit <- 10

\* The assumptions of the execution are those of the outbox.
LEMMA OutboxAssumed == Box!OutboxAssumption
BY ExecutionAssumption DEF Box!OutboxAssumption, Event

\* Two instances of the outbox take the same steps.
LEMMA SameOutbox ==
  /\ \A d \in Dispatchers :
       /\ O!Claim(d) => Box!Claim(d)
       /\ \A result : O!HandlerReturns(d, result) => Box!HandlerReturns(d, result)
       /\ O!Publish(d, Event) => Box!Publish(d, Event)
       /\ O!Retry(d, Event) => Box!Retry(d, Event)
       /\ O!LostClaim(d, Event) => Box!LostClaim(d, Event)
       /\ O!StorageError(d) => Box!StorageError(d)
       /\ O!Crash(d) => Box!Crash(d)
  /\ O!Tick => Box!Tick
<1>1. O!Fault => Box!Fault
  BY DEF O!Fault, Box!Fault
<1>2. O!Candidates = Box!Candidates
  <2>1. \A S : O!Cardinality(S) = Box!Cardinality(S)
    BY DEF O!Cardinality, Box!Cardinality
  <2>2. QED
    BY <2>1 DEF O!Candidates, Box!Candidates, O!Eligible, Box!Eligible
<1>3. ASSUME NEW d \in Dispatchers
      PROVE  /\ O!Publish(d, Event) => Box!Publish(d, Event)
             /\ O!Retry(d, Event) => Box!Retry(d, Event)
             /\ O!LostClaim(d, Event) => Box!LostClaim(d, Event)
  <2> USE DEF O!Current, Box!Current, O!Owns, Box!Owns, O!GivesUp, Box!GivesUp,
              O!Advance, Box!Advance, O!Released, Box!Released
  <2>1. O!Publish(d, Event) => Box!Publish(d, Event)
    BY Zenon DEF O!Publish, Box!Publish
  <2>2. O!Retry(d, Event) => Box!Retry(d, Event)
    BY Zenon DEF O!Retry, Box!Retry, O!RetryDelay, Box!RetryDelay
  <2>3. O!LostClaim(d, Event) => Box!LostClaim(d, Event)
    BY Zenon DEF O!LostClaim, Box!LostClaim, O!Idle, Box!Idle
  <2>4. QED
    BY <2>1, <2>2, <2>3
<1>4. ASSUME NEW d \in Dispatchers
      PROVE  /\ O!Claim(d) => Box!Claim(d)
             /\ \A result : O!HandlerReturns(d, result) => Box!HandlerReturns(d, result)
             /\ O!StorageError(d) => Box!StorageError(d)
             /\ O!Crash(d) => Box!Crash(d)
  BY <1>1, <1>2 DEF O!Claim, Box!Claim, O!HandlerReturns, Box!HandlerReturns,
     O!StorageError, Box!StorageError, O!Crash, Box!Crash, O!Idle, Box!Idle
<1>5. O!Tick => Box!Tick
  <2>1. O!Overdue <=> Box!Overdue
    BY DEF O!Overdue, Box!Overdue, O!Owns, Box!Owns
  <2>2. QED
    BY <2>1, Zenon DEF O!Tick, Box!Tick
<1>6. QED
  BY <1>3, <1>4, <1>5

\* What a dispatcher does is a step of the dispatch loop or of a handler in it.
LEMMA HostSteps ==
  ASSUME [Next]_vars PROVE [Box!Next \/ Box!GuestStep]_(Box!vars)
<1> USE DEF Box!vars
<1>1. ASSUME UNCHANGED outboxVars PROVE UNCHANGED Box!vars
  BY <1>1 DEF outboxVars
<1>2. ASSUME NEW d \in Dispatchers, NEW result \in {"ok", "retryable", "fatal"},
             O!HandlerReturns(d, result)
      PROVE  Box!Next
  BY <1>2, SameOutbox DEF Box!Next, Box!Outcome
<1>3. ASSUME NEW d \in Dispatchers, Dispatch(d) PROVE Box!Next
  BY <1>3, SameOutbox DEF Dispatch, Box!Next
<1>4. ASSUME NEW d \in Dispatchers, Drained(d) \/ FailStep(d) \/ FailStepConflict(d)
      PROVE  Box!Next
  BY <1>2, <1>4 DEF Drained, FailStep, FailStepConflict
<1>5. ASSUME NEW d \in Dispatchers,
             \/ ClaimStep(d) \/ CompleteStep(d)
             \/ CompletionRefused(d) \/ ExecutionThrows(d)
      PROVE  UNCHANGED Box!vars
  BY <1>1, <1>5 DEF ClaimStep, CompleteStep, CompletionRefused, ExecutionThrows
<1>6. ASSUME NEW d \in Dispatchers, StorageFault(d) PROVE Box!GuestStep
  <2>1. outbox' = outbox /\ Box!Fault
    BY <1>6 DEF StorageFault, O!Fault, Box!Fault
  <2>2. disp' = disp \/ disp' = [disp EXCEPT ![d].outcome = "retryable"]
    BY <1>6 DEF StorageFault, ErrorLeaves
  <2>3. QED
    BY <2>1, <2>2 DEF Box!GuestStep, Box!Outcome
<1>7. ASSUME NEW d \in Dispatchers, Settle(d) \/ Crash(d) PROVE Box!Next
  BY <1>7, SameOutbox DEF Settle, Crash, Box!Next
<1>8. ASSUME Tick PROVE Box!Next
  BY <1>8, SameOutbox DEF Tick, Box!Next
<1>9. CASE UNCHANGED vars
  BY <1>1, <1>9 DEF vars
<1>10. QED
  BY <1>3, <1>4, <1>5, <1>6, <1>7, <1>8, <1>9 DEF Next

\* The execution keeps to the rules of the outbox.
LEMMA HostOfExecution == Spec => Box!HostSpec
<1>1. Init => Box!HostInit
  BY DEF Init, Box!HostInit, Box!Untouched, O!Idle, Box!Idle
<1>2. [Next]_vars => [Box!Next \/ Box!GuestStep]_(Box!vars)
  BY HostSteps
<1>3. QED
  BY <1>1, <1>2, PTL DEF Spec, Box!HostSpec

\* While no lease expires under its dispatcher, a run is executed by one
\* dispatcher at a time.
OneExecutor ==
  faults.late = 0 =>
    \A d1, d2 \in Dispatchers :
      d1 # d2 => stage[d1] = "outside" \/ stage[d2] = "outside"

\* A dispatcher in the handler has the event in its hands.
LEMMA HandlersHoldEvent ==
  ASSUME HandlerInv, Box!TypeOK, NEW d \in Dispatchers, stage[d] # "outside"
  PROVE  Event \in disp[d].batch
BY DEF HandlerInv, InHandler, Box!TypeOK, Box!Dispatcher

\* However dispatchers crash and statements fail, within the lease nobody
\* executes a run that another dispatcher executes (the claim of
\* claimSqliteOutboxEvents, under execute-workflow-run.ts).
THEOREM RunsHaveOneExecutor == Spec => []OneExecutor
<1>1. ExecutionInv /\ Box!IInv => OneExecutor
  <2> SUFFICES ASSUME ExecutionInv, Box!IInv, faults.late = 0,
                      NEW d1 \in Dispatchers, NEW d2 \in Dispatchers, d1 # d2,
                      stage[d1] # "outside", stage[d2] # "outside"
               PROVE  FALSE
    BY DEF OneExecutor
  <2>1. Event \in disp[d1].batch /\ Event \in disp[d2].batch
    BY HandlersHoldEvent DEF ExecutionInv, Box!IInv
  <2>2. Box!ExclusiveExecution
    BY OutboxAssumed, Box!HeldByOne DEF Box!IInv
  <2>3. QED
    BY <2>1, <2>2 DEF Box!ExclusiveExecution
<1>2. Spec => []Box!IInv
  BY OutboxAssumed, HostOfExecution, Box!HostInvariance, PTL
<1>3. QED
  BY <1>1, <1>2, ExecutionInvariance, PTL

-----------------------------------------------------------------------------
(* A run is not forgotten: the outbox and the ledger have claims of their   *)
(* own, and between them somebody is always at work on an unfinished run.   *)

\* The plan is a tree, or several: no step is its own ancestor.
Acyclic == \A S \in SUBSET Steps : S # {} => \E s \in S : Parent[s] \notin S

\* A dispatcher in the handler that is about to claim a step, or holds the
\* claim of the one it executes or fails.
AtWork(d) ==
  \/ stage[d] = "loop"
  \/ stage[d] \in {"executing"} \union Failing /\ W!Owns(d, Step(d))

\* The event has not been claimed yet.
Waiting ==
  /\ outbox[Event].state = "pending" /\ outbox[Event].attempts = 0
  /\ \A d \in Dispatchers : disp[d].batch = {}

\* Unless a process dies or a statement fails, a run waits for its first claim,
\* is worked on, or is finished, whatever claims of the event or of its steps
\* expire.
RunIsDriven ==
  faults.broken = 0 => Waiting \/ Finished \/ \E d \in Dispatchers : AtWork(d)

\* A running step is held by the dispatcher that claimed it.
RunningHeld ==
  faults.broken = 0 =>
    \A s \in Steps : status[s] = "running" =>
      claim[s] \in Dispatchers /\ Step(claim[s]) = s

\* Entry steps never wait for another.
EntriesReady == \A s \in Steps : Parent[s] = NoStep => status[s] # "blocked"

\* An unfinished run of a plan without cycles has a step to claim, or one that
\* is running.
LEMMA SomethingToDo ==
  ASSUME Acyclic, ExecutionAssumption, EntriesReady, P!IInv, ~Finished
  PROVE  \E s \in Steps : status[s] = "running" \/ W!Eligible(s)
<1>1. PICK s \in Steps : status[s] \in {"ready", "running"}
  <2> DEFINE Blocked == {s \in Steps : status[s] = "blocked"}
  <2>1. PICK u \in Steps : status[u] \in P!Unfinished
    BY DEF P!IInv, P!RunMatchesSteps, Finished
  <2>2. CASE Blocked = {}
    BY <2>1, <2>2 DEF P!Unfinished
  <2>3. CASE Blocked # {}
    <3>1. PICK s \in Blocked : Parent[s] \notin Blocked
      BY <2>3 DEF Acyclic
    <3>2. Parent[s] \in Steps
      BY <3>1 DEF EntriesReady, ExecutionAssumption
    <3>3. status[Parent[s]] \in P!Unfinished
      BY <3>1, <3>2 DEF P!IInv, P!BranchesFollowOutputs, ExecutionAssumption
    <3>4. QED
      BY <3>1, <3>2, <3>3 DEF P!Unfinished
  <2>4. QED
    BY <2>2, <2>3
<1>2. wait[s] = 0
  BY DEF P!IInv, P!TypeOK
<1>3. run \in {"queued", "running"}
  BY DEF P!IInv, P!TypeOK, P!RunStatus, Finished
<1>4. QED
  BY <1>1, <1>2, <1>3 DEF W!Eligible

\* What the steps of the ledger leave of blocked and running steps.
LEMMA LedgerLeaves ==
  ASSUME HoldingInv, [W!Next]_(W!vars)
  PROVE  /\ \A s \in Steps : status'[s] = "blocked" => status[s] = "blocked"
         /\ \A s \in Steps : status'[s] = "running" =>
              \/ status[s] = "running" /\ claim'[s] = claim[s]
              \/ \E d \in Dispatchers : W!Claim(d, s)
<1> DEFINE Goal == /\ \A s \in Steps : status'[s] = "blocked" => status[s] = "blocked"
                   /\ \A s \in Steps : status'[s] = "running" =>
                        \/ status[s] = "running" /\ claim'[s] = claim[s]
                        \/ \E d \in Dispatchers : W!Claim(d, s)
<1>1. ASSUME NEW d \in Dispatchers, NEW t \in Steps, W!Claim(d, t) PROVE Goal
  <2>1. \A s \in Steps : s # t => status'[s] = status[s] /\ claim'[s] = claim[s]
    BY <1>1 DEF W!Claim, HoldingInv
  <2>2. status'[t] = "running"
    BY <1>1 DEF W!Claim, HoldingInv
  <2>3. QED
    BY <1>1, <2>1, <2>2
<1>2. ASSUME NEW d \in Dispatchers, NEW t \in Steps, NEW H, W!Complete(d, t, H)
      PROVE  Goal
  <2>1. \A s \in Steps :
          \/ status'[s] \in {"succeeded", "ready", "skipped"}
          \/ s # t /\ status'[s] = status[s]
    BY <1>2 DEF W!Complete
  <2>2. \A s \in Steps : s # t => claim'[s] = claim[s]
    BY <1>2 DEF W!Complete, HoldingInv
  <2>3. QED
    BY <2>1, <2>2
<1>3. ASSUME NEW d \in Dispatchers, NEW t \in Steps, W!Fail(d, t) PROVE Goal
  <2>1. \A s \in Steps :
          \/ status'[s] \in {"failed", "cancelled"}
          \/ status[s] \notin W!Unfinished /\ status'[s] = status[s]
    BY <1>3 DEF W!Fail
  <2>2. QED
    BY <2>1 DEF W!Unfinished
<1>4. ASSUME NEW d \in Dispatchers, NEW t \in Steps, W!Retry(d, t) PROVE Goal
  BY <1>4 DEF W!Retry, HoldingInv
<1>5. CASE UNCHANGED W!vars \/ W!Tick \/ \E d \in Dispatchers : W!Abandon(d)
  BY <1>5 DEF W!vars, W!row, W!Tick, W!Abandon
<1>6. CASE W!Next
  <2>1. CASE \E d \in Dispatchers, t \in Steps : W!Claim(d, t)
    BY <1>1, <2>1
  <2>2. CASE \E d \in Dispatchers, t \in Steps :
               \E H \in SUBSET Handles : W!Complete(d, t, H)
    BY <1>2, <2>2
  <2>3. CASE \E d \in Dispatchers, t \in Steps : W!Fail(d, t)
    BY <1>3, <2>3
  <2>4. CASE \E d \in Dispatchers, t \in Steps : W!Retry(d, t)
    BY <1>4, <2>4
  <2>5. CASE W!Tick \/ \E d \in Dispatchers : W!Abandon(d)
    BY <1>5, <2>5
  <2> HIDE DEF Goal
  <2>6. QED
    BY <1>6, <2>1, <2>2, <2>3, <2>4, <2>5 DEF W!Next
<1>7. QED
  BY <1>5, <1>6

\* A statement that fails, or a process that dies, stays on record.
LEMMA BrokenStays ==
  ASSUME Box!TypeOK, [Next]_vars, faults'.broken = 0
  PROVE  faults.broken = 0
<1>1. faults' = faults \/ O!Fault \/ O!Tick
  BY DEF Next, vars, outboxVars, Dispatch, O!Claim, ClaimStep, Drained,
     O!HandlerReturns, CompleteStep, CompletionRefused, ExecutionThrows, FailStep,
     FailStepConflict, StorageFault, Settle, O!Publish, O!Retry, O!LostClaim,
     O!StorageError, Crash, O!Crash, Tick
<1>2. QED
  BY <1>1 DEF O!Fault, O!Tick, Box!TypeOK

\* A dispatcher that holds the claim of its step lets go of it only by settling
\* it, while no process dies and no statement fails.
LEMMA OwnersHold ==
  ASSUME ExecutionInv, Box!TypeOK, [Next]_vars, faults'.broken = 0,
         NEW c \in Dispatchers, NEW s \in Steps, Step(c) = s, W!Owns(c, s),
         status'[s] = "running"
  PROVE  worker'[c] = worker[c]
<1>1. ~O!Fault
  BY DEF O!Fault, Box!TypeOK
<1>2. ASSUME NEW d \in Dispatchers, ClaimStep(d) PROVE worker'[c] = worker[c]
  <2>1. d # c
    BY <1>2 DEF ClaimStep, ExecutionInv, HoldingInv, HoldsStep, W!Nothing, Step,
       ExecutionAssumption
  <2>2. QED
    BY <1>2, <2>1 DEF ClaimStep, W!Claim, ExecutionInv, HoldingInv
<1>3. ASSUME NEW d \in Dispatchers, CompleteStep(d) PROVE worker'[c] = worker[c]
  <2>1. PICK H : W!Complete(d, Step(d), H)
    BY <1>3 DEF CompleteStep
  <2>2. W!Complete(d, s, H) => status'[s] = "succeeded"
    BY DEF W!Complete
  <2>3. d # c
    BY <2>1, <2>2
  <2>4. QED
    BY <2>1, <2>3 DEF W!Complete, ExecutionInv, HoldingInv
<1>4. ASSUME NEW d \in Dispatchers, FailStep(d) PROVE worker'[c] = worker[c]
  <2>1. W!Fail(d, Step(d))
    BY <1>4 DEF FailStep
  <2>2. \A t \in Steps : t = Step(d) => status'[t] = "failed"
    BY <2>1 DEF W!Fail
  <2>3. d # c
    BY <2>2
  <2>4. QED
    BY <2>1, <2>3 DEF W!Fail, ExecutionInv, HoldingInv
<1>5. ASSUME NEW d \in Dispatchers, FailStepConflict(d) PROVE worker'[c] = worker[c]
  BY <1>5 DEF FailStepConflict, W!Abandon, ExecutionInv, HoldingInv
<1>6. ASSUME NEW d \in Dispatchers, StorageFault(d) \/ Crash(d) PROVE FALSE
  BY <1>1, <1>6 DEF StorageFault, Crash, O!Crash
<1>7. ASSUME NEW d \in Dispatchers,
             \/ Dispatch(d) \/ Drained(d) \/ CompletionRefused(d)
             \/ ExecutionThrows(d) \/ Settle(d)
      PROVE  worker' = worker
  BY <1>7 DEF Dispatch, Drained, CompletionRefused, ExecutionThrows, Settle, runVars
<1>8. CASE Tick \/ UNCHANGED vars
  BY <1>8 DEF Tick, W!Tick, vars, runVars
<1>9. QED
  BY <1>2, <1>3, <1>4, <1>5, <1>6, <1>7, <1>8 DEF Next

\* A claim of a step starts with a step in the hands of its dispatcher.
LEMMA RunningStaysHeld ==
  ASSUME ExecutionInv, Box!TypeOK, RunningHeld, [Next]_vars
  PROVE  RunningHeld'
<1> SUFFICES ASSUME faults'.broken = 0, NEW s \in Steps, status'[s] = "running"
             PROVE  claim'[s] \in Dispatchers /\ worker'[claim'[s]].step = s
  BY DEF RunningHeld, Step
<1>1. faults.broken = 0
  BY BrokenStays
<1>2. CASE \E d \in Dispatchers : W!Claim(d, s)
  BY <1>2 DEF W!Claim, ExecutionInv, HoldingInv
<1>3. CASE status[s] = "running" /\ claim'[s] = claim[s]
  <2>1. claim[s] \in Dispatchers /\ Step(claim[s]) = s
    BY <1>1, <1>3 DEF RunningHeld
  <2>2. worker'[claim[s]] = worker[claim[s]]
    BY <1>3, <2>1, OwnersHold DEF W!Owns
  <2>3. QED
    BY <1>3, <2>1, <2>2 DEF Step
<1>4. QED
  BY <1>2, <1>3, LedgerSteps, LedgerLeaves DEF ExecutionInv

\* Whoever holds a running step after a step of the dispatchers is at work then.
LEMMA RunningIsWork ==
  ASSUME HoldingInv', RunningHeld', faults'.broken = 0,
         NEW s \in Steps, status'[s] = "running"
  PROVE  \E d \in Dispatchers : AtWork(d)'
<1>1. claim'[s] \in Dispatchers /\ worker'[claim'[s]].step = s
  BY DEF RunningHeld, Step
<1>2. stage'[claim'[s]] \in {"executing"} \union Failing
  BY <1>1 DEF HoldingInv, HoldsStep, Stage, Failing, Step, W!Nothing, ExecutionAssumption
<1>3. QED
  BY <1>1, <1>2 DEF AtWork, W!Owns, Step

\* Work on a run goes on, or the run is finished: one step of the dispatchers.
LEMMA WorkGoesOn ==
  ASSUME Acyclic, ExecutionInv, ExecutionInv', Box!TypeOK, P!IInv,
         RunIsDriven, EntriesReady, RunningHeld', [Next]_vars
  PROVE  RunIsDriven'
<1> SUFFICES ASSUME faults'.broken = 0
             PROVE  Waiting' \/ Finished' \/ \E d \in Dispatchers : AtWork(d)'
  BY DEF RunIsDriven
<1>1. Waiting \/ Finished \/ \E d \in Dispatchers : AtWork(d)
  BY BrokenStays DEF RunIsDriven
<1>2. ~O!Fault
  BY DEF O!Fault, Box!TypeOK
<1>3. ASSUME NEW s \in Steps, status'[s] = "running"
      PROVE  \E d \in Dispatchers : AtWork(d)'
  BY <1>3, RunningIsWork DEF ExecutionInv
<1>4. ASSUME NEW d \in Dispatchers, Dispatch(d) \/ CompleteStep(d)
      PROVE  AtWork(d)'
  <2>1. stage'[d] = "loop"
    BY <1>4 DEF Dispatch, CompleteStep, Goto, ExecutionInv, HandlerInv
  <2>2. QED
    BY <2>1 DEF AtWork
<1>5. ASSUME NEW d \in Dispatchers, ClaimStep(d)
      PROVE  \E c \in Dispatchers : AtWork(c)'
  <2>1. PICK s \in Steps : W!Claim(d, s)
    BY <1>5 DEF ClaimStep
  <2>2. status'[s] = "running"
    BY <2>1 DEF W!Claim, ExecutionInv, HoldingInv
  <2>3. QED
    BY <1>3, <2>2
<1>6. ASSUME NEW d \in Dispatchers, Drained(d)
      PROVE  Finished' \/ \E c \in Dispatchers : AtWork(c)'
  <2>1. CASE Finished
    BY <1>6, <2>1 DEF Drained, Finished, runVars
  <2>2. CASE ~Finished
    <3>1. PICK s \in Steps : status[s] = "running"
      BY <1>6, <2>2, SomethingToDo DEF Drained, ExecutionInv, HoldingInv
    <3>2. status'[s] = "running"
      BY <1>6, <3>1 DEF Drained, runVars
    <3>3. QED
      BY <1>3, <3>2
  <2>3. QED
    BY <2>1, <2>2
<1>7. ASSUME NEW d \in Dispatchers, FailStep(d) PROVE Finished'
  BY <1>7 DEF FailStep, W!Fail, Finished, P!IInv, P!TypeOK, P!RunStatus
<1>8. ASSUME NEW d \in Dispatchers, \A c \in Dispatchers \ {d} : UNCHANGED <<stage[c], worker[c]>>,
             UNCHANGED <<run, status, claim>>, disp[d].batch # {},
             AtWork(d) => AtWork(d)'
      PROVE  Finished' \/ \E c \in Dispatchers : AtWork(c)'
  <2>1. ~Waiting
    BY <1>8 DEF Waiting
  <2>2. CASE Finished
    BY <1>8, <2>2 DEF Finished
  <2>3. CASE \E c \in Dispatchers : AtWork(c)
    BY <1>8, <2>3 DEF AtWork, W!Owns, Step
  <2>4. QED
    BY <1>1, <2>1, <2>2, <2>3
<1>9. ASSUME NEW d \in Dispatchers, CompletionRefused(d) \/ ExecutionThrows(d)
      PROVE  Finished' \/ \E c \in Dispatchers : AtWork(c)'
  <2>1. /\ UNCHANGED <<runVars, disp>> /\ stage[d] = "executing"
        /\ stage'[d] \in Failing
        /\ \A c \in Dispatchers \ {d} : stage'[c] = stage[c]
    BY <1>9 DEF CompletionRefused, ExecutionThrows, Goto, Failing, outboxVars,
       ExecutionInv, HandlerInv
  <2>2. disp[d].batch # {}
    BY <2>1 DEF ExecutionInv, HandlerInv, InHandler
  <2>3. AtWork(d) => AtWork(d)'
    BY <2>1 DEF AtWork, W!Owns, Step, runVars
  <2>4. QED
    BY <1>8, <2>1, <2>2, <2>3 DEF runVars
<1>10. ASSUME NEW d \in Dispatchers, FailStepConflict(d)
       PROVE  Finished' \/ \E c \in Dispatchers : AtWork(c)'
  <2>1. /\ UNCHANGED <<run, status, claim>>
        /\ \A c \in Dispatchers \ {d} : UNCHANGED <<stage[c], worker[c]>>
    BY <1>10 DEF FailStepConflict, W!Abandon, W!row, Goto, ExecutionInv, HandlerInv,
       HoldingInv
  <2>2. disp[d].batch # {}
    BY <1>10 DEF FailStepConflict, O!HandlerReturns
  <2>3. ~AtWork(d)
    BY <1>10 DEF FailStepConflict, AtWork, Failing
  <2>4. QED
    BY <1>8, <2>1, <2>2, <2>3
<1>11. ASSUME NEW d \in Dispatchers, StorageFault(d) \/ Crash(d) PROVE FALSE
  BY <1>2, <1>11 DEF StorageFault, Crash, O!Crash
<1>12. ASSUME NEW d \in Dispatchers, Settle(d)
       PROVE  Finished' \/ \E c \in Dispatchers : AtWork(c)'
  <2>1. disp[d].batch # {}
    BY <1>2, <1>12 DEF Settle, O!Publish, O!Retry, O!LostClaim, O!StorageError, O!Current
  <2>2. UNCHANGED <<runVars, stage>>
    BY <1>12 DEF Settle
  <2>3. AtWork(d) => AtWork(d)'
    BY <2>2 DEF AtWork, W!Owns, Step, runVars
  <2>4. QED
    BY <1>8, <2>1, <2>2, <2>3 DEF runVars
<1>13. ASSUME UNCHANGED <<run, status, claim, worker, stage, disp>>,
              outbox'[Event].state = outbox[Event].state,
              outbox'[Event].attempts = outbox[Event].attempts
       PROVE  Waiting' \/ Finished' \/ \E c \in Dispatchers : AtWork(c)'
  BY <1>1, <1>13 DEF Waiting, Finished, AtWork, W!Owns, Step
<1>14. CASE Tick
  <2>1. outbox'[Event].state = outbox[Event].state
        /\ outbox'[Event].attempts = outbox[Event].attempts
    BY <1>14 DEF Tick, O!Tick, Box!TypeOK, Box!OutboxRow
  <2>2. QED
    BY <1>13, <1>14, <2>1 DEF Tick, O!Tick, W!Tick
<1>15. CASE UNCHANGED vars
  BY <1>13, <1>15 DEF vars, outboxVars, runVars
<1>16. QED
  BY <1>4, <1>5, <1>6, <1>7, <1>9, <1>10, <1>11, <1>12, <1>14, <1>15 DEF Next

\* What keeps an unfinished run going, as an inductive invariant.
DrivenInv == RunIsDriven /\ RunningHeld /\ EntriesReady

\* While its plan has no cycle, a run that is not finished waits for its first
\* claim or is worked on by a dispatcher that can go on: no lost claim and no
\* refused completion leaves it to nobody, though the claims of the event and
\* those of the steps expire apart (the loop of execute-workflow-run.ts; what
\* FinishesUnlessBroken needs besides fairness).
THEOREM RunsAreDriven == Acyclic /\ Spec => []RunIsDriven
<1> SUFFICES ASSUME Acyclic PROVE Spec => []RunIsDriven
  OBVIOUS
<1> DEFINE Known == ExecutionInv /\ Box!IInv /\ P!IInv
<1>1. Init => DrivenInv
  BY DEF Init, O!Idle, W!Init, DrivenInv, RunIsDriven, Waiting, RunningHeld, EntriesReady
<1>2. Known /\ Known' /\ DrivenInv /\ [Next]_vars => DrivenInv'
  <2> SUFFICES ASSUME Known, Known', DrivenInv, [Next]_vars
               PROVE  DrivenInv'
    OBVIOUS
  <2>1. Box!TypeOK
    BY DEF Box!IInv
  <2>2. RunningHeld'
    BY <2>1, RunningStaysHeld DEF DrivenInv
  <2>3. EntriesReady'
    BY LedgerSteps, LedgerLeaves DEF ExecutionInv, DrivenInv, EntriesReady
  <2>4. RunIsDriven'
    BY <2>1, <2>2, WorkGoesOn DEF DrivenInv
  <2>5. QED
    BY <2>2, <2>3, <2>4 DEF DrivenInv
<1>3. Spec => []Known
  <2>1. Spec => []Box!IInv
    BY OutboxAssumed, HostOfExecution, Box!HostInvariance, PTL
  <2>2. Spec => []P!IInv
    BY LedgerAssumption, RunOfLedger, P!Invariance, PTL
  <2>3. QED
    BY <2>1, <2>2, ExecutionInvariance, PTL DEF Known
<1>4. DrivenInv => RunIsDriven
  BY DEF DrivenInv
<1> HIDE DEF Known
<1>5. QED
  BY <1>1, <1>2, <1>3, <1>4, PTL DEF Spec

\* Without faults, the event of a run is published when the run is over.
PublishedRunsAreOver ==
  faults.broken = 0 /\ faults.late = 0 /\ outbox[Event].state = "published" => Finished

\* The outbox drops no run: as long as nothing dies, fails or outlives its lease,
\* the event that executes a run is not published before the run is finished
\* (the handler's 'drained' result, which completes the event).
THEOREM DroppedRunsAreOver == Acyclic /\ Spec => []PublishedRunsAreOver
<1>1. ExecutionInv /\ Box!IInv /\ RunIsDriven => PublishedRunsAreOver
  <2> SUFFICES ASSUME ExecutionInv, Box!IInv, RunIsDriven, faults.broken = 0,
                      faults.late = 0, outbox[Event].state = "published"
               PROVE  Finished
    BY DEF PublishedRunsAreOver
  <2>1. ~Waiting
    BY DEF Waiting
  <2>2. ASSUME NEW d \in Dispatchers, AtWork(d) PROVE FALSE
    <3>1. stage[d] # "outside"
      BY <2>2 DEF AtWork, Failing
    <3>2. Event \in disp[d].batch
      BY <3>1, HandlersHoldEvent DEF ExecutionInv, Box!IInv
    <3>3. Box!Owns(d, Event)
      BY <3>2 DEF Box!IInv, Box!HeldWithinLease
    <3>4. QED
      BY <3>3 DEF Box!Owns
  <2>3. QED
    BY <2>1, <2>2 DEF RunIsDriven
<1>2. Spec => []Box!IInv
  BY OutboxAssumed, HostOfExecution, Box!HostInvariance, PTL
<1>3. QED
  BY <1>1, <1>2, ExecutionInvariance, RunsAreDriven, PTL

=============================================================================
