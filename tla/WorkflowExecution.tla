-------------------------- MODULE WorkflowExecution -------------------------
(***************************************************************************)
(* One workflow run executed through the outbox: the dispatch loop of      *)
(* local-dispatcher.ts (module Outbox) runs the handler of                 *)
(* execute-workflow-run.ts, which claims, executes and settles the steps   *)
(* of the run (module WorkflowRun) until none is left to claim.            *)
(*                                                                         *)
(* The two leases are independent: the event's starts when the batch is    *)
(* claimed, a step's when the step is.  They are measured by one clock.    *)
(***************************************************************************)
EXTENDS Integers, FiniteSets

CONSTANTS
  Steps, NoStep, Parent, Handle,
  Kind,          \* node kind of each step
  Dispatchers,   \* worker processes
  NoClaim,       \* the null claim identifier of events and of steps
  Lease,         \* ticks after which a claim is stale: 300 s for both
  MaxWait, MaxRetries,
  MaxAttempts,   \* bound: claims of the event, and of each step
  MaxFaults,     \* bound: crashes and storage errors
  MaxLate        \* bound: claims of the event that expire under a worker

VARIABLES
  outbox, disp, faults,                                    \* module Outbox
  run, status, claim, age, wait, attempt, output, worker,  \* module WorkflowRun
  stage     \* where each dispatcher is in executeWorkflowRun

Event == 1   \* the workflow.run_requested event of the run
Handles == {"rows", "matched", "rejected"}

O == INSTANCE Outbox WITH Events <- {Event}, BatchLimit <- 10
W == INSTANCE WorkflowRun WITH
       Workers <- Dispatchers, NoWorker <- NoClaim,
       RetryDelay <- 0, MaxRetried <- 0

ASSUME ExecutionAssumption ==
  /\ NoStep \notin Steps
  /\ Parent \in [Steps -> Steps \union {NoStep}]
  /\ Handle \in [Steps -> Handles]
  /\ \E s \in Steps : Parent[s] = NoStep
  /\ NoClaim \notin Dispatchers
  /\ {Lease, MaxRetries, MaxAttempts, MaxFaults, MaxLate} \subseteq Nat
  /\ MaxWait \in Nat \ {0}

outboxVars == <<outbox, disp, faults>>
runVars == <<run, status, claim, age, wait, attempt, output, worker>>
vars == <<outboxVars, runVars, stage>>

\* outside the handler; about to claim a step; executing the claimed step;
\* in the catch block of the step, because something threw or because the
\* step's own completion was refused
Stage == {"outside", "loop", "executing", "threw", "refused"}
Failing == {"threw", "refused"}

TypeOK == O!TypeOK /\ W!TypeOK /\ stage \in [Dispatchers -> Stage]

\* createSqliteWorkflowRun commits the run, its steps and the event at once.
Init ==
  /\ W!Init
  /\ outbox = [e \in {Event} |-> [state |-> "pending", claim |-> NoClaim,
                                  age |-> 0, attempts |-> 0, wait |-> 0]]
  /\ disp = [d \in Dispatchers |-> O!Idle]
  /\ faults = [broken |-> 0, late |-> 0]
  /\ stage = [d \in Dispatchers |-> "outside"]

Step(d) == worker[d].step

Goto(d, place) == stage' = [stage EXCEPT ![d] = place]

\* Wrong variant: destinations report their rows as an active output.
ResultsOfDestinations(s) ==
  IF W!Targets(s) = {} THEN {{"rows"}} ELSE SUBSET W!AllowedHandles(s)

\* executeClaimedWorkflowStep: the output handles a step of each kind may
\* activate.  An enrichment only ever receives a non-empty batch, since a
\* handle is activated only for one.
Results(s) ==
  CASE Kind[s] = "trigger.table_rows"   -> {{}, {"rows"}}
    [] Kind[s] = "action.enrich_column" -> {{"rows"}}
    [] Kind[s] = "logic.filter"         ->
         SUBSET ({"matched", "rejected"} \intersect W!AllowedHandles(s))
    [] OTHER                            -> {{}}

-----------------------------------------------------------------------------

\* The dispatcher claims the event and enters the handler.
Dispatch(d) ==
  /\ O!Claim(d)
  /\ Goto(d, "loop")
  /\ UNCHANGED runVars

\* The handler claims the next step of the run.
ClaimStep(d) ==
  /\ stage[d] = "loop"
  /\ \E s \in Steps : W!Claim(d, s)
  /\ Goto(d, "executing")
  /\ UNCHANGED outboxVars

\* No step can be claimed: the handler returns 'drained', a success.
Drained(d) ==
  /\ stage[d] = "loop"
  /\ \A s \in Steps : ~W!Eligible(s)
  /\ O!HandlerReturns(d, "ok")
  /\ Goto(d, "outside")
  /\ UNCHANGED runVars

\* The step was executed and its result is recorded.
CompleteStep(d) ==
  /\ stage[d] = "executing"
  /\ \E H \in Results(Step(d)) : W!Complete(d, Step(d), H)
  /\ Goto(d, "loop")
  /\ UNCHANGED outboxVars

\* The result is refused: the claim was lost, the run is over, or the step
\* activated a handle that no route leaves from.
CompletionRefused(d) ==
  /\ stage[d] = "executing"
  /\ \/ ~W!Owns(d, Step(d))
     \/ run # "running"
     \/ \E H \in Results(Step(d)) : ~(H \subseteq W!AllowedHandles(Step(d)))
  /\ Goto(d, "refused")
  /\ UNCHANGED <<outboxVars, runVars>>

\* Loading or executing the step throws: the requesting user is gone, the
\* configuration is invalid, or a nested delivery or cell run fails.
ExecutionThrows(d) ==
  /\ stage[d] = "executing"
  /\ Goto(d, "threw")
  /\ UNCHANGED <<outboxVars, runVars>>

\* The catch block fails the step and throws a non-retryable error.
FailStep(d) ==
  /\ stage[d] \in Failing
  /\ W!Fail(d, Step(d))
  /\ O!HandlerReturns(d, "fatal")
  /\ Goto(d, "outside")

\* The catch block finds the claim lost; its own conflict leaves the handler.
FailStepConflict(d) ==
  /\ stage[d] \in Failing
  /\ ~W!Owns(d, Step(d))
  /\ W!Abandon(d)
  /\ O!HandlerReturns(d, "retryable")
  /\ Goto(d, "outside")

\* The error of a statement outside the try block, or inside the catch block,
\* leaves the handler.
ErrorLeaves(d) ==
  /\ Goto(d, "outside")
  /\ disp' = [disp EXCEPT ![d].outcome = "retryable"]

\* A database call of the handler fails: the claim of a step, a call while the
\* step is executed, or that of the catch block, which leaves the step claimed.
StorageFault(d) ==
  /\ O!Fault
  /\ \/ /\ stage[d] = "loop"
        /\ ErrorLeaves(d)
        /\ UNCHANGED runVars
     \/ /\ stage[d] = "executing"
        /\ Goto(d, "threw")
        /\ UNCHANGED <<disp, runVars>>
     \/ /\ stage[d] \in Failing
        /\ ErrorLeaves(d)
        /\ W!Abandon(d)
  /\ UNCHANGED outbox

\* The dispatcher settles the event.
Settle(d) ==
  /\ \/ O!Publish(d, Event)
     \/ O!Retry(d, Event)
     \/ O!LostClaim(d, Event)
     \/ O!StorageError(d)
  /\ UNCHANGED <<runVars, stage>>

\* The process dies and restarts, wherever it was.
Crash(d) ==
  /\ O!Crash(d)
  /\ worker' = [worker EXCEPT ![d] = W!Nothing]
  /\ Goto(d, "outside")
  /\ UNCHANGED <<run, status, claim, age, wait, attempt, output>>

Tick ==
  /\ O!Tick
  /\ W!Tick
  /\ UNCHANGED stage

Next ==
  \/ \E d \in Dispatchers :
       \/ Dispatch(d)
       \/ ClaimStep(d)
       \/ Drained(d)
       \/ CompleteStep(d)
       \/ CompletionRefused(d)
       \/ ExecutionThrows(d)
       \/ FailStep(d)
       \/ FailStepConflict(d)
       \/ StorageFault(d)
       \/ Settle(d)
       \/ Crash(d)
  \/ Tick

Spec == Init /\ [][Next]_vars

\* The dispatch loop polls for ever, step executions end, time passes.
Fairness ==
  /\ WF_vars(Tick)
  /\ \A d \in Dispatchers :
       /\ WF_vars(Dispatch(d))
       /\ WF_vars(ClaimStep(d) \/ Drained(d))
       /\ WF_vars(CompleteStep(d) \/ CompletionRefused(d))
       /\ WF_vars(FailStep(d) \/ FailStepConflict(d))
       /\ WF_vars(Settle(d))

FairSpec == Spec /\ Fairness

-----------------------------------------------------------------------------

Finished == run \in {"succeeded", "failed"}

\* A run fails only because executing a step threw: a completion that is
\* refused, to a worker that was overtaken or for the handles a step
\* returned, never turns an executed step into a failed run. (In a plan whose
\* triggers and enrichments lead their rows on, as the one that is run here:
\* see RowsLeadOn in WorkflowExecutionProofs.)
FailsOnlyOnError ==
  [][(run' = "failed" /\ run # "failed") =>
       \E d \in Dispatchers : stage[d] = "threw" /\ stage'[d] = "outside"]_vars

\* What an execution comes to counts only for the attempt that the step is at: a
\* running step is settled, by a completion or in the catch block, by the
\* dispatcher that holds its latest attempt, or it is cancelled because another
\* step failed in such an attempt.  A dispatcher that was overtaken, after the
\* leases of event and step have expired under it apart, neither succeeds nor
\* fails the step another one executes, and with it the run.
SettledByLatestAttempt ==
  [][\A s \in Steps : status[s] = "running" /\ status'[s] # "running" =>
       \/ status'[s] = "cancelled" /\ run' = "failed"
       \/ /\ status'[s] \in {"succeeded", "failed"}
          /\ \E d \in Dispatchers :
               /\ worker[d] = [step |-> s, attempt |-> attempt[s]]
               /\ worker'[d] = W!Nothing]_vars

\* Every run is eventually finished, unless a process dies or a statement
\* fails, whatever steps throw and whichever worker overtakes another.
FinishesUnlessBroken == <>(Finished \/ faults.broken > 0)

\* Every run is eventually finished.
EventuallyFinished == <>Finished

=============================================================================
