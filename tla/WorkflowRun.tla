----------------------------- MODULE WorkflowRun ----------------------------
(***************************************************************************)
(* The ledger of one workflow run                                          *)
(* (packages/db/src/sqlite/workflow-runs.ts): the workflow_runs row and    *)
(* its workflow_step_runs rows, driven by workers that claim a step under  *)
(* an expiring lease, execute it and settle it.                            *)
(*                                                                         *)
(* The plan is pinned by the run and never changes: a forest, since every  *)
(* node kind has at most one input and every input at most one edge.       *)
(* Every exported operation is one immediate transaction, hence one        *)
(* action.  A claim identifier is the name of the worker that drew it; a   *)
(* worker executes one step at a time and forgets it before it draws the   *)
(* next identifier.  A claim's age and a step's remaining retry delay are  *)
(* kept instead of the time stamps, and saturate.                          *)
(***************************************************************************)
EXTENDS Integers, FiniteSets

CONSTANTS
  Steps,        \* step identifiers of the compiled plan
  NoStep,       \* the parent of an entry step
  Parent,       \* source step of a step's single inbound route
  Handle,       \* source handle of that route
  Handles,      \* output handles: rows, matched, rejected
  Workers,      \* claim identifiers
  NoWorker,     \* the null claimId
  Lease,        \* ticks after which a claim is stale (leaseSeconds)
  RetryDelay,   \* ticks until nextAttemptAt of a retried step
  MaxAttempts,  \* bound: claims of one step that a behaviour explores
  MaxRetried    \* bound: retries of one step that a behaviour explores

ASSUME WorkflowAssumption ==
  /\ NoStep \notin Steps
  /\ Parent \in [Steps -> Steps \union {NoStep}]
  /\ Handle \in [Steps -> Handles]
  /\ \E s \in Steps : Parent[s] = NoStep
  /\ NoWorker \notin Workers
  /\ Lease \in Nat
  /\ RetryDelay \in Nat
  /\ MaxAttempts \in Nat
  /\ MaxRetried \in Nat

VARIABLES
  run,      \* status of the workflow_runs row
  status,   \* status of each workflow_step_runs row
  claim,    \* its claimId
  age,      \* how long ago its claimedAt is
  wait,     \* how far away its nextAttemptAt is
  attempt,  \* its attempt count
  output,   \* its output: the attempt that produced it and the handles taken
  worker    \* what each worker holds: the step and attempt its claim returned

row == <<status, claim, age, wait, attempt, output>>
vars == <<run, row, worker>>

RunStatus == {"queued", "running", "succeeded", "failed"}
StepStatus ==
  {"blocked", "ready", "running", "succeeded", "failed", "skipped", "cancelled"}

\* The statuses that completion counts as remaining and failure sweeps.
Unfinished == {"blocked", "ready", "running"}

Output == [attempt : Nat, handles : SUBSET Handles]
Holding == [step : Steps \union {NoStep}, attempt : Nat]

TypeOK ==
  /\ run \in RunStatus
  /\ status \in [Steps -> StepStatus]
  /\ claim \in [Steps -> Workers \union {NoWorker}]
  /\ age \in [Steps -> 0 .. Lease + 1]
  /\ wait \in [Steps -> 0 .. RetryDelay]
  /\ attempt \in [Steps -> Nat]
  /\ output \in [Steps -> Output]
  /\ worker \in [Workers -> Holding]

-----------------------------------------------------------------------------

Nothing == [step |-> NoStep, attempt |-> 0]

\* createSqliteWorkflowRun: entry steps are ready, all others blocked.
Init ==
  /\ run = "queued"
  /\ status = [s \in Steps |-> IF Parent[s] = NoStep THEN "ready" ELSE "blocked"]
  /\ claim = [s \in Steps |-> NoWorker]
  /\ age = [s \in Steps |-> 0]
  /\ wait = [s \in Steps |-> 0]
  /\ attempt = [s \in Steps |-> 0]
  /\ output = [s \in Steps |-> [attempt |-> 0, handles |-> {}]]
  /\ worker = [w \in Workers |-> Nothing]

\* The targets of a step's outbound routes.
Targets(s) == {t \in Steps : Parent[t] = s}

\* The source handles of a step's outbound routes.
AllowedHandles(s) == {Handle[t] : t \in Targets(s)}

\* The targets behind the active handles.
ActiveTargets(s, H) == {t \in Targets(s) : Handle[t] \in H}

\* Wrong variant: only the direct targets are skipped.
SkippedDirect(initial, protected) == initial \ protected

\* collectSkippedDescendants: the least set that holds the initial steps and
\* all targets of its members, except protected steps.
SkippedDescendants(initial, protected) ==
  {t \in Steps :
     \A C \in SUBSET Steps :
       (/\ initial \ protected \subseteq C
        /\ \A c \in C : Targets(c) \ protected \subseteq C) => t \in C}

\* Wrong variant: the steps of a queued run cannot be claimed.
EligibleRunning(s) ==
  /\ run = "running"
  /\ \/ status[s] = "ready" /\ wait[s] = 0
     \/ status[s] = "running" /\ age[s] > Lease

\* workflowStepEligibility
Eligible(s) ==
  /\ run \in {"queued", "running"}
  /\ \/ status[s] = "ready" /\ wait[s] = 0
     \/ status[s] = "running" /\ age[s] > Lease

\* Wrong variant: no claim fence.
OwnsUnfenced(w, s) == status[s] = "running"

\* stepClaimScope
Owns(w, s) == claim[s] = w /\ status[s] = "running"

-----------------------------------------------------------------------------

\* claimSqliteWorkflowSteps with limit 1, by a worker without a step.
Claim(w, s) ==
  /\ worker[w].step = NoStep
  /\ Eligible(s)
  /\ attempt[s] < MaxAttempts
  /\ status' = [status EXCEPT ![s] = "running"]
  /\ claim' = [claim EXCEPT ![s] = w]
  /\ age' = [age EXCEPT ![s] = 0]
  /\ wait' = [wait EXCEPT ![s] = 0]
  /\ attempt' = [attempt EXCEPT ![s] = @ + 1]
  /\ run' = "running"
  /\ worker' = [worker EXCEPT ![w] = [step |-> s, attempt |-> attempt[s] + 1]]
  /\ UNCHANGED output

\* completeSqliteWorkflowStep: record the output, make the targets of the
\* active handles ready, skip the rest, finish the run when nothing is left.
Complete(w, s, H) ==
  LET active  == ActiveTargets(s, H)
      skipped == SkippedDescendants(Targets(s) \ active, active)
  IN  /\ worker[w].step = s
      /\ run = "running"
      /\ H \subseteq AllowedHandles(s)
      /\ Owns(w, s)
      /\ status' = [t \in Steps |->
           CASE t = s                                       -> "succeeded"
             [] t \in active /\ status[t] = "blocked"       -> "ready"
             [] t \in skipped /\ status[t] = "blocked"      -> "skipped"
             [] OTHER                                       -> status[t]]
      /\ claim' = [claim EXCEPT ![s] = NoWorker]
      /\ age' = [age EXCEPT ![s] = 0]
      /\ wait' = [wait EXCEPT ![s] = 0]
      /\ output' = [output EXCEPT ![s] =
                      [attempt |-> worker[w].attempt, handles |-> H]]
      /\ run' = IF \E t \in Steps : status'[t] \in Unfinished
                  THEN run ELSE "succeeded"
      /\ worker' = [worker EXCEPT ![w] = Nothing]
      /\ UNCHANGED attempt

\* Wrong variant: the update names the step, and not the claim.
FailUnfenced(w, s) ==
  LET swept == {t \in Steps : t = s \/ status[t] \in Unfinished} IN
  /\ worker[w].step = s
  /\ status[s] = "running"
  /\ status' = [t \in Steps |-> IF t = s THEN "failed"
                               ELSE IF t \in swept THEN "cancelled" ELSE status[t]]
  /\ claim' = [t \in Steps |-> IF t \in swept THEN NoWorker ELSE claim[t]]
  /\ age' = [t \in Steps |-> IF t \in swept THEN 0 ELSE age[t]]
  /\ run' = IF run \in {"queued", "running"} THEN "failed" ELSE run
  /\ worker' = [worker EXCEPT ![w] = Nothing]
  /\ UNCHANGED <<wait, attempt, output>>

\* failSqliteWorkflowStep: the step fails, its unfinished siblings are
\* cancelled and the run fails.
Fail(w, s) ==
  /\ worker[w].step = s
  /\ Owns(w, s)
  /\ status' = [t \in Steps |->
       CASE t = s                               -> "failed"
         [] t # s /\ status[t] \in Unfinished   -> "cancelled"
         [] OTHER                               -> status[t]]
  /\ claim' = [t \in Steps |->
       IF t = s \/ status[t] \in Unfinished THEN NoWorker ELSE claim[t]]
  /\ age' = [t \in Steps |->
       IF t = s \/ status[t] \in Unfinished THEN 0 ELSE age[t]]
  /\ run' = IF run \in {"queued", "running"} THEN "failed" ELSE run
  /\ worker' = [worker EXCEPT ![w] = Nothing]
  /\ UNCHANGED <<wait, attempt, output>>

\* retrySqliteWorkflowStep: back to ready with a future nextAttemptAt.
Retry(w, s) ==
  /\ worker[w].step = s
  /\ Owns(w, s)
  /\ worker[w].attempt <= MaxRetried
  /\ status' = [status EXCEPT ![s] = "ready"]
  /\ claim' = [claim EXCEPT ![s] = NoWorker]
  /\ age' = [age EXCEPT ![s] = 0]
  /\ wait' = [wait EXCEPT ![s] = RetryDelay]
  /\ worker' = [worker EXCEPT ![w] = Nothing]
  /\ UNCHANGED <<run, attempt, output>>

\* A worker lets go of its step without settling it: a conflict because the
\* lease was lost, or the death of the process.
Abandon(w) ==
  /\ worker[w].step # NoStep
  /\ worker' = [worker EXCEPT ![w] = Nothing]
  /\ UNCHANGED <<run, row>>

\* Time passes.
Tick ==
  /\ age' = [s \in Steps |->
       IF claim[s] = NoWorker \/ age[s] > Lease THEN age[s] ELSE age[s] + 1]
  /\ wait' = [s \in Steps |-> IF wait[s] = 0 THEN 0 ELSE wait[s] - 1]
  /\ UNCHANGED <<run, status, claim, attempt, output, worker>>

Next ==
  \/ \E w \in Workers, s \in Steps :
       \/ Claim(w, s)
       \/ \E H \in SUBSET Handles : Complete(w, s, H)
       \/ Fail(w, s)
       \/ Retry(w, s)
  \/ \E w \in Workers : Abandon(w)
  \/ Tick

Spec == Init /\ [][Next]_vars

-----------------------------------------------------------------------------

\* Every step stands where the outcome of its predecessor puts it: behind a
\* handle that was taken it has been released, behind one that was not it
\* is skipped, and it waits exactly while its predecessor is unfinished.
\* This is what route activation and collectSkippedDescendants establish
\* between them, in whatever order the branches of the plan complete.
BranchesFollowOutputs ==
  \A s \in Steps : Parent[s] # NoStep =>
    LET p == Parent[s] IN
    /\ status[s] = "blocked" => status[p] \in Unfinished
    /\ status[s] \in {"ready", "running", "succeeded", "failed"} =>
         status[p] = "succeeded" /\ Handle[s] \in output[p].handles
    /\ status[s] = "skipped" =>
         \/ status[p] = "skipped"
         \/ status[p] = "succeeded" /\ Handle[s] \notin output[p].handles

\* A run is finished exactly when no step is left to do, succeeds only if no
\* step failed and fails only if one did: the count of remaining steps in
\* completeSqliteWorkflowStep and the sweep in failSqliteWorkflowStep miss
\* nothing.
RunMatchesSteps ==
  /\ run \in {"succeeded", "failed"} <=> \A s \in Steps : status[s] \notin Unfinished
  /\ run = "succeeded" => \A s \in Steps : status[s] \in {"succeeded", "skipped"}
  /\ run = "failed" <=> \E s \in Steps : status[s] = "failed"

\* A stale worker cannot overwrite a newer attempt: the output of a step
\* that succeeded is the one its latest attempt produced.
OutputOfLatestAttempt ==
  \A s \in Steps : status[s] = "succeeded" => output[s].attempt = attempt[s]

\* A settled step is final, and so is a finished run: no late completion,
\* failure or retry of a worker whose claim expired changes them.
SettledIsFinal ==
  [][/\ run \in {"succeeded", "failed"} => run' = run
     /\ \A s \in Steps : status[s] \notin Unfinished =>
          status'[s] = status[s] /\ output'[s] = output[s]]_vars

\* The run and its steps as BranchRun sees them.
Open == run \in {"queued", "running"}

PhaseOf ==
  [s \in Steps |-> CASE status[s] = "blocked"             -> "waiting"
                     [] status[s] \in {"ready", "running"} -> "active"
                     [] OTHER                              -> status[s]]

Abstract == INSTANCE BranchRun WITH open <- Open, phase <- PhaseOf

\* The ledger does what BranchRun promises: claims, leases, lost workers and
\* retries are invisible at the level of branches.
ImplementsBranchRun == Abstract!Spec

=============================================================================
