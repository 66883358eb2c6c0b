------------------------------ MODULE Waterfall ------------------------------
(***************************************************************************)
(* A waterfall enrichment of one cell (apps/workflow-worker/src/           *)
(* waterfall.ts and its caller in execute-cell-run.ts): providers are      *)
(* called in the order of the plan until one has a match, and the progress *)
(* is saved after every other answer, for a retry of the run to resume at. *)
(*                                                                         *)
(* The deliveries of the run's event are those of module CellRuns, which   *)
(* shows that one attempt at a time executes it.  Providers are external:  *)
(* a call may have any outcome.                                            *)
(***************************************************************************)
EXTENDS Integers, Sequences

CONSTANTS
  Providers,      \* number of providers in the plan
  MaxRunAttempts, \* MAXIMUM_CELL_RUN_ATTEMPTS
  MaxRunFaults    \* bound: failed statements and crashes

WaterfallParameters ==
  /\ {Providers, MaxRunAttempts} \subseteq Nat \ {0}
  /\ MaxRunFaults \in Nat

VARIABLES
  run,      \* the cell_runs row: its status and how often it was started
  saved,    \* its output column: nextProviderIndex and attempts
  exec,     \* the attempt that executes it
  calls,    \* what the providers were asked, and answered
  runFaults \* failed statements and crashes so far

waterfallVars == <<run, saved, exec, calls, runFaults>>

Outcome == {"match", "no_match", "invalid_input", "rate_limited",
            "provider_error"}
Attempts == Seq([provider : 1 .. Providers, outcome : Outcome])

WaterfallTypeOK ==
  /\ run \in [status : {"queued", "running", "succeeded", "failed", "cancelled"},
             attempt : 0 .. MaxRunAttempts]
  /\ saved \in [next : 1 .. Providers + 1, attempts : Attempts]
  /\ exec \in [stage : {"none", "loop", "answered", "finished", "failed"},
              index : 1 .. Providers + 1, attempts : Attempts,
              retryable : BOOLEAN]
  /\ calls \in Attempts
  /\ runFaults \in 0 .. MaxRunFaults

NoExec == [stage |-> "none", index |-> 1, attempts |-> <<>>,
           retryable |-> FALSE]

WaterfallInit ==
  /\ run = [status |-> "queued", attempt |-> 0]
  /\ saved = [next |-> 1, attempts |-> <<>>]
  /\ exec = NoExec
  /\ calls = <<>>
  /\ runFaults = 0

-----------------------------------------------------------------------------

\* Wrong variant: the next provider stands in for one that is rate limited.
DecisionSkipping(outcome) ==
  CASE outcome = "match"                        -> "stop_success"
    [] outcome \in {"no_match", "rate_limited"} -> "continue"
    [] OTHER                                    -> "stop_failure"

\* decideWaterfallAfterProvider
Decision(outcome) ==
  CASE outcome = "match"        -> "stop_success"
    [] outcome = "no_match"     -> "continue"
    [] outcome = "rate_limited" -> "retry_current"
    [] OTHER                    -> "stop_failure"

\* markSqliteCellRunRunning, and executeWaterfallPlan reads the progress.
StartRun ==
  /\ exec = NoExec
  /\ run.status = "queued"
  /\ run' = [status |-> "running", attempt |-> run.attempt + 1]
  /\ exec' = [NoExec EXCEPT !.stage = "loop", !.index = saved.next,
                            !.attempts = saved.attempts]
  /\ UNCHANGED <<saved, calls, runFaults>>

\* The next provider is called; only a match leaves the loop without a
\* statement.
CallProvider(outcome) ==
  LET attempt == [provider |-> exec.index, outcome |-> outcome]
  IN /\ exec.stage = "loop"
     /\ exec.index <= Providers
     /\ calls' = Append(calls, attempt)
     /\ exec' = [exec EXCEPT
          !.stage = IF Decision(outcome) = "stop_success" THEN "finished"
                    ELSE "answered",
          !.attempts = Append(@, attempt)]
     /\ UNCHANGED <<run, saved, runFaults>>

\* The plan ends without a match.
ExhaustPlan ==
  /\ exec.stage = "loop"
  /\ exec.index > Providers
  /\ exec' = [exec EXCEPT !.stage = "finished"]
  /\ UNCHANGED <<run, saved, calls, runFaults>>

\* saveProgress, which looks at neither the status nor the attempt of the
\* run; then the loop goes on or a ConnectorError leaves it.
SaveProgress ==
  LET answer == exec.attempts[Len(exec.attempts)]
      decision == Decision(answer.outcome)
      next == IF decision = "retry_current" THEN exec.index ELSE exec.index + 1
  IN /\ exec.stage = "answered"
     /\ saved' = [next |-> next, attempts |-> exec.attempts]
     /\ exec' = [exec EXCEPT
          !.index = next,
          !.stage = IF decision = "continue" THEN "loop" ELSE "failed",
          !.retryable = decision = "retry_current"]
     /\ UNCHANGED <<run, calls, runFaults>>

\* markSqliteCellRunSucceeded with the result, or its conflict when the run
\* was cancelled meanwhile.
Succeed ==
  /\ exec.stage = "finished"
  /\ IF run.status = "running"
       THEN /\ run' = [run EXCEPT !.status = "succeeded"]
            /\ saved' = [saved EXCEPT !.attempts = exec.attempts]
            /\ exec' = NoExec
       ELSE /\ exec' = [exec EXCEPT !.stage = "failed", !.retryable = TRUE]
            /\ UNCHANGED <<run, saved>>
  /\ UNCHANGED <<calls, runFaults>>

\* setSqliteCellRunFailure in the catch block, for a run that is not over.
FailOrRetry ==
  /\ exec.stage = "failed"
  /\ exec' = NoExec
  /\ run' = IF run.status \in {"queued", "running"}
       THEN [run EXCEPT !.status =
               IF exec.retryable /\ run.attempt < MaxRunAttempts
                 THEN "queued" ELSE "failed"]
       ELSE run
  /\ UNCHANGED <<saved, calls, runFaults>>

RunFault ==
  /\ runFaults < MaxRunFaults
  /\ runFaults' = runFaults + 1

\* The statement of SaveProgress or Succeed fails: the catch block takes that
\* for a retryable failure of the run.
StatementFails ==
  /\ exec.stage \in {"answered", "finished"}
  /\ RunFault
  /\ exec' = [exec EXCEPT !.stage = "failed", !.retryable = TRUE]
  /\ UNCHANGED <<run, saved, calls>>

\* The statement of the catch block fails, or the worker dies: no attempt
\* may start the run again (CellRuns).
LoseRun ==
  /\ exec # NoExec
  /\ RunFault
  /\ exec' = NoExec
  /\ UNCHANGED <<run, saved, calls>>

\* cancelSqliteBulkRunBatch
CancelRun ==
  /\ run.status \in {"queued", "running"}
  /\ run' = [run EXCEPT !.status = "cancelled"]
  /\ UNCHANGED <<saved, exec, calls, runFaults>>

WaterfallNext ==
  \/ StartRun
  \/ \E outcome \in Outcome : CallProvider(outcome)
  \/ ExhaustPlan \/ SaveProgress \/ Succeed \/ FailOrRetry
  \/ StatementFails \/ LoseRun \/ CancelRun

WaterfallSpec == WaterfallInit /\ [][WaterfallNext]_waterfallVars

-----------------------------------------------------------------------------

Asked(i, provider, outcome) ==
  calls[i].provider = provider /\ calls[i].outcome = outcome

\* The chain of providers is followed across the attempts of a run: the next
\* provider is called only once the one before has answered that it has no
\* match; while no statement fails, none that has answered is called again,
\* except after a rate limit; and a run that succeeded ends with a match or
\* with every provider asked, and has recorded every call.
ChainIsFollowed ==
  /\ \A i \in 1 .. Len(calls) :
       LET earlier == IF i = 1 THEN 0 ELSE calls[i - 1].provider
       IN \/ /\ calls[i].provider = earlier + 1
             /\ i > 1 => calls[i - 1].outcome = "no_match"
          \/ /\ i > 1
             /\ calls[i].provider = earlier
             /\ calls[i - 1].outcome = "rate_limited" \/ runFaults > 0
  /\ run.status = "succeeded" =>
       /\ calls[Len(calls)].outcome = "match" \/ Asked(Len(calls), Providers, "no_match")
       /\ runFaults = 0 => saved.attempts = calls

=============================================================================
