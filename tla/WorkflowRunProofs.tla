-------------------------- MODULE WorkflowRunProofs -------------------------
(***************************************************************************)
(* Proofs about the ledger of a workflow run, for every plan, every number *)
(* of workers and every lease: type correctness, the branch and run        *)
(* invariants, the fencing of outputs, finality, and the refinement of     *)
(* BranchRun.                                                              *)
(***************************************************************************)
EXTENDS WorkflowRun, TLAPS

\* Completion, failure and retry by a worker whose claim still stands settle
\* the attempt that the row counts.
HeldAttempt ==
  \A w \in Workers, s \in Steps :
    (worker[w].step = s /\ Owns(w, s)) => worker[w].attempt = attempt[s]

\* Steps are cancelled by a failing run only.
CancelledByFailure ==
  \A s \in Steps : status[s] = "cancelled" => run = "failed"

\* The inductive invariant.
IInv ==
  /\ TypeOK
  /\ BranchesFollowOutputs
  /\ RunMatchesSteps
  /\ CancelledByFailure
  /\ HeldAttempt
  /\ OutputOfLatestAttempt

-----------------------------------------------------------------------------

\* Everything the run reads and writes has its type
\* (the columns of workflow_runs and workflow_step_runs).
THEOREM TypeCorrect == Spec => []TypeOK
<1> USE WorkflowAssumption
<1>1. Init => TypeOK
  BY DEF Init, TypeOK, RunStatus, StepStatus, Output, Holding, Nothing
<1>2. TypeOK /\ [Next]_vars => TypeOK'
  <2> SUFFICES ASSUME TypeOK, [Next]_vars PROVE TypeOK'
    OBVIOUS
  <2> USE DEF TypeOK, RunStatus, StepStatus, Output, Holding, Nothing
  <2>1. ASSUME NEW w \in Workers, NEW s \in Steps, Claim(w, s) PROVE TypeOK'
    BY <2>1 DEF Claim
  <2>2. ASSUME NEW w \in Workers, NEW s \in Steps, NEW H \in SUBSET Handles,
               Complete(w, s, H)
        PROVE  TypeOK'
    <3>1. status' \in [Steps -> StepStatus]
      BY <2>2 DEF Complete
    <3>2. run' \in RunStatus
      BY <2>2 DEF Complete
    <3>3. output' \in [Steps -> Output]
      BY <2>2 DEF Complete
    <3>4. QED
      BY <2>2, <3>1, <3>2, <3>3 DEF Complete
  <2>3. ASSUME NEW w \in Workers, NEW s \in Steps, Fail(w, s) PROVE TypeOK'
    BY <2>3 DEF Fail
  <2>4. ASSUME NEW w \in Workers, NEW s \in Steps, Retry(w, s) PROVE TypeOK'
    BY <2>4 DEF Retry
  <2>5. ASSUME NEW w \in Workers, Abandon(w) PROVE TypeOK'
    BY <2>5 DEF Abandon, row
  <2>6. ASSUME Tick PROVE TypeOK'
    <3>1. age' \in [Steps -> 0 .. Lease + 1]
      <4>1. \A s \in Steps : age[s] \in 0 .. Lease + 1
        OBVIOUS
      <4>2. \A s \in Steps :
              (IF claim[s] = NoWorker \/ age[s] > Lease THEN age[s] ELSE age[s] + 1)
                \in 0 .. Lease + 1
        BY <4>1
      <4>3. QED
        BY <2>6, <4>2 DEF Tick
    <3>2. wait' \in [Steps -> 0 .. RetryDelay]
      <4>1. \A s \in Steps : wait[s] \in 0 .. RetryDelay
        OBVIOUS
      <4>2. \A s \in Steps :
              (IF wait[s] = 0 THEN 0 ELSE wait[s] - 1) \in 0 .. RetryDelay
        <5>1. \A n \in 0 .. RetryDelay :
                (IF n = 0 THEN 0 ELSE n - 1) \in 0 .. RetryDelay
          OBVIOUS
        <5>2. QED
          BY <4>1, <5>1
      <4>3. QED
        BY <2>6, <4>2 DEF Tick
    <3>3. QED
      BY <2>6, <3>1, <3>2 DEF Tick
  <2>7. CASE UNCHANGED vars
    BY <2>7 DEF vars, row
  <2>8. QED
    BY <2>1, <2>2, <2>3, <2>4, <2>5, <2>6, <2>7 DEF Next
<1>3. QED
  BY <1>1, <1>2, PTL DEF Spec

-----------------------------------------------------------------------------

\* SkippedDescendants is closed under unprotected targets
\* (the loop of collectSkippedDescendants leaves nothing pending).
LEMMA SkippedClosed ==
  ASSUME NEW I, I \subseteq Steps, NEW P
  PROVE  /\ I \ P \subseteq SkippedDescendants(I, P)
         /\ \A c \in SkippedDescendants(I, P) :
              Targets(c) \ P \subseteq SkippedDescendants(I, P)
BY DEF SkippedDescendants, Targets

\* It is the least such set.
LEMMA SkippedLeast ==
  ASSUME NEW I, NEW P, NEW C \in SUBSET Steps,
         I \ P \subseteq C,
         \A c \in C : Targets(c) \ P \subseteq C
  PROVE  SkippedDescendants(I, P) \subseteq C
BY DEF SkippedDescendants

\* What completing step s touches: only blocked steps, each of them skipped
\* because its predecessor is, or because s does not take the route to it.
LEMMA SkippedFacts ==
  ASSUME WorkflowAssumption, TypeOK, BranchesFollowOutputs, CancelledByFailure,
         NEW s \in Steps, NEW H,
         status[s] = "running", run = "running"
  PROVE  LET A == ActiveTargets(s, H)
             K == SkippedDescendants(Targets(s) \ A, A)
         IN  /\ K \subseteq Steps /\ A \subseteq Steps
             /\ \A t \in A : status[t] = "blocked" /\ Parent[t] = s /\ Handle[t] \in H
             /\ \A t \in K : status[t] = "blocked" /\ t \notin A
             /\ \A t \in K : \/ Parent[t] \in K
                             \/ Parent[t] = s /\ Handle[t] \notin H
             /\ \A t \in Steps : Parent[t] = s => t \in A \/ t \in K
             /\ \A t \in Steps : Parent[t] \in K => t \in K
<1> DEFINE A == ActiveTargets(s, H)
           I == Targets(s) \ A
           K == SkippedDescendants(I, A)
<1>1. A \subseteq Targets(s) /\ I \subseteq Steps /\ A \subseteq Steps /\ K \subseteq Steps
  BY DEF ActiveTargets, Targets, SkippedDescendants
<1>2. \A p \in Steps : status[p] \in Unfinished =>
        \A t \in Targets(p) : status[t] = "blocked"
  BY WorkflowAssumption
     DEF Targets, BranchesFollowOutputs, CancelledByFailure, TypeOK, StepStatus, Unfinished
<1>3. \A t \in Targets(s) : status[t] = "blocked"
  BY <1>2 DEF Unfinished
<1>4. K \subseteq {t \in Steps : status[t] = "blocked" /\ t \notin A}
  <2> DEFINE C == {t \in Steps : status[t] = "blocked" /\ t \notin A}
  <2>1. I \ A \subseteq C
    BY <1>1, <1>3
  <2>2. \A c \in C : Targets(c) \ A \subseteq C
    BY <1>2 DEF Unfinished, Targets
  <2>3. QED
    BY <2>1, <2>2, SkippedLeast
<1>5. I \ A \subseteq K /\ \A c \in K : Targets(c) \ A \subseteq K
  BY <1>1, SkippedClosed
<1>6. K \subseteq {t \in K : Parent[t] \in K \/ (Parent[t] = s /\ Handle[t] \notin H)}
  <2> DEFINE C == {t \in K : Parent[t] \in K \/ (Parent[t] = s /\ Handle[t] \notin H)}
  <2>1. C \in SUBSET Steps
    BY <1>1
  <2>2. I \ A \subseteq C
    BY <1>5 DEF ActiveTargets, Targets
  <2>3. \A c \in C : Targets(c) \ A \subseteq C
    BY <1>5 DEF Targets
  <2> HIDE DEF C
  <2>4. K \subseteq C
    BY <2>1, <2>2, <2>3, SkippedLeast
  <2>5. QED
    BY <2>4 DEF C
<1>7. \A t \in Steps : Parent[t] = s => t \in A \/ t \in K
  BY <1>5 DEF Targets
<1>8. \A t \in A : Parent[t] = s /\ Handle[t] \in H /\ status[t] = "blocked"
  BY <1>3 DEF ActiveTargets, Targets
<1>9. \A t \in Steps : Parent[t] \in K => t \in K
  <2> SUFFICES ASSUME NEW t \in Steps, Parent[t] \in K PROVE t \in K
    OBVIOUS
  <2>1. t \in Targets(Parent[t])
    BY DEF Targets
  <2>2. t \notin A
    BY <1>4, <1>8
  <2>3. QED
    BY <2>1, <2>2, <1>5
<1> HIDE DEF K
<1>10. \A t \in K : Parent[t] \in K \/ (Parent[t] = s /\ Handle[t] \notin H)
  BY <1>6
<1>11. \A t \in K : status[t] = "blocked" /\ t \notin A
  BY <1>4
<1>12. QED
  BY <1>1, <1>7, <1>8, <1>9, <1>10, <1>11 DEF K

-----------------------------------------------------------------------------

\* What completing step s does to the steps
\* (completeSqliteWorkflowStep up to the count of remaining steps).
LEMMA CompleteEffect ==
  ASSUME WorkflowAssumption, IInv,
         NEW w \in Workers, NEW s \in Steps, NEW H \in SUBSET Handles,
         Complete(w, s, H),
         NEW A, A = ActiveTargets(s, H),
         NEW K, K = SkippedDescendants(Targets(s) \ A, A)
  PROVE  /\ status[s] = "running" /\ run = "running"
         /\ K \subseteq Steps /\ A \subseteq Steps
         /\ \A t \in A : status[t] = "blocked" /\ Parent[t] = s /\ Handle[t] \in H
         /\ \A t \in K : status[t] = "blocked" /\ t \notin A
         /\ \A t \in K : Parent[t] \in K \/ (Parent[t] = s /\ Handle[t] \notin H)
         /\ \A t \in Steps : Parent[t] = s => t \in A \/ t \in K
         /\ \A t \in Steps : Parent[t] \in K => t \in K
         /\ status'[s] = "succeeded"
         /\ \A t \in A : status'[t] = "ready"
         /\ \A t \in K : status'[t] = "skipped"
         /\ \A t \in Steps : (t # s /\ t \notin A /\ t \notin K) =>
              status'[t] = status[t]
         /\ output'[s].handles = H
         /\ \A t \in Steps : t # s => output'[t] = output[t]
<1>1. status[s] = "running" /\ run = "running"
  BY DEF Complete, Owns
<1>2. /\ K \subseteq Steps /\ A \subseteq Steps
      /\ \A t \in A : status[t] = "blocked" /\ Parent[t] = s /\ Handle[t] \in H
      /\ \A t \in K : status[t] = "blocked" /\ t \notin A
      /\ \A t \in K : Parent[t] \in K \/ (Parent[t] = s /\ Handle[t] \notin H)
      /\ \A t \in Steps : Parent[t] = s => t \in A \/ t \in K
      /\ \A t \in Steps : Parent[t] \in K => t \in K
  BY <1>1, SkippedFacts DEF IInv
<1>3. status' = [t \in Steps |->
         CASE t = s                                -> "succeeded"
           [] t \in A /\ status[t] = "blocked"     -> "ready"
           [] t \in K /\ status[t] = "blocked"     -> "skipped"
           [] OTHER                                -> status[t]]
  BY DEF Complete
<1>4. /\ output'[s].handles = H
      /\ \A t \in Steps : t # s => output'[t] = output[t]
  BY DEF Complete, IInv, TypeOK
<1>5. s \notin A /\ s \notin K
  BY <1>1, <1>2
<1>6. /\ status'[s] = "succeeded"
      /\ \A t \in A : status'[t] = "ready"
      /\ \A t \in K : status'[t] = "skipped"
      /\ \A t \in Steps : (t # s /\ t \notin A /\ t \notin K) =>
           status'[t] = status[t]
  BY <1>2, <1>3, <1>5
<1>7. QED
  BY <1>1, <1>2, <1>4, <1>6

\* Completing a step preserves the branch and run invariants: the heart of
\* completeSqliteWorkflowStep.
LEMMA CompletePreserves ==
  ASSUME WorkflowAssumption, IInv, TypeOK',
         NEW w \in Workers, NEW s \in Steps, NEW H \in SUBSET Handles,
         Complete(w, s, H)
  PROVE  /\ BranchesFollowOutputs'
         /\ RunMatchesSteps'
         /\ CancelledByFailure'
<1> DEFINE A == ActiveTargets(s, H)
           K == SkippedDescendants(Targets(s) \ A, A)
<1>0. A = ActiveTargets(s, H) /\ K = SkippedDescendants(Targets(s) \ A, A)
  OBVIOUS
<1> HIDE DEF A, K
<1>1. status[s] = "running" /\ run = "running"
  BY DEF Complete, Owns
<1>2. /\ K \subseteq Steps /\ A \subseteq Steps
      /\ \A t \in A : status[t] = "blocked" /\ Parent[t] = s /\ Handle[t] \in H
      /\ \A t \in K : status[t] = "blocked" /\ t \notin A
      /\ \A t \in K : Parent[t] \in K \/ (Parent[t] = s /\ Handle[t] \notin H)
      /\ \A t \in Steps : Parent[t] = s => t \in A \/ t \in K
      /\ \A t \in Steps : Parent[t] \in K => t \in K
  BY <1>0, CompleteEffect
<1>3. /\ status'[s] = "succeeded"
      /\ \A t \in A : status'[t] = "ready"
      /\ \A t \in K : status'[t] = "skipped"
      /\ \A t \in Steps : (t # s /\ t \notin A /\ t \notin K) =>
           status'[t] = status[t]
  BY <1>0, CompleteEffect
<1>4. /\ output'[s].handles = H
      /\ \A t \in Steps : t # s => output'[t] = output[t]
  BY <1>0, CompleteEffect
<1>5. run' = IF \E t \in Steps : status'[t] \in Unfinished THEN run ELSE "succeeded"
  BY DEF Complete
<1>6. \A t \in Steps : status[t] \notin {"failed", "cancelled"}
  BY <1>1 DEF IInv, RunMatchesSteps, CancelledByFailure
<1>7. \A t \in Steps : status[t] \in StepStatus /\ status'[t] \in StepStatus
  BY DEF IInv, TypeOK
<1>8. \A t \in Steps : status'[t] \notin {"failed", "cancelled"}
  BY <1>2, <1>3, <1>6
<1>9. BranchesFollowOutputs'
  <2> SUFFICES ASSUME NEW t \in Steps, Parent[t] # NoStep
               PROVE  LET p == Parent[t] IN
                 /\ status'[t] = "blocked" => status'[p] \in Unfinished
                 /\ status'[t] \in {"ready", "running", "succeeded", "failed"} =>
                      status'[p] = "succeeded" /\ Handle[t] \in output'[p].handles
                 /\ status'[t] = "skipped" =>
                      \/ status'[p] = "skipped"
                      \/ status'[p] = "succeeded" /\ Handle[t] \notin output'[p].handles
    BY DEF BranchesFollowOutputs
  <2> DEFINE p == Parent[t]
  <2>1. p \in Steps
    BY DEF WorkflowAssumption
  <2>2. /\ status[t] = "blocked" => status[p] \in Unfinished
        /\ status[t] \in {"ready", "running", "succeeded", "failed"} =>
             status[p] = "succeeded" /\ Handle[t] \in output[p].handles
        /\ status[t] = "skipped" =>
             \/ status[p] = "skipped"
             \/ status[p] = "succeeded" /\ Handle[t] \notin output[p].handles
    BY DEF IInv, BranchesFollowOutputs
  <2> HIDE DEF p
  <2>3. CASE t \in A
    BY <2>3, <1>1, <1>2, <1>3, <1>4 DEF p
  <2>4. CASE t \in K
    <3>1. p = s \/ p \in K
      BY <2>4, <1>2 DEF p
    <3>2. status'[t] = "skipped"
      BY <2>4, <1>3
    <3>3. CASE p \in K
      BY <3>2, <3>3, <1>3 DEF p
    <3>4. CASE p = s
      <4>1. Handle[t] \notin H
        BY <2>4, <3>4, <1>1, <1>2 DEF p
      <4>2. QED
        BY <4>1, <3>2, <3>4, <1>3, <1>4 DEF p
    <3>5. QED
      BY <3>1, <3>3, <3>4
  <2>5. CASE t \notin A /\ t \notin K
    <3>1. p # s /\ p \notin K
      BY <2>5, <1>2 DEF p
    <3>2. CASE p \in A
      <4>1. status[p] = "blocked"
        BY <3>2, <1>2
      <4>2. status'[p] = "ready"
        BY <3>2, <1>3
      <4>3. status[t] = "blocked" \/ status[t] = "cancelled"
        BY <4>1, <2>2, <1>7 DEF StepStatus
      <4>4. t # s /\ status[t] = "blocked"
        BY <4>3, <1>1, <1>6
      <4>5. status'[t] = "blocked"
        BY <4>4, <2>5, <1>3
      <4>6. QED
        BY <4>2, <4>5 DEF Unfinished, p
    <3>3. CASE p \notin A
      <4>1. status'[p] = status[p] /\ output'[p] = output[p]
        BY <3>1, <3>3, <2>1, <1>3, <1>4
      <4>2. CASE t = s
        BY <4>1, <4>2, <2>2, <1>1, <1>3 DEF p
      <4>3. CASE t # s
        <5>1. status'[t] = status[t]
          BY <4>3, <2>5, <1>3
        <5>2. QED
          BY <5>1, <4>1, <2>2 DEF p
      <4>4. QED
        BY <4>2, <4>3
    <3>4. QED
      BY <3>2, <3>3
  <2>6. QED
    BY <2>3, <2>4, <2>5 DEF p
<1>10. RunMatchesSteps'
  BY <1>1, <1>5, <1>7, <1>8 DEF RunMatchesSteps, StepStatus, Unfinished
<1>11. CancelledByFailure'
  BY <1>8 DEF CancelledByFailure
<1>12. QED
  BY <1>9, <1>10, <1>11

\* The facts about claims and outputs survive a completion.
LEMMA CompleteKeepsClaims ==
  ASSUME WorkflowAssumption, IInv, TypeOK',
         NEW w \in Workers, NEW s \in Steps, NEW H \in SUBSET Handles,
         Complete(w, s, H)
  PROVE  HeldAttempt' /\ OutputOfLatestAttempt'
<1>1. /\ status[s] = "running" /\ claim[s] = w /\ worker[w].step = s
      /\ status'[s] = "succeeded"
      /\ worker[w].attempt = attempt[s]
  BY DEF Complete, Owns, IInv, HeldAttempt, TypeOK
<1>2. \A t \in Steps : status'[t] \in {"running", "succeeded"} /\ t # s =>
        status[t] = status'[t]
  BY DEF Complete
<1>3. /\ \A t \in Steps : t # s => output'[t] = output[t] /\ claim'[t] = claim[t]
      /\ output'[s].attempt = worker[w].attempt
      /\ attempt' = attempt
      /\ \A v \in Workers : v # w => worker'[v] = worker[v]
      /\ worker'[w].step = NoStep
  BY DEF Complete, IInv, TypeOK, Nothing
<1>4. HeldAttempt'
  <2> SUFFICES ASSUME NEW v \in Workers, NEW t \in Steps,
                      worker'[v].step = t, claim'[t] = v, status'[t] = "running"
               PROVE  worker'[v].attempt = attempt'[t]
    BY DEF HeldAttempt, Owns
  <2>1. t # s /\ v # w
    BY <1>1, <1>3 DEF WorkflowAssumption
  <2>2. QED
    BY <2>1, <1>2, <1>3 DEF IInv, HeldAttempt, Owns
<1>5. OutputOfLatestAttempt'
  BY <1>1, <1>2, <1>3 DEF IInv, OutputOfLatestAttempt
<1>6. QED
  BY <1>4, <1>5

-----------------------------------------------------------------------------

\* The invariant is inductive.
LEMMA Inductive ==
  ASSUME WorkflowAssumption, IInv, TypeOK', [Next]_vars
  PROVE  IInv'
<1> DEFINE Facts == /\ BranchesFollowOutputs /\ RunMatchesSteps
                    /\ CancelledByFailure /\ HeldAttempt /\ OutputOfLatestAttempt
<1>1. ASSUME NEW w \in Workers, NEW s \in Steps, Claim(w, s) PROVE Facts'
  <2>1. /\ status[s] \in {"ready", "running"} /\ run \in {"queued", "running"}
        /\ status'[s] = "running" /\ run' = "running" /\ output' = output
        /\ \A t \in Steps : t # s => status'[t] = status[t]
    BY <1>1 DEF Claim, Eligible, IInv, TypeOK
  <2>2. /\ \A t \in Steps : t # s => claim'[t] = claim[t] /\ attempt'[t] = attempt[t]
        /\ claim'[s] = w
        /\ \A v \in Workers : v # w => worker'[v] = worker[v]
        /\ worker'[w].step = s /\ worker'[w].attempt = attempt'[s]
    BY <1>1 DEF Claim, IInv, TypeOK
  <2>3. BranchesFollowOutputs'
    BY <2>1 DEF IInv, BranchesFollowOutputs, Unfinished
  <2>4. RunMatchesSteps'
    BY <2>1 DEF IInv, RunMatchesSteps, Unfinished
  <2>5. CancelledByFailure'
    BY <2>1 DEF IInv, CancelledByFailure
  <2>6. HeldAttempt'
    <3> SUFFICES ASSUME NEW v \in Workers, NEW t \in Steps,
                        worker'[v].step = t, claim'[t] = v, status'[t] = "running"
                 PROVE  worker'[v].attempt = attempt'[t]
      BY DEF HeldAttempt, Owns
    <3>1. CASE v = w
      BY <3>1, <2>2
    <3>2. CASE v # w
      BY <3>2, <2>1, <2>2 DEF IInv, HeldAttempt, Owns
    <3>3. QED
      BY <3>1, <3>2
  <2>7. OutputOfLatestAttempt'
    BY <2>1, <2>2 DEF IInv, OutputOfLatestAttempt
  <2>8. QED
    BY <2>3, <2>4, <2>5, <2>6, <2>7
<1>2. ASSUME NEW w \in Workers, NEW s \in Steps, NEW H \in SUBSET Handles,
             Complete(w, s, H)
      PROVE  Facts'
  BY <1>2, CompletePreserves, CompleteKeepsClaims
<1>3. ASSUME NEW w \in Workers, NEW s \in Steps, Fail(w, s) PROVE Facts'
  <2>1. /\ status[s] = "running" /\ status'[s] = "failed"
        /\ \A t \in Steps : t # s => status'[t] =
             IF status[t] \in Unfinished THEN "cancelled" ELSE status[t]
        /\ output' = output /\ attempt' = attempt
    BY <1>3 DEF Fail, Owns, IInv, TypeOK
  <2>2. run \in {"queued", "running"}
    BY <2>1 DEF IInv, TypeOK, RunStatus, RunMatchesSteps, Unfinished
  <2>3. run' = "failed"
    BY <1>3, <2>2 DEF Fail
  <2>4. \A t \in Steps : status'[t] \notin Unfinished
    BY <2>1 DEF Unfinished
  <2>5. BranchesFollowOutputs'
    BY <2>1, <2>4 DEF IInv, BranchesFollowOutputs, Unfinished, WorkflowAssumption
  <2>6. RunMatchesSteps'
    BY <2>1, <2>3, <2>4 DEF RunMatchesSteps
  <2>7. CancelledByFailure'
    BY <2>3 DEF CancelledByFailure
  <2>8. HeldAttempt'
    BY <2>4 DEF HeldAttempt, Owns, Unfinished
  <2>9. OutputOfLatestAttempt'
    BY <2>1 DEF IInv, OutputOfLatestAttempt
  <2>10. QED
    BY <2>5, <2>6, <2>7, <2>8, <2>9
<1>4. ASSUME NEW w \in Workers, NEW s \in Steps, Retry(w, s) PROVE Facts'
  <2>1. /\ status[s] = "running" /\ status'[s] = "ready"
        /\ \A t \in Steps : t # s => status'[t] = status[t] /\ claim'[t] = claim[t]
        /\ run' = run /\ attempt' = attempt /\ output' = output
        /\ \A v \in Workers : v # w => worker'[v] = worker[v]
        /\ worker'[w].step = NoStep
    BY <1>4 DEF Retry, Owns, IInv, TypeOK, Nothing
  <2>2. BranchesFollowOutputs'
    BY <2>1 DEF IInv, BranchesFollowOutputs, Unfinished
  <2>3. RunMatchesSteps'
    BY <2>1 DEF IInv, RunMatchesSteps, Unfinished
  <2>4. CancelledByFailure'
    BY <2>1 DEF IInv, CancelledByFailure
  <2>5. HeldAttempt'
    BY <2>1 DEF IInv, HeldAttempt, Owns, WorkflowAssumption
  <2>6. OutputOfLatestAttempt'
    BY <2>1 DEF IInv, OutputOfLatestAttempt
  <2>7. QED
    BY <2>2, <2>3, <2>4, <2>5, <2>6
<1>5. ASSUME NEW w \in Workers, Abandon(w) PROVE Facts'
  <2>1. /\ UNCHANGED <<run, status, claim, attempt, output>>
        /\ \A v \in Workers : v # w => worker'[v] = worker[v]
        /\ worker'[w].step = NoStep
    BY <1>5 DEF Abandon, row, IInv, TypeOK, Nothing
  <2>2. HeldAttempt'
    BY <2>1 DEF IInv, HeldAttempt, Owns, WorkflowAssumption
  <2>3. QED
    BY <2>1, <2>2 DEF IInv, BranchesFollowOutputs, RunMatchesSteps,
                      CancelledByFailure, OutputOfLatestAttempt
<1>6. ASSUME UNCHANGED <<run, status, claim, attempt, output, worker>> PROVE Facts'
  BY <1>6 DEF IInv, BranchesFollowOutputs, RunMatchesSteps, CancelledByFailure,
              OutputOfLatestAttempt, HeldAttempt, Owns
<1>7. Facts'
  BY <1>1, <1>2, <1>3, <1>4, <1>5, <1>6 DEF Next, Tick, vars, row
<1>8. QED
  BY <1>7 DEF IInv

\* The whole invariant holds in every reachable state
\* (workflow-runs.ts: claim, completion, failure and retry of steps).
THEOREM Invariance == Spec => []IInv
<1>1. Init => IInv
  <2> SUFFICES ASSUME Init PROVE IInv
    OBVIOUS
  <2>1. TypeOK
    BY WorkflowAssumption
       DEF Init, TypeOK, RunStatus, StepStatus, Output, Holding, Nothing
  <2>2. BranchesFollowOutputs
    BY WorkflowAssumption DEF Init, BranchesFollowOutputs, Unfinished
  <2>3. RunMatchesSteps /\ CancelledByFailure
    BY WorkflowAssumption DEF Init, RunMatchesSteps, CancelledByFailure, Unfinished
  <2>4. HeldAttempt /\ OutputOfLatestAttempt
    BY WorkflowAssumption DEF Init, HeldAttempt, OutputOfLatestAttempt, Owns
  <2>5. QED
    BY <2>1, <2>2, <2>3, <2>4 DEF IInv
<1>2. IInv /\ TypeOK' /\ [Next]_vars => IInv'
  BY WorkflowAssumption, Inductive
<1>3. QED
  BY <1>1, <1>2, TypeCorrect, PTL DEF Spec

\* Steps stand where the outputs of their predecessors put them: what route
\* activation and collectSkippedDescendants establish.
THEOREM Branches == Spec => []BranchesFollowOutputs
BY Invariance, PTL DEF IInv

\* The status of a run agrees with its steps: the remaining count of
\* completeSqliteWorkflowStep and the sweep of failSqliteWorkflowStep.
THEOREM RunStatusSound == Spec => []RunMatchesSteps
BY Invariance, PTL DEF IInv

\* Only the latest attempt's output is recorded: the claim fence of
\* completeSqliteWorkflowStep.
THEOREM FencedOutput == Spec => []OutputOfLatestAttempt
BY Invariance, PTL DEF IInv

-----------------------------------------------------------------------------

\* A settled step and a finished run are final: no worker, however late,
\* changes them (the status and claim conditions of every update).
THEOREM Finality == Spec => SettledIsFinal
<1> DEFINE Final ==
      /\ run \in {"succeeded", "failed"} => run' = run
      /\ \A s \in Steps : status[s] \notin Unfinished =>
           status'[s] = status[s] /\ output'[s] = output[s]
<1>1. ASSUME IInv, [Next]_vars PROVE Final
  <2> USE <1>1
  <2>1. ASSUME NEW w \in Workers, NEW s \in Steps, Claim(w, s) PROVE Final
    BY <2>1 DEF Claim, Eligible, IInv, TypeOK, Unfinished
  <2>2. ASSUME NEW w \in Workers, NEW s \in Steps, NEW H \in SUBSET Handles,
               Complete(w, s, H)
        PROVE  Final
    <3> DEFINE A == ActiveTargets(s, H)
               K == SkippedDescendants(Targets(s) \ A, A)
    <3>0. A = ActiveTargets(s, H) /\ K = SkippedDescendants(Targets(s) \ A, A)
      OBVIOUS
    <3> HIDE DEF A, K
    <3>1. /\ status[s] = "running" /\ run = "running"
          /\ \A t \in A : status[t] = "blocked"
          /\ \A t \in K : status[t] = "blocked"
          /\ \A t \in Steps : (t # s /\ t \notin A /\ t \notin K) =>
               status'[t] = status[t]
          /\ \A t \in Steps : t # s => output'[t] = output[t]
      BY <2>2, <3>0, WorkflowAssumption, CompleteEffect
    <3>2. QED
      BY <3>1 DEF Unfinished
  <2>3. ASSUME NEW w \in Workers, NEW s \in Steps, Fail(w, s) PROVE Final
    BY <2>3 DEF Fail, Owns, IInv, TypeOK, Unfinished
  <2>4. ASSUME NEW w \in Workers, NEW s \in Steps, Retry(w, s) PROVE Final
    BY <2>4 DEF Retry, Owns, IInv, TypeOK, Unfinished
  <2>5. CASE UNCHANGED <<run, status, output>>
    BY <2>5
  <2>6. QED
    BY <2>1, <2>2, <2>3, <2>4, <2>5 DEF Next, Abandon, Tick, vars, row
<1>2. IInv /\ [Next]_vars => [Final]_vars
  BY <1>1
<1>3. QED
  BY <1>2, Invariance, PTL DEF Spec, SettledIsFinal

-----------------------------------------------------------------------------

\* A completed step is a success of the abstract run.
LEMMA CompleteIsSucceed ==
  ASSUME WorkflowAssumption, IInv, TypeOK',
         NEW w \in Workers, NEW s \in Steps, NEW H \in SUBSET Handles,
         Complete(w, s, H)
  PROVE  Abstract!Succeed(s, H)
<1> DEFINE A == ActiveTargets(s, H)
           K == SkippedDescendants(Targets(s) \ A, A)
           I == Abstract!Children(s) \ A
<1>0. A = ActiveTargets(s, H) /\ K = SkippedDescendants(Targets(s) \ A, A)
  OBVIOUS
<1> HIDE DEF A, K
<1>1. /\ status[s] = "running" /\ run = "running"
      /\ K \subseteq Steps /\ A \subseteq Steps
      /\ \A t \in A : status[t] = "blocked" /\ Parent[t] = s /\ Handle[t] \in H
      /\ \A t \in K : status[t] = "blocked" /\ t \notin A
      /\ \A t \in Steps : Parent[t] = s => t \in A \/ t \in K
      /\ \A t \in Steps : Parent[t] \in K => t \in K
  BY <1>0, CompleteEffect
<1>2. /\ status'[s] = "succeeded"
      /\ \A t \in A : status'[t] = "ready"
      /\ \A t \in K : status'[t] = "skipped"
      /\ \A t \in Steps : (t # s /\ t \notin A /\ t \notin K) =>
           status'[t] = status[t]
  BY <1>0, CompleteEffect
<1>3. A = {t \in Abstract!Children(s) : Handle[t] \in H}
  BY <1>0 DEF ActiveTargets, Targets, Abstract!Children
<1>4. Abstract!Downstream(I) = K
  <2>1. I \subseteq K /\ \A c \in K : Abstract!Children(c) \subseteq K
    BY <1>1 DEF Abstract!Children
  <2>2. Abstract!Downstream(I) \subseteq K
    <3> HIDE DEF I
    <3>1. QED
      BY <1>1, <2>1 DEF Abstract!Downstream
  <2>3. K \subseteq Abstract!Downstream(I)
    <3> DEFINE D == Abstract!Downstream(I)
    <3>1. D \in SUBSET Steps /\ I \subseteq D /\ \A c \in D : Abstract!Children(c) \subseteq D
      <4> HIDE DEF I
      <4>1. I \subseteq Steps
        BY DEF I, Abstract!Children
      <4>2. QED
        BY <4>1 DEF Abstract!Downstream, Abstract!Children
    <3>2. (Targets(s) \ A) \ A \subseteq D /\ \A c \in D : Targets(c) \ A \subseteq D
      BY <3>1 DEF Targets, Abstract!Children
    <3> HIDE DEF D
    <3>3. K \subseteq D
      BY <1>0, <3>1, <3>2, SkippedLeast
    <3>4. QED
      BY <3>3 DEF D
  <2>4. QED
    BY <2>2, <2>3
<1> DEFINE next == [t \in Steps |-> CASE t = s     -> "succeeded"
                                      [] t \in A  -> "active"
                                      [] t \in K  -> "skipped"
                                      [] OTHER    -> PhaseOf[t]]
<1>5. PhaseOf' = next
  <2> SUFFICES ASSUME NEW t \in Steps PROVE PhaseOf'[t] = next[t]
    BY DEF PhaseOf
  <2>1. s \notin A /\ s \notin K
    BY <1>1
  <2>2. CASE t = s
    BY <2>1, <2>2, <1>2 DEF PhaseOf
  <2>3. CASE t \in A
    BY <2>1, <2>3, <1>1, <1>2 DEF PhaseOf
  <2>4. CASE t \in K
    BY <2>1, <2>4, <1>1, <1>2 DEF PhaseOf
  <2>5. CASE t # s /\ t \notin A /\ t \notin K
    BY <2>5, <1>2 DEF PhaseOf
  <2>6. QED
    BY <2>2, <2>3, <2>4, <2>5
<1>6. \A t \in Steps : next[t] \in Abstract!Unfinished <=> status'[t] \in Unfinished
  <2>1. \A t \in Steps : PhaseOf'[t] \in Abstract!Unfinished <=> status'[t] \in Unfinished
    <3> SUFFICES ASSUME NEW t \in Steps
                 PROVE PhaseOf'[t] \in Abstract!Unfinished <=> status'[t] \in Unfinished
      OBVIOUS
    <3>1. status'[t] \in StepStatus
      BY DEF TypeOK
    <3>2. QED
      BY <3>1 DEF PhaseOf, Abstract!Unfinished, Unfinished, StepStatus
  <2>2. QED
    BY <2>1, <1>5
<1>7. Open' = (\E t \in Steps : next[t] \in Abstract!Unfinished)
  <2>1. run' = IF \E t \in Steps : status'[t] \in Unfinished THEN run ELSE "succeeded"
    BY DEF Complete
  <2> HIDE DEF next
  <2>2. Open' = (\E t \in Steps : status'[t] \in Unfinished)
    <3>1. Open' <=> run' \in {"queued", "running"}
      BY DEF Open
    <3>2. Open' \in BOOLEAN
      BY DEF Open
    <3>3. Open' <=> \E t \in Steps : status'[t] \in Unfinished
      BY <1>1, <2>1, <3>1
    <3>4. QED
      BY <3>2, <3>3
  <2>3. QED
    BY <1>6, <2>2
<1>8. Open /\ PhaseOf[s] = "active"
  BY <1>1 DEF Open, PhaseOf
<1>9. QED
  BY <1>3, <1>4, <1>5, <1>7, <1>8 DEF Abstract!Succeed

\* Every step of the ledger is a step of BranchRun or changes nothing there.
LEMMA StepRefinement ==
  ASSUME WorkflowAssumption, IInv, TypeOK', [Next]_vars
  PROVE  Abstract!Next \/ UNCHANGED <<Open, PhaseOf>>
<1>1. ASSUME NEW w \in Workers, NEW s \in Steps, Claim(w, s)
      PROVE  UNCHANGED <<Open, PhaseOf>>
  BY <1>1 DEF Claim, Eligible, Open, PhaseOf, IInv, TypeOK
<1>2. ASSUME NEW w \in Workers, NEW s \in Steps, NEW H \in SUBSET Handles,
             Complete(w, s, H)
      PROVE  Abstract!Next
  BY <1>2, CompleteIsSucceed DEF Abstract!Next
<1>3. ASSUME NEW w \in Workers, NEW s \in Steps, Fail(w, s) PROVE Abstract!Next
  <2>1. /\ status[s] = "running" /\ status'[s] = "failed"
        /\ \A t \in Steps : t # s => status'[t] =
             IF status[t] \in Unfinished THEN "cancelled" ELSE status[t]
    BY <1>3 DEF Fail, Owns, IInv, TypeOK
  <2>2. Open /\ run' = "failed"
    BY <1>3, <2>1 DEF Fail, Open, IInv, TypeOK, RunStatus, RunMatchesSteps, Unfinished
  <2>3. PhaseOf[s] = "active"
    BY <2>1 DEF PhaseOf
  <2>4. PhaseOf' = [t \in Steps |->
           CASE t = s                                         -> "failed"
             [] PhaseOf[t] \in Abstract!Unfinished /\ t # s   -> "cancelled"
             [] OTHER                                         -> PhaseOf[t]]
    <3> SUFFICES ASSUME NEW t \in Steps
                 PROVE PhaseOf'[t] =
                   CASE t = s                                       -> "failed"
                     [] PhaseOf[t] \in Abstract!Unfinished /\ t # s -> "cancelled"
                     [] OTHER                                       -> PhaseOf[t]
      BY DEF PhaseOf
    <3>1. status[t] \in StepStatus
      BY DEF IInv, TypeOK
    <3>2. QED
      BY <3>1, <2>1 DEF PhaseOf, Abstract!Unfinished, Unfinished, StepStatus
  <2>5. QED
    BY <2>2, <2>3, <2>4 DEF Abstract!Next, Abstract!Fail, Open
<1>4. ASSUME NEW w \in Workers, NEW s \in Steps, Retry(w, s)
      PROVE  UNCHANGED <<Open, PhaseOf>>
  BY <1>4 DEF Retry, Owns, Open, PhaseOf, IInv, TypeOK
<1>5. CASE UNCHANGED <<run, status>>
  BY <1>5 DEF Open, PhaseOf
<1>6. QED
  BY <1>1, <1>2, <1>3, <1>4, <1>5 DEF Next, Abandon, Tick, vars, row

\* The ledger implements the abstract run (docs/adr/0036, branch and failure
\* semantics), for every plan and any number of workers.
THEOREM Refinement == Spec => ImplementsBranchRun
<1>1. Init => Abstract!Init
  <2> SUFFICES ASSUME Init PROVE Abstract!Init
    OBVIOUS
  <2>1. Open
    BY DEF Init, Open
  <2>2. PhaseOf = [s \in Steps |-> IF Parent[s] = NoStep THEN "active" ELSE "waiting"]
    BY DEF Init, PhaseOf
  <2>3. QED
    BY <2>1, <2>2 DEF Abstract!Init, Open
<1>2. IInv /\ TypeOK' /\ [Next]_vars => [Abstract!Next]_Abstract!vars
  BY WorkflowAssumption, StepRefinement DEF Abstract!vars
<1>3. QED
  BY <1>1, <1>2, Invariance, TypeCorrect, PTL
     DEF Spec, ImplementsBranchRun, Abstract!Spec

=============================================================================
