------------------------------ MODULE BranchRun -----------------------------
(***************************************************************************)
(* What a workflow run promises (docs/adr/0036, "Branch semantics" and     *)
(* "Failure and retry semantics"), without workers, claims or leases.      *)
(*                                                                         *)
(* The plan is a forest: every node kind has at most one input and every   *)
(* input at most one edge (packages/domain/src/workflow-policy.ts).  A     *)
(* step that succeeds activates some of its output handles; the children   *)
(* behind them become active, all other descendants are skipped.  A step   *)
(* that fails ends the run and cancels whatever is unfinished.             *)
(***************************************************************************)
EXTENDS FiniteSets

CONSTANTS
  Steps,    \* steps of the compiled plan
  NoStep,   \* the parent of an entry step
  Parent,   \* the source step of a step's single inbound route
  Handle,   \* the source handle of that route
  Handles   \* output handles

VARIABLES
  open,    \* whether the run is unfinished
  phase    \* how far each step is

vars == <<open, phase>>

Phase == {"waiting", "active", "succeeded", "skipped", "failed", "cancelled"}
Unfinished == {"waiting", "active"}

Children(s) == {t \in Steps : Parent[t] = s}

\* The steps of S and everything downstream of them.
Downstream(S) ==
  {t \in Steps :
     \A C \in SUBSET Steps :
       (S \subseteq C /\ \A c \in C : Children(c) \subseteq C) => t \in C}

Init ==
  /\ open = TRUE
  /\ phase = [s \in Steps |->
                IF Parent[s] = NoStep THEN "active" ELSE "waiting"]

\* Step s succeeds and activates the handles in H.
Succeed(s, H) ==
  LET taken   == {t \in Children(s) : Handle[t] \in H}
      skipped == Downstream(Children(s) \ taken)
      next    == [t \in Steps |-> CASE t = s          -> "succeeded"
                                    [] t \in taken   -> "active"
                                    [] t \in skipped -> "skipped"
                                    [] OTHER         -> phase[t]]
  IN  /\ open
      /\ phase[s] = "active"
      /\ phase' = next
      /\ open' = (\E t \in Steps : next[t] \in Unfinished)

\* Step s fails.
Fail(s) ==
  /\ open
  /\ phase[s] = "active"
  /\ phase' = [t \in Steps |->
       CASE t = s                    -> "failed"
         [] phase[t] \in Unfinished /\ t # s -> "cancelled"
         [] OTHER                    -> phase[t]]
  /\ open' = FALSE

Next ==
  \E s \in Steps :
    \/ \E H \in SUBSET Handles : Succeed(s, H)
    \/ Fail(s)

Spec == Init /\ [][Next]_vars

=============================================================================
