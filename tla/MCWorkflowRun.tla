---------------------------- MODULE MCWorkflowRun ---------------------------
(***************************************************************************)
(* A branching plan for TLC: a trigger feeding a filter, whose matched     *)
(* rows go through an enrichment to a webhook and whose rejected rows are  *)
(* written to a table.                                                     *)
(***************************************************************************)
EXTENDS WorkflowRun

CONSTANTS trigger, filter, enrich, webhook, write

MCSteps == {trigger, filter, enrich, webhook, write}

MCParent ==
  [s \in MCSteps |-> CASE s = trigger -> NoStep
                       [] s = filter  -> trigger
                       [] s = enrich  -> filter
                       [] s = write   -> filter
                       [] s = webhook -> enrich]

MCHandle ==
  [s \in MCSteps |-> CASE s = enrich -> "matched"
                       [] s = write  -> "rejected"
                       [] OTHER      -> "rows"]

MCHandles == {"rows", "matched", "rejected"}

=============================================================================
