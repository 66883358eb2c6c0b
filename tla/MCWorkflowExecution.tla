------------------------- MODULE MCWorkflowExecution ------------------------
(***************************************************************************)
(* A plan for TLC: a trigger feeding a filter whose matched rows go to a   *)
(* webhook and whose rejected rows are enriched and written to a table.    *)
(***************************************************************************)
EXTENDS WorkflowExecution

CONSTANTS trigger, filter, enrich, webhook, write

MCSteps == {trigger, filter, webhook, enrich, write}

MCParent ==
  [s \in MCSteps |-> CASE s = trigger -> NoStep
                       [] s = filter  -> trigger
                       [] s = webhook -> filter
                       [] s = enrich  -> filter
                       [] s = write   -> enrich]

MCHandle ==
  [s \in MCSteps |-> CASE s = webhook -> "matched"
                       [] s = enrich  -> "rejected"
                       [] OTHER       -> "rows"]

MCKind ==
  [s \in MCSteps |-> CASE s = trigger -> "trigger.table_rows"
                       [] s = filter  -> "logic.filter"
                       [] s = webhook -> "destination.send_webhook"
                       [] s = enrich  -> "action.enrich_column"
                       [] s = write   -> "destination.write_table"]

=============================================================================
