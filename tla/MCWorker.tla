------------------------------ MODULE MCWorker ------------------------------
(***************************************************************************)
(* Small instances of every kind of event for TLC, and their bounds.       *)
(***************************************************************************)
EXTENDS Worker

MCDeliveries == {1}
MCBatches == {1, 2}
MCFiles == {1}
MCRuns == {1, 2}
MCKeys == {1, 2}

\* A source with an archived row to restore and a record that is new.
MCTables == {[remote |-> {1, 2}, known |-> {1}, archived |-> {1}]}

MCMishaps ==
  [webhook_delivery |-> 3, ingestion_batch |-> 2, csv_import |-> 3,
   source_run |-> 1]

=============================================================================
