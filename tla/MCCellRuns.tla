----------------------------- MODULE MCCellRuns -----------------------------
(***************************************************************************)
(* A small instance of a column's cells for TLC.                           *)
(***************************************************************************)
EXTENDS CellRuns, TLC

TwoCells == {1, 2}

Workers == Permutations(Dispatchers)

\* One crash, storage error or expired claim in a behaviour.
OneDisturbance == faults.broken + faults.late <= 1

=============================================================================
