----------------------------- MODULE MCPlatform ------------------------------
(***************************************************************************)
(* A small instance of every part for TLC.                                 *)
(***************************************************************************)
EXTENDS Platform

CONSTANTS p, q   \* database handles

MCEvents == 1 .. 2

\* The second event cannot be mapped to a row of the warehouse.
MCFacts == 1 .. 2
MCInvalid == {2}
MCWorkspaceOf == <<1, 2>>

MCTenants == 1 .. 3

\* Three calls of one process, and one of another.
MCHandleOf == [w \in Writers |-> IF w = 4 THEN q ELSE p]

\* The second run repeats the failed jobs of the first, the third is a run of
\* its own with other digests.
MCBuildOf == <<1, 1, 2>>

=============================================================================
