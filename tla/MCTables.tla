------------------------------- MODULE MCTables ------------------------------
(***************************************************************************)
(* A small instance of every part for TLC.                                 *)
(***************************************************************************)
EXTENDS Tables

MCGridRows == {1, 2}
MCMatching == {2}

\* Two records of stream 1 and one of stream 2; record <<1, 1>> is sent three
\* times, twice before the first STATE.
MCMessages == <<<<1, 1>>, <<2, 1>>, <<1, 1>>, Checkpoint,
                <<1, 1>>, <<1, 2>>, Checkpoint>>

=============================================================================
