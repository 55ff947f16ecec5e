--------------------------- MODULE MCJobExecution ---------------------------
(***************************************************************************)
(* Instances of JobExecution for TLC.                                      *)
(***************************************************************************)
EXTENDS JobExecution

CONSTANTS j1, j2

TwoJobs == {j1, j2}
=============================================================================
