---------------------------- MODULE MCRunService ----------------------------
(* Instances of RunService for TLC. *)
EXTENDS RunService

CONSTANTS r1, r2, c1, c2

=============================================================================
