--------------------------- MODULE MCRunLifecycle ---------------------------
(* Instances of RunLifecycle for TLC.                                       *)
EXTENDS RunLifecycle

CONSTANTS r1, r2   \* runs
=============================================================================
