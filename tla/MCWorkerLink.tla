---------------------------- MODULE MCWorkerLink ----------------------------
(* Instances of WorkerLink for TLC: one worker with one run.                *)
EXTENDS WorkerLink

CONSTANT r1   \* a run
=============================================================================
