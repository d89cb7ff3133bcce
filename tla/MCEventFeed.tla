------------------------------ MODULE MCEventFeed ------------------------------
(* EventFeed for TLC. *)
EXTENDS EventFeed, TLC

CONSTANTS c1, p1

==============================================================================
