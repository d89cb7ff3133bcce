--------------------------- MODULE ReadersWriter ---------------------------
(* What the reproducibility gate promises (docstring of _RunExclusion,      *)
(* backend/app/core/run_service.py): a seeded run executes alone in the     *)
(* process, unseeded runs overlap each other, and an unseeded run that has  *)
(* not started queues behind a seeded one that waits.                       *)
CONSTANTS Unseeded, Seeded

VARIABLES
  shared,     \* unseeded runs that execute
  exclusive,  \* seeded runs that execute
  wanted      \* seeded runs that wait their turn

gateVars == <<shared, exclusive, wanted>>

Init == shared = {} /\ exclusive = {} /\ wanted = {}

Share(r) ==
  /\ exclusive = {} /\ wanted = {}
  /\ shared' = shared \cup {r}
  /\ UNCHANGED <<exclusive, wanted>>

Want(r) ==
  /\ wanted' = wanted \cup {r}
  /\ UNCHANGED <<shared, exclusive>>

\* A seeded run starts at once, or after it waited.
Exclude(r) ==
  /\ shared = {} /\ exclusive = {}
  /\ exclusive' = {r}
  /\ wanted' = wanted \ {r}
  /\ UNCHANGED shared

GiveUp(r) ==
  /\ wanted' = wanted \ {r}
  /\ UNCHANGED <<shared, exclusive>>

Leave(r) ==
  /\ shared' = shared \ {r}
  /\ exclusive' = exclusive \ {r}
  /\ UNCHANGED wanted

Next ==
  \/ \E r \in Unseeded : Share(r) \/ Leave(r)
  \/ \E r \in Seeded : Want(r) \/ Exclude(r) \/ GiveUp(r) \/ Leave(r)

Spec == Init /\ [][Next]_gateVars
=============================================================================
