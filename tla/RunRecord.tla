----------------------------- MODULE RunRecord -----------------------------
(* What the run table promises a reader (backend/app/core/run_store.py and  *)
(* the Runs panel above it): a run's status only moves forward, a finished  *)
(* run is never rewritten, and its event log ends with one closing frame.   *)
EXTENDS Sequences, Naturals

CONSTANT Run

VARIABLES
  status,  \* of each run's row; "none": not submitted, "gone": deleted
  log      \* the frames of each run's log that begin or end it

Active == {"queued", "running"}
Terminal == {"succeeded", "failed", "cancelled", "interrupted"}
Status == Active \cup Terminal \cup {"none", "gone"}

\* A closing frame is named after the outcome it announces.
Frame == {"start"} \cup Terminal
Closed(l) == l # <<>> /\ l[Len(l)] \in Terminal

\* A frame is appended to a log that is not closed, "start" to an empty one.
Grows(l, m) == /\ ~Closed(l)
               /\ \E f \in Frame : m = Append(l, f) /\ (f = "start" => l = <<>>)

\* What one step may do to one run: status s and log l become t and m.
Moves(s, l, t, m) ==
  \/ t = s /\ m = l
  \/ s = "none" /\ t = "queued" /\ m = l
  \/ s = "queued" /\ t = "running" /\ m = l
  \/ s \in Active /\ t \in Terminal /\ m = l
  \/ s \in Active /\ t = "interrupted" /\ Grows(l, m)
  \/ s \in Active \cup Terminal /\ t = s /\ Grows(l, m)
  \/ s \in Active \cup Terminal /\ t = "gone" /\ m = <<>>

Init == status = [r \in Run |-> "none"] /\ log = [r \in Run |-> <<>>]

Next == /\ status' \in [Run -> Status]
        /\ log' \in [Run -> Seq(Frame)]
        /\ \A r \in Run : Moves(status[r], log[r], status'[r], log'[r])

Spec == Init /\ [][Next]_<<status, log>>
=============================================================================
