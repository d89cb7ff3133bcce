----------------------------- MODULE EventStream -----------------------------
(* What the attach protocol of /ws/execution promises its clients: a log    *)
(* that only grows, and to each attachment every event after the cursor it  *)
(* asked for, in order and once ("No gap, no duplicate", _pump_events).     *)
EXTENDS Naturals

CONSTANT Client

VARIABLES last,     \* the newest cursor of the run's log
          sent,     \* the newest cursor each client was sent
          attaches  \* how often each client attached

vars == <<last, sent, attaches>>

Init == last = 0 /\ sent = [c \in Client |-> 0] /\ attaches = [c \in Client |-> 0]

Write == last' = last + 1 /\ UNCHANGED <<sent, attaches>>

\* An attachment starts from any cursor the log has reached.
Attach(c) == /\ \E k \in 0 .. last : sent' = [sent EXCEPT ![c] = k]
             /\ attaches' = [attaches EXCEPT ![c] = @ + 1]
             /\ UNCHANGED last

Deliver(c) == /\ sent[c] < last
              /\ sent' = [sent EXCEPT ![c] = @ + 1]
              /\ UNCHANGED <<last, attaches>>

Next == Write \/ \E c \in Client : Attach(c) \/ Deliver(c)

Spec == Init /\ [][Next]_vars

=============================================================================
