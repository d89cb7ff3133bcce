------------------------------- MODULE CardLog -------------------------------
(* What the status frames of a run tell of one card, a node or a container: *)
(* it runs before it ends; it ends once, but that a container is told each  *)
(* failure and early stop of the nodes inside; and nothing else but the     *)
(* progress that was still queued follows one.                              *)
EXTENDS Sequences

CONSTANTS Card, Container   \* which of the cards are containers

VARIABLE log   \* the frames of each card

Clean == {"completed", "cached", "skipped"}
Broken == {"error", "interrupted"}
Frame == Clean \cup Broken \cup {"running", "progress"}

Has(l, S) == \E i \in DOMAIN l : l[i] \in S

\* A frame of card c that may follow those of l.
Follows(f, c, l) ==
  /\ ~Has(l, Clean)
  /\ f = "running" => ~Has(l, Broken)
  /\ f = "progress" => Has(l, {"running"})
  /\ f \in {"completed", "interrupted", "error"} => Has(l, {"running"})
  /\ f \in Clean => ~Has(l, Broken)
  /\ f \in Broken /\ c \notin Container => ~Has(l, Broken)

Init == log = [c \in Card |-> <<>>]

\* A frame may paint several cards at once.
Next ==
  /\ log' \in [Card -> Seq(Frame)]
  /\ \A c \in Card : log'[c] # log[c] =>
       \E f \in Frame : Follows(f, c, log[c]) /\ log'[c] = Append(log[c], f)

Spec == Init /\ [][Next]_log

=============================================================================
