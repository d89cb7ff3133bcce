------------------------------- MODULE Lines -------------------------------
(* A line of waiting tasks: a deque, or the key order of a dict.            *)
EXTENDS Naturals, Sequences, SequencesExt

\* Mutant: the entry leaves the index, not the line.
WithoutNothing(line, r) == line

\* The line without r (deque.remove, dict.pop).
Without(line, r) ==
  IF \E i \in DOMAIN line : line[i] = r
  THEN RemoveAt(line, CHOOSE i \in DOMAIN line : line[i] = r)
  ELSE line
=============================================================================
