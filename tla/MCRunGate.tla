----------------------------- MODULE MCRunGate -----------------------------
(* Instances of RunGate for TLC.                                            *)
EXTENDS RunGate

CONSTANTS u1, u2, u3, s1, s2   \* unseeded and seeded runs
=============================================================================
