---------------------------- MODULE MCGraphEngine ----------------------------
(* An instance of GraphEngine for TLC: a node whose output two others read  *)
(* at once, both in a container, one of them in a nested one.               *)
EXTENDS GraphEngine, TLC

CONSTANTS a, b, d     \* nodes
CONSTANTS blk, nest   \* containers
CONSTANTS model       \* what a hands out

UpstreamOf == a :> {} @@ b :> {a} @@ d :> {a}
LevelOf == a :> 1 @@ b :> 2 @@ d :> 2
TurnOf == a :> 1 @@ b :> 1 @@ d :> 2
HandedTo == a :> {} @@ b :> {model} @@ d :> {model}
ContainersOf == a :> <<>> @@ b :> <<blk>> @@ d :> <<nest, blk>>

Asks(m, s, l, p) == [mode |-> m, seeded |-> s, live |-> l, primed |-> p]
MCRequests == {Asks("fail_fast", FALSE, FALSE, {}), Asks("continue", FALSE, FALSE, {d}),
             Asks("continue", FALSE, TRUE, {}), Asks("retry", TRUE, FALSE, {})}

\* One run that goes on after an error.
GoingOn == {Asks("continue", FALSE, FALSE, {})}
=============================================================================
