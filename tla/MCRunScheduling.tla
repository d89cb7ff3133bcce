-------------------------- MODULE MCRunScheduling --------------------------
(* Instances of RunScheduling for TLC.                                      *)
(*                                                                          *)
(* "Sets": one server with two cards, device-set runs on both and runs on   *)
(* one or either.  "Host": the same server and a worker agent on the same   *)
(* machine that offers the same two cards, so every card has two slots; a   *)
(* set run of the server and one of the worker, two runs that name a card   *)
(* of the server, and one that may run anywhere.                            *)
EXTENDS RunScheduling

CONSTANTS pair, pair2, pair3, a, a2, b, any   \* runs
CONSTANTS w                            \* the worker
CONSTANTS q0, q1, qw, qany             \* queue keys
CONSTANTS l0, l1, w0, w1               \* slots

Here(S) == [worker |-> Local, slots |-> S]
There(S) == [worker |-> w, slots |-> S]

AllQueueOf == (pair :> q0) @@ (pair2 :> q1) @@ (pair3 :> q1) @@ (a :> q0) @@ (a2 :> q0)
              @@ (b :> q1) @@ (any :> qany)

\* One server: a pair of cards, or one of them.
SetPlaces == (pair :> <<Here({l0, l1})>>) @@ (pair2 :> <<Here({l1, l0})>>)
             @@ (pair3 :> <<Here({l1, l0})>>)
             @@ (a :> <<Here({l0})>>) @@ (a2 :> <<Here({l0})>>)
             @@ (b :> <<Here({l1})>>)
             @@ (any :> <<Here({l0}), Here({l1})>>)
SetQueueOf == [r \in Run |-> AllQueueOf[r]]
SetRunPlaces == [r \in Run |-> SetPlaces[r]]
SetOfferer == [s \in Slot |-> Local]
SetCard == [s \in Slot |-> s]
SetCap == [s \in Slot |-> 1]

\* A same-host worker: its set run names it, "any" tries its cards first.
HostPlaces == (pair :> <<There({w0, w1})>>) @@ (pair2 :> <<Here({l0, l1})>>)
              @@ (a :> <<Here({l0})>>)
              @@ (a2 :> <<Here({l0})>>) @@ (b :> <<Here({l1})>>)
              @@ (any :> <<There({w0}), There({w1}), Here({l0}), Here({l1})>>)
HostQueueOf == [r \in Run |-> IF r = pair THEN qw ELSE AllQueueOf[r]]
HostRunPlaces == [r \in Run |-> HostPlaces[r]]
HostOfferer == (l0 :> Local) @@ (l1 :> Local) @@ (w0 :> w) @@ (w1 :> w)
HostCard == (l0 :> 0) @@ (w0 :> 0) @@ (l1 :> 1) @@ (w1 :> 1)
\* The first card admits two runs of this process, one of the worker.
HostCap == (l0 :> 2) @@ (w0 :> 1) @@ (l1 :> 1) @@ (w1 :> 1)
=============================================================================
