---------------------------- MODULE CardLogProofs ----------------------------
(* GraphEngine implements CardLog: what the status frames of a run tell of  *)
(* each node and container, for any graph and any nesting of containers.    *)
EXTENDS GraphEngineProofs

----------------------------------------------------------------------------
(* The inductive invariant *)

Broken == {"error", "interrupted"}
Shows(c, S) == Cards!Has(log[c], S)
Rung(n, b) == {i \in DOMAIN Containers[n] : Containers[n][i] = b}

\* One node at a time is in the roll-up of the containers; what it says and
\* how a node in its thread was announced.
OneRolls ==
  \A n \in Node : /\ pc[n] \in InRoll <=> roller = n
                  /\ pc[n] \in Busy => say[n] = "running"
                  /\ pc[n] = "idle" => say[n] = "none"
                  /\ pc[n] = "settling" => say[n] \in Clean

\* A node that was announced as running, on every card it is on.
HasRun(n) == \/ say[n] = "running" /\ pc[n] \in Busy \cup {"stopped"}
             \/ say[n] \in {"completed"} \cup Broken

Announced ==
  \A n \in Node :
    /\ HasRun(n) => ToSet(Containers[n]) \subseteq started
    /\ pc[n] \in InRoll /\ say[n] = "running" =>
         \A i \in DOMAIN Containers[n] : i < at[n] => Containers[n][i] \in started

\* The containers around a node it is through with, and those that have
\* counted it.
Past(n, i) == pc[n] = "done" \/ (pc[n] \in InRoll /\ i < at[n])
CountedAt(n, i) == Past(n, i) \/ (pc[n] = "settling" /\ i = at[n])
Counted(b) == {n \in Inner(b) : say[n] \in Clean /\ \A i \in Rung(n, b) : CountedAt(n, i)}

Counters == \A b \in Box : /\ done[b] = Cardinality(Counted(b))
                           /\ Counted(b) # {} => b \in started

\* A node with signals on their way has been announced and has not ended
\* well: its own drain takes them before it does.
Unsettled(n) == HasRun(n) /\ say[n] \in {"running", "error"}
Pending ==
  /\ \A i \in DOMAIN outbox : Unsettled(outbox[i].node) /\ pc[outbox[i].node] # "draining"
  /\ \A c \in Caller : \A i \in DOMAIN batch[c] : Unsettled(batch[c][i].node)

\* What the card of a node shows is what it said ...
NodeCards ==
  \A n \in Node :
    /\ Shows(n, Clean) => say[n] \in Clean /\ pc[n] \in InRoll \cup {"done"}
    /\ Shows(n, Broken) => say[n] \in Broken /\ pc[n] \in InRoll \cup {"done", "failed"}
    /\ HasRun(n) \/ (pc[n] \in InRoll /\ say[n] = "running") => Shows(n, {"running"})

\* ... and that of a container that all its nodes ended well, or that one
\* did not.
BoxCard(b) ==
  /\ Shows(b, Clean) => \A n \in Inner(b) : say[n] \in Clean /\ \A i \in Rung(n, b) : Past(n, i)
  /\ Shows(b, Broken) => /\ b \in settled /\ b \in started
                         /\ \E n \in Inner(b) : /\ say[n] \in Broken
                                                /\ pc[n] \in InRoll \cup {"done", "failed"}
  /\ b \in started => Shows(b, {"running"})
BoxCards == \A b \in Box : BoxCard(b)

CardInv == OneRolls /\ Announced /\ Counters /\ Pending /\ NodeCards /\ BoxCards
----------------------------------------------------------------------------
(* Frames *)

LEMMA FrameSets ==
  /\ Cards!Clean = Clean /\ Cards!Broken = Broken /\ Cards!Frame = Frame
  /\ Clean \cap Broken = {} /\ "running" \notin Clean \cup Broken
  /\ "progress" \notin Clean \cup Broken \cup {"running"} /\ Clean \cup Broken \subseteq Frame
  /\ "running" \in Frame /\ "progress" \in Frame
BY DEF Cards!Clean, Cards!Broken, Cards!Frame, Clean, Broken, Frame

LEMMA HasMore ==
  ASSUME NEW q \in Seq(Frame), NEW f \in Frame, NEW S
  PROVE  Cards!Has(Append(q, f), S) <=> Cards!Has(q, S) \/ f \in S
<1>1. /\ Len(q) \in Nat /\ DOMAIN q = 1 .. Len(q) /\ DOMAIN Append(q, f) = 1 .. Len(q) + 1
      /\ Append(q, f)[Len(q) + 1] = f /\ \A i \in 1 .. Len(q) : Append(q, f)[i] = q[i]
  OBVIOUS
<1>2. \A i \in 1 .. Len(q) + 1 : i = Len(q) + 1 \/ i \in 1 .. Len(q)
  BY <1>1
<1>3. Len(q) + 1 \in 1 .. Len(q) + 1 /\ \A i \in 1 .. Len(q) : i \in 1 .. Len(q) + 1
  BY <1>1
<1> QED BY <1>1, <1>2, <1>3 DEF Cards!Has

\* What a card shows once a frame was painted.
LEMMA PaintShows ==
  ASSUME TypeInv, NEW S, NEW f \in Frame, Paint(S, f), NEW c \in Card, NEW F
  PROVE  Shows(c, F)' <=> Shows(c, F) \/ (c \in S /\ f \in F)
<1>1. log[c] \in Seq(Frame) /\ log'[c] = IF c \in S THEN Append(log[c], f) ELSE log[c]
  BY DEF TypeInv, TypeOK, Paint
<1> QED BY <1>1, HasMore DEF Shows

\* A step that paints a frame that may follow is one of CardLog's.
LEMMA PaintFollows ==
  ASSUME TypeInv, NEW S, NEW f \in Frame, Paint(S, f),
         \A c \in S \cap Card : Cards!Follows(f, c, log[c])
  PROVE  Cards!Next
<1>1. log' \in [Card -> Seq(Frame)]
  BY PaintKeeps DEF TypeInv, TypeOK
<1>2. ASSUME NEW c \in Card, log'[c] # log[c]
      PROVE  \E g \in Cards!Frame : Cards!Follows(g, c, log[c]) /\ log'[c] = Append(log[c], g)
  <2>1. c \in S /\ log'[c] = Append(log[c], f)
    BY <1>2 DEF Paint
  <2> QED BY <2>1, FrameSets
<1> QED BY <1>1, <1>2, FrameSets DEF Cards!Next

\* Nodes and containers are cards, and no container is a node.
LEMMA NodesAndBoxes ==
  /\ \A n \in Node : n \in Card /\ n \notin Box
  /\ \A b \in Box : b \in Card /\ b \notin Node
  /\ \A n \in Node : /\ Containers[n] \in Seq(Box) /\ Len(Containers[n]) \in Nat
                     /\ DOMAIN Containers[n] = 1 .. Len(Containers[n])
                     /\ \A i \in DOMAIN Containers[n] : /\ Containers[n][i] \in Box
                                                        /\ n \in Inner(Containers[n][i])
                                                        /\ Rung(n, Containers[n][i]) = {i}
  /\ \A b \in Box : \A n \in Inner(b) : n \in Node /\ Rung(n, b) # {}
  /\ \A b \in Box : \A n \in Node : Rung(n, b) # {} => n \in Inner(b)
<1>1. \A n \in Node : Containers[n] \in Seq(Box)
  BY ContainersAreNested
<1>2. \A n \in Node : /\ Len(Containers[n]) \in Nat /\ DOMAIN Containers[n] = 1 .. Len(Containers[n])
                      /\ \A i \in DOMAIN Containers[n] : Containers[n][i] \in Box
  BY <1>1
<1>3. \A n \in Node : \A i \in DOMAIN Containers[n] : Rung(n, Containers[n][i]) = {i}
  BY ContainersAreNested DEF Rung
<1>4. \A b : \A n \in Node : n \in Inner(b) <=> Rung(n, b) # {}
  BY DEF Inner, ToSet, Rung
<1>5. \A n \in Node : \A i \in DOMAIN Containers[n] : n \in Inner(Containers[n][i])
  BY <1>3, <1>4
<1>6. \A b : Inner(b) \subseteq Node
  BY DEF Inner
<1> QED BY <1>1, <1>2, <1>3, <1>4, <1>5, <1>6, ContainersAreNested DEF Card
----------------------------------------------------------------------------
(* Steps that tell nothing of a node *)

\* What such a step does to a node.
Keeps(n) ==
  /\ at'[n] = at[n]
  /\ \/ pc'[n] = pc[n] /\ say'[n] = say[n]
     \/ pc[n] = "idle" /\ pc'[n] = "reporting" /\ say'[n] \in {"skipped", "cached", "running"}
     \/ pc[n] = "idle" /\ pc'[n] = "stopped" /\ say'[n] = say[n]
     \/ pc[n] \in Busy /\ pc'[n] \in Busy \cup {"stopped"} /\ say'[n] = say[n]
     \/ pc[n] = "executing" /\ pc'[n] = "reporting" /\ say'[n] = "error"
     \/ pc[n] = "draining" /\ pc'[n] = "reporting" /\ say'[n] \in {"completed", "interrupted"}

LEMMA KeepSteps ==
  ASSUME TypeInv, [Next]_vars, \A n \in Node : ~Says(n) /\ ~RollsUp(n)
  PROVE  \A n \in Node : Keeps(n)
<1>0. /\ pc \in [Node -> Stage] /\ say \in [Node -> Frame \cup {"none"}] /\ at \in [Node -> Nat]
  BY DEF TypeInv, TypeOK
<1>1. CASE UNCHANGED nodeVars
  BY <1>1 DEF nodeVars, Keeps
<1> SUFFICES ASSUME NEW k \in Node, NodeStep(k), NEW n \in Node PROVE Keeps(n)
  BY <1>1, NodeSteps
<1> USE DEF Keeps, Busy
<1>2. CASE Begins(k)
  BY <1>0, <1>2 DEF Begins, Reports
<1>3. CASE Stops(k) \/ Executes(k) \/ Again(k) \/ NodeDrains(k)
  BY <1>0, <1>3 DEF Stops, Executes, Again, Attempt, NodeDrains
<1>4. CASE Puts(k) \/ Returns(k)
  BY <1>0, <1>4 DEF Puts, Returns, nodeVars
<1>5. CASE Raises(k)
  BY <1>0, <1>5 DEF Raises, Reports
<1>6. CASE Completes(k)
  BY <1>0, <1>6 DEF Completes, Reports
<1> QED BY <1>2, <1>3, <1>4, <1>5, <1>6 DEF NodeStep, OnLoop, Thread

\* It changes none of what the cards stand for.
LEMMA QuietSteps ==
  ASSUME TypeInv, OneRolls, Announced, Counters, NodeCards, BoxCards,
         \A n \in Node : Keeps(n), UNCHANGED boxVars,
         \A c \in Card : \A F \in {Clean, Broken, {"running"}} : Shows(c, F)' <=> Shows(c, F)
  PROVE  OneRolls' /\ Announced' /\ Counters' /\ NodeCards' /\ BoxCards'
<1> USE DEF Keeps, Busy, InRoll
<1>1. OneRolls'
  BY DEF OneRolls, boxVars
<1>2. \A n \in Node : HasRun(n)' => HasRun(n)
  BY DEF HasRun, Broken, OneRolls
<1>3. Announced'
  BY <1>2 DEF Announced, boxVars
<1>4. Counters'
  <2>1. \A b \in Box : Counted(b)' = Counted(b)
    <3> TAKE b \in Box
    <3>1. \A n \in Inner(b) : n \in Node /\ Rung(n, b) # {}
      BY NodesAndBoxes
    <3>2. ASSUME NEW n \in Inner(b), pc[n] \in InRoll \cup {"done"}
          PROVE  /\ say'[n] = say[n] /\ \A i : CountedAt(n, i)' <=> CountedAt(n, i)
      BY <3>1, <3>2 DEF CountedAt, Past
    <3>3. ASSUME NEW n \in Inner(b), pc[n] \notin InRoll \cup {"done"}
          PROVE  \A i : ~CountedAt(n, i) /\ ~CountedAt(n, i)'
      BY <3>1, <3>3 DEF CountedAt, Past
    <3> QED BY <3>1, <3>2, <3>3 DEF Counted
  <2> QED BY <2>1 DEF Counters, boxVars
<1>5. NodeCards'
  BY <1>2, NodesAndBoxes DEF NodeCards
<1>6. BoxCards'
  <2> SUFFICES ASSUME NEW b \in Box PROVE BoxCard(b)'
    BY DEF BoxCards
  <2>1. \A n \in Inner(b) : n \in Node /\ Rung(n, b) # {}
    BY NodesAndBoxes
  <2>2. ASSUME Shows(b, Clean)', NEW n \in Inner(b)
        PROVE  say'[n] \in Clean /\ \A i \in Rung(n, b) : Past(n, i)'
    <3>1. say[n] \in Clean /\ \A i \in Rung(n, b) : Past(n, i)
      BY <2>2, NodesAndBoxes DEF BoxCards, BoxCard
    <3>2. pc'[n] = pc[n] /\ say'[n] = say[n] /\ at'[n] = at[n]
      BY <2>1, <3>1 DEF Past
    <3> QED BY <3>1, <3>2 DEF Past
  <2>3. Shows(b, Broken)' => /\ b \in settled' /\ b \in started'
                             /\ \E n \in Inner(b) : /\ say'[n] \in Broken
                                                    /\ pc'[n] \in InRoll \cup {"done", "failed"}
    BY <2>1, NodesAndBoxes DEF BoxCards, BoxCard, boxVars
  <2>4. b \in started' => Shows(b, {"running"})'
    BY NodesAndBoxes DEF BoxCards, BoxCard, boxVars
  <2> QED BY <2>2, <2>3, <2>4 DEF BoxCard
<1> QED BY <1>1, <1>3, <1>4, <1>5, <1>6
----------------------------------------------------------------------------
(* Signals on their way *)

\* A node stays so until it completes.
LEMMA UnsettledStays ==
  ASSUME TypeInv, OneRolls, [Next]_vars, NEW n \in Node, Unsettled(n), ~Completes(n)
  PROVE  Unsettled(n)'
<1>0. pc \in [Node -> Stage] /\ say \in [Node -> Frame \cup {"none"}]
  BY DEF TypeInv, TypeOK
<1> USE DEF Unsettled, HasRun, Busy, Broken
<1>1. CASE UNCHANGED nodeVars
  BY <1>1 DEF nodeVars
<1>2. ASSUME NEW k \in Node, NodeStep(k), k # n PROVE Unsettled(n)'
  <2>1. pc'[n] = pc[n] /\ say'[n] = say[n]
    BY <1>0, <1>2, NodeMoves DEF NodeStep, OnLoop, Thread, Begins, Stops, Executes, Again, Says,
       RollsUp, RollsBroken, RollsRunning, Counts, Settles, NodeDrains, Completes, Puts, Returns,
       Raises, Reports, nodeVars
  <2> QED BY <2>1
<1>3. CASE Begins(n) \/ Stops(n)
  BY <1>3 DEF Begins, Stops, OneRolls
<1>4. CASE Executes(n) \/ Again(n) \/ NodeDrains(n)
  BY <1>0, <1>4 DEF Executes, Again, Attempt, NodeDrains, OneRolls
<1>5. CASE Thread(n)
  BY <1>0, <1>5 DEF Thread, Puts, Returns, Raises, Reports, nodeVars, OneRolls
<1>6. CASE Says(n) \/ RollsUp(n)
  BY <1>6 DEF Says, RollsUp, RollsBroken, RollsRunning, Counts, Settles
<1> QED BY <1>1, <1>2, <1>3, <1>4, <1>5, <1>6, NodeSteps DEF NodeStep, OnLoop

\* Who completes has no signal left, and nobody else has one in hand.
LEMMA NoneLeft ==
  ASSUME TypeInv, OneDrains, Pending, NEW n \in Node, Completes(n)
  PROVE  /\ \A i \in DOMAIN outbox : outbox[i].node # n
         /\ \A c \in Caller : DOMAIN batch[c] = {}
<1>1. pc[n] = "draining" /\ holder = n /\ batch[n] = <<>>
  BY DEF Completes, OneDrains
<1>2. \A c \in Caller : batch[c] = <<>>
  BY <1>1 DEF OneDrains
<1>3. \A c \in Caller : DOMAIN batch[c] = 1 .. Len(batch[c]) /\ Len(batch[c]) = 0
  BY <1>2, Queues
<1> QED BY <1>1, <1>3 DEF Pending

LEMMA PendingNext ==
  ASSUME TypeInv, OneDrains, OneRolls, Pending, [Next]_vars
  PROVE  Pending'
<1>0. /\ pc \in [Node -> Stage] /\ batch \in [Caller -> Seq(Signal)]
      /\ \A i \in DOMAIN outbox : outbox[i].node \in Node
      /\ \A c \in Caller : \A i \in DOMAIN batch[c] : batch[c][i].node \in Node
  <2>1. \A e \in Signal : e.node \in Node
    BY DEF Signal
  <2> QED BY <2>1, Queues
<1>1. ASSUME \A n \in Node : ~Completes(n), UNCHANGED <<outbox, batch>>,
             \A n \in Node : pc'[n] = "draining" => pc[n] = "draining"
      PROVE  Pending'
  BY <1>0, <1>1, UnsettledStays DEF Pending
<1>2. \A n \in Node : pc'[n] = "draining" => pc[n] = "draining" \/ NodeDrains(n)
  BY ResultSteps
<1>3. CASE UNCHANGED <<queueVars, signalVars>>
  <2>1. UNCHANGED <<outbox, batch, holder>>
    BY <1>3 DEF queueVars, signalVars
  <2>2. \A n \in Node : ~NodeDrains(n) /\ ~Completes(n)
    BY <2>1, CallersDiffer DEF NodeDrains, Drains, HeldBy, Completes, ReleasedLock, OneDrains
  <2> QED BY <1>1, <1>2, <2>1, <2>2
<1>4. ASSUME NEW k \in Node, Executes(k) PROVE Pending'
  <2>1. UNCHANGED <<outbox, batch, holder>> /\ pc' = [pc EXCEPT ![k] = "executing"]
    BY <1>4 DEF Executes, queueVars
  <2>2. \A n \in Node : ~Completes(n) /\ (pc'[n] = "draining" => pc[n] = "draining")
    BY <1>0, <2>1, CallersDiffer DEF Completes, ReleasedLock, OneDrains
  <2> QED BY <1>1, <2>1, <2>2
<1>5. ASSUME NEW k \in Node, Puts(k) PROVE Pending'
  <2>1. /\ pc[k] = "executing" /\ UNCHANGED <<pc, say, batch>>
    BY <1>5 DEF Puts, nodeVars
  <2>2. \A n \in Node : Unsettled(n)' <=> Unsettled(n)
    BY <2>1 DEF Unsettled, HasRun
  <2>3. Unsettled(k)
    BY <2>1 DEF OneRolls, Unsettled, HasRun, Busy
  <2>4. \A j \in DOMAIN outbox' : outbox'[j].node = k \/ \E i \in DOMAIN outbox : outbox'[j] = outbox[i]
    <3>1. /\ outbox' \in Seq(Signal) /\ outbox'[Len(outbox')].node = k
          /\ \/ /\ Len(outbox') = Len(outbox) + 1
                /\ \A i \in DOMAIN outbox : outbox'[i] = outbox[i]
             \/ /\ Len(outbox') = Len(outbox)
                /\ \A i \in 1 .. Len(outbox) - 1 : outbox'[i] = outbox[i + 1]
      BY <1>5, PutSteps
    <3>2. Len(outbox) \in Nat /\ DOMAIN outbox = 1 .. Len(outbox)
      BY Queues
    <3>3. DOMAIN outbox' = 1 .. Len(outbox') /\ Len(outbox') \in Nat
      BY <3>1
    <3>4. \A i \in 1 .. Len(outbox) - 1 : i + 1 \in DOMAIN outbox
      BY <3>2
    <3> SUFFICES ASSUME NEW j \in DOMAIN outbox'
                 PROVE  outbox'[j].node = k \/ \E i \in DOMAIN outbox : outbox'[j] = outbox[i]
      OBVIOUS
    <3>5. j = Len(outbox') \/ j \in 1 .. Len(outbox') - 1
      BY <3>3
    <3>6. CASE /\ Len(outbox') = Len(outbox) + 1
               /\ \A i \in DOMAIN outbox : outbox'[i] = outbox[i]
      <4>1. j = Len(outbox') \/ j \in DOMAIN outbox
        BY <3>2, <3>5, <3>6
      <4> QED BY <3>1, <3>6, <4>1
    <3>7. CASE /\ Len(outbox') = Len(outbox)
               /\ \A i \in 1 .. Len(outbox) - 1 : outbox'[i] = outbox[i + 1]
      <4>1. j = Len(outbox') \/ (j \in 1 .. Len(outbox) - 1 /\ j + 1 \in DOMAIN outbox)
        BY <3>4, <3>5, <3>7
      <4> QED BY <3>1, <3>7, <4>1
    <3> QED BY <3>1, <3>6, <3>7
  <2> QED BY <1>0, <2>1, <2>2, <2>3, <2>4 DEF Pending
<1>6. ASSUME NEW k \in Node, Completes(k) PROVE Pending'
  <2>1. UNCHANGED <<outbox, batch>> /\ pc' = [pc EXCEPT ![k] = "reporting"]
    BY <1>6 DEF Completes, Reports, queueVars
  <2>2. \A n \in Node \ {k} : ~Completes(n)
    BY <1>6 DEF Completes, OneDrains
  <2> QED BY <1>0, <1>6, <2>1, <2>2, NoneLeft, UnsettledStays DEF Pending
<1>7. ASSUME NEW c \in Caller, DrainStep(c) PROVE Pending'
  <2>1. /\ holder = Nobody /\ outbox' = <<>> /\ batch' = [batch EXCEPT ![c] = outbox]
    BY <1>7 DEF DrainStep, Drains
  <2>2. /\ \A m \in Caller : batch'[m] = <<>> \/ batch'[m] = outbox
        /\ \A n \in Node : ~Completes(n)
    BY <1>0, <2>1, LockFree DEF Completes
  <2>3. DOMAIN outbox' = {}
    BY <2>1
  <2> QED BY <1>0, <2>2, <2>3, UnsettledStays DEF Pending
<1>8. ASSUME NEW c \in Caller, Dispatches(c) PROVE Pending'
  <2>1. /\ UNCHANGED <<queueVars, nodeVars>> /\ \A m \in Caller \ {c} : batch'[m] = batch[m]
        /\ batch'[c] \in Seq(Signal) /\ Len(batch'[c]) = Len(batch[c]) - 1
        /\ \A i \in 1 .. Len(batch'[c]) : batch'[c][i] = batch[c][i + 1]
    BY <1>8, DispatchSteps
  <2>2. /\ DOMAIN batch[c] = 1 .. Len(batch[c]) /\ Len(batch[c]) \in Nat
        /\ DOMAIN batch'[c] = 1 .. Len(batch'[c])
    BY <2>1, Queues
  <2>3. \A i \in DOMAIN batch'[c] : i + 1 \in DOMAIN batch[c] /\ batch'[c][i] = batch[c][i + 1]
    <3>1. \A i \in 1 .. Len(batch[c]) - 1 : i + 1 \in 1 .. Len(batch[c])
      BY <2>2
    <3> QED BY <2>1, <2>2, <3>1
  <2>4. \A n \in Node : Unsettled(n)' <=> Unsettled(n)
    BY <2>1 DEF Unsettled, HasRun, nodeVars
  <2> QED BY <1>0, <2>1, <2>3, <2>4 DEF Pending, queueVars, nodeVars
<1>9. ASSUME NEW c \in Caller, DispatchRaises(c) PROVE Pending'
  <2>1. /\ UNCHANGED <<queueVars, nodeVars>>
        /\ \A m \in Caller : batch'[m] = <<>> \/ batch'[m] = batch[m]
    BY <1>0, <1>9 DEF DispatchRaises
  <2>2. \A n \in Node : Unsettled(n)' <=> Unsettled(n)
    BY <2>1 DEF Unsettled, HasRun, nodeVars
  <2> QED BY <1>0, <2>1, <2>2 DEF Pending, queueVars, nodeVars
<1>10. CASE Pokes \/ PumpReleases \/ ReturnsOutcome
  <2>1. UNCHANGED <<nodeVars, outbox, batch>>
    BY <1>10 DEF Pokes, PumpReleases, ReturnsOutcome, queueVars, signalVars
  <2>2. \A n \in Node : Unsettled(n)' <=> Unsettled(n)
    BY <2>1 DEF Unsettled, HasRun, nodeVars
  <2> QED BY <1>0, <2>1, <2>2 DEF Pending, nodeVars
<1> QED BY <1>3, <1>4, <1>5, <1>6, <1>7, <1>8, <1>9, <1>10, QueueSteps
----------------------------------------------------------------------------
(* The roll-up of the containers *)

\* The node in the roll-up, and the container it has come to.
LEMMA Roller ==
  ASSUME TypeInv, Results, OneRolls, NEW n \in Node, pc[n] \in InRoll
  PROVE  /\ Rolling(n) \in Box /\ Rolling(n) \in Card /\ n \in Inner(Rolling(n))
         /\ Rung(n, Rolling(n)) = {at[n]} /\ at[n] \in DOMAIN Containers[n]
         /\ \A m \in Node \ {n} : pc[m] \notin InRoll
         /\ say[n] \in Clean \cup Broken \cup {"running"} /\ say[n] \in Frame
<1>1. Rolling(n) \in Box /\ at[n] \in DOMAIN Containers[n] /\ say[n] \in Frame
  BY RollingIsBox DEF TypeInv, Voices, Telling, InRoll
<1>2. say[n] \in Clean \cup Broken \cup {"running"}
  BY DEF Results, Spoken, Telling, InRoll, Broken
<1> QED BY <1>1, <1>2, NodesAndBoxes DEF Rolling, OneRolls

\* On to the next container, or out of the lock.
LEMMA OnwardSteps ==
  ASSUME TypeInv, NEW n \in Node, pc[n] \in InRoll, Onwards(n)
  PROVE  /\ \A m \in Node \ {n} : pc'[m] = pc[m] /\ at'[m] = at[m]
         /\ \/ pc'[n] = "counting" /\ at'[n] = at[n] + 1 /\ roller' = roller
            \/ /\ at[n] = Len(Containers[n]) /\ pc'[n] = AfterFrame(n) /\ at'[n] = at[n]
               /\ roller' = Nobody
<1>1. /\ pc \in [Node -> Stage] /\ at \in [Node -> Nat]
      /\ at[n] \in 1 .. Len(Containers[n]) /\ Len(Containers[n]) \in Nat
  BY RollingIsBox DEF TypeInv, TypeOK
<1>2. CASE at[n] < Len(Containers[n])
  BY <1>1, <1>2 DEF Onwards
<1>3. CASE ~(at[n] < Len(Containers[n]))
  BY <1>1, <1>3 DEF Onwards
<1> QED BY <1>2, <1>3

\* Where it goes from the last one.
LEMMA Afterwards ==
  ASSUME NEW n \in Node
  PROVE  /\ say[n] = "running" => AfterFrame(n) \in {"waiting", "stopped"}
         /\ say[n] \in Clean => AfterFrame(n) = "done"
         /\ say[n] \in Broken => AfterFrame(n) \in {"done", "failed"}
BY DEF AfterFrame, Attempt, Clean, Broken

LEMMA OnwardAnnounced ==
  ASSUME TypeInv, Results, OneRolls, Announced, NEW n \in Node, pc[n] \in InRoll, Onwards(n),
         say' = say, started \subseteq started', say[n] = "running" => Rolling(n) \in started'
  PROVE  OneRolls' /\ Announced'
<1>1. /\ \A m \in Node \ {n} : pc'[m] = pc[m] /\ at'[m] = at[m]
      /\ \/ pc'[n] = "counting" /\ at'[n] = at[n] + 1 /\ roller' = roller
         \/ /\ at[n] = Len(Containers[n]) /\ pc'[n] = AfterFrame(n) /\ at'[n] = at[n]
            /\ roller' = Nobody
  BY OnwardSteps
<1>2. /\ \A m \in Node \ {n} : pc[m] \notin InRoll
      /\ say[n] \in Clean \cup Broken \cup {"running"} /\ roller = n
      /\ at[n] \in DOMAIN Containers[n]
  BY Roller DEF OneRolls
<1>3. OneRolls'
  <2>1. \A m \in Node : pc'[m] \in InRoll <=> roller' = m
    BY <1>1, <1>2, Afterwards, CallersDiffer DEF InRoll, Broken
  <2>2. /\ pc'[n] \in Busy => say'[n] = "running"
        /\ pc'[n] # "idle" /\ pc'[n] # "settling"
    BY <1>1, <1>2, Afterwards DEF Busy, Broken
  <2> QED BY <1>1, <2>1, <2>2 DEF OneRolls
<1>4. ASSUME NEW m \in Node, HasRun(m)' PROVE ToSet(Containers[m]) \subseteq started'
  <2>1. CASE HasRun(m)
    BY <2>1 DEF Announced
  <2>2. CASE ~HasRun(m)
    <3>1. m = n /\ say[n] = "running" /\ pc'[n] \in Busy \cup {"stopped"}
      BY <1>1, <1>4, <2>2 DEF HasRun
    <3>2. at[n] = Len(Containers[n])
      BY <1>1, <3>1 DEF Busy
    <3>3. /\ DOMAIN Containers[n] = 1 .. Len(Containers[n]) /\ Len(Containers[n]) \in Nat
      BY NodesAndBoxes
    <3>4. \A i \in DOMAIN Containers[n] : i < at[n] \/ i = at[n]
      BY <3>2, <3>3
    <3>5. \A i \in DOMAIN Containers[n] : Containers[n][i] \in started'
      BY <3>1, <3>4 DEF Announced, Rolling
    <3> QED BY <3>1, <3>5 DEF ToSet
  <2> QED BY <2>1, <2>2
<1>5. ASSUME NEW m \in Node, pc'[m] \in InRoll, say[m] = "running",
             NEW i \in DOMAIN Containers[m], i < at'[m]
      PROVE  Containers[m][i] \in started'
  <2>1. m = n
    BY <1>1, <1>2, <1>5
  <2>2. /\ DOMAIN Containers[n] = 1 .. Len(Containers[n]) /\ Len(Containers[n]) \in Nat
    BY NodesAndBoxes
  <2>3. i < at[n] \/ i = at[n]
    BY <1>1, <1>2, <1>5, <2>1, <2>2
  <2> QED BY <1>5, <2>1, <2>3 DEF Announced, Rolling
<1> QED BY <1>3, <1>4, <1>5 DEF Announced

\* Who counts, after a step that counts nobody.
LEMMA OnwardCounted ==
  ASSUME TypeInv, Results, OneRolls, NEW n \in Node, pc[n] \in InRoll, Onwards(n), say' = say,
         say[n] \notin Clean \/ pc[n] = "settling", NEW b \in Box
  PROVE  Counted(b)' = Counted(b)
<1>1. /\ \A m \in Node \ {n} : pc'[m] = pc[m] /\ at'[m] = at[m]
      /\ \/ pc'[n] = "counting" /\ at'[n] = at[n] + 1 /\ roller' = roller
         \/ /\ at[n] = Len(Containers[n]) /\ pc'[n] = AfterFrame(n) /\ at'[n] = at[n]
            /\ roller' = Nobody
  BY OnwardSteps
<1>2. \A m \in Inner(b) : m \in Node
  BY NodesAndBoxes
<1>3. ASSUME say[n] \in Clean, NEW i \in Rung(n, b)
      PROVE  CountedAt(n, i)' <=> CountedAt(n, i)
  <2>1. pc[n] = "settling" /\ at[n] \in Nat /\ i \in 1 .. Len(Containers[n]) /\ Len(Containers[n]) \in Nat
    BY <1>3, NodesAndBoxes DEF TypeInv, TypeOK, Rung
  <2>2. CountedAt(n, i) <=> i < at[n] \/ i = at[n]
    BY <2>1 DEF CountedAt, Past, InRoll
  <2>3. CASE pc'[n] = "counting" /\ at'[n] = at[n] + 1
    BY <2>1, <2>2, <2>3 DEF CountedAt, Past, InRoll
  <2>4. CASE at[n] = Len(Containers[n]) /\ pc'[n] = AfterFrame(n)
    BY <1>3, <2>1, <2>2, <2>4, Afterwards DEF CountedAt, Past
  <2> QED BY <1>1, <2>3, <2>4
<1>4. ASSUME NEW m \in Inner(b), m # n PROVE \A i : CountedAt(m, i)' <=> CountedAt(m, i)
  BY <1>1, <1>2, <1>4 DEF CountedAt, Past
<1>5. \A m \in Inner(b) : say[m] \in Clean =>
        \A i \in Rung(m, b) : CountedAt(m, i)' <=> CountedAt(m, i)
  BY <1>3, <1>4
<1> QED BY <1>5 DEF Counted

\* The cards of the nodes, when only containers are painted.
LEMMA OnwardNodeCards ==
  ASSUME TypeInv, Results, OneRolls, NodeCards, NEW n \in Node, pc[n] \in InRoll, Onwards(n),
         say' = say,
         \A m \in Node : \A F \in {Clean, Broken, {"running"}} : Shows(m, F)' <=> Shows(m, F)
  PROVE  NodeCards'
<1>1. /\ \A m \in Node \ {n} : pc'[m] = pc[m]
      /\ pc'[n] \in {"counting", AfterFrame(n)}
  BY OnwardSteps
<1>2. say[n] \in Clean \cup Broken \cup {"running"}
  BY Roller
<1>3. /\ say[n] \in Clean => pc'[n] \in InRoll \cup {"done"}
      /\ say[n] \in Broken => pc'[n] \in InRoll \cup {"done", "failed"}
  BY <1>1, Afterwards DEF InRoll
<1>4. HasRun(n)' => HasRun(n) \/ say[n] = "running"
  BY DEF HasRun
<1>5. \A m \in Node \ {n} : HasRun(m)' => HasRun(m)
  BY <1>1 DEF HasRun
<1> QED BY <1>1, <1>3, <1>4, <1>5 DEF NodeCards

\* The card of a container that shows nothing new.
LEMMA OnwardBoxCard ==
  ASSUME TypeInv, Results, OneRolls, BoxCards, NEW n \in Node, pc[n] \in InRoll, Onwards(n),
         say' = say, settled \subseteq settled', started \subseteq started', NEW b \in Box,
         Shows(b, Clean)' <=> Shows(b, Clean), Shows(b, Broken)' <=> Shows(b, Broken),
         Shows(b, {"running"}) => Shows(b, {"running"})',
         b \in started' => b \in started \/ Shows(b, {"running"})'
  PROVE  BoxCard(b)'
<1>1. /\ \A m \in Node \ {n} : pc'[m] = pc[m] /\ at'[m] = at[m]
      /\ \/ pc'[n] = "counting" /\ at'[n] = at[n] + 1 /\ roller' = roller
         \/ /\ at[n] = Len(Containers[n]) /\ pc'[n] = AfterFrame(n) /\ at'[n] = at[n]
            /\ roller' = Nobody
  BY OnwardSteps
<1>2. at[n] \in Nat /\ \A m \in Inner(b) : m \in Node
  BY NodesAndBoxes DEF TypeInv, TypeOK
<1>3. ASSUME Shows(b, Clean)', NEW m \in Inner(b), NEW i \in Rung(m, b)
      PROVE  say'[m] \in Clean /\ Past(m, i)'
  <2>1. say[m] \in Clean /\ Past(m, i)
    BY <1>3 DEF BoxCards, BoxCard
  <2>2. CASE m # n
    BY <1>1, <1>2, <2>1, <2>2 DEF Past
  <2>3. CASE m = n
    <3>1. i < at[n] /\ i \in Nat
      BY <2>1, <2>3, NodesAndBoxes DEF Past, InRoll, Rung
    <3>2. pc'[n] = "done" \/ (pc'[n] = "counting" /\ at'[n] = at[n] + 1)
      BY <1>1, <2>1, <2>3, Afterwards
    <3> QED BY <1>2, <2>1, <2>3, <3>1, <3>2 DEF Past, InRoll
  <2> QED BY <2>2, <2>3
<1>4. \A m \in Inner(b) : Rung(m, b) # {}
  BY NodesAndBoxes
<1>5. ASSUME NEW m \in Inner(b), say[m] \in Broken, pc[m] \in InRoll \cup {"done", "failed"}
      PROVE  pc'[m] \in InRoll \cup {"done", "failed"}
  BY <1>1, <1>2, <1>5, Afterwards DEF InRoll
<1> QED BY <1>3, <1>4, <1>5 DEF BoxCards, BoxCard

----------------------------------------------------------------------------
(* The steps that tell something *)

\* The frame of a node goes out: nothing ended its card before, and a node
\* that ends in its thread has been announced.
LEMMA SaysCards ==
  ASSUME TypeInv, Results, OneRolls, Announced, Counters, NodeCards, BoxCards,
         NEW n \in Node, Says(n)
  PROVE  OneRolls' /\ Announced' /\ Counters' /\ NodeCards' /\ BoxCards' /\ Cards!Next
<1>0. pc \in [Node -> Stage] /\ at \in [Node -> Nat] /\ pc[n] = "reporting"
  BY DEF TypeInv, TypeOK, Says
<1>1. say[n] \in Frame /\ say[n] \in Clean \cup Broken \cup {"running"}
  BY <1>0 DEF TypeInv, Voices, Results, Spoken, Telling, Broken
<1>2. /\ \A m \in Node \ {n} : pc'[m] = pc[m] /\ at'[m] = at[m]
      /\ UNCHANGED <<say, started, settled, done>>
      /\ \/ Containers[n] = <<>> /\ pc'[n] = AfterFrame(n) /\ roller' = roller
         \/ pc'[n] = "counting" /\ at'[n] = 1 /\ roller = Nobody /\ roller' = n
  BY <1>0 DEF Says, LockedBy
<1>3. /\ Paint({n}, say[n]) /\ n \in Card /\ n \notin Box
      /\ \A c \in Card : \A F : Shows(c, F)' <=> Shows(c, F) \/ (c = n /\ say[n] \in F)
  <2>1. Paint({n}, say[n])
    BY DEF Says
  <2> QED BY <1>1, <2>1, PaintShows, NodesAndBoxes
<1>4. ~Shows(n, Clean) /\ ~Shows(n, Broken)
  BY <1>0 DEF NodeCards, InRoll
<1>5. say[n] \in {"completed"} \cup Broken => Shows(n, {"running"})
  BY DEF NodeCards, HasRun
<1>6. Cards!Next
  <2>1. Cards!Follows(say[n], n, log[n])
    BY <1>1, <1>4, <1>5, FrameSets DEF Cards!Follows, Shows, Broken
  <2> QED BY <1>1, <1>3, <2>1, PaintFollows
<1>7. OneRolls'
  <2>1. \A m \in Node : pc'[m] \in InRoll <=> roller' = m
    BY <1>0, <1>1, <1>2, Afterwards, CallersDiffer DEF OneRolls, InRoll, Broken
  <2>2. /\ pc'[n] \in Busy => say'[n] = "running"
        /\ pc'[n] # "idle" /\ pc'[n] # "settling"
    BY <1>1, <1>2, Afterwards DEF Busy, Broken
  <2> QED BY <1>2, <2>1, <2>2 DEF OneRolls
<1>8. Announced'
  <2>1. ASSUME NEW m \in Node, HasRun(m)' PROVE ToSet(Containers[m]) \subseteq started
    <3>1. CASE HasRun(m)
      BY <3>1 DEF Announced
    <3>2. CASE ~HasRun(m)
      <4>1. m = n /\ pc'[n] \in Busy \cup {"stopped"}
        BY <1>2, <2>1, <3>2 DEF HasRun
      <4>2. Containers[n] = <<>>
        BY <1>2, <4>1 DEF Busy
      <4> QED BY <4>1, <4>2 DEF ToSet
    <3> QED BY <3>1, <3>2
  <2>2. ASSUME NEW m \in Node, pc'[m] \in InRoll, say[m] = "running",
               NEW i \in DOMAIN Containers[m], i < at'[m]
        PROVE  Containers[m][i] \in started
    <3>1. CASE m # n
      BY <1>2, <2>2, <3>1 DEF Announced
    <3>2. CASE m = n
      <4>1. at'[n] = 1 /\ i \in 1 .. Len(Containers[n]) /\ Len(Containers[n]) \in Nat
        BY <1>1, <1>2, <2>2, <3>2, Afterwards, NodesAndBoxes DEF InRoll
      <4> QED BY <2>2, <3>2, <4>1
    <3> QED BY <3>1, <3>2
  <2> QED BY <1>2, <2>1, <2>2 DEF Announced
<1>9. Counters'
  <2>1. ASSUME NEW b \in Box PROVE Counted(b)' = Counted(b)
    <3>1. ASSUME NEW m \in Inner(b), m # n PROVE \A i : CountedAt(m, i)' <=> CountedAt(m, i)
      BY <1>2, <3>1, NodesAndBoxes DEF CountedAt, Past
    <3>2. ASSUME n \in Inner(b), NEW i \in Rung(n, b)
          PROVE  ~CountedAt(n, i) /\ ~CountedAt(n, i)'
      <4>1. i \in 1 .. Len(Containers[n]) /\ Len(Containers[n]) \in Nat /\ Containers[n] # <<>>
        BY <3>2, NodesAndBoxes DEF Rung
      <4>2. pc'[n] = "counting" /\ at'[n] = 1
        BY <1>2, <4>1
      <4> QED BY <1>0, <4>1, <4>2 DEF CountedAt, Past, InRoll
    <3>3. n \in Inner(b) => Rung(n, b) # {}
      BY NodesAndBoxes
    <3> QED BY <1>2, <3>1, <3>2, <3>3 DEF Counted
  <2> QED BY <1>2, <2>1 DEF Counters
<1>10. NodeCards'
  <2>1. ASSUME NEW m \in Node, m # n
        PROVE  /\ Shows(m, Clean)' => say'[m] \in Clean /\ pc'[m] \in InRoll \cup {"done"}
               /\ Shows(m, Broken)' => say'[m] \in Broken /\ pc'[m] \in InRoll \cup {"done", "failed"}
               /\ HasRun(m)' \/ (pc'[m] \in InRoll /\ say'[m] = "running") => Shows(m, {"running"})'
    BY <1>2, <1>3, <2>1, NodesAndBoxes DEF NodeCards, HasRun
  <2>2. /\ Shows(n, Clean)' => say[n] \in Clean /\ pc'[n] \in InRoll \cup {"done"}
        /\ Shows(n, Broken)' => say[n] \in Broken /\ pc'[n] \in InRoll \cup {"done", "failed"}
    BY <1>2, <1>3, <1>4, Afterwards DEF InRoll
  <2>3. HasRun(n)' \/ say[n] = "running" => Shows(n, {"running"})'
    BY <1>2, <1>3, <1>5 DEF HasRun
  <2> QED BY <1>2, <2>1, <2>2, <2>3 DEF NodeCards
<1>11. BoxCards'
  <2> SUFFICES ASSUME NEW b \in Box PROVE BoxCard(b)'
    BY DEF BoxCards
  <2>1. /\ Shows(b, Clean)' <=> Shows(b, Clean)
        /\ Shows(b, Broken)' <=> Shows(b, Broken)
        /\ Shows(b, {"running"})' <=> Shows(b, {"running"})
    BY <1>3, NodesAndBoxes
  <2>2. \A m \in Inner(b) : m \in Node /\ Rung(m, b) # {}
    BY NodesAndBoxes
  <2>3. BoxCard(b)
    BY DEF BoxCards
  <2>4. Shows(b, Clean) => n \notin Inner(b)
    BY <1>0, <2>2, <2>3 DEF BoxCard, Past, InRoll
  <2>5. Shows(b, Clean) => \A m \in Inner(b) : \A i \in Rung(m, b) : Past(m, i)'
    BY <1>2, <2>2, <2>3, <2>4 DEF BoxCard, Past
  <2>6. Shows(b, Broken) => \E m \in Inner(b) : /\ say'[m] \in Broken
                                                /\ pc'[m] \in InRoll \cup {"done", "failed"}
    BY <1>0, <1>2, <2>2, <2>3 DEF BoxCard, InRoll
  <2> QED BY <1>2, <2>1, <2>3, <2>5, <2>6 DEF BoxCard
<1> QED BY <1>6, <1>7, <1>8, <1>9, <1>10, <1>11

\* A container that a frame of the roll-up goes out for.
LEMMA PaintsRolling ==
  ASSUME TypeInv, Results, OneRolls, NEW n \in Node, pc[n] \in InRoll, NEW f \in Frame,
         NEW S \in SUBSET {Rolling(n)}, Paint(S, f)
  PROVE  /\ \A c \in Card : \A F : Shows(c, F)' <=> Shows(c, F) \/ (c \in S /\ f \in F)
         /\ \A m \in Node : \A F : Shows(m, F)' <=> Shows(m, F)
         /\ \A b \in Box \ {Rolling(n)} : \A F : Shows(b, F)' <=> Shows(b, F)
<1>1. Rolling(n) \in Box
  BY Roller
<1>2. \A c \in Card : \A F : Shows(c, F)' <=> Shows(c, F) \/ (c \in S /\ f \in F)
  BY PaintShows
<1> QED BY <1>1, <1>2, NodesAndBoxes

LEMMA BreaksCards ==
  ASSUME TypeInv, Results, OneRolls, Announced, Counters, NodeCards, BoxCards,
         NEW n \in Node, RollsBroken(n)
  PROVE  OneRolls' /\ Announced' /\ Counters' /\ NodeCards' /\ BoxCards' /\ Cards!Next
<1>0. PICK b \in Box : b = Rolling(n)
  BY Roller DEF RollsBroken, InRoll
<1>1. /\ pc[n] \in InRoll /\ say[n] \in Broken /\ Paint({b}, say[n]) /\ Onwards(n)
      /\ settled' = settled \cup {b} /\ UNCHANGED <<say, started, done>>
  BY <1>0 DEF RollsBroken, InRoll, Broken
<1>2. b \in Box /\ b \in Card /\ n \in Inner(b) /\ Rung(n, b) = {at[n]} /\ say[n] \in Frame
  BY <1>0, <1>1, Roller
<1>3. /\ \A c \in Card : \A F : Shows(c, F)' <=> Shows(c, F) \/ (c = b /\ say[n] \in F)
      /\ \A m \in Node : \A F : Shows(m, F)' <=> Shows(m, F)
      /\ \A d \in Box \ {b} : \A F : Shows(d, F)' <=> Shows(d, F)
  BY <1>0, <1>1, <1>2, PaintsRolling
<1>4. b \in started /\ Shows(b, {"running"}) /\ ~Shows(b, Clean)
  <2>1. b \in ToSet(Containers[n])
    BY <1>2 DEF Inner
  <2>2. b \in started
    BY <1>1, <2>1 DEF Announced, HasRun
  <2> QED BY <1>1, <1>2, <2>2, FrameSets DEF BoxCards, BoxCard
<1>5. Cards!Next
  <2>1. Cards!Follows(say[n], b, log[b])
    BY <1>1, <1>2, <1>4, FrameSets DEF Cards!Follows, Shows, Broken
  <2> QED BY <1>1, <1>2, <2>1, PaintFollows
<1>6. OneRolls' /\ Announced'
  BY <1>1, OnwardAnnounced, FrameSets
<1>7. Counters'
  <2>1. \A d \in Box : Counted(d)' = Counted(d)
    BY <1>1, OnwardCounted, FrameSets
  <2> QED BY <1>1, <2>1 DEF Counters
<1>8. NodeCards'
  BY <1>1, <1>3, OnwardNodeCards
<1>9. BoxCard(b)'
  <2>1. pc'[n] \in InRoll \cup {"done", "failed"}
    BY <1>1, OnwardSteps, Afterwards DEF InRoll
  <2>2. ~Shows(b, Clean)'
    BY <1>1, <1>2, <1>3, <1>4, FrameSets
  <2>3. Shows(b, {"running"})'
    BY <1>2, <1>3, <1>4
  <2> QED BY <1>1, <1>2, <1>4, <2>1, <2>2, <2>3 DEF BoxCard
<1>10. BoxCards'
  <2>1. ASSUME NEW d \in Box, d # b PROVE BoxCard(d)'
    BY <1>1, <1>3, <2>1, OnwardBoxCard
  <2> QED BY <1>9, <2>1 DEF BoxCards
<1> QED BY <1>5, <1>6, <1>7, <1>8, <1>10

LEMMA StartsCards ==
  ASSUME TypeInv, Results, OneRolls, Announced, Counters, NodeCards, BoxCards,
         NEW n \in Node, RollsRunning(n)
  PROVE  OneRolls' /\ Announced' /\ Counters' /\ NodeCards' /\ BoxCards' /\ Cards!Next
<1>0. PICK b \in Box : b = Rolling(n)
  BY Roller DEF RollsRunning, InRoll
<1>1. /\ pc[n] \in InRoll /\ say[n] = "running" /\ Paint({b} \ started, "running") /\ Onwards(n)
      /\ started' = started \cup {b} /\ UNCHANGED <<say, settled, done>>
  BY <1>0 DEF RollsRunning, InRoll
<1>2. b \in Box /\ b \in Card /\ n \in Inner(b) /\ Rung(n, b) = {at[n]}
  BY <1>0, <1>1, Roller
<1>3. /\ \A c \in Card : \A F : Shows(c, F)' <=>
           Shows(c, F) \/ (c \in {b} \ started /\ "running" \in F)
      /\ \A m \in Node : \A F : Shows(m, F)' <=> Shows(m, F)
      /\ \A d \in Box \ {b} : \A F : Shows(d, F)' <=> Shows(d, F)
  <2>1. {b} \ started \in SUBSET {Rolling(n)}
    BY <1>0
  <2> QED BY <1>0, <1>1, <2>1, PaintsRolling, FrameSets
<1>4. ~Shows(b, Clean) /\ (b \notin started => ~Shows(b, Broken))
  BY <1>1, <1>2, FrameSets DEF BoxCards, BoxCard
<1>5. Cards!Next
  <2>1. \A c \in ({b} \ started) \cap Card : Cards!Follows("running", c, log[c])
    BY <1>4, FrameSets DEF Cards!Follows, Shows, Broken
  <2> QED BY <1>1, <2>1, PaintFollows, FrameSets
<1>6. OneRolls' /\ Announced'
  BY <1>0, <1>1, OnwardAnnounced
<1>7. Counters'
  <2>1. \A d \in Box : Counted(d)' = Counted(d)
    BY <1>1, OnwardCounted, FrameSets
  <2> QED BY <1>1, <2>1 DEF Counters
<1>8. NodeCards'
  BY <1>1, <1>3, OnwardNodeCards
<1>9. ASSUME NEW d \in Box PROVE BoxCard(d)'
  <2>1. d \in Card /\ (Shows(d, Clean)' <=> Shows(d, Clean)) /\ (Shows(d, Broken)' <=> Shows(d, Broken))
    BY <1>3, NodesAndBoxes, FrameSets
  <2>2. Shows(d, {"running"}) => Shows(d, {"running"})'
    BY <1>3, <2>1
  <2>3. d \in started' => d \in started \/ Shows(d, {"running"})'
    BY <1>1, <1>2, <1>3
  <2> QED BY <1>1, <2>1, <2>2, <2>3, OnwardBoxCard
<1> QED BY <1>5, <1>6, <1>7, <1>8, <1>9 DEF BoxCards

\* A node that ended well is counted: the container that counts it has not
\* ended, well or not, as one of its nodes was still to be counted.
LEMMA CountsCards ==
  ASSUME TypeInv, Results, OneRolls, Announced, Counters, NodeCards, BoxCards,
         NEW n \in Node, Counts(n)
  PROVE  OneRolls' /\ Announced' /\ Counters' /\ NodeCards' /\ BoxCards' /\ Cards!Next
<1>0. PICK b \in Box : b = Rolling(n)
  BY Roller DEF Counts, InRoll
<1>1. PICK S \in SUBSET {b} : /\ Paint(S, "running")
                              /\ b \notin started => b \in S
                              /\ b \in S => b \notin started \/ b \notin settled
  BY <1>0 DEF Counts
<1>2. /\ pc[n] = "counting" /\ say[n] \in Clean /\ pc' = [pc EXCEPT ![n] = "settling"]
      /\ done' = [done EXCEPT ![b] = @ + 1] /\ started' = started \cup {b}
      /\ UNCHANGED <<say, at, roller, settled>>
  BY <1>0, RankFrames DEF Counts
<1>3. /\ b \in Card /\ n \in Inner(b) /\ Rung(n, b) = {at[n]} /\ at[n] \in DOMAIN Containers[n]
      /\ Containers[n][at[n]] = b /\ pc \in [Node -> Stage] /\ done \in [Box -> Nat]
      /\ at[n] \in Nat
  BY <1>0, <1>2, Roller DEF InRoll, TypeInv, TypeOK, Rolling
<1>4. /\ \A m \in Node \ {n} : pc'[m] = pc[m]
      /\ pc'[n] = "settling"
      /\ \A m \in Node : (pc'[m] \in InRoll <=> pc[m] \in InRoll) /\ (pc'[m] = "done" <=> pc[m] = "done")
  BY <1>2, <1>3 DEF InRoll
<1>5. /\ \A c \in Card : \A F : Shows(c, F)' <=> Shows(c, F) \/ (c \in S /\ "running" \in F)
      /\ \A m \in Node : \A F : Shows(m, F)' <=> Shows(m, F)
      /\ \A d \in Box \ {b} : \A F : Shows(d, F)' <=> Shows(d, F)
  <2>1. S \in SUBSET {Rolling(n)} /\ pc[n] \in InRoll
    BY <1>0, <1>2 DEF InRoll
  <2> QED BY <1>0, <1>1, <2>1, PaintsRolling, FrameSets
<1>6. ~Past(n, at[n]) /\ ~Shows(b, Clean) /\ (b \in S => ~Shows(b, Broken))
  <2>1. ~Past(n, at[n])
    BY <1>2, <1>3 DEF Past
  <2> QED BY <1>1, <1>3, <2>1 DEF BoxCards, BoxCard
<1>7. Cards!Next
  <2>1. \A c \in S \cap Card : Cards!Follows("running", c, log[c])
    BY <1>6, FrameSets DEF Cards!Follows, Shows, Broken
  <2> QED BY <1>1, <2>1, PaintFollows, FrameSets
<1>8. OneRolls'
  BY <1>2, <1>4 DEF OneRolls, Busy, InRoll
<1>9. Announced'
  <2>1. \A m \in Node : HasRun(m)' => HasRun(m)
    BY <1>2, <1>4, FrameSets DEF HasRun, Busy
  <2> QED BY <1>2, <1>4, <2>1 DEF Announced
<1>10. \A m \in Node : \A i : Past(m, i)' <=> Past(m, i)
  BY <1>2, <1>4 DEF Past
<1>11. Counters'
  <2>1. ASSUME NEW d \in Box, d # b PROVE Counted(d)' = Counted(d)
    <3>1. \A m \in Inner(d) : m \in Node
      BY NodesAndBoxes
    <3>2. at[n] \notin Rung(n, d)
      BY <1>3, <2>1 DEF Rung
    <3>3. \A m \in Inner(d) : \A i \in Rung(m, d) : CountedAt(m, i)' <=> CountedAt(m, i)
      BY <1>2, <1>4, <1>10, <3>1, <3>2 DEF CountedAt
    <3> QED BY <1>2, <3>3 DEF Counted
  <2>2. Counted(b)' = Counted(b) \cup {n} /\ n \notin Counted(b)
    <3>1. \A m \in Inner(b) : m \in Node
      BY NodesAndBoxes
    <3>2. \A m \in Inner(b) \ {n} : \A i : CountedAt(m, i)' <=> CountedAt(m, i)
      BY <1>2, <1>4, <1>10, <3>1 DEF CountedAt
    <3>3. ~CountedAt(n, at[n]) /\ CountedAt(n, at[n])'
      BY <1>2, <1>4, <1>6 DEF CountedAt
    <3> QED BY <1>2, <1>3, <3>2, <3>3 DEF Counted
  <2>3. Cardinality(Counted(b) \cup {n}) = Cardinality(Counted(b)) + 1
    <3>1. IsFiniteSet(Counted(b))
      <4>1. Counted(b) \subseteq Node
        BY DEF Counted, Inner
      <4> QED BY <4>1, FS_Subset, NodesAreFinite
    <3> QED BY <2>2, <3>1, FS_AddElement
  <2>4. /\ done'[b] = done[b] + 1 /\ \A d \in Box \ {b} : done'[d] = done[d]
    BY <1>2, <1>3
  <2> QED BY <1>2, <2>1, <2>2, <2>3, <2>4 DEF Counters
<1>12. NodeCards'
  <2>1. \A m \in Node : HasRun(m)' => HasRun(m)
    BY <1>2, <1>4, FrameSets DEF HasRun, Busy
  <2> QED BY <1>2, <1>4, <1>5, <2>1, FrameSets DEF NodeCards, InRoll
<1>13. ASSUME NEW d \in Box PROVE BoxCard(d)'
  <2>1. d \in Card /\ (Shows(d, Clean)' <=> Shows(d, Clean)) /\ (Shows(d, Broken)' <=> Shows(d, Broken))
    BY <1>5, NodesAndBoxes, FrameSets
  <2>2. d \in started' => Shows(d, {"running"})'
    BY <1>1, <1>2, <1>5, <2>1 DEF BoxCards, BoxCard
  <2>3. \A m \in Inner(d) : m \in Node
    BY NodesAndBoxes
  <2>4. ASSUME NEW m \in Inner(d), say[m] \in Broken, pc[m] \in InRoll \cup {"done", "failed"}
        PROVE  pc'[m] \in InRoll \cup {"done", "failed"}
    BY <1>4, <2>3, <2>4 DEF InRoll
  <2> QED BY <1>2, <1>10, <2>1, <2>2, <2>3, <2>4 DEF BoxCards, BoxCard
<1> QED BY <1>7, <1>8, <1>9, <1>11, <1>12, <1>13 DEF BoxCards

\* The last node to be counted settles the container: all of its nodes were
\* counted, so each ended well, and none is left to break it.
LEMMA SettlesCards ==
  ASSUME TypeInv, Results, OneRolls, Announced, Counters, NodeCards, BoxCards,
         NEW n \in Node, Settles(n)
  PROVE  OneRolls' /\ Announced' /\ Counters' /\ NodeCards' /\ BoxCards'
         /\ (Cards!Next \/ UNCHANGED log)
<1>0. PICK b \in Box : b = Rolling(n)
  BY Roller DEF Settles, InRoll
<1>1. /\ pc[n] = "settling" /\ say[n] \in Clean /\ pc[n] \in InRoll /\ Onwards(n)
      /\ UNCHANGED <<say, started, settled, done>>
  BY <1>0 DEF Settles, InRoll, OneRolls
<1>2. /\ b \in Card /\ n \in Inner(b) /\ Rung(n, b) = {at[n]} /\ at[n] \in Nat
      /\ \A m \in Node \ {n} : pc[m] \notin InRoll
  BY <1>0, <1>1, Roller DEF TypeInv, TypeOK
<1>3. OneRolls' /\ Announced'
  BY <1>1, OnwardAnnounced, FrameSets
<1>4. Counters'
  <2>1. \A d \in Box : Counted(d)' = Counted(d)
    BY <1>1, OnwardCounted
  <2> QED BY <1>1, <2>1 DEF Counters
<1>5. CASE ~AllReported(b)
  <2>1. log' = log
    BY <1>0, <1>5 DEF Settles
  <2>2. \A c : \A F : Shows(c, F)' <=> Shows(c, F)
    BY <2>1 DEF Shows
  <2>3. NodeCards'
    BY <1>1, <2>2, OnwardNodeCards
  <2>4. \A d \in Box : BoxCard(d)'
    BY <1>1, <2>2, OnwardBoxCard
  <2> QED BY <1>3, <1>4, <2>1, <2>3, <2>4 DEF BoxCards
<1>6. CASE AllReported(b)
  <2>1. PICK f \in Clean : f \in Frame /\ Paint({b}, f)
    <3>1. rank[b] \in 0 .. 2
      BY DEF TypeInv, TypeOK
    <3> QED BY <1>0, <1>6, <3>1, RankFrames DEF Settles
  <2>2. Counted(b) = Inner(b)
    <3>1. Counted(b) \subseteq Inner(b) /\ IsFiniteSet(Inner(b))
      <4>1. Counted(b) \subseteq Inner(b) /\ Inner(b) \subseteq Node
        BY DEF Counted, Inner
      <4> QED BY <4>1, FS_Subset, NodesAreFinite
    <3>2. Cardinality(Counted(b)) \in Nat /\ Cardinality(Inner(b)) \in Nat
          /\ Cardinality(Counted(b)) <= Cardinality(Inner(b))
          /\ (Cardinality(Counted(b)) = Cardinality(Inner(b)) => Counted(b) = Inner(b))
      BY <3>1, FS_Subset, FS_CardinalityType
    <3>3. Cardinality(Counted(b)) >= Cardinality(Inner(b))
      BY <1>6 DEF AllReported, Counters
    <3> QED BY <3>2, <3>3
  <2>3. b \in started
    BY <1>2, <2>2 DEF Counters
  <2>4. ~Shows(b, Clean) /\ ~Shows(b, Broken) /\ Shows(b, {"running"})
    <3>1. ~Past(n, at[n])
      BY <1>1, <1>2 DEF Past
    <3>2. \A m \in Inner(b) : say[m] \notin Broken
      BY <2>2, FrameSets DEF Counted
    <3> QED BY <1>2, <2>3, <3>1, <3>2 DEF BoxCards, BoxCard
  <2>5. Cards!Next
    <3>1. Cards!Follows(f, b, log[b])
      BY <2>1, <2>4, FrameSets DEF Cards!Follows, Shows, Broken
    <3> QED BY <2>1, <3>1, PaintFollows
  <2>6. /\ \A c \in Card : \A F : Shows(c, F)' <=> Shows(c, F) \/ (c = b /\ f \in F)
        /\ \A m \in Node : \A F : Shows(m, F)' <=> Shows(m, F)
        /\ \A d \in Box \ {b} : \A F : Shows(d, F)' <=> Shows(d, F)
    BY <1>0, <1>1, <2>1, PaintsRolling
  <2>7. NodeCards'
    BY <1>1, <2>6, OnwardNodeCards
  <2>8. ASSUME NEW d \in Box, d # b PROVE BoxCard(d)'
    BY <1>1, <2>6, <2>8, OnwardBoxCard
  <2>9. BoxCard(b)'
    <3>1. ~Shows(b, Broken)' /\ Shows(b, {"running"})'
      BY <1>2, <2>1, <2>4, <2>6, FrameSets
    <3>2. ASSUME NEW m \in Inner(b) PROVE say[m] \in Clean /\ \A i \in Rung(m, b) : Past(m, i)'
      <4>1. say[m] \in Clean /\ m \in Node /\ \A i \in Rung(m, b) : CountedAt(m, i)
        BY <2>2, NodesAndBoxes DEF Counted
      <4>2. CASE m # n
        BY <1>1, <1>2, <4>1, <4>2, OnwardSteps DEF CountedAt, Past, InRoll
      <4>3. CASE m = n
        <5>1. pc'[n] = "done" \/ (pc'[n] = "counting" /\ at'[n] = at[n] + 1)
          BY <1>1, OnwardSteps, Afterwards
        <5> QED BY <1>2, <4>1, <4>3, <5>1 DEF Past, InRoll
      <4> QED BY <4>2, <4>3
    <3> QED BY <1>1, <3>1, <3>2 DEF BoxCard
  <2> QED BY <1>3, <1>4, <2>5, <2>7, <2>8, <2>9 DEF BoxCards
<1> QED BY <1>5, <1>6

\* Queued progress: its node was announced on every card it is on, and ends
\* well only after it was dispatched.
LEMMA DispatchesCards ==
  ASSUME TypeInv, OneDrains, OneRolls, Announced, Counters, Pending, NodeCards, BoxCards,
         NEW c \in Caller, Dispatches(c)
  PROVE  OneRolls' /\ Announced' /\ Counters' /\ NodeCards' /\ BoxCards' /\ Cards!Next
<1>0. PICK k \in Node : /\ Paint(Painted(k), "progress") /\ Unsettled(k)
                        /\ UNCHANGED <<nodeVars, boxVars>>
  <2>1. /\ batch[c] # <<>> /\ batch[c] \in Seq(Signal) /\ Len(batch[c]) > 0
        /\ DOMAIN batch[c] = 1 .. Len(batch[c]) /\ Len(batch[c]) \in Nat
    BY DispatchSteps, Queues
  <2>2. Head(batch[c]) = batch[c][1] /\ 1 \in DOMAIN batch[c] /\ batch[c][1] \in Signal
    BY <2>1
  <2>3. Unsettled(batch[c][1].node) /\ batch[c][1].node \in Node
    BY <2>2 DEF Pending, Signal
  <2> QED BY <2>2, <2>3 DEF Dispatches
<1>1. \A d \in Card : \A F \in {Clean, Broken, {"running"}} : Shows(d, F)' <=> Shows(d, F)
  BY <1>0, PaintShows, FrameSets
<1>2. \A n \in Node : Keeps(n)
  BY <1>0 DEF Keeps, nodeVars
<1>3. say[k] \notin Clean /\ HasRun(k)
  BY <1>0, FrameSets DEF Unsettled, Broken
<1>4. \A d \in Painted(k) : Shows(d, {"running"}) /\ ~Shows(d, Clean)
  <2>1. Shows(k, {"running"}) /\ ~Shows(k, Clean)
    BY <1>3 DEF NodeCards
  <2>2. ASSUME Containers[k] # <<>>
        PROVE  Shows(Outermost(k), {"running"}) /\ ~Shows(Outermost(k), Clean)
    <3>1. Len(Containers[k]) \in DOMAIN Containers[k] /\ Outermost(k) = Containers[k][Len(Containers[k])]
      BY <2>2, NodesAndBoxes DEF Outermost, Last
    <3>2. Outermost(k) \in Box /\ k \in Inner(Outermost(k)) /\ Outermost(k) \in ToSet(Containers[k])
      BY <3>1, NodesAndBoxes DEF ToSet
    <3>3. Outermost(k) \in started
      BY <1>3, <3>2 DEF Announced
    <3> QED BY <1>3, <3>2, <3>3 DEF BoxCards, BoxCard
  <2> QED BY <2>1, <2>2 DEF Painted
<1>5. Cards!Next
  <2>1. \A d \in Painted(k) \cap Card : Cards!Follows("progress", d, log[d])
    BY <1>4, FrameSets DEF Cards!Follows, Shows
  <2> QED BY <1>0, <2>1, PaintFollows, FrameSets
<1> QED BY <1>0, <1>1, <1>2, <1>5, QuietSteps
----------------------------------------------------------------------------
(* The refinement *)

LEMMA CardInit == Init => CardInv /\ Cards!Init
<1> SUFFICES ASSUME Init PROVE CardInv /\ Cards!Init
  OBVIOUS
<1>1. /\ pc = [n \in Node |-> "idle"] /\ say = [n \in Node |-> "none"] /\ roller = Nobody
      /\ started = {} /\ outbox = <<>> /\ batch = [c \in Caller |-> <<>>]
      /\ done = [b \in Box |-> 0] /\ log = [c \in Card |-> <<>>]
  BY DEF Init
<1>2. \A c \in Card : \A F : ~Shows(c, F)
  BY <1>1 DEF Shows, Cards!Has
<1>3. \A n \in Node : ~HasRun(n) /\ say[n] \notin Clean
  BY <1>1 DEF HasRun, Broken, Clean
<1>4. \A b \in Box : Counted(b) = {}
  BY <1>3 DEF Counted, Inner
<1>5. OneRolls
  BY <1>1, CallersDiffer DEF OneRolls, InRoll, Busy
<1>6. Announced
  BY <1>1, <1>3 DEF Announced, InRoll
<1>7. Counters
  BY <1>1, <1>4, FS_EmptySet DEF Counters
<1>8. Pending
  BY <1>1 DEF Pending
<1>9. NodeCards
  BY <1>1, <1>2, <1>3, NodesAndBoxes DEF NodeCards, InRoll
<1>10. BoxCards
  BY <1>1, <1>2, NodesAndBoxes DEF BoxCards, BoxCard
<1> QED BY <1>1, <1>5, <1>6, <1>7, <1>8, <1>9, <1>10 DEF CardInv, Cards!Init

LEMMA CardNext ==
  ASSUME IInv, CardInv, [Next]_vars
  PROVE  CardInv' /\ (Cards!Next \/ UNCHANGED log)
<1>0. /\ TypeInv /\ OneDrains /\ Results /\ OneRolls /\ Announced /\ Counters /\ Pending
      /\ NodeCards /\ BoxCards
  BY DEF IInv, CardInv
<1>1. Pending'
  BY <1>0, PendingNext
<1>2. ASSUME NEW n \in Node, Says(n) \/ RollsUp(n)
      PROVE  OneRolls' /\ Announced' /\ Counters' /\ NodeCards' /\ BoxCards'
             /\ (Cards!Next \/ UNCHANGED log)
  BY <1>0, <1>2, SaysCards, BreaksCards, StartsCards, CountsCards, SettlesCards DEF RollsUp
<1>3. ASSUME NEW c \in Caller, Dispatches(c)
      PROVE  OneRolls' /\ Announced' /\ Counters' /\ NodeCards' /\ BoxCards' /\ Cards!Next
  BY <1>0, <1>3, DispatchesCards
<1>4. CASE UNCHANGED <<boxVars, log>> /\ \A n \in Node : ~Says(n) /\ ~RollsUp(n)
  <2>1. \A c : \A F : Shows(c, F)' <=> Shows(c, F)
    BY <1>4 DEF Shows
  <2> QED BY <1>0, <1>1, <1>4, <2>1, KeepSteps, QuietSteps DEF CardInv
<1> QED BY <1>1, <1>2, <1>3, <1>4, CardSteps DEF CardInv

\* A follower of a run sees each card run before it ends; a node ends once,
\* whichever way; a container completes once, and not after a failure inside,
\* of which it may be told several; no progress of a node lands after its own
\* "completed": the status frames of _emit_preset_aware(), _roll_up() and
\* _deliver() are those of CardLog.
THEOREM CardsAreTold == Spec => CardsSpec
<1>1. Init => CardInv /\ Cards!Init
  BY CardInit
<1>2. IInv /\ CardInv /\ [Next]_vars => CardInv' /\ [Cards!Next]_log
  BY CardNext
<1> QED BY <1>1, <1>2, Invariant, PTL DEF Spec, CardsSpec, Cards!Spec
=============================================================================
