-------------------------- MODULE GraphEngineProofs --------------------------
(* Proofs about GraphEngine, for any graph, any placement of its nodes in   *)
(* containers, and any sizes of the outbox and the worker pool.             *)
EXTENDS GraphEngine, FiniteSetTheorems, TLAPS

----------------------------------------------------------------------------
(* Lemmas *)

\* Names that are no nodes' differ.
LEMMA CallersDiffer ==
  /\ Pump \in Caller /\ Finally \in Caller /\ Nobody \notin Caller /\ Pump # Finally
  /\ Pump \notin Node /\ Finally \notin Node /\ Nobody \notin Node
BY NodesAreFinite DEF Pump, Finally, Nobody, Caller

\* The parts of a sequence that is not empty.
LEMMA Parts ==
  ASSUME NEW S, NEW q \in Seq(S), q # <<>>
  PROVE  /\ Head(q) \in S /\ Head(q) = q[1] /\ Len(q) \in Nat /\ Len(q) > 0
         /\ Tail(q) \in Seq(S) /\ Len(Tail(q)) = Len(q) - 1
         /\ \A i \in 1 .. Len(Tail(q)) : Tail(q)[i] = q[i + 1]
OBVIOUS

\* One more at the end.
LEMMA Longer ==
  ASSUME NEW S, NEW q \in Seq(S), NEW e \in S
  PROVE  /\ Append(q, e) \in Seq(S) /\ Len(q) \in Nat /\ Len(Append(q, e)) = Len(q) + 1
         /\ Append(q, e)[Len(q) + 1] = e
         /\ \A i \in 1 .. Len(q) : Append(q, e)[i] = q[i]
OBVIOUS

LEMMA PaintKeeps ==
  ASSUME log \in [Card -> Seq(Frame)], NEW S, NEW f \in Frame, Paint(S, f)
  PROVE  log' \in [Card -> Seq(Frame)]
BY DEF Paint

LEMMA RankFrames ==
  /\ DOMAIN Rank = Clean
  /\ \A s \in Clean : Rank[s] \in 0 .. 2 /\ s \in Frame
  /\ \A r \in 0 .. 2 : StatusOf(r) \in Clean /\ StatusOf(r) \in Frame
<1>1. DOMAIN Rank = Clean /\ \A s \in Clean : Rank[s] \in 0 .. 2 /\ s \in Frame
  BY DEF Rank, Clean, Frame
<1>2. \A r \in 0 .. 2 : \E s \in DOMAIN Rank : Rank[s] = r
  BY DEF Rank
<1> QED BY <1>1, <1>2 DEF StatusOf, Frame
----------------------------------------------------------------------------
(* Which steps touch what *)

\* The steps of one node.
NodeStep(n) == OnLoop(n) \/ Thread(n)

\* The variables of a node change only by its own steps.
LEMMA NodeSteps ==
  ASSUME [Next]_vars
  PROVE  UNCHANGED nodeVars \/ \E n \in Node : NodeStep(n)
BY DEF Next, NodeStep, vars, Delivery, Engines, Pokes, PumpDrains, PumpReleases, Dispatches,
       DispatchRaises, Stop, EndsLevel, Flushes, ReturnsOutcome

\* A drain, and whose.
DrainStep(c) ==
  /\ Drains(c) /\ UNCHANGED <<options, cancelled, boxVars, log>>
  /\ \/ c = Pump /\ engine # "returned" /\ UNCHANGED <<engineVars, nodeVars>>
     \/ /\ c \in Node /\ pc[c] = "returned" /\ pc' = [pc EXCEPT ![c] = "draining"]
        /\ UNCHANGED <<engineVars, say, at, attempts, made, outputs, errors, keys, cache, rng>>
     \/ /\ c = Finally /\ engine = "flushing" /\ engine' = "flushed"
        /\ UNCHANGED <<level, outcome, nodeVars>>

\* What touches the outbox and what was drained of it.
LEMMA QueueSteps ==
  ASSUME [Next]_vars
  PROVE  \/ UNCHANGED <<queueVars, signalVars>>
         \/ \E n \in Node : Executes(n) \/ Puts(n) \/ Completes(n)
         \/ \E c \in Caller : DrainStep(c) \/ Dispatches(c) \/ DispatchRaises(c)
         \/ Pokes \/ PumpReleases \/ ReturnsOutcome
<1>1. CASE UNCHANGED vars
  BY <1>1 DEF vars
<1>2. ASSUME NEW n \in Node, OnLoop(n) \/ Thread(n)
      PROVE  \/ UNCHANGED <<queueVars, signalVars>>
             \/ Executes(n) \/ Puts(n) \/ Completes(n) \/ DrainStep(n)
  <2>1. CASE NodeDrains(n)
    BY <2>1 DEF NodeDrains, DrainStep
  <2> QED BY <1>2, <2>1 DEF OnLoop, Thread, RollsUp, Begins, Stops, Again, Says, RollsBroken,
        RollsRunning, Counts, Settles, Returns, Raises
<1>3. CASE Delivery
  BY <1>3, CallersDiffer DEF Delivery, PumpDrains, DrainStep
<1>4. CASE Engines
  BY <1>4, CallersDiffer DEF Engines, EndsLevel, Flushes, DrainStep
<1>5. CASE Stop
  BY <1>5 DEF Stop
<1>6. Node \subseteq Caller
  BY DEF Caller
<1> QED BY <1>1, <1>2, <1>3, <1>4, <1>5, <1>6 DEF Next

\* What touches the cards.
LEMMA CardSteps ==
  ASSUME [Next]_vars
  PROVE  \/ UNCHANGED <<boxVars, log>>
         \/ \E n \in Node : Says(n) \/ RollsUp(n)
         \/ \E c \in Caller : Dispatches(c)
<1>1. CASE UNCHANGED vars
  BY <1>1 DEF vars
<1>2. ASSUME NEW n \in Node, OnLoop(n) \/ Thread(n)
      PROVE  UNCHANGED <<boxVars, log>> \/ Says(n) \/ RollsUp(n)
  BY <1>2 DEF OnLoop, Thread, Begins, Stops, Executes, Again, NodeDrains, Completes, Puts,
              Returns, Raises
<1>3. CASE Delivery
  BY <1>3 DEF Delivery, Pokes, PumpDrains, PumpReleases
<1>4. CASE Engines \/ Stop \/ \E c \in Caller : DispatchRaises(c)
  BY <1>4 DEF Engines, EndsLevel, Flushes, ReturnsOutcome, Stop, DispatchRaises
<1> QED BY <1>1, <1>2, <1>3, <1>4 DEF Next

----------------------------------------------------------------------------
(* The type invariant *)

\* A frame is going out, or being rolled up, on behalf of the containers.
Telling == {"reporting", "counting", "settling"}
InRoll == {"counting", "settling"}

\* A node that has something to say says it, container by container.
Voices ==
  \A n \in Node : /\ pc[n] \in Telling => say[n] \in Frame
                  /\ pc[n] \in InRoll => at[n] \in DOMAIN Containers[n]

RunTypes ==
  /\ mode \in {"fail_fast", "continue", "retry"} /\ seeded \in BOOLEAN /\ live \in BOOLEAN
  /\ cancelled \in BOOLEAN /\ level \in Nat /\ engine \in Engine
  /\ outcome \in {"none", "succeeded", "failed", "cancelled"} /\ faults \in 0 .. MaxFaults

NodeTypes ==
  /\ pc \in [Node -> Stage] /\ say \in [Node -> Frame \cup {"none"}]
  /\ at \in [Node -> Nat] /\ attempts \in [Node -> 0 .. MaxRetries]
  /\ made \in [Node -> Value] /\ outputs \in [Node -> Value] /\ cache \in [Node -> Value]
  /\ errors \subseteq Node /\ keys \subseteq Node /\ rng \in Node \cup {Nobody}

QueueTypes ==
  /\ outbox \in Seq(Signal) /\ waker \in BOOLEAN /\ poked \in BOOLEAN /\ dropped \in Nat
  /\ produced \in 0 .. MaxSignals /\ tail \in [Node -> 0 .. MaxSignals]
  /\ batch \in [Caller -> Seq(Signal)] /\ holder \in Caller \cup {Nobody}
  /\ delivered \in Seq(Nat) /\ reported \in Nat /\ lost \in Nat

CardTypes ==
  /\ roller \in Node \cup {Nobody} /\ started \subseteq Box /\ settled \subseteq Box
  /\ done \in [Box -> Nat] /\ rank \in [Box -> 0 .. 2] /\ log \in [Card -> Seq(Frame)]

\* TypeOK, a few variables at a time.
LEMMA TypeParts == TypeOK <=> RunTypes /\ NodeTypes /\ QueueTypes /\ CardTypes
BY DEF TypeOK, RunTypes, NodeTypes, QueueTypes, CardTypes

TypeInv == TypeOK /\ Voices

LEMMA RollingIsBox ==
  ASSUME Voices, NEW n \in Node, pc[n] \in InRoll
  PROVE  /\ Rolling(n) \in Box /\ at[n] \in 1 .. Len(Containers[n])
         /\ Containers[n] \in Seq(Box) /\ Len(Containers[n]) \in Nat
<1>1. Containers[n] \in Seq(Box) /\ at[n] \in DOMAIN Containers[n]
  BY ContainersAreNested DEF Voices
<1> QED BY <1>1 DEF Rolling

LEMMA TypeInit == Init => TypeInv
<1> SUFFICES ASSUME Init PROVE TypeInv
  OBVIOUS
<1>1. \A r \in Request : /\ r.mode \in {"fail_fast", "continue", "retry"}
                         /\ r.seeded \in BOOLEAN /\ r.live \in BOOLEAN
  BY Requests
<1>2. PICK r \in Request : /\ mode = r.mode /\ seeded = r.seeded /\ live = r.live
                           /\ cache = [n \in Node |-> IF n \in r.primed THEN "full" ELSE "none"]
  BY DEF Init
<1>3. TypeOK
  <2>1. /\ mode \in {"fail_fast", "continue", "retry"} /\ seeded \in BOOLEAN
        /\ live \in BOOLEAN /\ cache \in [Node -> Value]
    BY <1>1, <1>2 DEF Value
  <2>2. /\ outbox \in Seq(Signal) /\ batch \in [Caller -> Seq(Signal)]
        /\ delivered \in Seq(Nat) /\ log \in [Card -> Seq(Frame)]
    BY DEF Init
  <2>3. /\ pc \in [Node -> Stage] /\ say \in [Node -> Frame \cup {"none"}]
        /\ at \in [Node -> Nat] /\ attempts \in [Node -> 0 .. MaxRetries]
        /\ made \in [Node -> Value] /\ outputs \in [Node -> Value]
        /\ tail \in [Node -> 0 .. MaxSignals] /\ produced \in 0 .. MaxSignals
        /\ done \in [Box -> Nat] /\ rank \in [Box -> 0 .. 2] /\ faults \in 0 .. MaxFaults
    BY EngineBounds DEF Init, Stage, Value, Retries
  <2> QED BY <2>1, <2>2, <2>3 DEF Init, TypeOK, Engine
<1>4. Voices
  BY DEF Init, Voices, Telling, InRoll
<1> QED BY <1>3, <1>4 DEF TypeInv

LEMMA RunTypesNext == ASSUME TypeInv, [Next]_vars PROVE RunTypes'
<1>0. RunTypes
  BY TypeParts DEF TypeInv
<1>1. CASE UNCHANGED vars
  BY <1>0, <1>1 DEF RunTypes, vars, options, engineVars
<1>2. ASSUME NEW n \in Node, OnLoop(n) \/ Puts(n) \/ Returns(n) PROVE RunTypes'
  BY <1>0, <1>2 DEF RunTypes, options, engineVars, OnLoop, RollsUp, Begins, Stops, Executes,
     Again, Says, RollsBroken, RollsRunning, Counts, Settles, NodeDrains, Completes, Puts, Returns
<1>3. ASSUME NEW n \in Node, Raises(n) PROVE RunTypes'
  BY <1>0, <1>3, EngineBounds DEF RunTypes, options, engineVars, Raises
<1>4. CASE Delivery
  BY <1>0, <1>4 DEF RunTypes, options, engineVars, Delivery, Pokes, PumpDrains, PumpReleases,
     Dispatches
<1>5. CASE Engines
  BY <1>0, <1>5 DEF RunTypes, options, engineVars, Engines, EndsLevel, Flushes, ReturnsOutcome,
     Engine
<1>6. ASSUME NEW c \in Caller, DispatchRaises(c) PROVE RunTypes'
  BY <1>0, <1>6, EngineBounds DEF RunTypes, options, engineVars, DispatchRaises
<1>7. CASE Stop
  BY <1>0, <1>7 DEF RunTypes, options, engineVars, Stop
<1> QED BY <1>1, <1>2, <1>3, <1>4, <1>5, <1>6, <1>7 DEF Next, Thread

\* A step of a node keeps the types of the nodes, and each has its frame.
LEMMA NodeTypesNext == ASSUME TypeInv, [Next]_vars PROVE NodeTypes' /\ Voices'
<1>0. NodeTypes /\ RunTypes /\ Voices
  BY TypeParts DEF TypeInv
<1>1. CASE UNCHANGED nodeVars
  BY <1>0, <1>1 DEF NodeTypes, Voices, nodeVars
<1> SUFFICES ASSUME NEW n \in Node, NodeStep(n) PROVE NodeTypes' /\ Voices'
  BY <1>1, NodeSteps
<1> USE DEF NodeTypes, Voices, Telling, InRoll, Stage, Value
<1>2. CASE Begins(n)
  BY <1>0, <1>2 DEF Begins, Reports, Frame, Clean
<1>3. CASE Stops(n) \/ Again(n) \/ NodeDrains(n)
  BY <1>0, <1>3 DEF Stops, Again, Attempt, NodeDrains
<1>4. CASE Executes(n)
  BY <1>0, <1>4 DEF Executes
<1>5. CASE Returns(n) \/ Puts(n)
  <2>1. CASE Puts(n)
    BY <1>0, <2>1 DEF Puts, nodeVars
  <2>2. CASE Returns(n)
    <3>1. PICK result \in {"full", "partial"} : made' = [made EXCEPT ![n] = result]
      BY <2>2 DEF Returns
    <3>2. made' \in [Node -> Value] /\ pc' \in [Node -> Stage]
      BY <1>0, <2>2, <3>1 DEF Returns
    <3> QED BY <1>0, <2>2, <3>2 DEF Returns
  <2> QED BY <1>5, <2>1, <2>2
<1>6. CASE Raises(n)
  BY <1>0, <1>6, EngineBounds DEF Raises, Reports, Frame
<1>7. CASE Completes(n)
  BY <1>0, <1>7 DEF Completes, Reports, CacheAfter, Frame, Clean
<1>8. AfterFrame(n) \in {"stopped", "waiting", "failed", "done"}
  BY DEF AfterFrame, Attempt
<1>9. CASE Says(n)
  <2>1. Containers[n] # <<>> => 1 \in DOMAIN Containers[n]
    BY ContainersAreNested, Parts
  <2>2. pc' \in [Node -> Stage] /\ at' \in [Node -> Nat]
    <3>1. at' = at \/ at' = [at EXCEPT ![n] = 1]
      BY <1>9 DEF Says
    <3>2. pc' = [pc EXCEPT ![n] = AfterFrame(n)] \/ pc' = [pc EXCEPT ![n] = "counting"]
      BY <1>9 DEF Says
    <3> QED BY <1>0, <1>8, <3>1, <3>2
  <2>3. say[n] \in Frame
    BY <1>0, <1>9 DEF Says
  <2>4. Voices'
    <3>1. CASE Containers[n] = <<>>
      BY <1>0, <1>8, <1>9, <3>1 DEF Says
    <3>2. CASE Containers[n] # <<>>
      BY <1>0, <1>9, <2>1, <2>3, <3>2 DEF Says
    <3> QED BY <3>1, <3>2
  <2> QED BY <1>0, <1>9, <2>2, <2>4 DEF Says
<1>10. ASSUME pc[n] \in InRoll, Onwards(n), UNCHANGED <<say, attempts, made, outputs, errors,
                                                        keys, cache, rng>>
       PROVE  NodeTypes' /\ Voices'
  <2>1. /\ at[n] \in 1 .. Len(Containers[n]) /\ Len(Containers[n]) \in Nat
        /\ DOMAIN Containers[n] = 1 .. Len(Containers[n])
    BY <1>0, <1>10, RollingIsBox
  <2>2. pc' \in [Node -> Stage] /\ at' \in [Node -> Nat]
    <3>1. at' = at \/ at' = [at EXCEPT ![n] = @ + 1]
      BY <1>10 DEF Onwards
    <3>2. pc' = [pc EXCEPT ![n] = AfterFrame(n)] \/ pc' = [pc EXCEPT ![n] = "counting"]
      BY <1>10 DEF Onwards
    <3> QED BY <1>0, <1>8, <3>1, <3>2
  <2>3. say[n] \in Frame
    BY <1>0, <1>10
  <2>4. Voices'
    <3>1. CASE at[n] < Len(Containers[n])
      <4>1. at[n] + 1 \in DOMAIN Containers[n]
        BY <2>1, <3>1
      <4> QED BY <1>0, <1>10, <2>3, <3>1, <4>1 DEF Onwards
    <3>2. CASE ~(at[n] < Len(Containers[n]))
      BY <1>0, <1>8, <1>10, <3>2 DEF Onwards
    <3> QED BY <3>1, <3>2
  <2> QED BY <1>0, <1>10, <2>2, <2>4
<1>11. CASE RollsBroken(n) \/ RollsRunning(n) \/ Settles(n)
  BY <1>10, <1>11 DEF RollsBroken, RollsRunning, Settles
<1>12. CASE Counts(n)
  BY <1>0, <1>12 DEF Counts
<1> QED BY <1>2, <1>3, <1>4, <1>5, <1>6, <1>7, <1>9, <1>11, <1>12
        DEF NodeStep, OnLoop, Thread, RollsUp

\* A drain keeps the types.
LEMMA DrainTypes ==
  ASSUME QueueTypes, NEW c \in Caller, Drains(c) PROVE QueueTypes'
<1>1. /\ outbox' \in Seq(Signal) /\ batch' \in [Caller -> Seq(Signal)]
      /\ reported' \in Nat /\ dropped' \in Nat
  BY DEF QueueTypes, Drains, CountsDrops
<1> QED BY <1>1 DEF QueueTypes, Drains, HeldBy

LEMMA QueueTypesNext == ASSUME TypeInv, [Next]_vars PROVE QueueTypes'
<1>0. QueueTypes
  BY TypeParts DEF TypeInv
<1>1. CASE UNCHANGED <<queueVars, signalVars>>
  BY <1>0, <1>1 DEF QueueTypes, queueVars, signalVars
<1>2. ASSUME NEW n \in Node, Executes(n) PROVE QueueTypes'
  BY <1>0, <1>2, EngineBounds DEF QueueTypes, queueVars, Executes
<1>3. ASSUME NEW n \in Node, Puts(n) PROVE QueueTypes'
  <2> DEFINE signal == [node |-> n, seq |-> produced + 1]
  <2>1. signal \in Signal /\ produced + 1 \in 0 .. MaxSignals
    BY <1>0, <1>3, EngineBounds DEF QueueTypes, Puts, Signal
  <2>2. Len(outbox) >= Capacity => outbox # <<>>
    BY EngineBounds
  <2>3. outbox' \in Seq(Signal) /\ dropped' \in Nat
    <3>1. outbox' = Append(Tail(outbox), signal) \/ outbox' = Append(outbox, signal)
      BY <1>3 DEF Puts
    <3>2. dropped' \in Nat
      BY <1>0, <1>3 DEF Puts, QueueTypes
    <3>3. outbox \in Seq(Signal) /\ (Len(outbox) >= Capacity => Tail(outbox) \in Seq(Signal))
      BY <1>0, <2>2, Parts DEF QueueTypes
    <3> HIDE DEF signal
    <3>4. (outbox' = Append(Tail(outbox), signal) /\ Len(outbox) >= Capacity)
          \/ outbox' = Append(outbox, signal)
      BY <1>3 DEF Puts, signal
    <3>5. outbox' \in Seq(Signal)
      <4>1. CASE outbox' = Append(outbox, signal)
        BY <2>1, <3>3, <4>1, Longer
      <4>2. CASE outbox' = Append(Tail(outbox), signal) /\ Len(outbox) >= Capacity
        <5> DEFINE rest == Tail(outbox)
        <5>1. rest \in Seq(Signal)
          BY <3>3, <4>2
        <5>2. outbox' = Append(rest, signal)
          BY <4>2
        <5> HIDE DEF rest
        <5> QED BY <2>1, <5>1, <5>2, Longer
      <4> QED BY <3>4, <4>1, <4>2
    <3> QED BY <3>2, <3>5
  <2> QED BY <1>0, <1>3, <2>1, <2>3 DEF QueueTypes, Puts
<1>4. ASSUME NEW n \in Node, Completes(n) PROVE QueueTypes'
  BY <1>0, <1>4 DEF QueueTypes, queueVars, Completes, ReleasedLock
<1>5. ASSUME NEW c \in Caller, DrainStep(c) PROVE QueueTypes'
  BY <1>0, <1>5, DrainTypes DEF DrainStep
<1>6. ASSUME NEW c \in Caller, Dispatches(c) PROVE QueueTypes'
  <2>1. /\ batch[c] \in Seq(Signal) /\ Head(batch[c]) \in Signal /\ Tail(batch[c]) \in Seq(Signal)
    BY <1>0, <1>6, Parts DEF QueueTypes, Dispatches
  <2>2. Head(batch[c]).seq \in Nat
    BY <2>1, EngineBounds DEF Signal
  <2> QED BY <1>0, <1>6, <2>1, <2>2 DEF QueueTypes, queueVars, Dispatches
<1>7. ASSUME NEW c \in Caller, DispatchRaises(c) PROVE QueueTypes'
  <2>1. Len(batch[c]) \in Nat
    BY <1>0 DEF QueueTypes
  <2> QED BY <1>0, <1>7, <2>1 DEF QueueTypes, queueVars, DispatchRaises
<1>8. CASE Pokes \/ PumpReleases \/ ReturnsOutcome
  BY <1>0, <1>8 DEF QueueTypes, queueVars, signalVars, Pokes, PumpReleases, ReturnsOutcome,
     ReleasedLock
<1> QED BY <1>1, <1>2, <1>3, <1>4, <1>5, <1>6, <1>7, <1>8, QueueSteps

LEMMA CardTypesNext == ASSUME TypeInv, [Next]_vars PROVE CardTypes'
<1>0. CardTypes /\ Voices /\ NodeTypes
  BY TypeParts DEF TypeInv
<1>1. CASE UNCHANGED <<boxVars, log>>
  BY <1>0, <1>1 DEF CardTypes, boxVars
<1>2. ASSUME NEW c \in Caller, Dispatches(c) PROVE CardTypes'
  <2>1. log' \in [Card -> Seq(Frame)]
    BY <1>0, <1>2, PaintKeeps DEF Dispatches, CardTypes, Frame
  <2> QED BY <1>0, <1>2, <2>1 DEF CardTypes, boxVars, Dispatches
<1> SUFFICES ASSUME NEW n \in Node, Says(n) \/ RollsUp(n) PROVE CardTypes'
  BY <1>1, <1>2, CardSteps
<1>3. say[n] \in Frame /\ (pc[n] \in InRoll => Rolling(n) \in Box) /\ "running" \in Frame
  <2>1. pc[n] \in Telling
    BY DEF Says, RollsUp, RollsBroken, RollsRunning, Counts, Settles, Telling
  <2> QED BY <1>0, <2>1, RollingIsBox DEF Voices, Frame
<1>4. CASE Says(n)
  <2>1. log' \in [Card -> Seq(Frame)]
    BY <1>0, <1>3, <1>4, PaintKeeps DEF Says, CardTypes
  <2> QED BY <1>0, <1>4, <2>1 DEF CardTypes, Says, LockedBy
<1>5. CASE RollsBroken(n)
  <2>1. log' \in [Card -> Seq(Frame)]
    BY <1>0, <1>3, <1>5, PaintKeeps DEF RollsBroken, CardTypes
  <2> QED BY <1>0, <1>3, <1>5, <2>1 DEF CardTypes, RollsBroken, Onwards, InRoll
<1>6. CASE RollsRunning(n)
  <2>1. log' \in [Card -> Seq(Frame)]
    BY <1>0, <1>3, <1>6, PaintKeeps DEF RollsRunning, CardTypes
  <2> QED BY <1>0, <1>3, <1>6, <2>1 DEF CardTypes, RollsRunning, Onwards, InRoll
<1>7. CASE Counts(n)
  <2>1. log' \in [Card -> Seq(Frame)]
    BY <1>0, <1>3, <1>7, PaintKeeps DEF Counts, CardTypes
  <2>2. Rank[say[n]] \in 0 .. 2
    BY <1>7, RankFrames DEF Counts
  <2>3. done' \in [Box -> Nat] /\ rank' \in [Box -> 0 .. 2]
    <3>1. Rolling(n) \in Box
      BY <1>3, <1>7 DEF Counts, InRoll
    <3>2. /\ done[Rolling(n)] + 1 \in Nat
          /\ (IF Rank[say[n]] > rank[Rolling(n)] THEN Rank[say[n]] ELSE rank[Rolling(n)]) \in 0 .. 2
      BY <1>0, <2>2, <3>1 DEF CardTypes
    <3> QED BY <1>0, <1>7, <3>2 DEF CardTypes, Counts
  <2> QED BY <1>0, <1>3, <1>7, <2>1, <2>3 DEF CardTypes, Counts, InRoll
<1>8. CASE Settles(n)
  <2>1. log' \in [Card -> Seq(Frame)]
    <3>1. Rolling(n) \in Box
      BY <1>3, <1>8 DEF Settles, InRoll
    <3>2. rank[Rolling(n)] \in 0 .. 2
      BY <1>0, <3>1 DEF CardTypes
    <3>3. StatusOf(rank[Rolling(n)]) \in Frame
      BY <3>2, RankFrames
    <3> QED BY <1>0, <1>8, <3>3, PaintKeeps DEF Settles, CardTypes
  <2> QED BY <1>0, <1>8, <2>1 DEF CardTypes, Settles, Onwards
<1> QED BY <1>4, <1>5, <1>6, <1>7, <1>8 DEF RollsUp

LEMMA TypeNext == TypeInv /\ [Next]_vars => TypeInv'
<1> SUFFICES ASSUME TypeInv, [Next]_vars PROVE TypeInv'
  OBVIOUS
<1>1. TypeOK'
  BY RunTypesNext, NodeTypesNext, QueueTypesNext, CardTypesNext
     DEF TypeOK, RunTypes, NodeTypes, QueueTypes, CardTypes
<1> QED BY <1>1, NodeTypesNext DEF TypeInv

\* Every variable has its type, in every graph.
THEOREM TypeCorrect == Spec => []TypeOK
<1>1. TypeInv => TypeOK
  BY DEF TypeInv
<1> QED BY <1>1, TypeInit, TypeNext, PTL DEF Spec

----------------------------------------------------------------------------
(* The inductive invariant *)

\* The levels below the one that runs are done, those above it have not
\* begun; and when the loop is over nothing runs any more.
Levels ==
  /\ \A n \in Node : /\ Level[n] < level => pc[n] = "done"
                     /\ Level[n] > level => pc[n] = "idle"
                     /\ engine # "levels" /\ Level[n] = level => pc[n] \in Ended
  /\ outcome = "none" <=> engine = "levels"

\* Whoever holds deliver_lock is the one who drains, and nobody else has
\* signals in hand; nothing is left for the pump after the last drain.
OneDrains ==
  /\ \A n \in Node : pc[n] = "draining" <=> holder = n
  /\ engine = "flushed" <=> holder = Finally
  /\ engine = "returned" => holder = Nobody
  /\ engine \in {"flushed", "returned"} => outbox = <<>> /\ dropped = 0
  /\ \A c \in Caller : batch[c] # <<>> => holder = c

\* Every signal is somewhere, once.
InHand == IF holder = Nobody THEN 0 ELSE Len(batch[holder])
Accounts == produced = Len(outbox) + dropped + InHand + Len(delivered) + reported + lost

\* What was delivered is older than what is in hand, and that than what is
\* queued.
Order ==
  /\ DeliveredInOrder
  /\ \A i \in DOMAIN delivered : /\ delivered[i] <= produced
                                 /\ \A j \in DOMAIN outbox : delivered[i] < outbox[j].seq
  /\ \A c \in Caller : \A i \in DOMAIN batch[c] :
       /\ batch[c][i].seq <= produced
       /\ \A j \in DOMAIN batch[c] : i < j => batch[c][i].seq < batch[c][j].seq
       /\ \A j \in DOMAIN outbox : batch[c][i].seq < outbox[j].seq
       /\ \A j \in DOMAIN delivered : delivered[j] < batch[c][i].seq
  /\ \A i \in DOMAIN outbox :
       /\ outbox[i].seq <= produced
       /\ \A j \in DOMAIN outbox : i < j => outbox[i].seq < outbox[j].seq

\* A seeded run has one node at a time, whose seed is the one in force.
Serial ==
  seeded => /\ \A m, n \in Node : pc[m] \in Holds /\ pc[n] \in Holds => m = n
            /\ \A n \in Node : pc[n] = "executing" => rng = n

\* The last signal of a node of a seeded run on its way, as long as nothing
\* was lost.
Queued(s) == \E i \in DOMAIN outbox : outbox[i].seq = s
Held(s) == \E c \in Caller : \E i \in DOMAIN batch[c] : batch[c][i].seq = s
Told(s) == \E i \in DOMAIN delivered : delivered[i] = s

Tails ==
  /\ \A n \in Node : pc[n] = "idle" => tail[n] = 0
  /\ seeded /\ lost = 0 =>
    \A n \in Node : tail[n] # 0 =>
      /\ pc[n] \in {"executing", "returned"} => Queued(tail[n]) \/ Held(tail[n]) \/ Told(tail[n])
      /\ pc[n] = "draining" => Held(tail[n]) \/ Told(tail[n])
      /\ outputs[n] # "none" => Told(tail[n])

\* A node past the start of its group's turn had its turn.
TakesTurns == \A n \in Node : pc[n] # "idle" => ItsTurn(n)

\* What a node's last frame says, and what it left.
Spoken(n) ==
  /\ say[n] \in Clean \cup {"running", "error", "interrupted"}
  /\ say[n] \in {"completed", "cached"} => outputs[n] = "full"
  /\ say[n] = "interrupted" => outputs[n] = "partial"
  /\ say[n] = "skipped" => n \in errors
  /\ say[n] = "error" => mode = "fail_fast" \/ n \in errors
  /\ pc[n] = "done" => say[n] # "running" /\ (say[n] = "error" => mode # "fail_fast")

Results ==
  /\ \A n \in Node :
       /\ pc[n] \in Telling \cup {"done"} => Spoken(n)
       /\ pc[n] \in {"returned", "draining"} =>
            made[n] = "full" \/ (made[n] = "partial" /\ cancelled)
       /\ outputs[n] = "partial" => cancelled
       /\ outputs[n] # "none" => /\ pc[n] \in Telling \cup {"done"}
                                 /\ say[n] \in {"completed", "cached", "interrupted"}
       /\ cache[n] # "partial"
       /\ pc[n] \in Busy \/ (pc[n] \in Telling /\ say[n] = "running")
            => \A m \in Upstream[n] : outputs[m] = "full"
  /\ outcome = "succeeded" => \A n \in Node : outputs[n] # "partial"

IInv == TypeInv /\ Levels /\ OneDrains /\ Accounts /\ Order /\ Serial /\ Tails
        /\ TakesTurns /\ Results
----------------------------------------------------------------------------
(* Levels and turns *)

\* How far one step takes a node: what has ended stays so, and a node begins
\* in its level, in its turn.
Moves(n) ==
  \/ pc'[n] = pc[n]
  \/ /\ pc[n] = "idle" /\ engine = "levels" /\ Level[n] = level /\ ItsTurn(n)
     /\ pc'[n] \in {"reporting", "stopped"}
  \/ pc[n] \notin Ended \cup {"idle"} /\ pc'[n] # "idle"

LEMMA NodeMoves ==
  ASSUME TypeInv, NEW n \in Node, NodeStep(n)
  PROVE  /\ UNCHANGED <<options, cancelled, engineVars>>
         /\ \A m \in Node \ {n} : pc'[m] = pc[m]
         /\ \A m \in Node : Moves(m)
<1>0. pc \in [Node -> Stage]
  BY DEF TypeInv, TypeOK
<1>1. AfterFrame(n) \in {"stopped", "waiting", "failed", "done"}
  BY DEF AfterFrame, Attempt
<1>2. CASE Begins(n) \/ Stops(n)
  BY <1>0, <1>2 DEF Begins, Stops, Reports, Moves
<1>3. CASE Executes(n) \/ Again(n) \/ NodeDrains(n) \/ Completes(n)
  BY <1>0, <1>3 DEF Executes, Again, Attempt, NodeDrains, Completes, Reports, Moves, Ended
<1>4. CASE Thread(n)
  BY <1>0, <1>4 DEF Thread, Puts, Returns, Raises, Reports, nodeVars, Moves, Ended
<1>5. CASE Says(n)
  BY <1>0, <1>1, <1>5 DEF Says, Moves, Ended
<1>6. CASE RollsUp(n)
  BY <1>0, <1>1, <1>6 DEF RollsUp, RollsBroken, RollsRunning, Counts, Settles, Onwards, Moves, Ended
<1> QED BY <1>2, <1>3, <1>4, <1>5, <1>6 DEF NodeStep, OnLoop

\* The same for any step.
LEMMA StageSteps ==
  ASSUME TypeInv, [Next]_vars, NEW n \in Node
  PROVE  Moves(n)
BY NodeSteps, NodeMoves DEF Moves, nodeVars

\* The level changes only in EndsLevel, at its end.
LEMMA EngineSteps ==
  ASSUME TypeInv, [Next]_vars
  PROVE  \/ UNCHANGED engineVars
         \/ Engines /\ UNCHANGED <<options, cancelled, nodeVars>>
<1>1. \A n \in Node : NodeStep(n) => UNCHANGED engineVars
  BY NodeMoves
<1> QED BY <1>1 DEF Next, NodeStep, vars, Delivery, Pokes, PumpDrains, PumpReleases, Dispatches,
      DispatchRaises, Stop, Engines, EndsLevel, Flushes, ReturnsOutcome

LEMMA LevelsNext == ASSUME TypeInv, Levels, [Next]_vars PROVE Levels'
<1>1. CASE UNCHANGED engineVars
  <2>1. \A n \in Node : Moves(n)
    BY StageSteps
  <2>2. \A n \in Node : Level[n] \in Nat /\ level \in Nat
    BY LevelsAreTopological DEF TypeInv, TypeOK
  <2> QED BY <1>1, <2>1, <2>2 DEF Levels, Moves, Ended, engineVars
<1>2. CASE EndsLevel /\ UNCHANGED nodeVars
  <2>1. /\ \A n \in Node : Level[n] \in Nat
        /\ level \in Nat
    BY LevelsAreTopological DEF TypeInv, TypeOK
  <2>2. \A n \in Node : Level[n] = level => pc[n] \in Ended
    BY <1>2 DEF EndsLevel, AtLevel
  <2>3. level' = level \/ /\ level' = level + 1 /\ engine' = engine /\ outcome' = outcome
                          /\ \A n \in Node : Level[n] = level => pc[n] = "done"
    BY <1>2, <2>2 DEF EndsLevel, AtLevel, Ended
  <2>4. outcome' = "none" <=> engine' = "levels"
    BY <1>2 DEF EndsLevel, Levels
  <2>5. CASE level' = level
    BY <1>2, <2>2, <2>4, <2>5 DEF Levels, nodeVars
  <2>6. CASE level' # level
    <3>1. level' = level + 1 /\ engine' = "levels"
      BY <1>2, <2>3, <2>6 DEF EndsLevel
    <3>2. \A n \in Node : /\ Level[n] < level' => Level[n] < level \/ Level[n] = level
                          /\ Level[n] > level' => Level[n] > level
      BY <2>1, <3>1
    <3> QED BY <1>2, <2>3, <2>4, <2>6, <3>1, <3>2 DEF Levels, nodeVars
  <2> QED BY <2>5, <2>6
<1>3. CASE (Flushes \/ ReturnsOutcome) /\ UNCHANGED nodeVars
  BY <1>3 DEF Flushes, ReturnsOutcome, Levels, nodeVars
<1> QED BY <1>1, <1>2, <1>3, EngineSteps DEF Engines

\* The settings of a run do not change.
LEMMA OptionsStay == ASSUME TypeInv, [Next]_vars PROVE UNCHANGED options
<1>1. \A n \in Node : NodeStep(n) => UNCHANGED options
  BY NodeMoves
<1> QED BY <1>1 DEF Next, NodeStep, vars, Delivery, Pokes, PumpDrains, PumpReleases, Dispatches,
      DispatchRaises, Stop, Engines, EndsLevel, Flushes, ReturnsOutcome

\* A node's group does not change.
LEMMA TurnsNext == ASSUME TypeInv, TakesTurns, [Next]_vars PROVE TakesTurns'
<1>0. seeded' = seeded /\ live' = live
  BY OptionsStay DEF options
<1>1. \A n \in Node : Group(n)' = Group(n) /\ Group(n) \subseteq Node
  <2> TAKE n \in Node
  <2>1. Group(n)' = Group(n)
    BY <1>0 DEF Group, Shares
  <2>2. Group(n) \subseteq Node
    BY DEF Group, AtLevel
  <2> QED BY <2>1, <2>2
<1>2. \A m \in Node : pc[m] \in Ended => pc'[m] \in Ended
  BY StageSteps DEF Moves, Ended
<1> SUFFICES ASSUME NEW n \in Node, pc'[n] # "idle" PROVE ItsTurn(n)'
  BY DEF TakesTurns
<1>3. ItsTurn(n)
  BY StageSteps DEF TakesTurns, Moves
<1> QED BY <1>1, <1>2, <1>3 DEF ItsTurn

\* Nodes that share a live object are in one group.
LEMMA SharersAreGrouped ==
  ASSUME NEW m \in Node, NEW n \in Node, Level[m] = Level[n], ~seeded, Shares(n, m)
  PROVE  m \in Group(n)
BY DEF Group, AtLevel
----------------------------------------------------------------------------
(* Delivery *)

\* What is queued and in hand, as sequences of signals.
LEMMA Queues ==
  ASSUME TypeInv
  PROVE  /\ outbox \in Seq(Signal) /\ Len(outbox) \in Nat /\ DOMAIN outbox = 1 .. Len(outbox)
         /\ \A i \in DOMAIN outbox : outbox[i] \in Signal /\ outbox[i].seq \in Nat
         /\ \A c \in Caller : /\ batch[c] \in Seq(Signal) /\ Len(batch[c]) \in Nat
                              /\ DOMAIN batch[c] = 1 .. Len(batch[c])
                              /\ \A i \in DOMAIN batch[c] : batch[c][i] \in Signal
                                                            /\ batch[c][i].seq \in Nat
         /\ delivered \in Seq(Nat) /\ Len(delivered) \in Nat
         /\ DOMAIN delivered = 1 .. Len(delivered)
         /\ \A i \in DOMAIN delivered : delivered[i] \in Nat
         /\ produced \in Nat /\ dropped \in Nat /\ reported \in Nat /\ lost \in Nat
         /\ pc \in [Node -> Stage] /\ batch \in [Caller -> Seq(Signal)]
<1>1. /\ outbox \in Seq(Signal) /\ batch \in [Caller -> Seq(Signal)] /\ delivered \in Seq(Nat)
      /\ produced \in 0 .. MaxSignals /\ dropped \in Nat /\ reported \in Nat /\ lost \in Nat
      /\ pc \in [Node -> Stage]
  BY DEF TypeInv, TypeOK
<1>2. ASSUME NEW q \in Seq(Signal)
      PROVE  /\ Len(q) \in Nat /\ DOMAIN q = 1 .. Len(q)
             /\ \A i \in DOMAIN q : q[i] \in Signal /\ q[i].seq \in Nat
  <2>1. Len(q) \in Nat /\ DOMAIN q = 1 .. Len(q) /\ \A i \in DOMAIN q : q[i] \in Signal
    OBVIOUS
  <2>2. \A e \in Signal : e.seq \in Nat
    BY EngineBounds DEF Signal
  <2> QED BY <2>1, <2>2
<1>3. \A c \in Caller : batch[c] \in Seq(Signal)
  BY <1>1
<1>4. /\ Len(delivered) \in Nat /\ DOMAIN delivered = 1 .. Len(delivered)
      /\ \A i \in DOMAIN delivered : delivered[i] \in Nat
  BY <1>1
<1> QED BY <1>1, <1>2, <1>3, <1>4, EngineBounds

\* With the lock free nobody has a signal in hand and nobody drains.
LEMMA LockFree ==
  ASSUME OneDrains, holder = Nobody
  PROVE  /\ \A c \in Caller : batch[c] = <<>>
         /\ \A n \in Node : pc[n] # "draining"
         /\ engine # "flushed"
BY CallersDiffer DEF OneDrains

\* A node that is at work keeps the level loop from ending.
LEMMA WorkingIsInLevels ==
  ASSUME TypeInv, Levels, NEW n \in Node, pc[n] \notin Ended \cup {"idle"}
  PROVE  engine = "levels" /\ Level[n] = level
<1>1. pc[n] # "done" /\ pc[n] # "idle" /\ pc[n] \notin Ended
  BY DEF Ended
<1>2. ~(Level[n] < level) /\ ~(Level[n] > level)
  BY <1>1 DEF Levels
<1>3. Level[n] \in Nat /\ level \in Nat
  BY LevelsAreTopological DEF TypeInv, TypeOK
<1>4. Level[n] = level
  BY <1>2, <1>3
<1> QED BY <1>1, <1>4 DEF Levels

\* What a node does with its signals, and which steps leave them alone.
LEMMA DrainsNext == ASSUME TypeInv, Levels, OneDrains, [Next]_vars PROVE OneDrains'
<1>0. pc \in [Node -> Stage] /\ batch \in [Caller -> Seq(Signal)]
  BY Queues
<1> USE CallersDiffer
<1>1. CASE UNCHANGED vars
  BY <1>1 DEF OneDrains, vars, engineVars, nodeVars, queueVars, signalVars
<1>2. ASSUME NEW c \in Caller, DrainStep(c) PROVE OneDrains'
  <2>1. holder = Nobody /\ holder' = c /\ batch' = [batch EXCEPT ![c] = outbox]
        /\ outbox' = <<>> /\ dropped' = 0
    BY <1>2 DEF DrainStep, Drains, HeldBy
  <2>2. \A m \in Caller : batch[m] = <<>>
    BY <2>1, LockFree
  <2>3. \A m \in Caller : batch'[m] # <<>> => holder' = m
    BY <1>0, <2>1, <2>2
  <2>4. \A n \in Node : pc'[n] = "draining" <=> holder' = n
    BY <1>0, <1>2, <2>1, LockFree DEF DrainStep, nodeVars
  <2>5. c \in Node => engine = "levels" /\ engine' = engine
    BY <1>2, WorkingIsInLevels DEF DrainStep, Ended, engineVars
  <2>6. (engine' = "flushed" <=> holder' = Finally) /\ (engine' = "returned" => holder' = Nobody)
    BY <1>2, <2>1, <2>5, LockFree DEF DrainStep, engineVars
  <2> QED BY <2>1, <2>3, <2>4, <2>6 DEF OneDrains
<1>3. ASSUME NEW n \in Node, OnLoop(n) \/ Thread(n), ~NodeDrains(n), ~Completes(n), ~Puts(n)
      PROVE  OneDrains'
  <2>1. UNCHANGED <<engine, outbox, dropped, batch, holder>>
    BY <1>3 DEF OnLoop, Thread, Begins, Stops, Executes, Again, Says, RollsUp, RollsBroken,
       RollsRunning, Counts, Settles, Returns, Raises, engineVars, queueVars, signalVars
  <2>2. \A m \in Node : pc'[m] = "draining" <=> pc[m] = "draining"
    <3>1. AfterFrame(n) \in {"stopped", "waiting", "failed", "done"}
      BY DEF AfterFrame, Attempt
    <3> QED BY <1>0, <1>3, <3>1 DEF OnLoop, Thread, Begins, Stops, Executes, Again, Attempt, Says,
       RollsUp, RollsBroken, RollsRunning, Counts, Settles, Onwards, Returns, Raises, Reports
  <2> QED BY <2>1, <2>2 DEF OneDrains
<1>4. ASSUME NEW n \in Node, Puts(n) PROVE OneDrains'
  <2>1. engine = "levels" /\ UNCHANGED <<engine, pc, batch, holder>>
    BY <1>4, WorkingIsInLevels DEF Puts, engineVars, nodeVars, Ended
  <2> QED BY <2>1 DEF OneDrains
<1>5. ASSUME NEW n \in Node, Completes(n) PROVE OneDrains'
  <2>1. /\ holder = n /\ holder' = Nobody /\ batch[n] = <<>> /\ pc' = [pc EXCEPT ![n] = "reporting"]
        /\ engine = "levels" /\ UNCHANGED <<engine, outbox, dropped, batch>>
    BY <1>5, WorkingIsInLevels
       DEF Completes, OneDrains, ReleasedLock, Reports, engineVars, queueVars, Ended
  <2> QED BY <1>0, <2>1 DEF OneDrains
<1>6. ASSUME NEW c \in Caller, Dispatches(c) \/ DispatchRaises(c) PROVE OneDrains'
  <2>1. /\ holder = c /\ \A m \in Caller : batch'[m] # <<>> => holder = m
    BY <1>0, <1>6 DEF Dispatches, DispatchRaises, OneDrains
  <2> QED BY <1>6, <2>1 DEF OneDrains, Dispatches, DispatchRaises, engineVars, nodeVars, queueVars
<1>7. CASE PumpReleases \/ ReturnsOutcome
  <2>1. /\ holder \in {Pump, Finally} /\ batch[holder] = <<>> /\ holder' = Nobody
        /\ UNCHANGED <<pc, outbox, dropped, batch>>
    BY <1>7 DEF PumpReleases, ReturnsOutcome, ReleasedLock, OneDrains, nodeVars, queueVars
  <2>2. \A m \in Caller : batch[m] = <<>>
    BY <2>1 DEF OneDrains
  <2> QED BY <1>7, <2>1, <2>2 DEF OneDrains, PumpReleases, ReturnsOutcome, engineVars
<1>8. CASE Pokes \/ Stop \/ EndsLevel
  BY <1>8 DEF Pokes, Stop, EndsLevel, OneDrains, engineVars, nodeVars, queueVars, signalVars
<1>9. CASE PumpDrains \/ Flushes \/ \E n \in Node : NodeDrains(n)
  BY <1>2, <1>9 DEF PumpDrains, Flushes, NodeDrains, DrainStep, Caller
<1> QED BY <1>1, <1>3, <1>4, <1>5, <1>6, <1>7, <1>8, <1>9 DEF Next, Delivery, Engines

\* A step that only lets go of the lock leaves nothing in hand.
LEMMA ReleaseSteps ==
  ASSUME OneDrains,
         \/ \E n \in Node : Completes(n)
         \/ PumpReleases \/ ReturnsOutcome
  PROVE  /\ holder' = Nobody /\ holder \in Caller /\ batch[holder] = <<>>
         /\ UNCHANGED <<queueVars, produced, tail, batch, delivered, reported, lost>>
BY CallersDiffer DEF OneDrains, Completes, PumpReleases, ReturnsOutcome, ReleasedLock, Caller

\* A signal is put at the end of the outbox, and the oldest goes if it is full.
LEMMA PutSteps ==
  ASSUME TypeInv, NEW n \in Node, Puts(n)
  PROVE  /\ pc[n] = "executing" /\ produced' = produced + 1 /\ produced' \in 1 .. MaxSignals
         /\ UNCHANGED <<batch, holder, delivered, reported, lost>>
         /\ tail' = [tail EXCEPT ![n] = produced']
         /\ outbox' \in Seq(Signal) /\ Len(outbox') > 0
         /\ outbox'[Len(outbox')].seq = produced' /\ outbox'[Len(outbox')].node = n
         /\ \/ /\ Len(outbox') = Len(outbox) + 1 /\ dropped' = dropped
               /\ \A i \in DOMAIN outbox : outbox'[i] = outbox[i]
            \/ /\ Len(outbox') = Len(outbox) /\ dropped' = dropped + 1
               /\ \A i \in 1 .. Len(outbox) - 1 : outbox'[i] = outbox[i + 1]
<1> DEFINE signal == [node |-> n, seq |-> produced + 1]
<1>0. /\ outbox \in Seq(Signal) /\ Len(outbox) \in Nat /\ DOMAIN outbox = 1 .. Len(outbox)
      /\ produced \in Nat
  BY Queues
<1>1. signal \in Signal /\ produced' = produced + 1 /\ produced' \in 1 .. MaxSignals
      /\ signal.seq = produced' /\ signal.node = n
  BY <1>0, EngineBounds DEF Puts, Signal
<1>2. /\ pc[n] = "executing" /\ UNCHANGED <<batch, holder, delivered, reported, lost>>
      /\ tail' = [tail EXCEPT ![n] = produced']
  BY <1>1 DEF Puts
<1>3. \/ ~(Len(outbox) >= Capacity) /\ outbox' = Append(outbox, signal) /\ dropped' = dropped
      \/ Len(outbox) >= Capacity /\ outbox' = Append(Tail(outbox), signal) /\ dropped' = dropped + 1
  BY DEF Puts
<1> HIDE DEF signal
<1>4. CASE outbox' = Append(outbox, signal) /\ dropped' = dropped
  <2>1. /\ outbox' \in Seq(Signal) /\ Len(outbox') = Len(outbox) + 1
        /\ outbox'[Len(outbox) + 1] = signal /\ \A i \in 1 .. Len(outbox) : outbox'[i] = outbox[i]
    BY <1>0, <1>1, <1>4, Longer
  <2> QED BY <1>0, <1>1, <1>2, <1>4, <2>1
<1>5. CASE Len(outbox) >= Capacity /\ outbox' = Append(Tail(outbox), signal) /\ dropped' = dropped + 1
  <2>1. outbox # <<>>
    BY <1>0, <1>5, EngineBounds
  <2>2. /\ Tail(outbox) \in Seq(Signal) /\ Len(Tail(outbox)) = Len(outbox) - 1 /\ Len(outbox) > 0
        /\ \A i \in 1 .. Len(Tail(outbox)) : Tail(outbox)[i] = outbox[i + 1]
    BY <1>0, <2>1, Parts
  <2>3. /\ outbox' \in Seq(Signal) /\ Len(outbox') = Len(Tail(outbox)) + 1
        /\ outbox'[Len(Tail(outbox)) + 1] = signal
        /\ \A i \in 1 .. Len(Tail(outbox)) : outbox'[i] = Tail(outbox)[i]
    BY <1>1, <1>5, <2>2, Longer
  <2>4. Len(outbox') = Len(outbox)
    BY <1>0, <2>2, <2>3
  <2>5. outbox'[Len(outbox')] = signal /\ \A i \in 1 .. Len(outbox) - 1 : outbox'[i] = outbox[i + 1]
    BY <1>0, <2>2, <2>3, <2>4
  <2> QED BY <1>0, <1>1, <1>2, <1>5, <2>2, <2>3, <2>4, <2>5
<1> QED BY <1>3, <1>4, <1>5

\* The head of a batch goes out, and is the last one delivered.
LEMMA DispatchSteps ==
  ASSUME TypeInv, OneDrains, NEW c \in Caller, Dispatches(c)
  PROVE  /\ holder = c /\ batch[c] # <<>> /\ Len(batch[c]) > 0
         /\ UNCHANGED <<queueVars, nodeVars, produced, tail, holder, reported, lost>>
         /\ \A m \in Caller \ {c} : batch'[m] = batch[m]
         /\ batch'[c] \in Seq(Signal) /\ Len(batch'[c]) = Len(batch[c]) - 1
         /\ \A i \in 1 .. Len(batch'[c]) : batch'[c][i] = batch[c][i + 1]
         /\ delivered' \in Seq(Nat) /\ Len(delivered') = Len(delivered) + 1
         /\ delivered'[Len(delivered) + 1] = batch[c][1].seq
         /\ \A i \in 1 .. Len(delivered) : delivered'[i] = delivered[i]
<1>1. batch[c] # <<>> /\ batch \in [Caller -> Seq(Signal)] /\ batch[c] \in Seq(Signal)
  BY Queues DEF Dispatches
<1>2. /\ Head(batch[c]) = batch[c][1] /\ Len(batch[c]) > 0 /\ Tail(batch[c]) \in Seq(Signal)
      /\ Len(Tail(batch[c])) = Len(batch[c]) - 1
      /\ \A i \in 1 .. Len(Tail(batch[c])) : Tail(batch[c])[i] = batch[c][i + 1]
  BY <1>1, Parts
<1>3. batch' = [batch EXCEPT ![c] = Tail(batch[c])] /\ delivered' = Append(delivered, batch[c][1].seq)
  BY <1>2 DEF Dispatches
<1>4. batch[c][1].seq \in Nat /\ delivered \in Seq(Nat)
  BY <1>2, Queues
<1>5. /\ delivered' \in Seq(Nat) /\ Len(delivered') = Len(delivered) + 1
      /\ delivered'[Len(delivered) + 1] = batch[c][1].seq
      /\ \A i \in 1 .. Len(delivered) : delivered'[i] = delivered[i]
  BY <1>3, <1>4, Longer
<1>6. batch'[c] = Tail(batch[c]) /\ \A m \in Caller \ {c} : batch'[m] = batch[m]
  BY <1>1, <1>3
<1>7. holder = c /\ UNCHANGED <<queueVars, nodeVars, produced, tail, holder, reported, lost>>
  BY <1>1 DEF Dispatches, OneDrains
<1> QED BY <1>1, <1>2, <1>5, <1>6, <1>7

\* No signal is forgotten and none counted twice.
LEMMA AccountsNext == ASSUME TypeInv, OneDrains, Accounts, [Next]_vars PROVE Accounts'
<1>0. /\ Len(outbox) \in Nat /\ \A c \in Caller : Len(batch[c]) \in Nat
      /\ Len(delivered) \in Nat
      /\ produced \in Nat /\ dropped \in Nat /\ reported \in Nat /\ lost \in Nat
      /\ batch \in [Caller -> Seq(Signal)] /\ holder \in Caller \cup {Nobody}
  BY Queues DEF TypeInv, TypeOK
<1>1. CASE UNCHANGED <<queueVars, signalVars>>
  BY <1>1 DEF Accounts, InHand, queueVars, signalVars
<1>2. CASE (\E n \in Node : Executes(n)) \/ Pokes
  BY <1>2 DEF Accounts, InHand, Executes, Pokes, queueVars, signalVars
<1>3. ASSUME NEW n \in Node, Puts(n) PROVE Accounts'
  <2>1. /\ produced' = produced + 1 /\ UNCHANGED <<batch, holder, delivered, reported, lost>>
        /\ \/ Len(outbox') = Len(outbox) + 1 /\ dropped' = dropped
           \/ Len(outbox') = Len(outbox) /\ dropped' = dropped + 1
    BY <1>3, PutSteps
  <2>2. InHand' = InHand /\ InHand \in Nat
    BY <1>0, <2>1 DEF InHand
  <2>3. Len(outbox') + dropped' = Len(outbox) + dropped + 1
    <3>1. Len(outbox) \in Nat /\ dropped \in Nat
      BY <1>0
    <3>2. \/ Len(outbox') = Len(outbox) + 1 /\ dropped' = dropped
          \/ Len(outbox') = Len(outbox) /\ dropped' = dropped + 1
      BY <2>1
    <3> QED BY <3>1, <3>2
  <2>4. Len(delivered') = Len(delivered) /\ reported' = reported /\ lost' = lost
        /\ Len(outbox') \in Nat /\ dropped' \in Nat
    BY <1>0, <2>1
  <2>5. produced = (Len(outbox) + dropped) + InHand + Len(delivered) + reported + lost
    BY <1>0, <2>2 DEF Accounts
  <2>6. produced + 1 = (Len(outbox') + dropped') + InHand + Len(delivered) + reported + lost
    BY <1>0, <2>2, <2>3, <2>5
  <2> HIDE DEF InHand
  <2> QED BY <1>0, <2>1, <2>2, <2>4, <2>6 DEF Accounts
<1>4. CASE (\E n \in Node : Completes(n)) \/ PumpReleases \/ ReturnsOutcome
  <2>1. /\ holder' = Nobody /\ holder \in Caller /\ batch[holder] = <<>>
        /\ UNCHANGED <<queueVars, produced, batch, delivered, reported, lost>>
    BY <1>4, ReleaseSteps
  <2>2. InHand' = 0 /\ InHand = 0
    BY <2>1, CallersDiffer DEF InHand
  <2> QED BY <2>1, <2>2 DEF Accounts, queueVars
<1>5. ASSUME NEW c \in Caller, DrainStep(c) PROVE Accounts'
  <2>1. /\ holder = Nobody /\ holder' = c /\ batch'[c] = outbox /\ outbox' = <<>>
        /\ reported' = reported + dropped /\ dropped' = 0
        /\ UNCHANGED <<produced, delivered, lost>>
    BY <1>0, <1>5 DEF DrainStep, Drains, HeldBy, CountsDrops
  <2>2. InHand = 0 /\ InHand' = Len(outbox)
    BY <2>1, CallersDiffer DEF InHand
  <2> QED BY <1>0, <2>1, <2>2 DEF Accounts
<1>6. ASSUME NEW c \in Caller, Dispatches(c) PROVE Accounts'
  <2>1. /\ holder = c /\ holder' = c /\ Len(batch'[c]) = Len(batch[c]) - 1
        /\ Len(delivered') = Len(delivered) + 1
        /\ UNCHANGED <<queueVars, produced, reported, lost>>
    BY <1>6, DispatchSteps
  <2>2. InHand = Len(batch[c]) /\ InHand' = Len(batch[c]) - 1
    BY <2>1, CallersDiffer DEF InHand
  <2> QED BY <1>0, <2>1, <2>2 DEF Accounts, queueVars
<1>7. ASSUME NEW c \in Caller, DispatchRaises(c) PROVE Accounts'
  <2>1. /\ holder = c /\ holder' = c /\ batch'[c] = <<>> /\ lost' = lost + Len(batch[c])
        /\ UNCHANGED <<queueVars, produced, reported, delivered>>
    BY <1>0, <1>7 DEF DispatchRaises, OneDrains
  <2>2. InHand = Len(batch[c]) /\ InHand' = 0
    BY <2>1, CallersDiffer DEF InHand
  <2> QED BY <1>0, <2>1, <2>2 DEF Accounts, queueVars
<1> QED BY <1>1, <1>2, <1>3, <1>4, <1>5, <1>6, <1>7, QueueSteps

\* Signals are delivered in the order they were put.
LEMMA OrderNext == ASSUME TypeInv, OneDrains, Order, [Next]_vars PROVE Order'
<1>0. /\ outbox \in Seq(Signal) /\ Len(outbox) \in Nat /\ DOMAIN outbox = 1 .. Len(outbox)
      /\ \A i \in DOMAIN outbox : outbox[i].seq \in Nat
      /\ DOMAIN delivered = 1 .. Len(delivered) /\ Len(delivered) \in Nat
      /\ \A i \in DOMAIN delivered : delivered[i] \in Nat
      /\ \A c \in Caller : /\ DOMAIN batch[c] = 1 .. Len(batch[c]) /\ Len(batch[c]) \in Nat
                           /\ \A i \in DOMAIN batch[c] : batch[c][i].seq \in Nat
      /\ produced \in Nat /\ batch \in [Caller -> Seq(Signal)]
  BY Queues
<1>1. CASE UNCHANGED <<outbox, batch, delivered, produced>>
  BY <1>1 DEF Order, DeliveredInOrder
<1>2. ASSUME NEW n \in Node, Puts(n) PROVE Order'
  <2>1. /\ produced' = produced + 1 /\ UNCHANGED <<batch, delivered>>
        /\ outbox' \in Seq(Signal) /\ Len(outbox') > 0 /\ Len(outbox') \in Nat
        /\ DOMAIN outbox' = 1 .. Len(outbox') /\ outbox'[Len(outbox')].seq = produced + 1
    BY <1>2, PutSteps
  <2>2. PICK d \in {0, 1} : \A j \in 1 .. Len(outbox') - 1 : /\ j + d \in DOMAIN outbox
                                                             /\ outbox'[j] = outbox[j + d]
    <3>1. \/ /\ Len(outbox') = Len(outbox) + 1
             /\ \A i \in DOMAIN outbox : outbox'[i] = outbox[i]
          \/ /\ Len(outbox') = Len(outbox)
             /\ \A i \in 1 .. Len(outbox) - 1 : outbox'[i] = outbox[i + 1]
      BY <1>2, PutSteps
    <3>2. CASE /\ Len(outbox') = Len(outbox) + 1
               /\ \A i \in DOMAIN outbox : outbox'[i] = outbox[i]
      <4>1. \A j \in 1 .. Len(outbox') - 1 : j + 0 \in DOMAIN outbox /\ outbox'[j] = outbox[j + 0]
        BY <1>0, <3>2
      <4> QED BY <4>1
    <3>3. CASE /\ Len(outbox') = Len(outbox)
               /\ \A i \in 1 .. Len(outbox) - 1 : outbox'[i] = outbox[i + 1]
      <4>1. \A j \in 1 .. Len(outbox') - 1 : j + 1 \in DOMAIN outbox /\ outbox'[j] = outbox[j + 1]
        BY <1>0, <3>3
      <4> QED BY <4>1
    <3> QED BY <3>1, <3>2, <3>3
  <2>3. \A j \in DOMAIN outbox' : \/ j = Len(outbox') /\ outbox'[j].seq = produced + 1
                                  \/ /\ j < Len(outbox') /\ j + d \in DOMAIN outbox
                                     /\ outbox'[j] = outbox[j + d]
    BY <2>1, <2>2
  <2>4. \A i \in DOMAIN delivered' : delivered'[i] <= produced'
                                     /\ \A j \in DOMAIN outbox' : delivered'[i] < outbox'[j].seq
    BY <1>0, <2>1, <2>3 DEF Order
  <2>5. \A c \in Caller : \A i \in DOMAIN batch'[c] :
          /\ batch'[c][i].seq <= produced'
          /\ \A j \in DOMAIN outbox' : batch'[c][i].seq < outbox'[j].seq
    <3> SUFFICES ASSUME NEW c \in Caller, NEW i \in DOMAIN batch[c]
                 PROVE  /\ batch[c][i].seq <= produced'
                        /\ \A j \in DOMAIN outbox' : batch[c][i].seq < outbox'[j].seq
      BY <2>1
    <3>1. /\ batch[c][i].seq \in Nat /\ batch[c][i].seq <= produced
          /\ \A j \in DOMAIN outbox : batch[c][i].seq < outbox[j].seq
      BY <1>0 DEF Order
    <3> QED BY <1>0, <2>1, <2>3, <3>1
  <2>6. \A i \in DOMAIN outbox' :
          /\ outbox'[i].seq <= produced'
          /\ \A j \in DOMAIN outbox' : i < j => outbox'[i].seq < outbox'[j].seq
    <3> SUFFICES ASSUME NEW i \in DOMAIN outbox'
                 PROVE  /\ outbox'[i].seq <= produced'
                        /\ \A j \in DOMAIN outbox' : i < j => outbox'[i].seq < outbox'[j].seq
      OBVIOUS
    <3>1. CASE i = Len(outbox')
      BY <1>0, <2>1, <3>1
    <3>2. CASE i < Len(outbox') /\ i + d \in DOMAIN outbox /\ outbox'[i] = outbox[i + d]
      <4>1. outbox'[i].seq <= produced /\ outbox'[i].seq \in Nat
        BY <1>0, <3>2 DEF Order
      <4>2. ASSUME NEW j \in DOMAIN outbox', i < j PROVE outbox'[i].seq < outbox'[j].seq
        <5>1. CASE j = Len(outbox')
          BY <1>0, <2>1, <4>1, <5>1
        <5>2. CASE j + d \in DOMAIN outbox /\ outbox'[j] = outbox[j + d]
          <6>1. i + d < j + d
            BY <2>1, <4>2
          <6> QED BY <3>2, <5>2, <6>1 DEF Order
        <5> QED BY <2>3, <5>1, <5>2
      <4> QED BY <1>0, <2>1, <4>1, <4>2
    <3> QED BY <2>3, <3>1, <3>2
  <2> QED BY <2>1, <2>4, <2>5, <2>6 DEF Order, DeliveredInOrder
<1>3. ASSUME NEW c \in Caller, DrainStep(c) PROVE Order'
  <2>1. /\ holder = Nobody /\ batch' = [batch EXCEPT ![c] = outbox] /\ outbox' = <<>>
        /\ UNCHANGED <<produced, delivered>>
    BY <1>3 DEF DrainStep, Drains
  <2>2. /\ \A m \in Caller : batch'[m] = <<>> \/ batch'[m] = outbox
        /\ DOMAIN outbox' = {}
    BY <1>0, <2>1, LockFree
  <2> QED BY <1>0, <2>1, <2>2 DEF Order, DeliveredInOrder
<1>4. ASSUME NEW c \in Caller, Dispatches(c) PROVE Order'
  <2>1. /\ holder = c /\ Len(batch[c]) > 0 /\ Len(batch[c]) \in Nat
        /\ \A m \in Caller \ {c} : batch'[m] = batch[m]
        /\ UNCHANGED <<outbox, produced>>
    BY <1>0, <1>4, DispatchSteps DEF queueVars
  <2>2. /\ batch'[c] \in Seq(Signal) /\ DOMAIN batch'[c] = 1 .. Len(batch[c]) - 1
        /\ \A i \in DOMAIN batch'[c] : i + 1 \in DOMAIN batch[c] /\ batch'[c][i] = batch[c][i + 1]
    <3>1. /\ batch'[c] \in Seq(Signal) /\ Len(batch'[c]) = Len(batch[c]) - 1
          /\ \A i \in 1 .. Len(batch'[c]) : batch'[c][i] = batch[c][i + 1]
      BY <1>4, DispatchSteps
    <3>2. DOMAIN batch'[c] = 1 .. Len(batch'[c])
      BY <3>1
    <3>3. DOMAIN batch[c] = 1 .. Len(batch[c])
      BY <1>0
    <3>4. \A i \in 1 .. Len(batch[c]) - 1 : i + 1 \in 1 .. Len(batch[c])
      BY <2>1
    <3> QED BY <3>1, <3>2, <3>3, <3>4
  <2>3. /\ DOMAIN delivered' = 1 .. Len(delivered) + 1
        /\ delivered'[Len(delivered) + 1] = batch[c][1].seq
        /\ \A i \in 1 .. Len(delivered) : delivered'[i] = delivered[i]
    <3>1. /\ delivered' \in Seq(Nat) /\ Len(delivered') = Len(delivered) + 1
          /\ delivered'[Len(delivered) + 1] = batch[c][1].seq
          /\ \A i \in 1 .. Len(delivered) : delivered'[i] = delivered[i]
      BY <1>4, DispatchSteps
    <3> QED BY <1>0, <3>1
  <2>4. \A m \in Caller \ {c} : batch'[m] = <<>> /\ DOMAIN batch'[m] = {}
    BY <1>0, <2>1 DEF OneDrains
  <2>5. \A i \in DOMAIN delivered' : i = Len(delivered) + 1 \/ i \in DOMAIN delivered
    BY <1>0, <2>3
  <2>6. 1 \in DOMAIN batch[c]
    BY <1>0, <2>1
  <2>7. DeliveredInOrder'
    <3> SUFFICES ASSUME NEW i \in DOMAIN delivered', NEW j \in DOMAIN delivered', i < j
                 PROVE  delivered'[i] < delivered'[j]
      BY DEF DeliveredInOrder
    <3>1. i \in DOMAIN delivered /\ delivered'[i] = delivered[i]
      BY <1>0, <2>3
    <3>2. CASE j \in DOMAIN delivered
      BY <1>0, <2>3, <3>1, <3>2 DEF Order, DeliveredInOrder
    <3>3. CASE j = Len(delivered) + 1
      BY <2>3, <2>6, <3>1, <3>3 DEF Order
    <3> QED BY <2>5, <3>2, <3>3
  <2>8. \A i \in DOMAIN delivered' : delivered'[i] <= produced'
                                     /\ \A j \in DOMAIN outbox' : delivered'[i] < outbox'[j].seq
    <3> SUFFICES ASSUME NEW i \in DOMAIN delivered'
                 PROVE  delivered'[i] <= produced'
                        /\ \A j \in DOMAIN outbox' : delivered'[i] < outbox'[j].seq
      OBVIOUS
    <3>1. CASE i \in DOMAIN delivered
      BY <1>0, <2>1, <2>3, <3>1 DEF Order
    <3>2. CASE i = Len(delivered) + 1
      BY <2>1, <2>3, <2>6, <3>2 DEF Order
    <3> QED BY <2>5, <3>1, <3>2
  <2>9. \A i \in DOMAIN batch'[c] :
          /\ batch'[c][i].seq <= produced'
          /\ \A j \in DOMAIN batch'[c] : i < j => batch'[c][i].seq < batch'[c][j].seq
          /\ \A j \in DOMAIN outbox' : batch'[c][i].seq < outbox'[j].seq
          /\ \A j \in DOMAIN delivered' : delivered'[j] < batch'[c][i].seq
    <3> SUFFICES ASSUME NEW i \in DOMAIN batch'[c]
                 PROVE  /\ batch'[c][i].seq <= produced'
                        /\ \A j \in DOMAIN batch'[c] : i < j => batch'[c][i].seq < batch'[c][j].seq
                        /\ \A j \in DOMAIN outbox' : batch'[c][i].seq < outbox'[j].seq
                        /\ \A j \in DOMAIN delivered' : delivered'[j] < batch'[c][i].seq
      OBVIOUS
    <3>1. i + 1 \in DOMAIN batch[c] /\ batch'[c][i] = batch[c][i + 1] /\ 1 < i + 1
      BY <1>0, <2>1, <2>2
    <3>2. \A j \in DOMAIN batch'[c] : i < j => batch'[c][i].seq < batch'[c][j].seq
      <4> SUFFICES ASSUME NEW j \in DOMAIN batch'[c], i < j
                   PROVE  batch'[c][i].seq < batch'[c][j].seq
        OBVIOUS
      <4>1. j + 1 \in DOMAIN batch[c] /\ batch'[c][j] = batch[c][j + 1] /\ i + 1 < j + 1
        BY <1>0, <2>1, <2>2, <3>1
      <4>2. batch[c][i + 1].seq < batch[c][j + 1].seq
        BY <3>1, <4>1 DEF Order
      <4> QED BY <3>1, <4>1, <4>2
    <3>3. \A j \in DOMAIN delivered' : delivered'[j] < batch'[c][i].seq
      <4> SUFFICES ASSUME NEW j \in DOMAIN delivered' PROVE delivered'[j] < batch'[c][i].seq
        OBVIOUS
      <4>1. CASE j \in DOMAIN delivered
        BY <1>0, <2>3, <3>1, <4>1 DEF Order
      <4>2. CASE j = Len(delivered) + 1
        BY <2>3, <2>6, <3>1, <4>2 DEF Order
      <4> QED BY <2>5, <4>1, <4>2
    <3> QED BY <2>1, <3>1, <3>2, <3>3 DEF Order
  <2>10. \A i \in DOMAIN outbox' :
           /\ outbox'[i].seq <= produced'
           /\ \A j \in DOMAIN outbox' : i < j => outbox'[i].seq < outbox'[j].seq
    BY <2>1 DEF Order
  <2> QED BY <2>4, <2>7, <2>8, <2>9, <2>10 DEF Order
<1>5. ASSUME NEW c \in Caller, DispatchRaises(c) PROVE Order'
  <2>1. /\ UNCHANGED <<outbox, produced, delivered>>
        /\ \A m \in Caller : batch'[m] = <<>> \/ batch'[m] = batch[m]
    BY <1>0, <1>5 DEF DispatchRaises, queueVars
  <2> QED BY <2>1 DEF Order, DeliveredInOrder
<1>6. \A n \in Node : Executes(n) \/ Completes(n) => UNCHANGED <<outbox, batch, delivered, produced>>
  BY DEF Executes, Completes, queueVars
<1>7. Pokes \/ PumpReleases \/ ReturnsOutcome => UNCHANGED <<outbox, batch, delivered, produced>>
  BY DEF Pokes, PumpReleases, ReturnsOutcome, queueVars, signalVars
<1> QED BY <1>1, <1>2, <1>3, <1>4, <1>5, <1>6, <1>7, QueueSteps DEF queueVars, signalVars
----------------------------------------------------------------------------
(* Seeded runs *)

\* A node enters the semaphore by Executes() alone.
LEMMA HoldsSteps ==
  ASSUME TypeInv, [Next]_vars, NEW n \in Node
  PROVE  /\ pc'[n] \in Holds => pc[n] \in Holds \/ Executes(n)
         /\ pc'[n] = "executing" => pc[n] = "executing" \/ Executes(n)
<1>0. pc \in [Node -> Stage]
  BY Queues
<1> USE DEF Holds
<1>1. CASE UNCHANGED nodeVars
  BY <1>1 DEF nodeVars
<1>2. ASSUME NEW m \in Node, NodeStep(m), m # n PROVE pc'[n] = pc[n]
  BY <1>2, NodeMoves
<1>3. ASSUME NodeStep(n), ~Executes(n)
      PROVE  /\ pc'[n] \in Holds => pc[n] \in Holds
             /\ pc'[n] = "executing" => pc[n] = "executing"
  <2>1. AfterFrame(n) \in {"stopped", "waiting", "failed", "done"}
    BY DEF AfterFrame, Attempt
  <2>2. CASE Begins(n) \/ Stops(n) \/ Again(n) \/ Says(n) \/ NodeDrains(n) \/ Completes(n)
    BY <1>0, <2>1, <2>2 DEF Begins, Stops, Again, Says, NodeDrains, Completes, Reports, Attempt
  <2>3. CASE Thread(n)
    BY <1>0, <2>3 DEF Thread, Puts, Returns, Raises, Reports, nodeVars
  <2>4. CASE RollsUp(n)
    BY <1>0, <2>1, <2>4 DEF RollsUp, RollsBroken, RollsRunning, Counts, Settles, Onwards
  <2> QED BY <1>3, <2>2, <2>3, <2>4 DEF NodeStep, OnLoop
<1> QED BY <1>1, <1>2, <1>3, NodeSteps

\* Nothing else reseeds.
LEMMA RngSteps ==
  ASSUME [Next]_vars
  PROVE  rng' = rng \/ \E n \in Node : Executes(n)
<1>1. \A n \in Node : NodeStep(n) /\ ~Executes(n) => rng' = rng
  BY DEF NodeStep, OnLoop, Thread, Begins, Stops, Again, Says, RollsUp, RollsBroken, RollsRunning,
     Counts, Settles, NodeDrains, Completes, Puts, Returns, Raises, nodeVars
<1> QED BY <1>1, NodeSteps DEF nodeVars

\* A worker of its own for each node that executes.
LEMMA WorkerIsFree ==
  ASSUME NEW n \in Node, Executes(n), seeded
  PROVE  \A m \in Node : pc[m] \notin Holds
<1> DEFINE H == {m \in Node : pc[m] \in Holds}
<1>1. Cardinality(H) < 1
  BY DEF Executes, Workers
<1>2. IsFiniteSet(H)
  BY NodesAreFinite, FS_Subset
<1>3. Cardinality(H) = 0
  BY <1>1, <1>2, FS_CardinalityType
<1>4. H = {}
  BY <1>2, <1>3, FS_EmptySet
<1> QED BY <1>4

LEMMA SerialNext == ASSUME TypeInv, Serial, [Next]_vars PROVE Serial'
<1> SUFFICES ASSUME seeded'
             PROVE  /\ \A m, n \in Node : pc'[m] \in Holds /\ pc'[n] \in Holds => m = n
                    /\ \A n \in Node : pc'[n] = "executing" => rng' = n
  BY DEF Serial, Holds
<1>1. seeded
  BY OptionsStay DEF options
<1>2. ASSUME NEW k \in Node, Executes(k)
      PROVE  /\ \A n \in Node : pc'[n] \in Holds => n = k
             /\ rng' = k
  <2>1. \A m \in Node : pc[m] \notin Holds
    BY <1>1, <1>2, WorkerIsFree
  <2>2. \A n \in Node \ {k} : pc'[n] = pc[n]
    BY <1>2, NodeMoves DEF NodeStep, OnLoop
  <2>3. rng' = k
    BY <1>1, <1>2 DEF Executes
  <2> QED BY <2>1, <2>2, <2>3
<1>3. CASE \A k \in Node : ~Executes(k)
  BY <1>1, <1>3, HoldsSteps, RngSteps DEF Serial
<1>4. \A n \in Node : pc'[n] = "executing" => pc'[n] \in Holds
  BY DEF Holds
<1> QED BY <1>2, <1>3, <1>4

\* When a thread, a drain or the outputs of a node change.
LEMMA ResultSteps ==
  ASSUME TypeInv, [Next]_vars, NEW n \in Node
  PROVE  /\ pc'[n] \in {"executing", "returned"} =>
              pc[n] \in {"executing", "returned"} \/ Executes(n)
         /\ pc'[n] = "draining" => pc[n] = "draining" \/ NodeDrains(n)
         /\ outputs'[n] = outputs[n] \/ pc[n] = "idle" \/ Completes(n)
<1>0. pc \in [Node -> Stage] /\ outputs \in [Node -> Value]
  BY DEF TypeInv, TypeOK
<1>1. CASE UNCHANGED nodeVars
  BY <1>1 DEF nodeVars
<1>2. ASSUME NEW m \in Node, NodeStep(m), m # n PROVE pc'[n] = pc[n] /\ outputs'[n] = outputs[n]
  <2>1. pc'[n] = pc[n]
    BY <1>2, NodeMoves
  <2>2. outputs'[n] = outputs[n]
    BY <1>0, <1>2 DEF NodeStep, OnLoop, Thread, Begins, Stops, Executes, Again, Says, RollsUp,
       RollsBroken, RollsRunning, Counts, Settles, NodeDrains, Completes, Puts, Returns, Raises,
       nodeVars
  <2> QED BY <2>1, <2>2
<1>3. AfterFrame(n) \in {"stopped", "waiting", "failed", "done"}
  BY DEF AfterFrame, Attempt
<1>4. CASE Begins(n) \/ Stops(n) \/ Again(n) \/ Says(n) \/ NodeDrains(n) \/ Completes(n) \/ Executes(n)
  BY <1>0, <1>3, <1>4 DEF Begins, Stops, Again, Says, NodeDrains, Completes, Executes, Reports,
     Attempt
<1>5. CASE Thread(n)
  BY <1>0, <1>5 DEF Thread, Puts, Returns, Raises, Reports, nodeVars
<1>6. CASE RollsUp(n)
  BY <1>0, <1>3, <1>6 DEF RollsUp, RollsBroken, RollsRunning, Counts, Settles, Onwards
<1> QED BY <1>1, <1>2, <1>4, <1>5, <1>6, NodeSteps DEF NodeStep, OnLoop

\* The last signal of a node is delivered before its outputs count.
LEMMA TailsNext ==
  ASSUME TypeInv, Levels, OneDrains, Serial, Tails, Results, [Next]_vars PROVE Tails'
<1>0. /\ pc \in [Node -> Stage] /\ tail \in [Node -> 0 .. MaxSignals] /\ lost \in Nat
      /\ outputs \in [Node -> Value]
  BY DEF TypeInv, TypeOK
<1>1. \A n \in Node : pc'[n] = "idle" => tail'[n] = 0
  <2>1. \A n \in Node : pc'[n] = "idle" => pc[n] = "idle"
    BY StageSteps DEF Moves
  <2>2. \A n \in Node : pc[n] = "idle" => tail'[n] = tail[n]
    <3>1. ASSUME NEW k \in Node, Executes(k) \/ Puts(k)
          PROVE  \A n \in Node : pc[n] = "idle" => tail'[n] = tail[n]
      BY <1>0, <3>1 DEF Executes, Puts
    <3>2. \/ tail' = tail \/ \E k \in Node : Executes(k) \/ Puts(k)
      BY QueueSteps DEF signalVars, queueVars, Completes, DrainStep, Drains, Dispatches,
         DispatchRaises, Pokes, PumpReleases, ReturnsOutcome
    <3> QED BY <3>1, <3>2
  <2> QED BY <2>1, <2>2 DEF Tails
<1>2. lost' = lost \/ \E c \in Caller : DispatchRaises(c)
  BY QueueSteps DEF signalVars, queueVars, Executes, Puts, Completes, DrainStep, Drains, Dispatches,
     Pokes, PumpReleases, ReturnsOutcome
<1>3. ASSUME NEW c \in Caller, DispatchRaises(c) PROVE lost' # 0
  BY <1>0, <1>3, Queues, Parts DEF DispatchRaises
<1> SUFFICES ASSUME seeded', lost' = 0, lost = 0, \A c \in Caller : ~DispatchRaises(c),
                    NEW n \in Node, tail'[n] # 0
             PROVE  /\ pc'[n] \in {"executing", "returned"} =>
                         Queued(tail[n])' \/ Held(tail[n])' \/ Told(tail[n])'
                    /\ pc'[n] = "draining" => Held(tail[n])' \/ Told(tail[n])'
                    /\ outputs'[n] # "none" => Told(tail[n])'
  BY <1>1, <1>2, <1>3 DEF Tails
<1>4. seeded
  BY OptionsStay DEF options
<1> DEFINE Goal == /\ pc'[n] \in {"executing", "returned"} =>
                         Queued(tail[n])' \/ Held(tail[n])' \/ Told(tail[n])'
                   /\ pc'[n] = "draining" => Held(tail[n])' \/ Told(tail[n])'
                   /\ outputs'[n] # "none" => Told(tail[n])'
<1>5. tail[n] # 0 =>
        /\ pc[n] \in {"executing", "returned"} => Queued(tail[n]) \/ Held(tail[n]) \/ Told(tail[n])
        /\ pc[n] = "draining" => Held(tail[n]) \/ Told(tail[n])
        /\ outputs[n] # "none" => Told(tail[n])
        /\ pc[n] # "idle"
  BY <1>4 DEF Tails
<1>6. CASE UNCHANGED <<queueVars, signalVars>>
  <2>1. tail' = tail /\ UNCHANGED <<Queued(tail[n]), Held(tail[n]), Told(tail[n])>>
    BY <1>6 DEF queueVars, signalVars, Queued, Held, Told
  <2>2. ~Executes(n) /\ ~NodeDrains(n) /\ ~Completes(n)
    <3>1. ~Executes(n)
      BY <1>0, <2>1 DEF Executes
    <3>2. holder' = holder
      BY <1>6 DEF signalVars
    <3>3. ~NodeDrains(n)
      BY <3>2, CallersDiffer DEF NodeDrains, Drains, HeldBy
    <3>4. ~Completes(n)
      BY <3>2, CallersDiffer DEF Completes, ReleasedLock, OneDrains
    <3> QED BY <3>1, <3>3, <3>4
  <2> QED BY <1>5, <2>1, <2>2, ResultSteps
<1>7. ASSUME NEW k \in Node, Executes(k) PROVE Goal
  <2>1. /\ tail' = [tail EXCEPT ![k] = 0] /\ pc' = [pc EXCEPT ![k] = "executing"]
        /\ UNCHANGED <<outputs, outbox, batch, delivered>>
    BY <1>7 DEF Executes, queueVars
  <2>2. n # k /\ tail'[n] = tail[n] /\ pc'[n] = pc[n]
    BY <1>0, <2>1
  <2> QED BY <1>5, <2>1, <2>2 DEF Queued, Held, Told
<1>8. ASSUME NEW k \in Node, Puts(k) PROVE Goal
  <2>1. /\ tail' = [tail EXCEPT ![k] = produced'] /\ UNCHANGED <<pc, outputs, batch, delivered>>
        /\ outbox' \in Seq(Signal) /\ Len(outbox') > 0 /\ outbox'[Len(outbox')].seq = produced'
        /\ pc[k] = "executing"
    <3>1. UNCHANGED <<pc, outputs>>
      BY <1>8 DEF Puts, nodeVars
    <3> QED BY <1>8, <3>1, PutSteps
  <2>2. CASE n = k
    <3>1. tail'[n] = produced' /\ Len(outbox') \in DOMAIN outbox'
      BY <1>0, <2>1, <2>2
    <3>2. outputs[n] = "none"
      BY <2>1, <2>2 DEF Results, Telling
    <3> QED BY <2>1, <2>2, <3>1, <3>2 DEF Queued
  <2>3. CASE n # k
    <3>1. tail'[n] = tail[n]
      BY <1>0, <2>1, <2>3
    <3>2. pc[n] \notin Holds
      BY <1>4, <2>1, <2>3 DEF Serial, Holds
    <3> QED BY <1>5, <2>1, <3>1, <3>2 DEF Told, Holds
  <2> QED BY <2>2, <2>3
<1>9. ASSUME NEW c \in Caller, DrainStep(c) PROVE Goal
  <2>1. /\ holder = Nobody /\ batch' = [batch EXCEPT ![c] = outbox]
        /\ UNCHANGED <<tail, delivered, outputs>>
    BY <1>9 DEF DrainStep, Drains, nodeVars
  <2>2. (\A m \in Caller : batch[m] = <<>>) /\ pc[n] # "draining"
    BY <2>1, LockFree
  <2>3. batch \in [Caller -> Seq(Signal)] /\ batch'[c] = outbox
    BY <2>1, Queues
  <2>4. ~Held(tail[n])
    BY <2>2 DEF Held
  <2>5. (Queued(tail[n]) => Held(tail[n])') /\ (Told(tail[n]) => Told(tail[n])')
    BY <2>1, <2>3 DEF Queued, Held, Told
  <2>6. /\ pc'[n] \in {"executing", "returned"} => pc[n] \in {"executing", "returned"}
        /\ pc'[n] = "draining" => pc[n] = "returned"
    BY <1>0, <1>9, <2>2 DEF DrainStep, nodeVars
  <2>7. tail[n] # 0
    BY <2>1
  <2> QED BY <1>5, <2>1, <2>4, <2>5, <2>6, <2>7
<1>10. ASSUME NEW k \in Node, Completes(k) PROVE Goal
  <2>1. /\ batch[k] = <<>> /\ holder = k /\ pc[k] = "draining"
        /\ pc' = [pc EXCEPT ![k] = "reporting"] /\ outputs' = [outputs EXCEPT ![k] = made[k]]
        /\ UNCHANGED <<tail, outbox, batch, delivered>>
    BY <1>10 DEF Completes, Reports, OneDrains, queueVars
  <2>2. ~Held(tail[n])
    BY <2>1 DEF Held, OneDrains
  <2>3. CASE n = k
    BY <1>0, <1>5, <2>1, <2>2, <2>3 DEF Told
  <2>4. CASE n # k
    BY <1>0, <1>5, <2>1, <2>4 DEF Queued, Held, Told
  <2> QED BY <2>3, <2>4
<1>11. ASSUME NEW c \in Caller, Dispatches(c) PROVE Goal
  <2>1. /\ UNCHANGED <<queueVars, nodeVars, tail>> /\ batch[c] # <<>>
        /\ \A m \in Caller \ {c} : batch'[m] = batch[m]
        /\ batch'[c] \in Seq(Signal) /\ Len(batch'[c]) = Len(batch[c]) - 1
        /\ \A i \in 1 .. Len(batch'[c]) : batch'[c][i] = batch[c][i + 1]
        /\ delivered' \in Seq(Nat) /\ Len(delivered') = Len(delivered) + 1
        /\ delivered'[Len(delivered) + 1] = batch[c][1].seq
        /\ \A i \in 1 .. Len(delivered) : delivered'[i] = delivered[i]
    BY <1>11, DispatchSteps
  <2>2. /\ DOMAIN batch[c] = 1 .. Len(batch[c]) /\ Len(batch[c]) \in Nat
        /\ DOMAIN delivered = 1 .. Len(delivered) /\ Len(delivered) \in Nat
    BY Queues
  <2>3. DOMAIN batch'[c] = 1 .. Len(batch[c]) - 1 /\ DOMAIN delivered' = 1 .. Len(delivered) + 1
    <3>1. DOMAIN batch'[c] = 1 .. Len(batch'[c]) /\ DOMAIN delivered' = 1 .. Len(delivered')
      BY <2>1
    <3> QED BY <2>1, <3>1
  <2>4. Told(tail[n]) => Told(tail[n])'
    BY <2>1, <2>2, <2>3 DEF Told
  <2>5. Held(tail[n]) => Held(tail[n])' \/ Told(tail[n])'
    <3> SUFFICES ASSUME NEW m \in Caller, NEW i \in DOMAIN batch[m], batch[m][i].seq = tail[n]
                 PROVE  Held(tail[n])' \/ Told(tail[n])'
      BY DEF Held
    <3>1. CASE m # c
      BY <2>1, <3>1 DEF Held
    <3>2. CASE m = c /\ i = 1
      <4>1. Len(delivered) + 1 \in DOMAIN delivered'
        BY <2>2, <2>3
      <4> QED BY <2>1, <3>2, <4>1 DEF Told
    <3>3. CASE m = c /\ i # 1
      <4>1. i - 1 \in DOMAIN batch'[c] /\ i - 1 \in 1 .. Len(batch'[c]) /\ (i - 1) + 1 = i
        <5>1. i \in 1 .. Len(batch[c]) /\ Len(batch[c]) \in Nat /\ i # 1
          BY <2>2, <3>3
        <5>2. i - 1 \in 1 .. Len(batch[c]) - 1 /\ (i - 1) + 1 = i
          BY <5>1
        <5> QED BY <2>1, <2>3, <5>2
      <4>2. batch'[c][i - 1].seq = tail[n] /\ tail' = tail
        BY <2>1, <3>3, <4>1
      <4> QED BY <4>1, <4>2, <3>3 DEF Held
    <3> QED BY <3>1, <3>2, <3>3
  <2>6. Queued(tail[n]) => Queued(tail[n])'
    BY <2>1 DEF Queued, queueVars
  <2> QED BY <1>5, <2>1, <2>4, <2>5, <2>6 DEF nodeVars
<1>12. CASE Pokes \/ PumpReleases \/ ReturnsOutcome
  <2>1. UNCHANGED <<tail, pc, outputs, outbox, batch, delivered>>
    BY <1>12 DEF Pokes, PumpReleases, ReturnsOutcome, nodeVars, queueVars, signalVars
  <2> QED BY <1>5, <2>1 DEF Queued, Held, Told
<1> QED BY <1>6, <1>7, <1>8, <1>9, <1>10, <1>11, <1>12, QueueSteps
----------------------------------------------------------------------------
(* Outputs *)

\* What Results says of one node.
Result(n) ==
  /\ pc[n] \in Telling \cup {"done"} => Spoken(n)
  /\ pc[n] \in {"returned", "draining"} => made[n] = "full" \/ (made[n] = "partial" /\ cancelled)
  /\ outputs[n] = "partial" => cancelled
  /\ outputs[n] # "none" => /\ pc[n] \in Telling \cup {"done"}
                            /\ say[n] \in {"completed", "cached", "interrupted"}
  /\ cache[n] # "partial"
  /\ pc[n] \in Busy \/ (pc[n] \in Telling /\ say[n] = "running")
       => \A m \in Upstream[n] : outputs[m] = "full"

\* A node steps while its level runs.
LEMMA SteppingIsInLevels ==
  ASSUME TypeInv, Levels, NEW n \in Node, NodeStep(n)
  PROVE  engine = "levels" /\ Level[n] = level /\ pc[n] \notin Ended
<1>1. CASE Begins(n) \/ Stops(n)
  BY <1>1 DEF Begins, Stops, Ended
<1>2. CASE ~(Begins(n) \/ Stops(n))
  <2>1. pc[n] \notin Ended \cup {"idle"}
    BY <1>2 DEF NodeStep, OnLoop, Thread, Executes, Again, Says, RollsUp, RollsBroken, RollsRunning,
       Counts, Settles, NodeDrains, Completes, Puts, Returns, Raises, Ended
  <2> QED BY <2>1, WorkingIsInLevels
<1> QED BY <1>1, <1>2

\* With no failure upstream and no stop, everything a node reads is complete.
LEMMA UpstreamIsComplete ==
  ASSUME TypeInv, Levels, Results, NEW n \in Node, Level[n] = level, ~cancelled, ~HasFailedInput(n)
  PROVE  \A m \in Upstream[n] : outputs[m] = "full"
<1> SUFFICES ASSUME NEW m \in Upstream[n] PROVE outputs[m] = "full"
  OBVIOUS
<1>1. m \in Node /\ pc[m] = "done"
  BY LevelsAreTopological DEF Levels
<1>2. Spoken(m) /\ m \notin errors /\ outputs[m] # "partial"
  BY <1>1 DEF Results, HasFailedInput
<1> QED BY <1>1, <1>2 DEF Spoken, Clean

\* A step of another node leaves what is said of n.
LEMMA OthersLeaveResult ==
  ASSUME TypeInv, Levels, Results, NEW n \in Node, NEW k \in Node, k # n, NodeStep(k)
  PROVE  Result(n)'
<1>1. UNCHANGED <<mode, cancelled>> /\ pc'[n] = pc[n]
  BY NodeMoves DEF options
<1>2. /\ UNCHANGED <<say[n], made[n], cache[n]>> /\ errors \subseteq errors'
      /\ \A m \in Node \ {k} : outputs'[m] = outputs[m]
  <2>0. /\ say \in [Node -> Frame \cup {"none"}] /\ made \in [Node -> Value]
        /\ cache \in [Node -> Value] /\ outputs \in [Node -> Value] /\ errors \subseteq Node
    BY DEF TypeInv, TypeOK
  <2> QED BY <2>0 DEF NodeStep, OnLoop, Thread, Begins, Stops, Executes, Again, Says, RollsUp, RollsBroken,
     RollsRunning, Counts, Settles, NodeDrains, Completes, Puts, Returns, Raises, Reports, nodeVars
<1>3. ASSUME pc[n] \in Busy \/ (pc[n] \in Telling /\ say[n] = "running"), NEW m \in Upstream[n]
      PROVE  outputs'[m] = "full"
  <2>1. Level[n] = level
    BY <1>3, WorkingIsInLevels DEF Busy, Telling, Ended
  <2>2. m \in Node /\ pc[m] = "done"
    BY <2>1, LevelsAreTopological DEF Levels
  <2>3. m # k
    BY <2>2, SteppingIsInLevels DEF Ended
  <2> QED BY <1>2, <1>3, <2>2, <2>3 DEF Results
<1>4. outputs'[n] = outputs[n]
  BY <1>2
<1>5. Result(n)
  BY DEF Results, Result
<1> QED BY <1>1, <1>2, <1>3, <1>4, <1>5 DEF Result, Spoken

\* A step of n itself.
LEMMA OwnStepsKeepResult ==
  ASSUME TypeInv, Levels, Results, NEW n \in Node, NodeStep(n)
  PROVE  Result(n)'
<1>0. /\ pc \in [Node -> Stage] /\ say \in [Node -> Frame \cup {"none"}] /\ made \in [Node -> Value]
      /\ cache \in [Node -> Value] /\ outputs \in [Node -> Value] /\ errors \subseteq Node
      /\ Result(n) /\ Level[n] = level /\ pc[n] \notin Ended
  BY SteppingIsInLevels DEF TypeInv, TypeOK, Results, Result
<1>1. UNCHANGED <<mode, cancelled>>
  BY NodeMoves DEF options
<1>2. \A m \in Upstream[n] : m \in Node /\ m # n
  BY LevelsAreTopological
<1> USE DEF Result, Telling, Busy
<1>3. CASE Begins(n)
  <2>1. /\ ~cancelled /\ pc[n] = "idle" /\ outputs[n] = "none"
        /\ pc'[n] = "reporting" /\ UNCHANGED <<cache, made>>
    BY <1>0, <1>3 DEF Begins, Reports
  <2>2. CASE HasFailedInput(n)
    BY <1>0, <1>1, <1>3, <2>1, <2>2 DEF Begins, Reports, Spoken, Clean
  <2>3. CASE ~HasFailedInput(n)
    <3>1. \A m \in Upstream[n] : outputs[m] = "full"
      BY <1>0, <2>1, <2>3, UpstreamIsComplete
    <3>2. \/ /\ outputs' = [outputs EXCEPT ![n] = cache[n]] /\ cache[n] # "none"
             /\ say' = [say EXCEPT ![n] = "cached"]
          \/ outputs' = outputs /\ say' = [say EXCEPT ![n] = "running"]
      BY <1>3, <2>3 DEF Begins, Reports
    <3>3. cache[n] # "none" => cache[n] = "full"
      BY <1>0 DEF Value
    <3>4. CASE outputs' = [outputs EXCEPT ![n] = cache[n]] /\ cache[n] # "none"
               /\ say' = [say EXCEPT ![n] = "cached"]
      BY <1>0, <1>1, <2>1, <3>3, <3>4 DEF Spoken, Clean
    <3>5. CASE outputs' = outputs /\ say' = [say EXCEPT ![n] = "running"]
      BY <1>0, <1>1, <2>1, <3>1, <3>5 DEF Spoken, Clean
    <3> QED BY <3>2, <3>4, <3>5
  <2> QED BY <2>2, <2>3
<1>4. CASE Stops(n) \/ Executes(n) \/ Again(n) \/ NodeDrains(n)
  <2>1. /\ pc[n] \in {"idle", "waiting", "backoff", "returned"}
        /\ pc'[n] \in {"stopped", "waiting", "executing", "draining"}
        /\ pc'[n] \in Busy => pc[n] \in Busy
        /\ pc'[n] = "draining" => pc[n] = "returned"
        /\ UNCHANGED <<say, made, outputs, errors, cache>>
    BY <1>0, <1>4 DEF Stops, Executes, Again, Attempt, NodeDrains
  <2> QED BY <1>0, <1>1, <2>1
<1>5. CASE Puts(n)
  BY <1>0, <1>1, <1>5 DEF Puts, nodeVars, Spoken
<1>6. CASE Returns(n)
  <2>1. PICK result \in {"full", "partial"} : /\ result = "partial" => cancelled
                                              /\ made' = [made EXCEPT ![n] = result]
    BY <1>6 DEF Returns
  <2>2. /\ pc[n] = "executing" /\ pc'[n] = "returned" /\ made'[n] = result
        /\ UNCHANGED <<say, outputs, errors, cache>>
    BY <1>0, <1>6, <2>1 DEF Returns
  <2> QED BY <1>0, <1>1, <2>1, <2>2
<1>7. CASE Raises(n)
  <2>1. /\ pc[n] = "executing" /\ outputs[n] = "none" /\ outputs' = outputs /\ made' = made
        /\ cache'[n] \in {cache[n], "none"}
        /\ \/ pc'[n] = "backoff"
           \/ /\ pc'[n] = "reporting" /\ say'[n] = "error"
              /\ mode = "fail_fast" \/ n \in errors'
    BY <1>0, <1>7 DEF Raises, Reports
  <2> QED BY <1>0, <1>1, <2>1 DEF Spoken, Clean
<1>8. CASE Completes(n)
  <2>1. /\ pc[n] = "draining" /\ pc'[n] = "reporting" /\ outputs' = [outputs EXCEPT ![n] = made[n]]
        /\ say'[n] = IF made[n] = "full" THEN "completed" ELSE "interrupted"
        /\ cache'[n] = CacheAfter(n) /\ errors' = errors /\ made' = made
    BY <1>0, <1>8 DEF Completes, Reports
  <2>2. cache'[n] # "partial"
    BY <1>0, <2>1 DEF CacheAfter
  <2>3. outputs'[n] = made[n] /\ (made[n] = "full" \/ (made[n] = "partial" /\ cancelled))
    BY <1>0, <2>1
  <2> QED BY <1>0, <1>1, <2>1, <2>2, <2>3 DEF Spoken, Clean
<1>9. ASSUME pc[n] \in Telling, UNCHANGED <<say, made, outputs, errors, cache>>,
             pc'[n] \in Telling \/ pc'[n] = AfterFrame(n)
      PROVE  Result(n)'
  <2>1. CASE pc'[n] \in Telling
    BY <1>0, <1>1, <1>9, <2>1 DEF Spoken
  <2>2. CASE pc'[n] = AfterFrame(n)
    <3>1. \/ say[n] = "running" /\ pc'[n] \in {"stopped", "waiting"}
          \/ say[n] = "error" /\ mode = "fail_fast" /\ pc'[n] = "failed"
          \/ /\ pc'[n] = "done" /\ say[n] # "running" /\ (say[n] = "error" => mode # "fail_fast")
      BY <2>2 DEF AfterFrame, Attempt
    <3> QED BY <1>0, <1>1, <1>9, <3>1 DEF Spoken, Clean
  <2> QED BY <1>9, <2>1, <2>2
<1>10. CASE Says(n)
  BY <1>0, <1>9, <1>10 DEF Says
<1>11. CASE RollsUp(n)
  BY <1>0, <1>9, <1>11 DEF RollsUp, RollsBroken, RollsRunning, Counts, Settles, Onwards
<1> QED BY <1>3, <1>4, <1>5, <1>6, <1>7, <1>8, <1>10, <1>11 DEF NodeStep, OnLoop, Thread

LEMMA ResultsNext == ASSUME TypeInv, Levels, Results, [Next]_vars PROVE Results'
<1>1. ASSUME NEW k \in Node, NodeStep(k) PROVE Results'
  <2>1. \A n \in Node : Result(n)'
    BY <1>1, OthersLeaveResult, OwnStepsKeepResult
  <2>2. outcome' # "succeeded"
    BY <1>1, SteppingIsInLevels, NodeMoves DEF Levels, engineVars
  <2> QED BY <2>1, <2>2 DEF Results, Result
<1>2. CASE UNCHANGED nodeVars
  <2>1. mode' = mode /\ (cancelled => cancelled')
    <3>1. cancelled' = cancelled \/ Stop
      <4>1. \A n \in Node : OnLoop(n) \/ Thread(n) => cancelled' = cancelled
        BY NodeMoves DEF NodeStep
      <4> QED BY <4>1 DEF Next, vars, Delivery, Pokes, PumpDrains, PumpReleases, Dispatches, DispatchRaises,
         Stop, Engines, EndsLevel, Flushes, ReturnsOutcome
    <3> QED BY <3>1, OptionsStay DEF options, Stop
  <2>2. outcome' = outcome \/ (outcome' = "succeeded" => ~cancelled)
    <3>1. CASE UNCHANGED engineVars
      BY <3>1 DEF engineVars
    <3>2. CASE Engines
      BY <3>2 DEF Engines, EndsLevel, StopRequested, Flushes, ReturnsOutcome
    <3> QED BY <3>1, <3>2, EngineSteps
  <2>3. UNCHANGED <<pc, say, made, outputs, errors, cache>>
    BY <1>2 DEF nodeVars
  <2> QED BY <2>1, <2>2, <2>3 DEF Results, Spoken
<1> QED BY <1>1, <1>2, NodeSteps
----------------------------------------------------------------------------
(* The theorems *)

LEMMA Initially == Init => IInv
<1> SUFFICES ASSUME Init PROVE IInv
  OBVIOUS
<1>1. Levels
  BY LevelsAreTopological DEF Init, Levels
<1>2. OneDrains /\ Accounts /\ Order
  BY CallersDiffer DEF Init, OneDrains, Accounts, InHand, Order, DeliveredInOrder
<1>3. Serial /\ Tails /\ TakesTurns
  BY DEF Init, Serial, Holds, Tails, TakesTurns
<1>4. Results
  BY DEF Init, Results, Telling, Busy
<1> QED BY <1>1, <1>2, <1>3, <1>4, TypeInit DEF IInv

LEMMA Stays == IInv /\ [Next]_vars => IInv'
BY TypeNext, LevelsNext, DrainsNext, AccountsNext, OrderNext, SerialNext, TailsNext, TurnsNext,
   ResultsNext DEF IInv

LEMMA Invariant == Spec => []IInv
BY Initially, Stays, PTL DEF Spec

\* Signals are dispatched in the order they were produced, whoever drains
\* them: the pump, a node that returned, or the finally.
THEOREM SignalsComeInOrder == Spec => []DeliveredInOrder
<1>1. IInv => DeliveredInOrder
  BY DEF IInv, Order
<1> QED BY <1>1, Invariant, PTL

\* When the engine returns every signal was delivered, reported as dropped
\* or logged as lost, and in a serial run the outputs of a node count only
\* after its last signal was delivered.
THEOREM SignalsCounted == Spec => []SignalsAreAccountedFor
<1>1. ASSUME IInv PROVE SignalsAreAccountedFor
  <2>1. /\ Len(delivered) \in Nat /\ reported \in Nat /\ lost \in Nat
        /\ engine = "returned" => outbox = <<>> /\ dropped = 0 /\ InHand = 0
    BY <1>1, Queues DEF IInv, OneDrains, InHand
  <2>2. engine = "returned" => produced = Len(delivered) + reported + lost
    BY <1>1, <2>1 DEF IInv, Accounts
  <2>3. \A s : Told(s) => s \in ToSet(delivered)
    BY DEF Told, ToSet
  <2> QED BY <1>1, <2>2, <2>3 DEF IInv, Tails, SignalsAreAccountedFor
<1> QED BY <1>1, Invariant, PTL

\* A node runs on complete outputs only, no partial one is cached, and a run
\* with one is no success.
THEOREM OutputsAreComplete == Spec => []OnlyCompleteOutputsCount
<1>1. IInv => OnlyCompleteOutputsCount
  BY DEF IInv, Results, OnlyCompleteOutputsCount
<1> QED BY <1>1, Invariant, PTL

\* Nodes in their threads share neither the global RNGs of a seeded run nor
\* a live model.
THEOREM NodesKeepApart == Spec => []NodesExecuteApart
<1>1. ASSUME IInv PROVE NodesExecuteApart
  <2> SUFFICES ASSUME NEW n \in Node, pc[n] = "executing"
               PROVE  /\ seeded => rng = n
                      /\ live => \A m \in Node \ {n} : pc[m] = "executing" =>
                                   Handed[n] \cap Handed[m] = {}
    BY DEF NodesExecuteApart
  <2>1. seeded => rng = n
    BY <1>1 DEF IInv, Serial
  <2>2. ASSUME live, NEW m \in Node \ {n}, pc[m] = "executing", Handed[n] \cap Handed[m] # {}
        PROVE  FALSE
    <3>1. ~seeded
      BY <1>1, <2>2 DEF IInv, Serial, Holds
    <3>2. Level[m] = Level[n]
      BY <1>1, <2>2, WorkingIsInLevels DEF IInv, Ended
    <3>3. m \in Group(n) /\ n \in Group(m)
      BY <2>2, <3>1, <3>2, SharersAreGrouped DEF Shares
    <3>4. Turn[m] # Turn[n] /\ Turn[m] \in Nat /\ Turn[n] \in Nat
      BY <2>2, <3>2, LevelsAreTopological
    <3>5. Turn[m] < Turn[n] \/ Turn[n] < Turn[m]
      BY <3>4
    <3>6. ItsTurn(m) /\ ItsTurn(n)
      BY <1>1, <2>2 DEF IInv, TakesTurns
    <3> QED BY <2>2, <3>3, <3>5, <3>6 DEF ItsTurn, Ended
  <2> QED BY <2>1, <2>2
<1> QED BY <1>1, Invariant, PTL
=============================================================================
