------------------------ MODULE RunSchedulingProofs ------------------------
(* Proofs that the admission of queued runs keeps its accounts, for every   *)
(* set of runs, queues, slots, places and caps.                             *)
EXTENDS RunScheduling, LineTheorems, FiniteSetTheorems

----------------------------------------------------------------------------
(* Types *)

\* What release gives back keeps every count a natural number.
LEMMA ReleaseType ==
  ASSUME TypeOK, NEW r \in Run, ReleaseAdmission(r)
  PROVE  slots' \in [Slot -> Nat] /\ requested' \in BOOLEAN /\ asking' \subseteq Queue
<1>1. CASE r \in released
  BY <1>1 DEF TypeOK, ReleaseAdmission
<1>2. CASE r \notin released
  <2>1. slots' = [s \in Slot |-> IF s \in placement[r].slots /\ slots[s] > 0
                                THEN slots[s] - 1 ELSE slots[s]]
    BY <1>2 DEF ReleaseAdmission
  <2>2. slots' \in [Slot -> Nat]
    <3> DEFINE held(s) == s \in placement[r].slots
    <3>1. slots' = [s \in Slot |-> IF held(s) /\ slots[s] > 0
                                  THEN slots[s] - 1 ELSE slots[s]]
      BY <2>1
    <3> HIDE DEF held
    <3>2. slots \in [Slot -> Nat]
      BY DEF TypeOK
    <3> QED BY <3>1, <3>2
  <2>3. asking' \subseteq Queue
    BY <1>2 DEF TypeOK, ReleaseAdmission, Reschedule
  <2>4. requested' \in BOOLEAN
    BY <1>2 DEF TypeOK, ReleaseAdmission
  <2> QED BY <2>2, <2>3, <2>4
<1> QED BY <1>1, <1>2

LEMMA FrontType ==
  ASSUME TypeOK, NEW q \in Queue, Waiting(q)
  PROVE  FrontOf(q) \in Run /\ pending[q] \in Seq(Run)
  BY TailProperties DEF TypeOK, Waiting, FrontOf

LEMMA PlacementType ==
  ASSUME NEW r \in Run, NEW p \in Placements(r)
  PROVE  p \in Place
<1>1. PICK i \in Placeable(r) : p = Places[r][i]
  BY DEF Placements
<1>2. i \in DOMAIN Places[r] /\ Places[r] \in Seq(Place)
  BY <1>1, PlacesType DEF Placeable
<1>3. i \in 1 .. Len(Places[r])
  BY <1>2, LenProperties
<1>4. ASSUME NEW seq \in Seq(Place), NEW n \in 1 .. Len(seq) PROVE seq[n] \in Place
  BY ElementOfSeq
<1> QED BY <1>1, <1>2, <1>3, <1>4

LEMMA InitType == Init => TypeOK
<1> SUFFICES ASSUME Init PROVE TypeOK
  OBVIOUS
<1>1. pending \in [Queue -> Seq(Run)] /\ reservations \in Seq(Run)
  BY EmptySeq DEF Init
<1>2. worker \in [Worker -> WorkerState]
  <2>1. {"online", "offline"} \subseteq WorkerState
    BY DEF WorkerState
  <2> QED BY <2>1 DEF Init
<1>3. slots \in [Slot -> Nat] /\ placement \in [Run -> Place \cup {NoPlace}]
  BY DEF Init
<1>4. 0 \in 0 .. MaxHolds /\ 0 \in 0 .. MaxFaults
  BY BoundsType
<1> QED BY <1>1, <1>2, <1>3, <1>4 DEF Init, TypeOK

LEMMA StepType == TypeOK /\ [Next]_vars => TypeOK'
<1> SUFFICES ASSUME TypeOK, [Next]_vars PROVE TypeOK'
  OBVIOUS
<1> USE DEF passVars, slotVars, queueVars
<1>1. ASSUME NEW q \in Queue, Refuse(q) PROVE TypeOK'
  <2>1. Waiting(q) /\ FrontOf(q) \in Run
    BY <1>1, FrontType DEF Refuse, Asks
  <2>2. reservations \in Seq(Run)
    BY DEF TypeOK
  <2>3. Without(reservations, FrontOf(q)) \in Seq(Run)
    BY <2>2, WithoutIsSubsequence
  <2>4. Append(reservations, FrontOf(q)) \in Seq(Run)
    BY <2>1, <2>2, AppendProperties
  <2>5. reservations' \in Seq(Run)
    BY <1>1, <2>2, <2>3, <2>4 DEF Refuse
  <2> QED BY <1>1, <2>5 DEF TypeOK, Refuse
<1>2. ASSUME NEW q \in Queue, Start(q) PROVE TypeOK'
  <2>1. Waiting(q) /\ FrontOf(q) \in Run /\ pending[q] \in Seq(Run)
    BY <1>2, FrontType DEF Start, Asks
  <2>2. pending' \in [Queue -> Seq(Run)]
    BY <1>2, <2>1, TailProperties DEF TypeOK, Start, Waiting
  <2>3. reservations' \in Seq(Run)
    BY <1>2, WithoutIsSubsequence DEF TypeOK, Start
  <2>4. PICK p \in Placements(FrontOf(q)) :
           /\ placement' = [placement EXCEPT ![FrontOf(q)] = p]
           /\ slots' = [s \in Slot |-> IF s \in p.slots THEN slots[s] + 1 ELSE slots[s]]
    BY <1>2 DEF Start
  <2>5. placement' \in [Run -> Place \cup {NoPlace}]
    BY <2>1, <2>4, PlacementType DEF TypeOK
  <2>6. slots' \in [Slot -> Nat]
    BY <2>4 DEF TypeOK
  <2>7. released' \subseteq active' /\ active' \subseteq Run /\ older' \subseteq Run \X Run
    BY <1>2, <2>1 DEF TypeOK, Start, Forget
  <2> QED BY <1>2, <2>2, <2>3, <2>5, <2>6, <2>7 DEF TypeOK, Start
<1>3. ASSUME NEW q \in Queue, PlaceRaises(q) PROVE TypeOK'
  BY <1>3, BoundsType DEF TypeOK, PlaceRaises
<1>4. ASSUME NEW q \in Queue, StartRaises(q) PROVE TypeOK'
  <2>1. Waiting(q) /\ FrontOf(q) \in Run /\ pending[q] \in Seq(Run)
    BY <1>4, FrontType DEF StartRaises, Asks
  <2>2. PutBack(q) = pending[q]
    BY <2>1, TailProperties DEF PutBack, FrontOf, Waiting
  <2>3. reservations' \in Seq(Run)
    BY <1>4, WithoutIsSubsequence DEF TypeOK, StartRaises
  <2> QED BY <1>4, <2>1, <2>2, <2>3, BoundsType DEF TypeOK, StartRaises
<1>5. ASSUME NEW r \in Run, Submit(r) PROVE TypeOK'
  <2>1. QueueOf[r] \in Queue /\ Append(pending[QueueOf[r]], r) \in Seq(Run)
    BY QueueOfType, AppendProperties DEF TypeOK
  <2> QED BY <1>5, <2>1 DEF TypeOK, Submit
<1>6. ASSUME NEW r \in Run, Dequeue(r) PROVE TypeOK'
  <2>1. QueueOf[r] \in Queue /\ Without(pending[QueueOf[r]], r) \in Seq(Run)
    BY QueueOfType, WithoutIsSubsequence DEF TypeOK
  <2>2. Without(reservations, r) \in Seq(Run)
    BY WithoutIsSubsequence DEF TypeOK
  <2>3. requested' \in BOOLEAN
    BY <1>6 DEF TypeOK, Dequeue
  <2> QED BY <1>6, <2>1, <2>2, <2>3 DEF TypeOK, Dequeue, Forget
<1>7. ASSUME NEW r \in Run, Finalize(r) PROVE TypeOK'
  <2>1. slots' \in [Slot -> Nat] /\ requested' \in BOOLEAN /\ asking' \subseteq Queue
    BY <1>7, ReleaseType DEF Finalize
  <2> QED BY <1>7, <2>1 DEF TypeOK, Finalize
<1>8. ASSUME NEW r \in Run, Deregister(r) PROVE TypeOK'
  <2>1. slots' \in [Slot -> Nat] /\ requested' \in BOOLEAN /\ asking' \subseteq Queue
    BY <1>8, ReleaseType DEF Deregister
  <2> QED BY <1>8, <2>1 DEF TypeOK, Deregister
<1>9. CASE RunRequestedReschedule
  BY <1>9 DEF TypeOK, RunRequestedReschedule, Reschedule
<1>10. CASE HoldBegin
  BY <1>10, BoundsType DEF TypeOK, HoldBegin
<1>11. CASE HoldEnd
  <2>1. asking' \subseteq Queue /\ requested' \in BOOLEAN
    BY <1>11 DEF TypeOK, HoldEnd, Reschedule
  <2> QED BY <1>11, <2>1, BoundsType DEF TypeOK, HoldEnd
<1>12. ASSUME NEW w \in Worker, NEW state \in WorkerState, WorkerChanges(w, state)
       PROVE  TypeOK'
  BY <1>12 DEF TypeOK, WorkerChanges, Reschedule
<1>13. CASE BeginShutdown
  BY <1>13 DEF TypeOK, BeginShutdown
<1>14. CASE RetireQueue
  BY <1>14, EmptySeq DEF TypeOK, RetireQueue
<1>15. CASE UNCHANGED vars
  BY <1>15 DEF TypeOK, vars
<1> QED
  BY <1>1, <1>2, <1>3, <1>4, <1>5, <1>6, <1>7, <1>8, <1>9, <1>10, <1>11,
     <1>12, <1>13, <1>14, <1>15 DEF Next, Pass

\* Every variable keeps its type, whatever is submitted, cancelled, started,
\* released or shut down (RunService's queue, registry and slot counts).
THEOREM TypeCorrect == Spec => []TypeOK
  BY InitType, StepType, PTL DEF Spec

----------------------------------------------------------------------------
(* A run waits in one place of its own line, or is in the registry *)

\* The front of a line waits, in the line it was submitted to.
LEMMA FrontWaits ==
  ASSUME TypeOK, QueueOrRegistry, NEW q \in Queue, Waiting(q)
  PROVE  /\ FrontOf(q) \in pendingById /\ FrontOf(q) \notin active
         /\ QueueOf[FrontOf(q)] = q
         /\ IsFront(FrontOf(q))
<1>1. FrontOf(q) \in ToSet(pending[q])
  BY FrontType, TailProperties DEF FrontOf, Waiting
<1>2. FrontOf(q) \in pendingById /\ QueueOf[FrontOf(q)] = q
  BY <1>1 DEF QueueOrRegistry
<1> QED BY <1>2 DEF QueueOrRegistry, IsFront

LEMMA InitQueue == Init => QueueOrRegistry
<1> SUFFICES ASSUME Init PROVE QueueOrRegistry
  OBVIOUS
<1>1. \A q \in Queue : pending[q] = <<>>
  BY DEF Init
<1>2. IsInjective(<<>>) /\ ToSet(<<>>) = {}
  BY DEF IsInjective, ToSet
<1> QED BY <1>1, <1>2 DEF Init, QueueOrRegistry

LEMMA StepQueue == TypeOK /\ QueueOrRegistry /\ [Next]_vars => QueueOrRegistry'
<1> SUFFICES ASSUME TypeOK, QueueOrRegistry, [Next]_vars PROVE QueueOrRegistry'
  OBVIOUS
<1> USE DEF passVars, slotVars, queueVars
\* A step that leaves both indexes and only shrinks the registry.
<1>0. ASSUME UNCHANGED <<pending, pendingById>>, active' \subseteq active
      PROVE  QueueOrRegistry'
  BY <1>0 DEF QueueOrRegistry
<1>1. ASSUME NEW q \in Queue, Refuse(q) PROVE QueueOrRegistry'
  BY <1>0, <1>1 DEF Refuse
<1>2. ASSUME NEW q \in Queue, Start(q) PROVE QueueOrRegistry'
  <2> DEFINE r == FrontOf(q)
  <2>1. /\ pending[q] \in Seq(Run) /\ pending[q] # <<>> /\ r \in pendingById
        /\ QueueOf[r] = q /\ Head(pending[q]) = r
    BY <1>2, FrontType, FrontWaits DEF Start, Asks, Waiting, FrontOf
  <2> HIDE DEF r
  <2>2. /\ pending' = [pending EXCEPT ![q] = Tail(@)]
        /\ pendingById' = pendingById \ {r} /\ active' = active \cup {r}
    BY <1>2 DEF Start, r
  <2>3. IsInjective(Tail(pending[q])) /\ ToSet(Tail(pending[q])) = ToSet(pending[q]) \ {r}
    BY <2>1, TailInjective DEF QueueOrRegistry
  <2>4. pendingById' \cap active' = {}
    BY <2>2 DEF QueueOrRegistry
  <2>5. ASSUME NEW x \in Queue
        PROVE  /\ IsInjective(pending'[x])
               /\ ToSet(pending'[x]) = {y \in pendingById' : QueueOf[y] = x}
    <3>1. CASE x = q
      BY <3>1, <2>1, <2>2, <2>3 DEF QueueOrRegistry, TypeOK
    <3>2. CASE x # q
      BY <3>2, <2>1, <2>2 DEF QueueOrRegistry, TypeOK
    <3> QED BY <3>1, <3>2
  <2> QED BY <2>4, <2>5 DEF QueueOrRegistry
<1>3. ASSUME NEW q \in Queue, PlaceRaises(q) PROVE QueueOrRegistry'
  BY <1>0, <1>3 DEF PlaceRaises
<1>4. ASSUME NEW q \in Queue, StartRaises(q) PROVE QueueOrRegistry'
  <2>1. Waiting(q) /\ pending[q] \in Seq(Run)
    BY <1>4, FrontType DEF StartRaises, Asks
  <2>2. PutBack(q) = pending[q]
    BY <2>1, TailProperties DEF PutBack, FrontOf, Waiting
  <2>3. pending' = pending
    BY <1>4, <2>2 DEF StartRaises, TypeOK
  <2>4. pendingById' = pendingById /\ active' = active
    BY <1>4, <2>1, FrontWaits DEF StartRaises
  <2> QED BY <1>0, <2>3, <2>4
<1>5. ASSUME NEW r \in Run, Submit(r) PROVE QueueOrRegistry'
  <2> DEFINE q == QueueOf[r]
  <2>1. q \in Queue /\ pending[q] \in Seq(Run) /\ r \notin pendingById /\ r \notin active
    BY <1>5, QueueOfType DEF TypeOK, Submit
  <2>2. r \notin ToSet(pending[q])
    BY <2>1 DEF QueueOrRegistry
  <2>3. /\ IsInjective(Append(pending[q], r))
        /\ ToSet(Append(pending[q], r)) = ToSet(pending[q]) \cup {r}
    BY <2>1, <2>2, AppendShape DEF QueueOrRegistry
  <2>4. /\ pending' = [pending EXCEPT ![q] = Append(@, r)]
        /\ pendingById' = pendingById \cup {r} /\ active' = active
    BY <1>5 DEF Submit
  <2>5. ASSUME NEW x \in Queue
        PROVE  /\ IsInjective(pending'[x])
               /\ ToSet(pending'[x]) = {y \in pendingById' : QueueOf[y] = x}
    <3>1. CASE x = q
      BY <3>1, <2>1, <2>3, <2>4 DEF QueueOrRegistry, TypeOK
    <3>2. CASE x # q
      BY <3>2, <2>1, <2>4 DEF QueueOrRegistry, TypeOK
    <3> QED BY <3>1, <3>2
  <2>6. pendingById' \cap active' = {}
    BY <2>1, <2>4 DEF QueueOrRegistry
  <2> QED BY <2>5, <2>6 DEF QueueOrRegistry
<1>6. ASSUME NEW r \in Run, Dequeue(r) PROVE QueueOrRegistry'
  <2> DEFINE q == QueueOf[r]
  <2>1. q \in Queue /\ pending[q] \in Seq(Run)
    BY QueueOfType DEF TypeOK
  <2>2. /\ IsInjective(Without(pending[q], r))
        /\ ToSet(Without(pending[q], r)) = ToSet(pending[q]) \ {r}
    BY <2>1, WithoutInjective DEF QueueOrRegistry
  <2>3. /\ pending' = [pending EXCEPT ![q] = Without(@, r)]
        /\ pendingById' = pendingById \ {r} /\ active' = active
    BY <1>6 DEF Dequeue
  <2>4. ASSUME NEW x \in Queue
        PROVE  /\ IsInjective(pending'[x])
               /\ ToSet(pending'[x]) = {y \in pendingById' : QueueOf[y] = x}
    <3>1. CASE x = q
      BY <3>1, <2>1, <2>2, <2>3 DEF QueueOrRegistry, TypeOK
    <3>2. CASE x # q
      BY <3>2, <2>1, <2>3 DEF QueueOrRegistry, TypeOK
    <3> QED BY <3>1, <3>2
  <2>5. pendingById' \cap active' = {}
    BY <2>3 DEF QueueOrRegistry
  <2> QED BY <2>4, <2>5 DEF QueueOrRegistry
<1>7. ASSUME NEW r \in Run, Finalize(r) PROVE QueueOrRegistry'
  BY <1>0, <1>7 DEF Finalize
<1>8. ASSUME NEW r \in Run, Deregister(r) PROVE QueueOrRegistry'
  BY <1>0, <1>8 DEF Deregister
<1>9. CASE RunRequestedReschedule \/ HoldBegin \/ HoldEnd \/ BeginShutdown
  BY <1>0, <1>9 DEF RunRequestedReschedule, HoldBegin, HoldEnd, BeginShutdown
<1>10. ASSUME NEW w \in Worker, NEW state \in WorkerState, WorkerChanges(w, state)
       PROVE  QueueOrRegistry'
  BY <1>0, <1>10 DEF WorkerChanges
<1>11. CASE RetireQueue
  <2>1. IsInjective(<<>>) /\ ToSet(<<>>) = {}
    BY DEF IsInjective, ToSet
  <2> QED BY <1>11, <2>1 DEF RetireQueue, QueueOrRegistry
<1>12. CASE UNCHANGED vars
  BY <1>0, <1>12 DEF vars
<1> QED
  BY <1>1, <1>2, <1>3, <1>4, <1>5, <1>6, <1>7, <1>8, <1>9, <1>10, <1>11, <1>12
     DEF Next, Pass

\* "In the queue" and "in the registry" exclude each other and the queue's
\* two indexes agree, across promotion, cancel, a start that raised and the
\* shutdown (RunService.cancel's docstring).
THEOREM QueuesAgree == Spec => []QueueOrRegistry
<1>1. Init => TypeOK /\ QueueOrRegistry
  BY InitType, InitQueue
<1>2. TypeOK /\ QueueOrRegistry /\ [Next]_vars => (TypeOK /\ QueueOrRegistry)'
  BY StepType, StepQueue
<1> QED BY <1>1, <1>2, PTL DEF Spec

----------------------------------------------------------------------------
(* The count of a slot is the number of its holders *)

LEMMA HoldersFinite ==
  ASSUME TypeOK, NEW s \in Slot
  PROVE  IsFiniteSet(Holders(s)) /\ Cardinality(Holders(s)) \in Nat
<1>1. Holders(s) \subseteq Run
  BY DEF Holders, TypeOK
<1> QED BY <1>1, RunsAreFinite, FS_Subset, FS_CardinalityType

\* Releasing r, once, takes it off every slot it held and off no other.
LEMMA ReleaseSlots ==
  ASSUME TypeOK, SlotsAreHeld, NEW r \in active, ReleaseAdmission(r), NEW s \in Slot
  PROVE  slots'[s] = Cardinality(Holders(s) \ {r})
<1>1. IsFiniteSet(Holders(s)) /\ Cardinality(Holders(s)) \in Nat
  BY HoldersFinite
<1>2. slots[s] = Cardinality(Holders(s))
  BY DEF SlotsAreHeld
<1>3. Cardinality(Holders(s) \ {r}) =
        IF r \in Holders(s) THEN Cardinality(Holders(s)) - 1 ELSE Cardinality(Holders(s))
  BY <1>1, FS_RemoveElement
<1>4. r \in Holders(s) => Cardinality(Holders(s)) > 0
  BY <1>1, FS_EmptySet
<1>5. CASE r \in released
  <2>1. r \notin Holders(s)
    BY <1>5 DEF Holders
  <2>2. slots' = slots
    BY <1>5 DEF ReleaseAdmission
  <2> QED BY <2>1, <2>2, <1>2, <1>3
<1>6. CASE r \notin released
  <2>1. r \in Holders(s) <=> s \in placement[r].slots
    BY <1>6 DEF Holders
  <2>2. slots'[s] = IF s \in placement[r].slots /\ slots[s] > 0
                    THEN slots[s] - 1 ELSE slots[s]
    BY <1>6 DEF ReleaseAdmission
  <2>3. CASE r \in Holders(s)
    BY <2>1, <2>2, <2>3, <1>2, <1>3, <1>4
  <2>4. CASE r \notin Holders(s)
    BY <2>1, <2>2, <2>4, <1>2, <1>3
  <2> QED BY <2>3, <2>4
<1> QED BY <1>5, <1>6

LEMMA InitSlots == Init => SlotsAreHeld
<1> SUFFICES ASSUME Init, NEW s \in Slot PROVE slots[s] = Cardinality(Holders(s))
  BY DEF SlotsAreHeld
<1>1. Holders(s) = {}
  BY DEF Init, Holders
<1> QED BY <1>1, FS_EmptySet DEF Init

LEMMA StepSlots ==
  TypeOK /\ QueueOrRegistry /\ SlotsAreHeld /\ [Next]_vars => SlotsAreHeld'
<1> SUFFICES ASSUME TypeOK, QueueOrRegistry, SlotsAreHeld, [Next]_vars
             PROVE  SlotsAreHeld'
  OBVIOUS
<1> USE DEF passVars, slotVars, queueVars
<1>0. ASSUME UNCHANGED slotVars PROVE SlotsAreHeld'
  BY <1>0 DEF SlotsAreHeld, Holders
<1>1. ASSUME NEW q \in Queue, Refuse(q) \/ PlaceRaises(q) \/ StartRaises(q)
      PROVE  SlotsAreHeld'
  BY <1>0, <1>1 DEF Refuse, PlaceRaises, StartRaises
<1>2. ASSUME NEW q \in Queue, Start(q) PROVE SlotsAreHeld'
  <2> DEFINE r == FrontOf(q)
  <2>1. r \in Run /\ r \notin active
    BY <1>2, FrontType, FrontWaits DEF Start, Asks
  <2> HIDE DEF r
  <2>2. PICK p \in Placements(r) :
           /\ placement' = [placement EXCEPT ![r] = p]
           /\ slots' = [s \in Slot |-> IF s \in p.slots THEN slots[s] + 1 ELSE slots[s]]
    BY <1>2 DEF Start, r
  <2>3. active' = active \cup {r} /\ released' = released \ {r}
    BY <1>2 DEF Start, r
  <2> SUFFICES ASSUME NEW s \in Slot PROVE slots'[s] = Cardinality(Holders(s)')
    BY DEF SlotsAreHeld
  <2>4. Holders(s)' = IF s \in p.slots THEN Holders(s) \cup {r} ELSE Holders(s)
    <3>1. \A x \in active \ released : placement'[x] = placement[x] /\ x # r
      BY <2>1, <2>2 DEF TypeOK
    <3>2. placement'[r] = p
      BY <2>1, <2>2 DEF TypeOK
    <3>3. active' \ released' = (active \ released) \cup {r}
      BY <2>1, <2>3 DEF TypeOK
    <3> QED BY <3>1, <3>2, <3>3 DEF Holders
  <2>5. r \notin Holders(s)
    BY <2>1 DEF Holders
  <2>6. IsFiniteSet(Holders(s)) /\ slots[s] = Cardinality(Holders(s))
    BY HoldersFinite DEF SlotsAreHeld
  <2>7. Cardinality(Holders(s) \cup {r}) = Cardinality(Holders(s)) + 1
    BY <2>5, <2>6, FS_AddElement
  <2> QED BY <2>2, <2>4, <2>6, <2>7
<1>3. ASSUME NEW r \in Run, Submit(r) \/ Dequeue(r) PROVE SlotsAreHeld'
  BY <1>0, <1>3 DEF Submit, Dequeue
<1>4. ASSUME NEW r \in Run, Finalize(r) PROVE SlotsAreHeld'
  <2> SUFFICES ASSUME NEW s \in Slot PROVE slots'[s] = Cardinality(Holders(s)')
    BY DEF SlotsAreHeld
  <2>1. slots'[s] = Cardinality(Holders(s) \ {r})
    BY <1>4, ReleaseSlots DEF Finalize
  <2>2. Holders(s)' = Holders(s) \ {r}
    BY <1>4 DEF Finalize, Holders
  <2> QED BY <2>1, <2>2
<1>5. ASSUME NEW r \in Run, Deregister(r) PROVE SlotsAreHeld'
  <2> SUFFICES ASSUME NEW s \in Slot PROVE slots'[s] = Cardinality(Holders(s)')
    BY DEF SlotsAreHeld
  <2>1. slots'[s] = Cardinality(Holders(s) \ {r})
    BY <1>5, ReleaseSlots DEF Deregister
  <2>2. Holders(s)' = Holders(s) \ {r}
    <3>1. active' = active \ {r} /\ released' = released \ {r}
      BY <1>5 DEF Deregister
    <3>2. \A x \in active \ {r} : placement'[x] = placement[x]
      BY <1>5 DEF Deregister, TypeOK
    <3> QED BY <3>1, <3>2 DEF Holders
  <2> QED BY <2>1, <2>2
<1>6. CASE RunRequestedReschedule \/ HoldBegin \/ HoldEnd \/ BeginShutdown \/ RetireQueue
  BY <1>0, <1>6 DEF RunRequestedReschedule, HoldBegin, HoldEnd, BeginShutdown, RetireQueue
<1>7. ASSUME NEW w \in Worker, NEW state \in WorkerState, WorkerChanges(w, state)
      PROVE  SlotsAreHeld'
  BY <1>0, <1>7 DEF WorkerChanges
<1>8. CASE UNCHANGED vars
  BY <1>0, <1>8 DEF vars
<1> QED
  BY <1>1, <1>2, <1>3, <1>4, <1>5, <1>6, <1>7, <1>8 DEF Next, Pass

\* Slot accounting never drifts: whatever order _finalize() and the finally
\* of _drive() release a run in, and if only the latter does, the count of a
\* slot is the number of started, unreleased runs placed on it.
THEOREM SlotsNeverDrift == Spec => []SlotsAreHeld
<1>1. Init => TypeOK /\ QueueOrRegistry /\ SlotsAreHeld
  BY InitType, InitQueue, InitSlots
<1>2. TypeOK /\ QueueOrRegistry /\ SlotsAreHeld /\ [Next]_vars
        => (TypeOK /\ QueueOrRegistry /\ SlotsAreHeld)'
  BY StepType, StepQueue, StepSlots
<1> QED BY <1>1, <1>2, PTL DEF Spec

----------------------------------------------------------------------------
(* Nothing starts during the shutdown *)

NoPassAtShutdown == stopping => asking = {}

LEMMA StepShutdown == NoPassAtShutdown /\ [Next]_vars => NoPassAtShutdown'
<1> SUFFICES ASSUME NoPassAtShutdown, [Next]_vars PROVE NoPassAtShutdown'
  OBVIOUS
<1> USE DEF NoPassAtShutdown, passVars
<1>1. ASSUME NEW q \in Queue, Refuse(q) \/ Start(q) \/ PlaceRaises(q) \/ StartRaises(q)
      PROVE  NoPassAtShutdown'
  BY <1>1 DEF Refuse, Start, PlaceRaises, StartRaises, Asks
<1>2. ASSUME NEW r \in Run, Submit(r) \/ Dequeue(r) PROVE NoPassAtShutdown'
  BY <1>2 DEF Submit, Dequeue
<1>3. ASSUME NEW r \in Run, Finalize(r) \/ Deregister(r) PROVE NoPassAtShutdown'
  BY <1>3 DEF Finalize, Deregister, ReleaseAdmission, Reschedule
<1>4. CASE RunRequestedReschedule \/ HoldBegin \/ HoldEnd \/ BeginShutdown \/ RetireQueue
  BY <1>4 DEF RunRequestedReschedule, HoldBegin, HoldEnd, BeginShutdown, RetireQueue,
              Reschedule
<1>5. ASSUME NEW w \in Worker, NEW state \in WorkerState, WorkerChanges(w, state)
      PROVE  NoPassAtShutdown'
  BY <1>5 DEF WorkerChanges, Reschedule
<1>6. CASE UNCHANGED vars
  BY <1>6 DEF vars
<1> QED BY <1>1, <1>2, <1>3, <1>4, <1>5, <1>6 DEF Next, Pass

\* Only a pass starts a run.
LEMMA OnlyStartStarts ==
  ASSUME [Next]_vars, NEW r \in active' \ active
  PROVE  \E q \in Queue : Start(q) /\ r = FrontOf(q)
<1> USE DEF slotVars
<1>1. \A q \in Queue : Refuse(q) \/ PlaceRaises(q) \/ StartRaises(q) => active' = active
  BY DEF Refuse, PlaceRaises, StartRaises
<1>2. \A x \in Run : Submit(x) \/ Dequeue(x) \/ Finalize(x) => active' = active
  BY DEF Submit, Dequeue, Finalize
<1>3. \A x \in Run : Deregister(x) => active' \subseteq active
  BY DEF Deregister
<1>4. RunRequestedReschedule \/ HoldBegin \/ HoldEnd \/ BeginShutdown \/ RetireQueue
        => active' = active
  BY DEF RunRequestedReschedule, HoldBegin, HoldEnd, BeginShutdown, RetireQueue
<1>5. \A w \in Worker, state \in WorkerState : WorkerChanges(w, state) => active' = active
  BY DEF WorkerChanges
<1>6. UNCHANGED vars => active' = active
  BY DEF vars
<1>7. \E q \in Queue : Start(q)
  BY <1>1, <1>2, <1>3, <1>4, <1>5, <1>6 DEF Next, Pass
<1> QED BY <1>7 DEF Start

\* From the first statement of shutdown() on, no run is promoted: neither by
\* a release, nor by a worker's change, nor by a deferred reschedule.
THEOREM ShutdownStartsNothing == Spec => NothingStartsAtShutdown
<1>1. Init => NoPassAtShutdown
  BY DEF Init, NoPassAtShutdown
<1>2. NoPassAtShutdown /\ [Next]_vars => [stopping => active' \subseteq active]_vars
  <2> SUFFICES ASSUME NoPassAtShutdown, [Next]_vars, stopping, NEW r \in active' \ active
               PROVE  FALSE
    OBVIOUS
  <2>1. PICK q \in Queue : Start(q)
    BY OnlyStartStarts
  <2> QED BY <2>1 DEF NoPassAtShutdown, Start, Asks
<1> QED BY <1>1, <1>2, StepShutdown, PTL DEF Spec, NothingStartsAtShutdown

----------------------------------------------------------------------------
(* Reservations *)

LEMMA InitReserved == Init => ReservedRunsAreFronts
  BY DEF Init, ReservedRunsAreFronts, IsInjective, ToSet

LEMMA StepReserved ==
  TypeOK /\ QueueOrRegistry /\ ReservedRunsAreFronts /\ [Next]_vars
    => ReservedRunsAreFronts'
<1> SUFFICES ASSUME TypeOK, QueueOrRegistry, ReservedRunsAreFronts, [Next]_vars
             PROVE  ReservedRunsAreFronts'
  OBVIOUS
<1> USE DEF passVars, slotVars, queueVars
<1>0. ASSUME UNCHANGED <<pending, pendingById, reservations>>
      PROVE  ReservedRunsAreFronts'
  BY <1>0 DEF ReservedRunsAreFronts, IsFront, Waiting, FrontOf
\* What a reservation dropped for y leaves.
<1>a. ASSUME NEW y
      PROVE  /\ IsInjective(Without(reservations, y))
             /\ ToSet(Without(reservations, y)) = ToSet(reservations) \ {y}
  BY WithoutInjective DEF ReservedRunsAreFronts, TypeOK
<1>1. ASSUME NEW q \in Queue, Refuse(q) PROVE ReservedRunsAreFronts'
  <2> DEFINE r == FrontOf(q)
  <2>1. r \in pendingById /\ IsFront(r) /\ r \in Run
    BY <1>1, FrontType, FrontWaits DEF Refuse, Asks
  <2> HIDE DEF r
  <2>2. pending' = pending /\ pendingById' = pendingById
    BY <1>1 DEF Refuse
  <2>3. reservations' = IF ~Reserves(r) THEN Without(reservations, r)
                        ELSE IF r \in ToSet(reservations) THEN reservations
                        ELSE Append(reservations, r)
    BY <1>1 DEF Refuse, r
  <2>4. r \notin ToSet(reservations) =>
          /\ IsInjective(Append(reservations, r))
          /\ ToSet(Append(reservations, r)) = ToSet(reservations) \cup {r}
    BY <2>1, AppendShape DEF ReservedRunsAreFronts, TypeOK
  <2>5. /\ IsInjective(reservations')
        /\ ToSet(reservations') \subseteq ToSet(reservations) \cup {r}
    BY <2>3, <2>4, <1>a DEF ReservedRunsAreFronts
  <2>6. \A x \in ToSet(reservations') : x \in pendingById /\ IsFront(x)
    BY <2>1, <2>5 DEF ReservedRunsAreFronts
  <2> QED BY <2>2, <2>5, <2>6 DEF ReservedRunsAreFronts, IsFront, Waiting, FrontOf
<1>2. ASSUME NEW q \in Queue, Start(q) PROVE ReservedRunsAreFronts'
  <2> DEFINE r == FrontOf(q)
  <2>1. r = FrontOf(q) /\ QueueOf[r] = q
    BY <1>2, FrontWaits DEF Start, Asks
  <2> HIDE DEF r
  <2>2. /\ pending' = [pending EXCEPT ![q] = Tail(@)]
        /\ pendingById' = pendingById \ {r}
        /\ reservations' = Without(reservations, r)
    BY <1>2 DEF Start, r
  <2>3. ASSUME NEW x \in ToSet(reservations')
        PROVE  x \in pendingById' /\ IsFront(x)'
    <3>1. x \in ToSet(reservations) /\ x # r
      BY <1>a, <2>2
    <3>2. x \in pendingById /\ IsFront(x)
      BY <3>1 DEF ReservedRunsAreFronts
    <3>3. QueueOf[x] # q
      BY <2>1, <3>1, <3>2 DEF IsFront
    <3>4. pending'[QueueOf[x]] = pending[QueueOf[x]]
      <4>1. QueueOf[x] \in Queue
        BY <3>2, QueueOfType DEF TypeOK
      <4> QED BY <2>2, <3>3, <4>1 DEF TypeOK
    <3> QED BY <2>2, <3>1, <3>2, <3>4 DEF IsFront, Waiting, FrontOf
  <2> QED BY <1>a, <2>2, <2>3 DEF ReservedRunsAreFronts
<1>3. ASSUME NEW q \in Queue, PlaceRaises(q) PROVE ReservedRunsAreFronts'
  BY <1>0, <1>3 DEF PlaceRaises
<1>4. ASSUME NEW q \in Queue, StartRaises(q) PROVE ReservedRunsAreFronts'
  <2>1. Waiting(q) /\ pending[q] \in Seq(Run)
    BY <1>4, FrontType DEF StartRaises, Asks
  <2>2. PutBack(q) = pending[q]
    BY <2>1, TailProperties DEF PutBack, FrontOf, Waiting
  <2>3. pending' = pending /\ pendingById' = pendingById
    BY <1>4, <2>1, <2>2, FrontWaits DEF StartRaises, TypeOK
  <2>4. reservations' = Without(reservations, FrontOf(q))
    BY <1>4 DEF StartRaises
  <2> QED BY <1>a, <2>3, <2>4 DEF ReservedRunsAreFronts, IsFront, Waiting, FrontOf
<1>5. ASSUME NEW r \in Run, Submit(r) PROVE ReservedRunsAreFronts'
  <2>1. /\ pending' = [pending EXCEPT ![QueueOf[r]] = Append(@, r)]
        /\ pendingById' = pendingById \cup {r} /\ reservations' = reservations
    BY <1>5 DEF Submit
  <2>2. ASSUME NEW x \in ToSet(reservations) PROVE x \in pendingById' /\ IsFront(x)'
    <3>1. x \in pendingById /\ IsFront(x) /\ QueueOf[x] \in Queue
      BY QueueOfType DEF ReservedRunsAreFronts, TypeOK
    <3>2. pending[QueueOf[x]] \in Seq(Run) /\ pending[QueueOf[x]] # <<>>
      BY <3>1 DEF TypeOK, IsFront, Waiting
    <3>3. /\ Append(pending[QueueOf[x]], r) # <<>>
          /\ Head(Append(pending[QueueOf[x]], r)) = Head(pending[QueueOf[x]])
      BY <3>2, AppendShape
    <3>4. pending'[QueueOf[x]] = IF QueueOf[x] = QueueOf[r]
                                 THEN Append(pending[QueueOf[x]], r)
                                 ELSE pending[QueueOf[x]]
      BY <2>1, <3>1 DEF TypeOK
    <3> QED BY <2>1, <3>1, <3>2, <3>3, <3>4 DEF IsFront, Waiting, FrontOf
  <2> QED BY <2>1, <2>2 DEF ReservedRunsAreFronts
<1>6. ASSUME NEW r \in Run, Dequeue(r) PROVE ReservedRunsAreFronts'
  <2>1. /\ pending' = [pending EXCEPT ![QueueOf[r]] = Without(@, r)]
        /\ pendingById' = pendingById \ {r}
        /\ reservations' = Without(reservations, r)
    BY <1>6 DEF Dequeue
  <2>2. ASSUME NEW x \in ToSet(reservations')
        PROVE  x \in pendingById' /\ IsFront(x)'
    <3>1. x \in ToSet(reservations) /\ x # r
      BY <1>a, <2>1
    <3>2. x \in pendingById /\ IsFront(x) /\ QueueOf[x] \in Queue
      BY <3>1, QueueOfType DEF ReservedRunsAreFronts, TypeOK
    <3> DEFINE line == pending[QueueOf[x]]
    <3>3. line \in Seq(Run) /\ line # <<>> /\ Head(line) = x /\ IsInjective(line)
      BY <3>2 DEF TypeOK, IsFront, Waiting, FrontOf, QueueOrRegistry
    <3>4. Without(line, r) # <<>> /\ Head(Without(line, r)) = x
      BY <3>1, <3>3, WithoutInjective
    <3>5. pending'[QueueOf[x]] = IF QueueOf[x] = QueueOf[r]
                                 THEN Without(line, r) ELSE line
      BY <2>1, <3>2 DEF TypeOK
    <3> HIDE DEF line
    <3> QED BY <2>1, <3>1, <3>2, <3>3, <3>4, <3>5 DEF IsFront, Waiting, FrontOf
  <2> QED BY <1>a, <2>1, <2>2 DEF ReservedRunsAreFronts
<1>7. ASSUME NEW r \in Run, Finalize(r) \/ Deregister(r) PROVE ReservedRunsAreFronts'
  BY <1>0, <1>7 DEF Finalize, Deregister
<1>8. CASE RunRequestedReschedule \/ HoldBegin \/ HoldEnd \/ BeginShutdown
  BY <1>0, <1>8 DEF RunRequestedReschedule, HoldBegin, HoldEnd, BeginShutdown
<1>9. ASSUME NEW w \in Worker, NEW state \in WorkerState, WorkerChanges(w, state)
      PROVE  ReservedRunsAreFronts'
  BY <1>0, <1>9 DEF WorkerChanges
<1>10. CASE RetireQueue
  BY <1>10 DEF RetireQueue, ReservedRunsAreFronts, IsInjective, ToSet
<1>11. CASE UNCHANGED vars
  BY <1>0, <1>11 DEF vars
<1> QED
  BY <1>1, <1>2, <1>3, <1>4, <1>5, <1>6, <1>7, <1>8, <1>9, <1>10, <1>11
     DEF Next, Pass

\* No card is held idle for a run that started, was cancelled, was retired
\* or stands behind another: every reservation is a waiting front's.
THEOREM ReservationsAreFronts == Spec => []ReservedRunsAreFronts
<1>1. Init => TypeOK /\ QueueOrRegistry /\ ReservedRunsAreFronts
  BY InitType, InitQueue, InitReserved
<1>2. TypeOK /\ QueueOrRegistry /\ ReservedRunsAreFronts /\ [Next]_vars
        => (TypeOK /\ QueueOrRegistry /\ ReservedRunsAreFronts)'
  BY StepType, StepQueue, StepReserved
<1> QED BY <1>1, <1>2, PTL DEF Spec

----------------------------------------------------------------------------
(* Strict FIFO *)

\* Only waiting runs have an age, and every line is in submit order: nobody
\* in it is older than a run at or before his place.
LinesAreInOrder ==
  /\ older \subseteq pendingById \X pendingById
  /\ \A q \in Queue : \A i, j \in DOMAIN pending[q] :
       i <= j => <<pending[q][j], pending[q][i]>> \notin older

LEMMA StepOrder ==
  TypeOK /\ QueueOrRegistry /\ LinesAreInOrder /\ [Next]_vars => LinesAreInOrder'
<1> SUFFICES ASSUME TypeOK, QueueOrRegistry, LinesAreInOrder, [Next]_vars
             PROVE  LinesAreInOrder'
  OBVIOUS
<1> USE DEF passVars, slotVars, queueVars
<1>0. ASSUME UNCHANGED <<pending, pendingById, older>> PROVE LinesAreInOrder'
  BY <1>0 DEF LinesAreInOrder
\* Taking y out of one line, the rest of it being a subsequence.
<1>a. ASSUME NEW y, NEW q \in Queue,
             \A i, j \in DOMAIN pending'[q] : i <= j =>
               \E m, n \in DOMAIN pending[q] :
                 m <= n /\ pending[q][m] = pending'[q][i] /\ pending[q][n] = pending'[q][j],
             \A x \in Queue \ {q} : pending'[x] = pending[x],
             pendingById' = pendingById \ {y}, older' = Forget(y)
      PROVE  LinesAreInOrder'
  <2>1. older' \subseteq pendingById' \X pendingById' /\ older' \subseteq older
    BY <1>a DEF LinesAreInOrder, Forget
  <2>2. ASSUME NEW x \in Queue, NEW i \in DOMAIN pending'[x], NEW j \in DOMAIN pending'[x],
               i <= j
        PROVE  <<pending'[x][j], pending'[x][i]>> \notin older
    <3>1. CASE x = q
      <4>1. PICK m \in DOMAIN pending[q], n \in DOMAIN pending[q] :
               m <= n /\ pending[q][m] = pending'[q][i] /\ pending[q][n] = pending'[q][j]
        BY <1>a, <2>2, <3>1
      <4> QED BY <3>1, <4>1 DEF LinesAreInOrder
    <3>2. CASE x # q
      <4>1. pending'[x] = pending[x]
        BY <1>a, <3>2 DEF TypeOK
      <4> QED BY <2>2, <4>1 DEF LinesAreInOrder
    <3> QED BY <3>1, <3>2
  <2> QED BY <2>1, <2>2 DEF LinesAreInOrder
<1>1. ASSUME NEW q \in Queue, Start(q) PROVE LinesAreInOrder'
  <2>1. pending[q] \in Seq(Run) /\ pending[q] # <<>>
    BY <1>1, FrontType DEF Start, Asks, Waiting
  <2>2. \A i, j \in DOMAIN Tail(pending[q]) : i <= j =>
          \E m, n \in DOMAIN pending[q] :
            m <= n /\ pending[q][m] = Tail(pending[q])[i] /\ pending[q][n] = Tail(pending[q])[j]
    <3> TAKE i, j \in DOMAIN Tail(pending[q])
    <3> HAVE i <= j
    <3>1. /\ i + 1 \in DOMAIN pending[q] /\ Tail(pending[q])[i] = pending[q][i + 1]
          /\ j + 1 \in DOMAIN pending[q] /\ Tail(pending[q])[j] = pending[q][j + 1]
          /\ Tail(pending[q]) \in Seq(Run)
      BY <2>1, TailProperties
    <3>2. i + 1 <= j + 1
      BY <3>1, LenProperties
    <3> QED BY <3>1, <3>2
  <2>3. /\ pending' = [pending EXCEPT ![q] = Tail(pending[q])]
        /\ pendingById' = pendingById \ {FrontOf(q)} /\ older' = Forget(FrontOf(q))
    BY <1>1 DEF Start
  <2> DEFINE rest == Tail(pending[q])
             y == FrontOf(q)
  <2>4. \A i, j \in DOMAIN rest : i <= j =>
          \E m, n \in DOMAIN pending[q] :
            m <= n /\ pending[q][m] = rest[i] /\ pending[q][n] = rest[j]
    BY <2>2
  <2>5. /\ pending' = [pending EXCEPT ![q] = rest]
        /\ pendingById' = pendingById \ {y} /\ older' = Forget(y)
    BY <2>3
  <2> HIDE DEF rest, y
  <2>6. pending'[q] = rest /\ \A x \in Queue \ {q} : pending'[x] = pending[x]
    BY <2>5 DEF TypeOK
  <2> QED BY <1>a, <2>4, <2>5, <2>6
<1>2. ASSUME NEW q \in Queue, StartRaises(q) PROVE LinesAreInOrder'
  <2>1. Waiting(q) /\ pending[q] \in Seq(Run)
    BY <1>2, FrontType DEF StartRaises, Asks
  <2>2. PutBack(q) = pending[q]
    BY <2>1, TailProperties DEF PutBack, FrontOf, Waiting
  <2> QED BY <1>0, <1>2, <2>1, <2>2, FrontWaits DEF StartRaises, TypeOK
<1>3. ASSUME NEW q \in Queue, Refuse(q) \/ PlaceRaises(q) PROVE LinesAreInOrder'
  BY <1>0, <1>3 DEF Refuse, PlaceRaises
<1>4. ASSUME NEW r \in Run, Submit(r) PROVE LinesAreInOrder'
  <2> DEFINE q == QueueOf[r]
             line == Append(pending[q], r)
  <2>1. q \in Queue /\ pending[q] \in Seq(Run) /\ r \notin pendingById
    BY <1>4, QueueOfType DEF TypeOK, Submit
  <2>2. /\ pending' = [pending EXCEPT ![q] = line]
        /\ pendingById' = pendingById \cup {r}
        /\ older' = older \cup {<<x, r>> : x \in pendingById}
    BY <1>4 DEF Submit
  <2>3. older' \subseteq pendingById' \X pendingById'
    BY <2>2 DEF LinesAreInOrder
  <2>4. \A x \in Queue : \A i \in DOMAIN pending[x] : pending[x][i] # r
    BY <2>1 DEF QueueOrRegistry, ToSet
  <2>5. \A y : <<r, y>> \notin older'
    BY <2>1, <2>2 DEF LinesAreInOrder
  <2>6. \A i \in DOMAIN line : \/ i \in DOMAIN pending[q] /\ i <= Len(pending[q]) /\ line[i] = pending[q][i]
                               \/ i = Len(pending[q]) + 1 /\ line[i] = r
    BY <2>1, AppendShape
  <2>7. Len(pending[q]) \in Nat /\ DOMAIN pending[q] = 1 .. Len(pending[q])
    BY <2>1, LenProperties
  <2> HIDE DEF line
  <2>8. ASSUME NEW x \in Queue, NEW i \in DOMAIN pending'[x], NEW j \in DOMAIN pending'[x],
               i <= j
        PROVE  <<pending'[x][j], pending'[x][i]>> \notin older'
    <3>1. CASE x = q
      <4>1. pending'[x] = line
        BY <2>1, <2>2, <3>1 DEF TypeOK
      <4>2. CASE j = Len(pending[q]) + 1 /\ line[j] = r
        BY <2>5, <4>1, <4>2
      <4>3. CASE j \in DOMAIN pending[q] /\ j <= Len(pending[q]) /\ line[j] = pending[q][j]
        <5>1. i \in DOMAIN pending[q] /\ line[i] = pending[q][i]
          BY <2>6, <2>7, <2>8, <4>1, <4>3
        <5>2. <<pending[q][j], pending[q][i]>> \notin older
          BY <2>1, <2>8, <4>3, <5>1 DEF LinesAreInOrder
        <5>3. pending[q][i] # r
          BY <2>1, <2>4, <5>1
        <5> QED BY <2>2, <4>1, <4>3, <5>1, <5>2, <5>3
      <4> QED BY <2>6, <4>1, <4>2, <4>3
    <3>2. CASE x # q
      <4>1. pending'[x] = pending[x]
        BY <2>2, <3>2 DEF TypeOK
      <4>2. pending[x][i] # r /\ <<pending[x][j], pending[x][i]>> \notin older
        BY <2>4, <2>8, <4>1 DEF LinesAreInOrder
      <4> QED BY <2>2, <4>1, <4>2
    <3> QED BY <3>1, <3>2
  <2> QED BY <2>3, <2>8 DEF LinesAreInOrder
<1>5. ASSUME NEW r \in Run, Dequeue(r) PROVE LinesAreInOrder'
  <2> DEFINE q == QueueOf[r]
  <2>1. q \in Queue /\ pending[q] \in Seq(Run)
    BY QueueOfType DEF TypeOK
  <2> DEFINE line == pending[q]
             rest == Without(line, r)
  <2>a. ASSUME NEW s \in Seq(Run)
        PROVE  \A i, j \in DOMAIN Without(s, r) : i <= j =>
                 \E m, n \in DOMAIN s :
                   m <= n /\ s[m] = Without(s, r)[i] /\ s[n] = Without(s, r)[j]
    BY WithoutIsSubsequence
  <2>2. \A i, j \in DOMAIN rest : i <= j =>
          \E m, n \in DOMAIN line : m <= n /\ line[m] = rest[i] /\ line[n] = rest[j]
    <3> HIDE DEF line
    <3>1. line \in Seq(Run)
      BY <2>1 DEF line
    <3> QED BY <2>a, <3>1
  <2>3. /\ pending' = [pending EXCEPT ![q] = rest]
        /\ pendingById' = pendingById \ {r} /\ older' = Forget(r)
    BY <1>5 DEF Dequeue
  <2> HIDE DEF rest
  <2>4. pending'[q] = rest /\ \A x \in Queue \ {q} : pending'[x] = pending[x]
    BY <2>1, <2>3 DEF TypeOK
  <2> QED BY <1>a, <2>1, <2>2, <2>3, <2>4
<1>6. ASSUME NEW r \in Run, Finalize(r) \/ Deregister(r) PROVE LinesAreInOrder'
  BY <1>0, <1>6 DEF Finalize, Deregister
<1>7. CASE RunRequestedReschedule \/ HoldBegin \/ HoldEnd \/ BeginShutdown
  BY <1>0, <1>7 DEF RunRequestedReschedule, HoldBegin, HoldEnd, BeginShutdown
<1>8. ASSUME NEW w \in Worker, NEW state \in WorkerState, WorkerChanges(w, state)
      PROVE  LinesAreInOrder'
  BY <1>0, <1>8 DEF WorkerChanges
<1>9. CASE RetireQueue
  BY <1>9 DEF RetireQueue, LinesAreInOrder
<1>10. CASE UNCHANGED vars
  BY <1>0, <1>10 DEF vars
<1> QED
  BY <1>1, <1>2, <1>3, <1>4, <1>5, <1>6, <1>7, <1>8, <1>9, <1>10 DEF Next, Pass

\* Strict FIFO per queue: no run starts while one submitted before it waits
\* in the same line (_pump asks the front only; a start that raised puts its
\* run back in front).
THEOREM StrictFifo == Spec => NothingOvertakes
<1> DEFINE Fifo == \A r \in active' \ active : \A x \in pendingById :
                     QueueOf[x] = QueueOf[r] => <<x, r>> \notin older
           Inv == TypeOK /\ QueueOrRegistry /\ LinesAreInOrder
<1>1. Init => Inv
  BY InitType, InitQueue DEF Init, LinesAreInOrder
<1>2. Inv /\ [Next]_vars => Inv'
  BY StepType, StepQueue, StepOrder
<1>3. Inv /\ [Next]_vars => [Fifo]_vars
  <2> SUFFICES ASSUME Inv, [Next]_vars, NEW r \in active' \ active,
                      NEW x \in pendingById, QueueOf[x] = QueueOf[r]
               PROVE  <<x, r>> \notin older
    OBVIOUS
  <2>1. PICK q \in Queue : Start(q) /\ r = FrontOf(q)
    BY OnlyStartStarts
  <2>2. Waiting(q) /\ QueueOf[r] = q /\ pending[q] \in Seq(Run)
    BY <2>1, FrontWaits, FrontType DEF Start, Asks
  <2>3. r = pending[q][1] /\ DOMAIN pending[q] = 1 .. Len(pending[q]) /\ 1 \in DOMAIN pending[q]
    BY <2>1, <2>2, TailProperties DEF FrontOf, Waiting
  <2>4. x \in ToSet(pending[q])
    BY <2>2 DEF QueueOrRegistry
  <2>5. PICK j \in DOMAIN pending[q] : pending[q][j] = x
    BY <2>4 DEF ToSet
  <2>6. 1 <= j
    BY <2>3, <2>5
  <2> QED BY <2>3, <2>5, <2>6 DEF LinesAreInOrder
<1> HIDE DEF Inv
<1> QED BY <1>1, <1>2, <1>3, PTL DEF Spec, NothingOvertakes

----------------------------------------------------------------------------
(* Counting over finite sets.  What the sum of a set says is by induction   *)
(* over its subsets: were it wrong for one, it would be wrong for a         *)
(* smallest one.                                                            *)

LEMMA FiniteImage ==
  ASSUME NEW S, IsFiniteSet(S), NEW f
  PROVE  IsFiniteSet({f[x] : x \in S})
<1> DEFINE T == {f[x] : x \in S}
           g == [x \in S |-> f[x]]
<1>1. g \in Surjection(S, T)
  BY DEF Surjection
<1> HIDE DEF g, T
<1>2. IsFiniteSet(T)
  BY <1>1, FS_Surjection
<1> QED BY <1>2 DEF T

\* One of a set.
One(T) == CHOOSE x \in T : TRUE

SumEquation(g, f, S) ==
  g = [T \in SUBSET S |-> IF T = {} THEN 0 ELSE f[One(T)] + g[T \ {One(T)}]]

\* The equation has a solution: as many things as the sum says.
Units(f, T) == UNION {{k} \X (1 .. f[k]) : k \in T}

LEMMA UnitsCount ==
  ASSUME NEW S, IsFiniteSet(S), NEW f, \A k \in S : f[k] \in Nat, NEW T \in SUBSET S
  PROVE  /\ IsFiniteSet(Units(f, T)) /\ Cardinality(Units(f, T)) \in Nat
         /\ T # {} => Cardinality(Units(f, T)) = f[One(T)] + Cardinality(Units(f, T \ {One(T)}))
<1> DEFINE row == [k \in S |-> {k} \X (1 .. f[k])]
<1>1. ASSUME NEW k \in S PROVE IsFiniteSet(row[k]) /\ Cardinality(row[k]) = f[k]
  <2> DEFINE I == 1 .. f[k]
             K == {k}
  <2>1. f[k] \in Nat
    OBVIOUS
  <2>2. IsFiniteSet(I) /\ Cardinality(I) = f[k]
    <3>1. 1 \in Int /\ f[k] \in Int
      BY <2>1
    <3>2. IsFiniteSet(1 .. f[k]) /\ Cardinality(1 .. f[k]) = IF 1 > f[k] THEN 0 ELSE f[k] - 1 + 1
      BY <3>1, FS_Interval
    <3> QED BY <2>1, <3>2
  <2>3. IsFiniteSet(K) /\ Cardinality(K) = 1
    BY FS_Singleton
  <2>4. row[k] = K \X I
    OBVIOUS
  <2> HIDE DEF I, K, row
  <2>5. IsFiniteSet(K \X I) /\ Cardinality(K \X I) = Cardinality(K) * Cardinality(I)
    BY <2>2, <2>3, FS_Product
  <2> QED BY <2>1, <2>2, <2>3, <2>4, <2>5
<1>2. ASSUME NEW U \in SUBSET S PROVE IsFiniteSet(Units(f, U)) /\ Cardinality(Units(f, U)) \in Nat
  <2>1. Units(f, U) = UNION {row[k] : k \in U}
    BY DEF Units
  <2> HIDE DEF row
  <2>2. IsFiniteSet({row[k] : k \in U})
    <3>1. IsFiniteSet(U)
      BY FS_Subset
    <3> QED BY <3>1, FiniteImage
  <2>3. \A R \in {row[k] : k \in U} : IsFiniteSet(R)
    BY <1>1
  <2> QED BY <2>1, <2>2, <2>3, FS_UNION, FS_CardinalityType
<1>3. ASSUME T # {}
      PROVE  Cardinality(Units(f, T)) = f[One(T)] + Cardinality(Units(f, T \ {One(T)}))
  <2> DEFINE x == One(T)
             R == T \ {x}
  <2>1. x \in T /\ x \in S
    BY <1>3 DEF One
  <2>2. /\ Units(f, T) = Units(f, R) \cup row[x]
        /\ Units(f, R) \cap row[x] = {}
    BY <2>1 DEF Units
  <2> HIDE DEF R, row, x
  <2>3. R \in SUBSET S
    BY DEF R
  <2>4. /\ IsFiniteSet(Units(f, R)) /\ Cardinality(Units(f, R)) \in Nat
        /\ IsFiniteSet(row[x]) /\ Cardinality(row[x]) = f[x] /\ f[x] \in Nat
    BY <1>1, <1>2, <2>1, <2>3
  <2>5. Cardinality(Units(f, R) \cap row[x]) = 0
    BY <2>2, FS_EmptySet
  <2>6. Cardinality(Units(f, R) \cup row[x]) = f[x] + Cardinality(Units(f, R))
    <3> DEFINE A == Units(f, R)
               B == row[x]
    <3>1. /\ IsFiniteSet(A) /\ Cardinality(A) \in Nat /\ Cardinality(A \cap B) = 0
          /\ IsFiniteSet(B) /\ Cardinality(B) = f[x] /\ f[x] \in Nat
      BY <2>4, <2>5
    <3> HIDE DEF A, B
    <3>2. Cardinality(A \cup B) = Cardinality(A) + Cardinality(B) - Cardinality(A \cap B)
      BY <3>1, FS_Union
    <3>3. Cardinality(A \cup B) = f[x] + Cardinality(A)
      BY <3>1, <3>2
    <3> QED BY <3>3 DEF A, B
  <2> QED BY <2>2, <2>6 DEF R, x
<1> QED BY <1>2, <1>3

SumOver(f, S) == MapThenSumSet(LAMBDA k : f[k], S)

\* What MapThenSumSet computes satisfies its equation.
LEMMA SumIsRecursive ==
  ASSUME NEW S, IsFiniteSet(S), NEW f, \A k \in S : f[k] \in Nat
  PROVE  \E g : SumEquation(g, f, S) /\ SumOver(f, S) = g[S]
<1>1. \E g : SumEquation(g, f, S)
  <2> DEFINE h == [T \in SUBSET S |-> Cardinality(Units(f, T))]
  <2>1. ASSUME NEW T \in SUBSET S
        PROVE  h[T] = IF T = {} THEN 0 ELSE f[One(T)] + h[T \ {One(T)}]
    <3>1. CASE T = {}
      <4>1. Units(f, T) = {}
        BY <3>1 DEF Units
      <4> QED BY <3>1, <4>1, FS_EmptySet
    <3>2. CASE T # {}
      BY <3>2, UnitsCount
    <3> QED BY <3>1, <3>2
  <2>2. h = [T \in SUBSET S |-> h[T]]
    OBVIOUS
  <2> HIDE DEF h
  <2>3. SumEquation(h, f, S)
    BY <2>1, <2>2 DEF SumEquation
  <2> QED BY <2>3
<1> DEFINE g == CHOOSE g : SumEquation(g, f, S)
<1>2. SumEquation(g, f, S)
  BY <1>1
<1>3. SumOver(f, S) = g[S]
  BY DEF SumOver, SumEquation, One, MapThenSumSet, MapThenFoldSet
<1> QED BY <1>2, <1>3

\* The sizes of sets add up to the size of their union or more.
LEMMA SumCoversUnion ==
  ASSUME NEW S, IsFiniteSet(S), NEW f, NEW H,
         \A k \in S : IsFiniteSet(H[k]) /\ f[k] = Cardinality(H[k])
  PROVE  /\ SumOver(f, S) \in Nat
         /\ IsFiniteSet(UNION {H[k] : k \in S})
         /\ Cardinality(UNION {H[k] : k \in S}) <= SumOver(f, S)
<1>1. \A k \in S : f[k] \in Nat
  BY FS_CardinalityType
<1>2. PICK g : SumEquation(g, f, S) /\ SumOver(f, S) = g[S]
  BY <1>1, SumIsRecursive
<1> DEFINE U(T) == UNION {H[k] : k \in T}
           Bad == {T \in SUBSET S : ~(/\ g[T] \in Nat /\ IsFiniteSet(U(T))
                                      /\ Cardinality(U(T)) <= g[T])}
<1>3. Bad = {}
  <2> SUFFICES ASSUME Bad # {} PROVE FALSE
    OBVIOUS
  <2>1. PICK T \in Bad : \A V \in SUBSET T : V # T => V \notin Bad
    <3>1. Bad \in SUBSET (SUBSET S)
      OBVIOUS
    <3> HIDE DEF Bad
    <3> QED BY <3>1, SmallestSubset
  <2>2. T # {}
    <3> SUFFICES ASSUME T = {} PROVE FALSE
      OBVIOUS
    <3>1. g[T] = 0
      BY <1>2 DEF SumEquation
    <3>2. U(T) = {}
      OBVIOUS
    <3>3. IsFiniteSet(U(T)) /\ Cardinality(U(T)) = 0
      BY <3>2, FS_EmptySet
    <3> HIDE DEF U
    <3> QED BY <2>1, <3>1, <3>3
  <2> DEFINE x == One(T)
             R == T \ {x}
  <2>3. x \in T /\ x \in S /\ R \in SUBSET S /\ R \notin Bad
    <3>1. x \in T
      BY <2>2 DEF One
    <3> QED BY <2>1, <3>1
  <2>4. g[T] = f[x] + g[R]
    BY <1>2, <2>1, <2>2 DEF SumEquation
  <2>5. U(T) = U(R) \cup H[x]
    <3>1. \A k \in T : k \in R \/ k = x
      OBVIOUS
    <3>2. R \subseteq T /\ x \in T
      BY <2>3
    <3> HIDE DEF R, x
    <3> QED BY <3>1, <3>2
  <2> HIDE DEF R, x, U
  <2>6. /\ IsFiniteSet(U(R)) /\ Cardinality(U(R)) \in Nat /\ Cardinality(U(R)) <= g[R]
        /\ g[R] \in Nat
        /\ IsFiniteSet(H[x]) /\ Cardinality(H[x]) = f[x] /\ f[x] \in Nat
    BY <1>1, <2>3, FS_CardinalityType
  <2>7. /\ IsFiniteSet(U(R) \cup H[x]) /\ Cardinality(U(R) \cap H[x]) \in Nat
        /\ Cardinality(U(R) \cup H[x]) =
             Cardinality(U(R)) + Cardinality(H[x]) - Cardinality(U(R) \cap H[x])
    BY <2>6, FS_Union, FS_Intersection, FS_CardinalityType
  <2>8. Cardinality(U(T)) <= g[T] /\ g[T] \in Nat /\ IsFiniteSet(U(T))
    BY <2>4, <2>5, <2>6, <2>7
  <2> QED BY <2>1, <2>8
<1>4. S \notin Bad
  BY <1>3
<1> QED BY <1>2, <1>4

\* The sum of a set is no less than what any member adds.
LEMMA SumIsAtLeast ==
  ASSUME NEW S, IsFiniteSet(S), NEW f, \A k \in S : f[k] \in Nat
  PROVE  SumOver(f, S) \in Nat /\ \A k \in S : f[k] <= SumOver(f, S)
<1>1. PICK g : SumEquation(g, f, S) /\ SumOver(f, S) = g[S]
  BY SumIsRecursive
<1> DEFINE Bad == {T \in SUBSET S : ~(g[T] \in Nat /\ \A k \in T : f[k] <= g[T])}
<1>2. Bad = {}
  <2> SUFFICES ASSUME Bad # {} PROVE FALSE
    OBVIOUS
  <2>0. Bad \in SUBSET (SUBSET S)
    OBVIOUS
  <2>1. PICK T \in Bad : \A V \in SUBSET T : V # T => V \notin Bad
    <3> HIDE DEF Bad
    <3> QED BY <2>0, SmallestSubset
  <2>2. T # {}
    <3> SUFFICES ASSUME T = {} PROVE FALSE
      OBVIOUS
    <3>1. g[T] = 0
      BY <1>1 DEF SumEquation
    <3> QED BY <2>1, <3>1
  <2> DEFINE x == One(T)
             R == T \ {x}
  <2>3. x \in T /\ x \in S /\ R \in SUBSET S /\ R \notin Bad
    <3>1. x \in T
      BY <2>2 DEF One
    <3> QED BY <2>1, <3>1
  <2>4. g[T] = f[x] + g[R]
    BY <1>1, <2>1, <2>2 DEF SumEquation
  <2>5. \A k \in T : k \in R \/ k = x
    OBVIOUS
  <2> HIDE DEF R, x
  <2>6. g[R] \in Nat /\ f[x] \in Nat /\ \A k \in R : f[k] \in Nat /\ f[k] <= g[R]
    BY <2>3
  <2>7. g[T] \in Nat /\ \A k \in T : f[k] <= g[T]
    BY <2>4, <2>5, <2>6
  <2> QED BY <2>1, <2>7
<1> QED BY <1>1, <1>2

\* Where every member adds as much or more, so does the set.
LEMMA SumGrows ==
  ASSUME NEW S, IsFiniteSet(S), NEW f, NEW h,
         \A k \in S : f[k] \in Nat /\ h[k] \in Nat /\ f[k] <= h[k]
  PROVE  SumOver(f, S) <= SumOver(h, S)
<1>1. PICK g : SumEquation(g, f, S) /\ SumOver(f, S) = g[S]
  BY SumIsRecursive
<1>2. PICK e : SumEquation(e, h, S) /\ SumOver(h, S) = e[S]
  BY SumIsRecursive
<1> DEFINE Bad == {T \in SUBSET S : ~(g[T] \in Nat /\ e[T] \in Nat /\ g[T] <= e[T])}
<1>3. Bad = {}
  <2> SUFFICES ASSUME Bad # {} PROVE FALSE
    OBVIOUS
  <2>0. Bad \in SUBSET (SUBSET S)
    OBVIOUS
  <2>1. PICK T \in Bad : \A V \in SUBSET T : V # T => V \notin Bad
    <3> HIDE DEF Bad
    <3> QED BY <2>0, SmallestSubset
  <2>2. T # {}
    <3> SUFFICES ASSUME T = {} PROVE FALSE
      OBVIOUS
    <3>1. g[T] = 0 /\ e[T] = 0
      BY <1>1, <1>2 DEF SumEquation
    <3> QED BY <2>1, <3>1
  <2> DEFINE x == One(T)
             R == T \ {x}
  <2>3. x \in T /\ x \in S /\ R \in SUBSET S /\ R \notin Bad
    <3>1. x \in T
      BY <2>2 DEF One
    <3> QED BY <2>1, <3>1
  <2>4. g[T] = f[x] + g[R] /\ e[T] = h[x] + e[R]
    BY <1>1, <1>2, <2>1, <2>2 DEF SumEquation
  <2> HIDE DEF R, x
  <2>5. /\ g[R] \in Nat /\ e[R] \in Nat /\ g[R] <= e[R]
        /\ f[x] \in Nat /\ h[x] \in Nat /\ f[x] <= h[x]
    BY <2>3
  <2>6. g[T] \in Nat /\ e[T] \in Nat /\ g[T] <= e[T]
    BY <2>4, <2>5
  <2> QED BY <2>1, <2>6
<1> QED BY <1>1, <1>2, <1>3

----------------------------------------------------------------------------
(* The cap of a card *)

\* A start adds its run to the holders of the slots it took.
LEMMA StartHolders ==
  ASSUME TypeOK, QueueOrRegistry, NEW q \in Queue, Start(q)
  PROVE  \E p \in Placements(FrontOf(q)) : \A s \in Slot :
           Holders(s)' = IF s \in p.slots THEN Holders(s) \cup {FrontOf(q)} ELSE Holders(s)
<1> DEFINE r == FrontOf(q)
<1>1. r \in Run /\ r \notin active
  BY FrontType, FrontWaits DEF Start, Asks
<1>2. PICK p \in Placements(r) : placement' = [placement EXCEPT ![r] = p]
  BY DEF Start
<1>3. active' = active \cup {r} /\ released' = released \ {r}
  BY DEF Start
<1> HIDE DEF r
<1>4. ASSUME NEW s \in Slot
      PROVE  Holders(s)' = IF s \in p.slots THEN Holders(s) \cup {r} ELSE Holders(s)
  <2>1. \A x \in active \ released : placement'[x] = placement[x] /\ x # r
    BY <1>1, <1>2 DEF TypeOK
  <2>2. placement'[r] = p
    BY <1>1, <1>2 DEF TypeOK
  <2>3. active' \ released' = (active \ released) \cup {r}
    BY <1>1, <1>3 DEF TypeOK
  <2> QED BY <2>1, <2>2, <2>3 DEF Holders
<1> QED BY <1>4 DEF r

\* No other step adds a holder.
LEMMA OthersHold ==
  ASSUME TypeOK, [Next]_vars, \A q \in Queue : ~Start(q), NEW s \in Slot
  PROVE  Holders(s)' \subseteq Holders(s)
<1> USE DEF slotVars
<1>0. ASSUME UNCHANGED slotVars PROVE Holders(s)' \subseteq Holders(s)
  BY <1>0 DEF Holders
<1>1. ASSUME NEW q \in Queue, Refuse(q) \/ PlaceRaises(q) \/ StartRaises(q)
      PROVE  Holders(s)' \subseteq Holders(s)
  BY <1>0, <1>1 DEF Refuse, PlaceRaises, StartRaises
<1>2. ASSUME NEW r \in Run, Submit(r) \/ Dequeue(r) PROVE Holders(s)' \subseteq Holders(s)
  BY <1>0, <1>2 DEF Submit, Dequeue
<1>3. ASSUME NEW r \in Run, Finalize(r) PROVE Holders(s)' \subseteq Holders(s)
  BY <1>3 DEF Finalize, Holders
<1>4. ASSUME NEW r \in Run, Deregister(r) PROVE Holders(s)' \subseteq Holders(s)
  <2>1. active' = active \ {r} /\ released' = released \ {r}
    BY <1>4 DEF Deregister
  <2>2. \A x \in active \ {r} : placement'[x] = placement[x]
    BY <1>4 DEF Deregister, TypeOK
  <2> QED BY <2>1, <2>2 DEF Holders
<1>5. CASE RunRequestedReschedule \/ HoldBegin \/ HoldEnd \/ BeginShutdown \/ RetireQueue
  BY <1>0, <1>5 DEF RunRequestedReschedule, HoldBegin, HoldEnd, BeginShutdown, RetireQueue
<1>6. ASSUME NEW w \in Worker, NEW state \in WorkerState, WorkerChanges(w, state)
      PROVE  Holders(s)' \subseteq Holders(s)
  BY <1>0, <1>6 DEF WorkerChanges
<1>7. CASE UNCHANGED vars
  BY <1>0, <1>7 DEF vars
<1> QED BY <1>1, <1>2, <1>3, <1>4, <1>5, <1>6, <1>7 DEF Next, Pass

\* The runs on the card of s, through any of its slots.
OnCard(s) == UNION {Holders(k) : k \in SameCard(s)}

\* The counts of a card's slots add up to the runs on it, or more.
LEMMA HeldCoversCard ==
  ASSUME TypeOK, SlotsAreHeld, NEW s \in Slot
  PROVE  /\ Held(s) \in Nat /\ IsFiniteSet(OnCard(s))
         /\ Cardinality(OnCard(s)) \in Nat /\ Cardinality(OnCard(s)) <= Held(s)
<1> DEFINE C == SameCard(s)
           H == [k \in Slot |-> Holders(k)]
<1>1. C \subseteq Slot /\ IsFiniteSet(C)
  <2>1. C \subseteq Slot
    BY DEF SameCard
  <2> QED BY <2>1, SlotsAreFinite, FS_Subset
<1>2. \A k \in C : IsFiniteSet(H[k]) /\ slots[k] = Cardinality(H[k])
  BY <1>1, HoldersFinite DEF SlotsAreHeld
<1>3. OnCard(s) = UNION {H[k] : k \in C}
  BY <1>1 DEF OnCard
<1>4. Held(s) = SumOver(slots, C)
  BY DEF Held, SumOver
<1> HIDE DEF C, H
<1>5. /\ SumOver(slots, C) \in Nat /\ IsFiniteSet(UNION {H[k] : k \in C})
      /\ Cardinality(UNION {H[k] : k \in C}) <= SumOver(slots, C)
  BY <1>1, <1>2, SumCoversUnion
<1> QED BY <1>3, <1>4, <1>5, FS_CardinalityType

\* The limit of a slot is one of the caps of its card, its own or a smaller.
LEMMA LimitIsACap ==
  ASSUME NEW s \in Slot
  PROVE  /\ Limit(s) \in Nat /\ Limit(s) <= Cap[s]
         /\ Max({Cap[k] : k \in SameCard(s)}) \in Nat
         /\ Cap[s] <= Max({Cap[k] : k \in SameCard(s)})
<1> DEFINE D == {j \in SameCard(s) : j = s \/ slots[j] > 0 \/ Online(Offerer[j])}
           C == SameCard(s)
<1>1. /\ D \subseteq C /\ C \subseteq Slot /\ s \in D
      /\ IsFiniteSet(C) /\ IsFiniteSet(D)
  <2>1. D \subseteq C /\ C \subseteq Slot /\ s \in D
    BY DEF SameCard
  <2> HIDE DEF C, D
  <2> QED BY <2>1, SlotsAreFinite, FS_Subset
<1>2. Limit(s) = Min({Cap[k] : k \in D})
  BY DEF Limit
<1> HIDE DEF C, D
<1>3. \A k \in Slot : Cap[k] \in Nat
  BY SlotConstants
<1> DEFINE E == {Cap[k] : k \in D}
           F == {Cap[k] : k \in C}
<1>4. /\ E \in SUBSET Nat /\ IsFiniteSet(E) /\ Cap[s] \in E
      /\ F \in SUBSET Nat /\ IsFiniteSet(F) /\ Cap[s] \in F
  BY <1>1, <1>3, FiniteImage
<1>5. Limit(s) = Min(E)
  BY <1>2
<1> HIDE DEF E, F
<1>6. Min(E) \in E /\ Min(E) <= Cap[s]
  BY <1>4, MinOfNats
<1>7. Max(F) \in F /\ Cap[s] <= Max(F)
  BY <1>4, MaxOfFinite
<1> QED BY <1>4, <1>5, <1>6, <1>7 DEF F, C

LEMMA StepCard ==
  TypeOK /\ QueueOrRegistry /\ SlotsAreHeld /\ CardWithinCap /\ [Next]_vars
    => CardWithinCap'
<1> SUFFICES ASSUME TypeOK, QueueOrRegistry, SlotsAreHeld, CardWithinCap, [Next]_vars,
                    NEW s \in Slot
             PROVE  Cardinality(OnCard(s)') <= Max({Cap[k] : k \in SameCard(s)})
  BY DEF CardWithinCap, OnCard, SameCard
<1> DEFINE top == Max({Cap[k] : k \in SameCard(s)})
<1>1. /\ IsFiniteSet(OnCard(s)) /\ Cardinality(OnCard(s)) \in Nat /\ top \in Nat
      /\ Cardinality(OnCard(s)) <= top
  BY HeldCoversCard, LimitIsACap DEF CardWithinCap, OnCard
<1> HIDE DEF top
\* A card with no new holder.
<1>2. ASSUME OnCard(s)' \subseteq OnCard(s) PROVE Cardinality(OnCard(s)') <= top
  <2>1. Cardinality(OnCard(s)') <= Cardinality(OnCard(s)) /\ Cardinality(OnCard(s)') \in Nat
    BY <1>1, <1>2, FS_Subset, FS_CardinalityType
  <2> QED BY <1>1, <2>1
<1>3. SameCard(s) \subseteq Slot
  BY DEF SameCard
<1>4. OnCard(s)' = UNION {Holders(k)' : k \in SameCard(s)}
  BY DEF OnCard, SameCard
<1>5. CASE \A q \in Queue : ~Start(q)
  <2>1. \A k \in Slot : Holders(k)' \subseteq Holders(k)
    BY <1>5, OthersHold
  <2>2. OnCard(s)' \subseteq OnCard(s)
    BY <1>3, <1>4, <2>1 DEF OnCard
  <2> QED BY <1>2, <2>2 DEF top
<1>6. ASSUME NEW q \in Queue, Start(q) PROVE Cardinality(OnCard(s)') <= top
  <2>1. PICK p \in Placements(FrontOf(q)) : \A k \in Slot :
           Holders(k)' = IF k \in p.slots THEN Holders(k) \cup {FrontOf(q)} ELSE Holders(k)
    BY <1>6, StartHolders
  <2> DEFINE r == FrontOf(q)
  <2>2. CASE SameCard(s) \cap p.slots = {}
    <3>1. \A k \in SameCard(s) : Holders(k)' = Holders(k)
      BY <1>3, <2>1, <2>2
    <3>2. OnCard(s)' \subseteq OnCard(s)
      BY <1>4, <3>1 DEF OnCard
    <3> QED BY <1>2, <3>2
  <2>3. ASSUME NEW t \in SameCard(s), t \in p.slots
        PROVE  Cardinality(OnCard(s)') <= top
    <3>1. Held(t) < Limit(t)
      BY <2>3 DEF Placements, Placeable, Free
    <3>2. SameCard(t) = SameCard(s) /\ t \in Slot
      BY <2>3 DEF SameCard
    <3>3. Held(t) = Held(s)
      BY <3>2 DEF Held
    <3>4. Limit(t) \in Nat /\ Limit(t) <= Cap[t] /\ Cap[t] <= top /\ Cap[t] \in Nat
      BY <3>2, LimitIsACap, SlotConstants DEF top
    <3>5. Held(s) \in Nat /\ Cardinality(OnCard(s)) <= Held(s)
      BY HeldCoversCard
    <3>6. OnCard(s)' \subseteq OnCard(s) \cup {r}
      BY <1>3, <1>4, <2>1 DEF OnCard
    <3> HIDE DEF r
    <3>7. /\ IsFiniteSet(OnCard(s) \cup {r})
          /\ Cardinality(OnCard(s) \cup {r}) = Cardinality(OnCard(s))
             \/ Cardinality(OnCard(s) \cup {r}) = Cardinality(OnCard(s)) + 1
      BY <1>1, FS_AddElement
    <3>8. /\ Cardinality(OnCard(s)') <= Cardinality(OnCard(s) \cup {r})
          /\ Cardinality(OnCard(s)') \in Nat
      BY <3>6, <3>7, FS_Subset, FS_CardinalityType
    <3>9. Cardinality(OnCard(s)) < top
      BY <1>1, <3>1, <3>3, <3>4, <3>5
    <3> QED BY <1>1, <3>7, <3>8, <3>9
  <2> QED BY <2>2, <2>3
<1> QED BY <1>5, <1>6 DEF top

\* A card offered by several machines never runs more than its largest cap,
\* whichever of its slots the runs took (CardBudget).
THEOREM CardsWithinCaps == Spec => []CardWithinCap
<1> DEFINE Inv == TypeOK /\ QueueOrRegistry /\ SlotsAreHeld /\ CardWithinCap
<1>1. Init => Inv
  <2> SUFFICES ASSUME Init, NEW s \in Slot
               PROVE  Cardinality(OnCard(s)) <= Max({Cap[k] : k \in SameCard(s)})
    BY InitType, InitQueue, InitSlots DEF CardWithinCap, OnCard
  <2>1. OnCard(s) = {}
    BY DEF Init, Holders, OnCard
  <2>2. Cardinality(OnCard(s)) = 0 /\ Max({Cap[k] : k \in SameCard(s)}) \in Nat
    BY <2>1, FS_EmptySet, LimitIsACap
  <2> QED BY <2>2
<1>2. Inv /\ [Next]_vars => Inv'
  BY StepType, StepQueue, StepSlots, StepCard
<1> HIDE DEF Inv
<1>3. Inv => CardWithinCap
  BY DEF Inv
<1> QED BY <1>1, <1>2, <1>3, PTL DEF Spec

----------------------------------------------------------------------------
(* No startable front waits *)

\* Nothing stands in the way of a pass: no reschedule is owed, nothing
\* raised, every machine accepts runs and set runs take whole cards.
Undisturbed ==
  /\ ~requested /\ faults = 0 /\ ~stopping /\ SetsTakeWholeCards
  /\ \A m \in Machine : Accepts(m)

\* Every front a pass under way has asked already is one it could not place.
FrontsWereAsked ==
  Undisturbed =>
    \A r \in pendingById :
      IsFront(r) /\ QueueOf[r] \notin asking => Placeable(r) = {}

\* Only device-set runs of one machine reserve.
SetsReserve ==
  \A r \in ToSet(reservations) : r \in Pinned /\ Cardinality(ReservedSlots(r)) > 1

LEMMA InitSets == Init => SetsReserve
  BY DEF Init, SetsReserve, ToSet

LEMMA StepSets == TypeOK /\ SetsReserve /\ [Next]_vars => SetsReserve'
<1> SUFFICES ASSUME TypeOK, SetsReserve, [Next]_vars PROVE SetsReserve'
  OBVIOUS
<1> USE DEF passVars, slotVars, queueVars
<1>0. ASSUME ToSet(reservations') \subseteq ToSet(reservations) PROVE SetsReserve'
  BY <1>0 DEF SetsReserve, ReservedSlots
<1>a. ASSUME NEW y, reservations' = Without(reservations, y) PROVE SetsReserve'
  BY <1>0, <1>a, WithoutIsSubsequence DEF TypeOK
<1>1. ASSUME NEW q \in Queue, Refuse(q) PROVE SetsReserve'
  <2> DEFINE r == FrontOf(q)
  <2>1. r \in Run
    BY <1>1, FrontType DEF Refuse, Asks
  <2>2. reservations' = IF ~Reserves(r) THEN Without(reservations, r)
                        ELSE IF r \in ToSet(reservations) THEN reservations
                        ELSE Append(reservations, r)
    BY <1>1 DEF Refuse
  <2> HIDE DEF r
  <2>3. CASE reservations' = Append(reservations, r) /\ Reserves(r)
    <3>1. ToSet(reservations') = ToSet(reservations) \cup {r}
      BY <2>1, <2>3, AppendShape DEF TypeOK
    <3> QED BY <2>3, <3>1 DEF SetsReserve, Reserves, ReservedSlots
  <2> QED BY <1>0, <1>a, <2>2, <2>3
<1>2. ASSUME NEW q \in Queue, Start(q) \/ StartRaises(q) PROVE SetsReserve'
  BY <1>a, <1>2 DEF Start, StartRaises
<1>3. ASSUME NEW q \in Queue, PlaceRaises(q) PROVE SetsReserve'
  BY <1>0, <1>3 DEF PlaceRaises
<1>4. ASSUME NEW r \in Run, Submit(r) PROVE SetsReserve'
  BY <1>0, <1>4 DEF Submit
<1>5. ASSUME NEW r \in Run, Dequeue(r) PROVE SetsReserve'
  BY <1>a, <1>5 DEF Dequeue
<1>6. ASSUME NEW r \in Run, Finalize(r) \/ Deregister(r) PROVE SetsReserve'
  BY <1>0, <1>6 DEF Finalize, Deregister
<1>7. CASE RunRequestedReschedule \/ HoldBegin \/ HoldEnd \/ BeginShutdown
  BY <1>0, <1>7 DEF RunRequestedReschedule, HoldBegin, HoldEnd, BeginShutdown
<1>8. ASSUME NEW w \in Worker, NEW state \in WorkerState, WorkerChanges(w, state)
      PROVE  SetsReserve'
  BY <1>0, <1>8 DEF WorkerChanges
<1>9. CASE RetireQueue
  BY <1>9 DEF RetireQueue, SetsReserve, ToSet
<1>10. CASE UNCHANGED vars
  BY <1>0, <1>10 DEF vars
<1> QED
  BY <1>1, <1>2, <1>3, <1>4, <1>5, <1>6, <1>7, <1>8, <1>9, <1>10 DEF Next, Pass

\* What a card holds is the sum of its slots' counts, now and after a step.
LEMMA HeldIsSum == \A s : Held(s) = SumOver(slots, SameCard(s))
  BY DEF Held, SumOver

LEMMA HeldLater == \A s : Held(s)' = SumOver(slots', SameCard(s))
<1>1. (\A s : Held(s) = SumOver(slots, SameCard(s)))'
  BY HeldIsSum, PTL
<1> QED BY <1>1 DEF SameCard

\* What a pass answers depends on the workers, the counts and the
\* reservations alone.
LEMMA SameAnswer ==
  ASSUME worker' = worker, slots' = slots, reservations' = reservations, NEW r
  PROVE  Placeable(r)' = Placeable(r)
<1>1. \A s : Held(s)' = Held(s)
  <2> TAKE s
  <2>1. Held(s)' = SumOver(slots', SameCard(s))
    BY HeldLater
  <2>2. Held(s) = SumOver(slots, SameCard(s))
    BY HeldIsSum
  <2> QED BY <2>1, <2>2
<1>2. \A s : Limit(s)' = Limit(s)
  BY DEF Limit, SameCard, Online
<1>3. \A s : SameCard(s)' = SameCard(s)
  BY DEF SameCard
<1>4. ReservedAhead(r)' = ReservedAhead(r)
  BY DEF ReservedAhead, ReservedSlots
<1>5. \A s : Free(s, r)' = Free(s, r)
  BY <1>1, <1>2, <1>3, <1>4 DEF Free
<1>6. \A m : Accepts(m)' = Accepts(m)
  BY DEF Accepts
<1> QED BY <1>5, <1>6 DEF Placeable

\* A reservation hides its cards from r unless r's own comes first.
LEMMA AheadIs ==
  ASSUME NEW r, NEW y
  PROVE  y \in ReservedAhead(r) <=>
           \E i \in DOMAIN reservations :
             (\A k \in 1 .. i : reservations[k] # r) /\ y \in ReservedSlots(reservations[i])
  BY DEF ReservedAhead

\* Counts that grow and reservations that only hide more leave no new place.
LEMMA FullerStaysFull ==
  ASSUME TypeOK, TypeOK', worker' = worker, NEW r,
         \A s \in Slot : slots[s] <= slots'[s],
         \A s \in Slot : Free(s, r)' =>
           SameCard(s) \cap ReservedAhead(r) = {},
         Placeable(r) = {}, r \in Run
  PROVE  Placeable(r)' = {}
<1>1. \A m : Accepts(m)' = Accepts(m)
  BY DEF Accepts
<1>2. ASSUME NEW s \in Slot, Free(s, r)' PROVE Free(s, r)
  <2> DEFINE C == SameCard(s)
             D == {j \in C : j = s \/ slots[j] > 0 \/ Online(Offerer[j])}
             Dp == {j \in C : j = s \/ slots'[j] > 0 \/ Online(Offerer[j])}
  <2>1. C \subseteq Slot /\ IsFiniteSet(C) /\ s \in C
    <3>1. C \subseteq Slot /\ s \in C
      BY DEF SameCard
    <3> QED BY <3>1, SlotsAreFinite, FS_Subset
  <2>2. Held(s) = SumOver(slots, C) /\ Held(s)' = SumOver(slots', C)
    BY HeldIsSum, HeldLater
  <2>3. Limit(s) = Min({Cap[k] : k \in D}) /\ Limit(s)' = Min({Cap[k] : k \in Dp})
    BY DEF Limit, SameCard, Online
  <2>4. Held(s)' < Limit(s)'
    BY <1>2 DEF Free
  <2> HIDE DEF C
  <2>5. \A k \in C : slots[k] \in Nat /\ slots'[k] \in Nat /\ slots[k] <= slots'[k]
    BY <2>1 DEF TypeOK
  <2>6. SumOver(slots, C) <= SumOver(slots', C)
    BY <2>1, <2>5, SumGrows
  <2>7. SumOver(slots, C) \in Nat /\ SumOver(slots', C) \in Nat
    BY <2>1, <2>5, SumIsAtLeast
  <2>8. D \subseteq Dp /\ s \in D /\ Dp \subseteq C
    BY <2>1, <2>5
  <2> HIDE DEF D, Dp
  <2>9. \A k \in Slot : Cap[k] \in Nat
    BY SlotConstants
  <2> DEFINE E == {Cap[k] : k \in D}
             Ep == {Cap[k] : k \in Dp}
  <2>10. IsFiniteSet(D) /\ IsFiniteSet(Dp)
    BY <2>1, <2>8, FS_Subset
  <2>11. /\ E \in SUBSET Nat /\ IsFiniteSet(E) /\ E # {} /\ E \subseteq Ep
         /\ Ep \in SUBSET Nat /\ IsFiniteSet(Ep) /\ Ep # {}
    BY <2>1, <2>8, <2>9, <2>10, FiniteImage
  <2>12. Limit(s) = Min(E) /\ Limit(s)' = Min(Ep)
    BY <2>3
  <2> HIDE DEF E, Ep
  <2>13. Min(E) \in E /\ Min(Ep) \in Ep /\ \A x \in Ep : Min(Ep) <= x
    BY <2>11, MinOfNats
  <2>14. Min(Ep) <= Min(E) /\ Min(E) \in Nat /\ Min(Ep) \in Nat
    BY <2>11, <2>13
  <2>15. Held(s) < Limit(s)
    BY <2>2, <2>4, <2>6, <2>7, <2>12, <2>14
  <2> QED BY <1>2, <2>15 DEF Free
<1>3. \A i \in DOMAIN Places[r] : Places[r][i].slots \subseteq Slot
  <2> TAKE i \in DOMAIN Places[r]
  <2>1. Places[r] \in Seq(Place) /\ i \in 1 .. Len(Places[r])
    BY PlacesType, LenProperties
  <2>2. ASSUME NEW seq \in Seq(Place), NEW n \in 1 .. Len(seq) PROVE seq[n] \in Place
    BY ElementOfSeq
  <2> QED BY <2>1, <2>2 DEF Place
<1> QED BY <1>1, <1>2, <1>3 DEF Placeable

\* A card that admits one run and holds one is full.
LEMMA FullCard ==
  TypeOK /\ (\A m \in Machine : Accepts(m)) =>
    \A s \in Slot : \A k, j \in SameCard(s) :
      slots[k] > 0 /\ Cap[j] = 1 => ~(Held(s) < Limit(s))
<1> SUFFICES ASSUME TypeOK, \A m \in Machine : Accepts(m), NEW s \in Slot,
                    NEW k \in SameCard(s), NEW j \in SameCard(s), slots[k] > 0, Cap[j] = 1
             PROVE  ~(Held(s) < Limit(s))
  OBVIOUS
<1> DEFINE C == SameCard(s)
           D == {n \in C : n = s \/ slots[n] > 0 \/ Online(Offerer[n])}
<1>1. C \subseteq Slot /\ s \in C
  BY DEF SameCard
<1>2. IsFiniteSet(C)
  <2> HIDE DEF C
  <2> QED BY <1>1, SlotsAreFinite, FS_Subset
<1>3. Limit(s) = Min({Cap[n] : n \in D}) /\ Held(s) = SumOver(slots, C)
  BY HeldIsSum DEF Limit
<1>4. Online(Offerer[j])
  <2>1. Offerer[j] \in Machine
    BY <1>1, SlotConstants
  <2> QED BY <2>1 DEF Accepts, Online
<1>5. j \in D /\ D \subseteq C /\ k \in C
  BY <1>4
<1> HIDE DEF C, D
<1>6. \A n \in C : slots[n] \in Nat /\ Cap[n] \in Nat
  BY <1>1, SlotConstants DEF TypeOK
<1>7. SumOver(slots, C) \in Nat /\ slots[k] <= SumOver(slots, C)
  BY <1>2, <1>5, <1>6, SumIsAtLeast
<1> DEFINE E == {Cap[n] : n \in D}
<1>8. IsFiniteSet(D)
  BY <1>2, <1>5, FS_Subset
<1>9. E \in SUBSET Nat /\ IsFiniteSet(E) /\ Cap[j] \in E
  BY <1>5, <1>6, <1>8, FiniteImage
<1>10. Limit(s) = Min(E)
  BY <1>3
<1> HIDE DEF E
<1>11. Min(E) \in Nat /\ Min(E) <= 1
  BY <1>9, MinOfNats
<1>12. slots[k] \in Nat
  BY <1>5, <1>6
<1> QED BY <1>3, <1>7, <1>10, <1>11, <1>12

LEMMA FullCardLater ==
  TypeOK' /\ (\A m \in Machine : Accepts(m)') =>
    \A s \in Slot : \A k, j \in SameCard(s) :
      slots'[k] > 0 /\ Cap[j] = 1 => ~(Held(s)' < Limit(s)')
<1>1. (TypeOK /\ (\A m \in Machine : Accepts(m)) =>
         \A s \in Slot : \A k, j \in SameCard(s) :
           slots[k] > 0 /\ Cap[j] = 1 => ~(Held(s) < Limit(s)))'
  BY FullCard, PTL
<1> QED BY <1>1 DEF SameCard

\* A refusal hides cards from nobody but those behind its run, and gives
\* none back while every machine accepts runs.
LEMMA RefuseHidesMore ==
  ASSUME TypeOK, SetsReserve, \A m \in Machine : Accepts(m),
         NEW q \in Queue, Refuse(q), NEW x
  PROVE  ReservedAhead(x) \subseteq ReservedAhead(x)'
<1> DEFINE r == FrontOf(q)
<1>1. r \in Run
  BY FrontType DEF Refuse, Asks
<1>2. reservations' = IF ~Reserves(r) THEN Without(reservations, r)
                      ELSE IF r \in ToSet(reservations) THEN reservations
                      ELSE Append(reservations, r)
  BY DEF Refuse
<1> HIDE DEF r
<1>3. Accepts(Places[r][1].worker)
  <2>1. Places[r] \in Seq(Place) /\ Len(Places[r]) > 0
    BY <1>1, PlacesType
  <2>2. 1 \in 1 .. Len(Places[r])
    BY <2>1, LenProperties
  <2>3. ASSUME NEW seq \in Seq(Place), NEW n \in 1 .. Len(seq) PROVE seq[n] \in Place
    BY ElementOfSeq
  <2>4. Places[r][1] \in Place
    BY <2>1, <2>2, <2>3
  <2> QED BY <2>4 DEF Place
<1>4. CASE reservations' = reservations
  BY <1>4 DEF ReservedAhead, ReservedSlots
<1>5. CASE ~Reserves(r)
  <2>1. r \notin ToSet(reservations)
    BY <1>3, <1>5 DEF SetsReserve, Reserves
  <2>2. Without(reservations, r) = reservations
    BY <2>1 DEF Without, ToSet
  <2> QED BY <1>2, <1>4, <1>5, <2>2
<1>6. CASE reservations' = Append(reservations, r)
  <2>1. /\ Len(reservations) \in Nat /\ DOMAIN reservations = 1 .. Len(reservations)
        /\ DOMAIN reservations' = 1 .. Len(reservations) + 1
        /\ \A i \in 1 .. Len(reservations) : reservations'[i] = reservations[i]
    BY <1>1, <1>6, AppendProperties, LenProperties DEF TypeOK
  <2>2. ASSUME NEW i \in DOMAIN reservations, \A k \in 1 .. i : reservations[k] # x
        PROVE  /\ i \in DOMAIN reservations' /\ reservations'[i] = reservations[i]
               /\ \A k \in 1 .. i : reservations'[k] # x
    BY <2>1, <2>2
  <2> QED BY <2>2 DEF ReservedAhead, ReservedSlots
<1> QED BY <1>2, <1>4, <1>5, <1>6

\* A start gives back its own reservation alone.
LEMMA WithoutHidesMore ==
  ASSUME TypeOK, NEW r, reservations' = Without(reservations, r), NEW x,
         NEW s \in ReservedAhead(x), s \notin ReservedAhead(x)'
  PROVE  r \in ToSet(reservations) /\ s \in ReservedSlots(r)
<1>1. PICK i \in DOMAIN reservations :
         (\A k \in 1 .. i : reservations[k] # x) /\ s \in ReservedSlots(reservations[i])
  BY DEF ReservedAhead
<1>2. ASSUME reservations[i] # r PROVE FALSE
  <2>1. \E j \in DOMAIN reservations' :
           /\ reservations'[j] = reservations[i]
           /\ \A k \in 1 .. j : \E m \in 1 .. i : reservations'[k] = reservations[m]
    <3>1. reservations \in Seq(Run)
      BY DEF TypeOK
    <3>2. \E j \in DOMAIN Without(reservations, r) :
             /\ Without(reservations, r)[j] = reservations[i]
             /\ \A k \in 1 .. j : \E m \in 1 .. i :
                  Without(reservations, r)[k] = reservations[m]
      BY <1>2, <3>1, WithoutKeepsPlace
    <3> QED BY <3>2
  <2>2. \E j \in DOMAIN reservations' :
           (\A k \in 1 .. j : reservations'[k] # x) /\ s \in ReservedSlots(reservations'[j])
    BY <1>1, <2>1
  <2> QED BY <2>2 DEF ReservedAhead, ReservedSlots
<1> QED BY <1>1, <1>2 DEF ToSet

\* A set run that starts takes the cards it reserved.
LEMMA SetRunTakesItsCards ==
  ASSUME NEW r \in Run, r \in Pinned, Cardinality(ReservedSlots(r)) > 1,
         NEW p \in Placements(r)
  PROVE  p.slots = ReservedSlots(r)
<1>1. PICK i \in Placeable(r) : p = Places[r][i]
  BY DEF Placements
<1>2. i \in DOMAIN Places[r] /\ Places[r] \in Seq(Place) /\ Len(Places[r]) = 1
  BY <1>1, PlacesType, PinnedSetsHaveOnePlace DEF Placeable, ReservedSlots
<1>3. i = 1
  BY <1>2, LenProperties
<1> QED BY <1>1, <1>3 DEF ReservedSlots

LEMMA StepAsked ==
  /\ TypeOK /\ QueueOrRegistry /\ SetsReserve /\ FrontsWereAsked
  /\ [Next]_vars /\ TypeOK' /\ QueueOrRegistry'
  => FrontsWereAsked'
<1> SUFFICES ASSUME TypeOK, QueueOrRegistry, SetsReserve, FrontsWereAsked, [Next]_vars,
                    TypeOK', Undisturbed',
                    NEW x \in pendingById', IsFront(x)', QueueOf[x] \notin asking'
             PROVE  Placeable(x)' = {}
  BY DEF FrontsWereAsked
<1> USE DEF passVars, slotVars, queueVars
<1>x. x \in Run /\ QueueOf[x] \in Queue /\ pending'[QueueOf[x]] # <<>>
  BY QueueOfType DEF TypeOK, IsFront, Waiting
<1>u. ASSUME requested' = requested, faults' = faults, stopping' = stopping,
             worker' = worker
      PROVE  Undisturbed
  BY <1>u DEF Undisturbed, SetsTakeWholeCards, ReservedSlots, SameCard, Accepts
\* A step that changes nothing a front's answer depends on.
<1>s. ASSUME UNCHANGED <<slots, reservations, worker, requested, faults, stopping>>,
             x \in pendingById, IsFront(x), QueueOf[x] \notin asking
      PROVE  Placeable(x)' = {}
  <2>1. Placeable(x) = {}
    BY <1>s, <1>u DEF FrontsWereAsked
  <2> QED BY <1>s, <2>1, SameAnswer
<1>0. ASSUME UNCHANGED <<pending, pendingById, asking, slots, reservations, worker,
                         requested, faults, stopping>>
      PROVE  Placeable(x)' = {}
  <2>1. x \in pendingById /\ IsFront(x) /\ QueueOf[x] \notin asking
    BY <1>0 DEF IsFront, Waiting, FrontOf
  <2> QED BY <1>0, <1>s, <2>1
\* A pass that asks every queue.
<1>r. ASSUME Reschedule, pending' = pending PROVE FALSE
  <2>1. ~stopping'
    BY DEF Undisturbed
  <2>2. stopping => stopping'
    BY DEF Next, Pass, Refuse, Start, PlaceRaises, StartRaises, Submit, Dequeue, Finalize,
           Deregister, RunRequestedReschedule, HoldBegin, HoldEnd, WorkerChanges,
           BeginShutdown, RetireQueue, vars
  <2>3. asking' = {q \in Queue : Waiting(q)}
    BY <1>r, <2>1, <2>2 DEF Reschedule
  <2> QED BY <1>r, <1>x, <2>3 DEF Waiting
<1>1. ASSUME NEW q \in Queue, Refuse(q) PROVE Placeable(x)' = {}
  <2>1. /\ Waiting(q) /\ Placeable(FrontOf(q)) = {} /\ asking' = asking \ {q}
        /\ UNCHANGED <<pending, pendingById, slots, worker, requested, faults, stopping>>
    BY <1>1 DEF Refuse, Asks
  <2>2. x \in pendingById /\ IsFront(x)
    BY <2>1 DEF IsFront, Waiting, FrontOf
  <2>3. Undisturbed
    BY <1>u, <2>1
  <2>4. Placeable(x) = {}
    <3>1. CASE QueueOf[x] = q
      BY <2>1, <2>2, <3>1 DEF IsFront
    <3>2. CASE QueueOf[x] # q
      BY <2>1, <2>2, <2>3, <3>2 DEF FrontsWereAsked
    <3> QED BY <3>1, <3>2
  <2>5. ReservedAhead(x) \subseteq ReservedAhead(x)'
    BY <1>1, <2>3, RefuseHidesMore DEF Undisturbed
  <2>6. ASSUME NEW s \in Slot, Free(s, x)' PROVE SameCard(s) \cap ReservedAhead(x) = {}
    BY <2>5, <2>6 DEF Free, SameCard
  <2>7. \A s \in Slot : slots[s] <= slots'[s]
    BY <2>1 DEF TypeOK
  <2> QED BY <1>x, <2>1, <2>4, <2>6, <2>7, FullerStaysFull
<1>2. ASSUME NEW q \in Queue, Start(q) PROVE Placeable(x)' = {}
  <2> DEFINE r == FrontOf(q)
  <2>1. /\ Waiting(q) /\ r \in Run /\ QueueOf[r] = q /\ pending[q] \in Seq(Run)
    BY <1>2, FrontType, FrontWaits DEF Start, Asks
  <2>2. PICK p \in Placements(r) :
           slots' = [s \in Slot |-> IF s \in p.slots THEN slots[s] + 1 ELSE slots[s]]
    BY <1>2 DEF Start
  <2>3. /\ pending' = [pending EXCEPT ![q] = Tail(@)]
        /\ pendingById' = pendingById \ {r}
        /\ reservations' = Without(reservations, r)
        /\ asking' = IF Len(pending[q]) = 1 THEN asking \ {q} ELSE asking
        /\ q \in asking
        /\ UNCHANGED <<worker, requested, faults, stopping>>
    BY <1>2 DEF Start, Asks
  <2> HIDE DEF r
  <2>4. QueueOf[x] # q
    <3> SUFFICES ASSUME QueueOf[x] = q PROVE FALSE
      OBVIOUS
    <3>1. pending'[q] = Tail(pending[q])
      BY <2>3 DEF TypeOK
    <3>2. Len(pending[q]) = 1
      BY <2>3
    <3>3. Tail(pending[q]) = <<>>
      <4>1. Tail(pending[q]) \in Seq(Run) /\ Len(Tail(pending[q])) = Len(pending[q]) - 1
        BY <2>1, HeadTailProperties DEF Waiting
      <4>2. Len(Tail(pending[q])) = 0
        BY <3>2, <4>1
      <4> QED BY <4>1, <4>2, EmptySeq
    <3> QED BY <1>x, <3>1, <3>3
  <2>5. x \in pendingById /\ IsFront(x) /\ QueueOf[x] \notin asking
    <3>1. pending'[QueueOf[x]] = pending[QueueOf[x]]
      BY <1>x, <2>3, <2>4 DEF TypeOK
    <3> QED BY <2>3, <2>4, <3>1 DEF IsFront, Waiting, FrontOf
  <2>6. Undisturbed
    BY <1>u, <2>3
  <2>7. Placeable(x) = {}
    BY <2>5, <2>6 DEF FrontsWereAsked
  <2>8. ASSUME NEW s \in Slot, Free(s, x)', NEW k \in SameCard(s) \cap ReservedAhead(x)
        PROVE  FALSE
    <3>1. k \notin ReservedAhead(x)' /\ Held(s)' < Limit(s)'
      BY <2>8 DEF Free, SameCard
    <3>2. r \in ToSet(reservations) /\ k \in ReservedSlots(r)
      BY <2>3, <2>8, <3>1, WithoutHidesMore
    <3>3. r \in Pinned /\ Cardinality(ReservedSlots(r)) > 1
      BY <3>2 DEF SetsReserve
    <3>4. k \in p.slots
      BY <2>1, <3>2, <3>3, SetRunTakesItsCards
    <3>5. k \in Slot /\ SameCard(k) = SameCard(s)
      BY <2>8 DEF SameCard
    <3>6. slots'[k] > 0
      <4>1. slots'[k] = slots[k] + 1 /\ slots[k] \in Nat
        BY <2>2, <3>4, <3>5 DEF TypeOK
      <4> QED BY <4>1
    <3>7. PICK j \in SameCard(s) : Cap[j] = 1
      BY <2>6, <3>2, <3>3, <3>5 DEF Undisturbed, SetsTakeWholeCards
    <3>8. \A m \in Machine : Accepts(m)'
      BY DEF Undisturbed
    <3> QED BY <2>8, <3>1, <3>6, <3>7, <3>8, FullCardLater
  <2>9. \A s \in Slot : slots[s] <= slots'[s]
    BY <2>2 DEF TypeOK
  <2>10. \A s \in Slot : Free(s, x)' => SameCard(s) \cap ReservedAhead(x) = {}
    BY <2>8
  <2> QED BY <1>x, <2>3, <2>7, <2>9, <2>10, FullerStaysFull
<1>3. ASSUME NEW q \in Queue, PlaceRaises(q) \/ StartRaises(q) PROVE FALSE
  <2>1. faults' = faults + 1
    BY <1>3 DEF PlaceRaises, StartRaises
  <2>2. faults \in Nat /\ faults' = 0
    BY DEF TypeOK, Undisturbed
  <2> QED BY <2>1, <2>2
<1>4. ASSUME NEW r \in Run, Submit(r) PROVE Placeable(x)' = {}
  <2>1. /\ pending' = [pending EXCEPT ![QueueOf[r]] = Append(@, r)]
        /\ pendingById' = pendingById \cup {r}
        /\ asking = {} /\ asking' = {QueueOf[r]}
        /\ UNCHANGED <<slots, reservations, worker, requested, faults, stopping>>
    BY <1>4 DEF Submit
  <2>2. QueueOf[x] # QueueOf[r] /\ x # r
    BY <2>1
  <2>3. pending'[QueueOf[x]] = pending[QueueOf[x]]
    BY <1>x, <2>1, <2>2 DEF TypeOK
  <2> QED BY <1>s, <2>1, <2>2, <2>3 DEF IsFront, Waiting, FrontOf
<1>5. ASSUME NEW r \in Run, Dequeue(r) PROVE Placeable(x)' = {}
  <2>1. /\ pending' = [pending EXCEPT ![QueueOf[r]] = Without(@, r)]
        /\ r \in pendingById /\ pendingById' = pendingById \ {r}
        /\ reservations' = Without(reservations, r)
        /\ requested' = (requested \/ Unblocks(r))
        /\ asking = {}
        /\ UNCHANGED <<slots, worker, faults, stopping>>
    BY <1>5 DEF Dequeue
  <2>2. requested' = FALSE
    BY DEF Undisturbed, TypeOK
  <2>3. ~IsFront(r) /\ r \notin ToSet(reservations) /\ ~requested
    BY <2>1, <2>2 DEF Unblocks
  <2>4. reservations' = reservations /\ requested' = requested
    <3>1. Without(reservations, r) = reservations
      BY <2>3 DEF Without, ToSet
    <3> QED BY <2>1, <2>2, <2>3, <3>1 DEF TypeOK
  <2>5. x \in pendingById /\ x # r
    BY <2>1
  <2>6. IsFront(x)
    <3> DEFINE line == pending[QueueOf[x]]
    <3>1. line \in Seq(Run) /\ IsInjective(line) /\ x \in ToSet(line)
      BY <1>x, <2>5 DEF TypeOK, QueueOrRegistry
    <3>2. line # <<>>
      BY <3>1 DEF ToSet
    <3>3. CASE QueueOf[x] # QueueOf[r]
      <4>1. pending'[QueueOf[x]] = line
        BY <1>x, <2>1, <3>3 DEF TypeOK
      <4> QED BY <4>1 DEF IsFront, Waiting, FrontOf
    <3>4. CASE QueueOf[x] = QueueOf[r]
      <4>1. pending'[QueueOf[x]] = Without(line, r)
        BY <1>x, <2>1, <3>4 DEF TypeOK
      <4>2. Head(line) # r
        BY <2>3, <3>2, <3>4 DEF IsFront, Waiting, FrontOf
      <4> HIDE DEF line
      <4>3. Head(Without(line, r)) = Head(line)
        BY <3>1, <3>2, <4>2, WithoutInjective
      <4>4. Head(pending'[QueueOf[x]]) = x
        BY DEF IsFront, FrontOf
      <4> QED BY <3>2, <4>1, <4>3, <4>4 DEF IsFront, Waiting, FrontOf, line
    <3> QED BY <3>3, <3>4
  <2> QED BY <1>s, <2>1, <2>4, <2>5, <2>6
<1>6. ASSUME NEW r \in Run, Finalize(r) \/ Deregister(r) PROVE Placeable(x)' = {}
  <2>1. /\ ReleaseAdmission(r)
        /\ UNCHANGED <<pending, pendingById, reservations, worker, stopping, faults>>
    BY <1>6 DEF Finalize, Deregister
  <2>2. CASE r \in released
    BY <1>0, <2>1, <2>2 DEF ReleaseAdmission
  <2>3. CASE r \notin released
    <3>1. ~requested'
      BY DEF Undisturbed
    <3>2. Reschedule
      BY <2>1, <2>3, <3>1 DEF ReleaseAdmission
    <3> QED BY <1>r, <2>1, <3>2
  <2> QED BY <2>2, <2>3
<1>7. CASE RunRequestedReschedule
  BY <1>r, <1>7 DEF RunRequestedReschedule
<1>8. CASE HoldBegin
  BY <1>0, <1>8 DEF HoldBegin
<1>9. CASE HoldEnd
  <2>1. CASE holds = 1 /\ requested
    BY <1>r, <1>9, <2>1 DEF HoldEnd
  <2>2. CASE ~(holds = 1 /\ requested)
    BY <1>0, <1>9, <2>2 DEF HoldEnd
  <2> QED BY <2>1, <2>2
<1>10. ASSUME NEW w \in Worker, NEW state \in WorkerState, WorkerChanges(w, state)
       PROVE  Placeable(x)' = {}
  BY <1>r, <1>10 DEF WorkerChanges
<1>11. CASE BeginShutdown
  BY <1>11 DEF BeginShutdown, Undisturbed
<1>12. CASE RetireQueue
  BY <1>12 DEF RetireQueue
<1>13. CASE UNCHANGED vars
  BY <1>0, <1>13 DEF vars
<1> QED
  BY <1>1, <1>2, <1>3, <1>4, <1>5, <1>6, <1>7, <1>8, <1>9, <1>10, <1>11, <1>12, <1>13
     DEF Next, Pass

LEMMA InitAsked == Init => FrontsWereAsked
  BY DEF Init, FrontsWereAsked

\* No lost reschedule: between passes, with none owed and nothing raised,
\* every front is one the scheduler refuses, whatever was submitted,
\* cancelled, started or released before (reschedule()'s callers).
THEOREM NoFrontIsForgotten == Spec => []NoStartableFrontWaits
<1> DEFINE Inv == TypeOK /\ QueueOrRegistry /\ SetsReserve /\ FrontsWereAsked
<1>1. Init => Inv
  BY InitType, InitQueue, InitSets, InitAsked
<1>2. Inv /\ [Next]_vars => Inv'
  <2> SUFFICES ASSUME Inv, [Next]_vars PROVE Inv'
    OBVIOUS
  <2>1. TypeOK' /\ QueueOrRegistry'
    BY StepType, StepQueue
  <2> QED BY <2>1, StepSets, StepAsked
<1>3. Inv => NoStartableFrontWaits
  BY DEF FrontsWereAsked, Undisturbed, NoStartableFrontWaits
<1> HIDE DEF Inv
<1> QED BY <1>1, <1>2, <1>3, PTL DEF Spec

\* Oldest first across the queues: a pass starts no run past an older front
\* it could have started (the heap of reschedule()).
THEOREM OldestFrontsFirst == Spec => OldestFrontFirst
<1> DEFINE Inv == /\ TypeOK /\ QueueOrRegistry /\ SetsReserve /\ FrontsWereAsked
                  /\ NoPassAtShutdown
           Oldest == ~requested /\ faults' = 0 /\ SetsTakeWholeCards
                       /\ (\A m \in Machine : Accepts(m)) =>
                         \A r \in active' \ active : \A x \in pendingById :
                           <<x, r>> \in older /\ IsFront(x) => Placeable(x) = {}
<1>1. Init => Inv
  BY InitType, InitQueue, InitSets, InitAsked DEF Init, NoPassAtShutdown
<1>2. Inv /\ [Next]_vars => Inv'
  <2> SUFFICES ASSUME Inv, [Next]_vars PROVE Inv'
    OBVIOUS
  <2>1. TypeOK' /\ QueueOrRegistry'
    BY StepType, StepQueue
  <2> QED BY <2>1, StepSets, StepAsked, StepShutdown
<1>3. Inv /\ [Next]_vars => [Oldest]_vars
  <2> SUFFICES ASSUME Inv, [Next]_vars, ~requested, faults' = 0, SetsTakeWholeCards,
                      \A m \in Machine : Accepts(m),
                      NEW r \in active' \ active, NEW x \in pendingById,
                      <<x, r>> \in older, IsFront(x)
               PROVE  Placeable(x) = {}
    OBVIOUS
  <2>1. PICK q \in Queue : Start(q) /\ r = FrontOf(q)
    BY OnlyStartStarts
  <2>2. Asks(q) /\ faults' = faults
    BY <2>1 DEF Start, passVars
  <2>3. Undisturbed
    BY <2>2 DEF Undisturbed, NoPassAtShutdown, Asks
  <2>4. QueueOf[x] \notin asking
    BY <2>1, <2>2 DEF Asks, IsFront
  <2> QED BY <2>3, <2>4 DEF FrontsWereAsked
<1> HIDE DEF Inv
<1> QED BY <1>1, <1>2, <1>3, PTL DEF Spec, OldestFrontFirst
=============================================================================
