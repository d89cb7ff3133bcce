--------------------------- MODULE RunScheduling ---------------------------
(* Admission of queued runs: the per-key FIFOs of RunService                *)
(* (backend/app/core/run_service.py), the device slots, the reservations of *)
(* device-set runs and the passes that offer waiting runs to the scheduler  *)
(* (backend/app/core/scheduling.py).                                        *)
(*                                                                          *)
(* reschedule() and _pump() are synchronous: one pass asks the fronts of a  *)
(* set of queues, oldest first, until every one was refused.  A pass is     *)
(* modelled one question at a time: "asking" holds the queues it has still  *)
(* to ask, and every other action waits until it is empty.                  *)
EXTENDS Naturals, FiniteSets, Sequences, FiniteSetsExt, SequencesExt, Lines

CONSTANTS
  Run,          \* run ids; one is reused once the service has forgotten it
  Queue,        \* queue keys: "cuda:0", "any/cuda", "gpu-box/cuda:1"
  Slot,         \* <<worker, device>> pairs
  Worker,       \* worker agents
  Local,        \* this process, as a place to run
  NoPlace,      \* the placement of a run that is not in the registry
  QueueOf,      \* the queue key each run was submitted with
  Places,       \* the places a run may take, in the order place() tries them
  Pinned,       \* runs whose target is one machine (here or a named worker)
  Offerer,      \* the machine a slot belongs to
  Card,         \* the physical device a slot is on (registry.card_slots)
  Cap,          \* the concurrency cap of a slot (QueueLimits.for_slot)
  MaxFaults,    \* bound: placements and starts that raise
  MaxHolds,     \* bound: nested deferred_reschedule blocks
  CanShutDown   \* bound: whether the server may begin its shutdown

Machine == Worker \cup {Local}
Place == [worker : Machine, slots : SUBSET Slot]

ASSUME RunsAreFinite == IsFiniteSet(Run)
ASSUME SlotsAreFinite == IsFiniteSet(Slot)
ASSUME LocalIsNoWorker == Local \notin Worker
ASSUME QueueOfType == QueueOf \in [Run -> Queue]
ASSUME PlacesType == /\ Places \in [Run -> Seq(Place)]
                     /\ \A r \in Run : Len(Places[r]) > 0
ASSUME PlacesHoldSlots ==
  \A r \in Run : \A i \in DOMAIN Places[r] : Places[r][i].slots # {}
ASSUME PinnedSetsHaveOnePlace ==
  \A r \in Pinned \cap Run :
    Cardinality(Places[r][1].slots) > 1 => Len(Places[r]) = 1
ASSUME NoPlaceIsNoPlace == NoPlace \notin Place
ASSUME SlotConstants == /\ Offerer \in [Slot -> Machine]
                        /\ Cap \in [Slot -> Nat \ {0}]
                        /\ DOMAIN Card = Slot
ASSUME BoundsType == /\ MaxFaults \in Nat
                     /\ MaxHolds \in Nat
                     /\ CanShutDown \in BOOLEAN

VARIABLES
  pending,      \* _pending: the FIFO of each queue key
  pendingById,  \* _pending_by_id: the runs that wait
  older,        \* pairs <<a, b>> of waiting runs, a's submit seq before b's
  active,       \* _runs: the registry of started runs
  placement,    \* _ActiveRun.placement
  released,     \* registry entries whose admission_released is set
  slots,        \* _slots: how many runs hold each slot
  reservations, \* _reservations: runs that reserve, in insertion order
  worker,       \* each worker: "online", "draining" or "offline"
  asking,       \* queues the pass under way has still to ask
  requested,    \* _reschedule_requested
  holds,        \* _reschedule_holds
  stopping,     \* _shutting_down
  faults        \* placements and starts that raised so far

queueVars == <<pending, pendingById, older, reservations>>
slotVars == <<active, placement, released, slots>>
passVars == <<requested, holds, stopping, faults>>
vars == <<queueVars, slotVars, worker, asking, passVars>>

----------------------------------------------------------------------------
(* The queues *)

FrontOf(q) == Head(pending[q])
Waiting(q) == pending[q] # <<>>
IsFront(r) == Waiting(QueueOf[r]) /\ FrontOf(QueueOf[r]) = r

Forget(r) == {p \in older : p[1] # r /\ p[2] # r}

\* What a run whose start raised is put back in front of.
\* Mutant: it goes to the back.
PutBackLast(q) == Append(Tail(pending[q]), FrontOf(q))
PutBack(q) == <<FrontOf(q)>> \o Tail(pending[q])

\* Whether r's leaving the line may let another run start.
\* Mutant: nobody reschedules after a cancel.
UnblocksNobody(r) == FALSE
Unblocks(r) == IsFront(r) \/ r \in ToSet(reservations)

\* The queues a full pass asks: every FIFO that holds a run.
Reschedule == asking' = IF stopping THEN {} ELSE {q \in Queue : Waiting(q)}

----------------------------------------------------------------------------
(* What the scheduler answers *)

Accepts(m) == m = Local \/ worker[m] = "online"
Online(m) == m = Local \/ worker[m] # "offline"

\* Every slot on the physical device of s, and the runs that hold them.
SameCard(s) == {k \in Slot : Card[k] = Card[s]}
\* Mutant: each slot is counted on its own.
HeldOnSlot(s) == slots[s]
Held(s) == MapThenSumSet(LAMBDA k : slots[k], SameCard(s))

\* The smallest cap among s and the other slots of its card that are online
\* or hold a run.
Limit(s) == Min({Cap[k] : k \in {j \in SameCard(s) :
                              j = s \/ slots[j] > 0 \/ Online(Offerer[j])}})

ReservedSlots(r) == Places[r][1].slots

\* Mutant: every reservation but its own blocks a run.
ReservedByOthers(r) ==
  UNION {ReservedSlots(x) : x \in ToSet(reservations) \ {r}}

\* The slots r sees as full because a run reserved them first: every
\* reservation, or those before its own.
ReservedAhead(r) ==
  UNION {ReservedSlots(reservations[i]) :
           i \in {j \in DOMAIN reservations :
                    \A k \in 1 .. j : reservations[k] # r}}

Free(s, r) == /\ SameCard(s) \cap ReservedAhead(r) = {}
              /\ Held(s) < Limit(s)

Placeable(r) == {i \in DOMAIN Places[r] :
                   /\ Accepts(Places[r][i].worker)
                   /\ \A s \in Places[r][i].slots : Free(s, r)}

\* The scheduler's answer: the first place that takes r, or none.
Placements(r) ==
  {Places[r][i] : i \in {j \in Placeable(r) : \A k \in Placeable(r) : j <= k}}

\* Mutant: nobody reserves.
ReservesNever(r) == FALSE

\* A device-set run of one machine reserves its slots while it is refused,
\* as long as that machine accepts runs.
Reserves(r) == /\ r \in Pinned
               /\ Accepts(Places[r][1].worker)
               /\ Cardinality(ReservedSlots(r)) > 1

----------------------------------------------------------------------------
(* One question of a pass *)

\* Mutant: a pass asks the queues in any order.
AsksAny(q) == q \in asking /\ Waiting(q)

\* The queue a pass asks next: the one whose front was submitted first.
Asks(q) == /\ q \in asking
           /\ Waiting(q)
           /\ \A p \in asking : Waiting(p) => <<FrontOf(p), FrontOf(q)>> \notin older

\* The front was refused: it reserves, or no longer reserves, its slots.
Refuse(q) ==
  LET r == FrontOf(q) IN
  /\ Asks(q)
  /\ Placeable(r) = {}
  /\ reservations' = IF ~Reserves(r) THEN Without(reservations, r)
                     ELSE IF r \in ToSet(reservations) THEN reservations
                     ELSE Append(reservations, r)
  /\ asking' = asking \ {q}
  /\ UNCHANGED <<pending, pendingById, older, slotVars, worker, passVars>>

\* The front starts: it leaves the queue, takes every slot of its placement
\* and enters the registry in one step.
Start(q) ==
  LET r == FrontOf(q) IN
  /\ Asks(q)
  /\ pending' = [pending EXCEPT ![q] = Tail(@)]
  /\ pendingById' = pendingById \ {r}
  /\ older' = Forget(r)
  /\ reservations' = Without(reservations, r)
  /\ \E p \in Placements(r) :
       /\ placement' = [placement EXCEPT ![r] = p]
       /\ slots' = [s \in Slot |-> IF s \in p.slots THEN slots[s] + 1 ELSE slots[s]]
  /\ active' = active \cup {r}
  /\ released' = released \ {r}
  /\ asking' = IF Len(pending[q]) = 1 THEN asking \ {q} ELSE asking
  /\ UNCHANGED <<worker, passVars>>

\* The scheduler raised: the front stays where it is, nothing else changes.
PlaceRaises(q) ==
  /\ Asks(q)
  /\ faults < MaxFaults
  /\ faults' = faults + 1
  /\ asking' = asking \ {q}
  /\ UNCHANGED <<queueVars, slotVars, worker, requested, holds, stopping>>

\* The start raised before it took anything: the run goes back to the front
\* of its queue, without the reservation it had.
StartRaises(q) ==
  LET r == FrontOf(q) IN
  /\ Asks(q)
  /\ Placeable(r) # {}
  /\ faults < MaxFaults
  /\ faults' = faults + 1
  /\ pending' = [pending EXCEPT ![q] = PutBack(q)]
  /\ pendingById' = (pendingById \ {r}) \cup {r}
  /\ reservations' = Without(reservations, r)
  /\ asking' = asking \ {q}
  /\ UNCHANGED <<older, slotVars, worker, requested, holds, stopping>>

Pass == \E q \in Queue : Refuse(q) \/ Start(q) \/ PlaceRaises(q) \/ StartRaises(q)

----------------------------------------------------------------------------
(* What happens between passes *)

\* submit(), once its row exists: join the back of the line and pump it.
Submit(r) ==
  /\ asking = {}
  /\ ~stopping
  /\ r \notin pendingById \cup active
  /\ pending' = [pending EXCEPT ![QueueOf[r]] = Append(@, r)]
  /\ pendingById' = pendingById \cup {r}
  /\ older' = older \cup {<<x, r>> : x \in pendingById}
  /\ asking' = {QueueOf[r]}
  /\ UNCHANGED <<reservations, slotVars, worker, passVars>>

\* Mutant: a run taken out of line keeps its reservation.
DequeueKeeps(r) ==
  /\ asking = {}
  /\ r \in pendingById
  /\ pending' = [pending EXCEPT ![QueueOf[r]] = Without(@, r)]
  /\ pendingById' = pendingById \ {r}
  /\ older' = Forget(r)
  /\ requested' = (requested \/ Unblocks(r))
  /\ UNCHANGED <<reservations, slotVars, worker, asking, holds, stopping, faults>>

\* _dequeue(): a cancel, an expiry or a removed worker takes r out of line.
Dequeue(r) ==
  /\ asking = {}
  /\ r \in pendingById
  /\ pending' = [pending EXCEPT ![QueueOf[r]] = Without(@, r)]
  /\ pendingById' = pendingById \ {r}
  /\ older' = Forget(r)
  /\ reservations' = Without(reservations, r)
  /\ requested' = (requested \/ Unblocks(r))
  /\ UNCHANGED <<slotVars, worker, asking, holds, stopping, faults>>

\* The deferred reschedule, on the loop after the step that asked for it.
RunRequestedReschedule ==
  /\ asking = {}
  /\ requested
  /\ holds = 0
  /\ requested' = FALSE
  /\ Reschedule
  /\ UNCHANGED <<queueVars, slotVars, worker, holds, stopping, faults>>

\* A bulk cancel holds rescheduling back; the outermost exit runs it.
HoldBegin ==
  /\ asking = {}
  /\ holds < MaxHolds
  /\ holds' = holds + 1
  /\ UNCHANGED <<queueVars, slotVars, worker, asking, requested, stopping, faults>>

HoldEnd ==
  /\ asking = {}
  /\ holds > 0
  /\ holds' = holds - 1
  /\ IF holds = 1 /\ requested
     THEN requested' = FALSE /\ Reschedule
     ELSE UNCHANGED <<requested, asking>>
  /\ UNCHANGED <<queueVars, slotVars, worker, stopping, faults>>

\* Mutant: the second call releases again.
ReleaseTwice(r) ==
  /\ slots' = [s \in Slot |-> IF s \in placement[r].slots
                              THEN slots[s] - 1 ELSE slots[s]]
  /\ Reschedule
  /\ UNCHANGED requested

\* _release_admission(), the part every ending of r shares: a second call
\* for the same run does nothing.
ReleaseAdmission(r) ==
  IF r \in released
  THEN UNCHANGED <<slots, requested, asking>>
  ELSE /\ slots' = [s \in Slot |-> IF s \in placement[r].slots /\ slots[s] > 0
                                   THEN slots[s] - 1 ELSE slots[s]]
       /\ IF holds > 0
          THEN requested' = TRUE /\ UNCHANGED asking
          ELSE Reschedule /\ UNCHANGED requested

\* The first line of _finalize(): the graph is done, the slots go back while
\* the run is still in the registry.
Finalize(r) ==
  /\ asking = {}
  /\ r \in active \ released
  /\ ReleaseAdmission(r)
  /\ released' = released \cup {r}
  /\ UNCHANGED <<queueVars, active, placement, worker, holds, stopping, faults>>

\* The finally of _drive(), after _finalize() or, for a hard cancel or a
\* vanished row, without it: leave the registry, then release.
Deregister(r) ==
  /\ asking = {}
  /\ r \in active
  /\ ReleaseAdmission(r)
  /\ active' = active \ {r}
  /\ released' = released \ {r}
  /\ placement' = [placement EXCEPT ![r] = NoPlace]
  /\ UNCHANGED <<queueVars, worker, holds, stopping, faults>>

\* A worker connects, drains, undrains or goes away: the registry's listener
\* reschedules at once, whatever is held back.
WorkerChanges(w, state) ==
  /\ asking = {}
  /\ worker[w] # state
  /\ worker' = [worker EXCEPT ![w] = state]
  /\ Reschedule
  /\ UNCHANGED <<queueVars, slotVars, passVars>>

\* shutdown() refuses every start from its first statement on...
BeginShutdown ==
  /\ asking = {}
  /\ CanShutDown
  /\ ~stopping
  /\ stopping' = TRUE
  /\ UNCHANGED <<queueVars, slotVars, worker, asking, requested, holds, faults>>

\* ... and empties both indexes and the reservations in one step.
RetireQueue ==
  /\ asking = {}
  /\ stopping
  /\ pendingById # {}
  /\ pending' = [q \in Queue |-> <<>>]
  /\ pendingById' = {}
  /\ older' = {}
  /\ reservations' = <<>>
  /\ UNCHANGED <<slotVars, worker, asking, passVars>>

----------------------------------------------------------------------------

WorkerState == {"online", "draining", "offline"}

Init ==
  /\ pending = [q \in Queue |-> <<>>]
  /\ pendingById = {}
  /\ older = {}
  /\ active = {}
  /\ placement = [r \in Run |-> NoPlace]
  /\ released = {}
  /\ slots = [s \in Slot |-> 0]
  /\ reservations = <<>>
  /\ worker \in [Worker -> {"online", "offline"}]
  /\ asking = {}
  /\ requested = FALSE
  /\ holds = 0
  /\ stopping = FALSE
  /\ faults = 0

Next ==
  \/ Pass
  \/ \E r \in Run : Submit(r) \/ Dequeue(r) \/ Finalize(r) \/ Deregister(r)
  \/ RunRequestedReschedule \/ HoldBegin \/ HoldEnd
  \/ \E w \in Worker, state \in WorkerState : WorkerChanges(w, state)
  \/ BeginShutdown \/ RetireQueue

Spec == Init /\ [][Next]_vars

\* A pass is one synchronous step of the loop, a requested reschedule is a
\* callback the loop runs, a bulk cancel ends, and a started run ends: its
\* executor returns and its task runs to its finally.  The last three are
\* disabled while a pass is under way, which the loop never sees: hence SF.
Fairness ==
  /\ WF_vars(Pass)
  /\ SF_vars(RunRequestedReschedule)
  /\ SF_vars(HoldEnd)
  /\ \A r \in Run : SF_vars(Deregister(r))

FairSpec == Spec /\ Fairness

----------------------------------------------------------------------------
(* Properties *)

\* Every variable has its type.
TypeOK ==
  /\ pending \in [Queue -> Seq(Run)]
  /\ pendingById \subseteq Run
  /\ older \subseteq Run \X Run
  /\ active \subseteq Run
  /\ placement \in [Run -> Place \cup {NoPlace}]
  /\ released \subseteq active
  /\ slots \in [Slot -> Nat]
  /\ reservations \in Seq(Run)
  /\ worker \in [Worker -> WorkerState]
  /\ asking \subseteq Queue
  /\ requested \in BOOLEAN
  /\ holds \in 0 .. MaxHolds
  /\ stopping \in BOOLEAN
  /\ faults \in 0 .. MaxFaults

\* "In the queue" and "in the registry" exclude each other (cancel()'s
\* docstring), and the two indexes of the queue agree: a run waits in
\* exactly one place of exactly one FIFO, its own.
QueueOrRegistry ==
  /\ pendingById \cap active = {}
  /\ \A q \in Queue : IsInjective(pending[q])
  /\ \A q \in Queue : ToSet(pending[q]) = {r \in pendingById : QueueOf[r] = q}

\* The runs that hold slot s: started on it and not yet released.
Holders(s) == {r \in active \ released : s \in placement[r].slots}

\* Slot accounting never drifts, however a run ended and however often its
\* ending released it: the count of a slot is the number of its holders.
SlotsAreHeld == \A s \in Slot : slots[s] = Cardinality(Holders(s))

\* A physical device is never used past the largest cap of its offerers,
\* whichever of its slots the runs on it took.
CardWithinCap ==
  \A s \in Slot :
    Cardinality(UNION {Holders(k) : k \in SameCard(s)}) <= Max({Cap[k] : k \in SameCard(s)})

\* Only a run at the front of its line keeps a reservation, once: however runs
\* are cancelled, started, put back or submitted behind it, cards are never
\* held idle for one that is gone, runs already or stands behind another.
ReservedRunsAreFronts ==
  /\ IsInjective(reservations)
  /\ \A r \in ToSet(reservations) : r \in pendingById /\ IsFront(r)

\* Every card a set run reserves admits one run at a time, as an accelerator
\* does unless its cap is raised (QueueLimits.gpu).
SetsTakeWholeCards ==
  \A r \in Pinned : Cardinality(ReservedSlots(r)) > 1 =>
    \A s \in ReservedSlots(r) : \E k \in SameCard(s) : Cap[k] = 1

\* No lost reschedule: when no pass is under way or promised, every front of
\* a line is one the scheduler would refuse.  A fault may leave one behind.
\* So may a reservation the pass drops after it asked the older fronts that
\* blocked: that of a worker's set run when the worker stops accepting runs,
\* and that of a set run which starts and leaves room on its cards.
NoStartableFrontWaits ==
  (/\ asking = {} /\ ~requested /\ holds = 0 /\ ~stopping /\ faults = 0
   /\ SetsTakeWholeCards /\ \A m \in Machine : Accepts(m))
     => \A r \in pendingById : IsFront(r) => Placeable(r) = {}

\* Strict FIFO: a run never starts while one submitted before it waits in
\* the same queue, whatever was cancelled, raised or put back in between.
NothingOvertakes ==
  [][\A r \in active' \ active : \A x \in pendingById :
       QueueOf[x] = QueueOf[r] => <<x, r>> \notin older]_vars

\* Oldest first across queues: unless a reschedule is still owed or one of the
\* exceptions of NoStartableFrontWaits left a front behind, a run that starts
\* passes no older front the scheduler would have placed at that moment.
OldestFrontFirst ==
  [][~requested /\ faults' = 0 /\ SetsTakeWholeCards /\ (\A m \in Machine : Accepts(m)) =>
       \A r \in active' \ active : \A x \in pendingById :
         <<x, r>> \in older /\ IsFront(x) => Placeable(x) = {}]_vars

\* Nothing starts once the shutdown began.
NothingStartsAtShutdown == [][stopping => active' \subseteq active]_vars

\* Every waiting run leaves the line in the end: "A long line on one queue
\* must not starve another queue on its slot" (test_scheduling.py).
EveryRunStarts == \A r \in Run : r \in pendingById ~> r \notin pendingById

SetRuns == {r \in Run : Cardinality(ReservedSlots(r)) > 1}

\* A set run waits while another one waits or runs.
LineOfSetRuns ==
  \E x \in SetRuns \cap (pendingById \cup active), y \in SetRuns \cap pendingById : x # y

\* A set run that reserves its cards gets them: later runs do not starve it,
\* and set runs of several queues do not wait for one another ("two set runs
\* cannot block each other", _admission_view).  Nor do set runs starve a
\* single-device run for good, unless they keep forming a line.
WaitingRunsStart ==
  /\ \A r \in Run : r \in ToSet(reservations) ~> r \notin pendingById
  /\ <>[]~LineOfSetRuns => EveryRunStarts

=============================================================================
