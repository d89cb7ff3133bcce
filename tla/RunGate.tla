------------------------------ MODULE RunGate ------------------------------
(* The reproducibility gate: _RunExclusion of                               *)
(* backend/app/core/run_service.py, taken by RunService._drive and by the   *)
(* headless invoke of routes_graph_run.                                     *)
(*                                                                          *)
(* Everything between two awaits is one step.  The condition's lock is      *)
(* never held across an await of the gate, so it is free at every step and  *)
(* not modelled.  A task that waits on the condition sleeps on a future of  *)
(* its own; a notification resolves it, and the task re-tests later.        *)
EXTENDS Integers, FiniteSets, Sequences, SequencesExt, Lines

CONSTANTS
  Unseeded,    \* runs without a seed: shared()
  Seeded,      \* runs with one: exclusive()
  HandsOn,     \* whether Condition.wait() notifies another waiter when it is
               \* cancelled (newer interpreters do)
  MaxCancels   \* bound: cancellations of tasks that wait or leave

Task == Unseeded \cup Seeded

ASSUME TasksAreFinite == IsFiniteSet(Task)
ASSUME SeededOrNot == Unseeded \cap Seeded = {}
ASSUME GateConstants == HandsOn \in BOOLEAN /\ MaxCancels \in Nat

VARIABLES
  stage,           \* where each task is, see Stage
  readers,         \* _readers
  writer,          \* _writer
  waitingWriters,  \* _waiting_writers
  sleepers,        \* the condition's pending futures, oldest first
  wakes,           \* _notify_all() tasks whose run was cancelled meanwhile
  cancels          \* cancellations so far

vars == <<stage, readers, writer, waitingWriters, sleepers, wakes, cancels>>

\* "asleep": on the condition; "notified": its future is resolved, it has not
\* run yet; "cancelled": CancelledError is on its way into the wait;
\* "leaving": it gave its hold back and awaits its own _notify_all() task.
Stage == {"idle", "asleep", "notified", "cancelled", "inside", "leaving"}

----------------------------------------------------------------------------

\* The predicates of the two wait_for() calls.
\* Mutants: a reader does not mind a waiting writer; a writer does not mind
\* readers.
OpenDespiteWriters == ~writer
OpenDespiteReaders == ~writer
OpenToReaders == ~writer /\ waitingWriters = 0
OpenToWriters == ~writer /\ readers = 0

Sleep(t) ==
  /\ stage' = [stage EXCEPT ![t] = "asleep"]
  /\ sleepers' = Append(sleepers, t)
  /\ UNCHANGED <<readers, writer>>

Enter(t) ==
  /\ stage' = [stage EXCEPT ![t] = "inside"]
  /\ UNCHANGED sleepers

\* async with shared(), up to its first await or its body.
AskShared(t) ==
  /\ t \in Unseeded
  /\ stage[t] = "idle"
  /\ IF OpenToReaders
     THEN Enter(t) /\ readers' = readers + 1 /\ UNCHANGED writer
     ELSE Sleep(t)
  /\ UNCHANGED <<waitingWriters, wakes, cancels>>

\* async with exclusive(): the writer counts as waiting before it tests.
AskExclusive(t) ==
  /\ t \in Seeded
  /\ stage[t] = "idle"
  /\ IF OpenToWriters
     THEN Enter(t) /\ writer' = TRUE /\ UNCHANGED <<readers, waitingWriters>>
     ELSE Sleep(t) /\ waitingWriters' = waitingWriters + 1
  /\ UNCHANGED <<wakes, cancels>>

\* A notified task runs: it enters, or finds the gate shut and sleeps again.
ResumeShared(t) ==
  /\ t \in Unseeded
  /\ stage[t] = "notified"
  /\ IF OpenToReaders
     THEN Enter(t) /\ readers' = readers + 1 /\ UNCHANGED writer
     ELSE Sleep(t)
  /\ UNCHANGED <<waitingWriters, wakes, cancels>>

ResumeExclusive(t) ==
  /\ t \in Seeded
  /\ stage[t] = "notified"
  /\ IF OpenToWriters
     THEN /\ Enter(t) /\ writer' = TRUE
          /\ waitingWriters' = waitingWriters - 1
          /\ UNCHANGED readers
     ELSE Sleep(t) /\ UNCHANGED waitingWriters
  /\ UNCHANGED <<wakes, cancels>>

\* Task.cancel() on a task in the wait: its future no longer counts as
\* pending, or the notification it already got is lost.
Cancel(t) ==
  /\ stage[t] \in {"asleep", "notified"}
  /\ cancels < MaxCancels
  /\ cancels' = cancels + 1
  /\ stage' = [stage EXCEPT ![t] = "cancelled"]
  /\ sleepers' = Without(sleepers, t)
  /\ UNCHANGED <<readers, writer, waitingWriters, wakes>>

\* Mutants: the count of waiting writers stays raised after a cancel; every
\* cancelled task lowers it.
StaysWanted(t) == waitingWriters
LowersAlways(t) == waitingWriters - 1
NoLongerWanted(t) == IF t \in Seeded THEN waitingWriters - 1 ELSE waitingWriters

\* CancelledError leaves the wait: the writer's finally takes its count back.
Unwind(t) ==
  /\ stage[t] = "cancelled"
  /\ waitingWriters' = NoLongerWanted(t)
  /\ IF HandsOn /\ sleepers # <<>>
     THEN /\ sleepers' = Tail(sleepers)
          /\ stage' = [stage EXCEPT ![t] = "idle", ![Head(sleepers)] = "notified"]
     ELSE /\ stage' = [stage EXCEPT ![t] = "idle"]
          /\ UNCHANGED sleepers
  /\ UNCHANGED <<readers, writer, wakes, cancels>>

\* Mutant: whoever leaves wakes nobody.
WakesNobody(left) == "idle"
AfterLeaving(left) == IF left = 0 THEN "leaving" ELSE "idle"

\* The body ended, was cancelled or raised: the hold is given back before the
\* first await of the finally, where the last holder wakes the sleepers.
LeaveShared(t) ==
  /\ t \in Unseeded
  /\ stage[t] = "inside"
  /\ stage' = [stage EXCEPT ![t] = AfterLeaving(readers - 1)]
  /\ readers' = readers - 1
  /\ UNCHANGED <<writer, waitingWriters, sleepers, wakes, cancels>>

LeaveExclusive(t) ==
  /\ t \in Seeded
  /\ stage[t] = "inside"
  /\ stage' = [stage EXCEPT ![t] = AfterLeaving(0)]
  /\ writer' = FALSE
  /\ UNCHANGED <<readers, waitingWriters, sleepers, wakes, cancels>>

\* The wake-up is shielded: a second cancel ends the wait for it, not it.
CancelLeaving(t) ==
  /\ stage[t] = "leaving"
  /\ cancels < MaxCancels
  /\ cancels' = cancels + 1
  /\ stage' = [stage EXCEPT ![t] = "idle"]
  /\ wakes' = wakes + 1
  /\ UNCHANGED <<readers, writer, waitingWriters, sleepers>>

Notified(t) == IF stage[t] = "asleep" THEN "notified" ELSE stage[t]

NotifyAll(t) ==
  /\ stage[t] = "leaving"
  /\ stage' = [x \in Task |-> IF x = t THEN "idle" ELSE Notified(x)]
  /\ sleepers' = <<>>
  /\ UNCHANGED <<readers, writer, waitingWriters, wakes, cancels>>

NotifyAllOrphaned ==
  /\ wakes > 0
  /\ wakes' = wakes - 1
  /\ stage' = [x \in Task |-> Notified(x)]
  /\ sleepers' = <<>>
  /\ UNCHANGED <<readers, writer, waitingWriters, cancels>>

----------------------------------------------------------------------------

Init ==
  /\ stage = [t \in Task |-> "idle"]
  /\ readers = 0
  /\ writer = FALSE
  /\ waitingWriters = 0
  /\ sleepers = <<>>
  /\ wakes = 0
  /\ cancels = 0

Resume(t) == ResumeShared(t) \/ ResumeExclusive(t)
Leave(t) == LeaveShared(t) \/ LeaveExclusive(t)

Next ==
  \/ \E t \in Task : AskShared(t) \/ AskExclusive(t) \/ Resume(t) \/ Leave(t)
                     \/ Cancel(t) \/ Unwind(t) \/ CancelLeaving(t) \/ NotifyAll(t)
  \/ NotifyAllOrphaned

Spec == Init /\ [][Next]_vars

\* The loop runs every ready task, and a run that executes ends.
Fairness ==
  /\ WF_vars(NotifyAllOrphaned)
  /\ \A t \in Task : /\ WF_vars(Resume(t)) /\ WF_vars(Unwind(t))
                     /\ WF_vars(Leave(t)) /\ WF_vars(NotifyAll(t))

FairSpec == Spec /\ Fairness

----------------------------------------------------------------------------
(* Properties *)

Inside(S) == {t \in S : stage[t] = "inside"}
WakeUnderWay == wakes > 0 \/ \E t \in Task : stage[t] = "leaving"
Wanting == {t \in Seeded : stage[t] \in {"asleep", "notified", "cancelled"}}

\* Every variable has its type.
TypeOK ==
  /\ stage \in [Task -> Stage]
  /\ readers \in Nat /\ waitingWriters \in Nat /\ wakes \in Nat
  /\ writer \in BOOLEAN
  /\ sleepers \in Seq(Task)
  /\ cancels \in 0 .. MaxCancels

\* A seeded run executes alone in the process (_RunExclusion's docstring):
\* while it does, no other run of either kind executes.
SeededRunsAlone ==
  \A s \in Inside(Seeded) : Inside(Task) = {s}

\* The counters give back exactly what was taken: none stays raised, which
\* would shut the gate for good, and none is given back twice.
CountersAgree ==
  /\ readers = Cardinality(Inside(Unseeded))
  /\ writer = (Inside(Seeded) # {})
  /\ waitingWriters = Cardinality(Wanting)

\* No lost wake-up for a seeded run: it sleeps only while somebody holds the
\* gate or a wake-up is on its way.
SeededSleepsForAReason ==
  \A t \in Seeded : stage[t] = "asleep" => ~OpenToWriters \/ WakeUnderWay

\* No lost wake-up for an unseeded run: it sleeps only while a seeded run
\* executes or waits, or a wake-up is on its way, until a cancel takes a
\* seeded run out of the line.
UnseededSleepsForAReason ==
  cancels = 0 => \A t \in Unseeded : stage[t] = "asleep" => ~OpenToReaders \/ WakeUnderWay

\* No wake-up is lost, in either queue of the gate.
SleepersHaveAReason == SeededSleepsForAReason /\ UnseededSleepsForAReason

\* What the gate promises, as seen through the stages.
Promise == INSTANCE ReadersWriter
  WITH shared <- Inside(Unseeded), exclusive <- Inside(Seeded), wanted <- Wanting
PromiseSpec == Promise!Spec

\* A trickle of unseeded runs cannot starve the seeded ones: while one sleeps,
\* it or another of them enters, or it was cancelled.
SeededRunEnters ==
  \A t \in Seeded :
    stage[t] = "asleep" ~> stage[t] \in {"inside", "idle"} \/ Inside(Seeded) # {}

=============================================================================
