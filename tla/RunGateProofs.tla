--------------------------- MODULE RunGateProofs ---------------------------
(* Proofs about the reproducibility gate, for any runs and any number of    *)
(* cancels, on interpreters of both kinds.                                  *)
EXTENDS RunGate, LineTheorems, FiniteSetTheorems

----------------------------------------------------------------------------
(* The inductive invariant *)

Waiting == {"asleep", "notified", "cancelled"}

\* The condition's pending futures are those of the tasks asleep, one each.
OneFutureEach ==
  /\ IsInjective(sleepers)
  /\ \A t \in Task : t \in ToSet(sleepers) <=> stage[t] = "asleep"

IInv == TypeOK /\ CountersAgree /\ SeededRunsAlone /\ OneFutureEach

----------------------------------------------------------------------------
(* What a step does to those who hold the gate and those who want it *)

\* Task t goes to stage v; tasks asleep may be notified.
MovesOne(t, v) ==
  /\ stage' \in [Task -> Stage] /\ stage'[t] = v
  /\ \A x \in Task \ {t} : stage'[x] = stage[x] \/ (stage[x] = "asleep" /\ stage'[x] = "notified")

\* Tasks asleep may be notified, nobody else moves.
MovesNone ==
  /\ stage' \in [Task -> Stage]
  /\ \A x \in Task : stage'[x] = stage[x] \/ (stage[x] = "asleep" /\ stage'[x] = "notified")

LEMMA MovesOneEffect ==
  ASSUME TypeOK, NEW t \in Task, NEW v \in Stage, MovesOne(t, v)
  PROVE  /\ Inside(Unseeded)' = IF t \in Unseeded /\ v = "inside" THEN Inside(Unseeded) \cup {t}
                                ELSE Inside(Unseeded) \ {t}
         /\ Inside(Seeded)' = IF t \in Seeded /\ v = "inside" THEN Inside(Seeded) \cup {t}
                              ELSE Inside(Seeded) \ {t}
         /\ Wanting' = IF t \in Seeded /\ v \in Waiting THEN Wanting \cup {t}
                       ELSE Wanting \ {t}
<1>1. \A x \in Task \ {t} : /\ stage'[x] = "inside" <=> stage[x] = "inside"
                            /\ stage'[x] \in Waiting <=> stage[x] \in Waiting
  BY DEF MovesOne, Waiting
<1>2. Unseeded \subseteq Task /\ Seeded \subseteq Task /\ stage'[t] = v
  BY DEF Task, MovesOne
<1>3. Inside(Unseeded)' = {x \in Unseeded : stage'[x] = "inside"}
      /\ Inside(Seeded)' = {x \in Seeded : stage'[x] = "inside"}
      /\ Wanting' = {x \in Seeded : stage'[x] \in Waiting}
      /\ Wanting = {x \in Seeded : stage[x] \in Waiting}
  BY DEF Inside, Wanting, Waiting
<1>4. Inside(Unseeded) = {x \in Unseeded : stage[x] = "inside"}
      /\ Inside(Seeded) = {x \in Seeded : stage[x] = "inside"}
  BY DEF Inside
<1>5. Inside(Unseeded)' = IF t \in Unseeded /\ v = "inside" THEN Inside(Unseeded) \cup {t}
                          ELSE Inside(Unseeded) \ {t}
  BY <1>1, <1>2, <1>3, <1>4
<1>6. Inside(Seeded)' = IF t \in Seeded /\ v = "inside" THEN Inside(Seeded) \cup {t}
                        ELSE Inside(Seeded) \ {t}
  BY <1>1, <1>2, <1>3, <1>4
<1>7. Wanting' = IF t \in Seeded /\ v \in Waiting THEN Wanting \cup {t} ELSE Wanting \ {t}
  BY <1>1, <1>2, <1>3
<1> QED BY <1>5, <1>6, <1>7

LEMMA MovesNoneEffect ==
  ASSUME TypeOK, MovesNone
  PROVE  Inside(Unseeded)' = Inside(Unseeded) /\ Inside(Seeded)' = Inside(Seeded)
         /\ Wanting' = Wanting
<1>1. \A x \in Task : /\ stage'[x] = "inside" <=> stage[x] = "inside"
                      /\ stage'[x] \in Waiting <=> stage[x] \in Waiting
  BY DEF MovesNone, Waiting
<1>2. Unseeded \subseteq Task /\ Seeded \subseteq Task
  BY DEF Task
<1> QED BY <1>1, <1>2 DEF Inside, Wanting, Waiting

\* Those who hold the gate or want it are finitely many, so that counting
\* them is counting.
LEMMA Countable ==
  ASSUME NEW S \in SUBSET Task
  PROVE  /\ IsFiniteSet(S) /\ Cardinality(S) \in Nat /\ (Cardinality(S) = 0 <=> S = {})
         /\ \A x : /\ Cardinality(S \cup {x}) = IF x \in S THEN Cardinality(S)
                                                ELSE Cardinality(S) + 1
                   /\ Cardinality(S \ {x}) = IF x \in S THEN Cardinality(S) - 1
                                             ELSE Cardinality(S)
<1>1. IsFiniteSet(S)
  BY TasksAreFinite, FS_Subset
<1> QED BY <1>1, FS_CardinalityType, FS_EmptySet, FS_AddElement, FS_RemoveElement

LEMMA HoldersAreTasks ==
  /\ Inside(Unseeded) \in SUBSET Task /\ Inside(Seeded) \in SUBSET Task
  /\ Wanting \in SUBSET Task
BY DEF Inside, Wanting, Task

\* Who is inside, in terms of the counters.
LEMMA Readings ==
  ASSUME IInv
  PROVE  /\ readers = 0 <=> Inside(Unseeded) = {}
         /\ ~writer <=> Inside(Seeded) = {}
         /\ waitingWriters = 0 <=> Wanting = {}
         /\ Inside(Seeded) # {} => Inside(Unseeded) = {} /\ \E s \in Seeded : Inside(Seeded) = {s}
<1>1. /\ readers = 0 <=> Inside(Unseeded) = {}
      /\ ~writer <=> Inside(Seeded) = {}
      /\ waitingWriters = 0 <=> Wanting = {}
  BY HoldersAreTasks, Countable DEF IInv, CountersAgree
<1>2. ASSUME NEW s \in Inside(Seeded)
      PROVE  Inside(Unseeded) = {} /\ Inside(Seeded) = {s} /\ s \in Seeded
  <2>1. Inside(Task) = {s} /\ s \in Seeded
    BY <1>2 DEF IInv, SeededRunsAlone, Inside
  <2>2. Inside(Seeded) \subseteq Inside(Task) /\ Inside(Unseeded) \subseteq Inside(Task)
        /\ s \notin Unseeded
    BY <2>1, SeededOrNot DEF Inside, Task
  <2> QED BY <1>2, <2>1, <2>2 DEF Inside
<1> QED BY <1>1, <1>2

\* One task inside at most, or none seeded.
LEMMA AloneBySets ==
  ASSUME \/ Inside(Seeded)' = {}
         \/ Inside(Unseeded)' = {} /\ \E s \in Seeded : Inside(Seeded)' = {s}
  PROVE  SeededRunsAlone'
<1>1. Inside(Task)' = Inside(Unseeded)' \cup Inside(Seeded)'
  BY DEF Inside, Task
<1> QED BY <1>1 DEF SeededRunsAlone

----------------------------------------------------------------------------
(* The futures *)

\* A task that falls asleep gets a future at the end of the deque.
LEMMA SleepFutures ==
  ASSUME IInv, NEW t \in Task, stage[t] # "asleep", Sleep(t)
  PROVE  /\ OneFutureEach' /\ sleepers' \in Seq(Task) /\ MovesOne(t, "asleep")
         /\ readers' = readers /\ writer' = writer
<1>1. t \notin ToSet(sleepers) /\ sleepers \in Seq(Task)
  BY DEF IInv, TypeOK, OneFutureEach
<1>2. /\ sleepers' \in Seq(Task) /\ IsInjective(sleepers')
      /\ ToSet(sleepers') = ToSet(sleepers) \cup {t}
  BY <1>1, AppendShape DEF Sleep, IInv, OneFutureEach
<1>3. stage' = [stage EXCEPT ![t] = "asleep"] /\ stage \in [Task -> Stage]
  BY DEF Sleep, IInv, TypeOK
<1>4. MovesOne(t, "asleep")
  BY <1>3 DEF MovesOne, Stage
<1>5. \A x \in Task : x \in ToSet(sleepers') <=> stage'[x] = "asleep"
  BY <1>2, <1>3 DEF IInv, OneFutureEach
<1> QED BY <1>2, <1>4, <1>5 DEF OneFutureEach, Sleep

\* A task that is not asleep moves elsewhere: no future is concerned.
LEMMA MoveFutures ==
  ASSUME IInv, NEW t \in Task, NEW v \in Stage, stage[t] # "asleep", v # "asleep",
         stage' = [stage EXCEPT ![t] = v], UNCHANGED sleepers
  PROVE  OneFutureEach' /\ sleepers' \in Seq(Task) /\ MovesOne(t, v)
<1>1. stage \in [Task -> Stage] /\ sleepers \in Seq(Task) /\ sleepers' = sleepers
  BY DEF IInv, TypeOK
<1>2. MovesOne(t, v)
  BY <1>1 DEF MovesOne
<1>3. \A x \in Task : stage'[x] = "asleep" <=> stage[x] = "asleep"
  BY <1>1
<1>4. IsInjective(sleepers) /\ \A x \in Task : x \in ToSet(sleepers) <=> stage[x] = "asleep"
  BY DEF IInv, OneFutureEach
<1> QED BY <1>1, <1>2, <1>3, <1>4 DEF OneFutureEach

\* A cancelled task's future counts as pending no more.
LEMMA CancelFutures ==
  ASSUME IInv, NEW t \in Task, Cancel(t)
  PROVE  OneFutureEach' /\ sleepers' \in Seq(Task) /\ MovesOne(t, "cancelled")
<1>1. stage \in [Task -> Stage] /\ sleepers \in Seq(Task) /\ IsInjective(sleepers)
      /\ stage' = [stage EXCEPT ![t] = "cancelled"] /\ sleepers' = Without(sleepers, t)
  BY DEF IInv, TypeOK, OneFutureEach, Cancel
<1>2. /\ sleepers' \in Seq(Task) /\ IsInjective(sleepers')
      /\ ToSet(sleepers') = ToSet(sleepers) \ {t}
  BY <1>1, WithoutIsSubsequence, WithoutInjective
<1>3. MovesOne(t, "cancelled")
  BY <1>1 DEF MovesOne, Stage
<1>4. \A x \in Task : x \in ToSet(sleepers') <=> stage'[x] = "asleep"
  BY <1>1, <1>2 DEF IInv, OneFutureEach
<1> QED BY <1>2, <1>3, <1>4 DEF OneFutureEach

\* A cancelled waiter may hand its turn to the oldest one.
LEMMA UnwindFutures ==
  ASSUME IInv, NEW t \in Task, Unwind(t)
  PROVE  OneFutureEach' /\ sleepers' \in Seq(Task) /\ MovesOne(t, "idle")
<1>1. stage \in [Task -> Stage] /\ sleepers \in Seq(Task) /\ IsInjective(sleepers)
      /\ stage[t] = "cancelled" /\ "idle" \in Stage /\ "notified" \in Stage
  BY DEF IInv, TypeOK, OneFutureEach, Unwind, Stage
<1>2. CASE HandsOn /\ sleepers # <<>>
  <2> DEFINE h == Head(sleepers)
  <2>1. h \in Task /\ h \in ToSet(sleepers)
    BY <1>1, <1>2, TailProperties
  <2>2. stage[h] = "asleep" /\ h # t
    BY <1>1, <2>1 DEF IInv, OneFutureEach
  <2>3. sleepers' = Tail(sleepers)
        /\ stage' = [stage EXCEPT ![t] = "idle", ![h] = "notified"]
    BY <1>2 DEF Unwind
  <2>4. /\ sleepers' \in Seq(Task) /\ IsInjective(sleepers')
        /\ ToSet(sleepers') = ToSet(sleepers) \ {h}
    BY <1>1, <1>2, <2>3, TailProperties, TailInjective
  <2> HIDE DEF h
  <2>5. MovesOne(t, "idle")
    BY <1>1, <2>1, <2>2, <2>3 DEF MovesOne
  <2>6. \A x \in Task : x \in ToSet(sleepers') <=> stage'[x] = "asleep"
    BY <1>1, <2>1, <2>2, <2>3, <2>4 DEF IInv, OneFutureEach
  <2> QED BY <2>4, <2>5, <2>6 DEF OneFutureEach
<1>3. CASE ~(HandsOn /\ sleepers # <<>>)
  <2>1. stage' = [stage EXCEPT ![t] = "idle"] /\ UNCHANGED sleepers
    BY <1>3 DEF Unwind
  <2> QED BY <1>1, <2>1, MoveFutures
<1> QED BY <1>2, <1>3

\* After a notification nobody is asleep.
LEMMA NotifyFutures ==
  ASSUME IInv, sleepers' = <<>>, NEW R \in SUBSET Task, \A t \in R : stage[t] # "asleep",
         stage' = [x \in Task |-> IF x \in R THEN "idle" ELSE Notified(x)]
  PROVE  OneFutureEach' /\ sleepers' \in Seq(Task) /\ stage' \in [Task -> Stage]
         /\ \A x \in Task \ R : stage'[x] = stage[x] \/ (stage[x] = "asleep" /\ stage'[x] = "notified")
<1>1. IsInjective(<<>>) /\ ToSet(<<>>) = {} /\ <<>> \in Seq(Task)
  BY DEF IsInjective, ToSet
<1>2. stage' \in [Task -> Stage] /\ \A x \in Task : stage'[x] # "asleep"
  BY DEF Notified, IInv, TypeOK, Stage
<1>3. \A x \in Task \ R : stage'[x] = stage[x] \/ (stage[x] = "asleep" /\ stage'[x] = "notified")
  BY DEF Notified
<1>4. IsInjective(sleepers') /\ ToSet(sleepers') = {} /\ sleepers' \in Seq(Task)
  BY <1>1
<1> QED BY <1>2, <1>3, <1>4 DEF OneFutureEach

----------------------------------------------------------------------------
(* The steps *)

\* A step after which the same runs hold the gate and want it.
LEMMA NothingMoves ==
  ASSUME IInv, TypeOK', OneFutureEach', UNCHANGED <<readers, writer, waitingWriters>>,
         Inside(Unseeded)' = Inside(Unseeded), Inside(Seeded)' = Inside(Seeded),
         Wanting' = Wanting
  PROVE  IInv' /\ UNCHANGED Promise!gateVars
<1>1. CountersAgree'
  BY DEF IInv, CountersAgree
<1>2. SeededRunsAlone'
  BY Readings, AloneBySets
<1> QED BY <1>1, <1>2 DEF IInv, Promise!gateVars

\* An unseeded run enters: it finds nobody seeded, inside or waiting.
LEMMA EnterShared ==
  ASSUME IInv, NEW t \in Unseeded, stage[t] \in {"idle", "notified"},
         OpenToReaders, Enter(t), readers' = readers + 1,
         UNCHANGED <<writer, waitingWriters, wakes, cancels>>
  PROVE  IInv' /\ Promise!Next
<1>1. t \in Task /\ t \notin Seeded /\ "inside" \in Stage
  BY SeededOrNot DEF Task, Stage
<1>2. OneFutureEach' /\ sleepers' \in Seq(Task) /\ MovesOne(t, "inside")
  BY <1>1, MoveFutures DEF Enter
<1>3. TypeOK'
  BY <1>2 DEF IInv, TypeOK, MovesOne
<1>4. /\ Inside(Unseeded)' = Inside(Unseeded) \cup {t} /\ Inside(Seeded)' = Inside(Seeded)
      /\ Wanting' = Wanting /\ t \notin Inside(Unseeded)
  <2>1. t \notin Inside(Seeded) /\ t \notin Wanting /\ t \notin Inside(Unseeded)
    BY <1>1 DEF Inside, Wanting
  <2>2. /\ Inside(Unseeded)' = Inside(Unseeded) \cup {t}
        /\ Inside(Seeded)' = Inside(Seeded) \ {t} /\ Wanting' = Wanting \ {t}
    BY <1>1, <1>2, MovesOneEffect DEF IInv
  <2> QED BY <2>1, <2>2
<1>5. Inside(Seeded) = {} /\ Wanting = {}
  BY Readings DEF OpenToReaders
<1>6. CountersAgree'
  <2>1. Cardinality(Inside(Unseeded) \cup {t}) = Cardinality(Inside(Unseeded)) + 1
    BY <1>4, HoldersAreTasks, Countable
  <2> QED BY <1>4, <2>1 DEF IInv, CountersAgree
<1>7. SeededRunsAlone'
  BY <1>4, <1>5, AloneBySets
<1>8. Promise!Share(t)
  BY <1>4, <1>5 DEF Promise!Share
<1> QED BY <1>2, <1>3, <1>6, <1>7, <1>8 DEF IInv, Promise!Next

\* A seeded run enters: it finds nobody inside.
LEMMA EnterExclusive ==
  ASSUME IInv, NEW t \in Seeded, stage[t] \in {"idle", "notified"},
         OpenToWriters, Enter(t), writer' = TRUE,
         waitingWriters' = (IF stage[t] = "idle" THEN waitingWriters ELSE waitingWriters - 1),
         UNCHANGED <<readers, wakes, cancels>>
  PROVE  IInv' /\ Promise!Next
<1>1. t \in Task /\ t \notin Unseeded /\ "inside" \in Stage
  BY SeededOrNot DEF Task, Stage
<1>2. OneFutureEach' /\ sleepers' \in Seq(Task) /\ MovesOne(t, "inside")
  BY <1>1, MoveFutures DEF Enter
<1>3. Inside(Seeded) = {} /\ Inside(Unseeded) = {}
  BY Readings DEF OpenToWriters
<1>4. /\ Inside(Unseeded)' = {} /\ Inside(Seeded)' = {t}
      /\ Wanting' = Wanting \ {t} /\ (t \in Wanting <=> stage[t] = "notified")
  <2>1. t \in Wanting <=> stage[t] = "notified"
    BY DEF Wanting
  <2> QED BY <1>1, <1>2, <1>3, <2>1, MovesOneEffect DEF IInv, Waiting
<1>5. CountersAgree' /\ waitingWriters' \in Nat
  <2>1. Cardinality(Wanting \ {t}) = waitingWriters'
    BY <1>4, HoldersAreTasks, Countable DEF IInv, CountersAgree
  <2>2. Cardinality(Wanting \ {t}) \in Nat
    <3>1. Wanting \ {t} \in SUBSET Task
      BY HoldersAreTasks
    <3> QED BY <3>1, Countable
  <2> QED BY <1>3, <1>4, <2>1, <2>2 DEF IInv, CountersAgree
<1>6. TypeOK'
  BY <1>2, <1>5 DEF IInv, TypeOK, MovesOne
<1>7. SeededRunsAlone'
  BY <1>4, AloneBySets
<1>8. Promise!Exclude(t)
  BY <1>3, <1>4 DEF Promise!Exclude
<1> QED BY <1>2, <1>5, <1>6, <1>7, <1>8 DEF IInv, Promise!Next

LEMMA AskSharedStep ==
  ASSUME IInv, NEW t \in Task, AskShared(t) \/ ResumeShared(t)
  PROVE  IInv' /\ [Promise!Next]_Promise!gateVars
<1>1. t \in Unseeded /\ t \notin Seeded /\ stage[t] \in {"idle", "notified"}
      /\ UNCHANGED <<waitingWriters, wakes, cancels>>
  BY SeededOrNot DEF AskShared, ResumeShared
<1>2. CASE OpenToReaders
  BY <1>1, <1>2, EnterShared DEF AskShared, ResumeShared
<1>3. CASE ~OpenToReaders
  <2>1. Sleep(t)
    BY <1>3 DEF AskShared, ResumeShared
  <2>2. /\ OneFutureEach' /\ sleepers' \in Seq(Task) /\ MovesOne(t, "asleep")
        /\ readers' = readers /\ writer' = writer
    BY <1>1, <2>1, SleepFutures
  <2>3. TypeOK'
    BY <1>1, <2>2 DEF IInv, TypeOK, MovesOne
  <2>4. t \notin Inside(Unseeded) /\ t \notin Inside(Seeded) /\ t \notin Wanting
        /\ "asleep" \in Stage
    BY <1>1 DEF Inside, Wanting, Stage
  <2>5. Inside(Unseeded)' = Inside(Unseeded) /\ Inside(Seeded)' = Inside(Seeded)
        /\ Wanting' = Wanting
    <3>1. /\ Inside(Unseeded)' = Inside(Unseeded) \ {t}
          /\ Inside(Seeded)' = Inside(Seeded) \ {t} /\ Wanting' = Wanting \ {t}
      BY <1>1, <2>2, <2>4, MovesOneEffect DEF IInv
    <3> QED BY <2>4, <3>1
  <2> QED BY <1>1, <2>2, <2>3, <2>5, NothingMoves
<1> QED BY <1>2, <1>3

LEMMA AskExclusiveStep ==
  ASSUME IInv, NEW t \in Task, AskExclusive(t) \/ ResumeExclusive(t)
  PROVE  IInv' /\ [Promise!Next]_Promise!gateVars
<1>1. t \in Seeded /\ t \notin Unseeded /\ stage[t] \in {"idle", "notified"}
      /\ UNCHANGED <<wakes, cancels>>
  BY SeededOrNot DEF AskExclusive, ResumeExclusive
<1>2. CASE OpenToWriters
  BY <1>1, <1>2, EnterExclusive DEF AskExclusive, ResumeExclusive
<1>3. CASE ~OpenToWriters
  <2>1. Sleep(t) /\ waitingWriters' = (IF stage[t] = "idle" THEN waitingWriters + 1
                                       ELSE waitingWriters)
    BY <1>3 DEF AskExclusive, ResumeExclusive
  <2>2. /\ OneFutureEach' /\ sleepers' \in Seq(Task) /\ MovesOne(t, "asleep")
        /\ readers' = readers /\ writer' = writer
    BY <1>1, <2>1, SleepFutures
  <2>3. TypeOK'
    BY <1>1, <2>1, <2>2 DEF IInv, TypeOK, MovesOne
  <2>4. t \notin Inside(Unseeded) /\ t \notin Inside(Seeded) /\ "asleep" \in Stage
        /\ (t \in Wanting <=> stage[t] = "notified")
    BY <1>1 DEF Inside, Wanting, Stage
  <2>5. Inside(Unseeded)' = Inside(Unseeded) /\ Inside(Seeded)' = Inside(Seeded)
        /\ Wanting' = Wanting \cup {t}
    <3>1. /\ Inside(Unseeded)' = Inside(Unseeded) \ {t}
          /\ Inside(Seeded)' = Inside(Seeded) \ {t} /\ Wanting' = Wanting \cup {t}
      BY <1>1, <2>2, <2>4, MovesOneEffect DEF IInv, Waiting
    <3> QED BY <2>4, <3>1
  <2>6. CountersAgree'
    <3>1. Cardinality(Wanting \cup {t}) = waitingWriters'
      BY <1>1, <2>1, <2>4, HoldersAreTasks, Countable DEF IInv, CountersAgree
    <3> QED BY <2>2, <2>5, <3>1 DEF IInv, CountersAgree
  <2>7. SeededRunsAlone'
    BY <2>5, Readings, AloneBySets
  <2>8. Promise!Want(t)
    BY <2>5 DEF Promise!Want
  <2> QED BY <1>1, <2>2, <2>3, <2>6, <2>7, <2>8 DEF IInv, Promise!Next
<1> QED BY <1>2, <1>3

\* A run that executed gives its hold back.
LEMMA LeaveStep ==
  ASSUME IInv, NEW t \in Task, Leave(t)
  PROVE  IInv' /\ Promise!Next
<1> DEFINE v == stage'[t]
<1>1. /\ stage[t] = "inside" /\ v \in {"idle", "leaving"} /\ v \in Stage
      /\ stage' = [stage EXCEPT ![t] = v]
      /\ UNCHANGED <<waitingWriters, sleepers, wakes, cancels>>
  BY DEF Leave, LeaveShared, LeaveExclusive, AfterLeaving, IInv, TypeOK, Stage
<1>2. OneFutureEach' /\ sleepers' \in Seq(Task) /\ MovesOne(t, v)
  BY <1>1, MoveFutures
<1>3. /\ Inside(Unseeded)' = Inside(Unseeded) \ {t} /\ Inside(Seeded)' = Inside(Seeded) \ {t}
      /\ Wanting' = Wanting
  <2>1. /\ Inside(Unseeded)' = Inside(Unseeded) \ {t} /\ Inside(Seeded)' = Inside(Seeded) \ {t}
        /\ Wanting' = Wanting \ {t}
    BY <1>1, <1>2, MovesOneEffect DEF IInv, Waiting
  <2>2. t \notin Wanting
    BY <1>1 DEF Wanting
  <2> QED BY <2>1, <2>2
<1>4. CASE LeaveShared(t)
  <2>1. t \in Inside(Unseeded) /\ t \notin Inside(Seeded) /\ t \in Unseeded
        /\ readers' = readers - 1 /\ writer' = writer
    BY <1>1, <1>4, SeededOrNot DEF LeaveShared, Inside
  <2>2. Inside(Seeded) = {} /\ Inside(Seeded)' = {}
    BY <1>3, <2>1, Readings
  <2>3. Cardinality(Inside(Unseeded) \ {t}) = readers' /\ readers' \in Nat
    <3>1. Inside(Unseeded) \ {t} \in SUBSET Task
      BY HoldersAreTasks
    <3> QED BY <2>1, <3>1, HoldersAreTasks, Countable DEF IInv, CountersAgree
  <2>4. CountersAgree'
    BY <1>1, <1>3, <2>1, <2>2, <2>3 DEF IInv, CountersAgree
  <2>5. TypeOK'
    BY <1>1, <1>2, <2>1, <2>3 DEF IInv, TypeOK, MovesOne
  <2>6. SeededRunsAlone'
    BY <2>2, AloneBySets
  <2>7. Promise!Leave(t)
    BY <1>3 DEF Promise!Leave
  <2> QED BY <1>2, <2>1, <2>4, <2>5, <2>6, <2>7 DEF IInv, Promise!Next
<1>5. CASE LeaveExclusive(t)
  <2>1. t \in Inside(Seeded) /\ t \notin Inside(Unseeded) /\ t \in Seeded
        /\ writer' = FALSE /\ readers' = readers
    BY <1>1, <1>5, SeededOrNot DEF LeaveExclusive, Inside
  <2>2. Inside(Seeded)' = {} /\ Inside(Unseeded)' = Inside(Unseeded)
    BY <1>3, <2>1, Readings
  <2>3. CountersAgree'
    BY <1>1, <1>3, <2>1, <2>2 DEF IInv, CountersAgree
  <2>4. TypeOK'
    BY <1>1, <1>2, <2>1 DEF IInv, TypeOK, MovesOne
  <2>5. SeededRunsAlone'
    BY <2>2, AloneBySets
  <2>6. Promise!Leave(t)
    BY <1>3 DEF Promise!Leave
  <2> QED BY <1>2, <2>1, <2>3, <2>4, <2>5, <2>6 DEF IInv, Promise!Next
<1> QED BY <1>4, <1>5 DEF Leave

\* A cancelled waiter unwinds: a seeded one is wanted no more.
LEMMA UnwindStep ==
  ASSUME IInv, NEW t \in Task, Unwind(t)
  PROVE  IInv' /\ [Promise!Next]_Promise!gateVars
<1>1. /\ stage[t] = "cancelled" /\ waitingWriters' = NoLongerWanted(t)
      /\ UNCHANGED <<readers, writer, wakes, cancels>> /\ "idle" \in Stage
  BY DEF Unwind, Stage
<1>2. OneFutureEach' /\ sleepers' \in Seq(Task) /\ MovesOne(t, "idle")
  BY UnwindFutures
<1>3. /\ Inside(Unseeded)' = Inside(Unseeded) /\ Inside(Seeded)' = Inside(Seeded)
      /\ Wanting' = Wanting \ {t}
  <2>1. /\ Inside(Unseeded)' = Inside(Unseeded) \ {t} /\ Inside(Seeded)' = Inside(Seeded) \ {t}
        /\ Wanting' = Wanting \ {t}
    BY <1>1, <1>2, MovesOneEffect DEF IInv, Waiting
  <2>2. t \notin Inside(Unseeded) /\ t \notin Inside(Seeded)
    BY <1>1 DEF Inside
  <2> QED BY <2>1, <2>2
<1>4. CASE t \in Seeded
  <2>1. t \in Wanting /\ waitingWriters' = waitingWriters - 1
    BY <1>1, <1>4 DEF Wanting, NoLongerWanted
  <2>2. Cardinality(Wanting \ {t}) = waitingWriters' /\ waitingWriters' \in Nat
    <3>1. Wanting \ {t} \in SUBSET Task
      BY HoldersAreTasks
    <3> QED BY <2>1, <3>1, HoldersAreTasks, Countable DEF IInv, CountersAgree
  <2>3. CountersAgree'
    BY <1>1, <1>3, <2>2 DEF IInv, CountersAgree
  <2>4. TypeOK'
    BY <1>1, <1>2, <2>2 DEF IInv, TypeOK, MovesOne
  <2>5. SeededRunsAlone'
    BY <1>3, Readings, AloneBySets
  <2>6. Promise!GiveUp(t)
    BY <1>3 DEF Promise!GiveUp
  <2> QED BY <1>2, <1>4, <2>3, <2>4, <2>5, <2>6 DEF IInv, Promise!Next
<1>5. CASE t \notin Seeded
  <2>1. waitingWriters' = waitingWriters /\ Wanting' = Wanting
    BY <1>1, <1>3, <1>5 DEF NoLongerWanted, Wanting
  <2>2. TypeOK'
    BY <1>1, <1>2, <2>1 DEF IInv, TypeOK, MovesOne
  <2> QED BY <1>1, <1>2, <1>3, <2>1, <2>2, NothingMoves
<1> QED BY <1>4, <1>5

\* A cancel, in the wait or in the wake-up of a leaver.
LEMMA CancelStep ==
  ASSUME IInv, NEW t \in Task, Cancel(t) \/ CancelLeaving(t)
  PROVE  IInv' /\ UNCHANGED Promise!gateVars
<1>1. /\ UNCHANGED <<readers, writer, waitingWriters>> /\ wakes' \in Nat
      /\ cancels' \in 0 .. MaxCancels
  BY GateConstants DEF Cancel, CancelLeaving, IInv, TypeOK
<1>2. CASE Cancel(t)
  <2>1. OneFutureEach' /\ sleepers' \in Seq(Task) /\ MovesOne(t, "cancelled")
        /\ "cancelled" \in Stage /\ stage[t] \in Waiting
    BY <1>2, CancelFutures DEF Cancel, Stage, Waiting
  <2>2. TypeOK'
    BY <1>1, <2>1 DEF IInv, TypeOK, MovesOne
  <2>3. /\ Inside(Unseeded)' = Inside(Unseeded) \ {t} /\ Inside(Seeded)' = Inside(Seeded) \ {t}
        /\ Wanting' = IF t \in Seeded THEN Wanting \cup {t} ELSE Wanting \ {t}
    BY <2>1, MovesOneEffect DEF IInv, Waiting
  <2>4. t \notin Inside(Unseeded) /\ t \notin Inside(Seeded) /\ (t \in Wanting <=> t \in Seeded)
    BY <2>1 DEF Inside, Wanting, Waiting
  <2>5. /\ Inside(Unseeded)' = Inside(Unseeded) /\ Inside(Seeded)' = Inside(Seeded)
        /\ Wanting' = Wanting
    BY <2>3, <2>4
  <2> QED BY <1>1, <2>1, <2>2, <2>5, NothingMoves
<1>3. CASE CancelLeaving(t)
  <2>1. stage[t] = "leaving" /\ stage' = [stage EXCEPT ![t] = "idle"] /\ sleepers' = sleepers
        /\ "idle" \in Stage
    BY <1>3 DEF CancelLeaving, Stage
  <2>2. OneFutureEach' /\ sleepers' \in Seq(Task) /\ MovesOne(t, "idle")
    BY <2>1, MoveFutures
  <2>3. TypeOK'
    BY <1>1, <2>2 DEF IInv, TypeOK, MovesOne
  <2>4. /\ Inside(Unseeded)' = Inside(Unseeded) \ {t} /\ Inside(Seeded)' = Inside(Seeded) \ {t}
        /\ Wanting' = Wanting \ {t}
    BY <2>1, <2>2, MovesOneEffect DEF IInv, Waiting
  <2>5. t \notin Inside(Unseeded) /\ t \notin Inside(Seeded) /\ t \notin Wanting
    BY <2>1 DEF Inside, Wanting
  <2>6. /\ Inside(Unseeded)' = Inside(Unseeded) /\ Inside(Seeded)' = Inside(Seeded)
        /\ Wanting' = Wanting
    BY <2>4, <2>5
  <2> QED BY <1>1, <2>2, <2>3, <2>6, NothingMoves
<1> QED BY <1>2, <1>3

\* The sleepers are woken.
LEMMA NotifyStep ==
  ASSUME IInv, NotifyAllOrphaned \/ \E t \in Task : NotifyAll(t)
  PROVE  IInv' /\ UNCHANGED Promise!gateVars
<1>1. /\ UNCHANGED <<readers, writer, waitingWriters, cancels>> /\ wakes' \in Nat
      /\ sleepers' = <<>>
  BY DEF NotifyAll, NotifyAllOrphaned, IInv, TypeOK
<1>2. CASE NotifyAllOrphaned
  <2>1. stage' = [x \in Task |-> IF x \in {} THEN "idle" ELSE Notified(x)]
    BY <1>2 DEF NotifyAllOrphaned
  <2>2. OneFutureEach' /\ sleepers' \in Seq(Task) /\ MovesNone
    BY <1>1, <2>1, NotifyFutures DEF MovesNone
  <2>3. TypeOK'
    BY <1>1, <2>2 DEF IInv, TypeOK, MovesNone
  <2> QED BY <1>1, <2>2, <2>3, MovesNoneEffect, NothingMoves DEF IInv
<1>3. ASSUME NEW t \in Task, NotifyAll(t)
      PROVE  IInv' /\ UNCHANGED Promise!gateVars
  <2>1. stage[t] = "leaving" /\ "idle" \in Stage
        /\ stage' = [x \in Task |-> IF x \in {t} THEN "idle" ELSE Notified(x)]
    BY <1>3 DEF NotifyAll, Stage
  <2>2. OneFutureEach' /\ sleepers' \in Seq(Task) /\ MovesOne(t, "idle")
    <3>1. {t} \in SUBSET Task /\ \A x \in {t} : stage[x] # "asleep"
      BY <2>1
    <3> QED BY <1>1, <2>1, <3>1, NotifyFutures DEF MovesOne
  <2>3. TypeOK'
    BY <1>1, <2>2 DEF IInv, TypeOK, MovesOne
  <2>4. /\ Inside(Unseeded)' = Inside(Unseeded) \ {t} /\ Inside(Seeded)' = Inside(Seeded) \ {t}
        /\ Wanting' = Wanting \ {t}
    BY <2>1, <2>2, MovesOneEffect DEF IInv, Waiting
  <2>5. t \notin Inside(Unseeded) /\ t \notin Inside(Seeded) /\ t \notin Wanting
    BY <2>1 DEF Inside, Wanting
  <2>6. /\ Inside(Unseeded)' = Inside(Unseeded) /\ Inside(Seeded)' = Inside(Seeded)
        /\ Wanting' = Wanting
    BY <2>4, <2>5
  <2> QED BY <1>1, <2>2, <2>3, <2>6, NothingMoves
<1> QED BY <1>2, <1>3

LEMMA StepKeeps ==
  ASSUME IInv, [Next]_vars
  PROVE  IInv' /\ [Promise!Next]_Promise!gateVars
<1>1. CASE UNCHANGED vars
  <2>1. UNCHANGED <<readers, writer, waitingWriters>> /\ stage' = stage /\ sleepers' = sleepers
    BY <1>1 DEF vars
  <2>2. TypeOK' /\ OneFutureEach'
    BY <1>1 DEF vars, IInv, TypeOK, OneFutureEach
  <2>3. /\ Inside(Unseeded)' = Inside(Unseeded) /\ Inside(Seeded)' = Inside(Seeded)
        /\ Wanting' = Wanting
    BY <2>1 DEF Inside, Wanting
  <2> QED BY <2>1, <2>2, <2>3, NothingMoves
<1>2. CASE Next
  <2>1. CASE NotifyAllOrphaned \/ \E t \in Task : NotifyAll(t)
    BY <2>1, NotifyStep
  <2>2. ASSUME NEW t \in Task,
               \/ AskShared(t) \/ AskExclusive(t) \/ Resume(t) \/ Leave(t)
               \/ Cancel(t) \/ Unwind(t) \/ CancelLeaving(t)
        PROVE  IInv' /\ [Promise!Next]_Promise!gateVars
    BY <2>2, AskSharedStep, AskExclusiveStep, LeaveStep, UnwindStep, CancelStep DEF Resume
  <2> QED BY <1>2, <2>1, <2>2 DEF Next
<1> QED BY <1>1, <1>2

LEMMA InitHolds == Init => IInv /\ Promise!Init
<1> SUFFICES ASSUME Init PROVE IInv /\ Promise!Init
  OBVIOUS
<1>1. IsInjective(<<>>) /\ ToSet(<<>>) = {}
  BY DEF IsInjective, ToSet
<1>2. TypeOK
  <2>1. sleepers \in Seq(Task)
    BY DEF Init
  <2>2. cancels \in 0 .. MaxCancels
    BY GateConstants DEF Init
  <2> QED BY <2>1, <2>2 DEF Init, TypeOK, Stage
<1>3. Unseeded \subseteq Task /\ Seeded \subseteq Task
  BY DEF Task
<1>4. Inside(Task) = {} /\ Inside(Unseeded) = {} /\ Inside(Seeded) = {} /\ Wanting = {}
  BY <1>3 DEF Init, Inside, Wanting
<1>5. CountersAgree
  BY <1>4, FS_EmptySet DEF Init, CountersAgree
<1>6. SeededRunsAlone
  BY <1>4 DEF SeededRunsAlone
<1>7. OneFutureEach
  BY <1>1 DEF Init, OneFutureEach
<1> QED BY <1>2, <1>4, <1>5, <1>6, <1>7 DEF IInv, Promise!Init

\* The invariant of every state of the gate.
THEOREM Invariant == Spec => []IInv
<1>1. Init => IInv
  BY InitHolds
<1>2. IInv /\ [Next]_vars => IInv'
  BY StepKeeps
<1> QED BY <1>1, <1>2, PTL DEF Spec

\* A seeded run executes alone, however many runs of both kinds ask, leave
\* and are cancelled.
THEOREM SeededAlone == Spec => []SeededRunsAlone
<1>1. IInv => SeededRunsAlone
  BY DEF IInv
<1> QED BY <1>1, Invariant, PTL

\* The gate's counters are the number of runs that hold it or wait for it
\* exclusively: no cancel leaves one raised or lowers it twice.
THEOREM CountersKept == Spec => []CountersAgree
<1>1. IInv => CountersAgree
  BY DEF IInv
<1> QED BY <1>1, Invariant, PTL

\* The gate implements the readers-writer lock its docstring promises.
THEOREM PromiseKept == Spec => PromiseSpec
<1>1. Init => Promise!Init
  BY InitHolds
<1>2. IInv /\ [Next]_vars => [Promise!Next]_Promise!gateVars
  BY StepKeeps
<1> QED BY <1>1, <1>2, Invariant, PTL DEF Spec, PromiseSpec, Promise!Spec

\* No wake-up of a seeded run is lost.
THEOREM SeededWoken == Spec => []SeededSleepsForAReason
<1>1. Init => SeededSleepsForAReason
  BY DEF Init, SeededSleepsForAReason, Task
<1>2. ASSUME IInv, SeededSleepsForAReason, [Next]_vars PROVE SeededSleepsForAReason'
  <2> SUFFICES ASSUME NEW s \in Seeded, stage'[s] = "asleep"
               PROVE  ~OpenToWriters' \/ WakeUnderWay'
    BY DEF SeededSleepsForAReason
  <2> DEFINE Stays == /\ stage[s] = "asleep" /\ wakes' = wakes
                      /\ \A x \in Task : stage[x] = "leaving" => stage'[x] = "leaving"
                      /\ OpenToWriters' => OpenToWriters
  <2>0. s \in Task /\ stage \in [Task -> Stage] /\ readers \in Nat /\ wakes \in Nat
    BY <1>2 DEF Task, IInv, TypeOK
  <2>1. ASSUME Stays PROVE ~OpenToWriters' \/ WakeUnderWay'
    BY <1>2, <2>0, <2>1 DEF SeededSleepsForAReason, WakeUnderWay
  <2>2. CASE UNCHANGED vars
    BY <2>1, <2>2 DEF vars, OpenToWriters
  <2>3. ASSUME NEW t \in Task, AskShared(t) \/ ResumeShared(t)
        PROVE  ~OpenToWriters' \/ WakeUnderWay'
    <3>1. t # s /\ stage[t] # "leaving" /\ wakes' = wakes /\ writer' = writer
          /\ (readers' = readers \/ readers' = readers + 1)
          /\ \E v \in {"inside", "asleep"} : stage' = [stage EXCEPT ![t] = v]
      BY <2>3, SeededOrNot DEF AskShared, ResumeShared, Enter, Sleep
    <3>2. OpenToWriters' => OpenToWriters
      BY <2>0, <3>1 DEF OpenToWriters
    <3>3. Stays
      BY <2>0, <3>1, <3>2
    <3> QED BY <2>1, <3>3
  <2>4. ASSUME NEW t \in Task, AskExclusive(t) \/ ResumeExclusive(t)
        PROVE  ~OpenToWriters' \/ WakeUnderWay'
    BY <2>4 DEF AskExclusive, ResumeExclusive, Sleep, OpenToWriters
  <2>5. ASSUME NEW t \in Task, Leave(t)
        PROVE  ~OpenToWriters' \/ WakeUnderWay'
    <3>1. CASE stage'[t] = "leaving"
      BY <3>1 DEF WakeUnderWay
    <3>2. CASE stage'[t] # "leaving"
      <4>1. readers' # 0
        BY <2>0, <2>5, <3>2 DEF Leave, LeaveShared, LeaveExclusive, AfterLeaving
      <4> QED BY <4>1 DEF OpenToWriters
    <3> QED BY <3>1, <3>2
  <2>6. ASSUME NEW t \in Task, Cancel(t)
        PROVE  ~OpenToWriters' \/ WakeUnderWay'
    BY <2>0, <2>1, <2>6 DEF Cancel, OpenToWriters
  <2>7. ASSUME NEW t \in Task, CancelLeaving(t)
        PROVE  ~OpenToWriters' \/ WakeUnderWay'
    BY <2>0, <2>7 DEF CancelLeaving, WakeUnderWay
  <2>8. ASSUME NEW t \in Task, Unwind(t)
        PROVE  ~OpenToWriters' \/ WakeUnderWay'
    <3>1. MovesOne(t, "idle") /\ stage[t] = "cancelled" /\ UNCHANGED <<readers, writer, wakes>>
      BY <1>2, <2>8, UnwindFutures DEF Unwind
    <3>2. stage[s] = "asleep" /\ \A x \in Task : stage[x] = "leaving" => stage'[x] = "leaving"
      BY <2>0, <3>1 DEF MovesOne
    <3>3. Stays
      BY <3>1, <3>2 DEF OpenToWriters
    <3> QED BY <2>1, <3>3
  <2>9. CASE NotifyAllOrphaned \/ \E t \in Task : NotifyAll(t)
    BY <2>0, <2>9 DEF NotifyAllOrphaned, NotifyAll, Notified
  <2>10. CASE Next
    BY <2>3, <2>4, <2>5, <2>6, <2>7, <2>8, <2>9, <2>10 DEF Next, Resume
  <2> QED BY <1>2, <2>2, <2>10
<1> QED BY <1>1, <1>2, Invariant, PTL DEF Spec

\* Every variable has its type: no counter is lowered below zero.
THEOREM TypeCorrect == Spec => []TypeOK
<1>1. IInv => TypeOK
  BY DEF IInv
<1> QED BY <1>1, Invariant, PTL

\* Nobody is being cancelled before the first cancel.
NoneCancelled == cancels = 0 => \A t \in Task : stage[t] # "cancelled"

LEMMA NoneCancelledYet == Spec => []NoneCancelled
<1>1. Init => NoneCancelled
  BY DEF Init, NoneCancelled
<1>2. ASSUME IInv, NoneCancelled, [Next]_vars PROVE NoneCancelled'
  <2>0. stage \in [Task -> Stage] /\ cancels \in Nat
    BY <1>2, GateConstants DEF IInv, TypeOK
  <2> SUFFICES ASSUME NEW x \in Task, cancels' = 0 PROVE stage'[x] # "cancelled"
    BY DEF NoneCancelled
  <2>1. CASE UNCHANGED vars
    BY <1>2, <2>1 DEF vars, NoneCancelled
  <2>2. ASSUME NEW t \in Task, AskShared(t) \/ AskExclusive(t) \/ Resume(t) \/ Leave(t)
        PROVE  stage'[x] # "cancelled"
    <3>1. /\ cancels' = cancels
          /\ \E v \in {"inside", "asleep", "leaving", "idle"} : stage' = [stage EXCEPT ![t] = v]
      BY <2>2 DEF AskShared, AskExclusive, Resume, ResumeShared, ResumeExclusive, Leave,
                  LeaveShared, LeaveExclusive, AfterLeaving, Enter, Sleep
    <3> QED BY <1>2, <2>0, <3>1 DEF NoneCancelled
  <2>3. ASSUME NEW t \in Task, Cancel(t) \/ CancelLeaving(t)
        PROVE  stage'[x] # "cancelled"
    BY <2>0, <2>3 DEF Cancel, CancelLeaving
  <2>4. ASSUME NEW t \in Task, Unwind(t) PROVE stage'[x] # "cancelled"
    BY <1>2, <2>4 DEF Unwind, NoneCancelled
  <2>5. CASE NotifyAllOrphaned \/ \E t \in Task : NotifyAll(t)
    BY <1>2, <2>0, <2>5 DEF NotifyAllOrphaned, NotifyAll, Notified, NoneCancelled
  <2>6. CASE Next
    BY <2>2, <2>3, <2>4, <2>5, <2>6 DEF Next
  <2> QED BY <1>2, <2>1, <2>6
<1> QED BY <1>1, <1>2, Invariant, PTL DEF Spec

\* No wake-up of an unseeded run is lost before the first cancel.
THEOREM UnseededWoken == Spec => []UnseededSleepsForAReason
<1>1. Init => UnseededSleepsForAReason
  BY DEF Init, UnseededSleepsForAReason, Task
<1>2. ASSUME IInv, NoneCancelled, UnseededSleepsForAReason, [Next]_vars
      PROVE  UnseededSleepsForAReason'
  <2> SUFFICES ASSUME NEW u \in Unseeded, cancels' = 0, stage'[u] = "asleep"
               PROVE  ~OpenToReaders' \/ WakeUnderWay'
    BY DEF UnseededSleepsForAReason
  <2> DEFINE Stays == /\ stage[u] = "asleep" /\ wakes' = wakes /\ cancels' = cancels
                      /\ \A x \in Task : stage[x] = "leaving" => stage'[x] = "leaving"
                      /\ OpenToReaders' => OpenToReaders
  <2>0. /\ u \in Task /\ stage \in [Task -> Stage] /\ cancels \in Nat
        /\ readers \in Nat /\ waitingWriters \in Nat /\ wakes \in Nat
    BY <1>2, GateConstants DEF Task, IInv, TypeOK
  <2>1. ASSUME Stays PROVE ~OpenToReaders' \/ WakeUnderWay'
    BY <1>2, <2>0, <2>1 DEF UnseededSleepsForAReason, WakeUnderWay
  <2>2. CASE UNCHANGED vars
    BY <2>1, <2>2 DEF vars, OpenToReaders
  <2>3. ASSUME NEW t \in Task, AskShared(t) \/ ResumeShared(t)
        PROVE  ~OpenToReaders' \/ WakeUnderWay'
    <3>1. CASE OpenToReaders
      <4>1. t # u /\ stage[t] # "leaving" /\ stage' = [stage EXCEPT ![t] = "inside"]
            /\ wakes' = wakes /\ cancels' = cancels
        BY <2>0, <2>3, <3>1 DEF AskShared, ResumeShared, Enter
      <4> QED BY <2>0, <2>1, <3>1, <4>1
    <3>2. CASE ~OpenToReaders
      BY <2>3, <3>2 DEF AskShared, ResumeShared, Sleep, OpenToReaders
    <3> QED BY <3>1, <3>2
  <2>4. ASSUME NEW t \in Task, AskExclusive(t)
        PROVE  ~OpenToReaders' \/ WakeUnderWay'
    BY <2>0, <2>4 DEF AskExclusive, Enter, OpenToReaders
  <2>5. ASSUME NEW t \in Task, ResumeExclusive(t)
        PROVE  ~OpenToReaders' \/ WakeUnderWay'
    <3>1. CASE OpenToWriters
      BY <2>5, <3>1 DEF ResumeExclusive, OpenToReaders
    <3>2. CASE ~OpenToWriters
      <4>1. t # u /\ stage[t] # "leaving" /\ stage' = [stage EXCEPT ![t] = "asleep"]
            /\ wakes' = wakes /\ cancels' = cancels
            /\ UNCHANGED <<writer, waitingWriters>>
        BY <2>5, <3>2, SeededOrNot DEF ResumeExclusive, Sleep
      <4> QED BY <2>0, <2>1, <4>1 DEF OpenToReaders
    <3> QED BY <3>1, <3>2
  <2>6. ASSUME NEW t \in Task, LeaveShared(t)
        PROVE  ~OpenToReaders' \/ WakeUnderWay'
    <3>1. CASE stage'[t] = "leaving"
      BY <3>1 DEF WakeUnderWay
    <3>2. CASE stage'[t] # "leaving"
      <4>1. /\ stage[t] = "inside" /\ wakes' = wakes /\ cancels' = cancels
            /\ stage' = [stage EXCEPT ![t] = "idle"]
            /\ UNCHANGED <<writer, waitingWriters>>
        BY <2>0, <2>6, <3>2 DEF LeaveShared, AfterLeaving
      <4> QED BY <2>0, <2>1, <4>1 DEF OpenToReaders
    <3> QED BY <3>1, <3>2
  <2>7. ASSUME NEW t \in Task, LeaveExclusive(t)
        PROVE  ~OpenToReaders' \/ WakeUnderWay'
    BY <2>0, <2>7 DEF LeaveExclusive, AfterLeaving, WakeUnderWay
  <2>8. ASSUME NEW t \in Task, Cancel(t) \/ CancelLeaving(t)
        PROVE  ~OpenToReaders' \/ WakeUnderWay'
    BY <2>0, <2>8 DEF Cancel, CancelLeaving
  <2>9. ASSUME NEW t \in Task, Unwind(t) PROVE FALSE
    BY <1>2, <2>9 DEF Unwind, NoneCancelled
  <2>10. CASE NotifyAllOrphaned \/ \E t \in Task : NotifyAll(t)
    BY <2>0, <2>10 DEF NotifyAllOrphaned, NotifyAll, Notified
  <2>11. CASE Next
    BY <2>3, <2>4, <2>5, <2>6, <2>7, <2>8, <2>9, <2>10, <2>11 DEF Next, Resume, Leave
  <2> QED BY <1>2, <2>2, <2>11
<1> QED BY <1>1, <1>2, Invariant, NoneCancelledYet, PTL DEF Spec

\* No wake-up is lost, of a seeded run at any time and of an unseeded one
\* before the first cancel.
THEOREM SleepersWoken == Spec => []SleepersHaveAReason
BY SeededWoken, UnseededWoken, PTL DEF SleepersHaveAReason

============================================================================
