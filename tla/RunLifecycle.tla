---------------------------- MODULE RunLifecycle ----------------------------
(* A run from submit to its terminal row: RunService (backend/app/core/     *)
(* run_service.py) over the run table (run_store.py), with user cancels,    *)
(* the graceful shutdown, a crash at any step and the startup recovery.     *)
(*                                                                          *)
(* Every database call is an await: the service's memory may change before  *)
(* the call and after it.  Calls are serialised by Database.run, so each is *)
(* one step.  Which waiting run is placed, and when, is the subject of      *)
(* RunScheduling: here any waiting run may be started.                      *)
EXTENDS Naturals, Sequences

CONSTANTS
  Run,          \* run ids
  Minted,       \* runs whose id a client knows before the row exists (the
                \* children of a study)
  Removable,    \* runs that name a worker: it may be removed while they wait
  MaxFaults,    \* bound: database calls that raise
  MaxStops      \* bound: crashes and shutdowns

ASSUME RunSubsets == Minted \subseteq Run /\ Removable \subseteq Run
ASSUME LifecycleBounds == MaxFaults \in Nat /\ MaxStops \in Nat

VARIABLES
  row,      \* status of each run's row in exec_runs
  log,      \* its events in exec_run_events, those that begin or end it
  stage,    \* where the service holds the run, see below
  outcome,  \* the terminal status a run on its way out will file
  stop,     \* _ActiveRun.stop_reason, with the context's cancel flag
  vault,    \* _run_secrets: runs whose secret parameters are in memory
  asking,   \* cancel() past the queue and the registry: the call it awaits
  told,     \* runs a cancel answered "cancelled" for without a task to stop
  server,   \* this process
  faults, stops

durable == <<row, log>>
memory == <<stage, outcome, stop, vault, asking, told>>
vars == <<durable, memory, server, faults, stops>>

Active == {"queued", "running"}
Terminal == {"succeeded", "failed", "cancelled", "interrupted"}

\* "waiting": in the queue; "doomed": taken off it by _retire_queue();
\* "retiring", "parting": _retire_waiting() or _fail_waiting() writes the
\* row, then the closing frame; Driven: in the registry, the call of _drive()
\* it awaits.
Ending == {"closing", "filing", "pruning"}
Driven == {"loading", "beginning", "announcing", "executing"} \cup Ending
Stage == {"none", "waiting", "doomed", "retiring", "parting"} \cup Driven

Server == {"down", "up", "stopping", "retiring", "draining", "killing"}

Present(r) == row[r] \notin {"none", "gone"}
Closed(r) == log[r] # <<>> /\ log[r][Len(log[r])] \in Terminal

----------------------------------------------------------------------------
(* The run table *)

\* Mutant: the guard on the row's status is missing.
MarksAnyRow(r, status, expected) == IF Present(r) THEN status ELSE row[r]

\* RunStore.mark_finished(): only a row in an expected status moves.
MarkFinished(r, status, expected) ==
  IF row[r] \in expected THEN status ELSE row[r]

\* RunStore.mark_running(): whatever the status was.
MarkRunning(r) == IF Present(r) THEN "running" ELSE row[r]

\* RunStore.append_event(): a deleted run has no log to append to.
AppendEvent(r, frame) == IF Present(r) THEN Append(log[r], frame) ELSE log[r]

----------------------------------------------------------------------------
(* The task that owns a started run: _drive() *)

\* What the call a task awaits does to the run's row, and to its log.
RowAfter(r) == IF stage[r] = "beginning" THEN MarkRunning(r)
               ELSE IF stage[r] = "filing" THEN MarkFinished(r, outcome[r], Active)
               ELSE row[r]

LogAfter(r) == IF stage[r] = "announcing" THEN AppendEvent(r, "start")
               ELSE IF stage[r] = "closing" THEN AppendEvent(r, outcome[r])
               ELSE log[r]

\* Mutant: the row first, then the closing frame.
RowFirst(r) ==
  /\ row' = IF stage[r] = "closing"
            THEN [row EXCEPT ![r] = MarkFinished(r, outcome[r], Active)]
            ELSE IF stage[r] = "filing" THEN row ELSE [row EXCEPT ![r] = RowAfter(r)]
  /\ log' = IF stage[r] = "filing" THEN [log EXCEPT ![r] = AppendEvent(r, outcome[r])]
            ELSE IF stage[r] = "closing" THEN log ELSE [log EXCEPT ![r] = LogAfter(r)]

Call(r) == row' = [row EXCEPT ![r] = RowAfter(r)] /\ log' = [log EXCEPT ![r] = LogAfter(r)]

Stopped(r) == IF stop[r] = "interrupted" THEN "interrupted" ELSE "cancelled"

Proceed(r, next) == stage' = [stage EXCEPT ![r] = next] /\ UNCHANGED <<outcome, stop, vault>>

\* Mutant: the outcome is not decided there.
FinalizeUndecided(r, status) ==
  /\ stage' = [stage EXCEPT ![r] = "closing"]
  /\ UNCHANGED <<outcome, stop, vault>>

\* The first line of _finalize() decides the outcome.
Finalize(r, status) ==
  /\ stage' = [stage EXCEPT ![r] = "closing"]
  /\ outcome' = [outcome EXCEPT ![r] = status]
  /\ UNCHANGED <<stop, vault>>

\* Mutants: the secrets stay behind; those of every run go.
KeepsSecrets(r) == vault
ClearsSecrets(r) == {}
DropSecrets(r) == vault \ {r}

\* The finally of _drive().
Deregister(r) ==
  /\ stage' = [stage EXCEPT ![r] = "none"]
  /\ outcome' = [outcome EXCEPT ![r] = "none"]
  /\ stop' = [stop EXCEPT ![r] = "none"]
  /\ vault' = DropSecrets(r)

Alive == server \in {"up", "stopping", "retiring", "draining"}

TaskStep(r, at) == /\ Alive /\ stage[r] = at
                   /\ UNCHANGED <<asking, told, server, faults, stops>>

\* The graph is read back off the row; a run that was stopped meanwhile ends
\* before its first node, an unusable snapshot fails it.
Load(r) ==
  /\ TaskStep(r, "loading")
  /\ Call(r)
  /\ \/ ~Present(r) /\ Deregister(r)
     \/ Present(r) /\ Finalize(r, "failed")
     \/ Present(r) /\ stop[r] # "none" /\ Finalize(r, Stopped(r))
     \/ Present(r) /\ stop[r] = "none" /\ Proceed(r, "beginning")

Begin(r) ==
  /\ TaskStep(r, "beginning")
  /\ Call(r)
  /\ IF Present(r) THEN Proceed(r, "announcing") ELSE Deregister(r)

Announce(r) == TaskStep(r, "announcing") /\ Call(r) /\ Proceed(r, "executing")

\* The graph ran.  A node need not notice that it was asked to stop.
Execute(r) ==
  /\ TaskStep(r, "executing")
  /\ Call(r)
  /\ \/ Finalize(r, "succeeded") \/ Finalize(r, "failed")
     \/ stop[r] # "none" /\ Finalize(r, Stopped(r))

Close(r) == TaskStep(r, "closing") /\ Call(r) /\ Proceed(r, "filing")

File(r) == TaskStep(r, "filing") /\ Call(r) /\ Proceed(r, "pruning")

\* prune_retention(): finished rows beyond the newest ones go, then the task
\* ends.
Prune(r) ==
  /\ TaskStep(r, "pruning")
  /\ \E old \in SUBSET {x \in Run : row[x] \in Terminal} :
       /\ row' = [x \in Run |-> IF x \in old THEN "gone" ELSE row[x]]
       /\ log' = [x \in Run |-> IF x \in old THEN <<>> ELSE log[x]]
  /\ Deregister(r)

\* The database raises: the task ends, except that a lost event is only
\* logged.
DatabaseRaises(r) ==
  /\ Alive /\ faults < MaxFaults
  /\ faults' = faults + 1
  /\ \/ stage[r] \in {"loading", "beginning", "filing", "pruning"} /\ Deregister(r)
     \/ stage[r] = "announcing" /\ Proceed(r, "executing")
     \/ stage[r] = "closing" /\ Proceed(r, "filing")
  /\ UNCHANGED <<durable, asking, told, server, stops>>

\* A hard cancel lands in the await: the call had not begun, or runs to its
\* end before CancelledError is raised (Database.run).
Killed(r) ==
  /\ server = "killing" /\ stage[r] \in Driven
  /\ Call(r) \/ UNCHANGED durable
  /\ Deregister(r)
  /\ UNCHANGED <<asking, told, server, faults, stops>>

Drive(r) == Load(r) \/ Begin(r) \/ Announce(r) \/ Execute(r) \/ Close(r) \/ File(r)
            \/ Prune(r)

----------------------------------------------------------------------------
(* Submit, start, cancel, delete *)

\* create_run() commits, and submit() goes on in the same step of the loop:
\* the run joins the queue with its secrets, unless the service shuts down.
Submit(r) ==
  /\ server # "down"
  /\ row[r] = "none"
  /\ row' = [row EXCEPT ![r] = "queued"]
  /\ IF server = "up"
     THEN stage' = [stage EXCEPT ![r] = "waiting"] /\ vault' = vault \cup {r}
     ELSE UNCHANGED <<stage, vault>>
  /\ UNCHANGED <<log, outcome, stop, asking, told, server, faults, stops>>

\* A pass places the run: off the queue and into the registry at once.
Promote(r) ==
  /\ server = "up"
  /\ stage[r] = "waiting"
  /\ stage' = [stage EXCEPT ![r] = "loading"]
  /\ UNCHANGED <<durable, outcome, stop, vault, asking, told, server, faults, stops>>

\* Off the queue, to be filed as status.
Retire(r, status) == /\ stage' = [stage EXCEPT ![r] = "retiring"]
                     /\ outcome' = [outcome EXCEPT ![r] = status]

\* Where cancel() finds a run in neither index: it has ended, it is on its
\* way out, or its row is not in the queue yet.
\* Mutant: only the queue is looked at.
NotInTheQueue(r) == stage[r] # "waiting"
InNeitherIndex(r) == stage[r] \notin {"waiting"} \cup (Driven \ Ending)

\* cancel(), up to its first await: a waiting run leaves the queue, a started
\* one is asked to stop, any other has its row looked up.
Cancel(r) ==
  /\ server # "down"
  /\ row[r] # "none" \/ r \in Minted
  /\ \/ /\ stage[r] = "waiting"
        /\ Retire(r, "cancelled")
        /\ vault' = DropSecrets(r)
        /\ UNCHANGED <<stop, asking>>
     \/ /\ stage[r] \in Driven \ Ending
        /\ stop' = [stop EXCEPT ![r] = IF @ = "none" THEN "cancelled" ELSE @]
        /\ UNCHANGED <<stage, outcome, vault, asking>>
     \/ /\ InNeitherIndex(r)
        /\ asking[r] = "no"
        /\ asking' = [asking EXCEPT ![r] = "reading"]
        /\ UNCHANGED <<stage, outcome, stop, vault>>
  /\ UNCHANGED <<durable, told, server, faults, stops>>

\* get_run(): only a queued row is written, on the next call.
CancelReads(r) ==
  /\ server # "down" /\ asking[r] = "reading"
  /\ asking' = [asking EXCEPT ![r] = IF row[r] = "queued" THEN "writing" ELSE "no"]
  /\ UNCHANGED <<durable, stage, outcome, stop, vault, told, server, faults, stops>>

CancelWrites(r) ==
  /\ server # "down" /\ asking[r] = "writing"
  /\ row' = [row EXCEPT ![r] = MarkFinished(r, "cancelled", {"queued"})]
  /\ told' = IF row[r] = "queued" THEN told \cup {r} ELSE told
  /\ asking' = [asking EXCEPT ![r] = "no"]
  /\ UNCHANGED <<log, stage, outcome, stop, vault, server, faults, stops>>

\* fail_queued_for_worker(): the worker a waiting run names was removed.
WorkerRemoved(r) ==
  /\ server # "down"
  /\ stage[r] = "waiting" /\ r \in Removable
  /\ Retire(r, "failed")
  /\ UNCHANGED <<durable, stop, vault, asking, told, server, faults, stops>>

\* The row of a run taken off the queue; a failed one drops its secrets only
\* now.
RetireFiles(r) ==
  /\ server # "down" /\ stage[r] = "retiring"
  /\ row' = [row EXCEPT ![r] = MarkFinished(r, outcome[r], {"queued"})]
  /\ stage' = [stage EXCEPT ![r] = IF row[r] = "queued" THEN "parting" ELSE "none"]
  /\ told' = IF row[r] = "queued" /\ outcome[r] = "cancelled" THEN told \cup {r} ELSE told
  /\ vault' = DropSecrets(r)
  /\ outcome' = IF row[r] = "queued" THEN outcome ELSE [outcome EXCEPT ![r] = "none"]
  /\ UNCHANGED <<log, stop, asking, server, faults, stops>>

\* Its closing frame, unless the append raises.
RetireCloses(r) ==
  /\ server # "down" /\ stage[r] = "parting"
  /\ \/ log' = [log EXCEPT ![r] = AppendEvent(r, outcome[r])] /\ UNCHANGED faults
     \/ faults < MaxFaults /\ faults' = faults + 1 /\ UNCHANGED log
  /\ stage' = [stage EXCEPT ![r] = "none"]
  /\ outcome' = [outcome EXCEPT ![r] = "none"]
  /\ UNCHANGED <<row, stop, vault, asking, told, server, stops>>

\* The write raises: the run is in neither index any more.
RetireRaises(r) ==
  /\ server # "down" /\ stage[r] = "retiring" /\ outcome[r] # "interrupted"
  /\ faults < MaxFaults /\ faults' = faults + 1
  /\ stage' = [stage EXCEPT ![r] = "none"]
  /\ outcome' = [outcome EXCEPT ![r] = "none"]
  /\ UNCHANGED <<durable, stop, vault, asking, told, server, stops>>

\* DELETE /api/runs/{id}: of a run in neither index, whatever its row says.
Delete(r) ==
  /\ server # "down" /\ Present(r)
  /\ stage[r] \notin {"waiting"} \cup Driven
  /\ row' = [row EXCEPT ![r] = "gone"]
  /\ log' = [log EXCEPT ![r] = <<>>]
  /\ UNCHANGED <<memory, server, faults, stops>>

----------------------------------------------------------------------------
(* Shutdown, crash, startup *)

ServerStep(from, to) == server = from /\ server' = to /\ UNCHANGED faults

BeginShutdown ==
  /\ ServerStep("up", "stopping")
  /\ stops < MaxStops /\ stops' = stops + 1
  /\ UNCHANGED <<durable, memory>>

\* Both indexes are emptied at once, the rows are written one at a time.
RetireQueue ==
  /\ ServerStep("stopping", "retiring")
  /\ stage' = [r \in Run |-> IF stage[r] = "waiting" THEN "doomed" ELSE stage[r]]
  /\ UNCHANGED <<durable, outcome, stop, vault, asking, told, stops>>

BeingRetired == {r \in Run : stage[r] \in {"retiring", "parting"} /\ outcome[r] = "interrupted"}

RetireNext(r) ==
  /\ server = "retiring" /\ BeingRetired = {}
  /\ stage[r] = "doomed"
  /\ Retire(r, "interrupted")
  /\ vault' = DropSecrets(r)
  /\ UNCHANGED <<durable, stop, asking, told, server, faults, stops>>

\* Every task is asked to stop; a reason that is already there stays.
SignalRuns ==
  /\ ServerStep("retiring", "draining")
  /\ BeingRetired = {} /\ \A r \in Run : stage[r] # "doomed"
  /\ stop' = [r \in Run |-> IF stage[r] \in Driven /\ stop[r] = "none"
                            THEN "interrupted" ELSE stop[r]]
  /\ UNCHANGED <<durable, stage, outcome, vault, asking, told, stops>>

GraceEnds ==
  /\ ServerStep("draining", "killing")
  /\ \E r \in Run : stage[r] \in Driven
  /\ UNCHANGED <<durable, memory, stops>>

\* The process is gone: its memory with it.
Forgets ==
  /\ stage' = [r \in Run |-> "none"]
  /\ outcome' = [r \in Run |-> "none"]
  /\ stop' = [r \in Run |-> "none"]
  /\ vault' = {}
  /\ asking' = [r \in Run |-> "no"]
  /\ UNCHANGED told

ShutdownEnds ==
  /\ server \in {"draining", "killing"} /\ server' = "down"
  /\ \A r \in Run : stage[r] \notin Driven
  /\ Forgets
  /\ UNCHANGED <<durable, faults, stops>>

\* A crash, also of a server that is stopping, or a shutdown() whose own
\* write raised.
Crash ==
  /\ server # "down" /\ server' = "down"
  /\ IF server = "up" THEN stops < MaxStops /\ stops' = stops + 1 ELSE UNCHANGED stops
  /\ Forgets
  /\ UNCHANGED <<durable, faults>>

\* Mutants: every retired run gets a closing frame; queued rows are left.
ClosesAgain(r) == Append(log[r], "interrupted")
RunningOnly == {"running"}

Unfinished == Active
ClosedByRecovery(r) == IF Closed(r) THEN log[r] ELSE Append(log[r], "interrupted")

\* recover_interrupted(): one transaction, before any request is served.
Recover ==
  /\ ServerStep("down", "up")
  /\ row' = [r \in Run |-> IF row[r] \in Unfinished THEN "interrupted" ELSE row[r]]
  /\ log' = [r \in Run |-> IF row[r] \in Unfinished THEN ClosedByRecovery(r) ELSE log[r]]
  /\ UNCHANGED <<memory, stops>>

----------------------------------------------------------------------------

Init ==
  /\ row = [r \in Run |-> "none"]
  /\ log = [r \in Run |-> <<>>]
  /\ stage = [r \in Run |-> "none"]
  /\ outcome = [r \in Run |-> "none"]
  /\ stop = [r \in Run |-> "none"]
  /\ vault = {}
  /\ asking = [r \in Run |-> "no"]
  /\ told = {}
  /\ server = "up"
  /\ faults = 0
  /\ stops = 0

Retiring(r) == RetireNext(r) \/ RetireFiles(r) \/ RetireCloses(r)
Cancelling(r) == CancelReads(r) \/ CancelWrites(r)
Lifecycle == RetireQueue \/ SignalRuns \/ GraceEnds \/ ShutdownEnds \/ Recover

Next ==
  \/ \E r \in Run :
       \/ Submit(r) \/ Promote(r) \/ Drive(r) \/ DatabaseRaises(r) \/ Killed(r)
       \/ Cancel(r) \/ Cancelling(r) \/ WorkerRemoved(r) \/ Delete(r)
       \/ Retiring(r) \/ RetireRaises(r)
  \/ BeginShutdown \/ Crash \/ Lifecycle

Spec == Init /\ [][Next]_vars

\* The loop runs what is ready: a placed run's task, a handler past its
\* await, the shutdown; a waiting run is placed in the end (RunScheduling);
\* a server that went down is started again.
Fairness ==
  /\ \A r \in Run : /\ WF_vars(Promote(r)) /\ WF_vars(Drive(r)) /\ WF_vars(Killed(r))
                    /\ WF_vars(Retiring(r))
  /\ WF_vars(Lifecycle)

FairSpec == Spec /\ Fairness

----------------------------------------------------------------------------
(* Properties *)

\* Every variable has its type.
TypeOK ==
  /\ row \in [Run -> Active \cup Terminal \cup {"none", "gone"}]
  /\ log \in [Run -> Seq({"start"} \cup Terminal)]
  /\ stage \in [Run -> Stage]
  /\ outcome \in [Run -> Terminal \cup {"none"}]
  /\ stop \in [Run -> {"none", "cancelled", "interrupted"}]
  /\ vault \subseteq Run /\ told \subseteq Run
  /\ asking \in [Run -> {"no", "reading", "writing"}]
  /\ server \in Server
  /\ faults \in 0 .. MaxFaults /\ stops \in 0 .. MaxStops

\* The run table keeps its promise: a finished run is never rewritten,
\* whoever loses the race to file it (mark_finished's docstring), its log
\* has one closing frame, the last, and nothing is logged before its time.
Table == INSTANCE RunRecord WITH status <- row
TableSpec == Table!Spec

\* What a follower of a run that executed is shown agrees with its row:
\* there is a closing frame (_finalize's order), and a success or a failure
\* was announced as what the row says.  _emit() only logs a frame that the
\* database refused, hence the first condition, here and below.
StartedRunsAreClosed ==
  faults = 0 => \A r \in Run : row[r] \in Terminal /\ log[r] # <<>> =>
    /\ Closed(r)
    /\ row[r] \in {"succeeded", "failed"} => log[r][Len(log[r])] = row[r]

\* An unfinished row is somebody's: while the server runs, every queued or
\* running row belongs to a run that the service holds.
NobodysRun ==
  {r \in Run : row[r] \in Active /\ stage[r] = "none"}
UnfinishedRunsAreHeld == faults = 0 /\ server = "up" => NobodysRun = {}

\* The secrets of a run (#251) are there when its task reads them ...
SecretsAreThere ==
  \A r \in Run : stage[r] \in {"waiting", "loading"} => r \in vault

\* ... and no longer than that: "removed on exactly one of two exhaustive
\* paths" (RunService.__init__), but for a _fail_waiting() that raises.
SecretsAreDropped ==
  faults = 0 => \A r \in vault : stage[r] # "none"

\* A run that a cancel reported as cancelled does not execute: it was in
\* the queue or in the registry (cancel's docstring), and left it for good.
CancelledRunsStayCancelled ==
  \A r \in told : stage[r] \notin Driven \ Ending

\* Every run ends: finished, or deleted.  Only a run whose own last write
\* failed waits for the next restart.
EveryRunEnds ==
  \A r \in Run :
    row[r] \in Active ~> row[r] \notin Active \/ (stage[r] = "none" /\ faults > 0)

=============================================================================
