# A verification project for CodefyUI

CodefyUI is a node-graph editor for machine learning: a FastAPI server
(`src/backend`) executes graphs that a browser (`src/frontend`) or a command
line submits, on its own devices or on worker machines. This directory holds
TLA+ models of what happens to a run, from its submission to the last event a
client is shown: how the server admits it, keeps its row and its log, executes
its graph or has a worker execute it, and feeds its events to those who
follow. TLC configurations check the models on small instances, and TLAPS
checks proofs about them for every instance.

    tlc -workers 2 -config RunSchedulingHost.cfg MCRunScheduling.tla
    tlapm RunSchedulingProofs.tla

`PROJECT.json` lists the runs, the source lines of every definition, a mutant
for every property, the findings and the hazards of the code. Paths below are
relative to `src/backend/app`.

## The system

### Components

| Component | State | Operations | What is hard about it | What makes it correct |
|---|---|---|---|---|
| **Run admission** (`core/run_service.py`, `core/scheduling.py`) | `_pending`, `_pending_by_id`, `_slots`, `_reservations`, `_reschedule_requested/_holds`, `_shutting_down` | `_pump`, `_pump_one`, `reschedule`, `deferred_reschedule`, `_dequeue`, `_reserve`, `_release_admission`; `WorkerScheduler.place`, `SlotBudget`, `CardBudget` | passes over several queues that share cards; device-set runs that need several cards at once; releases that may happen twice; lost reschedules | one index entry per run, FIFO per queue, slot counts that never drift, cards within their caps, no startable run left waiting, no starvation |
| **Reproducibility gate** (`_RunExclusion`) | `_readers`, `_writer`, `_waiting_writers`, one `asyncio.Condition` | `shared`, `exclusive`, `_wake` | cancels that land in the wait or in the wake-up | a seeded run executes alone, counters balance, no lost wake-up |
| **Run lifecycle** (`RunService.submit/_start/_drive/_finalize/cancel/shutdown/recover_interrupted`) | `_runs`, `_run_secrets`, `stop_reason`, rows of `exec_runs`, `exec_run_events` | those, and `delete_run`, `fail_queued_for_worker`, `prune_retention` | every database call is an await; cancels, deletions, shutdown and crashes fall between any two of them | a finished run is never rewritten, its log ends with one closing frame, no row is left to nobody, secrets live as long as the run needs them |
| **Run store** (`core/run_store.py`, `core/db.py`) | SQLite | guarded updates, event append, recovery in one transaction | writers that lose a race | statuses only move forward |
| **Event feed** (`api/ws_execution.py`, `core/run_events.py`) | subscriptions, replay cursor | attach, replay, fan-out, overflow | a run that ends while a client is between replay and live events | every event once, in order, and always a closing frame |
| **Interactive lane** | one live run per session | `invoke` runs that bypass the queue | hand-over to the next run of a session | at most one run per session |
| **Memory admission** (`core/memory_*.py`) | ledger of estimates per card | fits, reserve, release | estimates that are wrong | a card is not over-committed |
| **Worker registry and protocol** (`core/workers.py`, `core/worker_*.py`, `api/ws_worker.py`) | connections, sessions, grace timers | hello, resume, adopt, acknowledge, drain, forget | reconnects, duplicates, restarts of either side | each event applied once, a run driven by one connection |
| **Executors** (`core/executors.py`) | one per run | run, stop, wait for a dropped worker | a stop while the worker is away | a stop is not lost |
| **Worker agent** (`agent/`) | spool, child processes | run, stop, resend | a crash between spool and send | no event lost before its acknowledgement |
| **Studies and sweeps** (`core/study_*.py`, `core/sweep_*.py`) | trials and attempts | submit, read outcome, cancel | minted run ids, bulk cancels | each attempt is counted once |
| **Graph engine** (`core/graph_engine.py`, `core/execution_context.py`) | outputs, errors, `EventOutbox`, container counts | execute by levels, retry, skip, stop, drain, report | worker threads report while the loop awaits a callback; two locks and a semaphore | frames and signals in order, nothing complete made of something partial, no wait of its own |
| **Caches** (`core/cache.py`, ...) | results, fingerprints | reuse, evict | eviction while in use | no stale result is reused |
| **Jobs, instance lock, packs, plugins, checkpoints, transfers** | files and locks | install, update, restart, save | crashes between two file operations | what is on disk is complete |
| **Everything else**: git panel, code generation, SSH launch, LLM proxy, access control, nodes, frontend, scripts | | | I/O, pure translation or numerics | |

### How they interact

All of the server's own logic runs on one asyncio loop: a function without an
`await` is atomic, and every `await` is a point where anything else may run.
`submit()` writes a row and puts the run in the queue of its target key. A
*pass* (`_pump`, `reschedule`) asks the scheduler for a placement for the front
of a queue; a placed run leaves the queue, takes its slots and enters the
registry in one synchronous step, and a task (`_drive`) is created for it. The
task goes through the database (graph, `running`, the start frame), takes the
reproducibility gate, executes, releases its slots (which reschedules), writes
the closing frame and then the row, and leaves the registry. `cancel()`,
`delete_run`, a removed worker and the shutdown act on the queue, the registry
and the rows in between; `recover_interrupted()` cleans up after a crash when
the next process starts.

Around this core: `_emit()` appends an event to the log and offers it to the
subscriptions of sockets and to long polls. An executor runs the graph:
`InProcessExecutor` calls `execute_graph()`, whose nodes run in threads and
report through an outbox the loop drains; `WorkerExecutor` sends the run to an
agent and reads its frames from an inbox that the registry fills. The agent
spools every frame until the server acknowledges it, so a dropped connection
or a restarted server costs nothing but a replay.

## The models

| Module | What it is |
|---|---|
| `RunScheduling` | run admission, extended by `MCRunScheduling`, proved about in `RunSchedulingProofs` |
| `Lines`, `LineTheorems` | taking an element out of a line, and what is left of it; least and greatest elements of finite sets, which the other proofs share |
| `RunGate` | the reproducibility gate; `MCRunGate`, `RunGateProofs` |
| `ReadersWriter` | the abstract gate: what `_RunExclusion`'s docstring promises |
| `RunLifecycle` | the lifecycle of local batch runs over the run table; `MCRunLifecycle`, `RunLifecycleProofs` |
| `RunRecord` | the abstract run table: what a reader of rows and logs may rely on |
| `EventFeed` | how the events of a run reach sockets and long polls; `MCEventFeed`, `EventFeedProofs` |
| `EventStream` | the abstract feed: to each attachment every event, in order and once |
| `GraphEngine` | `execute_graph()` with its outbox, frames and containers; `MCGraphEngine`, `GraphEngineProofs` |
| `CardLog` | the abstract card: what the frames of a node or container may say; `CardLogProofs` |
| `WorkerLink` | the link between the server and a worker agent; `MCWorkerLink`, `WorkerLinkProofs` |

Definitions marked "Mutant" in the modules are plausible bugs (a dropped
guard, a swapped order); each is a form of the definition after it and is
used by nothing. For every property of a passing run one of them makes TLC
find the property violated.

### RunScheduling

`pending`, `pendingById`, `active`, `slots`, `reservations`, `requested`,
`holds` and `stopping` are the attributes of the same names (with an
underscore) of `RunService`; `released` and `placement` are fields of
`_ActiveRun`; `older` is the order of the entries' submit numbers. A pass is
synchronous in the code. The model takes it one question at a time:
`asking` holds the queues it has still to ask, `Asks` chooses the oldest front
as `reschedule()` does, the answer is `Start`, `Refuse` (which reserves or
drops a reservation), `PlaceRaises` or `StartRaises`, and every other action
waits until `asking` is empty. So what is between two passes is what the code
can be in between two steps of the loop.

`Placements` is `WorkerScheduler.place()`: the first of the run's places whose
machine accepts runs and whose slots are all free, a slot being free when the
runs on its physical card are below the smallest cap among the card's
offerers and no earlier reservation covers the card. `Places` lists the
candidates of a run in the scheduler's order; how that order is computed from
the options of a run, and memory budgets, are left out.

`Finalize` and `Deregister` are the two calls of `_release_admission()` on the
normal path; a hard cancel takes only the second.

### RunGate

Each task is idle, asleep on the condition, notified, cancelled in the wait,
inside, or leaving (it awaits its own `_notify_all()` task). The condition's
lock is never held across an await of the gate and is left out. `Cancel` takes
a task out of the wait, `CancelLeaving` is a second cancel during the shielded
wake-up, which then goes on without it. `HandsOn` says whether a cancelled
`Condition.wait()` passes its turn on to one other waiter, as newer
interpreters do; the library's behaviour is an external definition.

### RunLifecycle

`row` and `log` are durable; `stage`, `outcome`, `stop`, `vault` and `asking`
are the process's memory, which `Crash` and `ShutdownEnds` clear. `stage` names
the database call a run's task awaits (`loading`, `beginning`, `announcing`,
`closing`, `filing`, `pruning`), or that it executes, waits in the queue, or is
being retired from it. A step of a task is one awaited call and what the task
does up to the next. `DatabaseRaises` is a call that raises, with what the
caller makes of it; `Killed` is the hard cancel at the end of the shutdown's
grace, which lands before or after the call it hits. `Cancel` is `cancel()`
up to its first await, `CancelReads` and `CancelWrites` are its fall-through
for a run in neither index. `WorkerRemoved` is `fail_queued_for_worker()`.
`Recover` is `recover_interrupted()`. `told` remembers the runs for which a
cancel has answered that they are cancelled.

The log is reduced to the frames that begin or end a run. A run may be placed
whenever it waits: which one is, is `RunScheduling`'s subject.

### EventFeed

One run, from the moment it can be attached to. `run` says where the service
holds it (the queue, a retirement in progress, the registry, or nowhere),
`last` is the newest cursor of its log. A queued run that is retired goes
through `leaving` (off the queue, the write of its row in line for the
database), `filed` (the append of its closing frame in line) and `gone`.
`Database.run` grants its lock in the order asked, and the retirement awaits
nothing before its first write, so each write comes behind exactly the reads
that were in line when it was asked for: `ahead` holds the clients these reads
belong to, and any other client's read comes after the write. A long poll's
read is not ordered with these writes, which only adds behaviours.
`_retire_queue()` takes all waiting runs off the queue at once and files them
one by one: the run of the model may be one that has to wait for its turn
(`Sweep`, `TurnComes`; `swept` remembers it). A client's `pump` goes through
`_pump_events()`: subscribe, replay by pages, live events, catch-up after an
overflow with a live event in hand, and the last replay. `Offers` is
`RunSubscription.offer()`, a bounded queue that drops the newest; the end of a
run puts a sentinel that a full queue drops too. A poll is `wait_for_events()`
with the generations of `_Broadcast`. An append and its fan-out are one step:
`Database.run` holds its lock until the appending coroutine goes on. An append
cancelled after its commit (`dying`) leaves an event offered to nobody.

### GraphEngine

A step is what the loop, or a node's thread, does between two awaits or two
turns of the outbox's lock. `pc` is where each node's `_execute_single_node()`
is, `made` what its thread returned, and `level`, `engine`, `outcome` are those
of `execute_graph()`. `outbox`, `waker`, `poked` and `dropped` are
`EventOutbox`; `holder` is `deliver_lock`, `roller` is `container_lock`, and
`batch` what each caller of `_deliver()` drained. `started`, `settled`, `done`
and `rank` are the `container_*` dictionaries. The three error modes, retries,
stops, the serial execution of a seeded run and the turns of nodes that are
handed one live model are all there; what a node computes is "full" or
"partial". A run is one of the `Request`s, so that only sensible combinations
of the options are enumerated.

### WorkerLink

Both ends and the network between them. A frame is its run and its number;
`up` and `down` carry frames, `ws` is the agent's connection and `cur` the
server's, which differ while one side has not noticed. On the agent: `handle`,
`seq`, `spool` (open, pending, acked, sent, final) and the replay (`todo`,
`dead`, and `batch`, the set of frames it has read and sends in order of their
number). On the server: the registry (`tracked`, `last`, `awaiting`,
`detached`, `aliveDue`, `late`), the inbox and the executor of each run
(`stage`, `persisted`, `log`, `stop`, `told`). `Crash` leaves the rows
(`stored`, `persisted`, `stop`) and adopts the unfinished runs; `AgentRestarts`
loses handles and spools. A dropped connection delivers any prefix of what it
carried: nothing is removed when it drops, and its handler, or the agent, may
end with frames unread. A deadline may pass whenever it is set. Which finished runs
ended within `RECENTLY_CLOSED_S` and are therefore not told to stop
(`_cancel_untracked()`) is likewise left open at each step. `revived` and
`swapped` are history: the runs a crash brought back though they had ended, and
those that moved from a connection the server still took for live.

## What the runs check

| Run | Instance | Question |
|---|---|---|
| `sched_host` | two cards of a server, offered a second time by a worker agent on the same host, which comes, drains and goes; two set runs and three single-card runs in four queues, caps 2 and 1, one fault, one bulk cancel, shutdown | `QueueOrRegistry`, `SlotsAreHeld`, `NoStartableFrontWaits` (no lost reschedule), `CardWithinCap` over both offerers, `NothingOvertakes` (FIFO), `OldestFrontFirst`, `ReservedRunsAreFronts` |
| `sched_live` | three set runs in two queues, a run of one card and a run of any card, with fairness | `WaitingRunsStart`: a run that reserves starts, and so does every run unless set runs keep waiting for one another |
| `sched_starved` | two set runs in one queue, one single-card run in another | finding 1 |
| `gate` | three unseeded and two seeded runs, two cancels, with fairness | `CountersAgree`, `SleepersHaveAReason` (no lost wake-up), `SeededRunEnters`, and that the gate implements `ReadersWriter` |
| `life` | two runs, one of which names a worker that may be removed; one database fault; one crash or shutdown, and a crash during the shutdown; with fairness | `StartedRunsAreClosed`, `UnfinishedRunsAreHeld`, `SecretsAreThere`, `SecretsAreDropped`, `CancelledRunsStayCancelled`, `EveryRunEnds`, and that the lifecycle implements `RunRecord` |
| `life_revived` | a child of a study | finding 2 |
| `feed` | a socket that attaches twice and a long poll, a log of three events, a queue of one, pages of two, one append that raises; with fairness | `SleepersAreWoken`, `EndedFeedsWereTold`, `FollowersAreTold`, and that the feed implements `EventStream` |
| `engine` | a node read by two others of one container, one of them nested deeper; three error modes, seeded and not, with a live model and with a primed cache; two workers, an outbox of one signal, two signals, one exception, a stop; with fairness | `DeliveredInOrder`, `SignalsAreAccountedFor`, `OnlyCompleteOutputsCount`, `NodesExecuteApart`, `NothingIsHeldUp`, and that the frames implement `CardLog` |
| `engine_twice` | the same graph in `continue` mode, two exceptions, no retry | finding 3 |
| `link` | one run of two frames, two connections, a crash of the server | `FramesAreKept`, `FramesComeInOrder` |
| `link_live` | one frame, two connections, a crash and one fault (a failed write, a raising executor, a restarted agent), with fairness | `ServedRunsAreTracked`, `EndsArrive`, `StopsArrive` |
| `link_withheld` | two frames, two connections, no crash | finding 4 |

Every component's module has one type invariant, `TypeOK`, checked by the
first of its runs. `NothingStartsAtShutdown`,
`SeededRunsAlone` and the two halves of `SleepersHaveAReason` are stated in the
modules and proved; no run repeats them.

**Bounds.** A run id is reused once the service has forgotten the run, in
`RunScheduling` and `RunGate`, so a few ids stand for an unbounded line of
runs; in `RunLifecycle` an id is used once, as in the code. Two cards and two
queues are what is needed for a set run to compete with single-card runs of
its own and of another queue; a fifth run lets one stand behind. Two
seeded runs let one wait while the other executes, three unseeded ones let one
execute, one sleep and one arrive. Two runs in the lifecycle let one be in the
registry while the other is retired or pruned by the first's ending; the
service's steps for different runs share only the server's phase and the
retention. A crash does not count as a stop while the server shuts down, so
one stop covers a shutdown that is cut short. In the feed a queue of one is
full at once, three events make two pages, and the second attachment starts
from any cursor. In the engine three nodes give one level of one and one of
two; an outbox of one signal is always on the verge of a drop, and a second
signal drops the first. On the link one run is enough for what is stated per
run (runs share the connection, the replay and the deadline only; the replay
task that dies on another run's spool is below); two frames give
one that is recorded and one that is not, two connections a drop and a
replacement. What a fault does to a run does not depend on how many frames it
has made, so the faults are in `link_live`, which has one. `Max...` constants bound environment events and no behaviour of
the program, but for `MaxRetries`, which is an option of a run.

`sched_host`, `feed`, `engine` and the `link` runs have `CHECK_DEADLOCK FALSE`:
a server that has drained, a run that is over with nobody left to follow it, an
engine that returned and a worker whose runs are filed stop. Everywhere else a
state without a successor would be an error.

**Conditions in properties.** `NoStartableFrontWaits` and `OldestFrontFirst`
exclude states in which a placement or a start has raised, since the code
then leaves the queue until the next reschedule, and those in which the worker
does not accept runs, when a reservation dropped late in a pass leaves a card
idle (below). They also ask that a set run takes whole cards
(`SetsTakeWholeCards`, as accelerators do at their default cap of one): if a card
admitted another run beside it, its start would drop the reservation and leave
room on the card for a front that the pass has already refused.
`StartedRunsAreClosed`,
`UnfinishedRunsAreHeld` and `SecretsAreDropped` hold until a database call
raises: `_emit()` only logs a frame that was refused, and an exception in
`_drive()` or `_fail_waiting()` leaves the row for the next start; `EveryRunEnds`
excepts the row of a run whose own last write raised, which waits for a restart
nobody promises. The unseeded half of `SleepersHaveAReason` holds until a
cancel (below). `EndedFeedsWereTold` excepts the runs that a shutdown takes off
the queue behind others (`swept`), and `SleepersAreWoken` a run whose task was
hard-cancelled and has not left the registry yet. On the link, `FramesAreKept`
and `EndsArrive` except the runs in `revived`, `StopsArrive` those in `swapped`, and `EndsArrive` the frames a
full disk kept out of the spool and those the connection withholds (finding 4).
Heartbeats run out only when no `run_alive` is due, which is true while the
watchdog ticks at least once per heartbeat.

**Fairness.** `RunScheduling`: a pass is one synchronous step, so it finishes;
a callback given to `call_soon` runs; a bulk cancel is a loop that ends; a
started run ends, its executor returns and its task reaches its `finally`. The
last three are disabled while a pass is under way, a state the loop never
shows, hence strong fairness. Cancels and arrivals are not fair. `RunGate`: the
loop runs every ready task, and a run that executes ends; nobody has to arrive
or be cancelled. Two seeded runs are not ordered by the gate and the code does
not promise it, so `SeededRunEnters` asks that one of them enters.
`RunLifecycle`: the loop runs ready tasks, a waiting
run is placed in the end (the subject of `sched_live`), nodes end, and a server
that went down is started again; crashes, shutdowns, cancels and the retry of
anything are not fair. `EventFeed`: the service's ending of a run, once begun,
goes on, and so do a pump and a poll; events, attachments and faults are not
fair. `GraphEngine`: what is ready on the loop runs, and the engine's own
tasks go on; a node's thread need not return or report, so `NothingIsHeldUp`
may blame a node that executes. `WorkerLink`: both event loops run, a frame on
a connection that lives is read, the agent dials again and notices a dead
connection, the watchdog ticks, and a run that was told to stop ends; that a run
ends by itself, drops, crashes and faults are not fair.

## Findings

Each is a disagreement between the code and its documentation that a run shows.

1. **A line of set runs starves an older run of another queue**
   (`sched_starved`). While one set run runs, the next one of its queue
   reserves, so the release shows its cards as full to the single-card run,
   which never reserves. Set runs of two queues that take turns do the same.
   `tests/test_scheduling.py` says "A long line on one
   queue must not starve another queue on its slot".
2. **A cancel acknowledged and undone** (`life_revived`). The id of a study's
   child is visible before the run is submitted. A cancel that arrives between
   the commit of the row and the queue takes the run for an orphan, files it
   `cancelled` and says so; the run is then queued, `mark_running()` overwrites
   the row, and it executes.
3. **A container that ends twice** (`engine_twice`). `_roll_up()` passes on
   the frame of every inner node that fails or is stopped, whether or not the
   container is settled. Two nodes of one container that fail give it two
   `error` frames with different errors; the docstring says that the lock held
   across them keeps "its one terminal frame" in order. `CardLog` allows a
   container these further frames, and nobody else: after its first bad end it
   shows no `running` and no `completed`.
4. **A replay that leaves frames behind** (`link_withheld`). After a reconnect
   `spool.sent` is the last ack the agent knew. An ack of frames that the old
   connection had delivered, arriving before the replay reads the spool, moves
   `acked` past `sent`; the replay then has nothing to send, and `send_frame()`
   withholds every later frame, the run_finished included, because it is not
   the next one. Its docstring says "otherwise the replay sends it". The
   run's end reaches the server at the next reconnect only.

The models showed more that has no run of its own; the hazards that
`PROJECT.json` lists without a property are among these.

- A pass asks the oldest front first and never asks a refused queue twice. A
  set run whose worker drains or is gone drops its reservation when it is
  asked; a front refused earlier in the pass because of it leaves its card idle
  until some other event.
- A cancelled seeded run wakes nobody: unseeded runs that queued behind it sleep
  at an open gate while newcomers pass them.
- `_retire_waiting()` writes the terminal row before the closing frame, and
  recovery does not look at terminal rows: a crash in between leaves the log
  without a closing frame for good. `_finalize()` does it in the other order.
- `_retire_queue()` takes every waiting run off the queue before it writes the
  first row. A pump that attaches to a later one in between gets a closed feed,
  may read the log to its end before that run's closing frame is appended, and
  is then not sent it, against `_pump_events()`'s "guarantees a client always
  receives the frame that tells it the run is over". Without the condition
  `~swept`, TLC finds `EndedFeedsWereTold` violated by this and by nothing else.
- `_fail_waiting()` says that a write that raises "leaves the run queued with
  its secrets, for a retry", but the entry has left both indexes by then, so a
  retry finds nothing; a socket attached to it waits until it detaches.
- A signal queued last by its node survives the drop-oldest outbox only while
  no other node reports (`graph_engine.py:3683` says it survives).
- A `run_finished` is acknowledged before the run's row is closed. A crash in
  between adopts a run whose agent has nothing left to send; it ends
  "interrupted" though it succeeded.
- A worker that reconnects while the server takes its old connection for live
  gets no second cancel for a stop sent to the half-open socket.
- A spool that an ack completes and closes while the replay still holds it in
  its snapshot makes `read_after()` flush a closed file; the replay task ends and
  the spools after it are withheld.
- `check()` may time out a reconnected worker on heartbeats while its `run_alive`
  waits in a stalled loop; `route()` and `run_alive()` do not test `online`.
- `WorkerExecutor.run()` looks its worker up before several awaits and opens the
  run on that object, which a reconnect may have replaced.

## What is proved

All theorems hold for every value of the constants under the named
assumptions of the modules, which TLC evaluates in the runs:

- `RunScheduling`: finitely many runs and slots, caps of at least one, places
  with at least one slot on machines that exist, and `PinnedSetsHaveOnePlace`: a
  device set names its machine, so its run has one candidate;
- `RunGate`: finitely many tasks, each seeded or not;
- `RunLifecycle`: subsets and bounds of the right type; its theorems add
  `Minted = {}`, an explicit hypothesis (below);
- `EventFeed`: queues and pages of at least one event;
- `GraphEngine`: finitely many nodes (`NodesAreFinite`), levels that are a
  topological order of the graph with a gather order inside each
  (`LevelsAreTopological`), containers that are no nodes and name each other at
  most once around a node (`ContainersAreNested`), requests of the right type
  (`Requests`), at least one worker thread and one place in the outbox
  (`EngineBounds`);
- `WorkerLink`: finitely many runs, at least one frame and one connection, and
  batches of at least one (`RunsAreFinite`, `BoundsType`).

Every safety property that a passing run checks, and each of the four
refinements, is a theorem.

**RunSchedulingProofs.** `TypeCorrect` is inductive by itself.
`QueuesAgree` (`QueueOrRegistry`) needs types only. `SlotsNeverDrift`
(`SlotsAreHeld`) rests on both: a started run was in no slot before because it
was not in the registry, and a release takes a slot back exactly once because
`released` records it; the cardinalities are handled by `ReleaseSlots`.
`ReservationsAreFronts` rests on the queue invariant. `StrictFifo`
(`NothingOvertakes`) needs a strengthening of its own, `LinesAreInOrder`: every
line is sorted by age and only waiting runs have one. `ShutdownStartsNothing`
uses that no pass is under way once `stopping` is set. `CardsWithinCaps`
(`CardWithinCap`) compares the runs on a card, a union over its slots, with the sum of the slots' counts that the
scheduler takes: the sum is at least the union's cardinality, and a start adds
one run to a card whose sum was below the cap. `NoFrontIsForgotten`
(`NoStartableFrontWaits`) and `OldestFrontsFirst` need to know what a pass has
done so far: every front whose queue is no longer asked cannot be placed
(`FrontsWereAsked`). That a start or a reservation keeps it so is monotonicity
of `Placeable`; that a dropped reservation does is where whole cards
(`SetsTakeWholeCards`) and one place per set (`SetsReserve`) are used.

**RunGateProofs.** The invariant is `TypeOK`, `CountersAgree`,
`SeededRunsAlone` and `OneFutureEach` (the pending futures are those of the
sleepers, one each). Exclusion needs the counters to be exact, and the counters
need the exclusion, so they are proved together; that no counter falls below
zero (`TypeCorrect`) follows from them. `PromiseKept` maps every step
to a step or a stutter of `ReadersWriter` from the same case analysis, and
`SleepersWoken` adds that no wake-up of a seeded run is lost, and none of an
unseeded one before the first cancel, from the fact that nobody is in a
cancelled wait until then (`NoneCancelled`).

**RunLifecycleProofs.** The invariant `IInv` says for each run how the
service's memory goes with its row and log (`Coherent`: a waiting run's row is
queued, an executing one's running, nothing is logged before the start frame,
an outcome is decided before a closing frame, a cancel never falls through for
a run that still has to execute) and that a dead process holds nothing
(`Amnesia`). Each action is one lemma that shows it `Sound` for the run it
touches. From it follow `TypeCorrect`, `TableKept` (the refinement of
`RunRecord`), `SecretsThere` and `CancelledStay`. They assume `Minted = {}`:
with ids known before the row, `life_revived` is a counterexample.
A second invariant, `AllInOrder`, holds until a database call raises: an
unfinished row is held by somebody while the server is up (`Held`), the log says
what the row says or is going to say (`Logged`), and secrets are gone with the
run (`Hidden`). It rests on `IInv` for what each awaited call finds, and gives
`StartedAreClosed`, `UnfinishedAreHeld` and `SecretsGone`.

**EventFeedProofs.** The invariant adds to the types and `SleepersAreWoken`
that whatever a pump has in hand was stored before (`Stored`: the events on its
queue, the page it sends, the event it holds, which follows the last one it
sent; a replay with a live event in hand ends beyond that event), that a poll
which captured a generation is notified when the run is gone, and that no poll
asks after a cursor beyond the log. Most steps touch one client
(`ClientKeeps`), append to the log (`FanOutKeeps`), or move neither
(`QuietKeeps`). From it follow `TypeCorrect`, `NoGapNoDuplicate` (every
step is a step or a stutter of `EventStream`) and `NoLostWakeup`.
`EndsAreTold` (`EndedFeedsWereTold`) has an invariant of its own beside it,
`TInv` (with `Told` for each client): until the closing frame is stored no pump
has ended or is sending the page of a last replay. A pump that subscribes while
the write of the row is in line finds a closed feed, but its first read comes
behind that write; only the read after it can be the last, and that one comes
behind the append of the frame, which was asked for when the write was done.
Once the frame is stored, the short page that ends a last replay goes up to
it.

**GraphEngineProofs.** The invariant says: lower levels are done and higher
ones idle (`Levels`); whoever holds `deliver_lock` is the one who drains, nobody
else has signals in hand, and nothing is left after the last drain
(`OneDrains`); signals are conserved, those produced being queued, in hand,
delivered, or counted as dropped or lost (`Accounts`); delivered signals are
older than those in hand, and these older than those queued (`Order`); in a
seeded run one node at a time holds a permit (`Serial`) and its last signal is on its way
until its outputs count (`Tails`); nodes handed one live model take their turns
(`TakesTurns`); a node's outputs, its last frame and its inputs agree
(`Results`). From it follow `TypeCorrect`, `SignalsComeInOrder`,
`SignalsCounted`, `OutputsAreComplete` and `NodesKeepApart`. Each part is a
lemma of its own (`LevelsNext`, `DrainsNext`, ...) over a shared account of how
far a step takes a node.

**CardLogProofs.** `CardsAreTold` is the refinement of `CardLog`: each card runs
before it ends, a node ends once, a container completes at most once and never
after a failure inside it, after which it is only told of further failures and
stops. Beyond the
engine's invariant it needs that one node at a time rolls up its containers,
that a container's counter is the number of nodes that counted themselves in it
and are through with it (`Counters`), that signals belong to nodes that were
announced and have not ended well (`Pending`), and what each card shows in
terms of what its node said (`NodeCards`, `BoxCards`). Every step that paints a
card is then one frame that may follow on it.

**WorkerLinkProofs.** The invariant follows a frame from its making to the log:
nothing is sent, received or acknowledged that the run has not made (`Made`);
an open spool holds everything made but failed appends (`Spooled`); a batch of
the replay leaves nothing out (`BatchIsWhole`); the connection carries frames
so that what precedes one is recorded, waits in the inbox, or travels before it
(`Contiguous`); a served run has everything up to the last frame received
(`Gapless`), in order (`InboxInOrder`); what was acknowledged is persisted;
and a run reported as finished is complete (`Finished`). Around it, `Connected`
says that the network carries only the connection both sides mean, and
`Assigned` that a run is assigned once. `FramesKept` needs all of it, because an
acknowledgement is safe only if no gap ever opens below it; `FramesInOrder`
follows from `InboxInOrder`, `ServedAreTracked` is inductive with
`Connected`. Each step of the server is first reduced to what it does to one
run (`ServerMoves`, `CrashMoves`) and each of the agent likewise
(`AgentMoves`, `SpoolMoves`, `TrafficMoves`), so the parts of the invariant are
proved per run and not per action.

The invariants were model-checked before they were proved. Induction over a
data structure is done without an induction theorem where it was needed (sums
over the slots of a card, least elements of finite sets): a smallest
counterexample is taken from the finite set of them (`SmallestSubset`).

**Only model-checked**: everything under fairness (`WaitingRunsStart`,
`SeededRunEnters`, `EveryRunEnds`, `FollowersAreTold`, `NothingIsHeldUp`,
`EndsArrive`, `StopsArrive`), which needs ENABLED and is out of the prover's
reach; and the findings, which are counterexamples. The lifecycle with ids
known before their rows is model-checked in `life_revived` only.

## What is not modelled

In the modelled components: memory budgets; the closing frames that
`_retire_unstopped_worker_runs()` appends at the end of a shutdown for worker
runs whose tasks it has cancelled, which come after their feeds were closed; one-shot timeouts that
put a run back in the queue; interactive runs; metric buffering; in the engine
graph preparation, captures and the backward pass; on the link the handshake's
refusals, one-shot workers and instances, drain and removal of a worker,
back-pressure, transfers and distributed runs; and the
content of graphs, events and results. The components of the table that have
no module are planned below, or are I/O, pure translations or numerical code;
`PROJECT.json` gives the reason for each. Most of the repository by size is of
the latter kind (the node library, the frontend, code generation, the command
line, plugins and packs), so the share of its lines that a model can stand for
stays small.

## Plan

Next, about the modules that exist: the safety that liveness rests on, stated
and proved where a run shows the rest (on the link, that a spool which is not
closed still owes what is not persisted, the first half of `EndsArrive`; in the
engine, that a held lock has a holder who can move); and the lifecycle's
theorems for any `Minted`, with the runs that are not minted as their scope.

Then, each with its runs and its proofs: `InteractiveLane` (one run per session
and its hand-over); `CardMemory` (memory admission as a refinement of
`RunScheduling`'s caps); `StudyAttempts` (minted ids, attempts and their
outcomes, composed with `RunLifecycle`'s `Minted`); `InstanceLock`,
`Checkpoints` and `PackRestart` (crash-safe file protocols).
