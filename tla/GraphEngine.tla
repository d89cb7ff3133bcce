----------------------------- MODULE GraphEngine -----------------------------
(* execute_graph() of backend/app/core/graph_engine.py: one run of a graph, *)
(* level by level, its nodes in worker threads, and the way what they       *)
(* report comes back: EventOutbox (core/execution_context.py), the pump and *)
(* the drain of a node that returned, the status frames, the containers.    *)
(*                                                                          *)
(* A step is what the event loop, or the thread of a node, does between two *)
(* awaits, or two turns of the outbox's lock.  A hard Task.cancel() of the  *)
(* engine and the backward pass are left out.                               *)
EXTENDS Naturals, Sequences, FiniteSets, SequencesExt

CONSTANTS
  Node,        \* nodes of the expanded graph
  Upstream,    \* the nodes whose outputs each of them reads
  Level,       \* its level (topological_levels), from 1
  Turn,        \* its place in the level's order
  Handed,      \* the models and optimizers it is handed
  Containers,  \* the containers around it, innermost first
  Uncacheable, \* nodes that declare cacheable=False
  Forced,      \* changed_nodes
  Request,     \* what runs may ask for: error_mode, a seed; whether the shared
               \* values are live objects; the nodes an earlier run left in the
               \* cache
  MaxWorkers,  \* context.max_workers
  Capacity,    \* of the outbox
  MaxRetries,
  MaxSignals,  \* bound: signals put in a run
  MaxFaults    \* bound: executions and deliveries that raise

Box == UNION {ToSet(Containers[n]) : n \in Node}
Inner(b) == {n \in Node : b \in ToSet(Containers[n])}
AtLevel(l) == {n \in Node : Level[n] = l}
Card == Node \cup Box

ASSUME NodesAreFinite == IsFiniteSet(Node) /\ Node \cap {"pump", "finally", "nobody"} = {}
ASSUME LevelsAreTopological ==
  /\ \A n \in Node : Level[n] \in Nat \ {0} /\ Turn[n] \in Nat
                     /\ \A m \in Upstream[n] : m \in Node /\ Level[m] < Level[n]
  /\ \A m, n \in Node : m # n /\ Level[m] = Level[n] => Turn[m] # Turn[n]
ASSUME ContainersAreNested ==
  /\ Box \cap Node = {}
  /\ \A n \in Node : /\ Containers[n] \in Seq(Box)
                     /\ \A i, j \in DOMAIN Containers[n] :
                           Containers[n][i] = Containers[n][j] => i = j
ASSUME Requests == Request \subseteq [mode : {"fail_fast", "continue", "retry"},
                                      seeded : BOOLEAN,
                                      live : BOOLEAN, primed : SUBSET (Node \ Uncacheable)]
ASSUME EngineBounds == /\ MaxWorkers \in Nat \ {0} /\ Capacity \in Nat \ {0}
                       /\ MaxRetries \in Nat /\ MaxSignals \in Nat /\ MaxFaults \in Nat

VARIABLES
  mode,       \* error_mode
  seeded,     \* context.seed is not None
  live,       \* what is Handed are live objects
  cancelled,  \* the context's stop event
  level,      \* the level that runs, 0 before the first
  engine,     \* see Engine
  outcome,    \* what execute_graph returns or raises
  pc,         \* what _execute_single_node does for each node, see Stage
  say,        \* the status it reports
  at,         \* the container it is rolled up into
  attempts,   \* left to a node that fails
  made,       \* what its thread returned
  outputs,    \* outputs: "full", "partial" (stopped early) or "none"
  errors,     \* node_errors
  keys,       \* nodes in node_cache_keys
  cache,      \* the ExecutionCache's entry for its key
  rng,        \* the node the process-global RNGs were last seeded for
  outbox, waker, poked, dropped,  \* EventOutbox; a poke is on its way
  produced,   \* signals put so far
  tail,       \* the last one of each node's attempt
  batch,      \* what each caller of _deliver() drained
  holder,     \* of deliver_lock
  delivered,  \* the signals that were dispatched
  reported,   \* by DroppedSignals
  lost,       \* with a dispatch that raised
  roller,     \* holder of container_lock
  started, settled, done, rank,   \* container_*
  log,        \* the frames of each card
  faults

options == <<mode, seeded, live>>
engineVars == <<level, engine, outcome>>
nodeVars == <<pc, say, at, attempts, made, outputs, errors, keys, cache, rng>>
queueVars == <<outbox, waker, poked, dropped>>
signalVars == <<produced, tail, batch, holder, delivered, reported, lost>>
boxVars == <<roller, started, settled, done, rank>>
vars == <<options, cancelled, engineVars, nodeVars, queueVars, signalVars, boxVars, log, faults>>

\* "reporting": its frame is next; "counting", "settling": in _roll_up;
\* "waiting": for the semaphore; "executing": its thread; "returned": the
\* future resolved; "draining": in _deliver.
Stage == {"idle", "reporting", "counting", "settling", "waiting", "executing", "returned",
          "draining", "backoff", "done", "failed", "stopped"}
Engine == {"levels", "flushing", "flushed", "returned"}
Ended == {"done", "failed", "stopped"}

Value == {"none", "full", "partial"}
Signal == [node : Node, seq : 1 .. MaxSignals]
Clean == {"completed", "cached", "skipped"}
Frame == Clean \cup {"error", "interrupted", "running", "progress"}

\* The callers of _deliver(), besides the nodes.
Pump == "pump"
Finally == "finally"
Nobody == "nobody"
Caller == Node \cup {Pump, Finally}
----------------------------------------------------------------------------
(* Status frames *)

\* One frame on each card of S.
Paint(S, frame) == log' = [c \in Card |-> IF c \in S THEN Append(log[c], frame) ELSE log[c]]

\* The cards a progress frame of n shows on: the outermost container with it.
Outermost(n) == Last(Containers[n])
Painted(n) == IF Containers[n] = <<>> THEN {n} ELSE {n, Outermost(n)}

Reports(n, status) ==
  /\ pc' = [pc EXCEPT ![n] = "reporting"]
  /\ say' = [say EXCEPT ![n] = status]

\* What _execute_single_node does after a frame went out; a stop is looked
\* for before every attempt.
Attempt == IF cancelled THEN "stopped" ELSE "waiting"
AfterFrame(n) ==
  CASE say[n] = "running" -> Attempt
    [] say[n] = "error" /\ mode = "fail_fast" -> "failed"
    [] OTHER -> "done"

\* Mutant: the lock is not taken.
RollsUnlocked(n) == Nobody
LockedBy(n) == n

\* _emit_preset_aware(): a node in no container, then one that is in some.
Says(n) ==
  /\ pc[n] = "reporting"
  /\ IF Containers[n] = <<>>
     THEN /\ pc' = [pc EXCEPT ![n] = AfterFrame(n)]
          /\ UNCHANGED <<at, roller>>
     ELSE /\ roller = Nobody
          /\ roller' = LockedBy(n)
          /\ pc' = [pc EXCEPT ![n] = "counting"]
          /\ at' = [at EXCEPT ![n] = 1]
  /\ Paint({n}, say[n])
  /\ UNCHANGED <<options, cancelled, engineVars, say, attempts, made, outputs, errors, keys,
                 cache, rng, queueVars, signalVars, started, settled, done, rank, faults>>

Rolling(n) == Containers[n][at[n]]

\* On to the next container, or out of the lock.
Onwards(n) ==
  IF at[n] < Len(Containers[n])
  THEN /\ at' = [at EXCEPT ![n] = @ + 1]
       /\ pc' = [pc EXCEPT ![n] = "counting"]
       /\ UNCHANGED roller
  ELSE /\ roller' = Nobody
       /\ pc' = [pc EXCEPT ![n] = AfterFrame(n)]
       /\ UNCHANGED at

\* _CONTAINER_STATUS_RANK
Rank == [cached |-> 0, skipped |-> 1, completed |-> 2]
StatusOf(r) == CHOOSE s \in DOMAIN Rank : Rank[s] = r

\* _roll_up(): a failure or an early stop settles the container at once ...
RollsBroken(n) ==
  /\ pc[n] = "counting" /\ say[n] \in {"error", "interrupted"}
  /\ settled' = settled \cup {Rolling(n)}
  /\ Paint({Rolling(n)}, say[n])
  /\ Onwards(n)
  /\ UNCHANGED <<options, cancelled, engineVars, say, attempts, made, outputs, errors, keys,
                 cache, rng, queueVars, signalVars, started, done, rank, faults>>

\* ... the first node that runs starts it ...
RollsRunning(n) ==
  /\ pc[n] = "counting" /\ say[n] = "running"
  /\ started' = started \cup {Rolling(n)}
  /\ Paint({Rolling(n)} \ started, "running")
  /\ Onwards(n)
  /\ UNCHANGED <<options, cancelled, engineVars, say, attempts, made, outputs, errors, keys,
                 cache, rng, queueVars, signalVars, settled, done, rank, faults>>

\* ... and a node that ended is counted; a line it wrote is relayed on the
\* outermost card, whose await is the reason for container_lock.
Counts(n) ==
  /\ pc[n] = "counting" /\ say[n] \in DOMAIN Rank
  /\ done' = [done EXCEPT ![Rolling(n)] = @ + 1]
  /\ rank' = [rank EXCEPT ![Rolling(n)] = IF Rank[say[n]] > @ THEN Rank[say[n]] ELSE @]
  /\ started' = started \cup {Rolling(n)}
  /\ \/ Paint({Rolling(n)} \ started, "running")
     \/ /\ say[n] # "skipped" /\ Rolling(n) = Outermost(n) /\ Rolling(n) \notin settled
        /\ Paint({Rolling(n)}, "running")
  /\ pc' = [pc EXCEPT ![n] = "settling"]
  /\ UNCHANGED <<options, cancelled, engineVars, say, at, attempts, made, outputs, errors,
                 keys, cache, rng, queueVars, signalVars, roller, settled, faults>>

\* Mutant: the first one to report settles the container.
FirstReported(b) == done[b] >= 1
AllReported(b) == done[b] >= Cardinality(Inner(b))

\* The last one settles the container with the strongest status.
Settles(n) ==
  /\ pc[n] = "settling"
  /\ IF AllReported(Rolling(n))
     THEN Paint({Rolling(n)}, StatusOf(rank[Rolling(n)]))
     ELSE UNCHANGED log
  /\ Onwards(n)
  /\ UNCHANGED <<options, cancelled, engineVars, say, attempts, made, outputs, errors, keys,
                 cache, rng, queueVars, signalVars, started, settled, done, rank, faults>>
----------------------------------------------------------------------------
(* One node: _execute_single_node() *)

\* Mutant: a model output is not looked at for who shares it.
Unshared(n, m) == n = m
Shares(n, m) == n = m \/ (live /\ Handed[n] \cap Handed[m] # {})

\* shared_handle_groups(): the nodes of a level that are handed the same live
\* object, transitively; in a seeded run every node is on its own.
Group(n) ==
  IF seeded THEN {n}
  ELSE LET Closed(S) == \A m \in S, x \in AtLevel(Level[n]) : Shares(m, x) => x \in S
       IN {m \in AtLevel(Level[n]) :
             \A S \in SUBSET AtLevel(Level[n]) : n \in S /\ Closed(S) => m \in S}

\* _execute_in_turn()
ItsTurn(n) == \A m \in Group(n) : Turn[m] < Turn[n] => pc[m] \in Ended

\* Mutant: a failure upstream is not looked for.
IgnoresFailures(n) == FALSE
HasFailedInput(n) == Upstream[n] \cap errors # {}

\* node_cache_keys: a node has a key if it is cacheable and all it reads are.
Keyed(n) == n \notin Uncacheable /\ Upstream[n] \subseteq keys

\* Up to the first frame: skipped, cached or running.
Begins(n) ==
  /\ engine = "levels" /\ Level[n] = level /\ pc[n] = "idle" /\ ItsTurn(n)
  /\ ~cancelled
  /\ IF HasFailedInput(n)
     THEN errors' = errors \cup {n} /\ Reports(n, "skipped") /\ UNCHANGED <<outputs, keys>>
     ELSE /\ keys' = IF Keyed(n) THEN keys \cup {n} ELSE keys
          /\ IF Keyed(n) /\ n \notin Forced /\ cache[n] # "none"
             THEN outputs' = [outputs EXCEPT ![n] = cache[n]] /\ Reports(n, "cached")
             ELSE Reports(n, "running") /\ UNCHANGED outputs
          /\ UNCHANGED errors
  /\ UNCHANGED <<options, cancelled, engineVars, at, attempts, made, cache, rng, queueVars,
                 signalVars, boxVars, log, faults>>

\* Mutant: max_retries + 1 attempts after the first one.
OneMore(n) == MaxRetries + 1
Retries(n) == MaxRetries

\* CancellationError: before the node, or before another attempt.
Stops(n) ==
  /\ engine = "levels" /\ Level[n] = level /\ pc[n] = "idle" /\ ItsTurn(n)
  /\ cancelled
  /\ pc' = [pc EXCEPT ![n] = "stopped"]
  /\ UNCHANGED <<options, cancelled, engineVars, say, at, attempts, made, outputs, errors, keys,
                 cache, rng, queueVars, signalVars, boxVars, log, faults>>

\* Mutant: a seeded run keeps its parallelism.
WorkersAlways == MaxWorkers
Workers == IF seeded THEN 1 ELSE MaxWorkers

\* Mutant: the semaphore is released when the thread ends.
HoldsWhileExecuting == {"executing"}
Holds == {"executing", "returned", "draining"}

\* The semaphore; a seeded run reseeds before the thread starts.
Executes(n) ==
  /\ pc[n] = "waiting"
  /\ Cardinality({m \in Node : pc[m] \in Holds}) < Workers
  /\ pc' = [pc EXCEPT ![n] = "executing"]
  /\ rng' = IF seeded THEN n ELSE rng
  /\ tail' = [tail EXCEPT ![n] = 0]
  /\ UNCHANGED <<options, cancelled, engineVars, say, at, attempts, made, outputs, errors, keys,
                 cache, queueVars, produced, batch, holder, delivered, reported, lost, boxVars,
                 log, faults>>

\* Mutant: the loop is poked when the waker is set already.
PokesWhenArmed == waker
NeedsPoke == ~waker

\* The thread reports: EventOutbox.put() drops the oldest signal when full
\* and pokes the loop unless the waker is set.
Puts(n) ==
  /\ pc[n] = "executing" /\ produced < MaxSignals
  /\ produced' = produced + 1
  /\ tail' = [tail EXCEPT ![n] = produced + 1]
  /\ LET signal == [node |-> n, seq |-> produced + 1]
     IN IF Len(outbox) >= Capacity
        THEN outbox' = Append(Tail(outbox), signal) /\ dropped' = dropped + 1
        ELSE outbox' = Append(outbox, signal) /\ UNCHANGED dropped
  /\ poked' = (poked \/ NeedsPoke)
  /\ UNCHANGED <<options, cancelled, engineVars, nodeVars, waker, batch, holder, delivered,
                 reported, lost, boxVars, log, faults>>

\* The thread ends: with its outputs, partial ones only after a stop ...
Returns(n) ==
  /\ pc[n] = "executing"
  /\ pc' = [pc EXCEPT ![n] = "returned"]
  /\ \E result \in {"full", "partial"} :
       /\ result = "partial" => cancelled
       /\ made' = [made EXCEPT ![n] = result]
  /\ UNCHANGED <<options, cancelled, engineVars, say, at, attempts, outputs, errors, keys, cache,
                 rng, queueVars, signalVars, boxVars, log, faults>>

\* ... or with an exception: the last attempt, or out of memory, which is
\* never retried and drops what the node had cached.  Nothing is drained.
Raises(n) ==
  /\ pc[n] = "executing"
  /\ faults < MaxFaults /\ faults' = faults + 1
  /\ \/ /\ mode = "retry" /\ attempts[n] > 0
        /\ attempts' = [attempts EXCEPT ![n] = @ - 1]
        /\ pc' = [pc EXCEPT ![n] = "backoff"]
        /\ UNCHANGED <<say, errors, cache>>
     \/ /\ \/ (mode # "retry" \/ attempts[n] = 0) /\ UNCHANGED cache
           \/ cache' = [cache EXCEPT ![n] = "none"]
        /\ errors' = IF mode = "fail_fast" THEN errors ELSE errors \cup {n}
        /\ Reports(n, "error")
        /\ UNCHANGED attempts
  /\ UNCHANGED <<options, cancelled, engineVars, at, made, outputs, keys, rng, queueVars,
                 signalVars, boxVars, log>>

Again(n) ==
  /\ pc[n] = "backoff"
  /\ pc' = [pc EXCEPT ![n] = Attempt]
  /\ UNCHANGED <<options, cancelled, engineVars, say, at, attempts, made, outputs, errors, keys,
                 cache, rng, queueVars, signalVars, boxVars, log, faults>>

\* Mutant: partial outputs are cached too.
CachesAll(n) == IF n \in keys THEN made[n] ELSE cache[n]
CacheAfter(n) == IF n \in keys /\ made[n] = "full" THEN made[n] ELSE cache[n]

\* Mutant: deliver_lock is kept.
KeptLock == holder
ReleasedLock == Nobody

\* The drain of a node that returned is over: its outputs count, and its
\* last frame is next.
Completes(n) ==
  /\ pc[n] = "draining" /\ batch[n] = <<>>
  /\ holder' = ReleasedLock
  /\ outputs' = [outputs EXCEPT ![n] = made[n]]
  /\ cache' = [cache EXCEPT ![n] = CacheAfter(n)]
  /\ Reports(n, IF made[n] = "full" THEN "completed" ELSE "interrupted")
  /\ UNCHANGED <<options, cancelled, engineVars, at, attempts, made, errors, keys, rng,
                 queueVars, produced, tail, batch, delivered, reported, lost, boxVars, log,
                 faults>>
----------------------------------------------------------------------------
(* Delivery: EventOutbox and _deliver() *)

\* The callback of call_soon_threadsafe().
Pokes ==
  /\ poked
  /\ poked' = FALSE
  /\ waker' = TRUE
  /\ UNCHANGED <<options, cancelled, engineVars, nodeVars, outbox, dropped, signalVars, boxVars,
                 log, faults>>

\* Mutants: deliver_lock is not taken; a drain forgets its drops.
NoLock(c) == Nobody
HeldBy(c) == c
ForgetsDrops == reported
CountsDrops == reported + dropped

\* _deliver() takes the lock and everything queued.
Drains(c) ==
  /\ holder = Nobody
  /\ holder' = HeldBy(c)
  /\ batch' = [batch EXCEPT ![c] = outbox]
  /\ outbox' = <<>>
  /\ waker' = FALSE
  /\ reported' = CountsDrops
  /\ dropped' = 0
  /\ UNCHANGED <<poked, produced, tail, delivered, lost>>

PumpDrains ==
  /\ waker /\ batch[Pump] = <<>> /\ engine # "returned"
  /\ Drains(Pump)
  /\ UNCHANGED <<options, cancelled, engineVars, nodeVars, boxVars, log, faults>>

NodeDrains(n) ==
  /\ pc[n] = "returned"
  /\ Drains(n)
  /\ pc' = [pc EXCEPT ![n] = "draining"]
  /\ UNCHANGED <<options, cancelled, engineVars, say, at, attempts, made, outputs, errors, keys,
                 cache, rng, boxVars, log, faults>>

\* One signal of the batch goes out.
Dispatches(c) ==
  /\ batch[c] # <<>>
  /\ LET signal == Head(batch[c])
     IN /\ Paint(Painted(signal.node), "progress")
        /\ delivered' = Append(delivered, signal.seq)
  /\ batch' = [batch EXCEPT ![c] = Tail(@)]
  /\ UNCHANGED <<options, cancelled, engineVars, nodeVars, queueVars, produced, tail, holder,
                 reported, lost, boxVars, faults>>

\* A callback raises: what is left of the batch is gone, which is logged.
DispatchRaises(c) ==
  /\ batch[c] # <<>>
  /\ faults < MaxFaults
  /\ faults' = faults + 1
  /\ lost' = lost + Len(batch[c])
  /\ batch' = [batch EXCEPT ![c] = <<>>]
  /\ UNCHANGED <<options, cancelled, engineVars, nodeVars, queueVars, produced, tail, holder,
                 delivered, reported, boxVars, log>>

PumpReleases ==
  /\ holder = Pump /\ batch[Pump] = <<>>
  /\ holder' = ReleasedLock
  /\ UNCHANGED <<options, cancelled, engineVars, nodeVars, queueVars, produced, tail, batch,
                 delivered, reported, lost, boxVars, log, faults>>
----------------------------------------------------------------------------
(* The run: the level loop and the finally *)

\* A user's stop, or the server's.
Stop ==
  /\ ~cancelled /\ engine # "returned"
  /\ cancelled' = TRUE
  /\ UNCHANGED <<options, engineVars, nodeVars, queueVars, signalVars, boxVars, log, faults>>

LastLevel(l) == \A n \in Node : Level[n] <= l

\* Mutant: a stop during the last level is not looked for.
SucceedsAnyway == FALSE
StopRequested == cancelled

\* gather() waits for the whole level; what it raises is the first in order.
EndsLevel ==
  /\ engine = "levels"
  /\ \A n \in AtLevel(level) : pc[n] \in Ended
  /\ LET ends == {pc[n] : n \in AtLevel(level)}
     IN \/ /\ "failed" \in ends
           /\ outcome' = "failed" /\ engine' = "flushing" /\ UNCHANGED level
        \/ /\ "stopped" \in ends
           /\ outcome' = "cancelled" /\ engine' = "flushing" /\ UNCHANGED level
        \/ /\ ends \cap {"failed", "stopped"} = {}
           /\ IF StopRequested \/ LastLevel(level)
              THEN /\ outcome' = IF StopRequested THEN "cancelled" ELSE "succeeded"
                   /\ engine' = "flushing" /\ UNCHANGED level
              ELSE level' = level + 1 /\ UNCHANGED <<outcome, engine>>
  /\ UNCHANGED <<options, cancelled, nodeVars, queueVars, signalVars, boxVars, log, faults>>

\* The finally: unbind, a last _deliver(), and the pump is cancelled.
Flushes ==
  /\ engine = "flushing"
  /\ Drains(Finally)
  /\ engine' = "flushed"
  /\ UNCHANGED <<options, cancelled, level, outcome, nodeVars, boxVars, log, faults>>

ReturnsOutcome ==
  /\ engine = "flushed" /\ batch[Finally] = <<>>
  /\ holder' = ReleasedLock
  /\ engine' = "returned"
  /\ UNCHANGED <<options, cancelled, level, outcome, nodeVars, queueVars, produced, tail, batch,
                 delivered, reported, lost, boxVars, log, faults>>
----------------------------------------------------------------------------

Init ==
  /\ \E r \in Request :
       /\ mode = r.mode /\ seeded = r.seeded /\ live = r.live
       /\ cache = [n \in Node |-> IF n \in r.primed THEN "full" ELSE "none"]
  /\ cancelled = FALSE
  /\ level = 0 /\ engine = "levels" /\ outcome = "none"
  /\ pc = [n \in Node |-> "idle"]
  /\ say = [n \in Node |-> "none"]
  /\ at = [n \in Node |-> 0]
  /\ attempts = [n \in Node |-> Retries(n)]
  /\ made = [n \in Node |-> "none"]
  /\ outputs = [n \in Node |-> "none"]
  /\ errors = {} /\ keys = {}
  /\ rng = Nobody
  /\ outbox = <<>> /\ waker = FALSE /\ poked = FALSE /\ dropped = 0
  /\ produced = 0 /\ tail = [n \in Node |-> 0]
  /\ batch = [c \in Caller |-> <<>>] /\ holder = Nobody
  /\ delivered = <<>> /\ reported = 0 /\ lost = 0
  /\ roller = Nobody /\ started = {} /\ settled = {}
  /\ done = [b \in Box |-> 0] /\ rank = [b \in Box |-> 0]
  /\ log = [c \in Card |-> <<>>]
  /\ faults = 0

RollsUp(n) == RollsBroken(n) \/ RollsRunning(n) \/ Counts(n) \/ Settles(n)
Thread(n) == Puts(n) \/ Returns(n) \/ Raises(n)
OnLoop(n) == \/ Begins(n) \/ Stops(n) \/ Executes(n) \/ Again(n) \/ Says(n) \/ RollsUp(n)
             \/ NodeDrains(n) \/ Completes(n)
Delivery == Pokes \/ PumpDrains \/ PumpReleases \/ \E c \in Caller : Dispatches(c)
Engines == EndsLevel \/ Flushes \/ ReturnsOutcome

Next ==
  \/ \E n \in Node : OnLoop(n) \/ Thread(n)
  \/ Delivery \/ Engines
  \/ \E c \in Caller : DispatchRaises(c)
  \/ Stop

Spec == Init /\ [][Next]_vars

\* The event loop runs what is ready, and its locks are granted in turn;
\* nothing is asked of the nodes' threads.
Fairness == /\ \A n \in Node : WF_vars(OnLoop(n))
            /\ WF_vars(Delivery) /\ WF_vars(Engines)

FairSpec == Spec /\ Fairness
----------------------------------------------------------------------------
(* Properties *)

\* Every variable has its type.
TypeOK ==
  /\ mode \in {"fail_fast", "continue", "retry"} /\ seeded \in BOOLEAN /\ live \in BOOLEAN
  /\ cancelled \in BOOLEAN
  /\ level \in Nat /\ engine \in Engine
  /\ outcome \in {"none", "succeeded", "failed", "cancelled"}
  /\ pc \in [Node -> Stage] /\ say \in [Node -> Frame \cup {"none"}]
  /\ at \in [Node -> Nat] /\ attempts \in [Node -> 0 .. MaxRetries]
  /\ made \in [Node -> Value] /\ outputs \in [Node -> Value] /\ cache \in [Node -> Value]
  /\ errors \subseteq Node /\ keys \subseteq Node /\ rng \in Node \cup {Nobody}
  /\ outbox \in Seq(Signal) /\ waker \in BOOLEAN /\ poked \in BOOLEAN /\ dropped \in Nat
  /\ produced \in 0 .. MaxSignals /\ tail \in [Node -> 0 .. MaxSignals]
  /\ batch \in [Caller -> Seq(Signal)] /\ holder \in Caller \cup {Nobody}
  /\ delivered \in Seq(Nat) /\ reported \in Nat /\ lost \in Nat
  /\ roller \in Node \cup {Nobody} /\ started \subseteq Box /\ settled \subseteq Box
  /\ done \in [Box -> Nat] /\ rank \in [Box -> 0 .. 2]
  /\ log \in [Card -> Seq(Frame)] /\ faults \in 0 .. MaxFaults

\* A follower of the run sees each card run before it ends, a node end once,
\* and a container complete once or be told of failures alone: a node's
\* queued progress never lands after its own "completed" (docstring), and a
\* container never is complete once a node inside it failed.
Cards == INSTANCE CardLog WITH Container <- Box
CardsSpec == Cards!Spec

\* "[A] box's inner_log relays and its one terminal frame" (_roll_up): the
\* docstring's promise of a container.  Two nodes inside that fail are two.
ContainersEndOnce ==
  \A b \in Box : Cardinality({i \in DOMAIN log[b] :
                               log[b][i] \in Clean \cup {"error", "interrupted"}}) <= 1

\* "a single consumer delivers signals in the order they were produced,
\* across every node running in parallel" (docstring).
DeliveredInOrder ==
  \A i, j \in DOMAIN delivered : i < j => delivered[i] < delivered[j]

\* When the engine returns, every signal was delivered, reported as dropped,
\* or went down with a callback that raised; and in a serial run the last
\* signal of a node that returned is delivered (the rule of ArtifactSignal,
\* whose loss orphans a file).
SignalsAreAccountedFor ==
  /\ engine = "returned" => produced = Len(delivered) + reported + lost
  /\ seeded /\ lost = 0 =>
       \A n \in Node : outputs[n] # "none" /\ tail[n] # 0 => tail[n] \in ToSet(delivered)

Busy == {"waiting", "executing", "returned", "draining", "backoff"}

\* Only complete outputs count: of what a node reads nothing failed, was
\* skipped or stopped early, at any distance; nothing partial is cached, to be
\* served as finished by a later run; and a run in which a node stopped early
\* is never filed as succeeded (#122).
OnlyCompleteOutputsCount ==
  \A n \in Node :
    /\ pc[n] \in Busy => \A m \in Upstream[n] : outputs[m] = "full"
    /\ cache[n] # "partial"
    /\ outcome = "succeeded" => outputs[n] # "partial"

\* Nodes that execute do not disturb one another: the process-global RNGs are
\* those a node of a seeded run was seeded with (#134), and two nodes that are
\* handed the same live model take turns (#696).
NodesExecuteApart ==
  \A n \in Node : pc[n] = "executing" =>
    /\ seeded => rng = n
    /\ live => \A m \in Node \ {n} : pc[m] = "executing" => Handed[n] \cap Handed[m] = {}

\* The engine is held up by a node's code or not at all: no lock, semaphore
\* or wait of its own keeps a run from returning; and what a node reports
\* reaches the loop while the node still executes.
NothingIsHeldUp ==
  /\ []<>(engine = "returned" \/ \E n \in Node : pc[n] = "executing")
  /\ outbox # <<>> ~> outbox = <<>>

=============================================================================
