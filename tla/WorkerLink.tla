----------------------------- MODULE WorkerLink -----------------------------
(* The link between the server and a worker agent (backend/app/agent/       *)
(* connection.py, spool.py; backend/app/core/workers.py, executors.py): the *)
(* frames of each run are numbered and spooled by the agent, sent over one  *)
(* connection at a time, routed by the registry to the run's inbox, recorded *)
(* by its executor and acknowledged.  Connections drop at any moment, each  *)
(* side notices when it does; the agent dials again, says run_alive and     *)
(* replays what was not acknowledged.  The server may crash and adopt its   *)
(* runs, the agent may restart and lose them.                               *)
(*                                                                          *)
(* A frame is its run and its seq.  The last frame of a run is its          *)
(* run_finished.  Of the heartbeats only those that list a run the server   *)
(* does not track are steps: the others move clocks, and a deadline may     *)
(* pass at any time.                                                        *)
EXTENDS Naturals, FiniteSets, Sequences, FiniteSetsExt, SequencesExt

CONSTANTS
  Run,            \* the runs placed on this worker
  MaxSeq,         \* bound: frames of a run
  MaxConns,       \* bound: connections the agent opens
  MaxCrashes,     \* bound: crashes of the server
  MaxFaults,      \* bound: failed writes, raising executors, agent restarts
  ReplayBatch,    \* REPLAY_BATCH: frames read from a spool at once
  OrphanAckEvery  \* ORPHAN_ACK_EVERY

Seqs == 1 .. MaxSeq
Conn == 1 .. MaxConns

ASSUME RunsAreFinite == IsFiniteSet(Run)
ASSUME BoundsType == /\ MaxSeq \in Nat \ {0} /\ MaxConns \in Nat \ {0}
                     /\ MaxCrashes \in Nat /\ MaxFaults \in Nat
                     /\ ReplayBatch \in Nat \ {0} /\ OrphanAckEvery \in Nat \ {0}

VARIABLES
  handle,     \* agent: each run's subprocess
  cancelling, \* agent: runs told to stop
  seq,        \* agent: RunHandle.seq, the frames each run has made
  spool,      \* agent: each run's Spool
  unspooled,  \* the frames whose append to the spool failed
  ws,         \* agent: its live connection, 0 when there is none
  todo,       \* agent: spools the replay has still to read, the first under way
  batch,      \* agent: seqs the replay has read and not sent
  dead,       \* agent: the replay task of this connection raised
  dialled,    \* connections opened so far
  whole,      \* the network carries the agent's connection
  up,         \* frames in flight on each connection
  down,       \* frames in flight to the agent on its connection
  handler,    \* server: connections whose socket handler runs
  cur,        \* server: the connection of the registered Worker, 0 for none
  online,     \* server: Worker.online
  tracked,    \* server: Worker.running
  last,       \* server: WorkerRun.last_seq
  awaiting,   \* server: runs with awaiting_alive
  detached,   \* server: runs with detached_at
  aliveDue,   \* server: Worker.alive_deadline is set
  late,       \* server: _late, as pairs <<run, seq>>
  inbox,      \* server: WorkerRun.inbox
  stage,      \* server: how far the executor of each run is
  result,     \* the outcome the executor reported
  revived,    \* runs a crash brought back though they had ended here
  log,        \* frames this server process handed to the run's sinks
  stored,     \* frames a crash found in the database
  persisted,  \* worker_resume.last_seq in the row (and _Acks.acked)
  stop,       \* runs a user stopped (context.should_stop, and the row says so)
  told,       \* runs whose cancel watcher has sent its cancel
  swapped,    \* runs moved from a connection the server still took for live
  crashes, faults

agentVars == <<handle, cancelling, seq, spool, unspooled>>
replayVars == <<todo, batch, dead>>
netVars == <<ws, dialled, swapped, whole, up, down, handler>>
registryVars == <<cur, online, tracked, last, awaiting, detached, aliveDue, late>>
executorVars == <<stage, result, log, stored, persisted, stop, told>>
faultVars == <<crashes, faults, revived>>
vars == <<agentVars, replayVars, netVars, registryVars, inbox, executorVars, faultVars>>

----------------------------------------------------------------------------
(* The agent: making frames *)

\* Whether frame n of r is its run_finished.
IsFinal(r, n) == handle[r] = "over" /\ n = seq[r]

Pending(r) == {n \in spool[r].pending : n > spool[r].acked}

Frame(r, n) == [kind |-> "frame", run |-> r, seq |-> n]
Alive(S) == [kind |-> "alive", runs |-> S]
Cancel(r) == [kind |-> "cancel", run |-> r]
Ack(r, n) == [kind |-> "ack", run |-> r, seq |-> n]
Assign(r) == [kind |-> "assign", run |-> r]

\* A frame leaves on the agent's connection; a half-open one swallows it.
SendUp(f) == up' = IF whole THEN [up EXCEPT ![ws] = Append(@, f)] ELSE up

\* Mutant: a frame goes out though older ones of its run wait.
SendsAlways(r, n) == ws # 0

\* A frame goes out at once only when it is the next one its run owes the
\* connection; otherwise the replay sends it.
SendsNow(r, n) == ws # 0 /\ n = spool[r].sent + 1

\* The spool after frame n was appended, and sent if "now".
Keeps(s, n, final, now) ==
  [s EXCEPT !.open = TRUE, !.pending = @ \cup {n},
            !.final = IF final THEN n ELSE @, !.sent = IF now THEN n ELSE @]

\* send_frame(): append to the spool, then send.  A failed append is logged.
Emit(r, final) ==
  LET n == seq[r] + 1 IN
  /\ handle[r] = "running"
  /\ seq' = [seq EXCEPT ![r] = n]
  /\ \/ /\ spool' = [spool EXCEPT ![r] = Keeps(@, n, final, SendsNow(r, n))]
        /\ UNCHANGED <<unspooled, faults>>
     \/ /\ faults < MaxFaults
        /\ faults' = faults + 1
        /\ spool' = [spool EXCEPT ![r].open = TRUE,
                                  ![r].sent = IF SendsNow(r, n) THEN n ELSE @]
        /\ unspooled' = unspooled \cup {<<r, n>>}
  /\ IF SendsNow(r, n) THEN SendUp(Frame(r, n)) ELSE UNCHANGED up
  /\ UNCHANGED <<cancelling, replayVars, ws, dialled, swapped, whole, down, handler,
                 registryVars, inbox, executorVars, crashes, revived>>

\* An event, a metric or an artifact of the run...
Report(r) == seq[r] + 1 < MaxSeq /\ Emit(r, FALSE) /\ UNCHANGED handle

\* ... and its end, once the subprocess has exited.
Finish(r) == Emit(r, TRUE) /\ handle' = [handle EXCEPT ![r] = "over"]

----------------------------------------------------------------------------
(* The agent: its connection *)

\* The next frames of r that the connection owes it, at most a batch.
NextBatch(r) ==
  LET owed == {n \in Pending(r) : n > spool[r].sent}
  IN {n \in owed : Cardinality({m \in owed : m < n}) < ReplayBatch}

\* read_after() on a spool that an ack completed meanwhile flushes a closed
\* file: the replay task ends with it.
ReplayRead ==
  /\ todo # <<>> /\ batch = {}
  /\ IF ~spool[Head(todo)].open THEN todo' = <<>> /\ dead' = TRUE /\ UNCHANGED batch
     ELSE /\ batch' = NextBatch(Head(todo))
          /\ todo' = IF batch' = {} THEN Tail(todo) ELSE todo
          /\ UNCHANGED dead
  /\ UNCHANGED <<agentVars, netVars, registryVars, inbox, executorVars, faultVars>>

\* The next frame of the batch, unless it was sent meanwhile.
ReplaySend ==
  LET r == Head(todo) n == Min(batch) IN
  /\ batch # {}
  /\ batch' = batch \ {n}
  /\ IF n <= spool[r].sent THEN UNCHANGED <<spool, up>>
     ELSE spool' = [spool EXCEPT ![r].sent = n] /\ SendUp(Frame(r, n))
  /\ UNCHANGED <<handle, cancelling, seq, unspooled, todo, dead, ws, dialled, swapped, whole,
                 down, handler, registryVars, inbox, executorVars, faultVars>>

\* Spool.ack(): forget the frames up to n; a complete spool is deleted.
Applies(s, n) ==
  LET acked == Max({s.acked, n}) IN
  [s EXCEPT !.acked = acked,
            !.open = s.final = 0 \/ acked < s.final]

\* _dispatch(): assign starts a run, cancel asks one to stop, ack.
AgentReceives ==
  LET f == Head(down) r == f.run IN
  /\ ws # 0 /\ down # <<>>
  /\ down' = Tail(down)
  /\ handle' = IF f.kind = "assign" THEN [handle EXCEPT ![r] = "running"] ELSE handle
  /\ cancelling' = IF f.kind = "cancel" /\ handle[r] = "running"
                   THEN cancelling \cup {r} ELSE cancelling
  /\ spool' = IF f.kind = "ack" /\ spool[r].open
              THEN [spool EXCEPT ![r] = Applies(@, f.seq)] ELSE spool
  /\ UNCHANGED <<seq, unspooled, replayVars, ws, dialled, swapped, whole, up, handler,
                 registryVars, inbox, executorVars, faultVars>>

\* The network drops the connection: of what is in flight each side reads
\* some, and loses the rest when it notices.
Drop ==
  /\ ws # 0 /\ whole
  /\ whole' = FALSE
  /\ UNCHANGED <<agentVars, replayVars, ws, dialled, swapped, up, down, handler, registryVars,
                 inbox, executorVars, faultVars>>

\* The agent notices: _serve() ends, and with it the replay.
AgentNotices ==
  /\ ws # 0 /\ ~whole
  /\ ws' = 0
  /\ down' = <<>>
  /\ todo' = <<>> /\ batch' = {} /\ dead' = FALSE
  /\ UNCHANGED <<agentVars, dialled, swapped, whole, up, handler, registryVars, inbox,
                 executorVars, faultVars>>

----------------------------------------------------------------------------
(* The server: the registry *)

\* A frame leaves for the agent on connection k; False when the worker is
\* away (WorkerExecutor._send), lost on a connection the agent has left.
SendDown(k, fs) == down' = IF k # 0 /\ k = ws /\ whole THEN down \o fs ELSE down
CurConn == IF online THEN cur ELSE 0

\* alive_entries(): runs still running or still spooled.
AliveRuns == {r \in Run : handle[r] = "running" \/ (spool[r].open /\ Pending(r) # {})}

\* Mutant: the spools keep what they sent on the connection before.
AnnouncesOnly == spool' = spool

\* _announce(): every spool owes the connection what follows its last ack.
Announces == spool' = [r \in Run |-> [spool[r] EXCEPT !.sent = spool[r].acked]]

\* The agent dials: registry.connect() moves the runs of the worker known
\* under the name (replacing it if it still seems online), then the agent
\* says run_alive and starts the replay of its spools.
Dial ==
  LET k == dialled + 1 IN
  /\ ws = 0 /\ dialled < MaxConns
  /\ dialled' = k /\ ws' = k /\ whole' = TRUE /\ down' = <<>>
  /\ handler' = handler \cup {k}
  /\ cur' = k /\ online' = TRUE
  /\ awaiting' = tracked
  /\ aliveDue' = (tracked # {})
  /\ swapped' = IF online THEN swapped \cup tracked ELSE swapped
  /\ Announces
  /\ up' = IF AliveRuns = {} THEN up ELSE [up EXCEPT ![k] = <<Alive(AliveRuns)>>]
  /\ todo' \in SetToSeqs({r \in Run : spool[r].open})
  /\ batch' = {} /\ dead' = FALSE
  /\ UNCHANGED <<handle, cancelling, seq, unspooled, tracked, last, detached, late,
                 inbox, executorVars, faultVars>>

\* _end(): the runs of E end here; a run_finished that comes later is a late
\* result.
Ends(E) ==
  /\ tracked' = tracked \ E
  /\ late' = late \cup {<<r, last[r]>> : r \in E}
  /\ inbox' = [r \in Run |-> IF r \in E THEN Append(inbox[r], [kind |-> "gone", seq |-> 0])
                             ELSE inbox[r]]
  /\ detached' = detached \ E

\* Mutant: a run still waiting for run_alive is left alone.
DetachesConfirmed == tracked \ (detached \cup awaiting)

\* _detach(): the runs that start to wait for their worker.
Detaches == tracked \ detached

\* disconnect(): the runs of the worker wait for it to come back.
Disconnects ==
  LET D == Detaches IN
  /\ online' = FALSE
  /\ detached' = detached \cup D
  /\ awaiting' = awaiting \ D
  /\ inbox' = [r \in Run |-> IF r \in D THEN Append(inbox[r], [kind |-> "away", seq |-> 0])
                             ELSE inbox[r]]
  /\ UNCHANGED <<cur, tracked, last, aliveDue, late>>

\* A socket handler ends.  A worker that a newer connection replaced, or that
\* is disconnected already, is left alone.
HandlerEnds(k) ==
  /\ k \in handler
  /\ k # ws \/ ~whole
  /\ handler' = handler \ {k}
  /\ up' = [up EXCEPT ![k] = <<>>]
  /\ IF k = cur /\ online THEN Disconnects ELSE UNCHANGED <<registryVars, inbox>>
  /\ UNCHANGED <<agentVars, replayVars, ws, dialled, swapped, whole, down, executorVars, faultVars>>

\* check(): three heartbeats missed, so a run_alive due within the first of
\* them is no longer due.  The socket is closed from this side; its handler
\* still reads what has arrived.
HeartbeatsMissed ==
  /\ online /\ ~aliveDue
  /\ Disconnects
  /\ whole' = (whole /\ cur # ws)
  /\ UNCHANGED <<agentVars, replayVars, ws, dialled, swapped, up, down, handler, executorVars, faultVars>>

\* check(): no run_alive within a heartbeat of the connection...
AliveMissing ==
  /\ online /\ aliveDue
  /\ aliveDue' = FALSE
  /\ Ends(awaiting)
  /\ awaiting' = {}
  /\ UNCHANGED <<agentVars, replayVars, netVars, cur, online, last, executorVars, faultVars>>

\* ... and the resume grace of a run whose worker is away.
GraceOver(r) ==
  /\ ~online /\ r \in tracked \cap detached
  /\ Ends({r})
  /\ awaiting' = awaiting \ {r}
  /\ UNCHANGED <<agentVars, replayVars, netVars, cur, online, last, aliveDue,
                 executorVars, faultVars>>

\* Mutant: strays are left to run.
CancelsNone(R, recent) == {}

\* _cancel_untracked(): stop what the worker runs and nothing here tracks,
\* but for the runs whose end it has just reported.
Untracked(R, recent) == (R \ tracked) \ recent

\* _recently_closed: of the runs that finished here, those of the last
\* RECENTLY_CLOSED_S; a restarted server knows of none.
RecentlyClosed == SUBSET {r \in Run : result[r] = "finished"}

\* run_alive(): keep the inherited runs the agent lists, end the rest.
ReceiveAlive(k, R) ==
  LET back == awaiting \cap R \cap detached IN
  IF k # cur THEN UNCHANGED <<registryVars, inbox, down>>
  ELSE /\ tracked' = tracked \ (awaiting \ R)
       /\ late' = late \cup {<<r, last[r]>> : r \in awaiting \ R}
       /\ detached' = detached \ awaiting
       /\ inbox' = [r \in Run |->
                     IF r \in awaiting \ R THEN Append(inbox[r], [kind |-> "gone", seq |-> 0])
                     ELSE IF r \in back THEN Append(inbox[r], [kind |-> "back", seq |-> 0])
                     ELSE inbox[r]]
       /\ awaiting' = {}
       /\ aliveDue' = FALSE
       /\ \E recent \in RecentlyClosed :
            SendDown(k, SetToSeq({Cancel(r) : r \in Untracked(R, recent)}))
       /\ UNCHANGED <<cur, online, last>>

\* Mutant: a frame of an older connection is not recognised as a duplicate.
AlwaysNew(r, n) == TRUE

IsNew(r, n) == n > last[r]

\* route(): a duplicate is dropped, a gap is accepted; a frame of a run that
\* nothing here waits for is acknowledged now and then, its run_finished once
\* recorded as a late result.
ReceiveFrame(k, r, n) ==
  IF k = cur /\ r \in tracked
  THEN /\ IF IsNew(r, n)
          THEN /\ last' = [last EXCEPT ![r] = n]
               /\ inbox' = [inbox EXCEPT ![r] = Append(@, [kind |-> "frame", seq |-> n])]
          ELSE UNCHANGED <<last, inbox>>
       /\ UNCHANGED <<late, down>>
  ELSE /\ late' = {IF p[1] = r /\ n > p[2] THEN <<r, n>> ELSE p :
                     p \in {p \in late : ~(p[1] = r /\ n > p[2] /\ IsFinal(r, n))}}
       /\ IF IsFinal(r, n) \/ n % OrphanAckEvery = 0
          THEN SendDown(k, <<Ack(r, n)>>) ELSE UNCHANGED down
       /\ UNCHANGED <<last, inbox>>

\* One frame read by a socket handler.
ServerReceives(k) ==
  /\ k \in handler /\ up[k] # <<>>
  /\ up' = [up EXCEPT ![k] = Tail(@)]
  /\ LET f == Head(up[k]) IN
     \/ f.kind = "alive" /\ ReceiveAlive(k, f.runs)
     \/ /\ f.kind = "frame" /\ ReceiveFrame(k, f.run, f.seq)
        /\ UNCHANGED <<cur, online, tracked, awaiting, detached, aliveDue>>
  /\ UNCHANGED <<agentVars, replayVars, ws, dialled, swapped, whole, handler, executorVars, faultVars>>

\* A heartbeat that lists runs nothing here tracks.
Heartbeat ==
  LET running == {r \in Run : handle[r] = "running"} IN
  /\ ws # 0 /\ ws = cur /\ whole /\ online /\ up[ws] = <<>>
  /\ \E recent \in RecentlyClosed : \E r \in Untracked(running, recent) :
       /\ \A i \in DOMAIN down : down[i] # Cancel(r)
       /\ r \notin cancelling
       /\ SendDown(ws, <<Cancel(r)>>)
  /\ UNCHANGED <<agentVars, replayVars, ws, dialled, swapped, whole, up, handler, registryVars,
                 inbox, executorVars, faultVars>>

----------------------------------------------------------------------------
(* The server: the executor of a run *)

\* Mutant: one too many.
RecordedNext(r) == IF log[r] = <<>> THEN persisted[r] ELSE Max({Last(log[r]), persisted[r]}) + 1

\* The seq of the last frame of r that the sinks have.
Recorded(r) == IF log[r] = <<>> THEN persisted[r] ELSE Max({Last(log[r]), persisted[r]})

\* Mutant: close_run() is not called.
ReturnsOpen(r, o) ==
  /\ stage' = [stage EXCEPT ![r] = "reported"]
  /\ result' = [result EXCEPT ![r] = o]
  /\ UNCHANGED <<tracked, awaiting, detached>>

\* The executor returns o; close_run() forgets the run.
Returns(r, o) ==
  /\ stage' = [stage EXCEPT ![r] = "reported"]
  /\ result' = [result EXCEPT ![r] = o]
  /\ tracked' = tracked \ {r}
  /\ awaiting' = awaiting \ {r}
  /\ detached' = detached \ {r}

Stopped(r) == IF r \in stop THEN "cancelled" ELSE "interrupted"

\* run(): the worker is there, so assign goes out; it is not, so the run ends.
Start(r) ==
  /\ stage[r] = "queued"
  /\ IF online
     THEN /\ stage' = [stage EXCEPT ![r] = "serving"]
          /\ tracked' = tracked \cup {r}
          /\ SendDown(cur, <<Assign(r)>>)
          /\ UNCHANGED <<result, awaiting, detached>>
     ELSE Returns(r, Stopped(r)) /\ UNCHANGED down
  /\ UNCHANGED <<agentVars, replayVars, ws, dialled, swapped, whole, up, handler, cur, online,
                 last, aliveDue, late, inbox, log, stored, persisted, stop, told, faultVars>>

\* Mutant: acknowledged, and not persisted yet.
FlushUnsaved(r) ==
  /\ stage[r] = "serving" /\ Recorded(r) > persisted[r]
  /\ SendDown(CurConn, <<Ack(r, Recorded(r))>>)
  /\ UNCHANGED <<agentVars, replayVars, ws, dialled, swapped, whole, up, handler, registryVars,
                 inbox, executorVars, faultVars>>

\* _Acks.flush(): persist what was recorded, then acknowledge it.
Flush(r) ==
  /\ stage[r] = "serving" /\ Recorded(r) > persisted[r]
  /\ persisted' = [persisted EXCEPT ![r] = Recorded(r)]
  /\ SendDown(CurConn, <<Ack(r, Recorded(r))>>)
  /\ UNCHANGED <<agentVars, replayVars, ws, dialled, swapped, whole, up, handler, registryVars,
                 inbox, stage, result, log, stored, stop, told, faultVars>>

\* A frame from the inbox.
TakeFrame(r, n) ==
  /\ log' = [log EXCEPT ![r] = Append(@, n)]
  /\ IF ~IsFinal(r, n)
     THEN UNCHANGED <<stage, result, tracked, awaiting, detached, persisted, down, faults>>
     ELSE /\ Returns(r, "finished")
          /\ \/ /\ persisted' = [persisted EXCEPT ![r] = Max({Recorded(r), n})]
                /\ SendDown(CurConn, <<Ack(r, n)>>)
                /\ UNCHANGED faults
             \/ /\ faults < MaxFaults
                /\ faults' = faults + 1
                /\ UNCHANGED <<persisted, down>>
  /\ UNCHANGED told

\* Mutant: a stop is asked once.
RepeatsNothing(r) == <<>>

\* What is repeated after a reconnect besides the ack.
Repeats(r) == IF r \in stop THEN <<Cancel(r)>> ELSE <<>>

\* _reconnected(): the last ack again, and the stop.
TakeBack(r) ==
  /\ persisted' = [persisted EXCEPT ![r] = Recorded(r)]
  /\ SendDown(CurConn, (IF Recorded(r) = 0 THEN <<>> ELSE <<Ack(r, Recorded(r))>>) \o Repeats(r))
  /\ UNCHANGED <<stage, result, tracked, awaiting, detached, log, faults, told>>

Take(r) ==
  LET item == Head(inbox[r]) IN
  /\ stage[r] = "serving" /\ inbox[r] # <<>>
  /\ inbox' = [inbox EXCEPT ![r] = Tail(@)]
  /\ \/ item.kind = "frame" /\ TakeFrame(r, item.seq)
     \/ item.kind = "back" /\ TakeBack(r)
     \/ /\ item.kind = "away"
        /\ UNCHANGED <<stage, result, tracked, awaiting, detached, log, persisted,
                       down, faults, told>>
     \/ /\ item.kind = "gone" /\ Returns(r, Stopped(r))
        /\ UNCHANGED <<log, persisted, down, faults, told>>
  /\ UNCHANGED <<agentVars, replayVars, ws, dialled, swapped, whole, up, handler, cur, online, last,
                 aliveDue, late, stored, stop, crashes, revived>>

\* A sink or a send raises: the run ends here, and may go on over there.
ServeRaises(r) ==
  /\ stage[r] = "serving"
  /\ faults < MaxFaults
  /\ faults' = faults + 1
  /\ Returns(r, Stopped(r))
  /\ UNCHANGED <<agentVars, replayVars, netVars, cur, online, last, aliveDue, late, inbox,
                 log, stored, persisted, stop, told, crashes, revived>>

\* cancel(): the run is to stop, and its row says so...
Stop(r) ==
  /\ stage[r] = "serving" /\ r \notin stop
  /\ stop' = stop \cup {r}
  /\ UNCHANGED <<agentVars, replayVars, netVars, registryVars, inbox, stage, result, log,
                 stored, persisted, told, faultVars>>

\* ... and its watcher forwards the stop, once, when the worker is there.
ForwardCancel(r) ==
  /\ stage[r] = "serving" /\ r \in stop \ told /\ online
  /\ told' = told \cup {r}
  /\ SendDown(cur, <<Cancel(r)>>)
  /\ UNCHANGED <<agentVars, replayVars, ws, dialled, swapped, whole, up, handler, registryVars,
                 inbox, stage, result, log, stored, persisted, stop, faultVars>>

\* _finalize(): the buffered metrics, the closing event and the row.
File(r) ==
  /\ stage[r] = "reported"
  /\ stage' = [stage EXCEPT ![r] = "filed"]
  /\ stored' = stored \cup {<<r, n>> : n \in ToSet(log[r])}
  /\ log' = [log EXCEPT ![r] = <<>>]
  /\ inbox' = [inbox EXCEPT ![r] = <<>>]
  /\ UNCHANGED <<agentVars, replayVars, netVars, registryVars, result, persisted,
                 stop, told, faultVars>>

----------------------------------------------------------------------------
(* Crashes *)

\* The server crashes and is back: runs whose row is not closed are adopted
\* at the persisted seq; a run that never started is retired.  A frame past
\* that seq may be in the database too: the replay brings it once more.
Crash ==
  LET adopted == {r \in Run : stage[r] \in {"serving", "reported"}} IN
  /\ crashes < MaxCrashes
  /\ crashes' = crashes + 1
  /\ revived' = revived \cup (adopted \ {r \in tracked : stage[r] = "serving"})
  /\ whole' = FALSE /\ handler' = {} /\ cur' = 0 /\ online' = FALSE
  /\ up' = [k \in Conn |-> <<>>]
  /\ tracked' = adopted /\ detached' = adopted
  /\ awaiting' = {} /\ aliveDue' = FALSE /\ late' = {} /\ told' = {}
  /\ last' = persisted
  /\ inbox' = [r \in Run |-> <<>>]
  /\ stored' = stored \cup {p \in Run \X Seqs : p[2] \in ToSet(log[p[1]])
                                               /\ p[2] <= persisted[p[1]]}
  /\ log' = [r \in Run |-> <<>>]
  /\ stage' = [r \in Run |-> IF r \in adopted THEN "serving" ELSE "filed"]
  /\ result' = [r \in Run |-> IF r \in adopted THEN "none"
                              ELSE IF stage[r] = "queued" THEN "interrupted" ELSE result[r]]
  /\ UNCHANGED <<agentVars, replayVars, ws, dialled, swapped, down, persisted, stop, faults>>

\* The agent ends and is started again: its runs ended with it, and the
\* spools it left are discarded.
AgentRestarts ==
  /\ faults < MaxFaults
  /\ faults' = faults + 1
  /\ handle' = [r \in Run |-> IF handle[r] = "running" THEN "lost" ELSE handle[r]]
  /\ cancelling' = {}
  /\ spool' = [r \in Run |-> [spool[r] EXCEPT !.open = FALSE, !.pending = {}]]
  /\ ws' = 0 /\ whole' = FALSE /\ down' = <<>>
  /\ todo' = <<>> /\ batch' = {} /\ dead' = FALSE
  /\ UNCHANGED <<seq, unspooled, dialled, swapped, up, handler, registryVars, inbox, executorVars,
                 crashes, revived>>

----------------------------------------------------------------------------

NoSpool == [open |-> FALSE, pending |-> {}, acked |-> 0, sent |-> 0, final |-> 0]

Init ==
  /\ handle = [r \in Run |-> "none"] /\ cancelling = {}
  /\ seq = [r \in Run |-> 0]
  /\ spool = [r \in Run |-> NoSpool] /\ unspooled = {}
  /\ ws = 0 /\ todo = <<>> /\ batch = {} /\ dead = FALSE
  /\ dialled = 0 /\ whole = FALSE
  /\ up = [k \in Conn |-> <<>>] /\ down = <<>> /\ handler = {}
  /\ cur = 0 /\ online = FALSE /\ tracked = {} /\ last = [r \in Run |-> 0]
  /\ awaiting = {} /\ detached = {} /\ aliveDue = FALSE /\ late = {}
  /\ inbox = [r \in Run |-> <<>>]
  /\ stage = [r \in Run |-> "queued"] /\ result = [r \in Run |-> "none"]
  /\ log = [r \in Run |-> <<>>] /\ stored = {} /\ persisted = [r \in Run |-> 0]
  /\ stop = {} /\ told = {}
  /\ swapped = {} /\ crashes = 0 /\ faults = 0 /\ revived = {}

Next ==
  \/ \E r \in Run : \/ Report(r) \/ Finish(r)
                    \/ Start(r) \/ Take(r) \/ Flush(r) \/ ServeRaises(r)
                    \/ Stop(r) \/ ForwardCancel(r) \/ File(r) \/ GraceOver(r)
  \/ ReplayRead \/ ReplaySend \/ AgentReceives
  \/ Drop \/ AgentNotices \/ Dial
  \/ \E k \in Conn : HandlerEnds(k) \/ ServerReceives(k)
  \/ HeartbeatsMissed \/ AliveMissing \/ Heartbeat
  \/ Crash \/ AgentRestarts

Spec == Init /\ [][Next]_vars

\* Tasks of both event loops run on, frames on a live connection arrive, an
\* agent without a connection dials again, deadlines pass, and a subprocess
\* told to stop ends (it is killed after its grace).  Nothing makes a run
\* report or end of its own, or a connection drop.
Fairness ==
  /\ \A r \in Run : /\ WF_vars(Start(r) \/ Take(r) \/ File(r))
                    /\ WF_vars(Flush(r))
                    /\ WF_vars(ForwardCancel(r))
                    /\ WF_vars(GraceOver(r))
                    /\ WF_vars(r \in cancelling /\ Finish(r))
  /\ \A k \in Conn : WF_vars(HandlerEnds(k) \/ ServerReceives(k))
  /\ WF_vars(ReplayRead \/ ReplaySend)
  /\ WF_vars(AgentReceives)
  /\ WF_vars(AgentNotices \/ Dial)
  /\ WF_vars(AliveMissing \/ Heartbeat)

FairSpec == Spec /\ Fairness

----------------------------------------------------------------------------
(* Properties *)

Upward == {Frame(r, n) : r \in Run, n \in Seqs} \cup {Alive(S) : S \in SUBSET Run}
Downward == {Ack(r, n) : r \in Run, n \in Seqs}
            \cup {Assign(r) : r \in Run} \cup {Cancel(r) : r \in Run}
Items == [kind : {"frame"}, seq : Seqs] \cup [kind : {"away", "back", "gone"}, seq : {0}]

\* Every variable has its type.
TypeOK ==
  /\ handle \in [Run -> {"none", "running", "over", "lost"}]
  /\ cancelling \subseteq Run
  /\ seq \in [Run -> 0 .. MaxSeq]
  /\ spool \in [Run -> [open : BOOLEAN, pending : SUBSET Seqs, acked : 0 .. MaxSeq,
                        sent : 0 .. MaxSeq, final : 0 .. MaxSeq]]
  /\ unspooled \subseteq Run \X Seqs
  /\ ws \in 0 .. MaxConns /\ dialled \in 0 .. MaxConns /\ whole \in BOOLEAN
  /\ swapped \subseteq Run
  /\ todo \in Seq(Run) /\ batch \subseteq Seqs /\ dead \in BOOLEAN
  /\ up \in [Conn -> Seq(Upward)] /\ down \in Seq(Downward)
  /\ handler \subseteq Conn /\ cur \in 0 .. MaxConns /\ online \in BOOLEAN
  /\ tracked \subseteq Run /\ awaiting \subseteq tracked /\ detached \subseteq tracked
  /\ last \in [Run -> 0 .. MaxSeq] /\ aliveDue \in BOOLEAN
  /\ late \subseteq Run \X (0 .. MaxSeq)
  /\ inbox \in [Run -> Seq(Items)]
  /\ stage \in [Run -> {"queued", "serving", "reported", "filed"}]
  /\ result \in [Run -> {"none", "finished", "interrupted", "cancelled"}]
  /\ revived \subseteq Run
  /\ log \in [Run -> Seq(Seqs)]
  /\ stored \subseteq Run \X Seqs /\ persisted \in [Run -> 0 .. MaxSeq]
  /\ stop \subseteq Run /\ told \subseteq Run
  /\ crashes \in 0 .. MaxCrashes /\ faults \in 0 .. MaxFaults

\* The frames of r that are recorded, or that nothing can send again.
KeptOrLost(r) == {n \in Seqs : <<r, n>> \in stored \cup unspooled} \cup ToSet(log[r])

\* The replay is over, and the connection still owes frames of r.
Withheld(r) == ws # 0 /\ todo = <<>> /\ \E n \in Pending(r) : n > spool[r].sent

\* The agent forgets a frame of a served run only once it is recorded where
\* a crash of the server does not lose it ("the agent forgets what is
\* acknowledged, so a restarted server must have all of it", _Acks), and a run
\* the server files as its worker reported it has every frame the run made,
\* whatever was replayed, duplicated or dropped on the way; both except for a
\* run that had ended here before a crash brought it back.
FramesAreKept ==
  \A r \in Run \ revived :
    /\ r \in tracked => 1 .. spool[r].acked \subseteq KeptOrLost(r)
    /\ result[r] = "finished" => 1 .. seq[r] \subseteq KeptOrLost(r)

\* A run is tracked from its assignment until its executor returns or its
\* end is in its inbox: none is served for which nothing will ever arrive,
\* and none holds its slots that is not served.  One that waits for its
\* worker, or to be confirmed by it, has a deadline that ends the wait.
ServedRunsAreTracked ==
  /\ \A r \in Run :
       /\ r \in tracked => stage[r] = "serving"
       /\ stage[r] = "serving" /\ r \notin tracked
            => \E i \in DOMAIN inbox[r] : inbox[r][i].kind = "gone"
  /\ online => detached \subseteq awaiting /\ (awaiting # {} => aliveDue)
  /\ ~online => tracked \subseteq detached

\* The sinks get the frames of a run in order, and none that the server said
\* was recorded a second time: not after a replay, a replaced connection or
\* a restart.
FramesComeInOrder ==
  [][\A r \in Run : Len(log'[r]) > Len(log[r]) => Last(log'[r]) > Recorded(r)]_vars

\* A run that ended on the agent ends here too, unless the connection
\* withholds its frames, its end could not be spooled, or a crash brought it
\* back after its end was acknowledged.
EndsArrive ==
  \A r \in Run :
    stage[r] = "serving" /\ handle[r] \in {"over", "lost"}
      ~> \/ stage[r] = "filed" \/ Withheld(r)
         \/ <<r, seq[r]>> \in unspooled \/ r \in revived

\* A stop reaches the agent, across drops and crashes ("again after a
\* reconnect, in case the first one was lost"), unless a connection was
\* replaced that the server still took for live; and a run that ended here
\* and runs on over there is stopped, or the agent has lost its connection.
StopsArrive ==
  /\ \A r \in Run :
       r \in stop ~> stage[r] # "serving" \/ handle[r] # "running" \/ r \in swapped
  /\ \A r \in Run :
       stage[r] = "filed" /\ handle[r] = "running" ~> handle[r] # "running" \/ ws = 0

\* "Otherwise the replay sends it, in order" (send_frame): once the replay is
\* over, a connection withholds nothing that is spooled.
ReplaySendsTheRest == \A r \in Run : ~Withheld(r)

=============================================================================
