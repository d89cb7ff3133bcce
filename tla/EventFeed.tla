------------------------------ MODULE EventFeed ------------------------------
(* How the events of one run reach those that follow it: the push feed of   *)
(* /ws/execution (backend/app/api/ws_execution.py over RunService.subscribe)*)
(* and the long poll of GET /api/runs/{id}/events (wait_for_events).        *)
(*                                                                          *)
(* _emit() appends to the log, then offers the event to the subscribers.    *)
(* Database.run holds its lock until the appending coroutine goes on, so    *)
(* no reader of the log sees the event before it was offered: one step.     *)
(* That lock is granted in the order asked: the writes that retire a        *)
(* waiting run and the reads of the pumps pass each other nowhere.  The     *)
(* reads of the long polls are left free to.                                *)
EXTENDS Naturals, Sequences

CONSTANTS
  Client,      \* sockets that follow the run
  Poller,      \* long polls
  QueueSize,   \* bound of a subscription's queue (subscriber_queue_size)
  PageSize,    \* REPLAY_PAGE_SIZE
  MaxEvents,   \* bound: length of the log
  MaxAttach,   \* bound: attachments of one client
  MaxFaults    \* bound: appends that raise

ASSUME FeedSizes == QueueSize \in Nat \ {0} /\ PageSize \in Nat \ {0}
ASSUME FeedBounds == MaxEvents \in Nat /\ MaxAttach \in Nat /\ MaxFaults \in Nat

VARIABLES
  run,      \* where the service holds the run, see Run
  last,     \* the newest cursor of the durable log; cursors are gapless
  over,     \* the newest event is the run's closing frame
  swept,    \* shutdown() took the run off the queue behind others
  faults,
  ahead,    \* clients whose read is in line for the database before the
            \* write that retires the run
  subs,     \* clients in the run's subscriber set
  queue,    \* RunSubscription.queue: cursors, 0 for the end-of-run sentinel
  dropped,  \* RunSubscription._dropped > 0
  closed,   \* RunSubscription.closed
  pump,     \* what each client's _pump_events() does, see Pump
  replay,   \* which of its replays it is in, see Replays
  sent,     \* the newest cursor it sent
  page,     \* the page of stored events it is sending: up to .hi
  held,     \* the live event it took off the queue
  attaches,
  poll,     \* what each long poll does
  woken,    \* its generation of the broadcast was notified
  got       \* the cursor it asks after

runVars == <<run, last, over, swept, faults>>
pumpVars == <<subs, queue, dropped, closed, pump, replay, sent, page, held, attaches>>
pollVars == <<poll, woken, got>>
vars == <<runVars, ahead, pumpVars, pollVars>>

\* "swept": off the queue, in neither index, shutdown() still writes others;
\* "leaving": the same, the write of its row in line for the database;
\* "filed": the append of its closing frame in line; "lost": a write of the
\* row raised; "dying": a hard cancel skips _finalize(); "finished": the
\* closing frame was emitted, still registered.
Run == {"waiting", "swept", "leaving", "filed", "lost", "active", "dying", "finished", "gone"}

\* The first replay, a catch-up with a live event in hand, the last replay.
Replays == {"first", "catchup", "final"}
Pump == {"off", "starting", "reading", "sending", "getting", "holding", "done"}

----------------------------------------------------------------------------
(* The run: events and the end *)

\* Mutant: the queue has no bound.
OffersAll(event) ==
  /\ queue' = [c \in Client |-> IF c \in subs THEN Append(queue[c], event) ELSE queue[c]]
  /\ UNCHANGED dropped

\* RunSubscription.offer(): a full queue drops the event and counts it.
Offers(event) ==
  /\ queue' = [c \in Client |-> IF c \in subs /\ Len(queue[c]) < QueueSize
                                THEN Append(queue[c], event) ELSE queue[c]]
  /\ dropped' = [c \in Client |-> IF c \in subs /\ Len(queue[c]) >= QueueSize
                                  THEN TRUE ELSE dropped[c]]

\* Mutant: only the polls that already sleep are woken.
NotifySleepers ==
  woken' = [p \in Poller |-> woken[p] \/ poll[p] = "parked"] /\ UNCHANGED <<poll, got>>

\* _Broadcast.notify(): whoever captured the current event is woken.
Notify == woken' = [p \in Poller |-> TRUE] /\ UNCHANGED <<poll, got>>

FanOut(event) ==
  /\ Offers(event) /\ Notify
  /\ UNCHANGED <<subs, closed, pump, replay, sent, page, held, attaches>>

\* close(): the sentinel to every subscriber, which is let go, and a wake-up.
\* Mutant: closed is not set, the sentinel alone says it.
CloseBySentinel ==
  /\ Offers(0) /\ Notify /\ subs' = {}
  /\ UNCHANGED <<closed, pump, replay, sent, page, held, attaches>>

CloseFeed ==
  /\ Offers(0) /\ Notify
  /\ closed' = [c \in Client |-> IF c \in subs THEN TRUE ELSE closed[c]]
  /\ subs' = {}
  /\ UNCHANGED <<pump, replay, sent, page, held, attaches>>

\* append_event().
Append1 == last < MaxEvents /\ last' = last + 1

Fault == faults < MaxFaults /\ faults' = faults + 1

\* The subscriber set and the broadcast go from the queue's entry to the
\* registry's.
Promote == /\ run = "waiting" /\ run' = "active"
           /\ UNCHANGED <<last, over, swept, faults, ahead, pumpVars, pollVars>>

\* The next write about this run comes behind the reads that are in line.
InLine == ahead' = {c \in Client : pump[c] = "reading"}

\* Mutant: the run leaves the queue a step before its write is in line.
RetireLate == /\ run = "waiting" /\ run' = "swept"
              /\ UNCHANGED <<last, over, swept, faults, ahead, pumpVars, pollVars>>

\* cancel(), a removed worker or the first entry of _retire_queue(): the run
\* leaves the queue and nothing is awaited before mark_finished().
Retire == /\ run = "waiting" /\ run' = "leaving"
          /\ InLine
          /\ UNCHANGED <<last, over, swept, faults, pumpVars, pollVars>>

\* The other entries of _retire_queue() leave the queue with the first ...
Sweep == /\ run = "waiting" /\ run' = "swept" /\ swept' = TRUE
         /\ UNCHANGED <<last, over, faults, ahead, pumpVars, pollVars>>

\* ... and are filed one by one.
TurnComes == /\ run = "swept" /\ run' = "leaving"
             /\ InLine
             /\ UNCHANGED <<last, over, swept, faults, pumpVars, pollVars>>

\* mark_finished(): its closing frame is next, or _QueuedRun.close() when the
\* row was no longer queued.
Files == /\ run = "leaving" /\ ahead = {}
         /\ \/ run' = "filed" /\ InLine /\ UNCHANGED <<pumpVars, pollVars>>
            \/ run' = "gone" /\ CloseFeed /\ UNCHANGED ahead
         /\ UNCHANGED <<last, over, swept, faults>>

\* It raised, or that of an earlier entry did: nobody closes the entry any
\* more.
RetireRaises == /\ run = "swept" \/ (run = "leaving" /\ ahead = {})
                /\ run' = "lost"
                /\ Fault
                /\ UNCHANGED <<last, over, swept, ahead, pumpVars, pollVars>>

\* The closing frame, then close() with nothing awaited in between.  _emit()
\* finds nobody to offer the frame to, the run is not in the registry.
Part == /\ run = "filed" /\ ahead = {} /\ run' = "gone"
        /\ \/ Append1 /\ over' = TRUE /\ UNCHANGED faults
           \/ Fault /\ UNCHANGED <<last, over>>
        /\ CloseFeed
        /\ UNCHANGED <<swept, ahead>>

\* One event is left for the closing frame.
Emit == /\ run = "active" /\ last + 1 < MaxEvents
        /\ Append1 /\ FanOut(last')
        /\ UNCHANGED <<run, over, swept, faults, ahead>>

\* The append raised: logged, and the pollers are woken for nothing.
EmitRaises == /\ run = "active" /\ Fault
              /\ Notify
              /\ UNCHANGED <<run, last, over, swept, ahead, pumpVars>>

\* _finalize(): the closing frame, and finished is set before its next await.
Finish ==
  /\ run = "active" /\ run' = "finished"
  /\ \/ Append1 /\ over' = TRUE /\ FanOut(last') /\ UNCHANGED faults
     \/ Fault /\ Notify /\ UNCHANGED <<last, over, pumpVars>>
  /\ UNCHANGED <<swept, ahead>>

\* A hard cancel: an append in flight may have committed, its event is
\* offered to nobody.
Kill == /\ run = "active" /\ run' = "dying"
        /\ (last + 1 < MaxEvents /\ Append1) \/ UNCHANGED last
        /\ UNCHANGED <<over, swept, faults, ahead, pumpVars, pollVars>>

\* _ActiveRun.close(), in _drive()'s finally.
Deregister == /\ run \in {"finished", "dying"} /\ run' = "gone"
              /\ CloseFeed
              /\ UNCHANGED <<last, over, swept, faults, ahead>>

----------------------------------------------------------------------------
(* A client of the socket: attach, detach, the pump *)

\* What a step of c's pump leaves alone; its read was served or given up.
Unpumped(c) == ahead' = ahead \ {c} /\ UNCHANGED <<runVars, pollVars, attaches>>
Goes(c, to) == pump' = [pump EXCEPT ![c] = to] /\ UNCHANGED replay
Replay(c, which) == /\ pump' = [pump EXCEPT ![c] = "reading"]
                    /\ replay' = [replay EXCEPT ![c] = which]

\* The subscription is let go: subscribe()'s finally.
Unsubscribed(c) ==
  /\ subs' = subs \ {c}
  /\ queue' = [queue EXCEPT ![c] = <<>>]
  /\ dropped' = [dropped EXCEPT ![c] = FALSE]
  /\ closed' = [closed EXCEPT ![c] = FALSE]

\* detach() cancels the pump, which leaves the subscriber set; so does a
\* socket that went away.
Detach(c) ==
  /\ pump[c] # "off"
  /\ Goes(c, "off")
  /\ Unsubscribed(c)
  /\ page' = [page EXCEPT ![c] = [hi |-> 0, full |-> FALSE]]
  /\ held' = [held EXCEPT ![c] = 0]
  /\ Unpumped(c) /\ UNCHANGED sent

\* handle_attach(): any cursor that the log has reached; a cursor past it is
\* refused.  attach() detaches first, then starts a pump.
Attach(c) ==
  /\ attaches[c] < MaxAttach
  /\ attaches' = [attaches EXCEPT ![c] = @ + 1]
  /\ \E k \in 0 .. last : sent' = [sent EXCEPT ![c] = k]
  /\ Goes(c, "starting")
  /\ Unsubscribed(c)
  /\ ahead' = ahead \ {c}
  /\ UNCHANGED <<runVars, pollVars, page, held>>

\* Is there more to come?  Of a run in neither index, or finished, a feed is
\* closed from the start and a poll has nothing to wait on (_waiter_for).
Live == run \in {"waiting", "active", "dying"}

Subscribe(c) ==
  /\ pump[c] = "starting"
  /\ Replay(c, "first")
  /\ subs' = IF Live THEN subs \cup {c} ELSE subs
  /\ closed' = [closed EXCEPT ![c] = ~Live]
  /\ Unpumped(c) /\ UNCHANGED <<queue, dropped, sent, page, held>>

\* _replay(): a page of the stored events after the last one sent, when the
\* database is c's.
ReadPage(c) ==
  /\ pump[c] = "reading" /\ (run \in {"leaving", "filed"} => c \in ahead)
  /\ LET hi == IF last > sent[c] + PageSize THEN sent[c] + PageSize ELSE last
     IN page' = [page EXCEPT ![c] = [hi |-> hi, full |-> hi = sent[c] + PageSize]]
  /\ Goes(c, "sending")
  /\ Unpumped(c) /\ UNCHANGED <<subs, queue, dropped, closed, sent, held>>

Sends(c, cursor) == sent' = [sent EXCEPT ![c] = cursor]

SendStored(c) ==
  /\ pump[c] = "sending" /\ sent[c] < page[c].hi
  /\ Sends(c, sent[c] + 1)
  /\ Unpumped(c) /\ UNCHANGED <<subs, queue, dropped, closed, pump, replay, page, held>>

\* The page is sent: another one after a full page, else the replay is over.
\* After a catch-up the event in hand is sent, unless the replay sent it.
PageDone(c) ==
  /\ pump[c] = "sending" /\ sent[c] = page[c].hi
  /\ Goes(c, CASE page[c].full -> "reading"
              [] ~page[c].full /\ replay[c] = "final" -> "done"
              [] ~page[c].full /\ replay[c] = "catchup" /\ held[c] > sent[c] -> "holding"
              [] OTHER -> "getting")
  /\ Unpumped(c) /\ UNCHANGED <<subs, queue, dropped, closed, sent, page, held>>

\* Mutant: what was missed goes unnoticed.
NoticesNothing(c, event) == FALSE

\* take_dropped(), or a cursor that skips one.
Missed(c, event) == dropped[c] \/ event > sent[c] + 1

\* An event off the queue: a catch-up first when some were missed; one that
\* the replay has sent is skipped.
Take(c) ==
  /\ pump[c] = "getting" /\ queue[c] # <<>>
  /\ LET event == Head(queue[c])
     IN /\ event # 0
        /\ held' = [held EXCEPT ![c] = event]
        /\ \/ Missed(c, event) /\ Replay(c, "catchup")
           \/ ~Missed(c, event) /\ Goes(c, IF event > sent[c] THEN "holding" ELSE "getting")
  /\ dropped' = [dropped EXCEPT ![c] = FALSE]
  /\ queue' = [queue EXCEPT ![c] = Tail(@)]
  /\ Unpumped(c) /\ UNCHANGED <<subs, closed, sent, page>>

SendLive(c) ==
  /\ pump[c] = "holding"
  /\ Sends(c, held[c])
  /\ Goes(c, "getting")
  /\ Unpumped(c) /\ UNCHANGED <<subs, queue, dropped, closed, page, held>>

\* Mutant: after the sentinel or a closed feed there is nothing more to read.
EndsAtOnce(c) ==
  /\ pump[c] = "getting"
  /\ IF queue[c] = <<>> THEN closed[c] ELSE Head(queue[c]) = 0
  /\ Goes(c, "done")
  /\ Unpumped(c) /\ UNCHANGED <<subs, queue, dropped, closed, sent, page, held>>

\* The sentinel, or a closed feed with nothing left on the queue: the tail
\* is read once more.
ReachEnd(c) ==
  /\ pump[c] = "getting"
  /\ IF queue[c] = <<>> THEN closed[c] ELSE Head(queue[c]) = 0
  /\ Replay(c, "final")
  /\ Unpumped(c) /\ UNCHANGED <<subs, queue, dropped, closed, sent, page, held>>

PumpStep(c) == Subscribe(c) \/ ReadPage(c) \/ SendStored(c) \/ PageDone(c)
               \/ Take(c) \/ SendLive(c) \/ ReachEnd(c)

----------------------------------------------------------------------------
(* A long poll: wait_for_events() *)

Ask(p) == /\ poll[p] = "idle" /\ poll' = [poll EXCEPT ![p] = "asked"]
          /\ UNCHANGED <<runVars, ahead, pumpVars, woken, got>>

\* The generation is captured, if there is one ...
Capture(p) ==
  /\ poll[p] = "asked"
  /\ poll' = [poll EXCEPT ![p] = IF Live THEN "reading" ELSE "checking"]
  /\ woken' = [woken EXCEPT ![p] = FALSE]
  /\ UNCHANGED <<runVars, ahead, pumpVars, got>>

\* A page of what is new: it may be short of all of it.
Answer(p) == /\ \E k \in got[p] .. last : /\ k = got[p] <=> last = got[p]
                                          /\ got' = [got EXCEPT ![p] = k]
             /\ poll' = [poll EXCEPT ![p] = "idle"]

\* ... before the log is read, and waited on when there is nothing new.  A
\* poll without one is answered at once.
ReadTail(p) ==
  /\ poll[p] \in {"reading", "checking"}
  /\ IF poll[p] = "reading" /\ last = got[p]
     THEN poll' = [poll EXCEPT ![p] = "parked"] /\ UNCHANGED got
     ELSE Answer(p)
  /\ UNCHANGED <<runVars, ahead, pumpVars, woken>>

\* Woken: the next round captures anew.
Wake(p) ==
  /\ poll[p] = "parked" /\ woken[p]
  /\ poll' = [poll EXCEPT ![p] = "asked"]
  /\ UNCHANGED <<runVars, ahead, pumpVars, woken, got>>

\* The deadline passes: an empty answer.
Timeout(p) ==
  /\ poll[p] = "parked" /\ ~woken[p]
  /\ poll' = [poll EXCEPT ![p] = "idle"]
  /\ UNCHANGED <<runVars, ahead, pumpVars, woken, got>>

PollStep(p) == Capture(p) \/ ReadTail(p) \/ Wake(p)

----------------------------------------------------------------------------

Init ==
  /\ run \in {"waiting", "active"}
  /\ last = 0 /\ over = FALSE /\ swept = FALSE /\ faults = 0
  /\ ahead = {} /\ subs = {}
  /\ queue = [c \in Client |-> <<>>]
  /\ dropped = [c \in Client |-> FALSE]
  /\ closed = [c \in Client |-> FALSE]
  /\ pump = [c \in Client |-> "off"]
  /\ replay = [c \in Client |-> "first"]
  /\ sent = [c \in Client |-> 0]
  /\ page = [c \in Client |-> [hi |-> 0, full |-> FALSE]]
  /\ held = [c \in Client |-> 0]
  /\ attaches = [c \in Client |-> 0]
  /\ poll = [p \in Poller |-> "idle"]
  /\ woken = [p \in Poller |-> FALSE]
  /\ got = [p \in Poller |-> 0]

Ends == TurnComes \/ Files \/ Part \/ Deregister

Next ==
  \/ Promote \/ Retire \/ Sweep \/ Emit \/ EmitRaises \/ RetireRaises \/ Finish \/ Kill \/ Ends
  \/ \E c \in Client : Attach(c) \/ Detach(c) \/ PumpStep(c)
  \/ \E p \in Poller : Ask(p) \/ PollStep(p) \/ Timeout(p)

Spec == Init /\ [][Next]_vars

\* The loop runs a pump and a poll that can go on, and a run on its way out;
\* no run need end, no deadline need pass.
Fairness ==
  /\ WF_vars(Ends)
  /\ \A c \in Client : WF_vars(PumpStep(c))
  /\ \A p \in Poller : WF_vars(PollStep(p))

FairSpec == Spec /\ Fairness

----------------------------------------------------------------------------
(* Properties *)

\* Every variable has its type; a queue keeps its bound.
TypeOK ==
  /\ run \in Run
  /\ last \in 0 .. MaxEvents /\ over \in BOOLEAN /\ swept \in BOOLEAN
  /\ faults \in 0 .. MaxFaults
  /\ ahead \subseteq Client /\ subs \subseteq Client
  /\ queue \in [Client -> Seq(0 .. MaxEvents)]
  /\ \A c \in Client : Len(queue[c]) <= QueueSize
  /\ dropped \in [Client -> BOOLEAN] /\ closed \in [Client -> BOOLEAN]
  /\ pump \in [Client -> Pump] /\ replay \in [Client -> Replays]
  /\ sent \in [Client -> 0 .. MaxEvents] /\ held \in [Client -> 0 .. MaxEvents]
  /\ page \in [Client -> [hi : 0 .. MaxEvents, full : BOOLEAN]]
  /\ attaches \in [Client -> 0 .. MaxAttach]
  /\ poll \in [Poller -> {"idle", "asked", "reading", "checking", "parked"}]
  /\ woken \in [Poller -> BOOLEAN] /\ got \in [Poller -> 0 .. MaxEvents]

\* "No gap, no duplicate" (_pump_events): whatever was dropped, lost or read
\* twice, each attachment is sent every event after its cursor, in order and
\* once.
Stream == INSTANCE EventStream
StreamSpec == Stream!Spec

\* No wake-up is lost: a poll that sleeps while there is something new, or
\* while the run is gone ("a long poll on a dead run must never hang",
\* wait_for_events), has been notified, but for the steps of a hard cancel
\* before the close() that notifies it.
SleepersAreWoken ==
  \A p \in Poller :
    poll[p] = "parked" /\ (last > got[p] \/ run = "gone") =>
      woken[p] \/ run = "dying"

\* "[W]hat guarantees a client always receives the frame that tells it the
\* run is over" (_pump_events): a client that is attached when that frame is
\* in the log, or attaches later, is sent it, however far it lags (for a run
\* that shutdown() swept: that attaches later).  And the feed of a run that
\* is gone ends for everyone: no pump waits on it for ever, the sentinel
\* dropped by a full queue included.
FollowersAreTold ==
  \A c \in Client :
    /\ over /\ pump[c] \in (IF swept THEN {"starting"} ELSE Pump \ {"off"})
         ~> sent[c] = last \/ pump[c] = "off"
    /\ run = "gone" /\ pump[c] # "off" ~> pump[c] \in {"done", "off"}

\* The same guarantee for every attachment that comes to its end, also one
\* that finds the run in neither index ("already finished", subscribe) before
\* its frame is written: the order of the database, and a retirement that
\* awaits nothing before its write, put the last read behind the frame.  Not
\* so for the runs that shutdown() takes off the queue behind others.
EndedFeedsWereTold ==
  \A c \in Client : pump[c] = "done" /\ over /\ ~swept => sent[c] = last

=============================================================================
