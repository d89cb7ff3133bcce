--------------------------- MODULE EventFeedProofs ---------------------------
(* Proofs about EventFeed, for any clients, polls, queue and page sizes.    *)
EXTENDS EventFeed, TLAPS

----------------------------------------------------------------------------
(* The inductive invariant *)

\* What a pump has in hand was stored before: an event on the queue, the one
\* it holds, the page.  A replay that is not the first of several pages ends
\* at the end of the log, so a catch-up covers the event in hand; and one
\* that is sent live follows the last one sent.
Stored(c) ==
  /\ sent[c] <= last /\ held[c] <= last
  /\ \A i \in 1 .. Len(queue[c]) : queue[c][i] <= last
  /\ pump[c] = "sending" =>
       /\ sent[c] <= page[c].hi /\ page[c].hi <= last
       /\ ~page[c].full /\ replay[c] = "catchup" => held[c] <= page[c].hi
  /\ pump[c] = "holding" => held[c] = sent[c] + 1

AllStored == \A c \in Client : Stored(c)

\* A poll that captured a generation is notified when the run is gone.
ReadersAreWoken ==
  \A p \in Poller : poll[p] = "reading" /\ run = "gone" => woken[p]

Behind == \A p \in Poller : got[p] <= last

IInv == TypeOK /\ AllStored /\ SleepersAreWoken /\ ReadersAreWoken /\ Behind

----------------------------------------------------------------------------
(* Lemmas *)

\* Everything on a sequence is of its type.
LEMMA Elements ==
  ASSUME NEW S, NEW q \in Seq(S)
  PROVE  Len(q) \in Nat /\ \A i \in 1 .. Len(q) : q[i] \in S
OBVIOUS

\* Its tail.
LEMMA Shorter ==
  ASSUME NEW S, NEW q \in Seq(S), q # <<>>
  PROVE  /\ Tail(q) \in Seq(S) /\ Len(Tail(q)) = Len(q) - 1
         /\ \A i \in 1 .. Len(Tail(q)) : Tail(q)[i] = q[i + 1]
OBVIOUS

\* A queue keeps its type and its bound when an event is offered, and
\* nothing on it is newer than the log.
LEMMA OfferKeeps ==
  ASSUME TypeOK, AllStored, NEW e \in 0 .. MaxEvents, Offers(e),
         last' \in Nat, e <= last', last <= last'
  PROVE  /\ queue' \in [Client -> Seq(0 .. MaxEvents)]
         /\ \A c \in Client : Len(queue'[c]) <= QueueSize
         /\ dropped' \in [Client -> BOOLEAN]
         /\ \A c \in Client : \A i \in 1 .. Len(queue'[c]) : queue'[c][i] <= last'
<1>1. queue' \in [Client -> Seq(0 .. MaxEvents)]
  <2>1. \A c \in Client : /\ queue[c] \in Seq(0 .. MaxEvents)
                          /\ Append(queue[c], e) \in Seq(0 .. MaxEvents)
    BY DEF TypeOK
  <2> QED BY <2>1 DEF Offers
<1>2. dropped' \in [Client -> BOOLEAN]
  BY DEF TypeOK, Offers
<1> SUFFICES ASSUME NEW c \in Client
             PROVE  /\ Len(queue'[c]) <= QueueSize
                    /\ \A i \in 1 .. Len(queue'[c]) : queue'[c][i] <= last'
  BY <1>1, <1>2
<1>3. /\ queue[c] \in Seq(0 .. MaxEvents) /\ Len(queue[c]) <= QueueSize
      /\ Len(queue[c]) \in Nat /\ QueueSize \in Nat /\ last \in Nat
      /\ \A i \in 1 .. Len(queue[c]) : queue[c][i] <= last /\ queue[c][i] \in Nat
  <2>1. queue[c] \in Seq(0 .. MaxEvents) /\ Len(queue[c]) <= QueueSize /\ last \in Nat
    BY DEF TypeOK
  <2>2. \A i \in 1 .. Len(queue[c]) : queue[c][i] \in 0 .. MaxEvents
    BY <2>1, Elements
  <2> QED BY <2>1, <2>2, FeedSizes DEF AllStored, Stored
<1>4. CASE c \in subs /\ Len(queue[c]) < QueueSize
  <2>1. queue'[c] = Append(queue[c], e)
    BY <1>4 DEF Offers
  <2>2. /\ Len(queue'[c]) = Len(queue[c]) + 1 /\ queue'[c][Len(queue[c]) + 1] = e
        /\ \A i \in 1 .. Len(queue[c]) : queue'[c][i] = queue[c][i]
    BY <2>1, <1>3
  <2>3. Len(queue'[c]) <= QueueSize
    BY <2>2, <1>3, <1>4
  <2>4. ASSUME NEW i \in 1 .. Len(queue'[c]) PROVE queue'[c][i] <= last'
    <3>1. CASE i = Len(queue[c]) + 1
      BY <2>2, <3>1
    <3>2. CASE i \in 1 .. Len(queue[c])
      BY <2>2, <1>3, <3>2
    <3> QED BY <2>2, <1>3, <3>1, <3>2
  <2> QED BY <2>3, <2>4
<1>5. CASE ~(c \in subs /\ Len(queue[c]) < QueueSize)
  <2>1. queue'[c] = queue[c]
    BY <1>5 DEF Offers
  <2> QED BY <2>1, <1>3
<1> QED BY <1>4, <1>5

\* Types as the steps below need them.
LEMMA Numbers ==
  ASSUME TypeOK
  PROVE  /\ last \in Nat /\ MaxEvents \in Nat /\ last <= MaxEvents
         /\ \A c \in Client : sent[c] \in Nat /\ held[c] \in Nat /\ page[c].hi \in Nat
                              /\ page[c].full \in BOOLEAN
         /\ \A p \in Poller : got[p] \in Nat
BY FeedBounds DEF TypeOK

\* Steps of the run that offer nothing and wake nobody.
QuietStep == /\ last' \in {last, last + 1} /\ last' <= MaxEvents
             /\ UNCHANGED <<pumpVars, pollVars>>
             /\ run' \in Run \ {"gone"} /\ over' \in BOOLEAN /\ swept' \in BOOLEAN
             /\ faults' \in 0 .. MaxFaults /\ ahead' \subseteq Client
             /\ last' # last => run' = "dying"
             /\ run = "dying" => run' = run

LEMMA QuietKeeps == ASSUME IInv, QuietStep PROVE IInv'
<1>0. /\ last \in Nat /\ MaxEvents \in Nat /\ last' \in 0 .. MaxEvents /\ last <= last'
  BY Numbers DEF IInv, QuietStep
<1>1. TypeOK'
  BY <1>0 DEF IInv, TypeOK, QuietStep, pumpVars, pollVars
<1>2. AllStored'
  <2> SUFFICES ASSUME NEW c \in Client PROVE Stored(c)'
    BY DEF AllStored
  <2>1. /\ sent[c] \in Nat /\ held[c] \in Nat /\ page[c].hi \in Nat
        /\ \A i \in 1 .. Len(queue[c]) : queue[c][i] \in Nat
    <3>1. \A i \in 1 .. Len(queue[c]) : queue[c][i] \in 0 .. MaxEvents
      BY Elements DEF IInv, TypeOK
    <3> QED BY <3>1, Numbers DEF IInv
  <2>2. Stored(c)
    BY DEF IInv, AllStored
  <2>3. UNCHANGED <<queue, sent, held, pump, replay, page>>
    BY DEF QuietStep, pumpVars
  <2> QED BY <1>0, <2>1, <2>2, <2>3 DEF Stored
<1>3. SleepersAreWoken' /\ ReadersAreWoken' /\ Behind'
  BY <1>0, Numbers DEF IInv, SleepersAreWoken, ReadersAreWoken, Behind, QuietStep, pollVars
<1> QED BY <1>1, <1>2, <1>3 DEF IInv

\* Steps that notify every poll.
LEMMA NotifiedKeeps ==
  ASSUME IInv, Notify, last' \in Nat, last <= last'
  PROVE  /\ SleepersAreWoken' /\ ReadersAreWoken' /\ Behind'
         /\ poll' = poll /\ got' = got /\ woken' \in [Poller -> BOOLEAN]
BY Numbers DEF IInv, Notify, SleepersAreWoken, ReadersAreWoken, Behind

\* Notify() alone.
LEMMA NotifiedWithout ==
  ASSUME IInv, Notify, UNCHANGED <<last, over, swept, ahead, pumpVars>>,
         run' \in Run, faults' \in 0 .. MaxFaults
  PROVE  IInv'
<1>1. last \in Nat
  BY Numbers DEF IInv
<1>2. SleepersAreWoken' /\ ReadersAreWoken' /\ Behind'
      /\ poll' = poll /\ got' = got /\ woken' \in [Poller -> BOOLEAN]
  BY <1>1, NotifiedKeeps
<1>3. TypeOK'
  BY <1>2 DEF IInv, TypeOK, pumpVars
<1>4. AllStored'
  BY DEF IInv, AllStored, Stored, pumpVars
<1> QED BY <1>2, <1>3, <1>4 DEF IInv

\* FanOut() of an event that was just stored, or the sentinel.
LEMMA FanOutKeeps ==
  ASSUME IInv, NEW e \in 0 .. MaxEvents, Offers(e), Notify,
         last' \in 0 .. MaxEvents, e <= last', last <= last',
         run' \in Run, over' \in BOOLEAN, swept' \in BOOLEAN, faults' \in 0 .. MaxFaults,
         ahead' \subseteq Client,
         subs' \subseteq Client, closed' \in [Client -> BOOLEAN],
         UNCHANGED <<pump, replay, sent, page, held, attaches>>
  PROVE  IInv'
<1>0. last \in Nat /\ MaxEvents \in Nat /\ last' \in Nat
  BY Numbers DEF IInv
<1>1. /\ queue' \in [Client -> Seq(0 .. MaxEvents)]
      /\ \A c \in Client : Len(queue'[c]) <= QueueSize
      /\ dropped' \in [Client -> BOOLEAN]
      /\ \A c \in Client : \A i \in 1 .. Len(queue'[c]) : queue'[c][i] <= last'
  BY OfferKeeps, <1>0 DEF IInv
<1>2. SleepersAreWoken' /\ ReadersAreWoken' /\ Behind'
      /\ poll' = poll /\ got' = got /\ woken' \in [Poller -> BOOLEAN]
  BY NotifiedKeeps, <1>0
<1>3. TypeOK'
  BY <1>1, <1>2 DEF IInv, TypeOK
<1>4. AllStored'
  <2> SUFFICES ASSUME NEW c \in Client PROVE Stored(c)'
    BY DEF AllStored
  <2>1. sent[c] \in Nat /\ held[c] \in Nat /\ page[c].hi \in Nat
    BY Numbers DEF IInv
  <2>2. Stored(c)
    BY DEF IInv, AllStored
  <2> QED BY <2>1, <2>2, <1>0, <1>1 DEF Stored
<1> QED BY <1>2, <1>3, <1>4 DEF IInv

\* Nothing of the other clients changes.
OthersKeep(c) ==
  \A x \in Client \ {c} :
    /\ queue'[x] = queue[x] /\ sent'[x] = sent[x] /\ held'[x] = held[x]
    /\ pump'[x] = pump[x] /\ replay'[x] = replay[x] /\ page'[x] = page[x]

LEMMA ClientKeeps ==
  ASSUME IInv, NEW c \in Client, TypeOK', OthersKeep(c), Stored(c)',
         UNCHANGED <<runVars, pollVars>>
  PROVE  IInv'
<1>1. ASSUME NEW x \in Client PROVE Stored(x)'
  <2>1. CASE x = c
    BY <2>1
  <2>2. CASE x # c
    <3>1. Stored(x)
      BY DEF IInv, AllStored
    <3> QED BY <2>2, <3>1 DEF OthersKeep, Stored, runVars
  <2> QED BY <2>1, <2>2
<1>2. AllStored'
  BY <1>1 DEF AllStored
<1>3. SleepersAreWoken' /\ ReadersAreWoken' /\ Behind'
  BY DEF IInv, SleepersAreWoken, ReadersAreWoken, Behind, runVars, pollVars
<1> QED BY <1>2, <1>3 DEF IInv

\* An attachment's next step sends the event after the last one, or none.
SendsNext(c) == sent' = sent \/ (sent[c] < last /\ sent' = [sent EXCEPT ![c] = @ + 1])

----------------------------------------------------------------------------
(* Steps of the run *)

RunStep == Promote \/ Retire \/ Sweep \/ Emit \/ EmitRaises \/ RetireRaises \/ Finish \/ Kill \/ Ends

\* A step of the run keeps the invariant and sends nothing.
LEMMA RunKeeps ==
  ASSUME IInv, RunStep
  PROVE  /\ IInv'
         /\ UNCHANGED <<sent, attaches>> /\ last' \in {last, last + 1}
<1> USE FeedBounds
<1>0. /\ last \in Nat /\ MaxEvents \in Nat /\ last <= MaxEvents /\ run \in Run
      /\ faults \in 0 .. MaxFaults /\ over \in BOOLEAN /\ swept \in BOOLEAN
      /\ ahead \subseteq Client /\ subs \subseteq Client /\ closed \in [Client -> BOOLEAN]
  BY Numbers DEF IInv, TypeOK
<1>1. CASE Promote \/ Retire \/ Sweep \/ TurnComes
  <2>0. /\ run' \in {"active", "leaving", "swept"} /\ run \in {"waiting", "swept"}
        /\ swept' \in {swept, TRUE} /\ ahead' \subseteq Client
        /\ UNCHANGED <<last, over, faults, pumpVars, pollVars>>
    <3>1. CASE Promote \/ Sweep
      BY <1>0, <3>1 DEF Promote, Sweep
    <3>2. CASE Retire \/ TurnComes
      BY <3>2 DEF Retire, TurnComes, InLine
    <3> QED BY <1>1, <3>1, <3>2
  <2>1. QuietStep
    BY <1>0, <2>0 DEF QuietStep, Run
  <2> QED BY <2>1, QuietKeeps DEF QuietStep, pumpVars
<1>2. CASE Files
  <2>1. CASE run' = "filed"
    <3>1. QuietStep
      BY <1>0, <1>2, <2>1 DEF Files, InLine, QuietStep, Run
    <3> QED BY <3>1, QuietKeeps DEF QuietStep, pumpVars
  <2>2. CASE run' = "gone"
    <3>1. CloseFeed /\ UNCHANGED <<last, over, swept, faults, ahead>> /\ run' \in Run
      BY <1>2, <2>2 DEF Files, Run
    <3>2. /\ Offers(0) /\ Notify /\ subs' \subseteq Client /\ closed' \in [Client -> BOOLEAN]
          /\ UNCHANGED <<pump, replay, sent, page, held, attaches>>
      BY <1>0, <3>1 DEF CloseFeed
    <3>3. IInv'
      BY <1>0, <3>1, <3>2, FanOutKeeps
    <3> QED BY <3>1, <3>2, <3>3
  <2> QED BY <1>2, <2>1, <2>2 DEF Files
<1>3. CASE Kill
  <2>1. QuietStep
    BY <1>0, <1>3 DEF Kill, Append1, QuietStep, Run
  <2> QED BY <2>1, QuietKeeps DEF QuietStep, pumpVars
<1>4. CASE RetireRaises
  <2>1. QuietStep
    BY <1>0, <1>4 DEF RetireRaises, Fault, QuietStep, Run
  <2> QED BY <2>1, QuietKeeps DEF QuietStep, pumpVars
<1>5. CASE Emit
  <2>1. last' = last + 1 /\ last' \in 0 .. MaxEvents /\ UNCHANGED <<run, over, swept, faults, ahead>>
    BY <1>0, <1>5 DEF Emit, Append1
  <2>2. Offers(last') /\ Notify /\ UNCHANGED <<subs, closed, pump, replay, sent, page, held, attaches>>
    BY <1>5 DEF Emit, FanOut
  <2>3. IInv'
    BY <1>0, <2>1, <2>2, FanOutKeeps
  <2> QED BY <2>1, <2>2, <2>3
<1>6. CASE EmitRaises
  <2>1. Notify /\ UNCHANGED <<run, last, over, swept, ahead, pumpVars>> /\ faults' \in 0 .. MaxFaults
    BY <1>0, <1>6 DEF EmitRaises, Fault
  <2>2. IInv'
    BY <1>0, <2>1, NotifiedWithout
  <2> QED BY <2>1, <2>2 DEF pumpVars
<1>7. CASE Finish
  <2>1. CASE Append1 /\ over' = TRUE /\ FanOut(last') /\ UNCHANGED faults
    <3>1. last' = last + 1 /\ last' \in 0 .. MaxEvents /\ run' \in Run /\ over' \in BOOLEAN
          /\ UNCHANGED <<swept, ahead>>
      BY <1>0, <1>7, <2>1 DEF Finish, Append1, Run
    <3>2. Offers(last') /\ Notify /\ UNCHANGED <<subs, closed, pump, replay, sent, page, held, attaches>>
      BY <2>1 DEF FanOut
    <3>3. IInv'
      BY <1>0, <2>1, <3>1, <3>2, FanOutKeeps
    <3> QED BY <3>1, <3>2, <3>3
  <2>2. CASE Fault /\ Notify /\ UNCHANGED <<last, over, pumpVars>>
    <3>1. faults' \in 0 .. MaxFaults /\ run' \in Run /\ UNCHANGED <<swept, ahead>>
      BY <1>0, <1>7, <2>2 DEF Finish, Fault, Run
    <3>2. IInv'
      BY <1>0, <2>2, <3>1, NotifiedWithout
    <3> QED BY <2>2, <3>2 DEF pumpVars
  <2> QED BY <1>7, <2>1, <2>2 DEF Finish
<1>8. CASE Part \/ Deregister
  <2>1. /\ CloseFeed /\ run' \in Run /\ over' \in BOOLEAN /\ UNCHANGED <<swept, ahead>>
        /\ last' \in {last, last + 1} /\ last' \in 0 .. MaxEvents /\ faults' \in 0 .. MaxFaults
    <3>1. CASE Deregister
      BY <1>0, <3>1 DEF Deregister, Run
    <3>2. CASE Part
      <4>1. CloseFeed /\ run' \in Run /\ UNCHANGED <<swept, ahead>>
        BY <3>2 DEF Part, Run
      <4>2. /\ over' \in BOOLEAN /\ last' \in {last, last + 1} /\ last' \in 0 .. MaxEvents
            /\ faults' \in 0 .. MaxFaults
        <5>1. CASE Append1 /\ over' = TRUE /\ UNCHANGED faults
          BY <1>0, <5>1 DEF Append1
        <5>2. CASE Fault /\ UNCHANGED <<last, over>>
          BY <1>0, <5>2 DEF Fault
        <5> QED BY <3>2, <5>1, <5>2 DEF Part
      <4> QED BY <4>1, <4>2
    <3> QED BY <1>8, <3>1, <3>2
  <2>2. /\ Offers(0) /\ Notify /\ subs' \subseteq Client /\ closed' \in [Client -> BOOLEAN]
        /\ UNCHANGED <<pump, replay, sent, page, held, attaches>>
    BY <1>0, <2>1 DEF CloseFeed
  <2>3. IInv'
    BY <1>0, <2>1, <2>2, FanOutKeeps
  <2> QED BY <2>1, <2>2, <2>3
<1> QED BY <1>1, <1>2, <1>3, <1>4, <1>5, <1>6, <1>7, <1>8 DEF RunStep, Ends

----------------------------------------------------------------------------
(* Steps of a client *)

\* The page of stored events after the last one sent.
LEMMA PageBounds ==
  ASSUME NEW n \in Nat, NEW s \in Nat, s <= n, NEW m \in Nat, n <= m,
         NEW hi, hi = IF n > s + PageSize THEN s + PageSize ELSE n
  PROVE  hi \in 0 .. m /\ s <= hi /\ hi <= n /\ (hi # s + PageSize => hi = n)
BY FeedSizes

\* A step of a pump keeps the invariant and sends the next event, or none.
LEMMA PumpKeeps ==
  ASSUME IInv, NEW c \in Client, PumpStep(c)
  PROVE  IInv' /\ SendsNext(c) /\ UNCHANGED <<last, attaches>>
<1> USE DEF Unpumped
<1>0. TypeOK /\ Stored(c)
  BY DEF IInv, AllStored
<1>1. /\ last \in Nat /\ MaxEvents \in Nat /\ last <= MaxEvents
      /\ sent[c] \in Nat /\ held[c] \in Nat /\ page[c].hi \in Nat /\ page[c].full \in BOOLEAN
      /\ QueueSize \in Nat
  BY Numbers, FeedSizes DEF IInv
<1>2. /\ queue[c] \in Seq(0 .. MaxEvents) /\ Len(queue[c]) <= QueueSize /\ Len(queue[c]) \in Nat
      /\ \A i \in 1 .. Len(queue[c]) : queue[c][i] \in 0 .. MaxEvents /\ queue[c][i] <= last
  BY <1>0, Elements DEF TypeOK, Stored
<1>3. UNCHANGED <<runVars, pollVars, attaches>> /\ ahead' = ahead \ {c}
  BY DEF PumpStep, Subscribe, ReadPage, SendStored, PageDone, Take, SendLive, ReachEnd
<1>4. CASE Subscribe(c)
  <2>1. TypeOK'
    BY <1>0, <1>3, <1>4 DEF TypeOK, Subscribe, Replay, Pump, Replays, runVars, pollVars
  <2>2. OthersKeep(c) /\ Stored(c)' /\ sent' = sent
    BY <1>0, <1>4 DEF TypeOK, Subscribe, Replay, OthersKeep, Stored, runVars
  <2> QED BY <1>3, <2>1, <2>2, ClientKeeps DEF SendsNext, runVars
<1>5. CASE ReadPage(c)
  <2> DEFINE hi == IF last > sent[c] + PageSize THEN sent[c] + PageSize ELSE last
             next == [hi |-> hi, full |-> hi = sent[c] + PageSize]
  <2>1. hi \in 0 .. MaxEvents /\ sent[c] <= hi /\ hi <= last /\ (hi # sent[c] + PageSize => hi = last)
    <3>1. sent[c] <= last
      BY <1>0 DEF Stored
    <3> QED BY <1>1, <3>1, PageBounds
  <2>2. /\ page' = [page EXCEPT ![c] = next]
        /\ pump' = [pump EXCEPT ![c] = "sending"] /\ replay' = replay
        /\ UNCHANGED <<subs, queue, dropped, closed, sent, held, attaches, runVars, pollVars>>
    BY <1>5 DEF ReadPage, Goes
  <2>3. next \in [hi : 0 .. MaxEvents, full : BOOLEAN] /\ next.hi = hi
        /\ next.full = (hi = sent[c] + PageSize)
    BY <2>1
  <2> HIDE DEF hi, next
  <2>4. TypeOK'
    BY <1>0, <1>3, <2>2, <2>3 DEF TypeOK, Pump, runVars, pollVars
  <2>5. page'[c] = next /\ pump'[c] = "sending"
    BY <1>0, <2>2 DEF TypeOK
  <2>6. Stored(c)'
    BY <1>0, <1>1, <2>1, <2>2, <2>3, <2>5 DEF Stored, runVars
  <2>7. OthersKeep(c) /\ sent' = sent
    BY <1>0, <2>2 DEF TypeOK, OthersKeep
  <2> QED BY <1>3, <2>4, <2>6, <2>7, ClientKeeps DEF SendsNext, runVars
<1>6. CASE SendStored(c)
  <2>1. /\ pump[c] = "sending" /\ sent[c] < page[c].hi /\ page[c].hi <= last
        /\ sent' = [sent EXCEPT ![c] = sent[c] + 1]
        /\ UNCHANGED <<subs, queue, dropped, closed, pump, replay, page, held, attaches, runVars, pollVars>>
    BY <1>0, <1>6 DEF SendStored, Sends, Stored
  <2>2. TypeOK'
    BY <1>0, <1>3, <1>1, <2>1 DEF TypeOK, runVars, pollVars
  <2>3. sent'[c] = sent[c] + 1
    BY <1>0, <2>1 DEF TypeOK
  <2>4. OthersKeep(c) /\ Stored(c)'
    BY <1>0, <1>1, <2>1, <2>3 DEF TypeOK, OthersKeep, Stored, runVars
  <2>5. SendsNext(c)
    BY <1>1, <2>1 DEF SendsNext
  <2> QED BY <1>3, <2>2, <2>4, <2>5, ClientKeeps DEF runVars
<1>7. CASE PageDone(c)
  <2>1. PICK to \in {"reading", "done", "holding", "getting"} :
          /\ pump' = [pump EXCEPT ![c] = to] /\ replay' = replay
          /\ to = "holding" => ~page[c].full /\ replay[c] = "catchup" /\ held[c] > sent[c]
    BY <1>7 DEF PageDone, Goes
  <2>2. /\ pump[c] = "sending" /\ sent[c] = page[c].hi
        /\ UNCHANGED <<subs, queue, dropped, closed, sent, page, held, attaches, runVars, pollVars>>
    BY <1>7 DEF PageDone
  <2>3. to # "holding"
    BY <1>0, <1>1, <2>1, <2>2 DEF Stored
  <2>4. TypeOK' /\ pump'[c] = to
    BY <1>0, <1>3, <2>1, <2>2 DEF TypeOK, Pump, runVars, pollVars
  <2>5. OthersKeep(c) /\ Stored(c)'
    BY <1>0, <2>1, <2>2, <2>3, <2>4 DEF TypeOK, OthersKeep, Stored, runVars
  <2> QED BY <1>3, <2>2, <2>4, <2>5, ClientKeeps DEF SendsNext, runVars
<1>8. CASE Take(c)
  <2> DEFINE event == Head(queue[c])
  <2>1. /\ event \in 0 .. MaxEvents /\ event <= last /\ event \in Nat
        /\ Tail(queue[c]) \in Seq(0 .. MaxEvents) /\ Len(Tail(queue[c])) = Len(queue[c]) - 1
        /\ \A i \in 1 .. Len(Tail(queue[c])) : Tail(queue[c])[i] <= last
    <3>1. queue[c] # <<>>
      BY <1>8 DEF Take
    <3>2. event = queue[c][1] /\ Len(queue[c]) >= 1
      BY <1>2, <3>1
    <3>3. event \in 0 .. MaxEvents /\ event <= last /\ event \in Nat
      BY <1>1, <1>2, <3>2
    <3>4. /\ Tail(queue[c]) \in Seq(0 .. MaxEvents) /\ Len(Tail(queue[c])) = Len(queue[c]) - 1
          /\ \A i \in 1 .. Len(Tail(queue[c])) : Tail(queue[c])[i] = queue[c][i + 1]
      BY <1>2, <3>1, Shorter
    <3>5. \A i \in 1 .. Len(Tail(queue[c])) : i + 1 \in 1 .. Len(queue[c])
      BY <1>2, <3>2, <3>4
    <3> QED BY <1>2, <3>3, <3>4, <3>5
  <2>2. PICK to \in {"reading", "holding", "getting"}, which \in {replay[c], "catchup"} :
          /\ pump' = [pump EXCEPT ![c] = to] /\ replay' = [replay EXCEPT ![c] = which]
          /\ to = "holding" => ~Missed(c, event) /\ event > sent[c]
    <3>1. CASE Missed(c, event) /\ Replay(c, "catchup")
      BY <3>1 DEF Replay
    <3>2. CASE ~Missed(c, event) /\ Goes(c, IF event > sent[c] THEN "holding" ELSE "getting")
      <4>1. replay' = [replay EXCEPT ![c] = replay[c]]
        BY <1>0, <3>2 DEF Goes, TypeOK
      <4> QED BY <3>2, <4>1 DEF Goes
    <3> QED BY <1>8, <3>1, <3>2 DEF Take
  <2>3. /\ held' = [held EXCEPT ![c] = event]
        /\ dropped' = [dropped EXCEPT ![c] = FALSE]
        /\ queue' = [queue EXCEPT ![c] = Tail(queue[c])]
        /\ UNCHANGED <<subs, closed, sent, page, attaches, runVars, pollVars>>
    BY <1>8 DEF Take
  <2>4. to = "holding" => event = sent[c] + 1
    BY <1>1, <2>1, <2>2 DEF Missed
  <2> HIDE DEF event
  <2>5. TypeOK'
    <3>1. queue' \in [Client -> Seq(0 .. MaxEvents)]
      BY <1>0, <2>1, <2>3 DEF TypeOK
    <3>2. \A x \in Client : Len(queue'[x]) <= QueueSize
      <4> TAKE x \in Client
      <4>1. CASE x = c
        BY <1>0, <1>1, <1>2, <2>1, <2>3, <4>1 DEF TypeOK
      <4>2. CASE x # c
        BY <1>0, <2>3, <4>2 DEF TypeOK
      <4> QED BY <4>1, <4>2
    <3>3. replay' \in [Client -> Replays] /\ pump' \in [Client -> Pump]
      BY <1>0, <2>2 DEF TypeOK, Replays, Pump
    <3> QED BY <1>0, <1>3, <2>1, <2>3, <3>1, <3>2, <3>3 DEF TypeOK, runVars, pollVars
  <2>6. pump'[c] = to /\ held'[c] = event /\ queue'[c] = Tail(queue[c])
    BY <1>0, <2>2, <2>3 DEF TypeOK
  <2>7. Stored(c)'
    BY <1>0, <2>1, <2>2, <2>3, <2>4, <2>6 DEF Stored, runVars
  <2>8. OthersKeep(c)
    BY <1>0, <2>2, <2>3 DEF TypeOK, OthersKeep
  <2> QED BY <1>3, <2>3, <2>5, <2>7, <2>8, ClientKeeps DEF SendsNext, runVars
<1>9. CASE SendLive(c)
  <2>1. /\ pump[c] = "holding" /\ held[c] = sent[c] + 1 /\ held[c] <= last
        /\ sent' = [sent EXCEPT ![c] = held[c]]
        /\ pump' = [pump EXCEPT ![c] = "getting"] /\ replay' = replay
        /\ UNCHANGED <<subs, queue, dropped, closed, page, held, attaches, runVars, pollVars>>
    BY <1>0, <1>9 DEF SendLive, Sends, Goes, Stored
  <2>2. TypeOK'
    BY <1>0, <1>3, <1>1, <2>1 DEF TypeOK, Pump, runVars, pollVars
  <2>3. sent'[c] = held[c] /\ pump'[c] = "getting"
    BY <1>0, <2>1 DEF TypeOK
  <2>4. OthersKeep(c) /\ Stored(c)'
    BY <1>0, <1>1, <2>1, <2>3 DEF TypeOK, OthersKeep, Stored, runVars
  <2>5. SendsNext(c)
    BY <1>1, <2>1 DEF SendsNext
  <2> QED BY <1>3, <2>2, <2>4, <2>5, ClientKeeps DEF runVars
<1>10. CASE ReachEnd(c)
  <2>1. TypeOK'
    BY <1>0, <1>3, <1>10 DEF TypeOK, ReachEnd, Replay, Pump, Replays, runVars, pollVars
  <2>2. OthersKeep(c) /\ Stored(c)' /\ sent' = sent
    BY <1>0, <1>10 DEF TypeOK, ReachEnd, Replay, OthersKeep, Stored, runVars
  <2> QED BY <1>3, <2>1, <2>2, ClientKeeps DEF SendsNext, runVars
<1> QED BY <1>4, <1>5, <1>6, <1>7, <1>8, <1>9, <1>10 DEF PumpStep

\* Attaching and detaching keep the invariant.
LEMMA AttachKeeps ==
  ASSUME IInv, NEW c \in Client, Attach(c) \/ Detach(c)
  PROVE  IInv' /\ last' = last
<1>0. TypeOK /\ Stored(c)
  BY DEF IInv, AllStored
<1>1. last \in Nat /\ MaxEvents \in Nat /\ last <= MaxEvents /\ held[c] \in Nat
  BY Numbers DEF IInv
<1>2. <<>> \in Seq(0 .. MaxEvents) /\ Len(<<>>) = 0 /\ 0 <= QueueSize
  BY FeedSizes
<1>3. Unsubscribed(c)
  BY DEF Attach, Detach
<1>4. /\ queue' \in [Client -> Seq(0 .. MaxEvents)] /\ subs' \subseteq Client
      /\ \A x \in Client : Len(queue'[x]) <= QueueSize
      /\ dropped' \in [Client -> BOOLEAN] /\ closed' \in [Client -> BOOLEAN]
      /\ queue'[c] = <<>> /\ \A x \in Client \ {c} : queue'[x] = queue[x]
      /\ ahead' \subseteq Client
  BY <1>0, <1>2, <1>3 DEF Unsubscribed, Attach, Detach, Unpumped, TypeOK
<1>5. CASE Attach(c)
  <2>1. PICK k \in 0 .. last : sent' = [sent EXCEPT ![c] = k]
    BY <1>5 DEF Attach
  <2>2. /\ attaches[c] < MaxAttach /\ attaches' = [attaches EXCEPT ![c] = @ + 1]
        /\ pump' = [pump EXCEPT ![c] = "starting"] /\ replay' = replay
        /\ UNCHANGED <<runVars, pollVars, page, held>>
    BY <1>5 DEF Attach, Goes
  <2>3. TypeOK'
    <3>1. attaches' \in [Client -> 0 .. MaxAttach]
      BY <1>0, <2>2, FeedBounds DEF TypeOK
    <3>2. sent' \in [Client -> 0 .. MaxEvents]
      BY <1>0, <1>1, <2>1 DEF TypeOK
    <3> QED BY <1>0, <1>4, <2>2, <3>1, <3>2 DEF TypeOK, Pump, runVars, pollVars
  <2>4. sent'[c] = k /\ pump'[c] = "starting"
    BY <1>0, <2>1, <2>2 DEF TypeOK
  <2>5. OthersKeep(c) /\ Stored(c)'
    BY <1>0, <1>1, <1>2, <1>4, <2>1, <2>2, <2>4 DEF TypeOK, OthersKeep, Stored, runVars
  <2> QED BY <2>2, <2>3, <2>5, ClientKeeps DEF runVars
<1>6. CASE Detach(c)
  <2>1. /\ pump' = [pump EXCEPT ![c] = "off"] /\ replay' = replay
        /\ page' = [page EXCEPT ![c] = [hi |-> 0, full |-> FALSE]]
        /\ held' = [held EXCEPT ![c] = 0]
        /\ UNCHANGED <<runVars, pollVars, attaches, sent>>
    BY <1>6 DEF Detach, Goes, Unpumped
  <2>2. TypeOK'
    <3>1. page' \in [Client -> [hi : 0 .. MaxEvents, full : BOOLEAN]] /\ held' \in [Client -> 0 .. MaxEvents]
      BY <1>0, <1>1, <2>1 DEF TypeOK
    <3> QED BY <1>0, <1>4, <2>1, <3>1 DEF TypeOK, Pump, runVars, pollVars
  <2>3. held'[c] = 0 /\ pump'[c] = "off"
    BY <1>0, <2>1 DEF TypeOK
  <2>4. OthersKeep(c) /\ Stored(c)'
    BY <1>0, <1>1, <1>2, <1>4, <2>1, <2>3 DEF TypeOK, OthersKeep, Stored, runVars
  <2> QED BY <2>1, <2>2, <2>4, ClientKeeps DEF runVars
<1> QED BY <1>5, <1>6

\* A poll's steps keep the invariant.
LEMMA PollKeeps ==
  ASSUME IInv, NEW p \in Poller, Ask(p) \/ PollStep(p) \/ Timeout(p)
  PROVE  IInv' /\ UNCHANGED <<last, sent, attaches>>
<1>0. TypeOK /\ last \in Nat /\ MaxEvents \in Nat /\ last <= MaxEvents /\ got[p] \in Nat
      /\ got[p] <= last
  BY Numbers DEF IInv, Behind
<1>1. UNCHANGED <<runVars, ahead, pumpVars>>
  BY DEF Ask, PollStep, Capture, ReadTail, Wake, Timeout
<1>2. AllStored'
  BY <1>1 DEF IInv, AllStored, Stored, runVars, pumpVars
<1>3. TypeOK' /\ SleepersAreWoken' /\ ReadersAreWoken' /\ Behind'
  <2>1. CASE Ask(p) \/ Wake(p) \/ Timeout(p)
    <3>1. /\ \E to \in {"asked", "idle"} : poll' = [poll EXCEPT ![p] = to]
          /\ UNCHANGED <<woken, got>>
      BY <2>1 DEF Ask, Wake, Timeout
    <3> QED BY <1>0, <1>1, <3>1 DEF IInv, TypeOK, SleepersAreWoken, ReadersAreWoken, Behind,
                                    runVars, pumpVars
  <2>2. CASE Capture(p)
    BY <1>0, <1>1, <2>2 DEF IInv, TypeOK, SleepersAreWoken, ReadersAreWoken, Behind, Capture,
                            Live, runVars, pumpVars
  <2>3. CASE ReadTail(p)
    <3>1. CASE poll[p] = "reading" /\ last = got[p]
      <4>1. poll' = [poll EXCEPT ![p] = "parked"] /\ UNCHANGED <<woken, got>>
        BY <2>3, <3>1 DEF ReadTail
      <4>2. TypeOK' /\ ReadersAreWoken' /\ Behind'
        BY <1>0, <1>1, <4>1 DEF IInv, TypeOK, ReadersAreWoken, Behind, runVars, pumpVars
      <4>3. ~(last > got[p]) /\ (run = "gone" => woken[p])
        BY <1>0, <3>1 DEF IInv, ReadersAreWoken
      <4>4. SleepersAreWoken'
        BY <1>0, <1>1, <4>1, <4>3 DEF IInv, TypeOK, SleepersAreWoken, runVars, pumpVars
      <4> QED BY <4>2, <4>4
    <3>2. CASE ~(poll[p] = "reading" /\ last = got[p])
      <4>1. PICK k \in got[p] .. last : got' = [got EXCEPT ![p] = k]
        BY <2>3, <3>2 DEF ReadTail, Answer
      <4>2. poll' = [poll EXCEPT ![p] = "idle"] /\ woken' = woken
        BY <2>3, <3>2 DEF ReadTail, Answer
      <4> QED BY <1>0, <1>1, <4>1, <4>2 DEF IInv, TypeOK, SleepersAreWoken, ReadersAreWoken,
                                            Behind, runVars, pumpVars
    <3> QED BY <3>1, <3>2
  <2> QED BY <2>1, <2>2, <2>3 DEF PollStep
<1> QED BY <1>1, <1>2, <1>3 DEF IInv, runVars, pumpVars

----------------------------------------------------------------------------
(* The end of a feed *)

\* No feed ends while the run's closing frame is to come.  While the run is
\* in an index nobody's feed is closed and no sentinel is on a queue.  Once it
\* is off, until the frame is there, whoever subscribes is handed a closed
\* feed, and its first read is in line behind the write of the row, so the
\* read after the first, which may be its last, is behind the frame.  After
\* the frame a last read covers it.
Told(c) ==
  /\ run \in {"waiting", "active", "dying", "leaving", "filed"} =>
       /\ pump[c] # "done" /\ (pump[c] = "sending" => replay[c] # "final")
       /\ pump[c] = "reading" /\ (run # "filed" \/ c \in ahead) => replay[c] # "final"
  /\ run \in {"waiting", "active", "dying", "leaving"} =>
       \A i \in 1 .. Len(queue[c]) : queue[c][i] # 0
  /\ Live => ~closed[c]
  /\ run = "leaving" /\ closed[c] => pump[c] = "reading" /\ c \notin ahead
  /\ over => /\ pump[c] = "done" => sent[c] = last
             /\ pump[c] = "sending" /\ replay[c] = "final" /\ ~page[c].full => page[c].hi = last

TInv == /\ \A c \in ahead : pump[c] = "reading"
        /\ over => run \in {"finished", "gone"}
        /\ run = "swept" => swept
        /\ ~swept => \A c \in Client : Told(c)

\* No sentinel comes with an event.
LEMMA OfferedNotEnd ==
  ASSUME TypeOK, NEW e \in Nat, e # 0, Offers(e), NEW c \in Client,
         \A i \in 1 .. Len(queue[c]) : queue[c][i] # 0
  PROVE  \A i \in 1 .. Len(queue'[c]) : queue'[c][i] # 0
<1>1. queue[c] \in Seq(0 .. MaxEvents)
  BY DEF TypeOK
<1>2. queue'[c] \in {queue[c], Append(queue[c], e)}
  BY DEF Offers
<1>3. CASE queue'[c] = queue[c]
  BY <1>3
<1>4. CASE queue'[c] = Append(queue[c], e)
  <2>1. /\ Len(queue'[c]) = Len(queue[c]) + 1 /\ Len(queue[c]) \in Nat
        /\ queue'[c][Len(queue[c]) + 1] = e
        /\ \A i \in 1 .. Len(queue[c]) : queue'[c][i] = queue[c][i]
    BY <1>1, <1>4
  <2> TAKE i \in 1 .. Len(queue'[c])
  <2>2. i = Len(queue[c]) + 1 \/ i \in 1 .. Len(queue[c])
    BY <2>1
  <2> QED BY <2>1, <2>2
<1> QED BY <1>2, <1>3, <1>4

\* The steps of the run.
LEMMA RunTold == ASSUME IInv, TInv, RunStep PROVE TInv'
<1> USE DEF runVars, pumpVars
<1>0. TypeOK /\ last \in Nat
  BY Numbers DEF IInv
<1>1. CASE Promote
  <2>1. UNCHANGED <<last, over, swept, ahead, pumpVars>> /\ run = "waiting" /\ run' = "active"
    BY <1>1 DEF Promote
  <2> QED BY <2>1 DEF TInv, Told, Live
<1>2. CASE Sweep
  <2>1. UNCHANGED <<over, ahead, pumpVars>> /\ run = "waiting" /\ run' = "swept" /\ swept'
    BY <1>2 DEF Sweep
  <2> QED BY <2>1 DEF TInv
<1>3. CASE Retire \/ TurnComes
  <2>1. /\ UNCHANGED <<last, over, swept, pumpVars>> /\ run' = "leaving"
        /\ run = "waiting" \/ run = "swept"
        /\ ahead' = {c \in Client : pump[c] = "reading"}
    BY <1>3 DEF Retire, TurnComes, InLine
  <2>2. ASSUME ~swept, NEW c \in Client PROVE Told(c)'
    <3>1. run = "waiting" /\ Told(c) /\ ~over
      BY <2>1, <2>2 DEF TInv
    <3> QED BY <2>1, <3>1 DEF Told, Live
  <2> QED BY <2>1, <2>2 DEF TInv
<1>4. CASE Files
  <2>1. UNCHANGED <<last, over, swept>> /\ run = "leaving"
    BY <1>4 DEF Files
  <2>2. CASE run' = "filed" /\ InLine /\ UNCHANGED <<pumpVars, pollVars>>
    <3>1. ahead' = {c \in Client : pump[c] = "reading"} /\ run' = "filed" /\ UNCHANGED pumpVars
      BY <2>2 DEF InLine
    <3>2. ASSUME ~swept, NEW c \in Client PROVE Told(c)'
      <4>1. Told(c) /\ ~over
        BY <2>1, <3>2 DEF TInv
      <4> QED BY <2>1, <3>1, <4>1 DEF Told, Live
    <3> QED BY <2>1, <3>1, <3>2 DEF TInv
  <2>3. CASE run' = "gone" /\ CloseFeed /\ UNCHANGED ahead
    <3>1. run' = "gone" /\ UNCHANGED <<ahead, pump>> /\ ~over
      BY <2>1, <2>3 DEF CloseFeed, TInv
    <3>2. \A c \in Client : Told(c)'
      BY <2>1, <3>1 DEF Told, Live
    <3> QED BY <2>1, <3>1, <3>2 DEF TInv
  <2> QED BY <1>4, <2>2, <2>3 DEF Files
<1>5. CASE RetireRaises
  <2>1. /\ UNCHANGED <<last, over, swept, ahead, pumpVars>> /\ run' = "lost"
        /\ run = "leaving" \/ run = "swept"
    BY <1>5 DEF RetireRaises
  <2>2. \A c \in Client : Told(c)'
    BY <2>1 DEF TInv, Told, Live
  <2> QED BY <2>1, <2>2 DEF TInv
<1>6. CASE Kill
  <2>1. UNCHANGED <<over, swept, ahead, pumpVars>> /\ run = "active" /\ run' = "dying"
    BY <1>6 DEF Kill
  <2>2. ASSUME ~swept, NEW c \in Client PROVE Told(c)'
    <3>1. Told(c) /\ ~over
      BY <2>1, <2>2 DEF TInv
    <3> QED BY <2>1, <3>1 DEF Told, Live
  <2> QED BY <2>1, <2>2 DEF TInv
<1>7. CASE Emit \/ EmitRaises
  <2>1. /\ UNCHANGED <<run, over, swept, ahead, closed, pump, replay>> /\ run = "active"
    BY <1>7 DEF Emit, EmitRaises, FanOut
  <2>2. ASSUME ~swept, NEW c \in Client PROVE Told(c)'
    <3>1. Told(c) /\ ~over
      BY <2>1, <2>2 DEF TInv
    <3>2. \A i \in 1 .. Len(queue'[c]) : queue'[c][i] # 0
      <4>1. \A i \in 1 .. Len(queue[c]) : queue[c][i] # 0
        BY <2>1, <3>1 DEF Told
      <4>2. CASE Emit
        <5>1. last' = last + 1 /\ Offers(last')
          BY <4>2 DEF Emit, Append1, FanOut
        <5> QED BY <1>0, <4>1, <5>1, OfferedNotEnd
      <4>3. CASE EmitRaises
        BY <4>1, <4>3 DEF EmitRaises
      <4> QED BY <1>7, <4>2, <4>3
    <3> QED BY <2>1, <3>1, <3>2 DEF Told, Live
  <2> QED BY <2>1, <2>2 DEF TInv
<1>8. CASE Finish \/ Part
  <2>1. /\ UNCHANGED <<swept, ahead, pump, replay>>
        /\ run = "active" \/ (run = "filed" /\ ahead = {})
        /\ run' = "finished" \/ run' = "gone"
    BY <1>8 DEF Finish, Part, FanOut, CloseFeed
  <2>2. ASSUME ~swept, NEW c \in Client PROVE Told(c)'
    <3>1. pump[c] # "done" /\ (pump[c] = "sending" => replay[c] # "final")
      BY <2>1, <2>2 DEF TInv, Told
    <3> QED BY <2>1, <3>1 DEF Told, Live
  <2> QED BY <2>1, <2>2 DEF TInv
<1>9. CASE Deregister
  <2>1. /\ UNCHANGED <<last, over, swept, ahead, pump, replay, sent, page>>
        /\ run' = "gone"
    BY <1>9 DEF Deregister, CloseFeed
  <2> QED BY <2>1 DEF TInv, Told, Live
<1> QED BY <1>1, <1>2, <1>3, <1>4, <1>5, <1>6, <1>7, <1>8, <1>9 DEF RunStep, Ends

\* A step of one client says nothing of the others.
LEMMA ClientTold ==
  ASSUME TInv, ahead \subseteq Client, NEW c \in Client, OthersKeep(c), \A x \in Client \ {c} : closed'[x] = closed[x],
         ahead' = ahead \ {c}, UNCHANGED runVars, ~swept => Told(c)'
  PROVE  TInv'
<1>1. ASSUME ~swept, NEW x \in Client \ {c} PROVE Told(x)'
  <2>1. Told(x)
    BY <1>1 DEF TInv
  <2> QED BY <2>1 DEF Told, Live, OthersKeep, runVars
<1>2. \A x \in ahead' : pump'[x] = "reading"
  BY DEF TInv, OthersKeep
<1>3. over' = over /\ run' = run /\ swept' = swept
  BY DEF runVars
<1> QED BY <1>1, <1>2, <1>3 DEF TInv

\* The steps of a pump.
LEMMA PumpTold == ASSUME IInv, TInv, NEW c \in Client, PumpStep(c) PROVE TInv'
<1> USE DEF Unpumped, runVars
<1>0. TypeOK /\ Stored(c) /\ ahead \subseteq Client
  BY DEF IInv, AllStored, TypeOK
<1>1. last \in Nat /\ sent[c] \in Nat /\ page[c].hi \in Nat
  BY Numbers DEF IInv
<1>2. /\ UNCHANGED <<run, last, over, swept, faults>> /\ ahead' = ahead \ {c}
      /\ closed'[c] = closed[c] \/ Subscribe(c)
  BY DEF PumpStep, Subscribe, ReadPage, SendStored, PageDone, Take, SendLive, ReachEnd
<1>3. OthersKeep(c) /\ \A x \in Client \ {c} : closed'[x] = closed[x]
  <2> USE <1>0 DEF TypeOK, OthersKeep, Goes, Replay, Sends
  <2>1. CASE Subscribe(c) \/ ReachEnd(c)
    BY <2>1 DEF Subscribe, ReachEnd
  <2>2. CASE ReadPage(c) \/ SendStored(c)
    BY <2>2 DEF ReadPage, SendStored
  <2>3. CASE PageDone(c)
    BY <2>3 DEF PageDone
  <2>4. CASE Take(c)
    BY <2>4 DEF Take
  <2>5. CASE SendLive(c)
    BY <2>5 DEF SendLive
  <2> QED BY <2>1, <2>2, <2>3, <2>4, <2>5 DEF PumpStep
<1> SUFFICES ASSUME ~swept PROVE Told(c)'
  BY <1>0, <1>2, <1>3, ClientTold
<1>4. Told(c) /\ (over => run \in {"finished", "gone"})
  BY DEF TInv
<1>5. CASE Subscribe(c)
  <2>1. /\ pump'[c] = "reading" /\ replay'[c] = "first" /\ closed'[c] = ~Live
        /\ queue' = queue
    BY <1>0, <1>5 DEF Subscribe, Replay, TypeOK
  <2> QED BY <1>2, <1>4, <2>1 DEF Told, Live
<1>6. CASE ReadPage(c)
  <2>1. /\ pump[c] = "reading" /\ (run \in {"leaving", "filed"} => c \in ahead)
        /\ pump'[c] = "sending" /\ UNCHANGED <<replay, queue, closed>>
        /\ ~page'[c].full => page'[c].hi = last
    <3> DEFINE hi == IF last > sent[c] + PageSize THEN sent[c] + PageSize ELSE last
               next == [hi |-> hi, full |-> hi = sent[c] + PageSize]
    <3>1. /\ pump[c] = "reading" /\ (run \in {"leaving", "filed"} => c \in ahead)
          /\ pump'[c] = "sending" /\ UNCHANGED <<replay, queue, closed>>
          /\ page'[c] = next
      BY <1>0, <1>6 DEF ReadPage, Goes, TypeOK
    <3>2. ~next.full => next.hi = last
      OBVIOUS
    <3> QED BY <3>1, <3>2
  <2> QED BY <1>2, <1>4, <2>1 DEF Told, Live
<1>7. CASE SendStored(c)
  <2>1. pump[c] = "sending" /\ UNCHANGED <<pump, replay, queue, closed, page>>
    BY <1>7 DEF SendStored
  <2> QED BY <1>2, <1>4, <2>1 DEF Told, Live
<1>8. CASE PageDone(c)
  <2>1. /\ pump[c] = "sending" /\ sent[c] = page[c].hi
        /\ UNCHANGED <<replay, queue, closed, sent, page>>
    BY <1>8 DEF PageDone, Goes
  <2>2. /\ pump'[c] \in {"reading", "done", "holding", "getting"}
        /\ pump'[c] = "done" => ~page[c].full /\ replay[c] = "final"
    BY <1>0, <1>8 DEF PageDone, Goes, TypeOK
  <2> QED BY <1>2, <1>4, <2>1, <2>2 DEF Told, Live
<1>9. CASE Take(c)
  <2>1. /\ pump[c] = "getting" /\ queue[c] # <<>> /\ queue'[c] = Tail(queue[c])
        /\ closed' = closed
    BY <1>0, <1>9 DEF Take, TypeOK
  <2>2. \/ pump'[c] = "reading" /\ replay'[c] = "catchup"
        \/ pump'[c] \in {"holding", "getting"}
    BY <1>0, <1>9 DEF Take, Replay, Goes, TypeOK
  <2>3. (\A i \in 1 .. Len(queue[c]) : queue[c][i] # 0) =>
          \A i \in 1 .. Len(queue'[c]) : queue'[c][i] # 0
    <3>1. queue[c] \in Seq(0 .. MaxEvents)
      BY <1>0 DEF TypeOK
    <3> QED BY <2>1, <3>1
  <2> QED BY <1>2, <1>4, <2>1, <2>2, <2>3 DEF Told, Live
<1>10. CASE SendLive(c)
  <2>1. /\ pump[c] = "holding" /\ pump'[c] = "getting"
        /\ UNCHANGED <<replay, queue, closed>>
    BY <1>0, <1>10 DEF SendLive, Goes, TypeOK
  <2> QED BY <1>2, <1>4, <2>1 DEF Told, Live
<1>11. CASE ReachEnd(c)
  <2>1. /\ pump[c] = "getting" /\ pump'[c] = "reading" /\ UNCHANGED <<queue, closed>>
        /\ IF queue[c] = <<>> THEN closed[c] ELSE Head(queue[c]) = 0
    BY <1>0, <1>11 DEF ReachEnd, Replay, TypeOK
  <2>2. queue[c] # <<>> => 1 \in 1 .. Len(queue[c]) /\ Head(queue[c]) = queue[c][1]
    BY <1>0 DEF TypeOK
  <2>3. run \notin {"waiting", "active", "dying", "leaving"}
    BY <1>4, <2>1, <2>2 DEF Told, Live
  <2>4. c \notin ahead
    BY <2>1 DEF TInv
  <2> QED BY <1>2, <1>4, <2>1, <2>3, <2>4 DEF Told, Live
<1> QED BY <1>5, <1>6, <1>7, <1>8, <1>9, <1>10, <1>11 DEF PumpStep

\* Attaching and detaching.
LEMMA AttachTold ==
  ASSUME IInv, TInv, NEW c \in Client, Attach(c) \/ Detach(c)
  PROVE  TInv'
<1> USE DEF Unpumped, runVars
<1>0. TypeOK /\ ahead \subseteq Client
  BY DEF IInv, TypeOK
<1>1. /\ UNCHANGED <<run, last, over, swept, faults, replay>> /\ ahead' = ahead \ {c}
      /\ pump'[c] \in {"starting", "off"} /\ queue'[c] = <<>> /\ closed'[c] = FALSE
  BY <1>0 DEF Attach, Detach, Goes, Unsubscribed, TypeOK
<1>2. OthersKeep(c) /\ \A x \in Client \ {c} : closed'[x] = closed[x]
  BY <1>0 DEF TypeOK, OthersKeep, Attach, Detach, Goes, Unsubscribed
<1>3. Len(<<>>) = 0
  OBVIOUS
<1>4. ~swept => Told(c)'
  BY <1>1, <1>3 DEF TInv, Told, Live
<1> QED BY <1>0, <1>1, <1>2, <1>4, ClientTold

----------------------------------------------------------------------------
(* Theorems *)

LEMMA InitInv == Init => IInv
<1> SUFFICES ASSUME Init PROVE IInv
  OBVIOUS
<1>1. <<>> \in Seq(0 .. MaxEvents) /\ Len(<<>>) = 0
  OBVIOUS
<1>2. queue \in [Client -> Seq(0 .. MaxEvents)] /\ \A c \in Client : Len(queue[c]) <= QueueSize
  BY <1>1, FeedSizes DEF Init
<1>3. TypeOK
  <2>1. /\ 0 \in 0 .. MaxEvents /\ 0 \in 0 .. MaxFaults /\ 0 \in 0 .. MaxAttach
        /\ "off" \in Pump /\ "first" \in Replays /\ run \in Run
    BY FeedBounds DEF Init, Pump, Replays, Run
  <2>2. page \in [Client -> [hi : 0 .. MaxEvents, full : BOOLEAN]]
    BY <2>1 DEF Init
  <2> QED BY <1>2, <2>1, <2>2 DEF Init, TypeOK
<1>4. AllStored /\ SleepersAreWoken /\ ReadersAreWoken /\ Behind
  BY <1>1 DEF Init, AllStored, Stored, SleepersAreWoken, ReadersAreWoken, Behind
<1> QED BY <1>3, <1>4 DEF IInv

LEMMA StepInv == IInv /\ [Next]_vars => IInv'
<1> SUFFICES ASSUME IInv, [Next]_vars PROVE IInv'
  OBVIOUS
<1>1. CASE RunStep
  BY <1>1, RunKeeps
<1>2. ASSUME NEW c \in Client, Attach(c) \/ Detach(c) \/ PumpStep(c) PROVE IInv'
  BY <1>2, AttachKeeps, PumpKeeps
<1>3. ASSUME NEW p \in Poller, Ask(p) \/ PollStep(p) \/ Timeout(p) PROVE IInv'
  BY <1>3, PollKeeps
<1>4. CASE UNCHANGED vars
  BY <1>4 DEF vars, runVars, pumpVars, pollVars, IInv, TypeOK, AllStored, Stored, SleepersAreWoken,
              ReadersAreWoken, Behind
<1> QED BY <1>1, <1>2, <1>3, <1>4 DEF Next, RunStep

\* What the pumps and the polls are built on, at every step.
THEOREM Invariant == Spec => []IInv
<1> QED BY InitInv, StepInv, PTL DEF Spec

\* Every variable of the feed keeps its type, and a subscription's queue its
\* bound, for any clients and sizes.
THEOREM TypeCorrect == Spec => []TypeOK
<1>1. IInv => TypeOK
  BY DEF IInv
<1> QED BY <1>1, Invariant, PTL

\* No long poll sleeps through an event or the end of its run
\* (wait_for_events captures its generation before it reads the log).
THEOREM NoLostWakeup == Spec => []SleepersAreWoken
<1>1. IInv => SleepersAreWoken
  BY DEF IInv
<1> QED BY <1>1, Invariant, PTL

\* No attachment comes to its end short of the run's closing frame, but for
\* the runs a shutdown takes off the queue behind others (_pump_events, "what
\* guarantees a client always receives the frame"): in particular not one
\* that attaches between a waiting run's leaving the queue and that frame.
THEOREM EndsAreTold == Spec => []EndedFeedsWereTold
<1>1. Init => TInv
  BY DEF Init, TInv, Told, Live
<1>2. IInv /\ TInv /\ [Next]_vars => TInv'
  <2> SUFFICES ASSUME IInv, TInv, [Next]_vars PROVE TInv'
    OBVIOUS
  <2>1. CASE RunStep
    BY <2>1, RunTold
  <2>2. ASSUME NEW c \in Client, Attach(c) \/ Detach(c) \/ PumpStep(c) PROVE TInv'
    BY <2>2, AttachTold, PumpTold
  <2>3. ASSUME NEW p \in Poller, Ask(p) \/ PollStep(p) \/ Timeout(p) PROVE TInv'
    <3>1. UNCHANGED <<runVars, ahead, pumpVars>>
      BY <2>3 DEF Ask, PollStep, Capture, ReadTail, Wake, Timeout
    <3> QED BY <3>1 DEF TInv, Told, Live, runVars, pumpVars
  <2>4. CASE UNCHANGED vars
    BY <2>4 DEF vars, TInv, Told, Live, runVars, pumpVars
  <2> QED BY <2>1, <2>2, <2>3, <2>4 DEF Next, RunStep
<1>3. TInv => EndedFeedsWereTold
  BY DEF TInv, Told, EndedFeedsWereTold
<1> QED BY <1>1, <1>2, <1>3, Invariant, PTL DEF Spec

\* Every attachment is sent every event after its cursor, in order and once
\* (_pump_events: "No gap, no duplicate"), whatever the bounded queue
\* dropped and whatever was never offered.
THEOREM NoGapNoDuplicate == Spec => StreamSpec
<1>1. Init => Stream!Init
  BY DEF Init, Stream!Init
<1>2. IInv /\ [Next]_vars => [Stream!Next]_(Stream!vars)
  <2> SUFFICES ASSUME IInv, [Next]_vars PROVE [Stream!Next]_(Stream!vars)
    OBVIOUS
  <2>1. CASE RunStep
    BY <2>1, RunKeeps DEF Stream!Next, Stream!Write, Stream!vars
  <2>2. ASSUME NEW c \in Client, PumpStep(c) PROVE [Stream!Next]_(Stream!vars)
    BY <2>2, PumpKeeps DEF SendsNext, Stream!Next, Stream!Deliver, Stream!vars
  <2>3. ASSUME NEW c \in Client, Attach(c) PROVE [Stream!Next]_(Stream!vars)
    BY <2>3 DEF Attach, runVars, Stream!Next, Stream!Attach
  <2>4. ASSUME NEW c \in Client, Detach(c) PROVE [Stream!Next]_(Stream!vars)
    BY <2>4 DEF Detach, Unpumped, runVars, Stream!vars
  <2>5. ASSUME NEW p \in Poller, Ask(p) \/ PollStep(p) \/ Timeout(p)
        PROVE  [Stream!Next]_(Stream!vars)
    BY <2>5, PollKeeps DEF Stream!vars
  <2>6. CASE UNCHANGED vars
    BY <2>6 DEF vars, runVars, pumpVars, Stream!vars
  <2> QED BY <2>1, <2>2, <2>3, <2>4, <2>5, <2>6 DEF Next, RunStep
<1> QED BY <1>1, <1>2, Invariant, PTL DEF Spec, StreamSpec, Stream!Spec

=============================================================================
