------------------------- MODULE RunLifecycleProofs -------------------------
(* Proofs about RunLifecycle, for any runs and any bounds.  A run's id is   *)
(* not known to a client before its row exists (Minted = {}): with ids that *)
(* are, a finished row can be rewritten, as the run life_revived shows.     *)
EXTENDS RunLifecycle, TLAPS

----------------------------------------------------------------------------
(* The inductive invariant *)

\* Where a run is before its outcome is decided, and where nothing has been
\* logged yet.
Undecided == {"waiting", "loading", "beginning", "announcing", "executing"}
Quiet == {"waiting", "doomed", "retiring", "parting", "loading", "beginning", "announcing"}

\* How the service's memory of one run and its row and log go together.
Coherent(r) ==
  /\ row[r] = "none" => stage[r] = "none" /\ asking[r] = "no" /\ r \notin told
  /\ row[r] \in {"none", "gone"} => log[r] = <<>>
  /\ stage[r] \in {"waiting", "loading", "beginning"} => row[r] = "queued"
  /\ stage[r] \in {"announcing", "executing"} => row[r] = "running"
  /\ stage[r] \in Quiet => log[r] = <<>>
  /\ stage[r] \in {"executing", "closing"} => ~Closed(r)
  /\ stage[r] \in {"closing", "filing", "retiring", "parting"} => outcome[r] \in Terminal
  /\ asking[r] # "no" \/ r \in told => stage[r] \notin Undecided
  /\ stage[r] \in {"waiting", "loading"} => r \in vault

AllCoherent == \A r \in Run : Coherent(r)
Amnesia == server = "down" => \A r \in Run : stage[r] = "none" /\ asking[r] = "no"

IInv == TypeOK /\ AllCoherent /\ Amnesia

----------------------------------------------------------------------------
(* Steps of one run *)

\* Nothing changes for any run but r.
OnlyAt(r) ==
  \A x \in Run \ {r} :
    /\ row'[x] = row[x] /\ log'[x] = log[x]
    /\ stage'[x] = stage[x] /\ outcome'[x] = outcome[x] /\ asking'[x] = asking[x]
    /\ x \in vault' <=> x \in vault
    /\ x \in told' <=> x \in told

\* What has to be shown of a step of run r.
Sound(r) ==
  /\ TypeOK' /\ OnlyAt(r) /\ Coherent(r)' /\ server # "down" /\ server' # "down"
  /\ Table!Moves(row[r], log[r], row'[r], log'[r])

\* A sound step of one run keeps the invariant and the table's promise.
LEMMA SoundStep ==
  ASSUME IInv, NEW r \in Run, Sound(r)
  PROVE  IInv' /\ Table!Next
<1>1. \A x \in Run : Coherent(x)'
  <2> SUFFICES ASSUME NEW x \in Run, x # r PROVE Coherent(x)'
    BY DEF Sound
  <2>1. Coherent(x)
    BY DEF IInv, AllCoherent
  <2> QED BY <2>1 DEF Sound, OnlyAt, Coherent, Closed
<1>2. IInv'
  BY <1>1 DEF Sound, IInv, AllCoherent, Amnesia
<1>3. Table!Next
  <2>1. \A x \in Run : Table!Moves(row[x], log[x], row'[x], log'[x])
    BY DEF Sound, OnlyAt, Table!Moves
  <2> QED BY <2>1 DEF Sound, TypeOK, Table!Next, Table!Status, Table!Frame, Table!Active,
                      Table!Terminal, Active, Terminal
<1> QED BY <1>2, <1>3

\* A frame appended to a log.
LEMMA Appended ==
  ASSUME NEW S, NEW l \in Seq(S), NEW f \in S
  PROVE  /\ Append(l, f) \in Seq(S) /\ Append(l, f) # <<>>
         /\ Append(l, f)[Len(Append(l, f))] = f
  OBVIOUS

\* The call a task awaits, made or not, moves its row and its log as the
\* table allows.
LEMMA CallMoves ==
  ASSUME IInv, NEW r \in Run, stage[r] \in Driven, Call(r)
  PROVE  /\ row' \in [Run -> Active \cup Terminal \cup {"none", "gone"}]
         /\ log' \in [Run -> Seq({"start"} \cup Terminal)]
         /\ \A x \in Run \ {r} : row'[x] = row[x] /\ log'[x] = log[x]
         /\ row'[r] = RowAfter(r) /\ log'[r] = LogAfter(r)
         /\ Table!Moves(row[r], log[r], row'[r], log'[r])
         /\ row'[r] = "none" <=> row[r] = "none"
         /\ row'[r] = "gone" <=> row[r] = "gone"
<1> USE DEF IInv, TypeOK
<1>1. Coherent(r)
  BY DEF AllCoherent
<1>2. RowAfter(r) \in Active \cup Terminal \cup {"none", "gone"}
  BY <1>1 DEF RowAfter, MarkRunning, MarkFinished, Coherent, Active, Terminal
<1>3. LogAfter(r) \in Seq({"start"} \cup Terminal)
  BY <1>1, Appended DEF LogAfter, AppendEvent, Coherent
<1>4. /\ row' \in [Run -> Active \cup Terminal \cup {"none", "gone"}]
      /\ log' \in [Run -> Seq({"start"} \cup Terminal)]
      /\ \A x \in Run \ {r} : row'[x] = row[x] /\ log'[x] = log[x]
      /\ row'[r] = RowAfter(r) /\ log'[r] = LogAfter(r)
  BY <1>2, <1>3 DEF Call
<1>5. RowAfter(r) = "none" <=> row[r] = "none"
  BY <1>1 DEF RowAfter, MarkRunning, MarkFinished, Coherent, Present, Active, Terminal
<1>6. RowAfter(r) = "gone" <=> row[r] = "gone"
  BY <1>1 DEF RowAfter, MarkRunning, MarkFinished, Coherent, Present, Active, Terminal
<1>7. Table!Moves(row[r], log[r], RowAfter(r), LogAfter(r))
  <2>1. CASE stage[r] = "beginning"
    BY <1>1, <2>1 DEF RowAfter, LogAfter, MarkRunning, Present, Coherent, Table!Moves
  <2>2. CASE stage[r] = "announcing"
    <3>1. row[r] = "running" /\ log[r] = <<>> /\ RowAfter(r) = row[r]
          /\ LogAfter(r) = Append(log[r], "start")
      BY <1>1, <2>2 DEF RowAfter, LogAfter, AppendEvent, Present, Coherent, Quiet
    <3> QED BY <3>1 DEF Table!Moves, Table!Grows, Table!Closed, Table!Frame, Table!Active
  <2>3. CASE stage[r] = "closing"
    <3>1. ~Closed(r) /\ outcome[r] \in Terminal /\ RowAfter(r) = row[r]
      BY <1>1, <2>3 DEF RowAfter, Coherent
    <3>2. CASE Present(r)
      <4>1. LogAfter(r) = Append(log[r], outcome[r]) /\ outcome[r] # "start"
        BY <2>3, <3>1, <3>2 DEF LogAfter, AppendEvent, Terminal
      <4>2. row[r] \in Table!Active \cup Table!Terminal
        BY <3>2 DEF Present, Table!Active, Table!Terminal, Active, Terminal
      <4> QED BY <3>1, <4>1, <4>2 DEF Closed, Terminal, Table!Moves, Table!Grows, Table!Closed,
                                      Table!Frame, Table!Terminal
    <3>3. CASE ~Present(r)
      BY <2>3, <3>1, <3>3 DEF LogAfter, AppendEvent, Table!Moves
    <3> QED BY <3>2, <3>3
  <2>4. CASE stage[r] = "filing"
    <3>1. LogAfter(r) = log[r] /\ outcome[r] \in Terminal
      BY <1>1, <2>4 DEF LogAfter, Coherent
    <3>2. RowAfter(r) = IF row[r] \in Active THEN outcome[r] ELSE row[r]
      BY <2>4 DEF RowAfter, MarkFinished
    <3> QED BY <3>1, <3>2 DEF Table!Moves, Table!Active, Table!Terminal, Active, Terminal
  <2>5. CASE stage[r] \notin {"beginning", "announcing", "closing", "filing"}
    BY <2>5 DEF RowAfter, LogAfter, Table!Moves
  <2> QED BY <2>1, <2>2, <2>3, <2>4, <2>5
<1> QED BY <1>4, <1>5, <1>6, <1>7

----------------------------------------------------------------------------
(* The task *)

\* The end of a task, with the memory it gives back.
LEMMA DeregisterSound ==
  ASSUME IInv, NEW r \in Run, stage[r] \in Driven, server # "down", server' = server,
         row' \in [Run -> Active \cup Terminal \cup {"none", "gone"}],
         log' \in [Run -> Seq({"start"} \cup Terminal)],
         \A x \in Run \ {r} : row'[x] = row[x] /\ log'[x] = log[x],
         Table!Moves(row[r], log[r], row'[r], log'[r]),
         row'[r] # "none", row'[r] = "gone" => log'[r] = <<>>,
         Deregister(r), UNCHANGED <<asking, told, stops>>, faults' \in 0 .. MaxFaults
  PROVE  Sound(r)
<1>1. TypeOK'
  BY DEF IInv, TypeOK, Deregister, DropSecrets, Stage
<1>2. OnlyAt(r)
  BY DEF IInv, TypeOK, Deregister, DropSecrets, OnlyAt
<1>3. Coherent(r)'
  BY DEF IInv, TypeOK, Deregister, Coherent, Driven, Ending, Quiet, Undecided
<1> QED BY <1>1, <1>2, <1>3 DEF Sound

\* A run in the registry has a row, or had one.
LEMMA DrivenHasRow ==
  ASSUME IInv, NEW r \in Run, stage[r] \in Driven
  PROVE  row[r] # "none" /\ (row[r] = "gone" => log[r] = <<>>)
BY DEF IInv, AllCoherent, Coherent, Driven, Ending

\* A task's call and its end.
LEMMA CallAndEnd ==
  ASSUME IInv, NEW r \in Run, stage[r] \in Driven, server # "down", server' = server,
         Call(r), Deregister(r), UNCHANGED <<asking, told, faults, stops>>
  PROVE  Sound(r)
<1>1. row'[r] = "gone" => log'[r] = <<>>
  <2> SUFFICES ASSUME row'[r] = "gone" PROVE log'[r] = <<>>
    OBVIOUS
  <2>1. row[r] = "gone" /\ log[r] = <<>>
    BY CallMoves, DrivenHasRow
  <2> QED BY <2>1, CallMoves DEF LogAfter, AppendEvent, Present
<1>2. row'[r] # "none"
  BY CallMoves, DrivenHasRow
<1>3. faults' \in 0 .. MaxFaults
  BY DEF IInv, TypeOK
<1> QED BY <1>1, <1>2, <1>3, CallMoves, DeregisterSound

\* What a call leaves of the row and the log of a run whose outcome is not
\* filed yet.
LEMMA CallLeaves ==
  ASSUME IInv, NEW r \in Run, stage[r] \in Driven, Call(r)
  PROVE  /\ row'[r] \in {"none", "gone"} => log'[r] = <<>>
         /\ row'[r] # "none"
         /\ stage[r] = "loading" => row'[r] = "queued" /\ log'[r] = <<>>
         /\ stage[r] = "beginning" => row'[r] = "running" /\ log'[r] = <<>>
         /\ stage[r] = "announcing" => row'[r] = "running" /\ ~Closed(r)'
         /\ stage[r] = "executing" => row'[r] = "running" /\ ~Closed(r)'
<1>1. Coherent(r)
  BY DEF IInv, AllCoherent
<1>2. row'[r] = RowAfter(r) /\ log'[r] = LogAfter(r) /\ row[r] # "none"
      /\ (row'[r] = "none" <=> row[r] = "none") /\ (row'[r] = "gone" <=> row[r] = "gone")
  BY CallMoves, DrivenHasRow
<1>3. row'[r] \in {"none", "gone"} => log'[r] = <<>>
  BY <1>1, <1>2 DEF LogAfter, AppendEvent, Present, Coherent
<1>4. stage[r] = "loading" => row'[r] = "queued" /\ log'[r] = <<>>
  BY <1>1, <1>2 DEF RowAfter, LogAfter, Coherent, Quiet
<1>5. stage[r] = "beginning" => row'[r] = "running" /\ log'[r] = <<>>
  BY <1>1, <1>2 DEF RowAfter, LogAfter, MarkRunning, Present, Coherent, Quiet
<1>6. stage[r] = "announcing" => row'[r] = "running" /\ ~Closed(r)'
  <2> SUFFICES ASSUME stage[r] = "announcing" PROVE row'[r] = "running" /\ ~Closed(r)'
    OBVIOUS
  <2>1. row'[r] = "running" /\ log'[r] = Append(<<>>, "start")
    BY <1>1, <1>2 DEF RowAfter, LogAfter, AppendEvent, Present, Coherent, Quiet
  <2>2. log'[r][Len(log'[r])] = "start"
    BY <2>1
  <2> QED BY <2>1, <2>2 DEF Closed, Terminal
<1>7. stage[r] = "executing" => row'[r] = "running" /\ ~Closed(r)'
  BY <1>1, <1>2 DEF RowAfter, LogAfter, Coherent, Closed
<1> QED BY <1>2, <1>3, <1>4, <1>5, <1>6, <1>7

\* A call that settles the outcome, or goes on to the next call.
LEMMA CallAndGoOn ==
  ASSUME IInv, NEW r \in Run, server # "down", server' = server,
         stage[r] \in Driven, Call(r), UNCHANGED <<asking, told, faults, stops>>,
         \/ /\ \/ stage[r] = "loading" /\ Proceed(r, "beginning")
               \/ stage[r] = "beginning" /\ Proceed(r, "announcing")
               \/ stage[r] = "announcing" /\ Proceed(r, "executing")
               \/ stage[r] = "closing" /\ Proceed(r, "filing")
               \/ stage[r] = "filing" /\ Proceed(r, "pruning")
         \/ /\ stage[r] \in {"loading", "executing"}
            /\ \E s \in Terminal : Finalize(r, s)
  PROVE  Sound(r)
<1>1. TypeOK'
  <2>1. /\ row' \in [Run -> Active \cup Terminal \cup {"none", "gone"}]
        /\ log' \in [Run -> Seq({"start"} \cup Terminal)]
    BY CallMoves
  <2>2. stage' \in [Run -> Stage]
    <3>1. stage \in [Run -> Stage]
      BY DEF IInv, TypeOK
    <3>2. \E s \in Stage : stage' = [stage EXCEPT ![r] = s]
      BY DEF Proceed, Finalize, Stage, Driven, Ending
    <3> QED BY <3>1, <3>2
  <2>3. outcome' \in [Run -> Terminal \cup {"none"}] /\ stop' = stop /\ vault' = vault
    BY DEF IInv, TypeOK, Proceed, Finalize
  <2> QED BY <2>1, <2>2, <2>3 DEF IInv, TypeOK
<1>2. OnlyAt(r)
  <2>1. \A x \in Run \ {r} : row'[x] = row[x] /\ log'[x] = log[x]
    BY CallMoves
  <2> QED BY <2>1 DEF IInv, TypeOK, Proceed, Finalize, OnlyAt
<1>3. Coherent(r)'
  <2>1. Coherent(r)
    BY DEF IInv, AllCoherent
  <2>2. CASE stage[r] = "loading" /\ Proceed(r, "beginning")
    BY <2>1, <2>2, CallLeaves DEF IInv, TypeOK, Proceed, Coherent, Quiet, Undecided, Driven, Ending
  <2>3. CASE stage[r] = "beginning" /\ Proceed(r, "announcing")
    BY <2>1, <2>3, CallLeaves DEF IInv, TypeOK, Proceed, Coherent, Quiet, Undecided, Driven, Ending
  <2>4. CASE stage[r] = "announcing" /\ Proceed(r, "executing")
    BY <2>1, <2>4, CallLeaves DEF IInv, TypeOK, Proceed, Coherent, Quiet, Undecided, Driven, Ending
  <2>5. CASE stage[r] = "closing" /\ Proceed(r, "filing")
    BY <2>1, <2>5, CallLeaves DEF IInv, TypeOK, Proceed, Coherent, Quiet, Undecided, Driven, Ending
  <2>6. CASE stage[r] = "filing" /\ Proceed(r, "pruning")
    BY <2>1, <2>6, CallLeaves DEF IInv, TypeOK, Proceed, Coherent, Quiet, Undecided, Driven, Ending
  <2>7. CASE stage[r] \in {"loading", "executing"} /\ \E s \in Terminal : Finalize(r, s)
    <3>1. stage'[r] = "closing" /\ outcome'[r] \in Terminal /\ asking' = asking /\ told' = told
      BY <2>7 DEF IInv, TypeOK, Finalize
    <3>2. ~Closed(r)'
      BY <2>7, CallLeaves DEF Closed
    <3> QED BY <2>1, <2>7, <3>1, <3>2, CallLeaves DEF Coherent, Quiet, Undecided, Driven, Ending
  <2> QED BY <2>2, <2>3, <2>4, <2>5, <2>6, <2>7
<1> QED BY <1>1, <1>2, <1>3, CallMoves DEF Sound

LEMMA TaskSound ==
  ASSUME IInv, NEW r \in Run,
         Load(r) \/ Begin(r) \/ Announce(r) \/ Execute(r) \/ Close(r) \/ File(r) \/ Killed(r)
  PROVE  Sound(r)
<1> DEFINE Bystanders == UNCHANGED <<asking, told, faults, stops>> /\ server # "down" /\ server' = server
<1>0. stop[r] # "none" => Stopped(r) \in Terminal
  BY DEF Stopped, Terminal
<1>1. CASE Load(r)
  <2>1. Bystanders /\ stage[r] = "loading" /\ stage[r] \in Driven /\ Call(r)
    BY <1>1 DEF Load, TaskStep, Alive, Driven
  <2>2. \/ Deregister(r) \/ Proceed(r, "beginning") \/ \E s \in Terminal : Finalize(r, s)
    BY <1>0, <1>1 DEF Load, Terminal
  <2> QED BY <2>1, <2>2, CallAndEnd, CallAndGoOn
<1>2. CASE Begin(r)
  <2>1. Bystanders /\ stage[r] = "beginning" /\ stage[r] \in Driven /\ Call(r)
    BY <1>2 DEF Begin, TaskStep, Alive, Driven
  <2>2. Deregister(r) \/ Proceed(r, "announcing")
    BY <1>2 DEF Begin
  <2> QED BY <2>1, <2>2, CallAndEnd, CallAndGoOn
<1>3. CASE Announce(r)
  BY <1>3, CallAndGoOn DEF Announce, TaskStep, Alive, Driven
<1>4. CASE Execute(r)
  <2>1. Bystanders /\ stage[r] = "executing" /\ stage[r] \in Driven /\ Call(r)
    BY <1>4 DEF Execute, TaskStep, Alive, Driven
  <2>2. \E s \in Terminal : Finalize(r, s)
    BY <1>0, <1>4 DEF Execute, Terminal
  <2> QED BY <2>1, <2>2, CallAndGoOn
<1>5. CASE Close(r)
  BY <1>5, CallAndGoOn DEF Close, TaskStep, Alive, Driven, Ending
<1>6. CASE File(r)
  BY <1>6, CallAndGoOn DEF File, TaskStep, Alive, Driven, Ending
<1>7. CASE Killed(r)
  <2>1. Bystanders /\ stage[r] \in Driven /\ Deregister(r)
    BY <1>7 DEF Killed
  <2>2. CASE Call(r)
    BY <2>1, <2>2, CallAndEnd
  <2>3. CASE UNCHANGED durable
    <3>1. Table!Moves(row[r], log[r], row'[r], log'[r])
      BY <2>3 DEF durable, Table!Moves
    <3> QED BY <2>1, <2>3, <3>1, DrivenHasRow, DeregisterSound DEF durable, IInv, TypeOK
  <2> QED BY <1>7, <2>2, <2>3 DEF Killed
<1> QED BY <1>1, <1>2, <1>3, <1>4, <1>5, <1>6, <1>7

\* A database call that raises.
LEMMA DatabaseRaisesSound ==
  ASSUME IInv, NEW r \in Run, DatabaseRaises(r)
  PROVE  Sound(r)
<1>1. /\ server # "down" /\ server' = server /\ stage[r] \in Driven
      /\ UNCHANGED <<row, log, asking, told, stops>> /\ faults' \in 0 .. MaxFaults
  BY LifecycleBounds DEF DatabaseRaises, Alive, Driven, Ending, IInv, TypeOK, durable
<1>2. Table!Moves(row[r], log[r], row'[r], log'[r])
  BY <1>1 DEF Table!Moves
<1>3. CASE Deregister(r)
  BY <1>1, <1>2, <1>3, DrivenHasRow, DeregisterSound DEF IInv, TypeOK
<1>4. CASE \/ stage[r] = "announcing" /\ Proceed(r, "executing")
           \/ stage[r] = "closing" /\ Proceed(r, "filing")
  <2>1. TypeOK'
    BY <1>1, <1>4 DEF IInv, TypeOK, Proceed, Stage, Driven, Ending
  <2>2. OnlyAt(r)
    BY <1>1, <1>4 DEF IInv, TypeOK, Proceed, OnlyAt
  <2>3. Coherent(r)'
    BY <1>1, <1>4 DEF IInv, TypeOK, AllCoherent, Coherent, Closed, Proceed, Quiet, Undecided
  <2> QED BY <1>1, <1>2, <2>1, <2>2, <2>3 DEF Sound
<1> QED BY <1>3, <1>4 DEF DatabaseRaises

----------------------------------------------------------------------------
(* The handlers *)

LEMMA SubmitSound ==
  ASSUME IInv, NEW r \in Run, Submit(r)
  PROVE  Sound(r)
<1> USE DEF IInv, TypeOK
<1>1. Coherent(r)
  BY DEF AllCoherent
<1>2. TypeOK'
  BY DEF Submit, Active, Stage, Server
<1>3. OnlyAt(r)
  BY DEF Submit, OnlyAt
<1>4. Coherent(r)'
  BY <1>1 DEF Submit, Coherent, Closed, Quiet, Undecided
<1>5. Table!Moves(row[r], log[r], row'[r], log'[r])
  BY DEF Submit, Table!Moves
<1> QED BY <1>2, <1>3, <1>4, <1>5 DEF Sound, Submit

LEMMA PromoteSound ==
  ASSUME IInv, NEW r \in Run, Promote(r)
  PROVE  Sound(r)
<1> USE DEF IInv, TypeOK, durable
<1>1. Coherent(r)
  BY DEF AllCoherent
<1>2. TypeOK'
  BY DEF Promote, Stage, Driven
<1>3. OnlyAt(r)
  BY DEF Promote, OnlyAt
<1>4. Coherent(r)'
  BY <1>1 DEF Promote, Coherent, Closed, Quiet, Undecided
<1>5. Table!Moves(row[r], log[r], row'[r], log'[r])
  BY DEF Promote, Table!Moves
<1> QED BY <1>2, <1>3, <1>4, <1>5 DEF Sound, Promote

\* Only a run that has a row can be cancelled, if no id is known before.
LEMMA CancelSound ==
  ASSUME IInv, Minted = {}, NEW r \in Run, Cancel(r)
  PROVE  Sound(r)
<1> USE DEF IInv, TypeOK, durable
<1>1. Coherent(r) /\ row[r] # "none"
  BY DEF AllCoherent, Cancel
<1>2. TypeOK'
  <2>1. UNCHANGED <<row, log, told, server, faults, stops>>
    BY DEF Cancel
  <2>2. CASE /\ Retire(r, "cancelled") /\ vault' = DropSecrets(r) /\ UNCHANGED <<stop, asking>>
    BY <2>1, <2>2 DEF Retire, DropSecrets, Stage, Terminal
  <2>3. CASE /\ stop' = [stop EXCEPT ![r] = IF @ = "none" THEN "cancelled" ELSE @]
             /\ UNCHANGED <<stage, outcome, vault, asking>>
    BY <2>1, <2>3
  <2>4. CASE /\ asking' = [asking EXCEPT ![r] = "reading"]
             /\ UNCHANGED <<stage, outcome, stop, vault>>
    BY <2>1, <2>4
  <2> QED BY <2>2, <2>3, <2>4 DEF Cancel
<1>3. OnlyAt(r)
  BY DEF Cancel, Retire, DropSecrets, OnlyAt
<1>4. Coherent(r)'
  <2>1. UNCHANGED <<row, log, told>>
    BY DEF Cancel
  <2>2. CASE /\ stage[r] = "waiting" /\ Retire(r, "cancelled") /\ asking' = asking
    BY <1>1, <2>1, <2>2 DEF Retire, Coherent, Closed, Quiet, Undecided, Terminal
  <2>3. CASE UNCHANGED <<stage, outcome, vault, asking>>
    BY <1>1, <2>1, <2>3 DEF Coherent, Closed
  <2>4. CASE /\ InNeitherIndex(r)
             /\ UNCHANGED <<stage, outcome, stop, vault>>
    BY <1>1, <2>1, <2>4 DEF Coherent, Closed, InNeitherIndex, Undecided, Driven, Ending
  <2> QED BY <2>2, <2>3, <2>4 DEF Cancel
<1>5. Table!Moves(row[r], log[r], row'[r], log'[r])
  BY DEF Cancel, Table!Moves
<1> QED BY <1>2, <1>3, <1>4, <1>5 DEF Sound, Cancel

LEMMA CancellingSound ==
  ASSUME IInv, NEW r \in Run, Cancelling(r)
  PROVE  Sound(r)
<1> USE DEF IInv, TypeOK, durable, Cancelling
<1>1. Coherent(r)
  BY DEF AllCoherent
<1>2. CASE CancelReads(r)
  <2>1. TypeOK'
    BY <1>2 DEF CancelReads
  <2>2. OnlyAt(r)
    BY <1>2 DEF CancelReads, OnlyAt
  <2>3. Coherent(r)'
    BY <1>1, <1>2 DEF CancelReads, Coherent, Closed
  <2>4. Table!Moves(row[r], log[r], row'[r], log'[r])
    BY <1>2 DEF CancelReads, Table!Moves
  <2> QED BY <1>2, <2>1, <2>2, <2>3, <2>4 DEF Sound, CancelReads
<1>3. CASE CancelWrites(r)
  <2>1. TypeOK'
    BY <1>3 DEF CancelWrites, MarkFinished, Terminal
  <2>2. OnlyAt(r)
    BY <1>3 DEF CancelWrites, OnlyAt
  <2>3. Coherent(r)'
    BY <1>1, <1>3 DEF CancelWrites, MarkFinished, Coherent, Closed, Undecided
  <2>4. Table!Moves(row[r], log[r], row'[r], log'[r])
    BY <1>3 DEF CancelWrites, MarkFinished, Table!Moves, Table!Active, Table!Terminal
  <2> QED BY <1>3, <2>1, <2>2, <2>3, <2>4 DEF Sound, CancelWrites
<1> QED BY <1>2, <1>3

LEMMA WorkerRemovedSound ==
  ASSUME IInv, NEW r \in Run, WorkerRemoved(r)
  PROVE  Sound(r)
<1> USE DEF IInv, TypeOK, durable
<1>1. Coherent(r)
  BY DEF AllCoherent
<1>2. TypeOK'
  BY DEF WorkerRemoved, Retire, Stage, Terminal
<1>3. OnlyAt(r)
  BY DEF WorkerRemoved, Retire, OnlyAt
<1>4. Coherent(r)'
  BY <1>1 DEF WorkerRemoved, Retire, Coherent, Closed, Quiet, Undecided, Terminal
<1>5. Table!Moves(row[r], log[r], row'[r], log'[r])
  BY DEF WorkerRemoved, Table!Moves
<1> QED BY <1>2, <1>3, <1>4, <1>5 DEF Sound, WorkerRemoved

LEMMA DeleteSound ==
  ASSUME IInv, NEW r \in Run, Delete(r)
  PROVE  Sound(r)
<1> USE DEF IInv, TypeOK, memory
<1>1. Coherent(r)
  BY DEF AllCoherent
<1>2. TypeOK'
  BY DEF Delete
<1>3. OnlyAt(r)
  BY DEF Delete, OnlyAt
<1>4. Coherent(r)'
  BY <1>1 DEF Delete, Coherent, Closed, Quiet, Undecided, Driven, Ending, Present
<1>5. Table!Moves(row[r], log[r], row'[r], log'[r])
  BY DEF Delete, Present, Table!Moves, Table!Active, Table!Terminal, Active, Terminal
<1> QED BY <1>2, <1>3, <1>4, <1>5 DEF Sound, Delete

LEMMA RetiringSound ==
  ASSUME IInv, NEW r \in Run, Retiring(r) \/ RetireRaises(r)
  PROVE  Sound(r)
<1> USE DEF IInv, TypeOK, durable
<1>1. Coherent(r)
  BY DEF AllCoherent
<1>2. CASE RetireNext(r)
  <2>1. TypeOK'
    BY <1>2 DEF RetireNext, Retire, DropSecrets, Stage, Terminal
  <2>2. OnlyAt(r)
    BY <1>2 DEF RetireNext, Retire, DropSecrets, OnlyAt
  <2>3. Coherent(r)'
    BY <1>1, <1>2 DEF RetireNext, Retire, DropSecrets, Coherent, Closed, Quiet, Undecided, Terminal
  <2>4. Table!Moves(row[r], log[r], row'[r], log'[r])
    BY <1>2 DEF RetireNext, Table!Moves
  <2> QED BY <1>2, <2>1, <2>2, <2>3, <2>4 DEF Sound, RetireNext
<1>3. CASE RetireFiles(r)
  <2>0. outcome[r] \in Terminal /\ log[r] = <<>> /\ stage[r] = "retiring"
    BY <1>1, <1>3 DEF RetireFiles, Coherent, Quiet
  <2>1. TypeOK'
    BY <2>0, <1>3 DEF RetireFiles, MarkFinished, DropSecrets, Stage
  <2>2. OnlyAt(r)
    BY <1>3 DEF RetireFiles, DropSecrets, OnlyAt
  <2>3. Coherent(r)'
    <3>1. row'[r] = (IF row[r] = "queued" THEN outcome[r] ELSE row[r])
          /\ log' = log /\ asking' = asking
      BY <1>3 DEF RetireFiles, MarkFinished
    <3>2. CASE row[r] = "queued"
      <4>1. stage'[r] = "parting" /\ outcome'[r] = outcome[r]
        BY <1>3, <3>2 DEF RetireFiles
      <4>2. row'[r] \notin {"none", "gone"}
        BY <2>0, <3>1, <3>2 DEF Terminal
      <4> QED BY <2>0, <3>1, <4>1, <4>2 DEF Coherent, Closed, Quiet, Undecided
    <3>3. CASE row[r] # "queued"
      <4>1. stage'[r] = "none" /\ row'[r] = row[r] /\ row[r] # "none"
        BY <1>1, <1>3, <2>0, <3>1, <3>3 DEF RetireFiles, Coherent
      <4> QED BY <2>0, <3>1, <4>1 DEF Coherent, Closed, Quiet, Undecided
    <3> QED BY <3>2, <3>3
  <2>4. Table!Moves(row[r], log[r], row'[r], log'[r])
    BY <1>3, <2>0 DEF RetireFiles, MarkFinished, Table!Moves, Table!Active, Table!Terminal, Terminal
  <2> QED BY <1>3, <2>1, <2>2, <2>3, <2>4 DEF Sound, RetireFiles
<1>4. CASE RetireCloses(r)
  <2>0. outcome[r] \in Terminal /\ log[r] = <<>> /\ stage[r] = "parting" /\ row[r] # "none"
    BY <1>1, <1>4 DEF RetireCloses, Coherent, Quiet
  <2>1. AppendEvent(r, outcome[r]) \in Seq({"start"} \cup Terminal)
    BY <2>0, Appended DEF AppendEvent
  <2>2. TypeOK'
    <3>1. log' \in [Run -> Seq({"start"} \cup Terminal)]
      BY <1>4, <2>1 DEF RetireCloses
    <3>2. faults' \in 0 .. MaxFaults
      BY <1>4, LifecycleBounds DEF RetireCloses
    <3>3. stage' \in [Run -> Stage] /\ outcome' \in [Run -> Terminal \cup {"none"}]
      BY <1>4 DEF RetireCloses, Stage
    <3> QED BY <1>4, <3>1, <3>2, <3>3 DEF RetireCloses
  <2>3. OnlyAt(r)
    BY <1>4 DEF RetireCloses, OnlyAt
  <2>4. row' = row /\ stage'[r] = "none" /\ asking' = asking /\ told' = told
        /\ (log'[r] = <<>> \/ log'[r] = AppendEvent(r, outcome[r]))
    BY <1>4, <2>0 DEF RetireCloses
  <2>5. Coherent(r)'
    <3>1. row[r] = "gone" => log'[r] = <<>>
      BY <2>0, <2>4 DEF AppendEvent, Present
    <3> QED BY <2>0, <2>4, <3>1 DEF Coherent, Quiet, Undecided
  <2>6. Table!Moves(row[r], log[r], row'[r], log'[r])
    <3>1. CASE log'[r] = log[r]
      BY <2>4, <3>1 DEF Table!Moves
    <3>2. CASE log'[r] # log[r]
      <4>1. Present(r) /\ log'[r] = Append(log[r], outcome[r])
        BY <2>0, <2>4, <3>2 DEF AppendEvent
      <4>2. row[r] \in Table!Active \cup Table!Terminal /\ outcome[r] \in Table!Frame
            /\ outcome[r] # "start"
        BY <2>0, <4>1 DEF Present, Table!Active, Table!Terminal, Table!Frame, Active, Terminal
      <4>3. Table!Grows(log[r], log'[r])
        BY <2>0, <4>1, <4>2 DEF Table!Grows, Table!Closed
      <4> QED BY <2>4, <4>2, <4>3 DEF Table!Moves
    <3> QED BY <3>1, <3>2
  <2> QED BY <1>4, <2>2, <2>3, <2>5, <2>6 DEF Sound, RetireCloses
<1>5. CASE RetireRaises(r)
  <2>1. TypeOK'
    BY <1>5, LifecycleBounds DEF RetireRaises, Stage
  <2>2. OnlyAt(r)
    BY <1>5 DEF RetireRaises, OnlyAt
  <2>3. Coherent(r)'
    BY <1>1, <1>5 DEF RetireRaises, Coherent, Closed, Quiet, Undecided
  <2>4. Table!Moves(row[r], log[r], row'[r], log'[r])
    BY <1>5 DEF RetireRaises, Table!Moves
  <2> QED BY <1>5, <2>1, <2>2, <2>3, <2>4 DEF Sound, RetireRaises
<1> QED BY <1>2, <1>3, <1>4, <1>5 DEF Retiring

----------------------------------------------------------------------------
(* Steps of the whole server *)

\* What has to be shown of a step that is not one run's.
LEMMA GlobalStep ==
  ASSUME TypeOK', \A r \in Run : Coherent(r)',
         \A r \in Run : Table!Moves(row[r], log[r], row'[r], log'[r]),
         server' = "down" => \A r \in Run : stage'[r] = "none" /\ asking'[r] = "no"
  PROVE  IInv' /\ Table!Next
<1>1. IInv'
  BY DEF IInv, AllCoherent, Amnesia
<1>2. Table!Next
  BY DEF TypeOK, Table!Next, Table!Status, Table!Frame, Table!Active, Table!Terminal,
         Active, Terminal
<1> QED BY <1>1, <1>2

LEMMA PruneStep ==
  ASSUME IInv, NEW r \in Run, Prune(r)
  PROVE  IInv' /\ Table!Next
<1> USE DEF IInv, TypeOK, Prune, TaskStep
<1>1. PICK old \in SUBSET {x \in Run : row[x] \in Terminal} :
        /\ row' = [x \in Run |-> IF x \in old THEN "gone" ELSE row[x]]
        /\ log' = [x \in Run |-> IF x \in old THEN <<>> ELSE log[x]]
  OBVIOUS
<1>2. TypeOK'
  BY <1>1 DEF Deregister, DropSecrets, Stage
<1>3. \A x \in Run : Coherent(x)'
  <2> SUFFICES ASSUME NEW x \in Run PROVE Coherent(x)'
    OBVIOUS
  <2>1. Coherent(x) /\ row[r] # "none"
    BY DrivenHasRow DEF AllCoherent, Driven, Ending
  <2>2. x \in old => row[x] \in Terminal
    BY <1>1
  <2>3. CASE x = r
    <3>1. stage'[r] = "none" /\ asking' = asking /\ told' = told
      BY DEF Deregister
    <3> QED BY <1>1, <2>1, <2>2, <2>3, <3>1 DEF Coherent, Quiet, Undecided
  <2>4. CASE x # r
    <3>1. /\ stage'[x] = stage[x] /\ outcome'[x] = outcome[x] /\ asking' = asking
          /\ told' = told /\ (x \in vault' <=> x \in vault)
      BY <2>4 DEF Deregister, DropSecrets
    <3>2. CASE x \in old
      <4>1. row'[x] = "gone" /\ log'[x] = <<>> /\ row[x] \notin {"none", "queued", "running"}
        BY <1>1, <2>2, <3>2 DEF Terminal
      <4> QED BY <2>1, <3>1, <4>1 DEF Coherent, Closed
    <3>3. CASE x \notin old
      BY <1>1, <2>1, <3>1, <3>3 DEF Coherent, Closed
    <3> QED BY <3>2, <3>3
  <2> QED BY <2>3, <2>4
<1>4. \A x \in Run : Table!Moves(row[x], log[x], row'[x], log'[x])
  BY <1>1 DEF Table!Moves, Table!Active, Table!Terminal, Terminal
<1>5. server' # "down"
  BY DEF Alive
<1> QED BY <1>2, <1>3, <1>4, <1>5, GlobalStep

\* The shutdown, the crash and the recovery.
LEMMA ServerStepKeeps ==
  ASSUME IInv, BeginShutdown \/ Crash \/ Lifecycle
  PROVE  IInv' /\ Table!Next
<1> USE DEF IInv, TypeOK, ServerStep, durable, memory
<1>0. \A r \in Run : Coherent(r)
  BY DEF AllCoherent
<1>1. CASE BeginShutdown \/ GraceEnds
  <2>1. TypeOK'
    BY <1>1, LifecycleBounds DEF BeginShutdown, GraceEnds, Server
  <2>2. \A r \in Run : Coherent(r)'
    BY <1>0, <1>1 DEF BeginShutdown, GraceEnds, Coherent, Closed
  <2>3. \A r \in Run : Table!Moves(row[r], log[r], row'[r], log'[r])
    BY <1>1 DEF BeginShutdown, GraceEnds, Table!Moves
  <2>4. server' # "down"
    BY <1>1 DEF BeginShutdown, GraceEnds
  <2> QED BY <2>1, <2>2, <2>3, <2>4, GlobalStep
<1>2. CASE RetireQueue
  <2>1. TypeOK'
    BY <1>2 DEF RetireQueue, Stage, Server
  <2>2. \A r \in Run : Coherent(r)'
    <3> SUFFICES ASSUME NEW r \in Run PROVE Coherent(r)'
      OBVIOUS
    <3>1. UNCHANGED <<row, log, outcome, vault, asking, told>>
          /\ stage'[r] = IF stage[r] = "waiting" THEN "doomed" ELSE stage[r]
      BY <1>2 DEF RetireQueue
    <3> QED BY <1>0, <3>1 DEF Coherent, Closed, Quiet, Undecided
  <2>3. \A r \in Run : Table!Moves(row[r], log[r], row'[r], log'[r])
    BY <1>2 DEF RetireQueue, Table!Moves
  <2> QED BY <1>2, <2>1, <2>2, <2>3, GlobalStep DEF RetireQueue
<1>3. CASE SignalRuns
  <2>1. TypeOK'
    BY <1>3 DEF SignalRuns, Server
  <2>2. \A r \in Run : Coherent(r)'
    BY <1>0, <1>3 DEF SignalRuns, Coherent, Closed
  <2>3. \A r \in Run : Table!Moves(row[r], log[r], row'[r], log'[r])
    BY <1>3 DEF SignalRuns, Table!Moves
  <2> QED BY <1>3, <2>1, <2>2, <2>3, GlobalStep DEF SignalRuns
<1>4. CASE ShutdownEnds \/ Crash
  <2>1. /\ UNCHANGED <<row, log, told>> /\ server' = "down"
        /\ \A r \in Run : stage'[r] = "none" /\ outcome'[r] = "none" /\ asking'[r] = "no"
    BY <1>4 DEF ShutdownEnds, Crash, Forgets
  <2>2. TypeOK'
    BY <1>4, LifecycleBounds DEF ShutdownEnds, Crash, Forgets, Stage, Server
  <2>3. \A r \in Run : Coherent(r)'
    BY <1>0, <2>1 DEF Coherent, Quiet, Undecided
  <2>4. \A r \in Run : Table!Moves(row[r], log[r], row'[r], log'[r])
    BY <2>1 DEF Table!Moves
  <2> QED BY <2>1, <2>2, <2>3, <2>4, GlobalStep
<1>5. CASE Recover
  <2>1. \A r \in Run : stage[r] = "none" /\ asking[r] = "no"
    BY <1>5 DEF Recover, Amnesia
  <2>2. /\ UNCHANGED <<stage, outcome, stop, vault, asking, told, faults, stops>>
        /\ server' = "up"
        /\ \A r \in Run : /\ row'[r] = IF row[r] \in Active THEN "interrupted" ELSE row[r]
                          /\ log'[r] = IF row[r] \in Active THEN ClosedByRecovery(r) ELSE log[r]
    BY <1>5 DEF Recover, Unfinished
  <2>3. \A r \in Run : ClosedByRecovery(r) \in Seq({"start"} \cup Terminal)
    <3> SUFFICES ASSUME NEW r \in Run
                 PROVE ClosedByRecovery(r) \in Seq({"start"} \cup Terminal)
      OBVIOUS
    <3>1. log[r] \in Seq({"start"} \cup Terminal) /\ "interrupted" \in {"start"} \cup Terminal
      BY DEF Terminal
    <3> QED BY <3>1, Appended DEF ClosedByRecovery
  <2>4. TypeOK'
    <3>1. row' \in [Run -> Active \cup Terminal \cup {"none", "gone"}]
      BY <1>5 DEF Recover, Unfinished, Terminal
    <3>2. log' \in [Run -> Seq({"start"} \cup Terminal)]
      BY <1>5, <2>3 DEF Recover
    <3> QED BY <2>2, <3>1, <3>2 DEF Server
  <2>5. \A r \in Run : Coherent(r)'
    <3> SUFFICES ASSUME NEW r \in Run PROVE Coherent(r)'
      OBVIOUS
    <3>1. row[r] \in {"none", "gone"} => row'[r] = row[r] /\ log'[r] = log[r]
      BY <2>2 DEF Active
    <3>2. row'[r] \in {"none", "gone"} => row[r] = row'[r]
      BY <2>2
    <3> QED BY <1>0, <2>1, <2>2, <3>1, <3>2 DEF Coherent, Quiet, Undecided
  <2>6. \A r \in Run : Table!Moves(row[r], log[r], row'[r], log'[r])
    <3> SUFFICES ASSUME NEW r \in Run PROVE Table!Moves(row[r], log[r], row'[r], log'[r])
      OBVIOUS
    <3>1. CASE row[r] \notin Active
      BY <2>2, <3>1 DEF Table!Moves
    <3>2. CASE row[r] \in Active /\ Closed(r)
      BY <2>2, <3>2 DEF ClosedByRecovery, Table!Moves, Table!Active, Table!Terminal, Active
    <3>3. CASE row[r] \in Active /\ ~Closed(r)
      <4>1. row'[r] = "interrupted" /\ log'[r] = Append(log[r], "interrupted")
        BY <2>2, <3>3 DEF ClosedByRecovery
      <4>2. Table!Grows(log[r], log'[r])
        BY <3>3, <4>1 DEF Table!Grows, Table!Closed, Table!Frame, Table!Terminal, Closed, Terminal
      <4> QED BY <3>3, <4>1, <4>2 DEF Table!Moves, Table!Active, Active
    <3> QED BY <3>1, <3>2, <3>3
  <2> QED BY <2>2, <2>4, <2>5, <2>6, GlobalStep
<1> QED BY <1>1, <1>2, <1>3, <1>4, <1>5 DEF Lifecycle

----------------------------------------------------------------------------
(* The theorems *)

LEMMA StepKeeps ==
  ASSUME Minted = {}, IInv, [Next]_vars
  PROVE  IInv' /\ [Table!Next]_<<row, log>>
<1>1. ASSUME NEW r \in Run,
             \/ Submit(r) \/ Promote(r) \/ Drive(r) \/ DatabaseRaises(r) \/ Killed(r)
             \/ Cancel(r) \/ Cancelling(r) \/ WorkerRemoved(r) \/ Delete(r)
             \/ Retiring(r) \/ RetireRaises(r)
      PROVE  IInv' /\ Table!Next
  <2>1. CASE Prune(r)
    BY <2>1, PruneStep
  <2>2. CASE ~Prune(r)
    <3>1. Sound(r)
      BY <1>1, <2>2, SubmitSound, PromoteSound, TaskSound, DatabaseRaisesSound, CancelSound,
         CancellingSound, WorkerRemovedSound, DeleteSound, RetiringSound DEF Drive
    <3> QED BY <3>1, SoundStep
  <2> QED BY <2>1, <2>2
<1>2. CASE BeginShutdown \/ Crash \/ Lifecycle
  BY <1>2, ServerStepKeeps
<1>3. CASE UNCHANGED vars
  <2>1. IInv'
    BY <1>3 DEF vars, durable, memory, IInv, TypeOK, AllCoherent, Coherent, Closed, Amnesia
  <2>2. UNCHANGED <<row, log>>
    BY <1>3 DEF vars, durable
  <2> QED BY <2>1, <2>2
<1> QED BY <1>1, <1>2, <1>3 DEF Next

LEMMA InitHolds == Init => IInv /\ Table!Init
<1> SUFFICES ASSUME Init PROVE IInv /\ Table!Init
  OBVIOUS
<1>1. TypeOK
  BY LifecycleBounds DEF Init, TypeOK, Stage, Server
<1>2. \A r \in Run : Coherent(r)
  BY DEF Init, Coherent, Quiet, Undecided
<1> QED BY <1>1, <1>2 DEF Init, IInv, AllCoherent, Amnesia, Table!Init

\* The invariant of every state: what the service remembers of a run goes
\* with the run's row and log.
THEOREM Invariant ==
  ASSUME Minted = {} PROVE Spec => []IInv
<1>1. Init => IInv
  BY InitHolds
<1>2. IInv /\ [Next]_vars => IInv'
  BY StepKeeps
<1> QED BY <1>1, <1>2, PTL DEF Spec

\* Every variable has its type, whatever interleaves.
THEOREM TypeCorrect ==
  ASSUME Minted = {} PROVE Spec => []TypeOK
<1>1. IInv => TypeOK
  BY DEF IInv
<1> QED BY <1>1, Invariant, PTL

\* The service keeps the run table's promise: a finished run is never
\* rewritten and its log has one closing frame, the last, over any number of
\* runs, cancels, deletions, database faults, shutdowns and crashes.
THEOREM TableKept ==
  ASSUME Minted = {} PROVE Spec => TableSpec
<1>1. Init => Table!Init
  BY InitHolds
<1>2. IInv /\ [Next]_vars => [Table!Next]_<<row, log>>
  BY StepKeeps
<1> QED BY <1>1, <1>2, Invariant, PTL DEF Spec, TableSpec, Table!Spec

\* A run that is waiting or about to read its graph has its secrets in
\* memory.
THEOREM SecretsThere ==
  ASSUME Minted = {} PROVE Spec => []SecretsAreThere
<1>1. IInv => SecretsAreThere
  BY DEF IInv, AllCoherent, Coherent, SecretsAreThere
<1> QED BY <1>1, Invariant, PTL

\* A run that a cancel reported as cancelled does not execute afterwards.
THEOREM CancelledStay ==
  ASSUME Minted = {} PROVE Spec => []CancelledRunsStayCancelled
<1>1. IInv => CancelledRunsStayCancelled
  BY DEF IInv, AllCoherent, Coherent, CancelledRunsStayCancelled, TypeOK, Undecided, Driven
<1> QED BY <1>1, Invariant, PTL

----------------------------------------------------------------------------
(* While no database call raises *)

\* An unfinished row is held by somebody until the server goes down.
Held(r) ==
  /\ stage[r] \in {"doomed", "retiring"} => row[r] # "running"
  /\ stage[r] = "pruning" => row[r] \notin Active
  /\ server = "up" /\ stage[r] = "none" => row[r] \notin Active

\* What the log says is what the row says, or is going to say.
Last(r) == log[r][Len(log[r])]
Logged(r) ==
  /\ row[r] \in Terminal \cup {"queued"} /\ log[r] # <<>> => Closed(r)
  /\ row[r] \in {"succeeded", "failed"} /\ log[r] # <<>> => Last(r) = row[r]
  /\ stage[r] \in {"closing", "filing"} /\ row[r] \in Terminal => row[r] = "cancelled"
  /\ stage[r] = "filing" /\ Present(r) => log[r] # <<>> /\ Last(r) = outcome[r]
  /\ stage[r] = "parting" => row[r] \in {outcome[r], "gone"}

\* Secrets go with the run, or when its row is filed.
Hidden(r) == r \in vault => stage[r] \notin {"none", "parting"}

InOrder(r) == Held(r) /\ Logged(r) /\ Hidden(r)
AllInOrder == faults = 0 => \A r \in Run : InOrder(r)

LEMMA LastAppended ==
  ASSUME NEW l \in Seq({"start"} \cup Terminal), NEW f \in {"start"} \cup Terminal,
         NEW m, m = Append(l, f)
  PROVE  m # <<>> /\ m[Len(m)] = f
  BY Appended

\* A step of one run leaves the others in order.
LEMMA OthersInOrder ==
  ASSUME IInv, NEW r \in Run, OnlyAt(r), server' = server,
         \A x \in Run : InOrder(x), InOrder(r)'
  PROVE  \A x \in Run : InOrder(x)'
<1> SUFFICES ASSUME NEW x \in Run, x # r PROVE InOrder(x)'
  OBVIOUS
<1>1. InOrder(x)
  OBVIOUS
<1>2. /\ row'[x] = row[x] /\ log'[x] = log[x] /\ stage'[x] = stage[x]
      /\ outcome'[x] = outcome[x] /\ (x \in vault' <=> x \in vault)
  BY DEF OnlyAt
<1>3. Held(x)'
  BY <1>1, <1>2 DEF InOrder, Held
<1>4. Logged(x)'
  BY <1>1, <1>2 DEF InOrder, Logged, Last, Closed, Present
<1>5. Hidden(x)'
  BY <1>1, <1>2 DEF InOrder, Hidden
<1> QED BY <1>3, <1>4, <1>5 DEF InOrder

\* What a task's call leaves of the run's row and log.
LEMMA CallInOrder ==
  ASSUME IInv, NEW r \in Run, InOrder(r), stage[r] \in Driven, Call(r)
  PROVE  /\ row'[r] \in Terminal \cup {"queued"} /\ log'[r] # <<>> => Closed(r)'
         /\ row'[r] \in {"succeeded", "failed"} /\ log'[r] # <<>> => Last(r)' = row'[r]
         /\ stage[r] # "filing" /\ row'[r] \in Terminal => row'[r] = row[r]
         /\ stage[r] = "closing" /\ row'[r] \notin {"none", "gone"} =>
              log'[r] # <<>> /\ Last(r)' = outcome[r]
         /\ stage[r] = "filing" => row'[r] \notin Active
<1> USE DEF IInv, TypeOK
<1>1. Coherent(r) /\ Logged(r)
  BY DEF AllCoherent, InOrder
<1>2. row'[r] = RowAfter(r) /\ log'[r] = LogAfter(r)
  BY CallMoves
<1>3. CASE stage[r] = "beginning"
  <2>1. row'[r] = "running" /\ log'[r] = <<>>
    BY <1>3, CallLeaves
  <2> QED BY <1>3, <2>1 DEF Terminal
<1>4. CASE stage[r] = "announcing"
  <2>1. row'[r] = "running"
    BY <1>4, CallLeaves
  <2> QED BY <1>4, <2>1 DEF Terminal
<1>5. CASE stage[r] = "closing"
  <2>1. row'[r] = row[r] /\ outcome[r] \in Terminal
    BY <1>1, <1>2, <1>5 DEF RowAfter, Coherent
  <2>2. CASE Present(r)
    <3>1. log'[r] = Append(log[r], outcome[r])
      BY <1>2, <1>5, <2>2 DEF LogAfter, AppendEvent
    <3>a. log[r] \in Seq({"start"} \cup Terminal) /\ outcome[r] \in {"start"} \cup Terminal
      BY <2>1
    <3>b. log'[r] # <<>> /\ log'[r][Len(log'[r])] = outcome[r]
      BY ONLY <3>1, <3>a, LastAppended
    <3>2. log'[r] # <<>> /\ Last(r)' = outcome[r]
      BY <3>b DEF Last
    <3>3. Closed(r)'
      BY <2>1, <3>2 DEF Closed, Last
    <3>4. row'[r] \notin {"succeeded", "failed"}
      BY <1>1, <1>5, <2>1 DEF Logged, Terminal
    <3> QED BY <1>5, <2>1, <3>2, <3>3, <3>4
  <2>3. CASE ~Present(r)
    BY <1>5, <2>1, <2>3 DEF Present, Terminal
  <2> QED BY <2>2, <2>3
<1>6. CASE stage[r] = "filing"
  <2>1. /\ row'[r] = IF row[r] \in Active THEN outcome[r] ELSE row[r]
        /\ outcome[r] \in Terminal /\ log'[r] = log[r]
    BY <1>1, <1>2, <1>6 DEF RowAfter, LogAfter, MarkFinished, Coherent
  <2>2. CASE row[r] \in Active
    <3>1. log[r] # <<>> /\ Last(r) = outcome[r]
      BY <1>1, <1>6, <2>2 DEF Logged, Present, Active
    <3> QED BY <1>6, <2>1, <2>2, <3>1 DEF Last, Closed, Active, Terminal
  <2>3. CASE row[r] \notin Active
    BY <1>1, <1>6, <2>1, <2>3 DEF Logged, Last, Closed
  <2> QED BY <2>2, <2>3
<1>7. CASE stage[r] \notin {"beginning", "announcing", "closing", "filing"}
  <2>1. row'[r] = row[r] /\ log'[r] = log[r]
    BY <1>2, <1>7 DEF RowAfter, LogAfter
  <2> QED BY <1>1, <1>7, <2>1 DEF Logged, Last, Closed
<1> QED BY <1>3, <1>4, <1>5, <1>6, <1>7

\* A task that goes on, or decides its outcome.
LEMMA GoesOnInOrder ==
  ASSUME IInv, NEW r \in Run, InOrder(r), stage[r] \in Driven, Call(r), server' = server,
         \/ /\ \/ stage[r] = "loading" /\ Proceed(r, "beginning")
               \/ stage[r] = "beginning" /\ Proceed(r, "announcing")
               \/ stage[r] = "announcing" /\ Proceed(r, "executing")
               \/ stage[r] = "closing" /\ Proceed(r, "filing")
               \/ stage[r] = "filing" /\ Proceed(r, "pruning")
         \/ /\ stage[r] \in {"loading", "executing"}
            /\ \E s \in Terminal : Finalize(r, s)
  PROVE  InOrder(r)'
<1> USE DEF IInv, TypeOK
<1>1. Coherent(r) /\ Logged(r)
  BY DEF AllCoherent, InOrder
<1>2. stage'[r] \in {"beginning", "announcing", "executing", "closing", "filing", "pruning"}
  BY DEF Proceed, Finalize
<1>3. stage'[r] = "pruning" <=> stage[r] = "filing"
  BY DEF Proceed, Finalize
<1>4. stage'[r] = "filing" <=> stage[r] = "closing"
  BY DEF Proceed, Finalize
<1>5. stage'[r] = "closing" => stage[r] \in {"loading", "executing"}
  BY DEF Proceed, Finalize
<1>6. stage[r] = "closing" => outcome'[r] = outcome[r]
  BY DEF Proceed
<1>7. Held(r)'
  BY <1>2, <1>3, CallInOrder DEF Held
<1>8. Logged(r)'
  <2>1. stage'[r] \in {"closing", "filing"} /\ row'[r] \in Terminal => row'[r] = "cancelled"
    <3>1. CASE stage'[r] = "closing"
      <4>1. row'[r] \in {"queued", "running"}
        BY <1>5, <3>1, CallLeaves
      <4> QED BY <4>1 DEF Terminal
    <3>2. CASE stage'[r] = "filing"
      BY <1>1, <1>4, <3>2, CallInOrder DEF Logged
    <3> QED BY <3>1, <3>2
  <2>2. stage'[r] = "filing" /\ Present(r)' => log'[r] # <<>> /\ Last(r)' = outcome'[r]
    BY <1>4, <1>6, CallInOrder DEF Present
  <2> QED BY <1>2, <2>1, <2>2, CallInOrder DEF Logged
<1>9. Hidden(r)'
  BY <1>2 DEF Hidden
<1> QED BY <1>7, <1>8, <1>9 DEF InOrder

\* A task that ends: its row is finished or gone, or the server is going.
LEMMA EndsInOrder ==
  ASSUME IInv, NEW r \in Run, Deregister(r),
         server' = "up" => row'[r] \notin Active,
         row'[r] \in Terminal \cup {"queued"} /\ log'[r] # <<>> => Closed(r)',
         row'[r] \in {"succeeded", "failed"} /\ log'[r] # <<>> => Last(r)' = row'[r]
  PROVE  InOrder(r)'
<1>1. stage'[r] = "none" /\ r \notin vault'
  BY DEF IInv, TypeOK, Deregister, DropSecrets
<1> QED BY <1>1 DEF InOrder, Held, Logged, Hidden

LEMMA TaskInOrder ==
  ASSUME IInv, NEW r \in Run, InOrder(r), Drive(r) \/ Killed(r)
  PROVE  InOrder(r)'
<1>0. /\ stop[r] # "none" => Stopped(r) \in Terminal
      /\ "failed" \in Terminal /\ "succeeded" \in Terminal
  BY DEF Stopped, Terminal
<1>1. Coherent(r)
  BY DEF IInv, AllCoherent
<1>2. CASE Load(r)
  <2>1. stage[r] = "loading" /\ stage[r] \in Driven /\ Call(r) /\ server' = server
    BY <1>2 DEF Load, TaskStep, Driven
  <2>2. row[r] = "queued"
    BY <1>1, <2>1 DEF Coherent
  <2>3. Proceed(r, "beginning") \/ \E s \in Terminal : Finalize(r, s)
    BY <1>0, <1>2, <2>2 DEF Load, Present
  <2> QED BY <2>1, <2>3, GoesOnInOrder
<1>3. CASE Begin(r)
  <2>1. stage[r] = "beginning" /\ stage[r] \in Driven /\ Call(r) /\ server' = server
    BY <1>3 DEF Begin, TaskStep, Driven
  <2>2. Present(r)
    BY <1>1, <2>1 DEF Coherent, Present
  <2>3. Proceed(r, "announcing")
    BY <1>3, <2>2 DEF Begin
  <2> QED BY <2>1, <2>3, GoesOnInOrder
<1>4. CASE Announce(r)
  BY <1>4, GoesOnInOrder DEF Announce, TaskStep, Driven
<1>5. CASE Execute(r)
  <2>1. stage[r] = "executing" /\ stage[r] \in Driven /\ Call(r) /\ server' = server
    BY <1>5 DEF Execute, TaskStep, Driven
  <2>2. \E s \in Terminal : Finalize(r, s)
    BY <1>0, <1>5 DEF Execute
  <2> QED BY <2>1, <2>2, GoesOnInOrder
<1>6. CASE Close(r)
  BY <1>6, GoesOnInOrder DEF Close, TaskStep, Driven, Ending
<1>7. CASE File(r)
  BY <1>7, GoesOnInOrder DEF File, TaskStep, Driven, Ending
<1>8. CASE Prune(r)
  <2>1. PICK old \in SUBSET {x \in Run : row[x] \in Terminal} :
          /\ row' = [x \in Run |-> IF x \in old THEN "gone" ELSE row[x]]
          /\ log' = [x \in Run |-> IF x \in old THEN <<>> ELSE log[x]]
    BY <1>8 DEF Prune
  <2>2. Deregister(r) /\ stage[r] = "pruning"
    BY <1>8 DEF Prune, TaskStep
  <2>3. row[r] \notin Active /\ Logged(r)
    BY <2>2 DEF InOrder, Held
  <2>4. CASE r \in old
    <3>1. row'[r] = "gone"
      BY <2>1, <2>4
    <3> QED BY <2>2, <3>1, EndsInOrder DEF Active, Terminal
  <2>5. CASE r \notin old
    <3>1. row'[r] = row[r] /\ log'[r] = log[r]
      BY <2>1, <2>5
    <3> QED BY <2>2, <2>3, <3>1, EndsInOrder DEF Logged, Last, Closed
  <2> QED BY <2>4, <2>5
<1>9. CASE Killed(r)
  <2>1. stage[r] \in Driven /\ Deregister(r) /\ server' # "up"
    BY <1>9 DEF Killed
  <2>2. CASE Call(r)
    BY <2>1, <2>2, CallInOrder, EndsInOrder
  <2>3. CASE UNCHANGED durable
    <3>1. Logged(r) /\ row' = row /\ log' = log
      BY <2>3 DEF InOrder, durable
    <3> QED BY <2>1, <3>1, EndsInOrder DEF Logged, Last, Closed
  <2> QED BY <1>9, <2>2, <2>3 DEF Killed
<1> QED BY <1>2, <1>3, <1>4, <1>5, <1>6, <1>7, <1>8, <1>9 DEF Drive

\* The handlers: submit, start, cancel, delete, retire.
LEMMA HandlerInOrder ==
  ASSUME IInv, NEW r \in Run, InOrder(r),
         \/ Submit(r) \/ Promote(r) \/ Cancel(r) \/ Cancelling(r) \/ WorkerRemoved(r)
         \/ Delete(r) \/ Retiring(r),
         faults' = faults
  PROVE  InOrder(r)'
<1> USE DEF IInv, TypeOK, durable, memory
<1>1. Coherent(r) /\ Held(r) /\ Logged(r) /\ Hidden(r)
  BY DEF AllCoherent, InOrder
\* A step that leaves the row and the log.
<1>0. ASSUME row' = row, log' = log, server' = server, Hidden(r)',
             stage'[r] \in {"doomed", "retiring"} => row[r] # "running",
             \/ stage'[r] \in {"doomed", "retiring", "loading"}
             \/ (stage'[r] = stage[r] /\ outcome'[r] = outcome[r])
      PROVE  InOrder(r)'
  <2>1. Held(r)'
    BY <1>0, <1>1 DEF Held
  <2>2. Logged(r)'
    BY <1>0, <1>1 DEF Logged, Last, Closed, Present
  <2> QED BY <1>0, <2>1, <2>2 DEF InOrder
<1>2. CASE Submit(r)
  <2>1. row'[r] = "queued" /\ log'[r] = <<>>
    BY <1>1, <1>2 DEF Submit, Coherent
  <2>2. stage[r] = "none" /\ r \notin vault
    BY <1>1, <1>2 DEF Submit, Coherent, Hidden
  <2>3. \/ server = "up" /\ stage'[r] = "waiting"
        \/ server # "up" /\ stage'[r] = "none" /\ r \notin vault'
    BY <1>2, <2>2 DEF Submit
  <2>4. server' = server
    BY <1>2 DEF Submit
  <2> QED BY <2>1, <2>3, <2>4 DEF InOrder, Held, Logged, Hidden, Active, Terminal
<1>3. CASE Promote(r)
  <2>1. stage'[r] = "loading"
    BY <1>3 DEF Promote
  <2> QED BY <1>0, <1>3, <2>1 DEF Promote, Hidden
<1>4. CASE Cancel(r)
  <2>1. row' = row /\ log' = log /\ server' = server
    BY <1>4 DEF Cancel
  <2>2. CASE stage[r] = "waiting" /\ Retire(r, "cancelled") /\ vault' = DropSecrets(r)
    <3>1. row[r] = "queued" /\ stage'[r] = "retiring" /\ r \notin vault'
      BY <1>1, <2>2 DEF Coherent, Retire, DropSecrets
    <3> QED BY <1>0, <2>1, <3>1 DEF Hidden
  <2>3. CASE stage' = stage /\ outcome' = outcome /\ vault' = vault
    BY <1>0, <1>1, <2>1, <2>3 DEF Hidden, Held
  <2> QED BY <1>4, <2>2, <2>3 DEF Cancel
<1>5. CASE CancelReads(r)
  BY <1>0, <1>1, <1>5 DEF CancelReads, Hidden, Held
<1>6. CASE CancelWrites(r)
  <2>1. /\ row'[r] = IF row[r] = "queued" THEN "cancelled" ELSE row[r]
        /\ UNCHANGED <<log, stage, outcome, vault, server>>
    BY <1>6 DEF CancelWrites, MarkFinished
  <2>2. Held(r)'
    BY <1>1, <2>1 DEF Held, Active
  <2>3. Logged(r)'
    <3>1. stage[r] = "parting" => row[r] # "queued"
      BY <1>1 DEF Logged, Coherent, Terminal
    <3> QED BY <1>1, <2>1, <3>1 DEF Logged, Last, Closed, Present, Terminal
  <2>4. Hidden(r)'
    BY <1>1, <2>1 DEF Hidden
  <2> QED BY <2>2, <2>3, <2>4 DEF InOrder
<1>7. CASE WorkerRemoved(r)
  <2>1. row[r] = "queued" /\ stage'[r] = "retiring"
    BY <1>1, <1>7 DEF WorkerRemoved, Coherent, Retire
  <2> QED BY <1>0, <1>7, <2>1 DEF WorkerRemoved, Hidden
<1>8. CASE Delete(r)
  <2>1. row'[r] = "gone" /\ stage' = stage /\ vault' = vault
    BY <1>8 DEF Delete
  <2> QED BY <1>1, <2>1 DEF InOrder, Held, Logged, Hidden, Present, Active, Terminal
<1>9. CASE RetireNext(r)
  <2>1. stage[r] = "doomed" /\ stage'[r] = "retiring" /\ r \notin vault'
    BY <1>9 DEF RetireNext, Retire, DropSecrets
  <2> QED BY <1>0, <1>1, <1>9, <2>1 DEF RetireNext, Hidden, Held
<1>10. CASE RetireFiles(r)
  <2>1. /\ stage[r] = "retiring" /\ outcome[r] \in Terminal /\ log[r] = <<>> /\ log' = log
        /\ row[r] # "running" /\ r \notin vault'
    BY <1>1, <1>10 DEF RetireFiles, Coherent, Quiet, Held, DropSecrets
  <2>2. CASE row[r] = "queued"
    <3>1. row'[r] = outcome[r] /\ stage'[r] = "parting" /\ outcome'[r] = outcome[r]
      BY <1>10, <2>2 DEF RetireFiles, MarkFinished
    <3> QED BY <2>1, <3>1 DEF InOrder, Held, Logged, Hidden
  <2>3. CASE row[r] # "queued"
    <3>1. row'[r] = row[r] /\ stage'[r] = "none"
      BY <1>10, <2>3 DEF RetireFiles, MarkFinished
    <3> QED BY <2>1, <2>3, <3>1 DEF InOrder, Held, Logged, Hidden, Active
  <2> QED BY <2>2, <2>3
<1>11. CASE RetireCloses(r)
  <2>1. /\ stage[r] = "parting" /\ outcome[r] \in Terminal /\ log[r] = <<>> /\ row' = row
        /\ stage'[r] = "none" /\ vault' = vault /\ r \notin vault
    BY <1>1, <1>11 DEF RetireCloses, Coherent, Quiet, Hidden
  <2>2. row[r] \in {outcome[r], "gone"}
    BY <1>1, <2>1 DEF Logged
  <2>3. log' = [log EXCEPT ![r] = AppendEvent(r, outcome[r])]
    <3>1. faults' # faults + 1
      OBVIOUS
    <3> QED BY <1>11, <3>1 DEF RetireCloses
  <2>4. CASE row[r] = "gone"
    BY <2>1, <2>4 DEF InOrder, Held, Logged, Hidden, Active, Terminal
  <2>5. CASE row[r] = outcome[r]
    <3>1. log'[r] = Append(log[r], outcome[r])
      BY <2>1, <2>3, <2>5 DEF AppendEvent, Present, Terminal
    <3>2. log[r] \in Seq({"start"} \cup Terminal) /\ outcome[r] \in {"start"} \cup Terminal
      BY <2>1
    <3>3. log'[r] # <<>> /\ log'[r][Len(log'[r])] = outcome[r]
      BY ONLY <3>1, <3>2, LastAppended
    <3>4. Closed(r)' /\ Last(r)' = row'[r]
      BY <2>1, <2>5, <3>3 DEF Closed, Last
    <3> QED BY <2>1, <2>5, <3>4 DEF InOrder, Held, Logged, Hidden, Active, Terminal
  <2> QED BY <2>2, <2>4, <2>5
<1> QED BY <1>2, <1>3, <1>4, <1>5, <1>6, <1>7, <1>8, <1>9, <1>10, <1>11
        DEF Cancelling, Retiring

\* The shutdown, the crash and the recovery.
LEMMA ServerInOrder ==
  ASSUME IInv, NEW r \in Run, InOrder(r), BeginShutdown \/ Crash \/ Lifecycle
  PROVE  InOrder(r)'
<1> USE DEF IInv, TypeOK, durable, memory, ServerStep
<1>1. Coherent(r) /\ Held(r) /\ Logged(r) /\ Hidden(r)
  BY DEF AllCoherent, InOrder
<1>2. CASE BeginShutdown \/ SignalRuns \/ GraceEnds
  <2>1. UNCHANGED <<row, log, stage, outcome, vault>> /\ server' # "up"
    BY <1>2 DEF BeginShutdown, SignalRuns, GraceEnds
  <2> QED BY <1>1, <2>1 DEF InOrder, Held, Logged, Hidden, Last, Closed, Present
<1>3. CASE RetireQueue
  <2>1. /\ UNCHANGED <<row, log, outcome, vault>> /\ server' # "up"
        /\ stage'[r] = IF stage[r] = "waiting" THEN "doomed" ELSE stage[r]
    BY <1>3 DEF RetireQueue
  <2>2. CASE stage[r] = "waiting"
    <3>1. row[r] = "queued"
      BY <1>1, <2>2 DEF Coherent
    <3> QED BY <1>1, <2>1, <2>2, <3>1 DEF InOrder, Held, Logged, Hidden, Last, Closed, Present
  <2>3. CASE stage[r] # "waiting"
    BY <1>1, <2>1, <2>3 DEF InOrder, Held, Logged, Hidden, Last, Closed, Present
  <2> QED BY <2>2, <2>3
<1>4. CASE ShutdownEnds \/ Crash
  <2>1. UNCHANGED <<row, log>> /\ server' # "up" /\ stage'[r] = "none" /\ vault' = {}
    BY <1>4 DEF ShutdownEnds, Crash, Forgets
  <2> QED BY <1>1, <2>1 DEF InOrder, Held, Logged, Hidden, Last, Closed, Present
<1>5. CASE Recover
  <2>1. /\ stage' = stage /\ stage[r] = "none" /\ vault' = vault
        /\ row'[r] = IF row[r] \in Active THEN "interrupted" ELSE row[r]
        /\ log'[r] = IF row[r] \in Active THEN ClosedByRecovery(r) ELSE log[r]
    BY <1>5 DEF Recover, Unfinished, Amnesia
  <2>2. CASE row[r] \in Active
    <3>1. Closed(r)'
      <4>1. CASE Closed(r)
        BY <2>1, <2>2, <4>1 DEF ClosedByRecovery, Closed
      <4>2. CASE ~Closed(r)
        <5>1. log'[r] = Append(log[r], "interrupted")
          BY <2>1, <2>2, <4>2 DEF ClosedByRecovery
        <5>2. log[r] \in Seq({"start"} \cup Terminal) /\ "interrupted" \in {"start"} \cup Terminal
          BY DEF Terminal
        <5>3. log'[r] # <<>> /\ log'[r][Len(log'[r])] = "interrupted"
          BY ONLY <5>1, <5>2, LastAppended
        <5> QED BY <5>3 DEF Closed, Terminal
      <4> QED BY <4>1, <4>2
    <3> QED BY <1>1, <2>1, <2>2, <3>1 DEF InOrder, Held, Logged, Hidden, Active
  <2>3. CASE row[r] \notin Active
    BY <1>1, <2>1, <2>3 DEF InOrder, Held, Logged, Hidden, Last, Closed
  <2> QED BY <2>2, <2>3
<1> QED BY <1>2, <1>3, <1>4, <1>5 DEF Lifecycle

\* What is deleted with a run that ended is still nobody's business.
LEMMA PruneInOrder ==
  ASSUME IInv, NEW r \in Run, Prune(r), NEW x \in Run, x # r, InOrder(x)
  PROVE  InOrder(x)'
<1> USE DEF IInv, TypeOK
<1>1. PICK old \in SUBSET {y \in Run : row[y] \in Terminal} :
        /\ row' = [y \in Run |-> IF y \in old THEN "gone" ELSE row[y]]
        /\ log' = [y \in Run |-> IF y \in old THEN <<>> ELSE log[y]]
  BY DEF Prune
<1>2. /\ stage'[x] = stage[x] /\ outcome'[x] = outcome[x] /\ server' = server
      /\ x \in vault' => x \in vault
  BY DEF Prune, TaskStep, Deregister, DropSecrets
<1>3. CASE x \in old
  <2>1. row'[x] = "gone" /\ log'[x] = <<>>
    BY <1>1, <1>3
  <2> QED BY <1>2, <2>1 DEF InOrder, Held, Logged, Hidden, Present, Active, Terminal
<1>4. CASE x \notin old
  <2>1. row'[x] = row[x] /\ log'[x] = log[x]
    BY <1>1, <1>4
  <2> QED BY <1>2, <2>1 DEF InOrder, Held, Logged, Hidden, Last, Closed, Present
<1> QED BY <1>3, <1>4

LEMMA OrderKept ==
  ASSUME Minted = {}, IInv, AllInOrder, [Next]_vars
  PROVE  AllInOrder'
<1> SUFFICES ASSUME faults' = 0 PROVE \A x \in Run : InOrder(x)'
  BY DEF AllInOrder
<1>1. ASSUME UNCHANGED <<durable, memory, server, faults>>
      PROVE  \A x \in Run : InOrder(x)'
  BY <1>1 DEF AllInOrder, InOrder, Held, Logged, Hidden, Last, Closed, Present, durable, memory
<1>2. faults \in Nat /\ (faults' = faults \/ faults' = faults + 1)
  BY DEF IInv, TypeOK, Next, vars, durable, memory, Submit, Promote, Drive, Load, Begin,
         Announce, Execute, Close, File, Prune, TaskStep, DatabaseRaises, Killed, Cancel,
         Cancelling, CancelReads, CancelWrites, WorkerRemoved, Delete, Retiring, RetireNext,
         RetireFiles, RetireCloses, RetireRaises, BeginShutdown, Crash, Lifecycle, RetireQueue,
         SignalRuns, GraceEnds, ShutdownEnds, Recover, ServerStep
<1>3. faults = 0 /\ faults' = faults /\ \A x \in Run : InOrder(x)
  BY <1>2 DEF AllInOrder
<1>4. ASSUME NEW r \in Run,
             \/ Submit(r) \/ Promote(r) \/ Drive(r) \/ Killed(r)
             \/ Cancel(r) \/ Cancelling(r) \/ WorkerRemoved(r) \/ Delete(r) \/ Retiring(r)
      PROVE  \A x \in Run : InOrder(x)'
  <2>1. InOrder(r)'
    BY <1>3, <1>4, TaskInOrder, HandlerInOrder
  <2>2. CASE Prune(r)
    BY <1>3, <2>1, <2>2, PruneInOrder
  <2>3. CASE ~Prune(r)
    <3>1. Sound(r)
      BY <1>4, <2>3, SubmitSound, PromoteSound, TaskSound, CancelSound,
         CancellingSound, WorkerRemovedSound, DeleteSound, RetiringSound DEF Drive
    <3>2. server' = server
      BY <1>4 DEF Submit, Promote, Drive, Load, Begin, Announce, Execute, Close, File, Prune,
                  TaskStep, Killed, Cancel, Cancelling, CancelReads, CancelWrites,
                  WorkerRemoved, Delete, Retiring, RetireNext, RetireFiles, RetireCloses
    <3> QED BY <1>3, <2>1, <3>1, <3>2, OthersInOrder DEF Sound
  <2> QED BY <2>2, <2>3
<1>5. ASSUME NEW r \in Run, DatabaseRaises(r) \/ RetireRaises(r) PROVE FALSE
  BY <1>3, <1>5 DEF DatabaseRaises, RetireRaises
<1>6. CASE BeginShutdown \/ Crash \/ Lifecycle
  BY <1>3, <1>6, ServerInOrder
<1>7. CASE UNCHANGED vars
  BY <1>1, <1>7 DEF vars
<1> QED BY <1>4, <1>5, <1>6, <1>7 DEF Next

THEOREM OrderInvariant ==
  ASSUME Minted = {} PROVE Spec => []AllInOrder
<1>1. Init => AllInOrder
  BY DEF Init, AllInOrder, InOrder, Held, Logged, Hidden, Active, Terminal
<1>2. IInv /\ AllInOrder /\ [Next]_vars => AllInOrder'
  BY OrderKept
<1> QED BY <1>1, <1>2, Invariant, PTL DEF Spec

\* While no database call raised, a run that executed and is finished has a
\* closing frame, and one that succeeded or failed was announced as what its
\* row says (_finalize()'s order: the frame first, then the row).
THEOREM StartedAreClosed ==
  ASSUME Minted = {} PROVE Spec => []StartedRunsAreClosed
<1>1. AllInOrder => StartedRunsAreClosed
  BY DEF AllInOrder, InOrder, Logged, Last, StartedRunsAreClosed
<1> QED BY <1>1, OrderInvariant, PTL

\* While no database call raised and the server runs, every queued or running
\* row belongs to a run in the queue, in the registry or on its way out.
THEOREM UnfinishedAreHeld ==
  ASSUME Minted = {} PROVE Spec => []UnfinishedRunsAreHeld
<1>1. AllInOrder => UnfinishedRunsAreHeld
  BY DEF AllInOrder, InOrder, Held, UnfinishedRunsAreHeld, NobodysRun
<1> QED BY <1>1, OrderInvariant, PTL

\* While no database call raised, the secrets of a run are gone when the
\* service no longer holds it.
THEOREM SecretsGone ==
  ASSUME Minted = {} PROVE Spec => []SecretsAreDropped
<1>1. IInv /\ AllInOrder => SecretsAreDropped
  BY DEF IInv, TypeOK, AllInOrder, InOrder, Hidden, SecretsAreDropped
<1> QED BY <1>1, Invariant, OrderInvariant, PTL
=============================================================================
