-------------------------- MODULE WorkerLinkProofs --------------------------
(* Proofs that the link between the server and an agent loses no frame, for *)
(* any number of runs, frames, connections and crashes.                     *)
EXTENDS WorkerLink, LineTheorems

----------------------------------------------------------------------------
(* Operators *)

LEMMA MaxOfTwo ==
  ASSUME NEW a \in Nat, NEW b \in Nat
  PROVE  Max({a, b}) = IF a >= b THEN a ELSE b
<1>0. IsFiniteSet({a}) /\ {a, b} = {a} \cup {b}
  BY FS_Singleton
<1>1. IsFiniteSet({a, b}) /\ {a, b} \in SUBSET Nat /\ {a, b} # {}
  BY <1>0, FS_AddElement
<1> DEFINE m == Max({a, b})
<1>2. m \in {a, b} /\ \A x \in {a, b} : x <= m
  BY <1>1, MaxOfFinite
<1> HIDE DEF m
<1> QED BY <1>2 DEF m

LEMMA SeqsAreNats == Seqs \subseteq 0 .. MaxSeq /\ 0 .. MaxSeq \subseteq Nat /\ IsFiniteSet(Seqs)
<1>1. MaxSeq \in Nat
  BY BoundsType
<1>2. IsFiniteSet(1 .. MaxSeq)
  BY <1>1, FS_Interval
<1> QED BY <1>1, <1>2 DEF Seqs

\* The least of a set of frames.
LEMMA NextOfBatch ==
  ASSUME NEW B \in SUBSET Seqs, B # {}
  PROVE  Min(B) \in B /\ \A x \in B : Min(B) <= x
<1>1. B \in SUBSET Nat /\ IsFiniteSet(B)
  BY SeqsAreNats, FS_Subset
<1> QED BY <1>1, MinOfNats

\* A finite set written as a sequence is one of its elements.
LEMMA SetAsSeq ==
  ASSUME NEW S, IsFiniteSet(S)
  PROVE  SetToSeq(S) \in Seq(S)
<1>1. PICK n \in Nat : ExistsBijection(1 .. n, S)
  BY FS_NatBijection
<1>2. Cardinality(S) = n
  BY <1>1, FS_CountingElements
<1>3. PICK f \in Bijection(1 .. n, S) : TRUE
  BY <1>1 DEF ExistsBijection
<1>4. f \in [1 .. n -> S] /\ IsInjective(f)
  BY <1>3 DEF Bijection, Injection, IsInjective
<1>5. SetToSeq(S) \in [1 .. n -> S]
  BY <1>2, <1>4 DEF SetToSeq
<1> QED BY <1>5

LEMMA OrdersAsSeq ==
  ASSUME NEW S, IsFiniteSet(S), NEW s \in SetToSeqs(S)
  PROVE  s \in Seq(S)
<1>1. Cardinality(S) \in Nat
  BY FS_CardinalityType
<1>2. s \in [1 .. Cardinality(S) -> S]
  BY DEF SetToSeqs
<1> QED BY <1>1, <1>2

\* Frames and what the server says.
LEMMA FrameReads ==
  ASSUME NEW f \in Upward
  PROVE  /\ f.kind = "frame" => f.run \in Run /\ f.seq \in Seqs /\ f = Frame(f.run, f.seq)
         /\ f.kind = "alive" => f.runs \subseteq Run /\ \A r, n : f # Frame(r, n)
         /\ f.kind \in {"frame", "alive"}
  BY DEF Upward, Frame, Alive

LEMMA OrderReads ==
  ASSUME NEW f \in Downward
  PROVE  /\ f.run \in Run /\ f.kind \in {"ack", "assign", "cancel"}
         /\ f.kind = "ack" => f.seq \in Seqs /\ f = Ack(f.run, f.seq)
         /\ f.kind = "assign" => f = Assign(f.run)
         /\ f.kind = "cancel" => f = Cancel(f.run)
  BY DEF Downward, Ack, Assign, Cancel

LEMMA ItemReads ==
  ASSUME NEW f \in Items
  PROVE  /\ f.kind \in {"frame", "away", "back", "gone"}
         /\ f.kind = "frame" => f.seq \in Seqs
  BY DEF Items

LEMMA MessageTypes ==
  /\ \A r \in Run, n \in Seqs : Frame(r, n) \in Upward /\ Ack(r, n) \in Downward
  /\ \A S \in SUBSET Run : Alive(S) \in Upward
  /\ \A r \in Run : Assign(r) \in Downward /\ Cancel(r) \in Downward
  /\ \A n \in Seqs : [kind |-> "frame", seq |-> n] \in Items
  /\ \A k \in {"away", "back", "gone"} : [kind |-> k, seq |-> 0] \in Items
  BY DEF Upward, Downward, Items

\* The last frame the sinks have, or said they had.
LEMMA RecordedIs ==
  ASSUME TypeOK, NEW r \in Run
  PROVE  /\ log[r] = <<>> => Recorded(r) = persisted[r]
         /\ log[r] # <<>> => /\ Last(log[r]) \in Seqs
                             /\ Recorded(r) = IF Last(log[r]) >= persisted[r]
                                              THEN Last(log[r]) ELSE persisted[r]
         /\ persisted[r] <= Recorded(r) /\ Recorded(r) \in 0 .. MaxSeq
<1>1. log[r] \in Seq(Seqs) /\ persisted[r] \in 0 .. MaxSeq
  BY DEF TypeOK
<1>2. log[r] # <<>> => Last(log[r]) \in Seqs
  BY <1>1 DEF Last
<1>3. ASSUME log[r] # <<>>
      PROVE  Recorded(r) = IF Last(log[r]) >= persisted[r] THEN Last(log[r]) ELSE persisted[r]
  <2>1. Last(log[r]) \in Nat /\ persisted[r] \in Nat
    BY <1>1, <1>2, <1>3, SeqsAreNats
  <2>2. Max({Last(log[r]), persisted[r]})
          = IF Last(log[r]) >= persisted[r] THEN Last(log[r]) ELSE persisted[r]
    BY <2>1, MaxOfTwo
  <2> QED BY <1>3, <2>2 DEF Recorded
<1>4. log[r] = <<>> => Recorded(r) = persisted[r]
  BY DEF Recorded
<1>5. persisted[r] \in Nat /\ (log[r] # <<>> => Last(log[r]) \in Nat)
  BY <1>1, <1>2, SeqsAreNats
<1>6. persisted[r] <= Recorded(r) /\ Recorded(r) \in 0 .. MaxSeq
  <2>1. CASE log[r] = <<>>
    BY <1>1, <1>4, <1>5, <2>1
  <2>2. CASE log[r] # <<>>
    <3>1. Last(log[r]) \in 0 .. MaxSeq
      BY <1>2, <2>2, SeqsAreNats
    <3> QED BY <1>1, <1>3, <1>5, <2>2, <3>1
  <2> QED BY <2>1, <2>2
<1> QED BY <1>2, <1>3, <1>4, <1>6

----------------------------------------------------------------------------
(* The inductive invariant *)

\* Who is connected: what travels does so on the connection that the agent
\* and the registry both mean, and a closed socket holds nothing.
Connected ==
  /\ whole => ws # 0 /\ cur = ws /\ ws \in handler
  /\ ws <= dialled /\ cur <= dialled /\ \A k \in handler : k <= dialled
  /\ \A k \in Conn \ handler : up[k] = <<>>
  /\ ~online /\ cur \in handler => awaiting = {}

\* A run is assigned once, and makes no frame before.
Assigned(r) ==
  /\ stage[r] = "queued" => handle[r] = "none" /\ \A i \in DOMAIN down : down[i] # Assign(r)
  /\ \A i \in DOMAIN down : down[i] = Assign(r) =>
       handle[r] = "none" /\ \A j \in DOMAIN down : down[j] = Assign(r) => j = i
  /\ handle[r] = "none" => seq[r] = 0
  /\ handle[r] = "running" => seq[r] < MaxSeq

\* Nothing is sent, received or acknowledged that the run has not made.
Made(r) ==
  /\ spool[r].sent <= seq[r] /\ spool[r].acked <= seq[r]
  /\ last[r] <= seq[r] /\ persisted[r] <= seq[r]
  /\ \A k \in Conn : \A i \in DOMAIN up[k] : \A n \in Seqs :
       up[k][i] = Frame(r, n) => n <= seq[r]
  /\ \A i \in DOMAIN down : \A n \in Seqs : down[i] = Ack(r, n) => n <= seq[r]

\* The spool holds what the run made, but for failed appends.
Spooled(r) ==
  /\ \A m \in spool[r].pending : m <= seq[r]
  /\ handle[r] = "running" \/ spool[r].open =>
       \A m \in 1 .. seq[r] : m \in spool[r].pending \/ <<r, m>> \in unspooled

\* A batch of the replay leaves nothing out.
BatchIsWhole ==
  batch # {} =>
    /\ todo # <<>>
    /\ \A b \in batch :
         /\ b <= seq[Head(todo)]
         /\ \A m \in 1 .. b - 1 :
              \/ m <= spool[Head(todo)].sent \/ m \in batch
              \/ m <= spool[Head(todo)].acked \/ <<Head(todo), m>> \in unspooled

\* What waits in the inbox is in order, past what is recorded.
Item(n) == [kind |-> "frame", seq |-> n]
InboxInOrder(r) ==
  stage[r] # "filed" =>
    /\ Recorded(r) <= last[r]
    /\ \A i \in DOMAIN inbox[r] : inbox[r][i].kind = "frame" =>
         /\ Recorded(r) < inbox[r][i].seq /\ inbox[r][i].seq <= last[r]
         /\ \A j \in DOMAIN inbox[r] : i < j /\ inbox[r][j].kind = "frame" =>
              inbox[r][i].seq < inbox[r][j].seq

\* Of a served run nothing is missing up to the last frame received, ...
Covered(r, m) == m \in KeptOrLost(r) \/ \E i \in DOMAIN inbox[r] : inbox[r][i] = Item(m)
Gapless(r) ==
  stage[r] = "serving" /\ r \notin revived => \A m \in 1 .. last[r] : Covered(r, m)

\* ... what was acknowledged is persisted, and the connection carries what
\* follows without a gap.
Travels(r, k, m, i) == \E j \in 1 .. i : up[k][j] = Frame(r, m)
Contiguous(r) ==
  r \in tracked /\ r \notin revived =>
    /\ spool[r].acked <= persisted[r]
    /\ \A i \in DOMAIN down : \A n \in Seqs : down[i] = Ack(r, n) => n <= persisted[r]
    /\ cur # 0 => \A i \in DOMAIN up[cur] : \A n \in Seqs : up[cur][i] = Frame(r, n) =>
         \A m \in 1 .. n - 1 : Covered(r, m) \/ Travels(r, cur, m, i - 1)
    /\ whole => \A m \in 1 .. spool[r].sent : Covered(r, m) \/ Travels(r, cur, m, Len(up[cur]))

\* A run reported as finished is over on the agent, and complete.
Finished(r) ==
  /\ result[r] = "finished" =>
       /\ handle[r] = "over" /\ stage[r] \in {"reported", "filed"}
       /\ r \notin revived => 1 .. seq[r] \subseteq KeptOrLost(r)
  /\ stage[r] = "filed" => log[r] = <<>>

IInv ==
  /\ TypeOK /\ ServedRunsAreTracked /\ Connected /\ BatchIsWhole
  /\ \A r \in Run : /\ Assigned(r) /\ Made(r) /\ Spooled(r) /\ InboxInOrder(r)
                    /\ Gapless(r) /\ Contiguous(r) /\ Finished(r)

----------------------------------------------------------------------------
(* Types *)

SpoolType == [open : BOOLEAN, pending : SUBSET Seqs, acked : 0 .. MaxSeq,
              sent : 0 .. MaxSeq, final : 0 .. MaxSeq]

AgentTypes ==
  /\ handle \in [Run -> {"none", "running", "over", "lost"}]
  /\ cancelling \subseteq Run
  /\ seq \in [Run -> 0 .. MaxSeq]
  /\ spool \in [Run -> SpoolType]
  /\ unspooled \subseteq Run \X Seqs

NetTypes ==
  /\ ws \in 0 .. MaxConns /\ dialled \in 0 .. MaxConns /\ whole \in BOOLEAN
  /\ swapped \subseteq Run
  /\ todo \in Seq(Run) /\ batch \subseteq Seqs /\ dead \in BOOLEAN
  /\ up \in [Conn -> Seq(Upward)] /\ handler \subseteq Conn

RegistryTypes ==
  /\ cur \in 0 .. MaxConns /\ online \in BOOLEAN
  /\ tracked \subseteq Run /\ awaiting \subseteq tracked /\ detached \subseteq tracked
  /\ last \in [Run -> 0 .. MaxSeq] /\ aliveDue \in BOOLEAN
  /\ late \subseteq Run \X (0 .. MaxSeq)
  /\ inbox \in [Run -> Seq(Items)]

ExecutorTypes ==
  /\ stage \in [Run -> {"queued", "serving", "reported", "filed"}]
  /\ result \in [Run -> {"none", "finished", "interrupted", "cancelled"}]
  /\ revived \subseteq Run
  /\ log \in [Run -> Seq(Seqs)]
  /\ stored \subseteq Run \X Seqs /\ persisted \in [Run -> 0 .. MaxSeq]
  /\ stop \subseteq Run /\ told \subseteq Run

FaultTypes ==
  crashes \in 0 .. MaxCrashes /\ faults \in 0 .. MaxFaults /\ down \in Seq(Downward)

LEMMA TypesAre ==
  TypeOK <=> AgentTypes /\ NetTypes /\ RegistryTypes /\ ExecutorTypes /\ FaultTypes
BY DEF TypeOK, AgentTypes, SpoolType, NetTypes, RegistryTypes, ExecutorTypes, FaultTypes

LEMMA TypesWere == TypeOK' <=> AgentTypes' /\ NetTypes' /\ RegistryTypes' /\ ExecutorTypes' /\ FaultTypes'
BY TypesAre, PTL

LEMMA AppliesType ==
  ASSUME NEW s \in SpoolType, NEW n \in Seqs
  PROVE  /\ Applies(s, n) \in SpoolType
         /\ Applies(s, n).pending = s.pending /\ Applies(s, n).sent = s.sent
         /\ Applies(s, n).acked = IF s.acked >= n THEN s.acked ELSE n
<1>1. s.acked \in Nat /\ n \in Nat /\ n \in 0 .. MaxSeq /\ s.acked \in 0 .. MaxSeq
  BY SeqsAreNats DEF SpoolType
<1>2. Max({s.acked, n}) = IF s.acked >= n THEN s.acked ELSE n
  BY <1>1, MaxOfTwo
<1>3. Max({s.acked, n}) \in 0 .. MaxSeq
  BY <1>1, <1>2
<1> QED BY <1>2, <1>3 DEF Applies, SpoolType

\* A frame leaves, or is swallowed.
LEMMA SendUpTo ==
  ASSUME TypeOK, NEW r \in Run, NEW n \in Seqs, SendUp(Frame(r, n)), ws # 0
  PROVE  /\ up' = IF whole THEN [up EXCEPT ![ws] = Append(up[ws], Frame(r, n))] ELSE up
         /\ up' \in [Conn -> Seq(Upward)] /\ ws \in Conn
<1>1. ws \in Conn
  BY BoundsType DEF TypeOK, Conn
<1>2. Frame(r, n) \in Upward
  BY MessageTypes
<1>3. up \in [Conn -> Seq(Upward)]
  BY DEF TypeOK
<1>4. up' = IF whole THEN [up EXCEPT ![ws] = Append(up[ws], Frame(r, n))] ELSE up
  BY DEF SendUp
<1>5. Append(up[ws], Frame(r, n)) \in Seq(Upward)
  BY <1>1, <1>2, <1>3
<1> QED BY <1>1, <1>3, <1>4, <1>5

LEMMA SendDownTo ==
  ASSUME TypeOK, NEW k, NEW fs \in Seq(Downward), SendDown(k, fs)
  PROVE  down' \in Seq(Downward) /\ (down' = down \/ (k = ws /\ whole /\ down' = down \o fs))
<1>1. down \in Seq(Downward)
  BY DEF TypeOK
<1>2. down \o fs \in Seq(Downward)
  BY <1>1, ConcatProperties
<1> QED BY <1>1, <1>2 DEF SendDown

LEMMA OneOrder == ASSUME NEW f \in Downward PROVE <<f>> \in Seq(Downward)
  OBVIOUS

\* A run makes its next frame.
LEMMA EmitMoves ==
  ASSUME TypeOK, NEW r \in Run, Assigned(r), Report(r) \/ Finish(r)
  PROVE  /\ handle[r] = "running" /\ seq[r] + 1 \in Seqs /\ seq' = [seq EXCEPT ![r] = seq[r] + 1]
         /\ spool' \in [Run -> SpoolType] /\ seq' \in [Run -> 0 .. MaxSeq]
         /\ handle' \in [Run -> {"none", "running", "over", "lost"}]
         /\ \A x \in Run \ {r} : spool'[x] = spool[x] /\ handle'[x] = handle[x]
         /\ handle'[r] \in {"running", "over"} /\ (handle'[r] = "running" => seq[r] + 1 < MaxSeq)
         /\ spool'[r].acked = spool[r].acked
         /\ spool'[r].sent = IF SendsNow(r, seq[r] + 1) THEN seq[r] + 1 ELSE spool[r].sent
         /\ unspooled \subseteq unspooled' /\ unspooled' \subseteq unspooled \cup {<<r, seq[r] + 1>>}
         /\ spool[r].pending \subseteq spool'[r].pending
         /\ spool'[r].pending \subseteq spool[r].pending \cup {seq[r] + 1}
         /\ seq[r] + 1 \in spool'[r].pending \/ <<r, seq[r] + 1>> \in unspooled'
         /\ IF SendsNow(r, seq[r] + 1) THEN SendUp(Frame(r, seq[r] + 1)) ELSE up' = up
         /\ faults' \in 0 .. MaxFaults
         /\ UNCHANGED <<cancelling, replayVars, ws, dialled, swapped, whole, down, handler,
                        registryVars, inbox, executorVars, crashes, revived>>
<1>0. PICK final \in BOOLEAN : Emit(r, final)
  BY DEF Report, Finish
<1>1. handle[r] = "running" /\ seq[r] \in 0 .. MaxSeq /\ seq[r] < MaxSeq /\ MaxSeq \in Nat
  BY <1>0, BoundsType DEF Emit, Assigned, TypeOK
<1>2. seq[r] + 1 \in Seqs /\ seq[r] + 1 \in 0 .. MaxSeq
  BY <1>1 DEF Seqs
<1>3. /\ seq' = [seq EXCEPT ![r] = seq[r] + 1] /\ seq' \in [Run -> 0 .. MaxSeq]
      /\ UNCHANGED <<cancelling, replayVars, ws, dialled, swapped, whole, down, handler,
                     registryVars, inbox, executorVars, crashes, revived>>
      /\ IF SendsNow(r, seq[r] + 1) THEN SendUp(Frame(r, seq[r] + 1)) ELSE up' = up
  BY <1>0, <1>2 DEF Emit, TypeOK
<1>4. /\ handle' \in [Run -> {"none", "running", "over", "lost"}]
      /\ \A x \in Run \ {r} : handle'[x] = handle[x]
      /\ handle'[r] \in {"running", "over"} /\ (handle'[r] = "running" => seq[r] + 1 < MaxSeq)
  BY <1>1 DEF Report, Finish, TypeOK
<1>5. faults' \in 0 .. MaxFaults
  <2>1. faults' = faults \/ (faults < MaxFaults /\ faults' = faults + 1)
    BY <1>0 DEF Emit
  <2>2. faults \in 0 .. MaxFaults /\ MaxFaults \in Nat
    BY BoundsType DEF TypeOK
  <2> QED BY <2>1, <2>2
<1> DEFINE n == seq[r] + 1
           now == SendsNow(r, n)
<1>6. spool[r] \in SpoolType /\ spool \in [Run -> SpoolType] /\ now \in BOOLEAN
  BY TypesAre DEF AgentTypes, SendsNow
<1>7. \/ /\ spool' = [spool EXCEPT ![r] = Keeps(spool[r], n, final, now)]
         /\ unspooled' = unspooled
      \/ /\ spool' = [spool EXCEPT ![r].open = TRUE, ![r].sent = IF now THEN n ELSE @]
         /\ unspooled' = unspooled \cup {<<r, n>>}
  BY <1>0 DEF Emit
<1> HIDE DEF n, now
<1>8. n \in Seqs /\ n \in 0 .. MaxSeq
  BY <1>2 DEF n
<1>9. /\ spool' \in [Run -> SpoolType] /\ \A x \in Run \ {r} : spool'[x] = spool[x]
      /\ spool'[r].acked = spool[r].acked
      /\ spool'[r].sent = IF now THEN n ELSE spool[r].sent
      /\ unspooled \subseteq unspooled' /\ unspooled' \subseteq unspooled \cup {<<r, n>>}
      /\ spool[r].pending \subseteq spool'[r].pending
      /\ spool'[r].pending \subseteq spool[r].pending \cup {n}
      /\ n \in spool'[r].pending \/ <<r, n>> \in unspooled'
  <2>1. CASE spool' = [spool EXCEPT ![r] = Keeps(spool[r], n, final, now)] /\ unspooled' = unspooled
    <3>1. PICK f \in 0 .. MaxSeq, t \in 0 .. MaxSeq :
            /\ t = IF now THEN n ELSE spool[r].sent
            /\ spool'[r] = [spool[r] EXCEPT !.open = TRUE, !.pending = spool[r].pending \cup {n},
                                           !.final = f, !.sent = t]
      <4> DEFINE f == IF final THEN n ELSE spool[r].final
                 t == IF now THEN n ELSE spool[r].sent
      <4>1. f \in 0 .. MaxSeq /\ t \in 0 .. MaxSeq
        BY <1>6, <1>8 DEF SpoolType
      <4>2. spool'[r] = [spool[r] EXCEPT !.open = TRUE, !.pending = spool[r].pending \cup {n},
                                        !.final = f, !.sent = t]
        BY <1>6, <2>1 DEF Keeps
      <4> QED BY <4>1, <4>2
    <3>2. /\ spool'[r] \in SpoolType /\ spool'[r].pending = spool[r].pending \cup {n}
          /\ spool'[r].acked = spool[r].acked
          /\ spool'[r].sent = IF now THEN n ELSE spool[r].sent
      <4>1. spool[r].pending \cup {n} \in SUBSET Seqs
        BY <1>6, <1>8 DEF SpoolType
      <4> QED BY <1>6, <3>1, <4>1 DEF SpoolType
    <3>3. spool' \in [Run -> SpoolType] /\ \A x \in Run \ {r} : spool'[x] = spool[x]
      <4>1. spool' = [spool EXCEPT ![r] = spool'[r]]
        BY <1>6, <2>1
      <4> QED BY <1>6, <3>2, <4>1
    <3> QED BY <2>1, <3>2, <3>3
  <2>2. CASE /\ spool' = [spool EXCEPT ![r].open = TRUE, ![r].sent = IF now THEN n ELSE @]
             /\ unspooled' = unspooled \cup {<<r, n>>}
    <3>1. spool'[r] = [spool[r] EXCEPT !.open = TRUE, !.sent = IF now THEN n ELSE spool[r].sent]
      BY <1>6, <2>2
    <3>2. spool'[r] \in SpoolType
      BY <1>6, <1>8, <3>1 DEF SpoolType
    <3>3. /\ spool'[r].acked = spool[r].acked /\ spool'[r].pending = spool[r].pending
          /\ spool'[r].sent = IF now THEN n ELSE spool[r].sent
      BY <1>6, <3>1 DEF SpoolType
    <3> QED BY <1>6, <2>2, <3>2, <3>3
  <2> QED BY <1>7, <2>1, <2>2
<1> QED BY <1>1, <1>2, <1>3, <1>4, <1>5, <1>9 DEF n, now

\* The agent reads what the server said.
LEMMA ReceiveMoves ==
  ASSUME TypeOK, AgentReceives
  PROVE  /\ down # <<>> /\ Head(down) \in Downward /\ Head(down) = down[1] /\ down' = Tail(down)
         /\ spool' \in [Run -> SpoolType]
         /\ \A x \in Run :
              /\ spool'[x].pending = spool[x].pending /\ spool'[x].sent = spool[x].sent
              /\ spool'[x].open => spool[x].open
              /\ \/ spool'[x].acked = spool[x].acked
                 \/ \E n \in Seqs : /\ Head(down) = Ack(x, n)
                                    /\ spool'[x].acked \in {spool[x].acked, n}
              /\ spool'[x].acked >= spool[x].acked
         /\ handle' = IF Head(down).kind = "assign"
                      THEN [handle EXCEPT ![Head(down).run] = "running"] ELSE handle
         /\ UNCHANGED <<seq, unspooled, replayVars, ws, dialled, swapped, whole, up, handler,
                        registryVars, inbox, executorVars, faultVars>>
<1>1. down \in Seq(Downward) /\ down # <<>> /\ spool \in [Run -> SpoolType]
  BY TypesAre DEF AgentReceives, AgentTypes, FaultTypes
<1>2. Head(down) \in Downward /\ Head(down) = down[1]
  BY <1>1
<1>3. PICK f \in Downward : f = Head(down)
  BY <1>2
<1>4. /\ down' = Tail(down)
      /\ spool' = IF f.kind = "ack" /\ spool[f.run].open
                  THEN [spool EXCEPT ![f.run] = Applies(spool[f.run], f.seq)] ELSE spool
      /\ handle' = IF f.kind = "assign" THEN [handle EXCEPT ![f.run] = "running"] ELSE handle
      /\ UNCHANGED <<seq, unspooled, replayVars, ws, dialled, swapped, whole, up, handler,
                     registryVars, inbox, executorVars, faultVars>>
  BY <1>3 DEF AgentReceives
<1>5. \A x \in Run : spool[x].acked \in Nat
  BY <1>1, SeqsAreNats DEF SpoolType
<1>6. CASE f.kind = "ack" /\ spool[f.run].open
  <2>1. f.run \in Run /\ f.seq \in Seqs /\ f = Ack(f.run, f.seq)
    BY <1>6, OrderReads
  <2> DEFINE s == Applies(spool[f.run], f.seq)
  <2>2. /\ s \in SpoolType /\ s.pending = spool[f.run].pending /\ s.sent = spool[f.run].sent
        /\ s.acked = IF spool[f.run].acked >= f.seq THEN spool[f.run].acked ELSE f.seq
    BY <1>1, <2>1, AppliesType
  <2>3. spool' = [spool EXCEPT ![f.run] = s]
    BY <1>4, <1>6
  <2> HIDE DEF s
  <2>4. f.seq \in Nat
    BY <2>1, SeqsAreNats
  <2>5. s.acked \in {spool[f.run].acked, f.seq} /\ s.acked >= spool[f.run].acked
    BY <1>5, <2>1, <2>2, <2>4
  <2>6. spool' \in [Run -> SpoolType] /\ spool'[f.run] = s
    BY <1>1, <2>1, <2>2, <2>3
  <2>7. \A x \in Run \ {f.run} : spool'[x] = spool[x]
    BY <1>1, <2>3
  <2>8. ASSUME NEW x \in Run
        PROVE  /\ spool'[x].pending = spool[x].pending /\ spool'[x].sent = spool[x].sent
               /\ spool'[x].open => spool[x].open
               /\ \/ spool'[x].acked = spool[x].acked
                  \/ \E n \in Seqs : /\ f = Ack(x, n)
                                     /\ spool'[x].acked \in {spool[x].acked, n}
               /\ spool'[x].acked >= spool[x].acked
    <3>1. CASE x = f.run
      BY <1>6, <2>1, <2>2, <2>5, <2>6, <3>1
    <3>2. CASE x # f.run
      BY <1>5, <2>7, <3>2
    <3> QED BY <3>1, <3>2
  <2> QED BY <1>1, <1>2, <1>3, <1>4, <2>6, <2>8
<1>7. CASE ~(f.kind = "ack" /\ spool[f.run].open)
  <2>1. spool' = spool
    BY <1>4, <1>7
  <2>2. ASSUME NEW x \in Run
        PROVE  /\ spool'[x].pending = spool[x].pending /\ spool'[x].sent = spool[x].sent
               /\ spool'[x].open => spool[x].open
               /\ spool'[x].acked = spool[x].acked /\ spool'[x].acked >= spool[x].acked
    BY <1>5, <2>1
  <2>3. spool' \in [Run -> SpoolType]
    BY <1>1, <2>1
  <2> QED BY <1>1, <1>2, <1>3, <1>4, <2>2, <2>3
<1> QED BY <1>6, <1>7

LEMMA ReplaySendMoves ==
  ASSUME TypeOK, ReplaySend, todo # <<>>
  PROVE  /\ Head(todo) \in Run /\ Min(batch) \in batch /\ batch' = batch \ {Min(batch)}
         /\ \A b \in batch : Min(batch) <= b
         /\ spool' \in [Run -> SpoolType] /\ \A x \in Run \ {Head(todo)} : spool'[x] = spool[x]
         /\ spool'[Head(todo)].pending = spool[Head(todo)].pending
         /\ spool'[Head(todo)].acked = spool[Head(todo)].acked
         /\ spool'[Head(todo)].open = spool[Head(todo)].open
         /\ IF Min(batch) <= spool[Head(todo)].sent
            THEN spool' = spool /\ up' = up
            ELSE spool'[Head(todo)].sent = Min(batch) /\ SendUp(Frame(Head(todo), Min(batch)))
         /\ UNCHANGED <<handle, cancelling, seq, unspooled, todo, dead, ws, dialled, swapped, whole,
                        down, handler, registryVars, inbox, executorVars, faultVars>>
<1>1. batch # {} /\ batch \in SUBSET Seqs /\ spool \in [Run -> SpoolType] /\ todo \in Seq(Run)
  BY TypesAre DEF ReplaySend, AgentTypes, NetTypes
<1>2. Min(batch) \in batch /\ \A b \in batch : Min(batch) <= b
  BY <1>1, NextOfBatch
<1>3. PICK r \in Run, n \in Seqs : r = Head(todo) /\ n = Min(batch)
  BY <1>1, <1>2
<1>4. /\ batch' = batch \ {n}
      /\ IF n <= spool[r].sent THEN spool' = spool /\ up' = up
         ELSE spool' = [spool EXCEPT ![r].sent = n] /\ SendUp(Frame(r, n))
      /\ UNCHANGED <<handle, cancelling, seq, unspooled, todo, dead, ws, dialled, swapped, whole,
                     down, handler, registryVars, inbox, executorVars, faultVars>>
  BY <1>3 DEF ReplaySend
<1>5. CASE n <= spool[r].sent
  BY <1>1, <1>2, <1>3, <1>4, <1>5
<1>6. CASE ~(n <= spool[r].sent)
  <2>1. spool'[r] = [spool[r] EXCEPT !.sent = n] /\ n \in 0 .. MaxSeq
    BY <1>1, <1>3, <1>4, <1>6, SeqsAreNats
  <2>2. /\ spool'[r] \in SpoolType /\ spool'[r].pending = spool[r].pending
        /\ spool'[r].acked = spool[r].acked /\ spool'[r].open = spool[r].open /\ spool'[r].sent = n
    BY <1>1, <2>1 DEF SpoolType
  <2>3. spool' = [spool EXCEPT ![r] = spool'[r]]
    BY <1>1, <1>4, <1>6
  <2>4. spool' \in [Run -> SpoolType] /\ \A x \in Run \ {r} : spool'[x] = spool[x]
    BY <1>1, <2>2, <2>3
  <2> QED BY <1>2, <1>3, <1>4, <1>6, <2>2, <2>4
<1> QED BY <1>5, <1>6

LEMMA AgentTyped ==
  ASSUME TypeOK, BatchIsWhole, \A r \in Run : Assigned(r), [Next]_vars
  PROVE  AgentTypes'
<1> USE DEF agentVars
<1>0. AgentTypes
  BY TypesAre
<1>1. ASSUME NEW r \in Run, Report(r) \/ Finish(r) PROVE AgentTypes'
  <2>1. Assigned(r)
    OBVIOUS
  <2>2. /\ handle' \in [Run -> {"none", "running", "over", "lost"}]
        /\ seq' \in [Run -> 0 .. MaxSeq] /\ spool' \in [Run -> SpoolType]
    BY <1>1, <2>1, EmitMoves
  <2>3. /\ cancelling' = cancelling /\ seq[r] + 1 \in Seqs
        /\ unspooled' \subseteq unspooled \cup {<<r, seq[r] + 1>>}
    BY <1>1, <2>1, EmitMoves
  <2> QED BY <1>0, <2>2, <2>3 DEF AgentTypes
<1>2. CASE ReplaySend
  BY <1>0, <1>2, ReplaySendMoves DEF AgentTypes, BatchIsWhole, ReplaySend
<1>3. CASE AgentReceives
  <2>1. Head(down).run \in Run
    BY <1>3, ReceiveMoves, OrderReads
  <2>2. handle' \in [Run -> {"none", "running", "over", "lost"}]
    BY <1>0, <1>3, <2>1, ReceiveMoves DEF AgentTypes
  <2>3. cancelling' \subseteq Run
    BY <1>0, <1>3, <2>1 DEF AgentTypes, AgentReceives
  <2> QED BY <1>0, <1>3, <2>2, <2>3, ReceiveMoves DEF AgentTypes
<1>4. CASE Dial
  BY <1>0, <1>4 DEF AgentTypes, Dial, Announces, SpoolType
<1>5. CASE AgentRestarts
  BY <1>0, <1>5 DEF AgentTypes, AgentRestarts, SpoolType
<1>6. CASE UNCHANGED agentVars
  BY <1>0, <1>6 DEF AgentTypes
<1>7. ASSUME NEW r \in Run, \/ Start(r) \/ Take(r) \/ Flush(r) \/ ServeRaises(r)
                            \/ Stop(r) \/ ForwardCancel(r) \/ File(r) \/ GraceOver(r)
      PROVE  UNCHANGED agentVars
  BY <1>7 DEF Start, Take, Flush, ServeRaises, Stop, ForwardCancel, File, GraceOver
<1>8. ASSUME NEW k \in Conn, HandlerEnds(k) \/ ServerReceives(k) PROVE UNCHANGED agentVars
  BY <1>8 DEF HandlerEnds, ServerReceives
<1>9. CASE ReplayRead \/ Drop \/ AgentNotices \/ HeartbeatsMissed \/ AliveMissing \/ Heartbeat \/ Crash
  BY <1>6, <1>9 DEF ReplayRead, Drop, AgentNotices, HeartbeatsMissed, AliveMissing, Heartbeat, Crash
<1>10. CASE UNCHANGED vars
  BY <1>6, <1>10 DEF vars
<1> QED BY <1>1, <1>2, <1>3, <1>4, <1>5, <1>6, <1>7, <1>8, <1>9, <1>10 DEF Next

\* One frame read by a socket handler.
LEMMA ServerReads ==
  ASSUME TypeOK, NEW k \in Conn, ServerReceives(k)
  PROVE  /\ k \in handler /\ up[k] # <<>> /\ up[k][1] \in Upward
         /\ up' = [up EXCEPT ![k] = Tail(up[k])] /\ up' \in [Conn -> Seq(Upward)]
         /\ \/ \E R \in SUBSET Run : up[k][1] = Alive(R) /\ ReceiveAlive(k, R)
            \/ \E r \in Run, n \in Seqs :
                 /\ up[k][1] = Frame(r, n) /\ ReceiveFrame(k, r, n)
                 /\ UNCHANGED <<cur, online, tracked, awaiting, detached, aliveDue>>
         /\ UNCHANGED <<agentVars, replayVars, ws, dialled, swapped, whole, handler, executorVars,
                        faultVars>>
<1>1. up \in [Conn -> Seq(Upward)] /\ up[k] \in Seq(Upward) /\ up[k] # <<>>
  BY DEF TypeOK, ServerReceives
<1>2. Head(up[k]) = up[k][1] /\ up[k][1] \in Upward /\ Tail(up[k]) \in Seq(Upward)
  BY <1>1
<1>3. PICK f \in Upward : f = up[k][1]
  BY <1>2
<1>4. /\ k \in handler /\ up' = [up EXCEPT ![k] = Tail(up[k])]
      /\ \/ f.kind = "alive" /\ ReceiveAlive(k, f.runs)
         \/ /\ f.kind = "frame" /\ ReceiveFrame(k, f.run, f.seq)
            /\ UNCHANGED <<cur, online, tracked, awaiting, detached, aliveDue>>
      /\ UNCHANGED <<agentVars, replayVars, ws, dialled, swapped, whole, handler, executorVars,
                     faultVars>>
  BY <1>2, <1>3 DEF ServerReceives
<1>5. f.kind = "alive" => f.runs \in SUBSET Run /\ f = Alive(f.runs)
  BY DEF Upward, Frame, Alive
<1>6. f.kind = "frame" => f.run \in Run /\ f.seq \in Seqs /\ f = Frame(f.run, f.seq)
  BY FrameReads
<1>7. up' \in [Conn -> Seq(Upward)]
  BY <1>1, <1>2, <1>4
<1> QED BY <1>1, <1>2, <1>3, <1>4, <1>5, <1>6, <1>7

LEMMA NetTyped ==
  ASSUME TypeOK, BatchIsWhole, Connected, \A r \in Run : Assigned(r), [Next]_vars
  PROVE  NetTypes'
<1> USE DEF netVars, replayVars
<1>0. NetTypes /\ MaxConns \in Nat /\ Conn \subseteq 0 .. MaxConns
  BY TypesAre, BoundsType DEF Conn
<1>e. <<>> \in Seq(Run) /\ <<>> \in Seq(Upward)
  OBVIOUS
<1>1. ASSUME NEW r \in Run, Report(r) \/ Finish(r) PROVE NetTypes'
  <2>0. Assigned(r)
    OBVIOUS
  <2>1. /\ IF SendsNow(r, seq[r] + 1) THEN SendUp(Frame(r, seq[r] + 1)) ELSE up' = up
        /\ seq[r] + 1 \in Seqs
        /\ UNCHANGED <<replayVars, ws, dialled, swapped, whole, handler>>
    BY <1>1, <2>0, EmitMoves
  <2>2. up' \in [Conn -> Seq(Upward)]
    <3>1. CASE SendsNow(r, seq[r] + 1)
      BY <2>1, <3>1, SendUpTo DEF SendsNow
    <3>2. CASE ~SendsNow(r, seq[r] + 1)
      BY <1>0, <2>1, <3>2 DEF NetTypes
    <3> QED BY <3>1, <3>2
  <2> QED BY <1>0, <2>1, <2>2 DEF NetTypes
<1>2. CASE ReplaySend
  <2>1. todo # <<>> /\ batch # {}
    BY ONLY <1>2, BatchIsWhole DEF BatchIsWhole, ReplaySend
  <2>2. up' \in [Conn -> Seq(Upward)]
    <3>0. /\ Min(batch) \in Seqs /\ Head(todo) \in Run
          /\ up' = up \/ SendUp(Frame(Head(todo), Min(batch)))
      BY <1>0, <1>2, <2>1, ReplaySendMoves DEF NetTypes
    <3>1. CASE up' = up
      BY <1>0, <3>1 DEF NetTypes
    <3>2. CASE up' # up
      <4>1. ws # 0 \/ ~whole
        BY DEF Connected
      <4>2. ws # 0
        BY <3>0, <3>2, <4>1 DEF SendUp
      <4> QED BY <3>0, <3>2, <4>2, SendUpTo
    <3> QED BY <3>1, <3>2
  <2>3. batch' \subseteq Seqs /\ UNCHANGED <<todo, dead, ws, dialled, swapped, whole, handler>>
    BY <1>0, <1>2, <2>1, ReplaySendMoves DEF NetTypes
  <2> QED BY <1>0, <2>2, <2>3 DEF NetTypes
<1>3. CASE ReplayRead
  <2>1. todo' \in Seq(Run) /\ dead' \in BOOLEAN
    <3>1. todo \in Seq(Run) /\ todo # <<>> /\ dead \in BOOLEAN
      BY <1>0, <1>3 DEF NetTypes, ReplayRead
    <3>2. Tail(todo) \in Seq(Run) /\ <<>> \in Seq(Run)
      BY <3>1
    <3>3. todo' \in {<<>>, todo, Tail(todo)} /\ (dead' = dead \/ dead' = TRUE)
      BY <1>3 DEF ReplayRead
    <3> QED BY <3>1, <3>2, <3>3
  <2>2. batch' \subseteq Seqs
    <3>1. Head(todo) \in Run /\ spool \in [Run -> SpoolType]
      BY <1>0, <1>3, TypesAre DEF NetTypes, ReplayRead, AgentTypes
    <3>2. NextBatch(Head(todo)) \subseteq Seqs
      BY <3>1 DEF NextBatch, Pending, SpoolType
    <3> QED BY <1>0, <1>3, <3>2 DEF NetTypes, ReplayRead
  <2> QED BY <1>0, <1>3, <2>1, <2>2 DEF NetTypes, ReplayRead
<1>4. CASE Dial
  <2>1. dialled + 1 \in Conn
    BY <1>0, <1>4 DEF Dial, NetTypes, Conn
  <2>2. todo' \in Seq(Run)
    <3>1. IsFiniteSet({r \in Run : spool[r].open})
      BY RunsAreFinite, FS_Subset
    <3>2. todo' \in Seq({r \in Run : spool[r].open})
      BY <1>4, <3>1, OrdersAsSeq DEF Dial
    <3> QED BY <3>2
  <2>3. up' \in [Conn -> Seq(Upward)]
    <3>1. AliveRuns \in SUBSET Run
      BY DEF AliveRuns
    <3>2. Alive(AliveRuns) \in Upward
      BY <3>1, MessageTypes
    <3>3. <<Alive(AliveRuns)>> \in Seq(Upward)
      BY <3>2
    <3> QED BY <1>0, <1>4, <2>1, <3>3 DEF NetTypes, Dial
  <2>4. handler' \subseteq Conn /\ ws' = dialled + 1 /\ dialled' = dialled + 1 /\ whole' = TRUE
        /\ batch' = {} /\ dead' = FALSE
    BY <1>0, <1>4, <2>1 DEF NetTypes, Dial
  <2>5. swapped' \subseteq Run
    BY <1>0, <1>4, TypesAre DEF NetTypes, RegistryTypes, Dial
  <2> QED BY <1>0, <2>1, <2>2, <2>3, <2>4, <2>5 DEF NetTypes
<1>5. ASSUME NEW k \in Conn, HandlerEnds(k) PROVE NetTypes'
  BY <1>0, <1>5 DEF NetTypes, HandlerEnds
<1>6. ASSUME NEW k \in Conn, ServerReceives(k) PROVE NetTypes'
  BY <1>0, <1>6, ServerReads DEF NetTypes
<1>7. CASE Crash
  BY <1>0, <1>e, <1>7 DEF NetTypes, Crash
<1>13. CASE AgentRestarts
  <2>1. /\ ws' = 0 /\ todo' = <<>> /\ batch' = {} /\ dead' = FALSE /\ (whole' = FALSE \/ whole' = whole)
        /\ UNCHANGED <<dialled, swapped, up, handler>>
    BY <1>13 DEF AgentRestarts
  <2>2. todo' \in Seq(Run)
    BY <1>e, <2>1
  <2>3. ws' \in 0 .. MaxConns
    BY <1>0, <2>1
  <2>4. whole' \in BOOLEAN /\ dead' \in BOOLEAN
    BY <1>0, <2>1 DEF NetTypes
  <2>5. batch' \subseteq Seqs
    BY <2>1
  <2> QED BY <1>0, <2>1, <2>2, <2>3, <2>4, <2>5 DEF NetTypes
<1>14. CASE AgentNotices
  <2>1. /\ ws' = 0 /\ todo' = <<>> /\ batch' = {} /\ dead' = FALSE /\ (whole' = FALSE \/ whole' = whole)
        /\ UNCHANGED <<dialled, swapped, up, handler>>
    BY <1>14 DEF AgentNotices
  <2>2. todo' \in Seq(Run)
    BY <1>e, <2>1
  <2>3. ws' \in 0 .. MaxConns
    BY <1>0, <2>1
  <2>4. whole' \in BOOLEAN /\ dead' \in BOOLEAN
    BY <1>0, <2>1 DEF NetTypes
  <2>5. batch' \subseteq Seqs
    BY <2>1
  <2> QED BY <1>0, <2>1, <2>2, <2>3, <2>4, <2>5 DEF NetTypes
<1>8. CASE Drop \/ HeartbeatsMissed
  BY <1>0, <1>8 DEF NetTypes, Drop, HeartbeatsMissed
<1>9. CASE UNCHANGED <<replayVars, ws, dialled, swapped, whole, up, handler>>
  BY <1>0, <1>9 DEF NetTypes
<1>10. ASSUME NEW r \in Run, \/ Start(r) \/ Take(r) \/ Flush(r) \/ ServeRaises(r)
                             \/ Stop(r) \/ ForwardCancel(r) \/ File(r) \/ GraceOver(r)
      PROVE  UNCHANGED <<replayVars, ws, dialled, swapped, whole, up, handler>>
  BY <1>10 DEF Start, Take, Flush, ServeRaises, Stop, ForwardCancel, File, GraceOver
<1>11. CASE AgentReceives \/ AliveMissing \/ Heartbeat
  BY <1>9, <1>11 DEF AgentReceives, AliveMissing, Heartbeat
<1>12. CASE UNCHANGED vars
  BY <1>9, <1>12 DEF vars
<1> QED BY <1>1, <1>2, <1>3, <1>4, <1>5, <1>6, <1>7, <1>8, <1>9, <1>10, <1>11, <1>12, <1>13, <1>14 DEF Next

\* The cancels that a run_alive brings about.
LEMMA CancelsAsSeq ==
  ASSUME NEW U \in SUBSET Run
  PROVE  /\ SetToSeq({Cancel(r) : r \in U}) \in Seq(Downward)
         /\ \A i \in DOMAIN SetToSeq({Cancel(r) : r \in U}) :
              \E r \in U : SetToSeq({Cancel(x) : x \in U})[i] = Cancel(r)
<1> DEFINE T == {Cancel(r) : r \in U}
           g == [r \in U |-> Cancel(r)]
<1>1. IsFiniteSet(U)
  BY RunsAreFinite, FS_Subset
<1>2. g \in Surjection(U, T)
  BY DEF Surjection
<1> HIDE DEF g
<1>3. T \subseteq Downward
  BY MessageTypes
<1>4. \A t \in T : \E r \in U : t = Cancel(r)
  OBVIOUS
<1> HIDE DEF T
<1>5. IsFiniteSet(T)
  BY <1>1, <1>2, FS_Surjection
<1>6. SetToSeq(T) \in Seq(T)
  BY <1>5, SetAsSeq
<1>7. SetToSeq(T) \in Seq(Downward) /\ \A i \in DOMAIN SetToSeq(T) : SetToSeq(T)[i] \in T
  BY <1>3, <1>6
<1> QED BY <1>4, <1>7 DEF T

LEMMA DownReceived ==
  ASSUME TypeOK, NEW k \in Conn, ServerReceives(k)
  PROVE  \E fs \in Seq(Downward) :
           /\ down' = down \/ (k = ws /\ whole /\ down' = down \o fs)
           /\ \A i \in DOMAIN fs :
                \/ \E x \in Run : fs[i] = Cancel(x)
                \/ \E x \in Run, n \in Seqs :
                     /\ fs[i] = Ack(x, n) /\ up[k][1] = Frame(x, n)
                     /\ ~(k = cur /\ x \in tracked) /\ tracked' = tracked
<1>e. <<>> \in Seq(Downward) /\ DOMAIN <<>> = {}
  OBVIOUS
<1>1. CASE down' = down
  BY <1>e, <1>1
<1>2. ASSUME NEW R \in SUBSET Run, ReceiveAlive(k, R), down' # down
      PROVE  \E U \in SUBSET Run : SendDown(k, SetToSeq({Cancel(r) : r \in U}))
  <2>1. PICK recent \in RecentlyClosed :
          SendDown(k, SetToSeq({Cancel(r) : r \in Untracked(R, recent)}))
    BY <1>2 DEF ReceiveAlive
  <2>2. Untracked(R, recent) \in SUBSET Run
    BY DEF Untracked
  <2> QED BY <2>1, <2>2
<1>3. ASSUME NEW U \in SUBSET Run, SendDown(k, SetToSeq({Cancel(r) : r \in U}))
      PROVE  \E fs \in Seq(Downward) :
               /\ down' = down \/ (k = ws /\ whole /\ down' = down \o fs)
               /\ \A i \in DOMAIN fs : \E x \in Run : fs[i] = Cancel(x)
  <2> DEFINE fs == SetToSeq({Cancel(r) : r \in U})
  <2>1. fs \in Seq(Downward) /\ \A i \in DOMAIN fs : \E x \in Run : fs[i] = Cancel(x)
    BY CancelsAsSeq
  <2>2. SendDown(k, fs)
    BY <1>3
  <2> HIDE DEF fs
  <2>3. down' = down \/ (k = ws /\ whole /\ down' = down \o fs)
    BY <2>1, <2>2, SendDownTo
  <2> QED BY <2>1, <2>3
<1>4. ASSUME NEW r \in Run, NEW n \in Seqs, up[k][1] = Frame(r, n), ReceiveFrame(k, r, n),
             UNCHANGED tracked, down' # down
      PROVE  ~(k = cur /\ r \in tracked) /\ SendDown(k, <<Ack(r, n)>>)
  BY <1>4 DEF ReceiveFrame
<1>5. ASSUME NEW r \in Run, NEW n \in Seqs, up[k][1] = Frame(r, n), ReceiveFrame(k, r, n),
             UNCHANGED tracked, down' # down
      PROVE  \E fs \in Seq(Downward) :
               /\ down' = down \/ (k = ws /\ whole /\ down' = down \o fs)
               /\ \A i \in DOMAIN fs :
                    \E x \in Run, m \in Seqs :
                      /\ fs[i] = Ack(x, m) /\ up[k][1] = Frame(x, m)
                      /\ ~(k = cur /\ x \in tracked) /\ tracked' = tracked
  <2>1. PICK f \in Downward : f = Ack(r, n)
    BY MessageTypes
  <2>2. <<f>> \in Seq(Downward) /\ DOMAIN <<f>> = {1} /\ <<f>>[1] = f
    OBVIOUS
  <2>3. ~(k = cur /\ r \in tracked) /\ SendDown(k, <<f>>)
    BY <1>4, <1>5, <2>1
  <2>4. down' = down \/ (k = ws /\ whole /\ down' = down \o <<f>>)
    BY <2>2, <2>3, SendDownTo
  <2> QED BY <1>5, <2>1, <2>2, <2>3, <2>4
<1>6. CASE down' # down
  <2>1. CASE \E R \in SUBSET Run : up[k][1] = Alive(R) /\ ReceiveAlive(k, R)
    <3>1. PICK U \in SUBSET Run : SendDown(k, SetToSeq({Cancel(r) : r \in U}))
      BY <1>2, <1>6, <2>1
    <3> QED BY <1>3, <3>1
  <2>2. CASE \E r \in Run, n \in Seqs :
               /\ up[k][1] = Frame(r, n) /\ ReceiveFrame(k, r, n)
               /\ UNCHANGED <<cur, online, tracked, awaiting, detached, aliveDue>>
    <3>1. PICK r \in Run, n \in Seqs :
            up[k][1] = Frame(r, n) /\ ReceiveFrame(k, r, n) /\ UNCHANGED tracked
      BY <2>2
    <3>2. PICK fs \in Seq(Downward) :
            /\ down' = down \/ (k = ws /\ whole /\ down' = down \o fs)
            /\ \A i \in DOMAIN fs :
                 \E x \in Run, m \in Seqs :
                   /\ fs[i] = Ack(x, m) /\ up[k][1] = Frame(x, m)
                   /\ ~(k = cur /\ x \in tracked) /\ tracked' = tracked
      BY <1>5, <1>6, <3>1
    <3> QED BY <3>2
  <2> QED BY <2>1, <2>2, ServerReads
<1> QED BY <1>1, <1>6

\* One item from the inbox of a run.
LEMMA TakeReads ==
  ASSUME TypeOK, NEW r \in Run, Take(r)
  PROVE  /\ stage[r] = "serving" /\ inbox[r] # <<>> /\ inbox[r][1] \in Items
         /\ inbox' = [inbox EXCEPT ![r] = Tail(inbox[r])]
         /\ \/ inbox[r][1].kind = "frame" /\ TakeFrame(r, inbox[r][1].seq)
            \/ inbox[r][1].kind = "back" /\ TakeBack(r)
            \/ /\ inbox[r][1].kind = "away"
               /\ UNCHANGED <<stage, result, tracked, awaiting, detached, log, persisted,
                              down, faults, told>>
            \/ /\ inbox[r][1].kind = "gone" /\ Returns(r, Stopped(r))
               /\ UNCHANGED <<log, persisted, down, faults, told>>
         /\ UNCHANGED <<agentVars, replayVars, ws, dialled, swapped, whole, up, handler, cur,
                        online, last, aliveDue, late, stored, stop, crashes, revived>>
<1>1. inbox[r] \in Seq(Items) /\ inbox[r] # <<>>
  BY DEF TypeOK, Take
<1>2. Head(inbox[r]) = inbox[r][1] /\ inbox[r][1] \in Items
  BY <1>1
<1> QED BY <1>1, <1>2 DEF Take

\* What the server may say: a cancel, an ack of what is persisted or of a run
\* nobody serves, the one assignment of a run.
SaysAck(m) ==
  \E x \in Run, n \in Seqs :
    /\ m = Ack(x, n) /\ n <= seq[x]
    /\ x \in tracked' /\ x \notin revived => n <= persisted'[x]
Says(m) == (\E x \in Run : m = Cancel(x)) \/ SaysAck(m)

LEMMA AckSaid ==
  ASSUME IInv, NEW r \in Run, NEW k, NEW n \in Seqs, SendDown(k, <<Ack(r, n)>>), n <= seq[r],
         r \in tracked' /\ r \notin revived => n <= persisted'[r]
  PROVE  \E fs \in Seq(Downward) :
           (down' = down \/ (whole /\ down' = down \o fs)) /\ \A i \in DOMAIN fs : Says(fs[i])
<1>1. PICK f \in Downward : f = Ack(r, n)
  BY MessageTypes
<1>2. <<f>> \in Seq(Downward) /\ DOMAIN <<f>> = {1} /\ <<f>>[1] = f
  OBVIOUS
<1>3. down' = down \/ (whole /\ down' = down \o <<f>>)
  BY <1>1, <1>2, SendDownTo DEF IInv
<1>4. Says(f)
  BY <1>1 DEF Says, SaysAck
<1> QED BY <1>2, <1>3, <1>4

LEMMA CancelSaid ==
  ASSUME IInv, NEW r \in Run, NEW k, SendDown(k, <<Cancel(r)>>)
  PROVE  \E fs \in Seq(Downward) :
           (down' = down \/ (whole /\ down' = down \o fs)) /\ \A i \in DOMAIN fs : Says(fs[i])
<1>1. PICK f \in Downward : f = Cancel(r)
  BY MessageTypes
<1>2. <<f>> \in Seq(Downward) /\ DOMAIN <<f>> = {1} /\ <<f>>[1] = f
  OBVIOUS
<1>3. down' = down \/ (whole /\ down' = down \o <<f>>)
  BY <1>1, <1>2, SendDownTo DEF IInv
<1>4. Says(f)
  BY <1>1 DEF Says
<1> QED BY <1>2, <1>3, <1>4

\* What is recorded of a run that did not end was received and made.
LEMMA RecordedWasMade ==
  ASSUME IInv, NEW r \in Run, stage[r] # "filed"
  PROVE  /\ Recorded(r) \in 0 .. MaxSeq /\ persisted[r] <= Recorded(r)
         /\ Recorded(r) <= last[r] /\ last[r] <= seq[r] /\ Recorded(r) <= seq[r]
         /\ last[r] \in 0 .. MaxSeq /\ seq[r] \in 0 .. MaxSeq /\ persisted[r] \in 0 .. MaxSeq
<1>1. Recorded(r) \in 0 .. MaxSeq /\ persisted[r] <= Recorded(r)
  BY RecordedIs DEF IInv
<1>2. Recorded(r) <= last[r] /\ last[r] <= seq[r]
  BY DEF IInv, InboxInOrder, Made
<1>3. last[r] \in 0 .. MaxSeq /\ seq[r] \in 0 .. MaxSeq /\ persisted[r] \in 0 .. MaxSeq
  BY DEF IInv, TypeOK
<1> QED BY <1>1, <1>2, <1>3, SeqsAreNats

LEMMA ReconnectSaid ==
  ASSUME IInv, NEW r \in Run, stage[r] = "serving", TakeBack(r)
  PROVE  \E fs \in Seq(Downward) :
           (down' = down \/ (whole /\ down' = down \o fs)) /\ \A i \in DOMAIN fs : Says(fs[i])
<1>1. /\ Recorded(r) \in 0 .. MaxSeq /\ Recorded(r) <= seq[r] /\ MaxSeq \in Nat
      /\ persisted'[r] = Recorded(r)
  BY RecordedWasMade, BoundsType DEF IInv, TypeOK, TakeBack
<1> DEFINE a == IF Recorded(r) = 0 THEN <<>> ELSE <<Ack(r, Recorded(r))>>
           b == Repeats(r)
<1>2. a \in Seq(Downward) /\ \A i \in DOMAIN a : Says(a[i])
  <2>1. CASE Recorded(r) = 0
    BY <2>1
  <2>2. CASE Recorded(r) # 0
    <3>1. Recorded(r) \in Seqs
      BY <1>1, <2>2 DEF Seqs
    <3>2. PICK f \in Downward : f = Ack(r, Recorded(r))
      BY <3>1, MessageTypes
    <3>3. Says(f)
      BY <1>1, <3>1, <3>2 DEF Says, SaysAck
    <3>4. a = <<f>>
      BY <2>2, <3>2
    <3> QED BY <3>3, <3>4
  <2> QED BY <2>1, <2>2
<1>3. b \in Seq(Downward) /\ \A i \in DOMAIN b : Says(b[i])
  <2>1. PICK f \in Downward : f = Cancel(r)
    BY MessageTypes
  <2>2. Says(f)
    BY <2>1 DEF Says
  <2>3. b = <<>> \/ b = <<f>>
    BY <2>1 DEF Repeats
  <2> HIDE DEF b
  <2>4. CASE b = <<>>
    BY <2>4
  <2>5. CASE b = <<f>>
    BY <2>2, <2>5
  <2> QED BY <2>3, <2>4, <2>5
<1>4. SendDown(CurConn, a \o b)
  BY DEF TakeBack
<1> HIDE DEF a, b
<1>5. /\ a \o b \in Seq(Downward) /\ Len(a \o b) = Len(a) + Len(b)
      /\ \A i \in 1 .. Len(a) + Len(b) : (a \o b)[i] = IF i <= Len(a) THEN a[i] ELSE b[i - Len(a)]
  BY <1>2, <1>3, ConcatProperties
<1>6. \A i \in DOMAIN (a \o b) : Says((a \o b)[i])
  <2> SUFFICES ASSUME NEW i \in 1 .. Len(a) + Len(b) PROVE Says((a \o b)[i])
    BY <1>5
  <2>0. Len(a) \in Nat /\ Len(b) \in Nat /\ DOMAIN a = 1 .. Len(a) /\ DOMAIN b = 1 .. Len(b)
    BY <1>2, <1>3
  <2>1. CASE i <= Len(a)
    <3>1. i \in DOMAIN a /\ (a \o b)[i] = a[i]
      BY <1>5, <2>0, <2>1
    <3> QED BY <1>2, <3>1
  <2>2. CASE ~(i <= Len(a))
    <3>1. i - Len(a) \in DOMAIN b /\ (a \o b)[i] = b[i - Len(a)]
      BY <1>5, <2>0, <2>2
    <3> QED BY <1>3, <3>1
  <2> QED BY <2>1, <2>2
<1>7. down' = down \/ (whole /\ down' = down \o (a \o b))
  BY <1>4, <1>5, SendDownTo DEF IInv
<1> QED BY <1>5, <1>6, <1>7

LEMMA DownMoves ==
  ASSUME IInv, [Next]_vars
  PROVE  \/ down' = down \/ down' = <<>> \/ AgentReceives
         \/ \E fs \in Seq(Downward) :
              (down' = down \/ (whole /\ down' = down \o fs)) /\ \A i \in DOMAIN fs : Says(fs[i])
         \/ \E r \in Run : Start(r) /\ down' = down \o <<Assign(r)>>
<1> DEFINE Talks ==
      \E fs \in Seq(Downward) :
        (down' = down \/ (whole /\ down' = down \o fs)) /\ \A i \in DOMAIN fs : Says(fs[i])
<1>1. ASSUME NEW r \in Run, Start(r)
      PROVE  down' = down \/ down' = down \o <<Assign(r)>>
  BY <1>1 DEF Start, SendDown
<1>2. ASSUME NEW r \in Run, Flush(r) PROVE Talks
  <2>0. /\ SendDown(CurConn, <<Ack(r, Recorded(r))>>) /\ stage[r] = "serving"
        /\ Recorded(r) > persisted[r] /\ persisted'[r] = Recorded(r)
    BY <1>2 DEF Flush, IInv, TypeOK
  <2>1. /\ Recorded(r) \in 0 .. MaxSeq /\ persisted[r] \in 0 .. MaxSeq /\ Recorded(r) <= seq[r]
        /\ MaxSeq \in Nat
    BY <2>0, RecordedWasMade, BoundsType
  <2>2. Recorded(r) \in Seqs
    BY <2>0, <2>1 DEF Seqs
  <2>3. Recorded(r) <= persisted'[r]
    BY <2>0, <2>1
  <2> QED BY <2>0, <2>1, <2>2, <2>3, AckSaid
<1>3. ASSUME NEW r \in Run, Take(r) PROVE Talks \/ down' = down
  <2>0. TypeOK
    BY DEF IInv
  <2>1. stage[r] = "serving" /\ inbox[r] # <<>> /\ inbox[r][1] \in Items
    BY <1>3, <2>0, TakeReads
  <2>2. CASE inbox[r][1].kind = "frame" /\ TakeFrame(r, inbox[r][1].seq) /\ down' # down
    <3> DEFINE n == inbox[r][1].seq
    <3>1. n \in Seqs
      BY <2>1, <2>2, ItemReads
    <3>2. r \notin tracked' /\ SendDown(CurConn, <<Ack(r, n)>>)
      BY <2>2 DEF TakeFrame, Returns
    <3>3. n <= last[r]
      <4>1. InboxInOrder(r)
        BY DEF IInv
      <4>2. inbox[r] \in Seq(Items)
        BY <2>0 DEF TypeOK
      <4>3. 1 \in DOMAIN inbox[r]
        BY <2>1, <4>2
      <4> QED BY <2>1, <2>2, <4>1, <4>3 DEF InboxInOrder
    <3>4. last[r] <= seq[r] /\ last[r] \in 0 .. MaxSeq /\ seq[r] \in 0 .. MaxSeq
      BY <2>1, RecordedWasMade
    <3> HIDE DEF n
    <3>5. n <= seq[r]
      BY <3>1, <3>3, <3>4, SeqsAreNats
    <3> QED BY <3>1, <3>2, <3>5, AckSaid
  <2>3. CASE TakeBack(r)
    BY <2>1, <2>3, ReconnectSaid
  <2> QED BY <1>3, <2>0, <2>2, <2>3, TakeReads
<1>4. ASSUME NEW r \in Run, ForwardCancel(r) PROVE Talks
  BY <1>4, CancelSaid DEF ForwardCancel
<1>5. CASE Heartbeat
  <2>1. PICK r \in Run : SendDown(ws, <<Cancel(r)>>)
    BY <1>5 DEF Heartbeat, Untracked
  <2> QED BY <2>1, CancelSaid
<1>6. ASSUME NEW k \in Conn, ServerReceives(k) PROVE Talks
  <2>0. TypeOK /\ Connected
    BY DEF IInv
  <2>1. PICK fs \in Seq(Downward) :
           /\ down' = down \/ (k = ws /\ whole /\ down' = down \o fs)
           /\ \A i \in DOMAIN fs :
                \/ \E x \in Run : fs[i] = Cancel(x)
                \/ \E x \in Run, n \in Seqs :
                     /\ fs[i] = Ack(x, n) /\ up[k][1] = Frame(x, n)
                     /\ ~(k = cur /\ x \in tracked) /\ tracked' = tracked
    BY <1>6, <2>0, DownReceived
  <2>2. CASE down' = down
    <3>1. <<>> \in Seq(Downward) /\ DOMAIN <<>> = {}
      OBVIOUS
    <3> QED BY <2>2, <3>1
  <2>3. CASE down' # down
    <3>1. k = cur /\ whole /\ down' = down \o fs
      BY <2>0, <2>1, <2>3 DEF Connected
    <3>2. ASSUME NEW i \in DOMAIN fs, NEW x \in Run, NEW n \in Seqs, fs[i] = Ack(x, n),
                 up[k][1] = Frame(x, n), x \notin tracked, tracked' = tracked
          PROVE  Says(fs[i])
      <4>1. 1 \in DOMAIN up[k]
        <5>1. up[k] \in Seq(Upward) /\ up[k] # <<>>
          BY <1>6, <2>0 DEF ServerReceives, TypeOK
        <5> QED BY <5>1
      <4>2. n <= seq[x]
        BY <3>2, <4>1 DEF IInv, Made
      <4> QED BY <3>2, <4>2 DEF Says, SaysAck
    <3>3. \A i \in DOMAIN fs : Says(fs[i])
      BY <2>1, <3>1, <3>2 DEF Says
    <3> QED BY <3>1, <3>3
  <2> QED BY <2>2, <2>3
<1>7. CASE Dial \/ AgentNotices \/ AgentRestarts
  BY <1>7 DEF Dial, AgentNotices, AgentRestarts
<1>8. ASSUME NEW r \in Run,
             \/ Report(r) \/ Finish(r) \/ ServeRaises(r) \/ Stop(r) \/ File(r) \/ GraceOver(r)
      PROVE  down' = down
  BY <1>8 DEF Report, Finish, Emit, ServeRaises, Stop, File, GraceOver, netVars
<1>9. ASSUME NEW k \in Conn, HandlerEnds(k) PROVE down' = down
  BY <1>9 DEF HandlerEnds
<1>10. CASE ReplayRead \/ ReplaySend \/ Drop \/ HeartbeatsMissed \/ AliveMissing \/ Crash
  BY <1>10 DEF ReplayRead, ReplaySend, Drop, HeartbeatsMissed, AliveMissing, Crash, netVars
<1>11. CASE UNCHANGED vars
  BY <1>11 DEF vars, netVars
<1> HIDE DEF Talks
<1> DEFINE Goal == \/ down' = down \/ down' = <<>> \/ AgentReceives \/ Talks
                   \/ \E r \in Run : Start(r) /\ down' = down \o <<Assign(r)>>
<1>12. ASSUME NEW r \in Run,
              \/ Report(r) \/ Finish(r) \/ Start(r) \/ Take(r) \/ Flush(r) \/ ServeRaises(r)
              \/ Stop(r) \/ ForwardCancel(r) \/ File(r) \/ GraceOver(r)
       PROVE  Goal
  BY <1>1, <1>2, <1>3, <1>4, <1>8, <1>12
<1>13. ASSUME NEW k \in Conn, HandlerEnds(k) \/ ServerReceives(k) PROVE Goal
  BY <1>6, <1>9, <1>13
<1>14. ASSUME \/ ReplayRead \/ ReplaySend \/ AgentReceives \/ Drop \/ AgentNotices \/ Dial
              \/ HeartbeatsMissed \/ AliveMissing \/ Heartbeat \/ Crash \/ AgentRestarts
              \/ UNCHANGED vars
       PROVE  Goal
  BY <1>5, <1>7, <1>10, <1>11, <1>14 DEF Talks
<1> HIDE DEF Goal
<1>15. Goal
  BY <1>12, <1>13, <1>14 DEF Next
<1> QED BY <1>15 DEF Goal, Talks

LEMMA DownTyped ==
  ASSUME IInv, [Next]_vars
  PROVE  down' \in Seq(Downward)
<1>0. TypeOK
  BY DEF IInv
<1>e. <<>> \in Seq(Downward)
  OBVIOUS
<1>d. down \in Seq(Downward)
  BY <1>0 DEF TypeOK
<1>1. TypeOK /\ down \in Seq(Downward) /\ <<>> \in Seq(Downward)
  BY <1>0, <1>e, <1>d
<1>2. CASE AgentReceives
  BY <1>1, <1>2, ReceiveMoves
<1>3. ASSUME NEW fs \in Seq(Downward), down' = down \/ (whole /\ down' = down \o fs)
      PROVE  down' \in Seq(Downward)
  BY <1>1, <1>3, ConcatProperties
<1>4. ASSUME NEW r \in Run, down' = down \o <<Assign(r)>> PROVE down' \in Seq(Downward)
  <2>1. PICK f \in Downward : f = Assign(r)
    BY MessageTypes
  <2>2. <<f>> \in Seq(Downward)
    OBVIOUS
  <2>3. down \o <<f>> \in Seq(Downward)
    BY <1>1, <2>2, ConcatProperties
  <2> QED BY <1>4, <2>1, <2>3
<1> QED BY <1>1, <1>2, <1>3, <1>4, DownMoves

\* An item joins the inbox of some runs.
LEMMA Notifies ==
  ASSUME TypeOK, NEW D, NEW m \in Items,
         inbox' = [r \in Run |-> IF r \in D THEN Append(inbox[r], m) ELSE inbox[r]]
  PROVE  inbox' \in [Run -> Seq(Items)]
<1>1. \A r \in Run : inbox[r] \in Seq(Items)
  BY DEF TypeOK
<1>2. \A r \in Run : Append(inbox[r], m) \in Seq(Items)
  BY <1>1
<1> QED BY <1>1, <1>2

LEMMA EndsType ==
  ASSUME TypeOK, NEW E \in SUBSET Run, Ends(E)
  PROVE  /\ inbox' \in [Run -> Seq(Items)] /\ late' \subseteq Run \X (0 .. MaxSeq)
         /\ tracked' \subseteq Run /\ detached' \subseteq tracked'
         /\ tracked' = tracked \ E /\ detached' = detached \ E
<1>1. inbox' \in [Run -> Seq(Items)]
  <2>1. PICK m \in Items : m = [kind |-> "gone", seq |-> 0]
    BY MessageTypes
  <2> QED BY <2>1, Notifies DEF Ends
<1>2. late' \subseteq Run \X (0 .. MaxSeq)
  BY DEF Ends, TypeOK
<1> QED BY <1>1, <1>2 DEF Ends, TypeOK

LEMMA DisconnectsType ==
  ASSUME TypeOK, Disconnects
  PROVE  RegistryTypes'
<1>1. inbox' \in [Run -> Seq(Items)]
  <2>1. PICK m \in Items : m = [kind |-> "away", seq |-> 0]
    BY MessageTypes
  <2> QED BY <2>1, Notifies DEF Disconnects
<1>2. RegistryTypes
  BY TypesAre
<1> QED BY <1>1, <1>2 DEF Disconnects, Detaches, RegistryTypes

LEMMA AliveType ==
  ASSUME TypeOK, NEW k, NEW R \in SUBSET Run, ReceiveAlive(k, R)
  PROVE  RegistryTypes'
<1>0. RegistryTypes
  BY TypesAre
<1>1. CASE k # cur
  BY <1>0, <1>1 DEF RegistryTypes, ReceiveAlive, registryVars
<1>2. CASE k = cur
  <2>1. inbox' \in [Run -> Seq(Items)]
    <3>1. PICK g \in Items, b \in Items :
            g = [kind |-> "gone", seq |-> 0] /\ b = [kind |-> "back", seq |-> 0]
      BY MessageTypes
    <3>2. \A r \in Run : /\ inbox[r] \in Seq(Items) /\ Append(inbox[r], g) \in Seq(Items)
                         /\ Append(inbox[r], b) \in Seq(Items)
      BY <1>0 DEF RegistryTypes
    <3>3. inbox' = [r \in Run |-> IF r \in awaiting \ R THEN Append(inbox[r], g)
                                  ELSE IF r \in awaiting \cap R \cap detached
                                  THEN Append(inbox[r], b) ELSE inbox[r]]
      BY <1>2, <3>1 DEF ReceiveAlive
    <3> QED BY <3>2, <3>3
  <2>2. /\ tracked' = tracked \ (awaiting \ R) /\ detached' = detached \ awaiting /\ awaiting' = {}
        /\ late' = late \cup {<<r, last[r]>> : r \in awaiting \ R}
        /\ UNCHANGED <<cur, online, last>> /\ aliveDue' = FALSE
    BY <1>2 DEF ReceiveAlive
  <2>3. late' \subseteq Run \X (0 .. MaxSeq)
    BY <1>0, <2>2 DEF RegistryTypes
  <2>4. tracked' \subseteq Run /\ awaiting' \subseteq tracked' /\ detached' \subseteq tracked'
    BY <1>0, <2>2 DEF RegistryTypes
  <2>5. cur' \in 0 .. MaxConns /\ last' \in [Run -> 0 .. MaxSeq]
    BY <1>0, <2>2 DEF RegistryTypes
  <2>6. online' \in BOOLEAN /\ aliveDue' \in BOOLEAN
    BY <1>0, <2>2 DEF RegistryTypes
  <2> QED BY <2>1, <2>3, <2>4, <2>5, <2>6 DEF RegistryTypes
<1> QED BY <1>1, <1>2

LEMMA RouteType ==
  ASSUME TypeOK, NEW k, NEW r \in Run, NEW n \in Seqs, ReceiveFrame(k, r, n),
         UNCHANGED <<cur, online, tracked, awaiting, detached, aliveDue>>
  PROVE  RegistryTypes'
<1>0. RegistryTypes /\ n \in 0 .. MaxSeq
  BY TypesAre, SeqsAreNats
<1>1. last' \in [Run -> 0 .. MaxSeq]
  BY <1>0 DEF ReceiveFrame, RegistryTypes
<1>2. inbox' \in [Run -> Seq(Items)]
  <2>1. PICK m \in Items : m = [kind |-> "frame", seq |-> n]
    BY MessageTypes
  <2>2. inbox \in [Run -> Seq(Items)] /\ Append(inbox[r], m) \in Seq(Items)
    BY <1>0 DEF RegistryTypes
  <2>3. inbox' = inbox \/ inbox' = [inbox EXCEPT ![r] = Append(inbox[r], m)]
    BY <2>1 DEF ReceiveFrame
  <2> QED BY <2>2, <2>3
<1>3. late' \subseteq Run \X (0 .. MaxSeq)
  <2>1. <<r, n>> \in Run \X (0 .. MaxSeq) /\ late \subseteq Run \X (0 .. MaxSeq)
    BY <1>0 DEF RegistryTypes
  <2>2. \A x \in late' : x = <<r, n>> \/ x \in late
    BY DEF ReceiveFrame
  <2> QED BY <2>1, <2>2
<1> QED BY <1>0, <1>1, <1>2, <1>3 DEF RegistryTypes

LEMMA RegistryTyped ==
  ASSUME TypeOK, [Next]_vars
  PROVE  RegistryTypes'
<1> USE DEF registryVars
<1>0. RegistryTypes /\ MaxConns \in Nat
  BY TypesAre, BoundsType
<1>1. CASE Dial
  <2>1. dialled + 1 \in 0 .. MaxConns
    BY <1>0, <1>1, TypesAre DEF Dial, NetTypes
  <2> QED BY <1>0, <1>1, <2>1 DEF Dial, RegistryTypes
<1>2. ASSUME NEW k \in Conn, HandlerEnds(k) PROVE RegistryTypes'
  BY <1>0, <1>2, DisconnectsType DEF HandlerEnds, RegistryTypes
<1>3. CASE HeartbeatsMissed
  BY <1>3, DisconnectsType DEF HeartbeatsMissed
<1>4. CASE AliveMissing
  <2>1. awaiting \in SUBSET Run /\ Ends(awaiting)
    BY <1>0, <1>4 DEF RegistryTypes, AliveMissing
  <2>2. /\ inbox' \in [Run -> Seq(Items)] /\ late' \subseteq Run \X (0 .. MaxSeq)
        /\ tracked' \subseteq Run /\ detached' \subseteq tracked'
    BY <2>1, EndsType
  <2> QED BY <1>0, <1>4, <2>2 DEF RegistryTypes, AliveMissing
<1>5. ASSUME NEW r \in Run, GraceOver(r) PROVE RegistryTypes'
  <2>1. {r} \in SUBSET Run /\ Ends({r})
    BY <1>5 DEF GraceOver
  <2>2. /\ inbox' \in [Run -> Seq(Items)] /\ late' \subseteq Run \X (0 .. MaxSeq)
        /\ tracked' \subseteq Run /\ detached' \subseteq tracked' /\ tracked' = tracked \ {r}
    BY <2>1, EndsType
  <2>3. awaiting' \subseteq tracked' /\ UNCHANGED <<cur, online, last, aliveDue>>
    BY <1>0, <1>5, <2>2 DEF GraceOver, RegistryTypes
  <2> QED BY <1>0, <2>2, <2>3 DEF RegistryTypes
<1>6. ASSUME NEW k \in Conn, ServerReceives(k) PROVE RegistryTypes'
  BY <1>6, ServerReads, AliveType, RouteType
<1>7. ASSUME NEW r \in Run, Start(r) PROVE RegistryTypes'
  BY <1>0, <1>7 DEF Start, Returns, RegistryTypes
<1>8. ASSUME NEW r \in Run, Take(r) PROVE RegistryTypes'
  <2>1. inbox' \in [Run -> Seq(Items)]
    <3>1. inbox[r] \in Seq(Items) /\ inbox[r] # <<>>
      BY <1>0, <1>8 DEF RegistryTypes, Take
    <3>2. Tail(inbox[r]) \in Seq(Items)
      BY <3>1
    <3>3. inbox' = [inbox EXCEPT ![r] = Tail(inbox[r])]
      BY <1>0, <1>8, TakeReads
    <3>4. inbox \in [Run -> Seq(Items)]
      BY <1>0 DEF RegistryTypes
    <3> QED BY <3>2, <3>3, <3>4
  <2>2. \/ UNCHANGED <<tracked, awaiting, detached>>
        \/ tracked' = tracked \ {r} /\ awaiting' = awaiting \ {r} /\ detached' = detached \ {r}
    BY <1>8, TakeReads DEF TakeFrame, TakeBack, Returns
  <2>3. UNCHANGED <<cur, online, last, aliveDue, late>>
    BY <1>8, TakeReads
  <2> QED BY <1>0, <2>1, <2>2, <2>3 DEF RegistryTypes
<1>9. ASSUME NEW r \in Run, ServeRaises(r) PROVE RegistryTypes'
  BY <1>0, <1>9 DEF ServeRaises, Returns, RegistryTypes
<1>10. ASSUME NEW r \in Run, File(r) PROVE RegistryTypes'
  <2>1. <<>> \in Seq(Items)
    OBVIOUS
  <2> QED BY <1>0, <1>10, <2>1 DEF File, RegistryTypes
<1>11. CASE Crash
  <2>1. inbox' \in [Run -> Seq(Items)]
    BY <1>11 DEF Crash
  <2>2. /\ cur' = 0 /\ online' = FALSE /\ awaiting' = {} /\ aliveDue' = FALSE /\ late' = {}
        /\ tracked' \subseteq Run /\ detached' = tracked' /\ last' = persisted
    BY <1>11 DEF Crash
  <2>3. last' \in [Run -> 0 .. MaxSeq] /\ cur' \in 0 .. MaxConns
    BY <1>0, <2>2 DEF TypeOK
  <2>4. online' \in BOOLEAN /\ aliveDue' \in BOOLEAN
    BY <2>2
  <2>5. /\ tracked' \subseteq Run /\ awaiting' \subseteq tracked' /\ detached' \subseteq tracked'
        /\ late' \subseteq Run \X (0 .. MaxSeq)
    BY <2>2
  <2> QED BY <2>1, <2>3, <2>4, <2>5 DEF RegistryTypes
<1>12. CASE UNCHANGED <<registryVars, inbox>>
  BY <1>0, <1>12 DEF RegistryTypes
<1>13. ASSUME NEW r \in Run, Report(r) \/ Finish(r) \/ Flush(r) \/ Stop(r) \/ ForwardCancel(r)
       PROVE  UNCHANGED <<registryVars, inbox>>
  BY <1>13 DEF Report, Finish, Emit, Flush, Stop, ForwardCancel
<1>14. CASE ReplayRead \/ ReplaySend \/ AgentReceives \/ Drop \/ AgentNotices \/ Heartbeat
            \/ AgentRestarts
  BY <1>12, <1>14 DEF ReplayRead, ReplaySend, AgentReceives, Drop, AgentNotices, Heartbeat,
                      AgentRestarts
<1>15. CASE UNCHANGED vars
  BY <1>12, <1>15 DEF vars
<1> QED BY <1>1, <1>2, <1>3, <1>4, <1>5, <1>6, <1>7, <1>8, <1>9, <1>10, <1>11, <1>12, <1>13,
           <1>14, <1>15 DEF Next

LEMMA ExecutorTyped ==
  ASSUME TypeOK, [Next]_vars
  PROVE  ExecutorTypes'
<1> USE DEF executorVars, faultVars
<1>0. ExecutorTypes /\ MaxSeq \in Nat
  BY TypesAre, BoundsType
<1>1. ASSUME NEW r \in Run, Start(r) \/ ServeRaises(r) PROVE ExecutorTypes'
  BY <1>0, <1>1 DEF Start, ServeRaises, Returns, Stopped, ExecutorTypes
<1>2. ASSUME NEW r \in Run, Flush(r) PROVE ExecutorTypes'
  BY <1>0, <1>2, RecordedIs DEF Flush, ExecutorTypes
<1>3. ASSUME NEW r \in Run, Take(r) PROVE ExecutorTypes'
  <2>0. UNCHANGED <<stored, stop, revived>>
    BY <1>3, TakeReads
  <2>1. Recorded(r) \in 0 .. MaxSeq
    BY RecordedIs
  <2>2. CASE inbox[r][1].kind = "frame" /\ TakeFrame(r, inbox[r][1].seq)
    <3>1. PICK n \in Seqs : TakeFrame(r, n)
      BY <1>3, <2>2, TakeReads, ItemReads
    <3>2. log' \in [Run -> Seq(Seqs)]
      <4>1. log[r] \in Seq(Seqs) /\ Append(log[r], n) \in Seq(Seqs)
        BY <1>0 DEF ExecutorTypes
      <4> QED BY <1>0, <3>1, <4>1 DEF TakeFrame, ExecutorTypes
    <3>3. Max({Recorded(r), n}) \in 0 .. MaxSeq
      <4>1. n \in 0 .. MaxSeq /\ n \in Nat /\ Recorded(r) \in Nat
        BY <2>1, SeqsAreNats
      <4>2. Max({Recorded(r), n}) = IF Recorded(r) >= n THEN Recorded(r) ELSE n
        BY <4>1, MaxOfTwo
      <4> QED BY <2>1, <4>1, <4>2
    <3>4. /\ \/ persisted' = persisted
             \/ persisted' = [persisted EXCEPT ![r] = Max({Recorded(r), n})]
          /\ (UNCHANGED <<stage, result>> \/ Returns(r, "finished")) /\ UNCHANGED told
      BY <3>1 DEF TakeFrame
    <3>5. persisted' \in [Run -> 0 .. MaxSeq]
      BY <1>0, <3>3, <3>4 DEF ExecutorTypes
    <3>6. /\ stage' \in [Run -> {"queued", "serving", "reported", "filed"}]
          /\ result' \in [Run -> {"none", "finished", "interrupted", "cancelled"}]
      BY <1>0, <3>4 DEF ExecutorTypes, Returns
    <3> QED BY <1>0, <2>0, <3>2, <3>4, <3>5, <3>6 DEF ExecutorTypes
  <2>3. CASE TakeBack(r)
    <3>1. persisted' \in [Run -> 0 .. MaxSeq] /\ UNCHANGED <<stage, result, log, told>>
      BY <1>0, <2>1, <2>3 DEF TakeBack, ExecutorTypes
    <3> QED BY <1>0, <2>0, <3>1 DEF ExecutorTypes
  <2>4. CASE UNCHANGED <<stage, result, log, persisted, told>>
    BY <1>0, <2>0, <2>4 DEF ExecutorTypes
  <2>5. CASE Returns(r, Stopped(r)) /\ UNCHANGED <<log, persisted, told>>
    BY <1>0, <2>0, <2>5 DEF ExecutorTypes, Returns, Stopped
  <2> QED BY <1>3, <2>2, <2>3, <2>4, <2>5, TakeReads
<1>4. ASSUME NEW r \in Run, Stop(r) \/ ForwardCancel(r) PROVE ExecutorTypes'
  BY <1>0, <1>4 DEF Stop, ForwardCancel, ExecutorTypes
<1>5. ASSUME NEW r \in Run, File(r) PROVE ExecutorTypes'
  <2>1. ToSet(log[r]) \subseteq Seqs /\ <<>> \in Seq(Seqs)
    BY <1>0 DEF ExecutorTypes, ToSet
  <2>2. stored' \subseteq Run \X Seqs
    BY <1>0, <1>5, <2>1 DEF File, ExecutorTypes
  <2>3. log' \in [Run -> Seq(Seqs)]
    BY <1>0, <1>5, <2>1 DEF File, ExecutorTypes
  <2> QED BY <1>0, <1>5, <2>2, <2>3 DEF File, ExecutorTypes
<1>6. CASE Crash
  <2>1. log' \in [Run -> Seq(Seqs)]
    BY <1>6 DEF Crash
  <2>2. stored' \subseteq Run \X Seqs /\ revived' \subseteq Run /\ told' = {}
    BY <1>0, <1>6 DEF Crash, ExecutorTypes
  <2>3. stage' \in [Run -> {"queued", "serving", "reported", "filed"}]
    BY <1>6 DEF Crash
  <2>4. result' \in [Run -> {"none", "finished", "interrupted", "cancelled"}]
    BY <1>0, <1>6 DEF Crash, ExecutorTypes
  <2>5. UNCHANGED <<persisted, stop>>
    BY <1>6 DEF Crash
  <2> QED BY <1>0, <2>1, <2>2, <2>3, <2>4, <2>5 DEF ExecutorTypes
<1>7. CASE UNCHANGED <<executorVars, revived>>
  BY <1>0, <1>7 DEF ExecutorTypes
<1>8. ASSUME NEW r \in Run, Report(r) \/ Finish(r) \/ GraceOver(r)
      PROVE  UNCHANGED <<executorVars, revived>>
  BY <1>8 DEF Report, Finish, Emit, GraceOver
<1>9. ASSUME NEW k \in Conn, HandlerEnds(k) \/ ServerReceives(k)
      PROVE  UNCHANGED <<executorVars, revived>>
  BY <1>9 DEF HandlerEnds, ServerReceives
<1>10. CASE ReplayRead \/ ReplaySend \/ AgentReceives \/ Drop \/ AgentNotices \/ Dial
            \/ HeartbeatsMissed \/ AliveMissing \/ Heartbeat \/ AgentRestarts
  BY <1>7, <1>10 DEF ReplayRead, ReplaySend, AgentReceives, Drop, AgentNotices, Dial,
                     HeartbeatsMissed, AliveMissing, Heartbeat, AgentRestarts
<1>11. CASE UNCHANGED vars
  BY <1>7, <1>11 DEF vars
<1> QED BY <1>1, <1>2, <1>3, <1>4, <1>5, <1>6, <1>7, <1>8, <1>9, <1>10, <1>11 DEF Next

LEMMA FaultTyped ==
  ASSUME IInv, [Next]_vars
  PROVE  FaultTypes'
<1> USE DEF faultVars
<1>0. /\ crashes \in 0 .. MaxCrashes /\ faults \in 0 .. MaxFaults /\ MaxCrashes \in Nat
      /\ MaxFaults \in Nat /\ down' \in Seq(Downward) /\ TypeOK
  BY DownTyped, BoundsType DEF IInv, TypeOK
<1>1. ASSUME faults' = faults \/ (faults < MaxFaults /\ faults' = faults + 1),
             crashes' = crashes \/ (crashes < MaxCrashes /\ crashes' = crashes + 1)
      PROVE  FaultTypes'
  BY <1>0, <1>1 DEF FaultTypes
<1>2. ASSUME NEW r \in Run, Report(r) \/ Finish(r) PROVE FaultTypes'
  BY <1>1, <1>2 DEF Report, Finish, Emit
<1>3. ASSUME NEW r \in Run, Take(r) PROVE FaultTypes'
  BY <1>0, <1>1, <1>3, TakeReads DEF TakeFrame, TakeBack
<1>4. ASSUME NEW r \in Run, Start(r) \/ Flush(r) \/ ServeRaises(r) \/ Stop(r)
                            \/ ForwardCancel(r) \/ File(r) \/ GraceOver(r)
      PROVE  FaultTypes'
  BY <1>1, <1>4 DEF Start, Flush, ServeRaises, Stop, ForwardCancel, File, GraceOver
<1>5. ASSUME NEW k \in Conn, HandlerEnds(k) \/ ServerReceives(k) PROVE FaultTypes'
  BY <1>1, <1>5 DEF HandlerEnds, ServerReceives
<1>6. CASE Crash \/ AgentRestarts
  BY <1>1, <1>6 DEF Crash, AgentRestarts
<1>7. CASE ReplayRead \/ ReplaySend \/ AgentReceives \/ Drop \/ AgentNotices \/ Dial
           \/ HeartbeatsMissed \/ AliveMissing \/ Heartbeat
  BY <1>1, <1>7 DEF ReplayRead, ReplaySend, AgentReceives, Drop, AgentNotices, Dial,
                     HeartbeatsMissed, AliveMissing, Heartbeat
<1>8. CASE UNCHANGED vars
  BY <1>1, <1>8 DEF vars
<1> QED BY <1>2, <1>3, <1>4, <1>5, <1>6, <1>7, <1>8 DEF Next

LEMMA TypesKept ==
  ASSUME IInv, [Next]_vars
  PROVE  TypeOK'
<1>1. /\ TypeOK /\ BatchIsWhole /\ Connected /\ \A r \in Run : Assigned(r)
  BY DEF IInv
<1> QED BY <1>1, AgentTyped, NetTyped, RegistryTyped, ExecutorTyped, FaultTyped, TypesWere

----------------------------------------------------------------------------
(* Who is connected *)

LEMMA ConnectedKept ==
  ASSUME IInv, [Next]_vars
  PROVE  Connected'
<1> USE DEF netVars, registryVars
<1>0. /\ TypeOK /\ Connected /\ BatchIsWhole /\ up \in [Conn -> Seq(Upward)] /\ handler \subseteq Conn
      /\ ws \in Nat /\ cur \in Nat /\ dialled \in Nat /\ Conn \subseteq Nat
  <2>1. TypeOK /\ Connected /\ BatchIsWhole
    BY DEF IInv
  <2>2. up \in [Conn -> Seq(Upward)] /\ handler \subseteq Conn
    BY <2>1 DEF TypeOK
  <2>3. ws \in 0 .. MaxConns /\ cur \in 0 .. MaxConns /\ dialled \in 0 .. MaxConns
    BY <2>1 DEF TypeOK
  <2>4. MaxConns \in Nat
    BY BoundsType
  <2> QED BY <2>1, <2>2, <2>3, <2>4 DEF Conn
\* A frame of the agent leaves on its connection, whose handler runs.
<1>1. ASSUME \/ up' = up \/ (whole /\ \E f : up' = [up EXCEPT ![ws] = f]),
             UNCHANGED <<ws, dialled, whole, handler, cur, online>>, awaiting' \subseteq awaiting
      PROVE  Connected'
  BY <1>0, <1>1 DEF Connected
<1>2. ASSUME NEW r \in Run, Report(r) \/ Finish(r) PROVE Connected'
  <2>1. UNCHANGED <<ws, dialled, whole, handler, cur, online, awaiting>>
    BY <1>2 DEF Report, Finish, Emit
  <2>2. up' = up \/ (whole /\ \E f : up' = [up EXCEPT ![ws] = f])
    BY <1>2 DEF Report, Finish, Emit, SendUp
  <2> QED BY <1>1, <2>1, <2>2
<1>3. CASE ReplaySend
  <2>1. UNCHANGED <<ws, dialled, whole, handler, cur, online, awaiting>>
    BY <1>3 DEF ReplaySend
  <2>2. up' = up \/ (whole /\ \E f : up' = [up EXCEPT ![ws] = f])
    BY <1>3 DEF ReplaySend, SendUp
  <2> QED BY <1>1, <2>1, <2>2
<1>4. CASE Dial
  <2> DEFINE k == dialled + 1
  <2>1. /\ ws' = k /\ cur' = k /\ dialled' = k /\ handler' = handler \cup {k} /\ online' = TRUE
        /\ \A x \in Conn \ {k} : up'[x] = up[x]
    BY <1>0, <1>4 DEF Dial
  <2>2. /\ ws' <= dialled' /\ cur' <= dialled' /\ \A x \in handler' : x <= dialled'
        /\ ws' # 0 /\ cur' = ws' /\ ws' \in handler'
    BY <1>0, <2>1 DEF Connected
  <2>3. \A x \in Conn \ handler' : up'[x] = <<>>
    BY <1>0, <2>1 DEF Connected
  <2> QED BY <2>1, <2>2, <2>3 DEF Connected
<1>5. ASSUME NEW k \in Conn, HandlerEnds(k) PROVE Connected'
  <2>1. /\ k \in handler /\ (k # ws \/ ~whole) /\ handler' = handler \ {k}
        /\ up' = [up EXCEPT ![k] = <<>>] /\ cur' = cur /\ UNCHANGED <<ws, dialled, whole>>
        /\ (k = cur /\ online) \/ UNCHANGED <<online, awaiting>>
    BY <1>5 DEF HandlerEnds, Disconnects
  <2>2. /\ whole' => ws' # 0 /\ cur' = ws' /\ ws' \in handler'
        /\ ws' <= dialled' /\ cur' <= dialled' /\ \A x \in handler' : x <= dialled'
    BY <1>0, <2>1 DEF Connected
  <2>3. \A x \in Conn \ handler' : up'[x] = <<>>
    BY <1>0, <2>1 DEF Connected
  <2>4. ~online' /\ cur' \in handler' => awaiting' = {}
    BY <1>0, <2>1 DEF Connected
  <2> QED BY <2>2, <2>3, <2>4 DEF Connected
<1>6. CASE HeartbeatsMissed
  <2>1. /\ online /\ ~aliveDue /\ awaiting' \subseteq awaiting /\ cur' = cur
        /\ whole' = (whole /\ cur # ws) /\ UNCHANGED <<ws, dialled, up, handler>>
    BY <1>6 DEF HeartbeatsMissed, Disconnects
  <2>2. awaiting' = {}
    BY <2>1 DEF IInv, ServedRunsAreTracked
  <2> QED BY <1>0, <2>1, <2>2 DEF Connected
<1>7. ASSUME NEW k \in Conn, ServerReceives(k) PROVE Connected'
  <2>1. /\ k \in handler /\ up' = [up EXCEPT ![k] = Tail(up[k])]
        /\ UNCHANGED <<ws, dialled, whole, handler, cur, online>>
        /\ awaiting' = awaiting \/ awaiting' = {}
    BY <1>0, <1>7, ServerReads DEF ReceiveAlive
  <2> QED BY <1>0, <2>1 DEF Connected
<1>8. CASE Crash
  <2>1. /\ whole' = FALSE /\ handler' = {} /\ cur' = 0 /\ UNCHANGED <<ws, dialled>>
        /\ \A k \in Conn : up'[k] = <<>>
    BY <1>8 DEF Crash
  <2>2. ws' <= dialled' /\ cur' <= dialled'
    BY <1>0, <2>1 DEF Connected
  <2>3. /\ ~whole' /\ \A k \in handler' : k <= dialled'
        /\ \A k \in Conn \ handler' : up'[k] = <<>>
        /\ ~(cur' \in handler')
    BY <2>1
  <2> QED BY <2>2, <2>3 DEF Connected
<1>9. ASSUME AgentRestarts \/ AgentNotices PROVE Connected'
  <2>1. /\ ws' = 0 /\ (whole' = FALSE \/ (whole' = whole /\ ~whole))
        /\ UNCHANGED <<dialled, up, handler, cur, online, awaiting>>
    <3>1. CASE AgentRestarts
      BY <3>1 DEF AgentRestarts
    <3>2. CASE AgentNotices
      BY <3>2 DEF AgentNotices
    <3> QED BY <1>9, <3>1, <3>2
  <2>2. ~whole'
    BY <2>1
  <2> QED BY <1>0, <2>1, <2>2 DEF Connected
<1>10. CASE Drop
  BY <1>0, <1>10 DEF Connected, Drop
<1>11. ASSUME NEW r \in Run, \/ Start(r) \/ Take(r) \/ Flush(r) \/ ServeRaises(r) \/ Stop(r)
                             \/ ForwardCancel(r) \/ File(r) \/ GraceOver(r)
       PROVE  Connected'
  <2>1. UNCHANGED <<ws, dialled, whole, handler, up, cur, online>>
    BY <1>11 DEF Start, Take, Flush, ServeRaises, Stop, ForwardCancel, File, GraceOver
  <2>2. awaiting' \subseteq awaiting
    <3>1. CASE Take(r)
      BY <1>0, <3>1, TakeReads DEF TakeFrame, TakeBack, Returns
    <3>2. CASE ~Take(r)
      BY <1>11, <3>2 DEF Start, Flush, ServeRaises, Stop, ForwardCancel, File, GraceOver, Returns
    <3> QED BY <3>1, <3>2
  <2> QED BY <1>1, <2>1, <2>2
<1>12. CASE ReplayRead \/ AgentReceives \/ AliveMissing \/ Heartbeat
  <2>1. UNCHANGED <<ws, dialled, whole, handler, up, cur, online>> /\ awaiting' \subseteq awaiting
    BY <1>12 DEF ReplayRead, AgentReceives, AliveMissing, Heartbeat
  <2> QED BY <1>1, <2>1
<1>13. CASE UNCHANGED vars
  BY <1>1, <1>13 DEF vars
<1> QED BY <1>2, <1>3, <1>4, <1>5, <1>6, <1>7, <1>8, <1>9, <1>10, <1>11, <1>12, <1>13 DEF Next

----------------------------------------------------------------------------
(* Served runs are tracked, and waits have a deadline *)

GoneIn(s) == \E i \in DOMAIN s : s[i].kind = "gone"

LEMMA GoneStays ==
  ASSUME NEW s \in Seq(Items), NEW m \in Items
  PROVE  /\ GoneIn(s) => GoneIn(Append(s, m))
         /\ m.kind = "gone" => GoneIn(Append(s, m))
         /\ s # <<>> /\ GoneIn(s) /\ s[1].kind # "gone" => GoneIn(Tail(s))
<1>1. /\ Len(s) \in Nat /\ DOMAIN s = 1 .. Len(s)
      /\ Append(s, m) \in Seq(Items) /\ Len(Append(s, m)) = Len(s) + 1
      /\ DOMAIN Append(s, m) = 1 .. Len(s) + 1
      /\ \A i \in 1 .. Len(s) : Append(s, m)[i] = s[i]
      /\ Append(s, m)[Len(s) + 1] = m
  OBVIOUS
<1>2. GoneIn(s) => GoneIn(Append(s, m))
  BY <1>1 DEF GoneIn
<1>3. m.kind = "gone" => GoneIn(Append(s, m))
  BY <1>1 DEF GoneIn
<1>4. ASSUME s # <<>>, NEW i \in DOMAIN s, s[i].kind = "gone", s[1].kind # "gone"
      PROVE  GoneIn(Tail(s))
  <2>1. i - 1 \in DOMAIN Tail(s) /\ Tail(s)[i - 1] = s[i]
    BY <1>1, <1>4
  <2> QED BY <1>4, <2>1 DEF GoneIn
<1> QED BY <1>2, <1>3, <1>4 DEF GoneIn

\* The deadlines of the waits.
Deadlines ==
  /\ online => detached \subseteq awaiting /\ (awaiting # {} => aliveDue)
  /\ ~online => tracked \subseteq detached

ServedTracked(r) ==
  /\ r \in tracked => stage[r] = "serving"
  /\ stage[r] = "serving" /\ r \notin tracked => GoneIn(inbox[r])

LEMMA ServedIs == ServedRunsAreTracked <=> Deadlines /\ \A r \in Run : ServedTracked(r)
BY DEF ServedRunsAreTracked, Deadlines, ServedTracked, GoneIn

LEMMA ServedWas == ServedRunsAreTracked' <=> Deadlines' /\ (\A r \in Run : ServedTracked(r))'
BY ServedIs, PTL

LEMMA DeadlinesKept ==
  ASSUME IInv, [Next]_vars
  PROVE  Deadlines'
<1> USE DEF netVars, registryVars
<1>0. /\ TypeOK /\ Deadlines /\ Connected
      /\ awaiting \subseteq tracked /\ detached \subseteq tracked
  BY ServedIs DEF IInv, TypeOK
<1>1. ASSUME \/ UNCHANGED <<tracked, awaiting, detached>>
             \/ \E r \in Run : /\ tracked' = tracked \ {r} /\ awaiting' = awaiting \ {r}
                               /\ detached' = detached \ {r},
             UNCHANGED <<online, aliveDue>>
      PROVE  Deadlines'
  BY <1>0, <1>1 DEF Deadlines
<1>2. CASE Dial
  BY <1>0, <1>2 DEF Dial, Deadlines
<1>3. ASSUME Disconnects PROVE Deadlines'
  BY <1>0, <1>3 DEF Disconnects, Detaches, Deadlines
<1>4. ASSUME NEW k \in Conn, HandlerEnds(k) PROVE Deadlines'
  <2>1. CASE k = cur /\ online
    BY <1>3, <1>4, <2>1 DEF HandlerEnds
  <2>2. CASE ~(k = cur /\ online)
    BY <1>1, <1>4, <2>2 DEF HandlerEnds
  <2> QED BY <2>1, <2>2
<1>5. CASE HeartbeatsMissed
  BY <1>3, <1>5 DEF HeartbeatsMissed
<1>6. CASE AliveMissing
  BY <1>0, <1>6 DEF AliveMissing, Ends, Deadlines
<1>7. ASSUME NEW r \in Run, GraceOver(r) PROVE Deadlines'
  BY <1>0, <1>7 DEF GraceOver, Ends, Deadlines
<1>8. ASSUME NEW k \in Conn, ServerReceives(k) PROVE Deadlines'
  <2>0. k \in handler
    BY <1>0, <1>8, ServerReads
  <2>1. CASE \E R \in SUBSET Run : up[k][1] = Alive(R) /\ ReceiveAlive(k, R)
    <3>1. PICK R \in SUBSET Run : ReceiveAlive(k, R)
      BY <2>1
    <3>2. CASE k # cur
      BY <1>1, <3>1, <3>2 DEF ReceiveAlive
    <3>3. CASE k = cur
      <4>1. /\ tracked' = tracked \ (awaiting \ R) /\ detached' = detached \ awaiting
            /\ awaiting' = {} /\ online' = online
        BY <3>1, <3>3 DEF ReceiveAlive
      <4>2. ~online => awaiting = {}
        BY <1>0, <2>0, <3>3 DEF Connected
      <4> QED BY <1>0, <4>1, <4>2 DEF Deadlines
    <3> QED BY <3>2, <3>3
  <2>2. CASE UNCHANGED <<cur, online, tracked, awaiting, detached, aliveDue>>
    BY <1>1, <2>2
  <2> QED BY <1>0, <1>8, <2>1, <2>2, ServerReads
<1>9. ASSUME NEW r \in Run, Start(r) PROVE Deadlines'
  <2>1. CASE online
    BY <1>0, <1>9, <2>1 DEF Start, Deadlines
  <2>2. CASE ~online
    BY <1>1, <1>9, <2>2 DEF Start, Returns
  <2> QED BY <2>1, <2>2
<1>10. ASSUME NEW r \in Run, Take(r) PROVE Deadlines'
  <2>1. \/ UNCHANGED <<tracked, awaiting, detached>>
        \/ tracked' = tracked \ {r} /\ awaiting' = awaiting \ {r} /\ detached' = detached \ {r}
    BY <1>0, <1>10, TakeReads DEF TakeFrame, TakeBack, Returns
  <2>2. UNCHANGED <<online, aliveDue>>
    BY <1>0, <1>10, TakeReads
  <2> QED BY <1>1, <2>1, <2>2
<1>11. ASSUME NEW r \in Run, ServeRaises(r) PROVE Deadlines'
  BY <1>1, <1>11 DEF ServeRaises, Returns
<1>12. CASE Crash
  BY <1>12 DEF Crash, Deadlines
<1>13. ASSUME NEW r \in Run, \/ Report(r) \/ Finish(r) \/ Flush(r) \/ Stop(r)
                             \/ ForwardCancel(r) \/ File(r)
       PROVE  Deadlines'
  BY <1>1, <1>13 DEF Report, Finish, Emit, Flush, Stop, ForwardCancel, File
<1>14. CASE ReplayRead \/ ReplaySend \/ AgentReceives \/ Drop \/ AgentNotices \/ Heartbeat
            \/ AgentRestarts
  BY <1>1, <1>14 DEF ReplayRead, ReplaySend, AgentReceives, Drop, AgentNotices, Heartbeat,
                     AgentRestarts
<1>15. CASE UNCHANGED vars
  BY <1>1, <1>15 DEF vars
<1> QED BY <1>2, <1>4, <1>5, <1>6, <1>7, <1>8, <1>9, <1>10, <1>11, <1>12, <1>13, <1>14, <1>15
        DEF Next

----------------------------------------------------------------------------
(* What the server does with one run *)

Same(r) ==
  /\ result'[r] = result[r] /\ log'[r] = log[r] /\ persisted'[r] = persisted[r]
  /\ last'[r] = last[r]

Rests(r) ==
  Same(r) /\ stage'[r] = stage[r] /\ inbox'[r] = inbox[r] /\ (r \in tracked' <=> r \in tracked)

Noticed(r) ==
  /\ Same(r) /\ stage'[r] = stage[r] /\ r \in tracked
  /\ \E m \in Items : /\ m.kind # "frame" /\ inbox'[r] = Append(inbox[r], m)
                      /\ r \notin tracked' => m.kind = "gone"

Arrives(r) ==
  /\ result'[r] = result[r] /\ log'[r] = log[r] /\ persisted'[r] = persisted[r]
  /\ stage'[r] = stage[r] /\ r \in tracked /\ r \in tracked' /\ cur \in Conn /\ up[cur] # <<>>
  /\ \E n \in Seqs : /\ up[cur][1] = Frame(r, n) /\ n > last[r] /\ last'[r] = n
                     /\ inbox'[r] = Append(inbox[r], Item(n))

Starts(r) ==
  /\ Same(r) /\ stage[r] = "queued" /\ stage'[r] = "serving" /\ inbox'[r] = inbox[r]
  /\ r \in tracked'

Read(r, kind) == inbox[r] # <<>> /\ inbox[r][1].kind = kind /\ inbox'[r] = Tail(inbox[r])

Ended(r) ==
  /\ log'[r] = log[r] /\ persisted'[r] = persisted[r] /\ last'[r] = last[r]
  /\ stage[r] \in {"queued", "serving"} /\ stage'[r] = "reported" /\ result'[r] # "finished"
  /\ r \notin tracked' /\ (inbox'[r] = inbox[r] \/ Read(r, "gone"))

Saves(r) ==
  /\ result'[r] = result[r] /\ log'[r] = log[r] /\ last'[r] = last[r]
  /\ persisted'[r] = Recorded(r) /\ stage[r] = "serving" /\ stage'[r] = "serving"
  /\ (r \in tracked' <=> r \in tracked) /\ (inbox'[r] = inbox[r] \/ Read(r, "back"))

Skips(r) ==
  /\ Same(r) /\ stage[r] = "serving" /\ stage'[r] = "serving" /\ Read(r, "away")
  /\ (r \in tracked' <=> r \in tracked)

Records(r, n) ==
  /\ inbox[r] # <<>> /\ inbox[r][1] = Item(n) /\ inbox'[r] = Tail(inbox[r]) /\ ~IsFinal(r, n)
  /\ log'[r] = Append(log[r], n) /\ last'[r] = last[r] /\ persisted'[r] = persisted[r]
  /\ result'[r] = result[r] /\ stage[r] = "serving" /\ stage'[r] = "serving"
  /\ (r \in tracked' <=> r \in tracked)

Completes(r, n) ==
  /\ inbox[r] # <<>> /\ inbox[r][1] = Item(n) /\ inbox'[r] = Tail(inbox[r]) /\ IsFinal(r, n)
  /\ log'[r] = Append(log[r], n) /\ last'[r] = last[r]
  /\ persisted'[r] = persisted[r] \/ persisted'[r] = Max({Recorded(r), n})
  /\ result'[r] = "finished" /\ stage[r] = "serving" /\ stage'[r] = "reported"
  /\ r \notin tracked' /\ handle' = handle /\ seq' = seq

Files(r) ==
  /\ stage[r] = "reported" /\ stage'[r] = "filed" /\ log'[r] = <<>> /\ inbox'[r] = <<>>
  /\ result'[r] = result[r] /\ persisted'[r] = persisted[r] /\ last'[r] = last[r]
  /\ \A n \in ToSet(log[r]) : <<r, n>> \in stored'
  /\ (r \in tracked' <=> r \in tracked)

Serves(r) ==
  \/ Rests(r) \/ Noticed(r) \/ Arrives(r) \/ Starts(r) \/ Ended(r) \/ Saves(r) \/ Skips(r)
  \/ (\E n \in Seqs : Records(r, n) \/ Completes(r, n)) \/ Files(r)

\* A step that the run x alone takes leaves the other runs at rest.
LEMMA TakeMoves ==
  ASSUME IInv, NEW r \in Run, Take(r)
  PROVE  Serves(r) /\ \A x \in Run \ {r} : Rests(x)
<1>0. TypeOK /\ stage[r] = "serving"
  BY DEF IInv, Take
<1>1. /\ inbox[r] # <<>> /\ inbox[r][1] \in Items /\ inbox' = [inbox EXCEPT ![r] = Tail(inbox[r])]
      /\ last' = last /\ handle' = handle /\ seq' = seq
  BY <1>0, TakeReads DEF agentVars
<1>2. /\ \A x \in Run \ {r} : inbox'[x] = inbox[x] /\ last'[x] = last[x]
      /\ inbox'[r] = Tail(inbox[r])
  BY <1>0, <1>1 DEF TypeOK
<1>t. /\ stage \in [Run -> {"queued", "serving", "reported", "filed"}]
      /\ result \in [Run -> {"none", "finished", "interrupted", "cancelled"}]
      /\ log \in [Run -> Seq(Seqs)] /\ persisted \in [Run -> 0 .. MaxSeq]
  BY <1>0 DEF TypeOK
<1>3. ASSUME inbox[r][1].kind = "frame", TakeFrame(r, inbox[r][1].seq)
      PROVE  Serves(r) /\ \A x \in Run \ {r} : Rests(x)
  <2>1. PICK n \in Seqs : inbox[r][1] = Item(n) /\ TakeFrame(r, n)
    <3>1. inbox[r][1].seq \in Seqs /\ inbox[r][1] = Item(inbox[r][1].seq)
      BY <1>1, <1>3 DEF Items, Item
    <3> QED BY <1>3, <3>1
  <2>2. /\ log' = [log EXCEPT ![r] = Append(log[r], n)]
        /\ log'[r] = Append(log[r], n) /\ \A x \in Run \ {r} : log'[x] = log[x]
    BY <1>t, <2>1 DEF TakeFrame
  <2>3. CASE ~IsFinal(r, n)
    <3>1. UNCHANGED <<stage, result, tracked, persisted>>
      BY <2>1, <2>3 DEF TakeFrame
    <3>2. Records(r, n)
      BY <1>0, <1>1, <1>2, <2>1, <2>2, <2>3, <3>1 DEF Records
    <3>3. \A x \in Run \ {r} : Rests(x)
      BY <1>2, <2>2, <3>1 DEF Rests, Same
    <3> QED BY <3>2, <3>3 DEF Serves
  <2>4. CASE IsFinal(r, n)
    <3>1. /\ Returns(r, "finished")
          /\ persisted' = persisted \/ persisted' = [persisted EXCEPT ![r] = Max({Recorded(r), n})]
      BY <2>1, <2>4 DEF TakeFrame
    <3>2. /\ stage' = [stage EXCEPT ![r] = "reported"] /\ result' = [result EXCEPT ![r] = "finished"]
          /\ tracked' = tracked \ {r}
      BY <3>1 DEF Returns
    <3>3. persisted'[r] = persisted[r] \/ persisted'[r] = Max({Recorded(r), n})
      BY <1>t, <3>1
    <3>4. Completes(r, n)
      BY <1>0, <1>1, <1>2, <1>t, <2>1, <2>2, <2>4, <3>2, <3>3 DEF Completes
    <3>5. \A x \in Run \ {r} : Rests(x)
      BY <1>2, <1>t, <2>2, <3>1, <3>2 DEF Rests, Same
    <3> QED BY <3>4, <3>5 DEF Serves
  <2> QED BY <2>3, <2>4
<1>4. ASSUME inbox[r][1].kind = "back", TakeBack(r)
      PROVE  Serves(r) /\ \A x \in Run \ {r} : Rests(x)
  <2>1. /\ persisted' = [persisted EXCEPT ![r] = Recorded(r)] /\ UNCHANGED <<stage, result, tracked, log>>
    BY <1>4 DEF TakeBack
  <2>2. Saves(r)
    BY <1>0, <1>1, <1>2, <1>4, <1>t, <2>1 DEF Saves, Read
  <2>3. \A x \in Run \ {r} : Rests(x)
    BY <1>2, <1>t, <2>1 DEF Rests, Same
  <2> QED BY <2>2, <2>3 DEF Serves
<1>5. ASSUME inbox[r][1].kind = "away", UNCHANGED <<stage, result, tracked, log, persisted>>
      PROVE  Serves(r) /\ \A x \in Run \ {r} : Rests(x)
  BY <1>0, <1>1, <1>2, <1>5 DEF Serves, Skips, Read, Rests, Same
<1>6. ASSUME inbox[r][1].kind = "gone", Returns(r, Stopped(r)), UNCHANGED <<log, persisted>>
      PROVE  Serves(r) /\ \A x \in Run \ {r} : Rests(x)
  <2>1. /\ stage' = [stage EXCEPT ![r] = "reported"] /\ result' = [result EXCEPT ![r] = Stopped(r)]
        /\ tracked' = tracked \ {r} /\ Stopped(r) # "finished"
    BY <1>6 DEF Returns, Stopped
  <2>2. Ended(r)
    BY <1>0, <1>1, <1>2, <1>6, <1>t, <2>1 DEF Ended, Read
  <2>3. \A x \in Run \ {r} : Rests(x)
    BY <1>2, <1>6, <1>t, <2>1 DEF Rests, Same
  <2> QED BY <2>2, <2>3 DEF Serves
<1> QED BY <1>0, <1>3, <1>4, <1>5, <1>6, TakeReads

\* The registry tells some runs something.
LEMMA RegistryNotices ==
  ASSUME NEW r \in Run, UNCHANGED <<stage, result, log, persisted, last>>,
         tracked' \subseteq tracked, NEW m \in Items, m.kind # "frame",
         \/ inbox'[r] = inbox[r] /\ (r \in tracked => r \in tracked')
         \/ /\ inbox'[r] = Append(inbox[r], m) /\ r \in tracked
            /\ r \notin tracked' => m.kind = "gone"
  PROVE  Rests(r) \/ Noticed(r)
<1>1. Same(r) /\ stage'[r] = stage[r]
  BY DEF Same
<1> QED BY <1>1 DEF Rests, Noticed

LEMMA DisconnectMoves ==
  ASSUME IInv, NEW r \in Run, Disconnects, UNCHANGED executorVars
  PROVE  Rests(r) \/ Noticed(r)
<1>1. PICK m \in Items : m = [kind |-> "away", seq |-> 0]
  BY MessageTypes
<1>2. /\ tracked' = tracked /\ last' = last
      /\ inbox'[r] = IF r \in tracked \ detached THEN Append(inbox[r], m) ELSE inbox[r]
  BY <1>1 DEF Disconnects, Detaches
<1>3. m.kind = "away"
  BY <1>1
<1>4. UNCHANGED <<stage, result, log, persisted, last>>
  BY <1>2 DEF executorVars
<1>5. /\ tracked' \subseteq tracked /\ m.kind # "frame"
      /\ \/ inbox'[r] = inbox[r] /\ (r \in tracked => r \in tracked')
         \/ /\ inbox'[r] = Append(inbox[r], m) /\ r \in tracked
            /\ r \notin tracked' => m.kind = "gone"
  BY <1>2, <1>3
<1> QED BY <1>4, <1>5, RegistryNotices

LEMMA EndsMoves ==
  ASSUME IInv, NEW r \in Run, NEW E \in SUBSET tracked, Ends(E), UNCHANGED <<last, executorVars>>
  PROVE  Rests(r) \/ Noticed(r)
<1>1. PICK m \in Items : m = [kind |-> "gone", seq |-> 0]
  BY MessageTypes
<1>2. /\ tracked' = tracked \ E
      /\ inbox'[r] = IF r \in E THEN Append(inbox[r], m) ELSE inbox[r]
  BY <1>1 DEF Ends
<1>3. m.kind = "gone"
  BY <1>1
<1>4. UNCHANGED <<stage, result, log, persisted, last>>
  BY DEF executorVars
<1>5. /\ tracked' \subseteq tracked /\ m.kind # "frame"
      /\ \/ inbox'[r] = inbox[r] /\ (r \in tracked => r \in tracked')
         \/ /\ inbox'[r] = Append(inbox[r], m) /\ r \in tracked
            /\ r \notin tracked' => m.kind = "gone"
  BY <1>2, <1>3
<1> QED BY <1>4, <1>5, RegistryNotices

LEMMA AliveMoves ==
  ASSUME IInv, NEW r \in Run, NEW k, NEW R \in SUBSET Run, ReceiveAlive(k, R), UNCHANGED executorVars
  PROVE  Rests(r) \/ Noticed(r)
<1>1. CASE k # cur
  BY <1>1 DEF ReceiveAlive, registryVars, Rests, Same, executorVars
<1>2. CASE k = cur
  <2>1. PICK g \in Items, b \in Items :
          g = [kind |-> "gone", seq |-> 0] /\ b = [kind |-> "back", seq |-> 0]
    BY MessageTypes
  <2>2. /\ tracked' = tracked \ (awaiting \ R) /\ last' = last
        /\ inbox'[r] = IF r \in awaiting \ R THEN Append(inbox[r], g)
                       ELSE IF r \in awaiting \cap R \cap detached THEN Append(inbox[r], b)
                       ELSE inbox[r]
    BY <1>2, <2>1 DEF ReceiveAlive
  <2>3. awaiting \subseteq tracked
    BY DEF IInv, TypeOK
  <2>4. g.kind = "gone" /\ b.kind = "back"
    BY <2>1
  <2>5. UNCHANGED <<stage, result, log, persisted, last>>
    BY <2>2 DEF executorVars
  <2>6. CASE r \in awaiting \ R
    <3>1. /\ tracked' \subseteq tracked /\ g.kind # "frame" /\ inbox'[r] = Append(inbox[r], g)
          /\ r \in tracked /\ (r \notin tracked' => g.kind = "gone")
      BY <2>2, <2>3, <2>4, <2>6
    <3> QED BY <2>5, <3>1, RegistryNotices
  <2>7. CASE r \notin awaiting \ R
    <3>1. r \in tracked => r \in tracked'
      BY <2>2, <2>7
    <3>2. \/ inbox'[r] = inbox[r] 
          \/ inbox'[r] = Append(inbox[r], b) /\ r \in tracked
      BY <2>2, <2>3, <2>7
    <3>3. tracked' \subseteq tracked /\ b.kind # "frame"
      BY <2>2, <2>4
    <3> QED BY <2>5, <3>1, <3>2, <3>3, RegistryNotices
  <2> QED BY <2>6, <2>7
<1> QED BY <1>1, <1>2

LEMMA FrameMoves ==
  ASSUME IInv, NEW r \in Run, NEW x \in Run, NEW n \in Seqs, NEW k \in Conn,
         up[k] # <<>>, up[k][1] = Frame(x, n), ReceiveFrame(k, x, n), UNCHANGED <<tracked, executorVars>>
  PROVE  Rests(r) \/ Arrives(r)
<1>0. /\ last \in [Run -> 0 .. MaxSeq] /\ inbox \in [Run -> Seq(Items)]
      /\ result'[r] = result[r] /\ log'[r] = log[r] /\ persisted'[r] = persisted[r]
      /\ stage'[r] = stage[r] /\ (r \in tracked' <=> r \in tracked)
  BY DEF IInv, TypeOK, executorVars
<1>1. CASE last' = last /\ inbox' = inbox
  BY <1>0, <1>1 DEF Rests, Same
<1>2. ASSUME k = cur, x \in tracked, IsNew(x, n), last' = [last EXCEPT ![x] = n],
             inbox' = [inbox EXCEPT ![x] = Append(inbox[x], [kind |-> "frame", seq |-> n])]
      PROVE  Rests(r) \/ Arrives(r)
  <2>1. CASE r = x
    <3>1. last'[r] = n /\ inbox'[r] = Append(inbox[r], Item(n)) /\ n > last[r]
      BY <1>0, <1>2, <2>1 DEF Item, IsNew
    <3>2. r \in tracked /\ r \in tracked' /\ cur \in Conn /\ up[cur] # <<>> /\ up[cur][1] = Frame(r, n)
      BY <1>2, <2>1
    <3> QED BY <1>0, <3>1, <3>2 DEF Arrives
  <2>2. CASE r # x
    BY <1>0, <1>2, <2>2 DEF Rests, Same
  <2> QED BY <2>1, <2>2
<1>3. \/ last' = last /\ inbox' = inbox
      \/ /\ k = cur /\ x \in tracked /\ IsNew(x, n) /\ last' = [last EXCEPT ![x] = n]
         /\ inbox' = [inbox EXCEPT ![x] = Append(inbox[x], [kind |-> "frame", seq |-> n])]
  BY DEF ReceiveFrame
<1> QED BY <1>1, <1>2, <1>3

\* Every step but a crash is one of these for each run, and forgets nothing
\* that is recorded or lost.
LEMMA ServerMoves ==
  ASSUME IInv, [Next]_vars, ~Crash, NEW r \in Run
  PROVE  /\ Serves(r) /\ stored \subseteq stored' /\ unspooled \subseteq unspooled'
         /\ revived' = revived
<1> USE DEF agentVars, registryVars, executorVars, faultVars
<1> DEFINE Goal == /\ Serves(r) /\ stored \subseteq stored' /\ unspooled \subseteq unspooled'
                   /\ revived' = revived
<1>0. TypeOK /\ stage \in [Run -> {"queued", "serving", "reported", "filed"}]
      /\ result \in [Run -> {"none", "finished", "interrupted", "cancelled"}]
      /\ persisted \in [Run -> 0 .. MaxSeq] /\ log \in [Run -> Seq(Seqs)]
      /\ inbox \in [Run -> Seq(Items)] /\ awaiting \subseteq tracked
  BY DEF IInv, TypeOK
<1>1. ASSUME Rests(r) \/ Noticed(r) \/ Arrives(r), UNCHANGED <<stored, revived>>,
             unspooled \subseteq unspooled'
      PROVE  Goal
  BY <1>1 DEF Serves
<1>2. ASSUME UNCHANGED <<stage, result, log, persisted, last, inbox, tracked, stored, revived>>,
             unspooled \subseteq unspooled'
      PROVE  Goal
  BY <1>1, <1>2 DEF Rests, Same
<1>3. ASSUME NEW x \in Run, Report(x) \/ Finish(x) PROVE Goal
  BY <1>0, <1>2, <1>3, EmitMoves DEF IInv
<1>4. ASSUME NEW x \in Run, Take(x) PROVE Goal
  <2>1. Serves(r)
    <3>1. CASE x = r
      BY <1>4, <3>1, TakeMoves
    <3>2. CASE x # r
      BY <1>4, <3>2, TakeMoves DEF Serves
    <3> QED BY <3>1, <3>2
  <2> QED BY <1>0, <1>4, <2>1, TakeReads
<1>5. ASSUME NEW x \in Run, Start(x) PROVE Goal
  <2>1. UNCHANGED <<log, persisted, last, inbox, stored, revived, unspooled>> /\ stage[x] = "queued"
    BY <1>5 DEF Start
  <2>2. \/ stage' = [stage EXCEPT ![x] = "serving"] /\ tracked' = tracked \cup {x} /\ result' = result
        \/ /\ stage' = [stage EXCEPT ![x] = "reported"] /\ tracked' = tracked \ {x}
           /\ result' = [result EXCEPT ![x] = Stopped(x)]
    BY <1>5 DEF Start, Returns
  <2>3. Stopped(x) # "finished"
    BY DEF Stopped
  <2>4. CASE r = x
    <3>1. Starts(r) \/ Ended(r)
      BY <1>0, <2>1, <2>2, <2>3, <2>4 DEF Starts, Ended, Same
    <3> QED BY <2>1, <3>1 DEF Serves
  <2>5. CASE r # x
    <3>1. Rests(r)
      BY <1>0, <2>1, <2>2, <2>5 DEF Rests, Same
    <3> QED BY <2>1, <3>1 DEF Serves
  <2> QED BY <2>4, <2>5
<1>6. ASSUME NEW x \in Run, ServeRaises(x) PROVE Goal
  <2>1. /\ UNCHANGED <<log, persisted, last, inbox, stored, revived, unspooled>> /\ stage[x] = "serving"
        /\ stage' = [stage EXCEPT ![x] = "reported"] /\ tracked' = tracked \ {x}
        /\ result' = [result EXCEPT ![x] = Stopped(x)]
    BY <1>6 DEF ServeRaises, Returns
  <2>3. Stopped(x) # "finished"
    BY DEF Stopped
  <2>4. CASE r = x
    <3>1. Ended(r)
      BY <1>0, <2>1, <2>3, <2>4 DEF Ended
    <3> QED BY <2>1, <3>1 DEF Serves
  <2>5. CASE r # x
    <3>1. Rests(r)
      BY <1>0, <2>1, <2>5 DEF Rests, Same
    <3> QED BY <2>1, <3>1 DEF Serves
  <2> QED BY <2>4, <2>5
<1>7. ASSUME NEW x \in Run, Flush(x) PROVE Goal
  <2>1. /\ UNCHANGED <<stage, result, log, last, inbox, tracked, stored, revived, unspooled>>
        /\ stage[x] = "serving" /\ persisted' = [persisted EXCEPT ![x] = Recorded(x)]
    BY <1>7 DEF Flush
  <2>2. CASE r = x
    <3>1. Saves(r)
      BY <1>0, <2>1, <2>2 DEF Saves
    <3> QED BY <2>1, <3>1 DEF Serves
  <2>3. CASE r # x
    <3>1. Rests(r)
      BY <1>0, <2>1, <2>3 DEF Rests, Same
    <3> QED BY <2>1, <3>1 DEF Serves
  <2> QED BY <2>2, <2>3
<1>8. ASSUME NEW x \in Run, File(x) PROVE Goal
  <2>1. /\ UNCHANGED <<result, persisted, last, tracked, revived, unspooled>>
        /\ stage[x] = "reported" /\ stage' = [stage EXCEPT ![x] = "filed"]
        /\ stored' = stored \cup {<<x, n>> : n \in ToSet(log[x])}
        /\ log' = [log EXCEPT ![x] = <<>>] /\ inbox' = [inbox EXCEPT ![x] = <<>>]
    BY <1>8 DEF File
  <2>2. CASE r = x
    <3>1. Files(r)
      BY <1>0, <2>1, <2>2 DEF Files
    <3> QED BY <2>1, <3>1 DEF Serves
  <2>3. CASE r # x
    <3>1. Rests(r)
      BY <1>0, <2>1, <2>3 DEF Rests, Same
    <3> QED BY <2>1, <3>1 DEF Serves
  <2> QED BY <2>2, <2>3
<1>9. ASSUME NEW k \in Conn, HandlerEnds(k) PROVE Goal
  BY <1>1, <1>2, <1>9, DisconnectMoves DEF HandlerEnds
<1>10. ASSUME HeartbeatsMissed PROVE Goal
  BY <1>1, <1>10, DisconnectMoves DEF HeartbeatsMissed
<1>11. ASSUME AliveMissing PROVE Goal
  BY <1>0, <1>1, <1>11, EndsMoves DEF AliveMissing
<1>12. ASSUME NEW x \in Run, GraceOver(x) PROVE Goal
  <2>1. {x} \in SUBSET tracked /\ Ends({x}) /\ UNCHANGED <<last, executorVars, revived, unspooled>>
    BY <1>12 DEF GraceOver
  <2> QED BY <1>1, <2>1, EndsMoves
<1>13. ASSUME NEW k \in Conn, ServerReceives(k) PROVE Goal
  <2>1. Rests(r) \/ Noticed(r) \/ Arrives(r)
    <3>1. CASE \E R \in SUBSET Run : up[k][1] = Alive(R) /\ ReceiveAlive(k, R)
      BY <1>0, <1>13, <3>1, ServerReads, AliveMoves
    <3>2. CASE \E x \in Run, n \in Seqs :
                 /\ up[k][1] = Frame(x, n) /\ ReceiveFrame(k, x, n)
                 /\ UNCHANGED <<cur, online, tracked, awaiting, detached, aliveDue>>
      BY <1>0, <1>13, <3>2, ServerReads, FrameMoves
    <3> QED BY <1>0, <1>13, <3>1, <3>2, ServerReads
  <2> QED BY <1>0, <1>1, <1>13, <2>1, ServerReads
<1>14. ASSUME Dial PROVE Goal
  BY <1>2, <1>14 DEF Dial
<1>15. ASSUME NEW x \in Run, Stop(x) \/ ForwardCancel(x) PROVE Goal
  BY <1>2, <1>15 DEF Stop, ForwardCancel
<1>16. ASSUME \/ ReplayRead \/ ReplaySend \/ AgentReceives \/ Drop \/ AgentNotices \/ Heartbeat
              \/ AgentRestarts
       PROVE  Goal
  <2>1. UNCHANGED <<stage, result, log, persisted, last, inbox, tracked, stored, revived, unspooled>>
    BY <1>16 DEF ReplayRead, ReplaySend, AgentReceives, Drop, AgentNotices, Heartbeat,
                 AgentRestarts
  <2> QED BY <1>2, <2>1
<1>17. ASSUME UNCHANGED vars PROVE Goal
  <2>1. UNCHANGED <<stage, result, log, persisted, last, inbox, tracked, stored, revived, unspooled>>
    BY <1>17 DEF vars
  <2> QED BY <1>2, <2>1
<1> HIDE DEF Goal
<1>18. ASSUME NEW x \in Run,
              \/ Report(x) \/ Finish(x) \/ Start(x) \/ Take(x) \/ Flush(x) \/ ServeRaises(x)
              \/ Stop(x) \/ ForwardCancel(x) \/ File(x) \/ GraceOver(x)
       PROVE  Goal
  BY ONLY <1>3, <1>4, <1>5, <1>6, <1>7, <1>8, <1>12, <1>15, <1>18
<1>19. ASSUME NEW k \in Conn, HandlerEnds(k) \/ ServerReceives(k) PROVE Goal
  BY ONLY <1>9, <1>13, <1>19
<1>20. ASSUME \/ ReplayRead \/ ReplaySend \/ AgentReceives \/ Drop \/ AgentNotices \/ Dial
              \/ HeartbeatsMissed \/ AliveMissing \/ Heartbeat \/ AgentRestarts \/ UNCHANGED vars
       PROVE  Goal
  BY ONLY <1>10, <1>11, <1>14, <1>16, <1>17, <1>20
<1>21. Goal
  BY ONLY <1>18, <1>19, <1>20, [Next]_vars, ~Crash DEF Next
<1> QED BY <1>21 DEF Goal

\* A crash, for one run.
LEMMA CrashMoves ==
  ASSUME IInv, Crash, NEW r \in Run
  PROVE  /\ last'[r] = persisted[r] /\ persisted'[r] = persisted[r]
         /\ log'[r] = <<>> /\ inbox'[r] = <<>>
         /\ IF stage[r] \in {"serving", "reported"}
            THEN stage'[r] = "serving" /\ r \in tracked' /\ result'[r] = "none"
            ELSE /\ stage'[r] = "filed" /\ r \notin tracked'
                 /\ result'[r] = IF stage[r] = "queued" THEN "interrupted" ELSE result[r]
         /\ stored \subseteq stored' /\ unspooled' = unspooled
         /\ \A n \in ToSet(log[r]) : n <= persisted[r] => <<r, n>> \in stored'
         /\ r \in revived' <=> \/ r \in revived
                               \/ stage[r] \in {"serving", "reported"}
                                    /\ ~(r \in tracked /\ stage[r] = "serving")
<1>1. log[r] \in Seq(Seqs)
  BY DEF IInv, TypeOK
<1>2. ToSet(log[r]) \subseteq Seqs
  BY <1>1 DEF ToSet
<1>3. \A n \in ToSet(log[r]) : n <= persisted[r] => <<r, n>> \in stored'
  BY <1>2 DEF Crash
<1>4. /\ stored \subseteq stored' /\ unspooled' = unspooled /\ last'[r] = persisted[r]
      /\ persisted'[r] = persisted[r] /\ log'[r] = <<>> /\ inbox'[r] = <<>>
  BY DEF Crash, agentVars
<1>5. IF stage[r] \in {"serving", "reported"}
      THEN stage'[r] = "serving" /\ r \in tracked' /\ result'[r] = "none"
      ELSE /\ stage'[r] = "filed" /\ r \notin tracked'
           /\ result'[r] = IF stage[r] = "queued" THEN "interrupted" ELSE result[r]
  BY DEF Crash
<1>6. r \in revived' <=> \/ r \in revived
                         \/ stage[r] \in {"serving", "reported"}
                              /\ ~(r \in tracked /\ stage[r] = "serving")
  BY DEF Crash
<1> QED BY <1>3, <1>4, <1>5, <1>6

LEMMA ServedTrackedKept ==
  ASSUME IInv, [Next]_vars, NEW r \in Run
  PROVE  ServedTracked(r)'
<1>0. /\ ServedTracked(r) /\ inbox[r] \in Seq(Items)
      /\ stage[r] \in {"queued", "serving", "reported", "filed"}
  BY ServedIs DEF IInv, TypeOK
<1>1. CASE Crash
  BY <1>1, CrashMoves DEF ServedTracked
<1>2. CASE ~Crash
  <2>0. Serves(r)
    BY <1>2, ServerMoves
  <2>1. CASE Rests(r)
    BY <1>0, <2>1 DEF Rests, ServedTracked
  <2>2. CASE Noticed(r)
    BY <1>0, <2>2, GoneStays DEF Noticed, ServedTracked
  <2>3. CASE Arrives(r) \/ Starts(r)
    BY <1>0, <2>3 DEF Arrives, Starts, ServedTracked
  <2>4. CASE Ended(r)
    BY <2>4 DEF Ended, ServedTracked
  <2>5. CASE Saves(r) \/ Skips(r)
    BY <1>0, <2>5, GoneStays DEF Saves, Skips, Same, Read, ServedTracked
  <2>6. ASSUME NEW n \in Seqs, Records(r, n) PROVE ServedTracked(r)'
    <3>1. Item(n).kind = "frame"
      BY DEF Item
    <3> QED BY <1>0, <2>6, <3>1, GoneStays DEF Records, ServedTracked
  <2>7. ASSUME NEW n \in Seqs, Completes(r, n) PROVE ServedTracked(r)'
    BY <2>7 DEF Completes, ServedTracked
  <2>8. CASE Files(r)
    BY <1>0, <2>8 DEF Files, ServedTracked
  <2> QED BY <2>0, <2>1, <2>2, <2>3, <2>4, <2>5, <2>6, <2>7, <2>8 DEF Serves
<1> QED BY <1>1, <1>2

LEMMA ServedKept ==
  ASSUME IInv, [Next]_vars
  PROVE  ServedRunsAreTracked'
<1>1. (\A r \in Run : ServedTracked(r))'
  BY ServedTrackedKept
<1> QED BY <1>1, DeadlinesKept, ServedWas

----------------------------------------------------------------------------
(* Frames come in order *)

RecordedOf(s, p) == IF s = <<>> THEN p ELSE IF Last(s) >= p THEN Last(s) ELSE p

LEMMA RecordedAs ==
  ASSUME NEW s \in Seq(Seqs), NEW p \in 0 .. MaxSeq
  PROVE  /\ RecordedOf(s, p) = IF s = <<>> THEN p ELSE Max({Last(s), p})
         /\ RecordedOf(s, p) \in 0 .. MaxSeq /\ p <= RecordedOf(s, p)
<1>1. p \in Nat /\ (s # <<>> => Last(s) \in Nat /\ Last(s) \in 0 .. MaxSeq)
  <2>1. s # <<>> => Last(s) \in Seqs
    BY DEF Last
  <2> QED BY <2>1, SeqsAreNats
<1>2. s # <<>> => Max({Last(s), p}) = IF Last(s) >= p THEN Last(s) ELSE p
  BY <1>1, MaxOfTwo
<1> QED BY <1>1, <1>2 DEF RecordedOf

LEMMA RecordedNow ==
  ASSUME TypeOK, NEW r \in Run
  PROVE  Recorded(r) = RecordedOf(log[r], persisted[r])
<1>1. log[r] \in Seq(Seqs) /\ persisted[r] \in 0 .. MaxSeq
  BY DEF TypeOK
<1> QED BY <1>1, RecordedAs DEF Recorded

LEMMA RecordedThen ==
  ASSUME TypeOK', NEW r \in Run
  PROVE  Recorded(r)' = RecordedOf(log'[r], persisted'[r])
<1>1. log'[r] \in Seq(Seqs) /\ persisted'[r] \in 0 .. MaxSeq
  BY DEF TypeOK
<1> QED BY <1>1, RecordedAs DEF Recorded

Ordered(s, lo, hi) ==
  \A i \in DOMAIN s : s[i].kind = "frame" =>
    /\ lo < s[i].seq /\ s[i].seq <= hi
    /\ \A j \in DOMAIN s : i < j /\ s[j].kind = "frame" => s[i].seq < s[j].seq

LEMMA OrderedAppended ==
  ASSUME NEW s \in Seq(Items), NEW lo \in 0 .. MaxSeq, NEW hi \in 0 .. MaxSeq, Ordered(s, lo, hi)
  PROVE  /\ \A m \in Items : m.kind # "frame" => Ordered(Append(s, m), lo, hi)
         /\ \A n \in Seqs : n > hi /\ lo <= hi => Ordered(Append(s, Item(n)), lo, n)
<1>1. \A i \in DOMAIN s : s[i] \in Items
  OBVIOUS
<1>2. \A i \in DOMAIN s : s[i].kind = "frame" => s[i].seq \in Nat
  BY <1>1, ItemReads, SeqsAreNats
<1>3. lo \in Nat /\ hi \in Nat /\ Len(s) \in Nat /\ DOMAIN s = 1 .. Len(s)
  BY SeqsAreNats
<1>4. ASSUME NEW m \in Items, m.kind # "frame" PROVE Ordered(Append(s, m), lo, hi)
  <2>1. /\ DOMAIN Append(s, m) = 1 .. Len(s) + 1 /\ Append(s, m)[Len(s) + 1] = m
        /\ \A i \in 1 .. Len(s) : Append(s, m)[i] = s[i]
    OBVIOUS
  <2>2. \A i \in DOMAIN Append(s, m) : Append(s, m)[i].kind = "frame" => i \in DOMAIN s
    BY <1>3, <1>4, <2>1
  <2> QED BY <1>3, <2>1, <2>2 DEF Ordered
<1>5. ASSUME NEW n \in Seqs, n > hi, lo <= hi PROVE Ordered(Append(s, Item(n)), lo, n)
  <2>0. PICK m \in Items : m = Item(n) /\ m.kind = "frame" /\ m.seq = n
    BY MessageTypes DEF Item
  <2>1. /\ DOMAIN Append(s, m) = 1 .. Len(s) + 1 /\ Append(s, m)[Len(s) + 1] = m
        /\ \A i \in 1 .. Len(s) : Append(s, m)[i] = s[i]
    OBVIOUS
  <2>2. n \in Nat
    BY SeqsAreNats
  <2>3. SUFFICES ASSUME NEW i \in 1 .. Len(s) + 1, Append(s, m)[i].kind = "frame"
                 PROVE  /\ lo < Append(s, m)[i].seq /\ Append(s, m)[i].seq <= n
                        /\ \A j \in 1 .. Len(s) + 1 :
                             i < j /\ Append(s, m)[j].kind = "frame"
                               => Append(s, m)[i].seq < Append(s, m)[j].seq
    BY <2>0, <2>1 DEF Ordered
  <2>4. CASE i = Len(s) + 1
    BY <1>3, <1>5, <2>0, <2>1, <2>2, <2>4
  <2>5. CASE i \in 1 .. Len(s)
    <3>1. /\ s[i].kind = "frame" /\ s[i].seq \in Nat /\ lo < s[i].seq /\ s[i].seq <= hi
          /\ \A j \in 1 .. Len(s) : i < j /\ s[j].kind = "frame" => s[i].seq < s[j].seq
      BY <1>2, <1>3, <2>1, <2>3, <2>5 DEF Ordered
    <3>2. s[i].seq < n
      BY <1>3, <1>5, <2>2, <3>1
    <3> QED BY <1>3, <2>0, <2>1, <2>2, <2>5, <3>1, <3>2
  <2> QED BY <1>3, <2>4, <2>5
<1> QED BY <1>4, <1>5

LEMMA OrderedTail ==
  ASSUME NEW s \in Seq(Items), NEW lo \in 0 .. MaxSeq, NEW hi \in 0 .. MaxSeq, Ordered(s, lo, hi),
         s # <<>>
  PROVE  /\ Ordered(Tail(s), lo, hi)
         /\ \A n \in Seqs : s[1] = Item(n) => lo < n /\ n <= hi /\ Ordered(Tail(s), n, hi)
<1>1. /\ Len(s) \in Nat /\ DOMAIN s = 1 .. Len(s) /\ Len(s) # 0 /\ DOMAIN Tail(s) = 1 .. Len(s) - 1
      /\ \A i \in 1 .. Len(s) - 1 : Tail(s)[i] = s[i + 1]
  OBVIOUS
<1>2. \A i \in 1 .. Len(s) - 1 : i + 1 \in DOMAIN s
  BY <1>1
<1>3. ASSUME NEW b, \A i \in DOMAIN s : i > 1 /\ s[i].kind = "frame" => b < s[i].seq
      PROVE  Ordered(Tail(s), b, hi)
  <2> SUFFICES ASSUME NEW i \in 1 .. Len(s) - 1, Tail(s)[i].kind = "frame"
               PROVE  /\ b < Tail(s)[i].seq /\ Tail(s)[i].seq <= hi
                      /\ \A j \in 1 .. Len(s) - 1 :
                           i < j /\ Tail(s)[j].kind = "frame" => Tail(s)[i].seq < Tail(s)[j].seq
    BY <1>1 DEF Ordered
  <2>1. i + 1 \in DOMAIN s /\ i + 1 > 1 /\ Tail(s)[i] = s[i + 1]
    BY <1>1, <1>2
  <2>2. \A j \in 1 .. Len(s) - 1 : i < j => i + 1 < j + 1 /\ j + 1 \in DOMAIN s /\ Tail(s)[j] = s[j + 1]
    BY <1>1, <1>2
  <2> QED BY <1>3, <2>1, <2>2 DEF Ordered
<1>4. Ordered(Tail(s), lo, hi)
  BY <1>3 DEF Ordered
<1>5. ASSUME NEW n \in Seqs, s[1] = Item(n) PROVE lo < n /\ n <= hi /\ Ordered(Tail(s), n, hi)
  <2>1. 1 \in DOMAIN s /\ s[1].kind = "frame" /\ s[1].seq = n
    BY <1>1, <1>5 DEF Item
  <2> QED BY <1>3, <2>1 DEF Ordered
<1> QED BY <1>4, <1>5

LEMMA InboxIs ==
  ASSUME TypeOK, NEW r \in Run
  PROVE  InboxInOrder(r) <=> (stage[r] # "filed" => /\ Recorded(r) <= last[r]
                                                    /\ Ordered(inbox[r], Recorded(r), last[r]))
BY DEF InboxInOrder, Ordered

LEMMA InboxInOrderKept ==
  ASSUME IInv, [Next]_vars, TypeOK', NEW r \in Run
  PROVE  /\ InboxInOrder(r)'
         /\ Len(log'[r]) > Len(log[r]) => Last(log'[r]) > Recorded(r)
<1> DEFINE c == Recorded(r)
           d == RecordedOf(log'[r], persisted'[r])
<1>0. /\ c = RecordedOf(log[r], persisted[r]) /\ c \in 0 .. MaxSeq /\ persisted[r] <= c
      /\ log[r] \in Seq(Seqs) /\ persisted[r] \in 0 .. MaxSeq /\ last[r] \in 0 .. MaxSeq
      /\ inbox[r] \in Seq(Items)
      /\ stage[r] # "filed" => c <= last[r] /\ Ordered(inbox[r], c, last[r])
  <2>1. TypeOK /\ InboxInOrder(r)
    BY DEF IInv
  <2>2. log[r] \in Seq(Seqs) /\ persisted[r] \in 0 .. MaxSeq /\ last[r] \in 0 .. MaxSeq
        /\ inbox[r] \in Seq(Items)
    BY <2>1 DEF TypeOK
  <2> QED BY <2>1, <2>2, RecordedNow, RecordedAs, InboxIs
<1>1. d = Recorded(r)'
  BY RecordedThen
<1>n. 0 .. MaxSeq \subseteq Nat
  BY SeqsAreNats
<1> HIDE DEF c, d
<1>2. ASSUME stage'[r] # "filed" => d <= last'[r] /\ Ordered(inbox'[r], d, last'[r])
      PROVE  InboxInOrder(r)'
  BY <1>1, <1>2 DEF InboxInOrder, Ordered
<1> DEFINE Goal == /\ stage'[r] # "filed" => d <= last'[r] /\ Ordered(inbox'[r], d, last'[r])
                   /\ Len(log'[r]) > Len(log[r]) => Last(log'[r]) > c
<1>3. ASSUME log'[r] = log[r], persisted'[r] = persisted[r], last'[r] = last[r], stage[r] # "filed",
             \/ inbox'[r] = inbox[r] \/ (inbox[r] # <<>> /\ inbox'[r] = Tail(inbox[r]))
             \/ \E m \in Items : m.kind # "frame" /\ inbox'[r] = Append(inbox[r], m)
      PROVE  Goal
  <2>1. d = c
    BY <1>0, <1>3 DEF d
  <2>2. Ordered(inbox'[r], c, last[r])
    BY <1>0, <1>3, OrderedTail, OrderedAppended
  <2> QED BY <1>0, <1>3, <2>1, <2>2
<1>4. CASE Crash
  <2>1. /\ last'[r] = persisted[r] /\ persisted'[r] = persisted[r]
        /\ log'[r] = <<>> /\ inbox'[r] = <<>>
    BY <1>4, CrashMoves
  <2>2. d = persisted[r]
    BY <2>1 DEF d, RecordedOf
  <2>3. Ordered(<<>>, d, last'[r])
    BY DEF Ordered
  <2>4. Len(log'[r]) = 0 /\ Len(log[r]) >= 0
    BY <1>0, <2>1
  <2>5. ~(Len(log'[r]) > Len(log[r]))
    BY <1>0, <2>4
  <2>6. d <= last'[r]
    BY <1>0, <1>n, <2>1, <2>2
  <2> QED BY <1>1, <1>2, <2>1, <2>3, <2>5, <2>6 DEF c
<1>5. ASSUME ~Crash PROVE Goal
  <2>0. Serves(r) /\ stage[r] \in {"queued", "serving", "reported", "filed"}
        /\ (r \in tracked => stage[r] = "serving")
    BY <1>5, ServerMoves, ServedIs DEF IInv, TypeOK, ServedTracked
  <2>1. ASSUME Rests(r) PROVE Goal
    <3>1. CASE stage[r] = "filed"
      BY <2>1, <3>1, <1>0 DEF Rests, Same
    <3>2. CASE stage[r] # "filed"
      BY <1>3, <2>1, <3>2 DEF Rests, Same
    <3> QED BY <3>1, <3>2
  <2>2. ASSUME Noticed(r) PROVE Goal
    BY <1>3, <2>0, <2>2 DEF Noticed, Same
  <2>3. ASSUME Arrives(r) PROVE Goal
    <3>1. PICK n \in Seqs : n > last[r] /\ last'[r] = n /\ inbox'[r] = Append(inbox[r], Item(n))
      BY <2>3 DEF Arrives
    <3>2. log'[r] = log[r] /\ persisted'[r] = persisted[r] /\ stage[r] = "serving"
      BY <2>0, <2>3 DEF Arrives
    <3>3. d = c
      BY <1>0, <3>2 DEF d
    <3>4. Ordered(inbox'[r], c, n)
      BY <1>0, <3>1, <3>2, OrderedAppended
    <3>5. c <= n
      BY <1>0, <1>n, <3>1, <3>2, SeqsAreNats
    <3> QED BY <3>1, <3>2, <3>3, <3>4, <3>5, <1>0
  <2>4. ASSUME Starts(r) PROVE Goal
    BY <1>3, <2>4 DEF Starts, Same
  <2>5. ASSUME Ended(r) PROVE Goal
    BY <1>3, <2>5 DEF Ended, Read
  <2>6. ASSUME Saves(r) PROVE Goal
    <3>1. log'[r] = log[r] /\ persisted'[r] = c /\ last'[r] = last[r] /\ stage[r] = "serving"
          /\ (inbox'[r] = inbox[r] \/ (inbox[r] # <<>> /\ inbox'[r] = Tail(inbox[r])))
      BY <2>6 DEF Saves, Read, c
    <3>2. d = c
      <4>1. log[r] = <<>> => d = c
        BY <3>1 DEF d, RecordedOf
      <4>2. log[r] # <<>> => Last(log[r]) \in Nat
        <5>1. log[r] # <<>> => Last(log[r]) \in Seqs
          BY <1>0 DEF Last
        <5> QED BY <5>1, SeqsAreNats
      <4>3. log[r] # <<>> => d = c
        BY <1>0, <1>n, <3>1, <4>2 DEF d, RecordedOf
      <4> QED BY <4>1, <4>3
    <3>3. Ordered(inbox'[r], c, last[r])
      BY <1>0, <3>1, OrderedTail
    <3> QED BY <1>0, <3>1, <3>2, <3>3
  <2>7. ASSUME Skips(r) PROVE Goal
    BY <1>3, <2>7 DEF Skips, Same, Read
  <2>8. ASSUME NEW n \in Seqs, inbox[r] # <<>>, inbox[r][1] = Item(n), inbox'[r] = Tail(inbox[r]),
               stage[r] = "serving", log'[r] = Append(log[r], n), last'[r] = last[r],
               persisted'[r] = persisted[r] \/ persisted'[r] = Max({c, n})
        PROVE  Goal
    <3>1. c < n /\ n <= last[r] /\ Ordered(Tail(inbox[r]), n, last[r])
      BY <1>0, <2>8, OrderedTail
    <3>2. n \in Nat /\ c \in Nat /\ persisted[r] \in Nat
      BY <1>0, <1>n, SeqsAreNats
    <3>3. Max({c, n}) = n
      <4>1. Max({c, n}) = IF c >= n THEN c ELSE n
        BY <3>2, MaxOfTwo
      <4> QED BY <3>1, <3>2, <4>1
    <3>4. persisted'[r] \in Nat /\ persisted'[r] <= n
      BY <1>0, <2>8, <3>1, <3>2, <3>3
    <3>5. log'[r] # <<>> /\ Last(log'[r]) = n
      <4>1. /\ Append(log[r], n) \in Seq(Seqs) /\ Len(Append(log[r], n)) = Len(log[r]) + 1
            /\ Append(log[r], n)[Len(log[r]) + 1] = n
        BY <1>0
      <4>2. Append(log[r], n) # <<>>
        BY <1>0
      <4> QED BY <2>8, <4>1, <4>2 DEF Last
    <3>6. d = n
      BY <3>2, <3>4, <3>5 DEF d, RecordedOf
    <3> QED BY <2>8, <3>1, <3>2, <3>5, <3>6
  <2>9. ASSUME NEW n \in Seqs, Records(r, n) PROVE Goal
    BY <2>8, <2>9 DEF Records
  <2>10. ASSUME NEW n \in Seqs, Completes(r, n) PROVE Goal
    BY <2>8, <2>10 DEF Completes, c
  <2>11. ASSUME Files(r) PROVE Goal
    <3>1. log'[r] = <<>> /\ Len(log[r]) \in Nat /\ stage'[r] = "filed"
      BY <1>0, <2>11 DEF Files
    <3>2. Len(<<>>) = 0
      OBVIOUS
    <3> QED BY <3>1, <3>2
  <2> HIDE DEF Goal
  <2> QED BY <2>0, <2>1, <2>2, <2>3, <2>4, <2>5, <2>6, <2>7, <2>9, <2>10, <2>11 DEF Serves
<1> QED BY <1>2, <1>4, <1>5 DEF c

----------------------------------------------------------------------------
(* What the agent does with one run *)

Makes(r) ==
  /\ handle[r] = "running" /\ seq'[r] = seq[r] + 1 /\ seq[r] + 1 \in Seqs
  /\ handle'[r] \in {"running", "over"} /\ (handle'[r] = "running" => seq[r] + 1 < MaxSeq)
  /\ spool[r].pending \subseteq spool'[r].pending
  /\ seq[r] + 1 \in spool'[r].pending \/ <<r, seq[r] + 1>> \in unspooled'

Begins(r) ==
  AgentReceives /\ down # <<>> /\ down[1] = Assign(r) /\ handle'[r] = "running" /\ seq'[r] = seq[r]

Loses(r) ==
  /\ down' = <<>> /\ seq'[r] = seq[r]
  /\ handle'[r] = IF handle[r] = "running" THEN "lost" ELSE handle[r]

LEMMA AgentMoves ==
  ASSUME IInv, [Next]_vars, NEW r \in Run
  PROVE  \/ handle'[r] = handle[r] /\ seq'[r] = seq[r]
         \/ Makes(r) \/ Begins(r) \/ Loses(r)
<1> USE DEF agentVars, replayVars, netVars
<1> DEFINE Goal == \/ handle'[r] = handle[r] /\ seq'[r] = seq[r]
                   \/ Makes(r) \/ Begins(r) \/ Loses(r)
<1>0. TypeOK /\ handle \in [Run -> {"none", "running", "over", "lost"}] /\ seq \in [Run -> 0 .. MaxSeq]
      /\ \A x \in Run : Assigned(x)
  BY DEF IInv, TypeOK
<1>1. ASSUME NEW x \in Run, Report(x) \/ Finish(x) PROVE Goal
  <2>1. Assigned(x)
    BY <1>0
  <2>2. /\ handle[x] = "running" /\ seq[x] + 1 \in Seqs /\ seq' = [seq EXCEPT ![x] = seq[x] + 1]
        /\ \A y \in Run \ {x} : handle'[y] = handle[y]
        /\ handle'[x] \in {"running", "over"} /\ (handle'[x] = "running" => seq[x] + 1 < MaxSeq)
        /\ spool[x].pending \subseteq spool'[x].pending
        /\ seq[x] + 1 \in spool'[x].pending \/ <<x, seq[x] + 1>> \in unspooled'
    BY <1>0, <1>1, <2>1, EmitMoves
  <2>3. CASE r = x
    BY <1>0, <2>2, <2>3 DEF Makes
  <2>4. CASE r # x
    BY <1>0, <2>2, <2>4
  <2> QED BY <2>3, <2>4
<1>2. ASSUME AgentReceives PROVE Goal
  <2>1. /\ down # <<>> /\ down[1] \in Downward /\ Head(down) = down[1] /\ seq' = seq
        /\ handle' = IF Head(down).kind = "assign"
                     THEN [handle EXCEPT ![Head(down).run] = "running"] ELSE handle
    BY <1>0, <1>2, ReceiveMoves
  <2>2. PICK f \in Downward : f = down[1]
    BY <2>1
  <2>3. handle' = IF f.kind = "assign" THEN [handle EXCEPT ![f.run] = "running"] ELSE handle
    BY <2>1, <2>2
  <2>4. CASE f.kind = "assign" /\ f.run = r
    <3>1. f = Assign(r)
      BY <2>4, OrderReads
    <3> QED BY <1>0, <1>2, <2>1, <2>2, <2>3, <2>4, <3>1 DEF Begins
  <2>5. CASE ~(f.kind = "assign" /\ f.run = r)
    BY <1>0, <2>1, <2>3, <2>5
  <2> QED BY <2>4, <2>5
<1>3. ASSUME AgentRestarts PROVE Goal
  BY <1>3 DEF AgentRestarts, Loses
<1>4. ASSUME NEW x \in Run, \/ Start(x) \/ Take(x) \/ Flush(x) \/ ServeRaises(x) \/ Stop(x)
                            \/ ForwardCancel(x) \/ File(x) \/ GraceOver(x)
      PROVE  Goal
  <2>1. UNCHANGED <<handle, seq>>
    BY <1>4 DEF Start, Take, Flush, ServeRaises, Stop, ForwardCancel, File, GraceOver
  <2> QED BY <2>1
<1>5. ASSUME NEW k \in Conn, HandlerEnds(k) \/ ServerReceives(k) PROVE Goal
  BY <1>5 DEF HandlerEnds, ServerReceives
<1>6. ASSUME \/ ReplayRead \/ ReplaySend \/ Drop \/ AgentNotices \/ Dial \/ HeartbeatsMissed
             \/ AliveMissing \/ Heartbeat \/ Crash \/ UNCHANGED vars
      PROVE  Goal
  <2>1. UNCHANGED <<handle, seq>>
    BY <1>6 DEF ReplayRead, ReplaySend, Drop, AgentNotices, Dial, HeartbeatsMissed, AliveMissing,
                Heartbeat, Crash, vars
  <2> QED BY <2>1
<1> HIDE DEF Goal
<1>7. Goal
  BY <1>1, <1>2, <1>3, <1>4, <1>5, <1>6 DEF Next
<1> QED BY <1>7 DEF Goal

\* A run makes frames only while it runs, and ends for good.
LEMMA SeqMoves ==
  ASSUME IInv, [Next]_vars, TypeOK', NEW r \in Run
  PROVE  /\ seq[r] \in Nat /\ seq'[r] \in Nat /\ seq[r] <= seq'[r]
         /\ handle[r] = "over" => handle'[r] = "over" /\ seq'[r] = seq[r]
         /\ handle'[r] = "none" => handle[r] = "none"
<1>0. /\ seq[r] \in 0 .. MaxSeq /\ seq'[r] \in 0 .. MaxSeq /\ Assigned(r) /\ down \in Seq(Downward)
  BY DEF IInv, TypeOK
<1>1. seq[r] \in Nat /\ seq'[r] \in Nat
  BY <1>0, SeqsAreNats
<1>2. CASE handle'[r] = handle[r] /\ seq'[r] = seq[r]
  BY <1>1, <1>2
<1>3. CASE Makes(r)
  BY <1>1, <1>3 DEF Makes
<1>4. CASE Begins(r)
  <2>1. 1 \in DOMAIN down
    BY <1>0, <1>4 DEF Begins
  <2>2. handle[r] = "none"
    BY <1>0, <1>4, <2>1 DEF Begins, Assigned
  <2> QED BY <1>1, <1>4, <2>2 DEF Begins
<1>5. CASE Loses(r)
  BY <1>1, <1>5 DEF Loses
<1> QED BY <1>2, <1>3, <1>4, <1>5, AgentMoves

\* The place of what was in flight once the first is read, or one more sent.
LEMMA TailReads ==
  ASSUME NEW S, NEW s \in Seq(S), s # <<>>
  PROVE  /\ DOMAIN Tail(s) = 1 .. Len(s) - 1 /\ Len(s) \in Nat \ {0} /\ DOMAIN s = 1 .. Len(s)
         /\ \A i \in 1 .. Len(s) - 1 : i + 1 \in DOMAIN s /\ Tail(s)[i] = s[i + 1]
  OBVIOUS

LEMMA JoinReads ==
  ASSUME NEW S, NEW s \in Seq(S), NEW t \in Seq(S)
  PROVE  /\ \A i \in DOMAIN (s \o t) : \/ i \in DOMAIN s /\ (s \o t)[i] = s[i]
                                       \/ \E j \in DOMAIN t : i = Len(s) + j /\ (s \o t)[i] = t[j]
<1>1. /\ s \o t \in Seq(S) /\ Len(s \o t) = Len(s) + Len(t)
      /\ \A i \in 1 .. Len(s) + Len(t) : (s \o t)[i] = IF i <= Len(s) THEN s[i] ELSE t[i - Len(s)]
  BY ConcatProperties
<1>2. Len(s) \in Nat /\ Len(t) \in Nat /\ DOMAIN s = 1 .. Len(s) /\ DOMAIN t = 1 .. Len(t)
      /\ DOMAIN (s \o t) = 1 .. Len(s) + Len(t)
  BY <1>1
<1> SUFFICES ASSUME NEW i \in 1 .. Len(s) + Len(t)
             PROVE  \/ i \in DOMAIN s /\ (s \o t)[i] = s[i]
                    \/ \E j \in DOMAIN t : i = Len(s) + j /\ (s \o t)[i] = t[j]
  BY <1>2
<1>3. CASE i <= Len(s)
  BY <1>1, <1>2, <1>3
<1>4. CASE ~(i <= Len(s))
  <2>1. i - Len(s) \in DOMAIN t /\ i = Len(s) + (i - Len(s))
    BY <1>2, <1>4
  <2>2. (s \o t)[i] = t[i - Len(s)]
    BY <1>1, <1>4
  <2> QED BY <2>1, <2>2
<1> QED BY <1>3, <1>4

\* What travels to the agent was travelling, or is said in this step.
LEMMA DownComes ==
  ASSUME IInv, [Next]_vars, NEW i \in DOMAIN down'
  PROVE  \/ i \in DOMAIN down /\ down'[i] = down[i]
         \/ AgentReceives /\ i + 1 \in DOMAIN down /\ down'[i] = down[i + 1]
         \/ Says(down'[i])
         \/ \E x \in Run : /\ Start(x) /\ i = Len(down) + 1 /\ down'[i] = Assign(x)
                           /\ down' = down \o <<Assign(x)>>
<1>0. TypeOK /\ down \in Seq(Downward)
  BY DEF IInv, TypeOK
<1>1. CASE down' = down
  BY <1>1
<1>2. CASE down' = <<>>
  BY <1>2
<1>3. CASE AgentReceives
  <2>1. down # <<>> /\ down' = Tail(down)
    BY <1>0, <1>3, ReceiveMoves
  <2>2. /\ DOMAIN down' = 1 .. Len(down) - 1
        /\ \A j \in 1 .. Len(down) - 1 : j + 1 \in DOMAIN down /\ down'[j] = down[j + 1]
    BY <1>0, <2>1, TailReads
  <2> QED BY <1>3, <2>2
<1>4. ASSUME NEW fs \in Seq(Downward), down' = down \/ (whole /\ down' = down \o fs),
             \A j \in DOMAIN fs : Says(fs[j])
      PROVE  (i \in DOMAIN down /\ down'[i] = down[i]) \/ Says(down'[i])
  <2>1. CASE down' = down
    BY <2>1
  <2>2. CASE down' = down \o fs
    <3>1. \/ i \in DOMAIN down /\ (down \o fs)[i] = down[i]
          \/ \E j \in DOMAIN fs : (down \o fs)[i] = fs[j]
      BY <1>0, <2>2, JoinReads
    <3> QED BY <1>4, <2>2, <3>1
  <2> QED BY <1>4, <2>1, <2>2
<1>5. ASSUME NEW x \in Run, Start(x), down' = down \o <<Assign(x)>>
      PROVE  \/ i \in DOMAIN down /\ down'[i] = down[i]
             \/ i = Len(down) + 1 /\ down'[i] = Assign(x)
  <2>1. PICK f \in Downward : f = Assign(x)
    BY MessageTypes
  <2>2. <<f>> \in Seq(Downward) /\ DOMAIN <<f>> = {1} /\ <<f>>[1] = f
    OBVIOUS
  <2>3. \/ i \in DOMAIN down /\ (down \o <<f>>)[i] = down[i]
        \/ \E j \in DOMAIN <<f>> : i = Len(down) + j /\ (down \o <<f>>)[i] = <<f>>[j]
    BY <1>0, <1>5, <2>1, <2>2, JoinReads
  <2> QED BY <1>5, <2>1, <2>2, <2>3
<1> QED BY <1>1, <1>2, <1>3, <1>4, <1>5, DownMoves

LEMMA NotAssigned == ASSUME NEW m, Says(m) PROVE \A r : m # Assign(r)
<1>1. m.kind # "assign"
  <2>1. CASE \E x \in Run : m = Cancel(x)
    BY <2>1 DEF Cancel
  <2>2. CASE SaysAck(m)
    <3>1. PICK x \in Run, n \in Seqs : m = Ack(x, n)
      BY <2>2 DEF SaysAck
    <3> QED BY <3>1 DEF Ack
  <2> QED BY <2>1, <2>2 DEF Says
<1>2. \A r : Assign(r).kind = "assign"
  BY DEF Assign
<1> QED BY <1>1, <1>2

LEMMA AssignedKept ==
  ASSUME IInv, [Next]_vars, TypeOK', NEW r \in Run
  PROVE  Assigned(r)'
<1>0. /\ TypeOK /\ Assigned(r) /\ down \in Seq(Downward) /\ down' \in Seq(Downward)
      /\ DOMAIN down \subseteq Nat /\ DOMAIN down' \subseteq Nat /\ Len(down) \in Nat
      /\ DOMAIN down = 1 .. Len(down)
  <2>1. TypeOK /\ Assigned(r)
    BY DEF IInv
  <2>2. down \in Seq(Downward) /\ down' \in Seq(Downward)
    BY <2>1 DEF TypeOK
  <2> QED BY <2>1, <2>2
<1>1. \A x, y \in Run : Assign(x) = Assign(y) => x = y
  BY DEF Assign
\* While its assignment travels, a run makes nothing.
<1>2. ASSUME handle[r] = "none", ~Begins(r)
      PROVE  handle'[r] = "none" /\ seq'[r] = seq[r]
  BY <1>2, AgentMoves DEF Makes, Loses
<1>3. ASSUME NEW i \in DOMAIN down', down'[i] = Assign(r)
      PROVE  \/ i \in DOMAIN down /\ down[i] = Assign(r) /\ ~AgentReceives
             \/ AgentReceives /\ i + 1 \in DOMAIN down /\ down[i + 1] = Assign(r)
             \/ Start(r) /\ i = Len(down) + 1 /\ down' = down \o <<Assign(r)>>
  <2>1. CASE AgentReceives
    <3>1. down # <<>> /\ down' = Tail(down)
      BY <1>0, <2>1, ReceiveMoves
    <3>2. /\ DOMAIN down' = 1 .. Len(down) - 1
          /\ \A j \in 1 .. Len(down) - 1 : j + 1 \in DOMAIN down /\ down'[j] = down[j + 1]
      BY <1>0, <3>1, TailReads
    <3> QED BY <1>3, <2>1, <3>2
  <2>2. CASE ~AgentReceives
    BY <1>1, <1>3, <2>2, DownComes, NotAssigned
  <2> QED BY <2>1, <2>2
<1>4. ASSUME Start(r) PROVE stage[r] = "queued" /\ stage'[r] # "queued" /\ handle'[r] = handle[r]
  <2>1. stage \in [Run -> {"queued", "serving", "reported", "filed"}]
    BY <1>0 DEF TypeOK
  <2> QED BY <1>4, <2>1 DEF Start, Returns, agentVars
<1>5. ASSUME NEW i \in DOMAIN down', down'[i] = Assign(r)
      PROVE  /\ handle'[r] = "none"
             /\ \A j \in DOMAIN down' : down'[j] = Assign(r) => j = i
  <2>1. CASE Start(r)
    <3>1. handle'[r] = "none" /\ \A j \in DOMAIN down : down[j] # Assign(r)
      BY <1>0, <1>4, <2>1 DEF Assigned
    <3>2. \A j \in DOMAIN down' : down'[j] = Assign(r) =>
             \/ AgentReceives /\ j + 1 \in DOMAIN down /\ down[j + 1] = Assign(r)
             \/ j = Len(down) + 1
      BY <1>3, <3>1
    <3> QED BY <1>5, <3>1, <3>2
  <2>2. CASE ~Start(r) /\ AgentReceives
    <3>1. i + 1 \in DOMAIN down /\ down[i + 1] = Assign(r) /\ i + 1 # 1
      BY <1>0, <1>3, <1>5, <2>2
    <3>2. handle[r] = "none" /\ \A j \in DOMAIN down : down[j] = Assign(r) => j = i + 1
      BY <1>0, <3>1 DEF Assigned
    <3>3. ~Begins(r)
      BY <1>0, <3>1, <3>2 DEF Begins
    <3>4. \A j \in DOMAIN down' : down'[j] = Assign(r) => j + 1 = i + 1
      BY <1>3, <2>2, <3>2
    <3> QED BY <1>0, <1>2, <3>2, <3>3, <3>4
  <2>3. CASE ~Start(r) /\ ~AgentReceives
    <3>1. i \in DOMAIN down /\ down[i] = Assign(r)
      BY <1>3, <1>5, <2>3
    <3>2. handle[r] = "none" /\ \A j \in DOMAIN down : down[j] = Assign(r) => j = i
      BY <1>0, <3>1 DEF Assigned
    <3>3. ~Begins(r)
      BY <2>3 DEF Begins
    <3>4. \A j \in DOMAIN down' : down'[j] = Assign(r) => j = i
      BY <1>3, <2>3, <3>2
    <3> QED BY <1>2, <3>2, <3>3, <3>4
  <2> QED BY <2>1, <2>2, <2>3
<1>6. ASSUME stage'[r] = "queued"
      PROVE  handle'[r] = "none" /\ \A i \in DOMAIN down' : down'[i] # Assign(r)
  <2>1. stage[r] = "queued"
    <3>1. CASE Crash
      BY <1>6, <3>1, CrashMoves
    <3>2. CASE ~Crash
      <4>1. Serves(r)
        BY <3>2, ServerMoves
      <4> QED BY <1>6, <4>1 DEF Serves, Rests, Noticed, Arrives, Starts, Ended, Saves, Skips,
                                Records, Completes, Files
    <3> QED BY <3>1, <3>2
  <2>2. handle[r] = "none" /\ \A i \in DOMAIN down : down[i] # Assign(r)
    BY <1>0, <2>1 DEF Assigned
  <2>3. ~Begins(r)
    BY <1>0, <2>2 DEF Begins
  <2>4. \A i \in DOMAIN down' : down'[i] # Assign(r)
    BY <1>3, <1>4, <1>6, <2>2
  <2> QED BY <1>2, <2>2, <2>3, <2>4
<1>7. handle'[r] = "none" => seq'[r] = 0
  <2>1. handle'[r] = "none" => handle[r] = "none" /\ ~Begins(r)
    BY SeqMoves DEF Begins
  <2> QED BY <1>0, <1>2, <2>1 DEF Assigned
<1>8. handle'[r] = "running" => seq'[r] < MaxSeq
  <2>1. CASE handle'[r] = handle[r] /\ seq'[r] = seq[r]
    BY <1>0, <2>1 DEF Assigned
  <2>2. CASE Makes(r)
    BY <2>2 DEF Makes
  <2>3. CASE Begins(r)
    <3>1. handle[r] = "none" /\ seq[r] = 0
      BY <1>0, <2>3 DEF Begins, Assigned
    <3> QED BY <2>3, <3>1, BoundsType DEF Begins
  <2>4. CASE Loses(r)
    BY <2>4 DEF Loses
  <2> QED BY <2>1, <2>2, <2>3, <2>4, AgentMoves
<1> QED BY <1>5, <1>6, <1>7, <1>8 DEF Assigned

----------------------------------------------------------------------------
(* What travels to the server *)

\* Frame n of r leaves on the connection; what is before it left before, or
\* is acknowledged, or was never spooled.
Sends(r, n) ==
  /\ spool'[r].sent = n /\ spool[r].sent <= n /\ n <= seq'[r]
  /\ \A m \in 1 .. n - 1 : \/ m <= spool[r].sent \/ m <= spool[r].acked
                           \/ <<r, m>> \in unspooled
  /\ up' = IF whole THEN [up EXCEPT ![ws] = Append(up[ws], Frame(r, n))] ELSE up
  /\ \A x \in Run \ {r} : spool'[x] = spool[x]
  /\ UNCHANGED <<ws, whole, cur, down, handler, tracked, revived, dialled>>

LEMMA TrafficMoves ==
  ASSUME IInv, [Next]_vars
  PROVE  \/ \E x \in Run, n \in Seqs : Sends(x, n)
         \/ up' = up /\ \A x \in Run : spool'[x].sent = spool[x].sent
         \/ Dial \/ Crash \/ \E k \in Conn : HandlerEnds(k) \/ ServerReceives(k)
<1> USE DEF agentVars, netVars, registryVars
<1> DEFINE Goal == \/ \E x \in Run, n \in Seqs : Sends(x, n)
                   \/ up' = up /\ \A x \in Run : spool'[x].sent = spool[x].sent
                   \/ Dial \/ Crash \/ \E k \in Conn : HandlerEnds(k) \/ ServerReceives(k)
<1>0. /\ TypeOK /\ BatchIsWhole /\ \A x \in Run : Assigned(x)
      /\ spool \in [Run -> SpoolType] /\ seq \in [Run -> 0 .. MaxSeq]
  <2>1. TypeOK /\ BatchIsWhole /\ \A x \in Run : Assigned(x)
    BY DEF IInv
  <2>2. spool \in [Run -> SpoolType] /\ seq \in [Run -> 0 .. MaxSeq]
    BY <2>1 DEF TypeOK, SpoolType
  <2> QED BY <2>1, <2>2
<1>t. \A x \in Run : spool[x].sent \in Nat /\ seq[x] \in Nat
  BY <1>0, SeqsAreNats DEF SpoolType
<1>1. ASSUME NEW r \in Run, Report(r) \/ Finish(r) PROVE Goal
  <2>a. Assigned(r)
    BY <1>0
  <2>0. /\ seq[r] + 1 \in Seqs /\ seq' = [seq EXCEPT ![r] = seq[r] + 1]
        /\ \A x \in Run \ {r} : spool'[x] = spool[x]
        /\ spool'[r].sent = IF SendsNow(r, seq[r] + 1) THEN seq[r] + 1 ELSE spool[r].sent
        /\ IF SendsNow(r, seq[r] + 1) THEN SendUp(Frame(r, seq[r] + 1)) ELSE up' = up
        /\ UNCHANGED <<ws, whole, cur, down, handler, tracked, revived, dialled>>
    BY <1>0, <1>1, <2>a, EmitMoves
  <2>1. CASE SendsNow(r, seq[r] + 1)
    <3>1. PICK n \in Seqs : n = seq[r] + 1
      BY <2>0
    <3>2. n = spool[r].sent + 1
      BY <2>1, <3>1 DEF SendsNow
    <3>3. up' = IF whole THEN [up EXCEPT ![ws] = Append(up[ws], Frame(r, n))] ELSE up
      BY <2>0, <2>1, <3>1 DEF SendUp
    <3>4. spool'[r].sent = n /\ spool[r].sent <= n /\ n <= seq'[r]
          /\ \A m \in 1 .. n - 1 : m <= spool[r].sent
      BY <1>0, <1>t, <2>0, <2>1, <3>1, <3>2
    <3>5. Sends(r, n)
      BY <2>0, <3>3, <3>4 DEF Sends
    <3> QED BY <3>5
  <2>2. CASE ~SendsNow(r, seq[r] + 1)
    BY <2>0, <2>2
  <2> QED BY <2>1, <2>2
<1>2. ASSUME ReplaySend PROVE Goal
  <2>0. todo # <<>> /\ batch # {} /\ batch \subseteq Seqs
    BY <1>0, <1>2 DEF BatchIsWhole, ReplaySend, TypeOK
  <2>1. PICK r \in Run, n \in Seqs : r = Head(todo) /\ n = Min(batch) /\ n \in batch
    BY <1>0, <1>2, <2>0, ReplaySendMoves
  <2>2. /\ \A b \in batch : n <= b
        /\ \A x \in Run \ {r} : spool'[x] = spool[x]
        /\ spool'[r].acked = spool[r].acked
        /\ IF n <= spool[r].sent THEN spool' = spool /\ up' = up
           ELSE spool'[r].sent = n /\ SendUp(Frame(r, n))
        /\ UNCHANGED <<seq, ws, whole, cur, down, handler, tracked, revived, dialled>>
    BY <1>0, <1>2, <2>0, <2>1, ReplaySendMoves DEF faultVars
  <2>3. CASE n <= spool[r].sent
    BY <2>2, <2>3
  <2>4. CASE ~(n <= spool[r].sent)
    <3>1. /\ n <= seq[r]
          /\ \A m \in 1 .. n - 1 : \/ m <= spool[r].sent \/ m \in batch
                                   \/ m <= spool[r].acked \/ <<r, m>> \in unspooled
      BY <1>0, <2>0, <2>1 DEF BatchIsWhole
    <3>2. \A m \in 1 .. n - 1 : m \notin batch
      BY <2>2, SeqsAreNats
    <3>3. up' = IF whole THEN [up EXCEPT ![ws] = Append(up[ws], Frame(r, n))] ELSE up
      BY <2>2, <2>4 DEF SendUp
    <3>5. spool'[r].sent = n /\ spool[r].sent <= n /\ n <= seq'[r]
      BY <1>t, <2>2, <2>4, <3>1, SeqsAreNats
    <3>6. Sends(r, n)
      BY <2>2, <3>1, <3>2, <3>3, <3>5 DEF Sends
    <3> QED BY <3>6
  <2> QED BY <2>3, <2>4
<1>3. ASSUME AgentReceives PROVE Goal
  BY <1>0, <1>3, ReceiveMoves
<1>4. ASSUME AgentRestarts PROVE Goal
  <2>1. /\ spool' = [x \in Run |-> [spool[x] EXCEPT !.open = FALSE, !.pending = {}]]
        /\ up' = up
    BY <1>4 DEF AgentRestarts
  <2>2. \A x \in Run : spool'[x].sent = spool[x].sent
    BY <1>0, <2>1 DEF SpoolType
  <2> QED BY <2>1, <2>2
<1>5. ASSUME NEW x \in Run, \/ Start(x) \/ Take(x) \/ Flush(x) \/ ServeRaises(x) \/ Stop(x)
                            \/ ForwardCancel(x) \/ File(x) \/ GraceOver(x)
      PROVE  Goal
  <2>1. UNCHANGED <<spool, up>>
    BY <1>5 DEF Start, Take, Flush, ServeRaises, Stop, ForwardCancel, File, GraceOver
  <2> QED BY <2>1
<1>6. ASSUME NEW k \in Conn, HandlerEnds(k) \/ ServerReceives(k) PROVE Goal
  BY <1>6
<1>7. ASSUME \/ ReplayRead \/ Drop \/ AgentNotices \/ HeartbeatsMissed
             \/ AliveMissing \/ Heartbeat \/ UNCHANGED vars
      PROVE  Goal
  <2>1. UNCHANGED <<spool, up>>
    BY <1>7 DEF ReplayRead, Drop, AgentNotices, HeartbeatsMissed, AliveMissing, Heartbeat, vars
  <2> QED BY <2>1
<1>8. ASSUME Dial \/ Crash PROVE Goal
  BY <1>8
<1> HIDE DEF Goal
<1>9. Goal
  BY <1>1, <1>2, <1>3, <1>4, <1>5, <1>6, <1>7, <1>8 DEF Next
<1> QED BY <1>9 DEF Goal

\* Acknowledgements apply, and a spool keeps what it has while it is open.
LEMMA SpoolMoves ==
  ASSUME IInv, [Next]_vars, NEW r \in Run
  PROVE  /\ \/ spool'[r].acked = spool[r].acked
            \/ AgentReceives /\ \E n \in Seqs : Head(down) = Ack(r, n) /\ spool'[r].acked = n
         /\ spool'[r].acked >= spool[r].acked
         /\ \/ Dial /\ spool'[r].sent = spool[r].acked
            \/ spool'[r].sent >= spool[r].sent
         /\ \/ spool'[r].pending = spool[r].pending /\ (spool'[r].open => spool[r].open)
            \/ ~spool'[r].open /\ spool'[r].pending = {} /\ handle'[r] # "running"
            \/ /\ Makes(r) /\ spool[r].pending \subseteq spool'[r].pending
               /\ spool'[r].pending \subseteq spool[r].pending \cup {seq[r] + 1}
               /\ seq[r] + 1 \in spool'[r].pending \/ <<r, seq[r] + 1>> \in unspooled'
<1> USE DEF agentVars, netVars, registryVars
<1>0. /\ TypeOK /\ BatchIsWhole /\ Assigned(r)
      /\ spool \in [Run -> SpoolType] /\ spool[r].acked \in Nat /\ spool[r].sent \in Nat
      /\ seq[r] \in Nat /\ todo \in Seq(Run)
  <2>1. TypeOK /\ BatchIsWhole /\ Assigned(r)
    BY DEF IInv
  <2>2. spool \in [Run -> SpoolType] /\ seq[r] \in 0 .. MaxSeq /\ todo \in Seq(Run)
    BY <2>1 DEF TypeOK, SpoolType
  <2>3. spool[r].acked \in 0 .. MaxSeq /\ spool[r].sent \in 0 .. MaxSeq
    BY <2>2 DEF SpoolType
  <2> QED BY <2>1, <2>2, <2>3, SeqsAreNats
<1> DEFINE Goal ==
  /\ \/ spool'[r].acked = spool[r].acked
     \/ AgentReceives /\ \E n \in Seqs : Head(down) = Ack(r, n) /\ spool'[r].acked = n
  /\ spool'[r].acked >= spool[r].acked
  /\ \/ Dial /\ spool'[r].sent = spool[r].acked
     \/ spool'[r].sent >= spool[r].sent
  /\ \/ spool'[r].pending = spool[r].pending /\ (spool'[r].open => spool[r].open)
     \/ ~spool'[r].open /\ spool'[r].pending = {} /\ handle'[r] # "running"
     \/ /\ Makes(r) /\ spool[r].pending \subseteq spool'[r].pending
        /\ spool'[r].pending \subseteq spool[r].pending \cup {seq[r] + 1}
        /\ seq[r] + 1 \in spool'[r].pending \/ <<r, seq[r] + 1>> \in unspooled'
<1>1. ASSUME spool'[r] = spool[r] PROVE Goal
  BY <1>0, <1>1
<1>2. ASSUME NEW x \in Run, Report(x) \/ Finish(x) PROVE Goal
  <2>a. Assigned(x) /\ seq \in [Run -> 0 .. MaxSeq]
    BY DEF IInv, TypeOK
  <2>0. \A y \in Run \ {x} : spool'[y] = spool[y]
    BY <1>0, <1>2, <2>a, EmitMoves
  <2>1. CASE x # r
    BY <1>1, <2>0, <2>1
  <2>2. CASE x = r
    <3>1. /\ handle[r] = "running" /\ seq[r] + 1 \in Seqs /\ seq' = [seq EXCEPT ![r] = seq[r] + 1]
          /\ handle'[r] \in {"running", "over"} /\ (handle'[r] = "running" => seq[r] + 1 < MaxSeq)
          /\ spool'[r].acked = spool[r].acked
          /\ spool'[r].sent = IF SendsNow(r, seq[r] + 1) THEN seq[r] + 1 ELSE spool[r].sent
          /\ spool[r].pending \subseteq spool'[r].pending
          /\ spool'[r].pending \subseteq spool[r].pending \cup {seq[r] + 1}
          /\ seq[r] + 1 \in spool'[r].pending \/ <<r, seq[r] + 1>> \in unspooled'
      BY <1>0, <1>2, <2>2, EmitMoves
    <3>2. Makes(r)
      BY <2>a, <3>1 DEF Makes
    <3>3. spool'[r].sent >= spool[r].sent
      BY <1>0, <3>1 DEF SendsNow
    <3> QED BY <1>0, <3>1, <3>2, <3>3
  <2> QED BY <2>1, <2>2
<1>3. ASSUME ReplaySend PROVE Goal
  <2>0. todo # <<>> /\ Head(todo) \in Run
    BY <1>0, <1>3 DEF BatchIsWhole, ReplaySend
  <2>1. /\ \A x \in Run \ {Head(todo)} : spool'[x] = spool[x]
        /\ spool'[Head(todo)].pending = spool[Head(todo)].pending
        /\ spool'[Head(todo)].acked = spool[Head(todo)].acked
        /\ spool'[Head(todo)].open = spool[Head(todo)].open
        /\ Min(batch) \in batch
        /\ \/ Min(batch) <= spool[Head(todo)].sent /\ spool' = spool
           \/ ~(Min(batch) <= spool[Head(todo)].sent) /\ spool'[Head(todo)].sent = Min(batch)
    BY <1>0, <1>3, <2>0, ReplaySendMoves
  <2>2. Min(batch) \in Nat
    BY <1>0, <2>1, SeqsAreNats DEF TypeOK
  <2>3. CASE r = Head(todo)
    BY <1>0, <1>1, <2>1, <2>2, <2>3
  <2>4. CASE r # Head(todo)
    BY <1>1, <2>1, <2>4
  <2> QED BY <2>3, <2>4
<1>4. ASSUME AgentReceives PROVE Goal
  <2>1. /\ spool'[r].pending = spool[r].pending /\ spool'[r].sent = spool[r].sent
        /\ spool'[r].open => spool[r].open
        /\ \/ spool'[r].acked = spool[r].acked
           \/ \E n \in Seqs : /\ Head(down) = Ack(r, n)
                              /\ spool'[r].acked \in {spool[r].acked, n}
        /\ spool'[r].acked >= spool[r].acked
    BY <1>0, <1>4, ReceiveMoves
  <2> QED BY <1>0, <1>4, <2>1
<1>5. ASSUME Dial PROVE Goal
  <2>1. spool'[r] = [spool[r] EXCEPT !.sent = spool[r].acked]
    BY <1>5 DEF Dial, Announces
  <2>2. /\ spool'[r].sent = spool[r].acked /\ spool'[r].acked = spool[r].acked
        /\ spool'[r].pending = spool[r].pending /\ spool'[r].open = spool[r].open
    BY <1>0, <2>1 DEF SpoolType
  <2> QED BY <1>0, <1>5, <2>2
<1>6. ASSUME AgentRestarts PROVE Goal
  <2>1. /\ spool'[r] = [spool[r] EXCEPT !.open = FALSE, !.pending = {}]
        /\ handle'[r] = IF handle[r] = "running" THEN "lost" ELSE handle[r]
    BY <1>6 DEF AgentRestarts
  <2>2. /\ spool'[r].sent = spool[r].sent /\ spool'[r].acked = spool[r].acked
        /\ spool'[r].pending = {} /\ spool'[r].open = FALSE
    BY <1>0, <2>1 DEF SpoolType
  <2>3. handle'[r] # "running" /\ ~spool'[r].open
    BY <2>1, <2>2
  <2> QED BY <1>0, <2>2, <2>3
<1>7. ASSUME NEW x \in Run, \/ Start(x) \/ Take(x) \/ Flush(x) \/ ServeRaises(x) \/ Stop(x)
                            \/ ForwardCancel(x) \/ File(x) \/ GraceOver(x)
      PROVE  Goal
  <2>1. spool' = spool
    BY <1>7 DEF Start, Take, Flush, ServeRaises, Stop, ForwardCancel, File, GraceOver
  <2> QED BY <1>1, <2>1
<1>8. ASSUME NEW k \in Conn, HandlerEnds(k) \/ ServerReceives(k) PROVE Goal
  <2>1. spool' = spool
    BY <1>8 DEF HandlerEnds, ServerReceives
  <2> QED BY <1>1, <2>1
<1>9. ASSUME \/ ReplayRead \/ Drop \/ AgentNotices \/ HeartbeatsMissed
             \/ AliveMissing \/ Heartbeat \/ Crash \/ UNCHANGED vars
      PROVE  Goal
  <2>1. spool' = spool
    BY <1>9 DEF ReplayRead, Drop, AgentNotices, HeartbeatsMissed, AliveMissing, Heartbeat, Crash, vars
  <2> QED BY <1>1, <2>1
<1> HIDE DEF Goal
<1>10. Goal
  BY <1>2, <1>3, <1>4, <1>5, <1>6, <1>7, <1>8, <1>9 DEF Next
<1> QED BY <1>10 DEF Goal

----------------------------------------------------------------------------
(* Nothing is said that was not made *)

LEMMA MessagesDiffer ==
  /\ \A r, x, m, n : Frame(r, m) = Frame(x, n) => r = x /\ m = n
  /\ \A r, x, m, n : Ack(r, m) = Ack(x, n) => r = x /\ m = n
  /\ \A r, m, S : Frame(r, m) # Alive(S)
  /\ \A r, x, m : Ack(r, m) # Assign(x) /\ Ack(r, m) # Cancel(x)
<1>1. \A r, m : Frame(r, m).kind = "frame" /\ Frame(r, m).run = r /\ Frame(r, m).seq = m
  BY DEF Frame
<1>2. \A r, m : Ack(r, m).kind = "ack" /\ Ack(r, m).run = r /\ Ack(r, m).seq = m
  BY DEF Ack
<1>3. \A S, x : Alive(S).kind = "alive" /\ Assign(x).kind = "assign" /\ Cancel(x).kind = "cancel"
  BY DEF Alive, Assign, Cancel
<1>4. \A r, m, S : Frame(r, m) # Alive(S)
  BY <1>1, <1>3
<1>5. \A r, x, m : Ack(r, m) # Assign(x) /\ Ack(r, m) # Cancel(x)
  BY <1>2, <1>3
<1>6. \A r, x, m, n : Frame(r, m) = Frame(x, n) => r = x /\ m = n
  BY <1>1
<1>7. \A r, x, m, n : Ack(r, m) = Ack(x, n) => r = x /\ m = n
  BY <1>2
<1> QED BY <1>4, <1>5, <1>6, <1>7

\* Where each frame in flight comes from.
LEMMA UpComes ==
  ASSUME IInv, [Next]_vars, NEW k \in Conn, NEW i \in DOMAIN up'[k], NEW r \in Run, NEW n \in Seqs,
         up'[k][i] = Frame(r, n)
  PROVE  \/ i \in DOMAIN up[k] /\ up[k][i] = Frame(r, n)
         \/ ServerReceives(k) /\ i + 1 \in DOMAIN up[k] /\ up[k][i + 1] = Frame(r, n)
         \/ Sends(r, n) /\ whole /\ k = ws /\ i = Len(up[k]) + 1
<1>0. /\ TypeOK /\ up \in [Conn -> Seq(Upward)] /\ up[k] \in Seq(Upward)
      /\ Len(up[k]) \in Nat /\ DOMAIN up[k] = 1 .. Len(up[k])
  <2>1. TypeOK /\ up \in [Conn -> Seq(Upward)]
    BY DEF IInv, TypeOK
  <2> QED BY <2>1
<1> DEFINE Goal == \/ i \in DOMAIN up[k] /\ up[k][i] = Frame(r, n)
                   \/ ServerReceives(k) /\ i + 1 \in DOMAIN up[k] /\ up[k][i + 1] = Frame(r, n)
                   \/ Sends(r, n) /\ whole /\ k = ws /\ i = Len(up[k]) + 1
<1>1. ASSUME up'[k] = up[k] PROVE Goal
  BY <1>1
<1>2. ASSUME up'[k] = <<>> PROVE Goal
  BY <1>2
<1>3. ASSUME NEW x \in Run, NEW m \in Seqs, Sends(x, m) PROVE Goal
  <2>1. CASE whole /\ k = ws
    <3>1. PICK f \in Upward : f = Frame(x, m)
      BY MessageTypes
    <3>2. up'[k] = Append(up[k], f)
      BY <1>0, <1>3, <2>1, <3>1 DEF Sends
    <3>3. /\ DOMAIN up'[k] = 1 .. Len(up[k]) + 1 /\ up'[k][Len(up[k]) + 1] = f
          /\ \A j \in 1 .. Len(up[k]) : up'[k][j] = up[k][j]
      BY <1>0, <3>2
    <3>4. CASE i = Len(up[k]) + 1
      <4>1. x = r /\ m = n
        BY <3>1, <3>3, <3>4, MessagesDiffer
      <4> QED BY <1>3, <2>1, <3>4, <4>1
    <3>5. CASE i \in 1 .. Len(up[k])
      BY <1>0, <3>3, <3>5
    <3> QED BY <1>0, <3>3, <3>4, <3>5
  <2>2. CASE ~(whole /\ k = ws)
    <3>1. up'[k] = up[k]
      BY <1>0, <1>3, <2>2 DEF Sends
    <3> QED BY <1>1, <3>1
  <2> QED BY <2>1, <2>2
<1>4. ASSUME Dial PROVE Goal
  <2>1. up' = up \/ up' = [up EXCEPT ![dialled + 1] = <<Alive(AliveRuns)>>]
    BY <1>4 DEF Dial
  <2>2. CASE up'[k] = up[k]
    BY <1>1, <2>2
  <2>3. CASE up'[k] # up[k]
    <3>1. up'[k] = <<Alive(AliveRuns)>>
      BY <1>0, <2>1, <2>3
    <3>2. up'[k][i] = Alive(AliveRuns)
      BY <3>1
    <3> QED BY <3>2, MessagesDiffer
  <2> QED BY <2>2, <2>3
<1>5. ASSUME NEW c \in Conn, HandlerEnds(c) PROVE Goal
  <2>1. up'[k] = up[k] \/ up'[k] = <<>>
    BY <1>0, <1>5 DEF HandlerEnds
  <2> QED BY <1>1, <1>2, <2>1
<1>6. ASSUME NEW c \in Conn, ServerReceives(c) PROVE Goal
  <2>1. up[c] # <<>> /\ up' = [up EXCEPT ![c] = Tail(up[c])]
    BY <1>0, <1>6, ServerReads
  <2>2. CASE c = k
    <3>1. up'[k] = Tail(up[k]) /\ up[k] # <<>>
      BY <1>0, <2>1, <2>2
    <3>2. /\ DOMAIN up'[k] = 1 .. Len(up[k]) - 1
          /\ \A j \in 1 .. Len(up[k]) - 1 : j + 1 \in DOMAIN up[k] /\ up'[k][j] = up[k][j + 1]
      BY <1>0, <3>1, TailReads
    <3> QED BY <1>6, <2>2, <3>2
  <2>3. CASE c # k
    <3>1. up'[k] = up[k]
      BY <1>0, <2>1, <2>3
    <3> QED BY <1>1, <3>1
  <2> QED BY <2>2, <2>3
<1>7. ASSUME Crash PROVE Goal
  BY <1>2, <1>7 DEF Crash
<1> HIDE DEF Goal
<1>8. Goal
  BY <1>1, <1>3, <1>4, <1>5, <1>6, <1>7, TrafficMoves
<1> QED BY <1>8 DEF Goal

LEMMA MadeKept ==
  ASSUME IInv, [Next]_vars, TypeOK', NEW r \in Run
  PROVE  Made(r)'
<1>0. /\ TypeOK /\ Made(r)
      /\ spool[r].sent \in Nat /\ spool[r].acked \in Nat /\ last[r] \in Nat /\ persisted[r] \in Nat
      /\ spool'[r].sent \in Nat /\ spool'[r].acked \in Nat /\ last'[r] \in Nat /\ persisted'[r] \in Nat
  <2>1. TypeOK /\ Made(r)
    BY DEF IInv
  <2>2. /\ spool[r] \in SpoolType /\ last[r] \in 0 .. MaxSeq /\ persisted[r] \in 0 .. MaxSeq
        /\ spool'[r] \in SpoolType /\ last'[r] \in 0 .. MaxSeq /\ persisted'[r] \in 0 .. MaxSeq
    BY <2>1 DEF TypeOK, SpoolType
  <2> QED BY <2>1, <2>2, SeqsAreNats DEF SpoolType
<1>1. seq[r] \in Nat /\ seq'[r] \in Nat /\ seq[r] <= seq'[r]
  BY SeqMoves
<1>2. spool'[r].sent <= seq'[r]
  <2>1. ASSUME NEW x \in Run, NEW n \in Seqs, Sends(x, n) PROVE spool'[r].sent <= seq'[r]
    <3>1. CASE x = r
      BY <2>1, <3>1 DEF Sends
    <3>2. CASE x # r
      <4>1. spool'[r] = spool[r]
        BY <2>1, <3>2 DEF Sends
      <4> QED BY <1>0, <1>1, <4>1 DEF Made
    <3> QED BY <3>1, <3>2
  <2>2. CASE spool'[r].sent = spool[r].sent
    BY <1>0, <1>1, <2>2 DEF Made
  <2>3. CASE Dial
    <3>1. spool'[r] = [spool[r] EXCEPT !.sent = spool[r].acked] /\ spool[r] \in SpoolType
      BY <1>0, <2>3, TypesAre DEF Dial, Announces, AgentTypes
    <3>2. spool'[r].sent = spool[r].acked
      BY <3>1 DEF SpoolType
    <3> QED BY <1>0, <1>1, <3>2 DEF Made
  <2>4. ASSUME Crash \/ \E k \in Conn : HandlerEnds(k) \/ ServerReceives(k)
        PROVE  spool'[r].sent = spool[r].sent
    BY <2>4 DEF Crash, HandlerEnds, ServerReceives, agentVars
  <2> QED BY <2>1, <2>2, <2>3, <2>4, TrafficMoves
<1>3. ASSUME NEW i \in DOMAIN down', NEW n \in Seqs, down'[i] = Ack(r, n) PROVE n <= seq'[r]
  <2>1. \/ i \in DOMAIN down /\ down[i] = Ack(r, n)
        \/ i + 1 \in DOMAIN down /\ down[i + 1] = Ack(r, n)
        \/ Says(down'[i])
    BY <1>3, DownComes, MessagesDiffer
  <2>2. n <= seq[r]
    <3>1. CASE Says(down'[i])
      BY <1>3, <3>1, MessagesDiffer DEF Says, SaysAck
    <3> QED BY <1>0, <2>1, <3>1 DEF Made
  <2> QED BY <1>1, <2>2, SeqsAreNats
<1>4. spool'[r].acked <= seq'[r]
  <2>1. CASE spool'[r].acked = spool[r].acked
    BY <1>0, <1>1, <2>1 DEF Made
  <2>2. ASSUME AgentReceives, NEW n \in Seqs, Head(down) = Ack(r, n), spool'[r].acked = n
        PROVE  spool'[r].acked <= seq'[r]
    <3>1. Head(down) = down[1] /\ 1 \in DOMAIN down
      <4>1. down \in Seq(Downward) /\ down # <<>>
        BY <1>0, <2>2, ReceiveMoves DEF TypeOK
      <4> QED BY <4>1
    <3>2. n <= seq[r]
      BY <1>0, <2>2, <3>1 DEF Made
    <3> QED BY <1>0, <1>1, <2>2, <3>2
  <2> QED BY <2>1, <2>2, SpoolMoves
<1>5. last'[r] <= seq'[r] /\ persisted'[r] <= seq'[r]
  <2>1. CASE Crash
    <3>1. last'[r] = persisted[r] /\ persisted'[r] = persisted[r]
      BY <2>1, CrashMoves
    <3> QED BY <1>0, <1>1, <3>1 DEF Made
  <2>2. CASE ~Crash
    <3>0. Serves(r)
      BY <2>2, ServerMoves
    <3>1. CASE last'[r] = last[r] /\ persisted'[r] = persisted[r]
      BY <1>0, <1>1, <3>1 DEF Made
    <3>2. CASE Arrives(r)
      <4>1. PICK n \in Seqs : cur \in Conn /\ up[cur] # <<>> /\ up[cur][1] = Frame(r, n)
                              /\ last'[r] = n /\ persisted'[r] = persisted[r]
        BY <3>2 DEF Arrives
      <4>2. 1 \in DOMAIN up[cur]
        <5>1. up[cur] \in Seq(Upward)
          BY <1>0, <4>1 DEF TypeOK
        <5> QED BY <4>1, <5>1
      <4>3. n <= seq[r]
        BY <1>0, <4>1, <4>2 DEF Made
      <4> QED BY <1>0, <1>1, <4>1, <4>3 DEF Made
    <3>3. CASE Saves(r)
      <4>1. last'[r] = last[r] /\ persisted'[r] = Recorded(r) /\ stage[r] = "serving"
        BY <3>3 DEF Saves
      <4>2. Recorded(r) <= seq[r]
        BY <4>1, RecordedWasMade
      <4> QED BY <1>0, <1>1, <4>1, <4>2 DEF Made
    <3>4. ASSUME NEW n \in Seqs, Completes(r, n) PROVE last'[r] <= seq'[r] /\ persisted'[r] <= seq'[r]
      <4>1. /\ last'[r] = last[r] /\ stage[r] = "serving"
            /\ persisted'[r] = persisted[r] \/ persisted'[r] = Max({Recorded(r), n})
            /\ IsFinal(r, n)
        BY <3>4 DEF Completes
      <4>2. n = seq[r]
        BY <4>1 DEF IsFinal
      <4>3. Recorded(r) <= seq[r] /\ Recorded(r) \in Nat /\ n \in Nat
        BY <4>1, RecordedWasMade, SeqsAreNats
      <4>4. Max({Recorded(r), n}) = IF Recorded(r) >= n THEN Recorded(r) ELSE n
        BY <4>3, MaxOfTwo
      <4> QED BY <1>0, <1>1, <4>1, <4>2, <4>3, <4>4 DEF Made
    <3> QED BY <3>0, <3>1, <3>2, <3>3, <3>4 DEF Serves, Rests, Noticed, Same, Starts, Ended,
               Skips, Records, Files
  <2> QED BY <2>1, <2>2
<1>6. ASSUME NEW k \in Conn, NEW i \in DOMAIN up'[k], NEW n \in Seqs, up'[k][i] = Frame(r, n)
      PROVE  n <= seq'[r]
  <2>1. CASE Sends(r, n)
    BY <2>1 DEF Sends
  <2>2. CASE ~Sends(r, n)
    <3>1. \E j \in DOMAIN up[k] : up[k][j] = Frame(r, n)
      BY <1>6, <2>2, UpComes
    <3>2. n <= seq[r]
      BY <1>0, <3>1 DEF Made
    <3> QED BY <1>1, <3>2, SeqsAreNats
  <2> QED BY <2>1, <2>2
<1> QED BY <1>2, <1>3, <1>4, <1>5, <1>6 DEF Made

LEMMA SpooledKept ==
  ASSUME IInv, [Next]_vars, TypeOK', NEW r \in Run
  PROVE  Spooled(r)'
<1>0. /\ Spooled(r) /\ Assigned(r) /\ spool[r].pending \subseteq Nat /\ seq[r] \in Nat
      /\ seq'[r] \in Nat /\ seq[r] <= seq'[r] /\ unspooled \subseteq unspooled'
  <2>1. TypeOK /\ Spooled(r) /\ Assigned(r)
    BY DEF IInv
  <2>2. spool[r] \in SpoolType
    BY <2>1 DEF TypeOK, SpoolType
  <2>3. unspooled \subseteq unspooled'
    <3>1. CASE Crash
      BY <3>1, CrashMoves
    <3>2. CASE ~Crash
      BY <3>2, ServerMoves
    <3> QED BY <3>1, <3>2
  <2> QED BY <2>1, <2>2, <2>3, SeqMoves, SeqsAreNats DEF SpoolType
<1>1. \/ spool'[r].pending = spool[r].pending /\ (spool'[r].open => spool[r].open)
      \/ ~spool'[r].open /\ spool'[r].pending = {} /\ handle'[r] # "running"
      \/ /\ Makes(r) /\ spool[r].pending \subseteq spool'[r].pending
         /\ spool'[r].pending \subseteq spool[r].pending \cup {seq[r] + 1}
         /\ seq[r] + 1 \in spool'[r].pending \/ <<r, seq[r] + 1>> \in unspooled'
  BY SpoolMoves
<1>2. CASE spool'[r].pending = spool[r].pending /\ (spool'[r].open => spool[r].open)
  <2>1. \A m \in spool'[r].pending : m <= seq'[r]
    BY <1>0, <1>2 DEF Spooled
  <2>2. ASSUME handle'[r] = "running" \/ spool'[r].open, NEW m \in 1 .. seq'[r]
        PROVE  m \in spool'[r].pending \/ <<r, m>> \in unspooled'
    <3>1. CASE handle'[r] = handle[r] /\ seq'[r] = seq[r]
      BY <1>0, <1>2, <2>2, <3>1 DEF Spooled
    <3>2. CASE Makes(r)
      <4>1. m \in 1 .. seq[r] \/ m = seq[r] + 1
        BY <1>0, <2>2, <3>2 DEF Makes
      <4>2. \A x \in 1 .. seq[r] : x \in spool[r].pending \/ <<r, x>> \in unspooled
        BY <1>0, <3>2 DEF Spooled, Makes
      <4> QED BY <1>0, <3>2, <4>1, <4>2 DEF Makes
    <3>3. CASE Begins(r)
      <4>1. seq[r] = 0
        <5>1. 1 \in DOMAIN down
          <6>1. down \in Seq(Downward) /\ down # <<>>
            BY <3>3 DEF IInv, TypeOK, Begins
          <6> QED BY <6>1
        <5> QED BY <1>0, <3>3, <5>1 DEF Assigned, Begins
      <4> QED BY <2>2, <3>3, <4>1 DEF Begins
    <3>4. CASE Loses(r)
      BY <1>0, <1>2, <2>2, <3>4 DEF Spooled, Loses
    <3> QED BY <3>1, <3>2, <3>3, <3>4, AgentMoves
  <2> QED BY <2>1, <2>2 DEF Spooled
<1>3. CASE ~spool'[r].open /\ spool'[r].pending = {} /\ handle'[r] # "running"
  BY <1>3 DEF Spooled
<1>4. CASE /\ Makes(r) /\ spool[r].pending \subseteq spool'[r].pending
           /\ spool'[r].pending \subseteq spool[r].pending \cup {seq[r] + 1}
           /\ seq[r] + 1 \in spool'[r].pending \/ <<r, seq[r] + 1>> \in unspooled'
  <2>1. \A m \in spool'[r].pending : m <= seq'[r]
    BY <1>0, <1>4 DEF Spooled, Makes
  <2>2. \A m \in 1 .. seq[r] : m \in spool[r].pending \/ <<r, m>> \in unspooled
    BY <1>0, <1>4 DEF Spooled, Makes
  <2>3. \A m \in 1 .. seq'[r] : m \in 1 .. seq[r] \/ m = seq[r] + 1
    BY <1>0, <1>4 DEF Makes
  <2>4. \A m \in 1 .. seq'[r] : m \in spool'[r].pending \/ <<r, m>> \in unspooled'
    BY <1>0, <1>4, <2>2, <2>3
  <2> QED BY <2>1, <2>4 DEF Spooled
<1> QED BY <1>1, <1>2, <1>3, <1>4

\* A batch is the first of what is owed.
LEMMA NextIsFirst ==
  ASSUME TypeOK, NEW r \in Run, NEW b \in NextBatch(r), NEW m \in Pending(r),
         m < b, m > spool[r].sent
  PROVE  m \in NextBatch(r)
<1> DEFINE owed == {n \in Pending(r) : n > spool[r].sent}
           before == {x \in owed : x < b}
           less == {x \in owed : x < m}
<1>0. owed \subseteq Seqs
  BY DEF Pending, TypeOK
<1>1. b \in owed /\ Cardinality(before) < ReplayBatch /\ m \in owed
  BY DEF NextBatch
<1>2. less \subseteq before
  <2>1. m \in Nat /\ b \in Nat /\ owed \subseteq Nat
    BY <1>0, <1>1, SeqsAreNats
  <2> QED BY <2>1
<1>3. IsFiniteSet(before) /\ before \subseteq Seqs
  BY <1>0, SeqsAreNats, FS_Subset
<1> HIDE DEF less, before
<1>4. Cardinality(less) <= Cardinality(before) /\ Cardinality(less) \in Nat /\ Cardinality(before) \in Nat
  BY <1>2, <1>3, FS_Subset, FS_CardinalityType
<1>5. Cardinality(less) < ReplayBatch
  BY <1>1, <1>4, BoundsType
<1> QED BY <1>1, <1>5 DEF NextBatch, less

LEMMA BatchKept ==
  ASSUME IInv, [Next]_vars, TypeOK'
  PROVE  BatchIsWhole'
<1> USE DEF agentVars, replayVars
<1>0. /\ TypeOK /\ BatchIsWhole /\ batch \subseteq Nat /\ batch' \subseteq Nat /\ todo \in Seq(Run)
  <2>1. TypeOK /\ BatchIsWhole
    BY DEF IInv
  <2>2. batch \subseteq Seqs /\ todo \in Seq(Run) /\ batch' \subseteq Seqs
    BY <2>1 DEF TypeOK
  <2> QED BY <2>1, <2>2, SeqsAreNats
<1>s. \A r \in Run : /\ spool[r].sent \in Nat /\ spool[r].acked \in Nat /\ spool[r].pending \subseteq Seqs
                     /\ spool'[r].sent \in Nat /\ spool'[r].acked \in Nat
                     /\ seq[r] \in Nat /\ seq'[r] \in Nat /\ seq[r] <= seq'[r]
  <2>1. \A r \in Run : spool[r] \in SpoolType /\ spool'[r] \in SpoolType
    BY <1>0 DEF TypeOK, SpoolType
  <2>2. \A r \in Run : seq[r] \in Nat /\ seq'[r] \in Nat /\ seq[r] <= seq'[r]
    BY SeqMoves
  <2> QED BY <2>1, <2>2, SeqsAreNats DEF SpoolType
<1>1. CASE batch' = {}
  BY <1>1 DEF BatchIsWhole
<1>2. CASE ReplayRead /\ batch' # {}
  <2>0. /\ todo # <<>> /\ batch = {} /\ UNCHANGED <<spool, seq, unspooled>>
        /\ batch' = NextBatch(Head(todo)) /\ todo' = todo /\ spool[Head(todo)].open
    BY <1>2 DEF ReplayRead
  <2>1. PICK r \in Run : r = Head(todo)
    BY <1>0, <2>0
  <2>2. Spooled(r)
    BY DEF IInv
  <2>3. ASSUME NEW b \in batch'
        PROVE  /\ b <= seq[r]
               /\ \A m \in 1 .. b - 1 : \/ m <= spool[r].sent \/ m \in batch'
                                        \/ m <= spool[r].acked \/ <<r, m>> \in unspooled
    <3>1. b \in spool[r].pending /\ b \in Nat
      BY <1>0, <2>0, <2>1 DEF NextBatch, Pending
    <3>2. b <= seq[r]
      BY <2>2, <3>1 DEF Spooled
    <3>3. ASSUME NEW m \in 1 .. b - 1, ~(m <= spool[r].sent), ~(m <= spool[r].acked),
                 <<r, m>> \notin unspooled
          PROVE  m \in batch'
      <4>1. m \in 1 .. seq[r] /\ m < b /\ m > spool[r].sent /\ m > spool[r].acked
        BY <1>s, <3>1, <3>2, <3>3
      <4>2. m \in spool[r].pending
        BY <2>0, <2>1, <2>2, <3>3, <4>1 DEF Spooled
      <4>3. m \in Pending(r)
        BY <4>1, <4>2 DEF Pending
      <4> QED BY <1>0, <2>0, <2>1, <4>1, <4>3, NextIsFirst
    <3> QED BY <3>2, <3>3
  <2> QED BY <2>0, <2>1, <2>3 DEF BatchIsWhole
<1>3. CASE ReplaySend
  <2>0. batch # {} /\ todo # <<>>
    BY <1>0, <1>3 DEF ReplaySend, BatchIsWhole
  <2>1. PICK r \in Run, n \in Nat : r = Head(todo) /\ n = Min(batch) /\ n \in batch
    BY <1>0, <1>3, <2>0, ReplaySendMoves
  <2>2. /\ batch' = batch \ {n} /\ UNCHANGED <<seq, unspooled, todo>>
        /\ spool'[r].acked = spool[r].acked
        /\ \/ n <= spool[r].sent /\ spool' = spool
           \/ ~(n <= spool[r].sent) /\ spool'[r].sent = n
    BY <1>0, <1>3, <2>0, <2>1, ReplaySendMoves
  <2>3. n <= spool'[r].sent /\ spool[r].sent <= spool'[r].sent
    BY <1>s, <2>2
  <2>4. \A b \in batch' :
           /\ b <= seq[r]
           /\ \A m \in 1 .. b - 1 : \/ m <= spool'[r].sent \/ m \in batch'
                                    \/ m <= spool'[r].acked \/ <<r, m>> \in unspooled
    <3> SUFFICES ASSUME NEW b \in batch'
                 PROVE  /\ b <= seq[r]
                        /\ \A m \in 1 .. b - 1 : \/ m <= spool'[r].sent \/ m \in batch'
                                                 \/ m <= spool'[r].acked \/ <<r, m>> \in unspooled
      OBVIOUS
    <3>1. /\ b <= seq[r]
          /\ \A m \in 1 .. b - 1 : \/ m <= spool[r].sent \/ m \in batch
                                   \/ m <= spool[r].acked \/ <<r, m>> \in unspooled
      BY <1>0, <2>0, <2>1, <2>2 DEF BatchIsWhole
    <3>2. \A m \in 1 .. b - 1 : m <= spool[r].sent => m <= spool'[r].sent
      BY <1>s, <2>3
    <3> QED BY <2>2, <2>3, <3>1, <3>2
  <2> QED BY <2>0, <2>1, <2>2, <2>4 DEF BatchIsWhole
<1>4. ASSUME UNCHANGED <<todo, batch>>, ~Dial PROVE BatchIsWhole'
  <2> SUFFICES ASSUME batch # {} PROVE BatchIsWhole'
    BY <1>1, <1>4
  <2>1. todo # <<>>
    BY <1>0 DEF BatchIsWhole
  <2>2. PICK r \in Run : r = Head(todo)
    BY <1>0, <2>1
  <2>3. spool'[r].sent >= spool[r].sent /\ spool'[r].acked >= spool[r].acked
    BY <1>4, SpoolMoves
  <2>4. unspooled \subseteq unspooled'
    <3>1. CASE Crash
      BY <3>1, CrashMoves
    <3>2. CASE ~Crash
      BY <3>2, ServerMoves
    <3> QED BY <3>1, <3>2
  <2>5. ASSUME NEW b \in batch
        PROVE  /\ b <= seq'[r]
               /\ \A m \in 1 .. b - 1 : \/ m <= spool'[r].sent \/ m \in batch
                                        \/ m <= spool'[r].acked \/ <<r, m>> \in unspooled'
    <3>1. /\ b <= seq[r] /\ b \in Nat
          /\ \A m \in 1 .. b - 1 : \/ m <= spool[r].sent \/ m \in batch
                                   \/ m <= spool[r].acked \/ <<r, m>> \in unspooled
      BY <1>0, <2>2 DEF BatchIsWhole
    <3>2. \A m \in 1 .. b - 1 : /\ m <= spool[r].sent => m <= spool'[r].sent
                                /\ m <= spool[r].acked => m <= spool'[r].acked
      BY <1>s, <2>3
    <3>3. b <= seq'[r]
      BY <1>s, <3>1
    <3> QED BY <2>4, <3>1, <3>2, <3>3
  <2> QED BY <1>4, <2>1, <2>2, <2>5 DEF BatchIsWhole
<1>5. ASSUME \/ (ReplayRead /\ batch' = {}) \/ AgentNotices \/ AgentRestarts \/ Dial
      PROVE  batch' = {}
  BY <1>5 DEF AgentNotices, AgentRestarts, Dial
<1>6. ASSUME NEW x \in Run, \/ Report(x) \/ Finish(x) \/ Start(x) \/ Take(x) \/ Flush(x)
                            \/ ServeRaises(x) \/ Stop(x) \/ ForwardCancel(x) \/ File(x) \/ GraceOver(x)
      PROVE  UNCHANGED <<todo, batch>>
  BY <1>6 DEF Report, Finish, Emit, Start, Take, Flush, ServeRaises, Stop, ForwardCancel, File, GraceOver
<1>7. ASSUME NEW k \in Conn, HandlerEnds(k) \/ ServerReceives(k) PROVE UNCHANGED <<todo, batch>>
  BY <1>7 DEF HandlerEnds, ServerReceives
<1>8. ASSUME \/ AgentReceives \/ Drop \/ HeartbeatsMissed \/ AliveMissing \/ Heartbeat \/ Crash
             \/ UNCHANGED vars
      PROVE  UNCHANGED <<todo, batch>>
  BY <1>8 DEF AgentReceives, Drop, HeartbeatsMissed, AliveMissing, Heartbeat, Crash, vars
<1>9. \/ ReplayRead \/ ReplaySend \/ AgentNotices \/ AgentRestarts \/ Dial \/ UNCHANGED <<todo, batch>>
  BY ONLY <1>6, <1>7, <1>8, [Next]_vars DEF Next
<1> QED BY <1>1, <1>2, <1>3, <1>4, <1>5, <1>9
----------------------------------------------------------------------------
(* Nothing of a served run is missing *)

\* An item of an inbox stays when one is added, or the first one is read.
LEMMA ItemStays ==
  ASSUME NEW s \in Seq(Items), NEW i \in DOMAIN s
  PROVE  /\ \A x \in Items : \E j \in DOMAIN Append(s, x) : Append(s, x)[j] = s[i]
         /\ s[1] = s[i] \/ \E j \in DOMAIN Tail(s) : Tail(s)[j] = s[i]
<1>1. DOMAIN s = 1 .. Len(s) /\ Len(s) \in Nat /\ i \in 1 .. Len(s)
  OBVIOUS
<1>2. ASSUME NEW x \in Items PROVE \E j \in DOMAIN Append(s, x) : Append(s, x)[j] = s[i]
  <2>1. i \in DOMAIN Append(s, x) /\ Append(s, x)[i] = s[i]
    BY <1>1
  <2> QED BY <2>1
<1>3. CASE i # 1
  <2>1. s # <<>> /\ i - 1 \in 1 .. Len(s) - 1
    BY <1>1, <1>3
  <2>2. (i - 1) + 1 = i
    BY <1>1
  <2>3. \A x \in 1 .. Len(s) - 1 : Tail(s)[x] = s[x + 1]
    BY <2>1, TailReads
  <2>4. i - 1 \in DOMAIN Tail(s) /\ Tail(s)[i - 1] = s[i]
    BY <2>1, <2>2, <2>3, TailReads
  <2> QED BY <1>2, <2>4
<1> QED BY <1>2, <1>3

LEMMA SetOfSeq ==
  ASSUME NEW s \in Seq(Seqs), NEW n \in Seqs
  PROVE  ToSet(s) \subseteq Seqs /\ ToSet(Append(s, n)) = ToSet(s) \cup {n}
<1>1. DOMAIN s = 1 .. Len(s) /\ Len(s) \in Nat /\ DOMAIN Append(s, n) = 1 .. Len(s) + 1
  OBVIOUS
<1>2. (\A i \in 1 .. Len(s) : Append(s, n)[i] = s[i] /\ s[i] \in Seqs) /\ Append(s, n)[Len(s) + 1] = n
  OBVIOUS
<1>3. 1 .. Len(s) + 1 = (1 .. Len(s)) \cup {Len(s) + 1}
  BY <1>1
<1>4. ToSet(s) = {s[i] : i \in 1 .. Len(s)} /\ ToSet(Append(s, n)) = {Append(s, n)[i] : i \in 1 .. Len(s) + 1}
  BY <1>1 DEF ToSet
<1> QED BY <1>2, <1>3, <1>4

\* What a step that is no crash does to the inbox and the log.
LEMMA InboxMoves ==
  ASSUME NEW r \in Run, Serves(r), ~Files(r)
  PROVE  \/ log'[r] = log[r] /\ inbox'[r] = inbox[r]
         \/ log'[r] = log[r] /\ \E x \in Items : inbox'[r] = Append(inbox[r], x)
         \/ /\ log'[r] = log[r] /\ inbox[r] # <<>> /\ inbox[r][1].kind # "frame"
            /\ inbox'[r] = Tail(inbox[r])
         \/ \E n \in Seqs : /\ log'[r] = Append(log[r], n) /\ inbox[r] # <<>>
                            /\ inbox[r][1] = Item(n) /\ inbox'[r] = Tail(inbox[r])
<1>1. CASE Rests(r) \/ Noticed(r) \/ Starts(r) \/ Ended(r) \/ Saves(r) \/ Skips(r)
  BY <1>1 DEF Rests, Noticed, Starts, Ended, Saves, Skips, Same, Read
<1>2. CASE Arrives(r)
  <2>1. PICK n \in Seqs : inbox'[r] = Append(inbox[r], Item(n)) /\ log'[r] = log[r]
    BY <1>2 DEF Arrives
  <2>2. Item(n) \in Items
    BY MessageTypes DEF Item
  <2> QED BY <2>1, <2>2
<1>3. CASE \E n \in Seqs : Records(r, n) \/ Completes(r, n)
  BY <1>3 DEF Records, Completes
<1> QED BY <1>1, <1>2, <1>3 DEF Serves

\* What is covered stays so until the run is filed or the server crashes.
LEMMA CoveredStays ==
  ASSUME IInv, [Next]_vars, ~Crash, NEW r \in Run, ~Files(r), NEW m, Covered(r, m)
  PROVE  Covered(r, m)'
<1>1. Serves(r) /\ stored \subseteq stored' /\ unspooled \subseteq unspooled'
  BY ServerMoves
<1>2. log[r] \in Seq(Seqs) /\ inbox[r] \in Seq(Items)
  BY DEF IInv, TypeOK
<1>i. ASSUME inbox[r] # <<>>, inbox'[r] = Tail(inbox[r])
      PROVE  \A i \in DOMAIN inbox[r] : \/ inbox[r][1] = inbox[r][i]
                                        \/ \E j \in DOMAIN inbox'[r] : inbox'[r][j] = inbox[r][i]
  <2>1. PICK s \in Seq(Items) : s = inbox[r]
    BY <1>2
  <2>2. \A i \in DOMAIN s : s[1] = s[i] \/ \E j \in DOMAIN Tail(s) : Tail(s)[j] = s[i]
    BY ItemStays
  <2>3. \A i \in DOMAIN s : s[1] = s[i] \/ \E j \in DOMAIN inbox'[r] : inbox'[r][j] = s[i]
    <3>1. inbox'[r] = Tail(s)
      BY <1>i, <2>1
    <3> QED BY ONLY <2>2, <3>1, Zenon
  <2> QED BY <2>1, <2>3
<1>3. /\ ToSet(log[r]) \subseteq ToSet(log'[r])
      /\ \A i \in DOMAIN inbox[r] : inbox[r][i] = Item(m) =>
           m \in ToSet(log'[r]) \/ \E j \in DOMAIN inbox'[r] : inbox'[r][j] = Item(m)
  <2>1. CASE log'[r] = log[r] /\ inbox'[r] = inbox[r]
    BY <2>1
  <2>2. ASSUME log'[r] = log[r], NEW x \in Items, inbox'[r] = Append(inbox[r], x)
        PROVE  <1>3!:
    BY <1>2, <2>2, ItemStays
  <2>3. CASE /\ log'[r] = log[r] /\ inbox[r] # <<>> /\ inbox[r][1].kind # "frame"
             /\ inbox'[r] = Tail(inbox[r])
    <3>1. inbox[r][1] # Item(m)
      BY <2>3 DEF Item
    <3> QED BY <1>i, <2>3, <3>1
  <2>4. ASSUME NEW n \in Seqs, log'[r] = Append(log[r], n), inbox[r] # <<>>,
               inbox[r][1] = Item(n), inbox'[r] = Tail(inbox[r])
        PROVE  <1>3!:
    <3>1. n \in ToSet(log'[r]) /\ ToSet(log[r]) \subseteq ToSet(log'[r])
      BY <1>2, <2>4, SetOfSeq
    <3>2. Item(n) = Item(m) => n = m
      BY DEF Item
    <3> QED BY <1>i, <2>4, <3>1, <3>2
  <2> QED BY <1>1, <2>1, <2>2, <2>3, <2>4, InboxMoves
<1> QED BY <1>1, <1>3 DEF Covered, KeptOrLost

\* Of a served run everything is there up to the last frame received.
LEMMA GaplessKept ==
  ASSUME IInv, [Next]_vars, TypeOK', NEW r \in Run
  PROVE  Gapless(r)'
<1>0. SUFFICES ASSUME stage'[r] = "serving", r \notin revived', NEW m \in 1 .. last'[r]
               PROVE  Covered(r, m)'
  BY DEF Gapless
<1>t. /\ TypeOK /\ Gapless(r) /\ Contiguous(r) /\ Assigned(r) /\ Made(r) /\ InboxInOrder(r)
      /\ ServedTracked(r)
  BY ServedIs DEF IInv
<1>n. /\ last[r] \in Nat /\ last'[r] \in Nat /\ persisted[r] \in Nat /\ m \in Nat /\ m >= 1
      /\ log[r] \in Seq(Seqs) /\ inbox[r] \in Seq(Items) /\ m \in Seqs
  <2>1. /\ last[r] \in 0 .. MaxSeq /\ last'[r] \in 0 .. MaxSeq /\ persisted[r] \in 0 .. MaxSeq
        /\ log[r] \in Seq(Seqs) /\ inbox[r] \in Seq(Items)
    BY <1>t DEF TypeOK
  <2>2. last[r] \in Nat /\ last'[r] \in Nat /\ persisted[r] \in Nat /\ MaxSeq \in Nat
    BY <2>1, SeqsAreNats, BoundsType
  <2>3. m \in Nat /\ m >= 1 /\ m <= MaxSeq
    BY <2>1, <2>2
  <2> QED BY <2>1, <2>2, <2>3 DEF Seqs
<1>1. CASE Crash
  <2>1. /\ last'[r] = persisted[r] /\ stored \subseteq stored' /\ unspooled' = unspooled
        /\ \A n \in ToSet(log[r]) : n <= persisted[r] => <<r, n>> \in stored'
        /\ stage[r] = "serving" /\ r \in tracked /\ r \notin revived
    BY <1>0, <1>1, CrashMoves
  <2>2. Recorded(r) <= last[r] /\ persisted[r] <= Recorded(r) /\ Recorded(r) \in Nat
    BY <2>1, RecordedWasMade, SeqsAreNats
  <2>3. m <= persisted[r]
    BY <1>n, <2>1
  <2>4. Covered(r, m)
    BY <1>t, <1>n, <2>1, <2>2, <2>3 DEF Gapless
  <2>5. ~ \E i \in DOMAIN inbox[r] : inbox[r][i] = Item(m)
    <3>1. ASSUME NEW i \in DOMAIN inbox[r], inbox[r][i] = Item(m) PROVE FALSE
      <4>1. Recorded(r) < m
        BY <1>t, <2>1, <3>1 DEF InboxInOrder, Item
      <4> QED BY <1>n, <2>2, <2>3, <4>1
    <3> QED BY <3>1
  <2>6. m \in KeptOrLost(r)
    BY <2>4, <2>5 DEF Covered
  <2>7. <<r, m>> \in stored' \cup unspooled'
    BY <2>1, <2>3, <2>6 DEF KeptOrLost
  <2> QED BY <1>n, <2>7 DEF Covered, KeptOrLost
<1>2. CASE ~Crash
  <2>1. Serves(r) /\ revived' = revived /\ stage[r] \in {"queued", "serving", "reported", "filed"}
    BY <1>2, <1>t, ServerMoves DEF TypeOK
  <2>2. ~Files(r) /\ r \notin revived
    BY <1>0, <2>1 DEF Files
  <2>3. ASSUME stage[r] = "serving", m <= last[r] PROVE Covered(r, m)'
    <3>1. Covered(r, m)
      BY <1>t, <1>n, <2>2, <2>3 DEF Gapless
    <3> QED BY <1>2, <2>2, <3>1, CoveredStays
  <2>4. CASE Arrives(r)
    <3>1. PICK n \in Seqs : /\ up[cur][1] = Frame(r, n) /\ n > last[r] /\ last'[r] = n
                            /\ inbox'[r] = Append(inbox[r], Item(n))
      BY <2>4 DEF Arrives
    <3>2. r \in tracked /\ cur \in Conn /\ up[cur] # <<>>
      BY <2>4 DEF Arrives
    <3>3. CASE m = n
      <4>1. Item(n) \in Items
        BY MessageTypes DEF Item
      <4>2. Len(inbox[r]) + 1 \in DOMAIN inbox'[r] /\ inbox'[r][Len(inbox[r]) + 1] = Item(n)
        BY <1>n, <3>1, <4>1
      <4> QED BY <3>3, <4>2 DEF Covered
    <3>4. CASE m # n
      <4>1. m \in 1 .. n - 1
        BY <1>n, <3>1, <3>4, SeqsAreNats
      <4>2. 1 \in DOMAIN up[cur] /\ cur # 0
        <5>1. up[cur] \in Seq(Upward)
          BY <1>t, <3>2 DEF TypeOK
        <5>2. 1 \in DOMAIN up[cur]
          BY <3>2, <5>1
        <5> QED BY <3>2, <5>2 DEF Conn
      <4>3. Covered(r, m) \/ Travels(r, cur, m, 1 - 1)
        BY <1>t, <2>2, <3>1, <3>2, <4>1, <4>2 DEF Contiguous
      <4>4. ~Travels(r, cur, m, 1 - 1)
        BY DEF Travels
      <4> QED BY <1>2, <2>2, <4>3, <4>4, CoveredStays
    <3> QED BY <3>3, <3>4
  <2>5. CASE Starts(r)
    <3>1. last'[r] = last[r] /\ handle[r] = "none"
      BY <1>t, <2>5 DEF Starts, Same, Assigned
    <3>2. last[r] <= 0
      BY <1>t, <3>1 DEF Assigned, Made
    <3> QED BY <1>n, <3>1, <3>2
  <2>6. CASE Rests(r) \/ Noticed(r) \/ Saves(r) \/ Skips(r) \/ \E n \in Seqs : Records(r, n)
    <3>1. last'[r] = last[r] /\ stage[r] = stage'[r]
      BY <2>6 DEF Rests, Noticed, Saves, Skips, Records, Same
    <3> QED BY <1>0, <1>n, <2>3, <3>1
  <2>7. CASE Ended(r) \/ \E n \in Seqs : Completes(r, n)
    BY <1>0, <2>7 DEF Ended, Completes
  <2> QED BY <2>1, <2>2, <2>4, <2>5, <2>6, <2>7 DEF Serves
<1> QED BY <1>1, <1>2

----------------------------------------------------------------------------
(* A run filed as finished is complete *)

LEMMA FinishedKept ==
  ASSUME IInv, [Next]_vars, TypeOK', NEW r \in Run
  PROVE  Finished(r)'
<1>t. /\ TypeOK /\ Gapless(r) /\ InboxInOrder(r) /\ ServedTracked(r) /\ Finished(r)
  BY ServedIs DEF IInv
<1>n. /\ last[r] \in Nat /\ seq[r] \in Nat /\ log[r] \in Seq(Seqs) /\ inbox[r] \in Seq(Items)
      /\ stage[r] \in {"queued", "serving", "reported", "filed"} /\ MaxSeq \in Nat
      /\ seq[r] <= MaxSeq
  <2>1. /\ last[r] \in 0 .. MaxSeq /\ seq[r] \in 0 .. MaxSeq /\ log[r] \in Seq(Seqs)
        /\ inbox[r] \in Seq(Items) /\ stage[r] \in {"queued", "serving", "reported", "filed"}
    BY <1>t DEF TypeOK
  <2> QED BY <2>1, SeqsAreNats, BoundsType
<1>s. handle[r] = "over" => handle'[r] = "over" /\ seq'[r] = seq[r]
  BY SeqMoves
<1>1. CASE Crash
  <2>1. /\ log'[r] = <<>> /\ stored \subseteq stored' /\ unspooled' = unspooled
        /\ IF stage[r] \in {"serving", "reported"}
           THEN stage'[r] = "serving" /\ result'[r] = "none"
           ELSE /\ stage'[r] = "filed"
                /\ result'[r] = IF stage[r] = "queued" THEN "interrupted" ELSE result[r]
        /\ r \in revived => r \in revived'
    BY <1>1, CrashMoves
  <2>2. ASSUME result'[r] = "finished"
        PROVE  /\ stage'[r] = "filed" /\ result[r] = "finished" /\ handle[r] = "over"
               /\ log[r] = <<>>
    BY <1>t, <1>n, <2>1, <2>2 DEF Finished
  <2>3. ASSUME log[r] = <<>> PROVE KeptOrLost(r) \subseteq KeptOrLost(r)'
    <3>1. ToSet(<<>>) = {}
      BY DEF ToSet
    <3> QED BY <2>1, <2>3, <3>1 DEF KeptOrLost
  <2> QED BY <1>t, <1>s, <2>1, <2>2, <2>3 DEF Finished
<1>2. CASE ~Crash
  <2>1. Serves(r) /\ revived' = revived /\ stored \subseteq stored' /\ unspooled \subseteq unspooled'
    BY <1>2, ServerMoves
  <2>2. ASSUME Rests(r) PROVE Finished(r)'
    <3>1. stage'[r] = stage[r] /\ result'[r] = result[r] /\ log'[r] = log[r]
      BY <2>2 DEF Rests, Same
    <3>2. KeptOrLost(r) \subseteq KeptOrLost(r)'
      BY <2>1, <3>1 DEF KeptOrLost
    <3> QED BY <1>t, <1>s, <2>1, <3>1, <3>2 DEF Finished
  <2>3. ASSUME stage'[r] # "filed", result'[r] # "finished" PROVE Finished(r)'
    BY <2>3 DEF Finished
  <2>4. ASSUME stage[r] \in {"queued", "serving"}, stage'[r] \in {"serving", "queued"},
               result'[r] = result[r]
        PROVE  Finished(r)'
    BY <1>t, <2>3, <2>4 DEF Finished
  <2>5. ASSUME Ended(r) PROVE Finished(r)'
    BY <2>3, <2>5 DEF Ended
  <2>6. ASSUME NEW n \in Seqs, Completes(r, n) PROVE Finished(r)'
    <3>1. /\ inbox[r] # <<>> /\ inbox[r][1] = Item(n) /\ inbox'[r] = Tail(inbox[r])
          /\ n = seq[r] /\ handle[r] = "over" /\ log'[r] = Append(log[r], n)
          /\ stage[r] = "serving" /\ stage'[r] = "reported"
      BY <2>6 DEF Completes, IsFinal
    <3>2. Item(n).kind = "frame" /\ Item(n).seq = n /\ 1 \in DOMAIN inbox[r]
      BY <1>n, <3>1 DEF Item
    <3>3. n <= last[r] /\ \A j \in DOMAIN inbox[r] : 1 < j /\ inbox[r][j].kind = "frame" => n < inbox[r][j].seq
      BY <1>t, <3>1, <3>2 DEF InboxInOrder
    <3>4. n \in ToSet(log'[r])
      BY <1>n, <3>1, SetOfSeq
    <3>5. ASSUME r \notin revived, NEW m \in 1 .. seq[r] PROVE m \in KeptOrLost(r)'
      <4>0. m \in Nat /\ m \in 1 .. last[r] /\ m <= n /\ m \in Seqs
        BY <1>n, <3>1, <3>3, <3>5 DEF Seqs
      <4>1. Covered(r, m)
        BY <1>t, <3>1, <3>5, <4>0 DEF Gapless
      <4>2. Covered(r, m)'
        BY <1>2, <3>1, <4>1, CoveredStays DEF Files
      <4>3. ASSUME NEW j \in DOMAIN inbox'[r], inbox'[r][j] = Item(m) PROVE FALSE
        <5>1. j \in 1 .. Len(inbox[r]) - 1 /\ Len(inbox[r]) \in Nat
          BY <1>n, <3>1, <4>3, TailReads
        <5>2. j + 1 \in DOMAIN inbox[r] /\ inbox[r][j + 1] = Item(m)
          BY <1>n, <3>1, <4>3, <5>1, TailReads
        <5>3. 1 < j + 1 /\ inbox[r][j + 1].kind = "frame" /\ inbox[r][j + 1].seq = m
          BY <5>1, <5>2 DEF Item
        <5>4. n < m
          BY <3>3, <5>2, <5>3
        <5> QED BY <1>n, <3>1, <4>0, <5>4
      <4> QED BY <4>2, <4>3 DEF Covered
    <3>6. handle'[r] = "over" /\ seq'[r] = seq[r]
      BY <1>s, <3>1
    <3> QED BY <2>1, <3>1, <3>5, <3>6 DEF Finished
  <2>7. ASSUME Files(r) PROVE Finished(r)'
    <3>1. /\ stage[r] = "reported" /\ stage'[r] = "filed" /\ log'[r] = <<>>
          /\ result'[r] = result[r] /\ \A n \in ToSet(log[r]) : <<r, n>> \in stored'
      BY <2>7 DEF Files
    <3>2. ToSet(log[r]) \subseteq Seqs
      BY <1>n DEF ToSet
    <3>3. KeptOrLost(r) \subseteq KeptOrLost(r)'
      BY <2>1, <3>1, <3>2 DEF KeptOrLost
    <3> QED BY <1>t, <1>s, <2>1, <3>1, <3>3 DEF Finished
  <2>8. ASSUME Noticed(r) \/ Arrives(r) PROVE Finished(r)'
    BY <1>t, <2>4, <2>8 DEF Noticed, Arrives, Same, ServedTracked
  <2>9. ASSUME Starts(r) \/ Saves(r) \/ Skips(r) \/ \E n \in Seqs : Records(r, n) PROVE Finished(r)'
    BY <2>4, <2>9 DEF Starts, Saves, Skips, Records, Same
  <2> QED BY <2>1, <2>2, <2>5, <2>6, <2>7, <2>8, <2>9 DEF Serves
<1> QED BY <1>1, <1>2

----------------------------------------------------------------------------
(* The connection carries the frames of a served run without a gap *)

\* Only a new connection or a crash changes what the registry means, and the
\* network is never mended.
LEMMA LinkMoves ==
  ASSUME IInv, [Next]_vars, ~Dial, ~Crash
  PROVE  cur' = cur /\ (whole' => whole)
<1> USE DEF netVars, registryVars
<1> DEFINE Goal == cur' = cur /\ (whole' => whole)
<1>1. ASSUME UNCHANGED <<cur, whole>> PROVE Goal
  BY <1>1
<1>2. ASSUME NEW r \in Run, Report(r) \/ Finish(r) PROVE Goal
  BY <1>1, <1>2 DEF Report, Finish, Emit
<1>3. ASSUME NEW r \in Run, \/ Start(r) \/ Take(r) \/ Flush(r) \/ ServeRaises(r) \/ Stop(r)
                            \/ ForwardCancel(r) \/ File(r) \/ GraceOver(r)
      PROVE  Goal
  BY <1>1, <1>3 DEF Start, Take, Flush, ServeRaises, Stop, ForwardCancel, File, GraceOver
<1>4. ASSUME ReplayRead \/ ReplaySend \/ AgentReceives \/ AliveMissing \/ Heartbeat \/ UNCHANGED vars
      PROVE  Goal
  BY <1>1, <1>4 DEF ReplayRead, ReplaySend, AgentReceives, AliveMissing, Heartbeat, vars
<1>5. ASSUME Drop \/ AgentNotices \/ AgentRestarts PROVE Goal
  <2>1. cur' = cur /\ (whole' = whole \/ whole' = FALSE)
    BY <1>5 DEF Drop, AgentNotices, AgentRestarts
  <2> QED BY <2>1
<1>6. ASSUME HeartbeatsMissed PROVE Goal
  <2>1. cur' = cur /\ whole' = (whole /\ cur # ws)
    BY <1>6 DEF HeartbeatsMissed, Disconnects
  <2> QED BY <2>1
<1>7. ASSUME NEW k \in Conn, HandlerEnds(k) PROVE Goal
  BY <1>1, <1>7 DEF HandlerEnds, Disconnects
<1>8. ASSUME NEW k \in Conn, ServerReceives(k) PROVE Goal
  <2>1. UNCHANGED <<cur, whole>>
    BY <1>8, ServerReads DEF IInv, ReceiveAlive
  <2> QED BY <1>1, <2>1
<1> HIDE DEF Goal
<1>9. Goal
  BY <1>2, <1>3, <1>4, <1>5, <1>6, <1>7, <1>8 DEF Next
<1> QED BY <1>9 DEF Goal

\* A run that is tracked was tracked before, or is assigned in this step.
LEMMA TrackedWas ==
  ASSUME IInv, [Next]_vars, NEW r \in Run, r \in tracked', r \notin revived'
  PROVE  /\ r \notin revived /\ (r \in tracked \/ stage[r] = "queued")
         /\ persisted[r] <= persisted'[r] /\ ~Files(r)
<1>0. ServedTracked(r) /\ stage[r] \in {"queued", "serving", "reported", "filed"} /\ persisted[r] \in Nat
  <2>1. ServedTracked(r) /\ TypeOK
    BY ServedIs DEF IInv
  <2>2. persisted[r] \in 0 .. MaxSeq /\ stage[r] \in {"queued", "serving", "reported", "filed"}
    BY <2>1 DEF TypeOK
  <2> QED BY <2>1, <2>2, SeqsAreNats
<1>1. CASE Crash
  <2>1. /\ r \in tracked /\ stage[r] = "serving" /\ r \notin revived /\ persisted'[r] = persisted[r]
    BY <1>0, <1>1, CrashMoves
  <2> QED BY <1>0, <2>1 DEF Files
<1>2. CASE ~Crash
  <2>1. Serves(r) /\ revived' = revived
    BY <1>2, ServerMoves
  <2>2. ~Files(r) /\ ~Ended(r) /\ ~ \E n \in Seqs : Completes(r, n)
    BY <1>0 DEF Files, Ended, Completes, ServedTracked
  <2>3. CASE Saves(r)
    <3>1. persisted'[r] = Recorded(r) /\ r \in tracked /\ stage[r] = "serving"
      BY <2>3 DEF Saves
    <3>2. persisted[r] <= persisted'[r]
      BY <3>1, RecordedWasMade
    <3> QED BY <2>1, <2>2, <3>1, <3>2
  <2>4. ASSUME \/ Rests(r) \/ Noticed(r) \/ Arrives(r) \/ Starts(r) \/ Skips(r)
               \/ \E n \in Seqs : Records(r, n)
        PROVE  persisted'[r] = persisted[r] /\ (r \in tracked \/ stage[r] = "queued")
    BY <2>4 DEF Rests, Noticed, Arrives, Starts, Skips, Records, Same
  <2>5. persisted[r] <= persisted[r]
    BY <1>0
  <2> QED BY <2>1, <2>2, <2>3, <2>4, <2>5 DEF Serves
<1> QED BY <1>1, <1>2

\* Of a run that is just assigned nothing travels yet.
LEMMA NothingTravels ==
  ASSUME IInv, [Next]_vars, TypeOK', NEW r \in Run, stage[r] = "queued"
  PROVE  Contiguous(r)'
<1>1. Assigned(r) /\ handle[r] = "none" /\ seq[r] = 0
  BY DEF IInv, Assigned
<1>2. seq'[r] = 0
  <2>1. ~Makes(r)
    BY <1>1 DEF Makes
  <2>2. ~Begins(r)
    <3>1. ASSUME Begins(r) PROVE FALSE
      <4>1. down[1] = Assign(r) /\ down # <<>> /\ down \in Seq(Downward)
        BY <3>1 DEF Begins, IInv, TypeOK
      <4>2. 1 \in DOMAIN down
        BY <4>1
      <4> QED BY <1>1, <4>1, <4>2 DEF Assigned
    <3> QED BY <3>1
  <2> QED BY <1>1, <2>1, <2>2, AgentMoves DEF Loses
<1>3. Made(r)'
  BY MadeKept
<1>4. /\ spool'[r].sent \in Nat /\ spool'[r].acked \in Nat /\ persisted'[r] \in Nat
      /\ cur' # 0 => cur' \in Conn
  <2>1. /\ spool'[r] \in SpoolType /\ persisted'[r] \in 0 .. MaxSeq /\ cur' \in 0 .. MaxConns
    BY DEF TypeOK, SpoolType
  <2>2. spool'[r].sent \in 0 .. MaxSeq /\ spool'[r].acked \in 0 .. MaxSeq
    BY <2>1 DEF SpoolType
  <2> QED BY <2>1, <2>2, SeqsAreNats, BoundsType DEF Conn
<1>5. spool'[r].acked <= persisted'[r] /\ \A m : m \notin 1 .. spool'[r].sent
  BY <1>2, <1>3, <1>4 DEF Made
<1>6. /\ \A i \in DOMAIN down' : \A n \in Seqs : down'[i] # Ack(r, n)
      /\ cur' # 0 => \A i \in DOMAIN up'[cur'] : \A n \in Seqs : up'[cur'][i] # Frame(r, n)
  <2>1. \A n \in Seqs : ~(n <= seq'[r])
    BY <1>2, BoundsType DEF Seqs
  <2> QED BY <1>3, <1>4, <2>1 DEF Made
<1> QED BY <1>5, <1>6 DEF Contiguous

\* What the agent acknowledged or was told of is persisted.
LEMMA AcksKept ==
  ASSUME IInv, [Next]_vars, TypeOK', NEW r \in Run, r \in tracked, r \in tracked', r \notin revived'
  PROVE  /\ spool'[r].acked <= persisted'[r]
         /\ \A i \in DOMAIN down' : \A n \in Seqs : down'[i] = Ack(r, n) => n <= persisted'[r]
<1>0. /\ Contiguous(r) /\ r \notin revived /\ persisted[r] <= persisted'[r]
      /\ persisted[r] \in Nat /\ persisted'[r] \in Nat /\ spool[r].acked \in Nat
      /\ down \in Seq(Downward)
  <2>1. Contiguous(r) /\ TypeOK
    BY DEF IInv
  <2>2. /\ persisted[r] \in 0 .. MaxSeq /\ persisted'[r] \in 0 .. MaxSeq
        /\ spool[r] \in SpoolType /\ down \in Seq(Downward)
    BY <2>1 DEF TypeOK, SpoolType
  <2>3. spool[r].acked \in 0 .. MaxSeq
    BY <2>2 DEF SpoolType
  <2> QED BY <2>1, <2>2, <2>3, TrackedWas, SeqsAreNats
<1>1. /\ spool[r].acked <= persisted[r]
      /\ \A i \in DOMAIN down : \A n \in Seqs : down[i] = Ack(r, n) => n <= persisted[r]
  BY <1>0 DEF Contiguous
<1>2. spool'[r].acked <= persisted'[r]
  <2>1. CASE spool'[r].acked = spool[r].acked
    BY <1>0, <1>1, <2>1
  <2>2. ASSUME AgentReceives, NEW n \in Seqs, Head(down) = Ack(r, n), spool'[r].acked = n
        PROVE  spool'[r].acked <= persisted'[r]
    <3>1. down # <<>>
      BY <2>2 DEF AgentReceives
    <3>2. 1 \in DOMAIN down /\ Head(down) = down[1]
      BY <1>0, <3>1
    <3>3. n <= persisted[r] /\ n \in Nat
      BY <1>1, <2>2, <3>2, SeqsAreNats
    <3> QED BY <1>0, <2>2, <3>3
  <2> QED BY <2>1, <2>2, SpoolMoves
<1>3. ASSUME NEW i \in DOMAIN down', NEW n \in Seqs, down'[i] = Ack(r, n) PROVE n <= persisted'[r]
  <2>1. \/ i \in DOMAIN down /\ down[i] = Ack(r, n)
        \/ i + 1 \in DOMAIN down /\ down[i + 1] = Ack(r, n)
        \/ Says(down'[i])
    <3>1. \/ i \in DOMAIN down /\ down'[i] = down[i]
          \/ AgentReceives /\ i + 1 \in DOMAIN down /\ down'[i] = down[i + 1]
          \/ Says(down'[i])
          \/ \E x \in Run : down'[i] = Assign(x)
      BY <1>3, DownComes
    <3>2. \A x \in Run : down'[i] # Assign(x)
      BY <1>3, MessagesDiffer
    <3> QED BY ONLY <1>3, <3>1, <3>2
  <2>2. CASE Says(down'[i])
    <3>1. SaysAck(Ack(r, n))
      <4>1. \A x \in Run : Ack(r, n) # Cancel(x)
        BY MessagesDiffer
      <4> QED BY <1>3, <2>2, <4>1 DEF Says
    <3>2. PICK x \in Run, m \in Seqs :
            Ack(r, n) = Ack(x, m) /\ (x \in tracked' /\ x \notin revived => m <= persisted'[x])
      BY <3>1 DEF SaysAck
    <3>3. x = r /\ m = n
      BY <3>2, MessagesDiffer
    <3> QED BY <1>0, <3>2, <3>3
  <2>3. CASE \E j \in DOMAIN down : down[j] = Ack(r, n)
    <3>1. n <= persisted[r] /\ n \in Nat
      BY <1>1, <2>3, SeqsAreNats
    <3> QED BY <1>0, <3>1
  <2> QED BY <2>1, <2>2, <2>3
<1> QED BY <1>2, <1>3

\* What was acknowledged, or never spooled, needs to travel no more.
LEMMA NeedsNoTravel ==
  ASSUME IInv, NEW r \in Run, r \in tracked, r \notin revived, NEW m \in Seqs,
         m <= spool[r].acked \/ m <= last[r] \/ <<r, m>> \in unspooled
  PROVE  Covered(r, m)
<1>0. /\ Contiguous(r) /\ Gapless(r) /\ stage[r] = "serving" /\ TypeOK
  BY ServedIs DEF IInv, ServedTracked
<1>1. /\ spool[r].acked \in Nat /\ persisted[r] \in Nat /\ last[r] \in Nat /\ m \in Nat /\ m >= 1
  <2>1. spool[r] \in SpoolType /\ persisted[r] \in 0 .. MaxSeq /\ last[r] \in 0 .. MaxSeq
    BY <1>0 DEF TypeOK, SpoolType
  <2>2. spool[r].acked \in 0 .. MaxSeq
    BY <2>1 DEF SpoolType
  <2> QED BY <2>1, <2>2, SeqsAreNats, BoundsType DEF Seqs
<1>2. CASE <<r, m>> \in unspooled
  BY <1>2 DEF Covered, KeptOrLost
<1>3. CASE m <= last[r]
  BY <1>0, <1>1, <1>3 DEF Gapless
<1>4. CASE m <= spool[r].acked
  <2>1. spool[r].acked <= persisted[r]
    BY <1>0 DEF Contiguous
  <2>2. persisted[r] <= Recorded(r) /\ Recorded(r) <= last[r] /\ Recorded(r) \in Nat
    BY <1>0, RecordedWasMade, SeqsAreNats
  <2>3. m <= last[r]
    BY <1>1, <1>4, <2>1, <2>2
  <2> QED BY <1>3, <2>3
<1> QED BY <1>2, <1>3, <1>4

\* Every frame of r in flight, and every frame the connection was sent, has
\* what precedes it recorded, waiting or in flight before it.
InFlight(r) ==
  cur # 0 => \A i \in DOMAIN up[cur] : \A n \in Seqs : up[cur][i] = Frame(r, n) =>
    \A m \in 1 .. n - 1 : Covered(r, m) \/ Travels(r, cur, m, i - 1)
SentIsThere(r) ==
  whole => \A m \in 1 .. spool[r].sent : Covered(r, m) \/ Travels(r, cur, m, Len(up[cur]))

\* Nothing new travels.
LEMMA StillTravels ==
  ASSUME IInv, [Next]_vars, NEW r \in Run, r \in tracked, r \in tracked', r \notin revived', ~Crash,
         cur' = cur, whole' => whole, spool'[r].sent = spool[r].sent,
         cur \in Conn => up'[cur] = up[cur]
  PROVE  InFlight(r)' /\ SentIsThere(r)'
<1>1. Contiguous(r) /\ r \notin revived /\ ~Files(r) /\ TypeOK /\ Connected
  BY TrackedWas DEF IInv
<1>2. \A m : Covered(r, m) => Covered(r, m)'
  BY <1>1, CoveredStays
<1>3. (cur # 0 => cur \in Conn) /\ (whole => cur # 0)
  <2>1. cur \in 0 .. MaxConns
    BY <1>1 DEF TypeOK
  <2> QED BY <1>1, <2>1, BoundsType DEF Conn, Connected
<1>4. ASSUME cur \in Conn, NEW m, NEW i, Travels(r, cur, m, i) PROVE Travels(r, cur, m, i)'
  BY <1>4 DEF Travels
<1>5. InFlight(r)'
  BY <1>1, <1>2, <1>3, <1>4 DEF InFlight, Contiguous
<1>6. SentIsThere(r)'
  BY <1>1, <1>2, <1>3, <1>4 DEF SentIsThere, Contiguous
<1> QED BY <1>5, <1>6

\* A new connection carries nothing yet, and owes what follows the last ack.
LEMMA DialTravels ==
  ASSUME IInv, [Next]_vars, NEW r \in Run, r \in tracked, r \in tracked', r \notin revived', Dial, ~Crash
  PROVE  InFlight(r)' /\ SentIsThere(r)'
<1>1. r \notin revived /\ ~Files(r) /\ TypeOK /\ Connected
  BY TrackedWas DEF IInv
<1> DEFINE k == dialled + 1
<1>2. /\ cur' = k /\ k \in Conn /\ k \notin handler /\ up \in [Conn -> Seq(Upward)]
      /\ up' = up \/ up' = [up EXCEPT ![k] = <<Alive(AliveRuns)>>]
  <2>1. dialled \in 0 .. MaxConns /\ up \in [Conn -> Seq(Upward)] /\ handler \subseteq Conn
    BY <1>1 DEF TypeOK
  <2>2. dialled \in Nat /\ dialled < MaxConns
    BY <2>1, BoundsType DEF Dial
  <2>3. k \in Conn /\ k \notin handler
    BY <1>1, <2>1, <2>2, BoundsType DEF Conn, Connected
  <2> QED BY <2>1, <2>3 DEF Dial
<1> HIDE DEF k
<1>3. up'[k] = <<>> \/ up'[k] = <<Alive(AliveRuns)>>
  BY <1>1, <1>2 DEF Connected
<1>4. \A i \in DOMAIN up'[k] : \A n : up'[k][i] # Frame(r, n)
  <2>1. CASE up'[k] = <<>>
    BY <2>1
  <2>2. CASE up'[k] = <<Alive(AliveRuns)>>
    <3>1. DOMAIN up'[k] = {1} /\ up'[k][1] = Alive(AliveRuns)
      BY <2>2
    <3> QED BY <3>1, MessagesDiffer
  <2> QED BY <1>3, <2>1, <2>2
<1>5. InFlight(r)'
  BY <1>2, <1>4 DEF InFlight
<1>6. spool'[r].sent = spool[r].acked /\ spool[r].acked \in 0 .. MaxSeq
  <2>1. spool'[r] = [spool[r] EXCEPT !.sent = spool[r].acked] /\ spool[r] \in SpoolType
    BY <1>1, TypesAre DEF Dial, Announces, AgentTypes
  <2> QED BY <2>1 DEF SpoolType
<1>7. ASSUME NEW m \in 1 .. spool'[r].sent PROVE Covered(r, m)'
  <2>1. m \in Seqs /\ m <= spool[r].acked
    BY <1>6, <1>7, BoundsType DEF Seqs
  <2>2. Covered(r, m)
    BY <1>1, <2>1, NeedsNoTravel
  <2> QED BY <1>1, <2>2, CoveredStays
<1>8. SentIsThere(r)'
  BY <1>7 DEF SentIsThere
<1> QED BY <1>5, <1>8

\* A frame leaves after all that precedes it.
LEMMA SendTravels ==
  ASSUME IInv, [Next]_vars, NEW r \in Run, r \in tracked, r \in tracked', r \notin revived', ~Crash,
         NEW x \in Run, NEW n \in Seqs, Sends(x, n)
  PROVE  InFlight(r)' /\ SentIsThere(r)'
<1>1. Contiguous(r) /\ r \notin revived /\ ~Files(r) /\ TypeOK /\ Connected
  BY TrackedWas DEF IInv
<1>2. \A m : Covered(r, m) => Covered(r, m)'
  BY <1>1, CoveredStays
<1>3. CASE ~whole
  <2>1. up' = up /\ cur' = cur /\ ~whole'
    BY <1>3 DEF Sends
  <2>2. cur # 0 => cur \in Conn
    <3>1. cur \in 0 .. MaxConns
      BY <1>1 DEF TypeOK
    <3> QED BY <3>1, BoundsType DEF Conn
  <2>3. InFlight(r)'
    BY <1>1, <1>2, <2>1 DEF InFlight, Contiguous, Travels
  <2> QED BY <2>1, <2>3 DEF SentIsThere
<1>4. CASE whole
  <2>1. PICK f \in Upward : f = Frame(x, n)
    BY MessageTypes
  <2>2. PICK s \in Seq(Upward) : s = up[cur]
    <3>1. cur \in Conn /\ up \in [Conn -> Seq(Upward)]
      <4>1. cur \in 0 .. MaxConns /\ cur # 0 /\ up \in [Conn -> Seq(Upward)]
        BY <1>1, <1>4 DEF TypeOK, Connected
      <4> QED BY <4>1, BoundsType DEF Conn
    <3> QED BY <3>1
  <2>3. /\ cur' = cur /\ cur # 0 /\ up'[cur] = Append(s, f) /\ whole'
    <3>1. cur \in Conn /\ up \in [Conn -> Seq(Upward)] /\ cur # 0 /\ cur = ws
      <4>1. cur \in 0 .. MaxConns /\ cur # 0 /\ up \in [Conn -> Seq(Upward)] /\ cur = ws
        BY <1>1, <1>4 DEF TypeOK, Connected
      <4> QED BY <4>1, BoundsType DEF Conn
    <3>2. up' = [up EXCEPT ![cur] = Append(up[cur], f)] /\ cur' = cur /\ (whole' <=> whole)
      BY <1>4, <2>1, <3>1 DEF Sends
    <3> QED BY <1>4, <2>2, <3>1, <3>2
  <2> DEFINE l == Len(s)
             t == Append(s, f)
  <2>4. /\ l \in Nat /\ DOMAIN s = 1 .. l /\ DOMAIN t = 1 .. l + 1 /\ Len(t) = l + 1
        /\ t[l + 1] = f /\ \A j \in 1 .. l : t[j] = s[j]
    OBVIOUS
  <2> HIDE DEF t, l
  \* What travelled travels, what precedes the frame does too.
  <2>5. ASSUME NEW m, NEW i \in Nat, i <= l, Travels(r, cur, m, i)
        PROVE  \E j \in 1 .. i : t[j] = Frame(r, m)
    <3>1. PICK j \in 1 .. i : s[j] = Frame(r, m)
      BY <2>2, <2>5 DEF Travels
    <3>2. j \in 1 .. l
      BY <2>4, <2>5
    <3> QED BY <2>4, <3>1, <3>2
  <2>6. \A m \in 1 .. spool[r].sent : Covered(r, m) \/ Travels(r, cur, m, l)
    BY <1>1, <1>4, <2>2 DEF Contiguous, l
  <2>7. ASSUME x = r, NEW m \in 1 .. n - 1
        PROVE  Covered(r, m) \/ \E j \in 1 .. l : t[j] = Frame(r, m)
    <3>1. m \in Seqs /\ (m <= spool[r].sent \/ m <= spool[r].acked \/ <<r, m>> \in unspooled)
      BY <2>7, BoundsType DEF Sends, Seqs
    <3>2. CASE m <= spool[r].sent
      <4>1. spool[r] \in SpoolType
        BY <1>1 DEF TypeOK, SpoolType
      <4>2. spool[r].sent \in 0 .. MaxSeq
        BY <4>1 DEF SpoolType
      <4>3. m \in 1 .. spool[r].sent
        BY <3>1, <3>2, <4>2, BoundsType DEF Seqs
      <4> QED BY <2>4, <2>5, <2>6, <4>3
    <3>3. CASE m <= spool[r].acked \/ <<r, m>> \in unspooled
      BY <1>1, <3>1, <3>3, NeedsNoTravel
    <3> QED BY <3>1, <3>2, <3>3
  <2>8. ASSUME NEW i \in DOMAIN t, NEW p \in Seqs, t[i] = Frame(r, p), NEW m \in 1 .. p - 1
        PROVE  Covered(r, m) \/ \E j \in 1 .. i - 1 : t[j] = Frame(r, m)
    <3>1. CASE i = l + 1
      <4>1. Frame(x, n) = Frame(r, p)
        BY <2>1, <2>4, <2>8, <3>1
      <4>2. x = r /\ n = p
        BY <4>1, MessagesDiffer
      <4>3. i - 1 = l
        BY <2>4, <3>1
      <4> QED BY <2>7, <2>8, <4>2, <4>3
    <3>2. CASE i # l + 1
      <4>1. i \in 1 .. l /\ i \in DOMAIN s /\ i - 1 \in Nat /\ i - 1 <= l
        BY <2>4, <2>8, <3>2
      <4>2. s[i] = Frame(r, p)
        BY <2>4, <2>8, <4>1
      <4>3. Covered(r, m) \/ Travels(r, cur, m, i - 1)
        BY <1>1, <2>2, <2>3, <2>8, <4>1, <4>2 DEF Contiguous
      <4> QED BY <2>5, <4>1, <4>3
    <3> QED BY <3>1, <3>2
  <2>9. InFlight(r)'
    BY <1>2, <2>3, <2>8 DEF InFlight, Travels, t
  <2>10. ASSUME NEW m \in 1 .. spool'[r].sent
         PROVE  Covered(r, m) \/ \E j \in 1 .. l + 1 : t[j] = Frame(r, m)
    <3>0. 1 .. l \subseteq 1 .. l + 1 /\ l + 1 \in 1 .. l + 1 /\ l <= l
      BY <2>4
    <3>1. CASE x # r
      <4>1. spool'[r].sent = spool[r].sent
        BY <3>1 DEF Sends
      <4>2. Covered(r, m) \/ Travels(r, cur, m, l)
        BY <2>6, <2>10, <4>1
      <4> QED BY <2>4, <2>5, <3>0, <4>2
    <3>2. CASE x = r /\ m # n
      <4>1. m \in 1 .. n - 1
        BY <2>10, <3>2, BoundsType DEF Sends, Seqs
      <4> QED BY <2>7, <3>0, <3>2, <4>1
    <3>3. CASE x = r /\ m = n
      BY <2>1, <2>4, <3>0, <3>3
    <3> QED BY <3>1, <3>2, <3>3
  <2>11. Len(up'[cur']) = l + 1 /\ up'[cur'] = t
    BY <2>3, <2>4 DEF t
  <2>12. SentIsThere(r)'
    BY <1>2, <2>10, <2>11 DEF SentIsThere, Travels
  <2> QED BY <2>9, <2>12
<1> QED BY <1>3, <1>4

\* A frame that is read was received before, or waits in the inbox now.
LEMMA ReadIsCovered ==
  ASSUME IInv, [Next]_vars, NEW r \in Run, r \in tracked, r \in tracked', r \notin revived', ~Crash,
         cur \in Conn, ServerReceives(cur), NEW m \in Seqs, up[cur][1] = Frame(r, m)
  PROVE  Covered(r, m)'
<1>1. r \notin revived /\ ~Files(r) /\ TypeOK
  BY TrackedWas DEF IInv
<1>2. ReceiveFrame(cur, r, m)
  <2>1. \/ \E R \in SUBSET Run : up[cur][1] = Alive(R)
        \/ \E x \in Run, n \in Seqs : up[cur][1] = Frame(x, n) /\ ReceiveFrame(cur, x, n)
    BY <1>1, ServerReads
  <2>2. \E x \in Run, n \in Seqs : Frame(r, m) = Frame(x, n) /\ ReceiveFrame(cur, x, n)
    BY <2>1, MessagesDiffer
  <2>3. PICK x \in Run, n \in Seqs : Frame(r, m) = Frame(x, n) /\ ReceiveFrame(cur, x, n)
    BY <2>2
  <2>4. x = r /\ n = m
    BY <2>3, MessagesDiffer
  <2> QED BY <2>3, <2>4
<1>3. CASE IsNew(r, m)
  <2>1. inbox' = [inbox EXCEPT ![r] = Append(inbox[r], [kind |-> "frame", seq |-> m])]
    BY <1>2, <1>3 DEF ReceiveFrame
  <2>2. PICK f \in Items : f = [kind |-> "frame", seq |-> m]
    BY MessageTypes
  <2>3. inbox[r] \in Seq(Items) /\ inbox'[r] = Append(inbox[r], f)
    BY <1>1, <2>1, <2>2 DEF TypeOK
  <2>4. Len(inbox[r]) + 1 \in DOMAIN inbox'[r] /\ inbox'[r][Len(inbox[r]) + 1] = f
    BY <2>3
  <2> QED BY <2>2, <2>4 DEF Covered, Item
<1>4. CASE ~IsNew(r, m)
  <2>1. m <= last[r]
    <3>1. last[r] \in 0 .. MaxSeq
      BY <1>1 DEF TypeOK
    <3>2. last[r] \in Nat /\ m \in Nat
      BY <3>1, SeqsAreNats
    <3> QED BY <1>4, <3>2 DEF IsNew
  <2>2. Covered(r, m)
    BY <1>1, <2>1, NeedsNoTravel
  <2> QED BY <1>1, <2>2, CoveredStays
<1> QED BY <1>3, <1>4

LEMMA ReadTravels ==
  ASSUME IInv, [Next]_vars, NEW r \in Run, r \in tracked, r \in tracked', r \notin revived', ~Crash,
         ~Dial, cur \in Conn, ServerReceives(cur)
  PROVE  InFlight(r)' /\ SentIsThere(r)'
<1>1. Contiguous(r) /\ r \notin revived /\ ~Files(r) /\ TypeOK
  BY TrackedWas DEF IInv
<1>2. \A m : Covered(r, m) => Covered(r, m)'
  BY <1>1, CoveredStays
<1>3. /\ up[cur] # <<>> /\ up' = [up EXCEPT ![cur] = Tail(up[cur])]
      /\ spool' = spool /\ whole' = whole /\ up[cur] \in Seq(Upward) /\ cur # 0
  <2>1. /\ up[cur] # <<>> /\ up' = [up EXCEPT ![cur] = Tail(up[cur])]
        /\ UNCHANGED agentVars /\ UNCHANGED whole
    BY <1>1, ServerReads
  <2>2. up[cur] \in Seq(Upward) /\ cur # 0
    <3>1. up \in [Conn -> Seq(Upward)]
      BY <1>1 DEF TypeOK
    <3>2. cur # 0
      BY BoundsType DEF Conn
    <3> QED BY <3>1, <3>2
  <2> QED BY <2>1, <2>2 DEF agentVars
<1>4. PICK s \in Seq(Upward) : s = up[cur] /\ s # <<>>
  BY <1>3
<1> DEFINE l == Len(s)
           t == Tail(s)
<1>5. /\ DOMAIN t = 1 .. l - 1 /\ l \in Nat \ {0} /\ DOMAIN s = 1 .. l
      /\ \A i \in 1 .. l - 1 : i + 1 \in DOMAIN s /\ t[i] = s[i + 1]
  BY <1>4, TailReads
<1>6. cur' = cur /\ up'[cur] = t /\ t \in Seq(Upward)
  <2>1. cur' = cur
    BY LinkMoves
  <2>2. up \in [Conn -> Seq(Upward)]
    BY <1>1 DEF TypeOK
  <2> QED BY <1>3, <1>4, <2>1, <2>2
<1>7. Len(t) = l - 1
  BY <1>4
<1> HIDE DEF t, l
\* What travelled is read, or one place further.
<1>8. ASSUME NEW m \in Seqs, NEW i \in Nat, i <= l, Travels(r, cur, m, i)
      PROVE  Covered(r, m)' \/ \E j \in 1 .. i - 1 : t[j] = Frame(r, m)
  <2>1. PICK j \in 1 .. i : s[j] = Frame(r, m)
    BY <1>4, <1>8 DEF Travels
  <2>2. CASE j = 1
    <3>1. up[cur][1] = Frame(r, m)
      BY <1>4, <2>1, <2>2
    <3> QED BY <3>1, ReadIsCovered
  <2>3. CASE j # 1
    <3>1. j - 1 \in 1 .. i - 1 /\ j - 1 \in 1 .. l - 1 /\ (j - 1) + 1 = j
      BY <1>5, <1>8, <2>1, <2>3
    <3>2. t[j - 1] = s[(j - 1) + 1]
      BY <1>5, <3>1
    <3> QED BY <2>1, <3>1, <3>2
  <2> QED BY <2>2, <2>3
<1>9. ASSUME NEW i \in DOMAIN t, NEW n \in Seqs, t[i] = Frame(r, n), NEW m \in 1 .. n - 1
      PROVE  Covered(r, m)' \/ \E j \in 1 .. i - 1 : t[j] = Frame(r, m)
  <2>1. /\ i + 1 \in DOMAIN s /\ s[i + 1] = Frame(r, n) /\ (i + 1) - 1 = i
        /\ i \in Nat /\ i <= l
    BY <1>5, <1>9
  <2>2. Covered(r, m) \/ Travels(r, cur, m, (i + 1) - 1)
    BY <1>1, <1>3, <1>4, <1>9, <2>1 DEF Contiguous
  <2>3. m \in Seqs
    BY <1>9, BoundsType DEF Seqs
  <2> QED BY <1>2, <1>8, <2>1, <2>2, <2>3
<1>10. InFlight(r)'
  BY <1>6, <1>9 DEF InFlight, Travels
<1>11. ASSUME whole, NEW m \in 1 .. spool[r].sent
       PROVE  Covered(r, m)' \/ \E j \in 1 .. l - 1 : t[j] = Frame(r, m)
  <2>1. Covered(r, m) \/ Travels(r, cur, m, l)
    BY <1>1, <1>4, <1>11 DEF Contiguous, l
  <2>2. m \in Seqs
    <3>1. spool[r] \in SpoolType
      BY <1>1 DEF TypeOK, SpoolType
    <3>2. spool[r].sent \in 0 .. MaxSeq
      BY <3>1 DEF SpoolType
    <3> QED BY <1>11, <3>2, BoundsType DEF Seqs
  <2>3. l \in Nat /\ l <= l
    BY <1>5
  <2> QED BY <1>2, <1>8, <2>1, <2>2, <2>3
<1>12. SentIsThere(r)'
  BY <1>3, <1>6, <1>7, <1>11 DEF SentIsThere, Travels
<1> QED BY <1>10, <1>12

LEMMA ContiguousKept ==
  ASSUME IInv, [Next]_vars, TypeOK', NEW r \in Run
  PROVE  Contiguous(r)'
<1>0. SUFFICES ASSUME r \in tracked', r \notin revived' PROVE Contiguous(r)'
  BY DEF Contiguous
<1>1. CASE stage[r] = "queued"
  BY <1>1, NothingTravels
<1>2. CASE r \in tracked
  <2>1. /\ spool'[r].acked <= persisted'[r]
        /\ \A i \in DOMAIN down' : \A n \in Seqs : down'[i] = Ack(r, n) => n <= persisted'[r]
    BY <1>0, <1>2, AcksKept
  <2>2. InFlight(r)' /\ SentIsThere(r)'
    <3> DEFINE Goal == InFlight(r)' /\ SentIsThere(r)'
    <3>1. ASSUME Crash PROVE Goal
      <4>1. cur' = 0 /\ ~whole'
        BY <3>1 DEF Crash
      <4> QED BY <4>1 DEF InFlight, SentIsThere
    <3>2. ASSUME ~Crash, Dial PROVE Goal
      BY <1>0, <1>2, <3>2, DialTravels
    <3>3. ASSUME ~Crash, ~Dial PROVE Goal
      <4>1. cur' = cur /\ (whole' => whole)
        BY <3>3, LinkMoves
      <4>2. ASSUME NEW x \in Run, NEW n \in Seqs, Sends(x, n) PROVE Goal
        BY <1>0, <1>2, <3>3, <4>2, SendTravels
      <4>3. ASSUME cur \in Conn => up'[cur] = up[cur], spool'[r].sent = spool[r].sent PROVE Goal
        BY <1>0, <1>2, <3>3, <4>1, <4>3, StillTravels
      <4>4. ASSUME up' = up, \A x \in Run : spool'[x].sent = spool[x].sent PROVE Goal
        BY <4>3, <4>4
      <4>5. ASSUME NEW k \in Conn, ServerReceives(k) PROVE Goal
        <5>1. CASE k = cur
          BY <1>0, <1>2, <3>3, <4>5, <5>1, ReadTravels
        <5>2. CASE k # cur
          <6>1. spool' = spool /\ up' = [up EXCEPT ![k] = Tail(up[k])]
            BY <4>5, ServerReads DEF IInv, agentVars
          <6>2. cur \in Conn => up'[cur] = up[cur]
            BY <5>2, <6>1 DEF IInv, TypeOK
          <6> QED BY <4>3, <6>1, <6>2
        <5> QED BY <5>1, <5>2
      <4>6. ASSUME NEW k \in Conn, HandlerEnds(k) PROVE Goal
        <5>1. /\ spool' = spool /\ up' = [up EXCEPT ![k] = <<>>] /\ whole' = whole
              /\ k # ws \/ ~whole
          BY <4>6 DEF HandlerEnds, agentVars
        <5>2. CASE k = cur
          <6>1. ~whole'
            BY <5>1, <5>2 DEF IInv, Connected
          <6>2. up'[cur'] = <<>>
            BY <4>1, <4>6, <5>1, <5>2 DEF IInv, TypeOK
          <6> QED BY <6>1, <6>2 DEF InFlight, SentIsThere
        <5>3. CASE k # cur
          <6>1. cur \in Conn => up'[cur] = up[cur]
            BY <5>1, <5>3 DEF IInv, TypeOK
          <6> QED BY <4>3, <5>1, <6>1
        <5> QED BY <5>2, <5>3
      <4> HIDE DEF Goal
      <4> QED BY <3>3, <4>2, <4>4, <4>5, <4>6, TrafficMoves
    <3> QED BY <3>1, <3>2, <3>3
  <2> QED BY <2>1, <2>2 DEF Contiguous, InFlight, SentIsThere
<1> QED BY <1>0, <1>1, <1>2, TrackedWas

----------------------------------------------------------------------------
(* The theorems *)

LEMMA InitIInv ==
  ASSUME Init
  PROVE  IInv
<1>0. 0 \in 0 .. MaxSeq /\ 0 \in 0 .. MaxConns /\ 0 \in 0 .. MaxCrashes /\ 0 \in 0 .. MaxFaults
  BY BoundsType
<1>1. TypeOK
  <2>1. AgentTypes
    <3>1. NoSpool \in SpoolType
      BY <1>0 DEF NoSpool, SpoolType
    <3> QED BY <1>0, <3>1 DEF Init, AgentTypes
  <2>2. NetTypes
    <3>1. <<>> \in Seq(Upward) /\ <<>> \in Seq(Run)
      OBVIOUS
    <3> QED BY <1>0, <3>1 DEF Init, NetTypes
  <2>3. RegistryTypes
    <3>1. <<>> \in Seq(Items)
      OBVIOUS
    <3> QED BY <1>0, <3>1 DEF Init, RegistryTypes
  <2>4. ExecutorTypes
    <3>1. <<>> \in Seq(Seqs)
      OBVIOUS
    <3> QED BY <1>0, <3>1 DEF Init, ExecutorTypes
  <2>5. FaultTypes
    BY <1>0 DEF Init, FaultTypes
  <2> QED BY <2>1, <2>2, <2>3, <2>4, <2>5, TypesAre
<1>2. ServedRunsAreTracked
  BY DEF Init, ServedRunsAreTracked
<1>3. Connected /\ BatchIsWhole
  <2>1. ws = 0 /\ cur = 0 /\ dialled = 0 /\ handler = {} /\ \A k \in Conn : up[k] = <<>>
    BY DEF Init
  <2>2. ws <= dialled /\ cur <= dialled
    BY <2>1
  <2> QED BY <2>1, <2>2 DEF Init, Connected, BatchIsWhole
<1>4. ASSUME NEW r \in Run
      PROVE  /\ Assigned(r) /\ Made(r) /\ Spooled(r) /\ InboxInOrder(r)
             /\ Gapless(r) /\ Contiguous(r) /\ Finished(r)
  <2>1. /\ handle[r] = "none" /\ seq[r] = 0 /\ down = <<>> /\ spool[r] = NoSpool /\ last[r] = 0
        /\ persisted[r] = 0 /\ log[r] = <<>> /\ inbox[r] = <<>> /\ stage[r] = "queued"
        /\ result[r] = "none" /\ r \notin tracked /\ \A k \in Conn : up[k] = <<>>
    BY DEF Init
  <2>2. /\ spool[r].sent = 0 /\ spool[r].acked = 0 /\ spool[r].pending = {} /\ spool[r].open = FALSE
    BY <2>1 DEF NoSpool
  <2>3. Assigned(r)
    BY <2>1 DEF Assigned
  <2>4. Made(r)
    BY <2>1, <2>2 DEF Made
  <2>5. Spooled(r)
    BY <2>1, <2>2 DEF Spooled
  <2>6. InboxInOrder(r)
    BY <2>1 DEF InboxInOrder, Recorded
  <2>7. Gapless(r) /\ Contiguous(r) /\ Finished(r)
    BY <2>1 DEF Gapless, Contiguous, Finished
  <2> QED BY <2>3, <2>4, <2>5, <2>6, <2>7
<1> QED BY <1>1, <1>2, <1>3, <1>4 DEF IInv

LEMMA StepIInv ==
  ASSUME IInv, [Next]_vars
  PROVE  IInv'
<1>1. TypeOK'
  BY TypesKept
<1>2. ServedRunsAreTracked' /\ Connected' /\ BatchIsWhole'
  BY <1>1, ServedKept, ConnectedKept, BatchKept
<1>3. ASSUME NEW r \in Run
      PROVE  /\ Assigned(r)' /\ Made(r)' /\ Spooled(r)' /\ InboxInOrder(r)'
             /\ Gapless(r)' /\ Contiguous(r)' /\ Finished(r)'
  BY <1>1, AssignedKept, MadeKept, SpooledKept, InboxInOrderKept, GaplessKept, ContiguousKept,
     FinishedKept
<1> QED BY <1>1, <1>2, <1>3 DEF IInv

LEMMA InvariantHolds == Spec => []IInv
<1>1. Init => IInv
  BY InitIInv
<1>2. IInv /\ [Next]_vars => IInv'
  BY StepIInv
<1> QED BY <1>1, <1>2, PTL DEF Spec

\* Every variable keeps its type through every step of both sides, a crash and
\* a restart: seqs stay within the frames of a run, and only a tracked run
\* waits for its worker or to be confirmed by it.
THEOREM TypeCorrect == Spec => []TypeOK
<1>1. IInv => TypeOK
  BY DEF IInv
<1> QED BY <1>1, InvariantHolds, PTL

\* No executor serves a run that nothing will ever end: a served run is
\* tracked, or its end is in its inbox, and every wait for a worker has its
\* deadline (Worker.running, awaiting_alive, detached_at, alive_deadline).
THEOREM ServedAreTracked == Spec => []ServedRunsAreTracked
<1>1. IInv => ServedRunsAreTracked
  BY DEF IInv
<1> QED BY <1>1, InvariantHolds, PTL

\* The sinks get the frames of a run in order, each past all that the server
\* recorded or said it had recorded, whatever was replayed or lost (route(),
\* _serve(), _Acks).
THEOREM FramesInOrder == Spec => FramesComeInOrder
<1>1. ASSUME IInv, [Next]_vars, NEW r \in Run
      PROVE  Len(log'[r]) > Len(log[r]) => Last(log'[r]) > Recorded(r)
  BY <1>1, TypesKept, InboxInOrderKept
<1>2. IInv /\ [Next]_vars
        => [\A r \in Run : Len(log'[r]) > Len(log[r]) => Last(log'[r]) > Recorded(r)]_vars
  BY <1>1
<1> QED BY <1>2, InvariantHolds, PTL DEF Spec, FramesComeInOrder

LEMMA AcknowledgedIsKept ==
  ASSUME IInv, NEW r \in Run, r \notin revived, r \in tracked, NEW m \in 1 .. spool[r].acked
  PROVE  m \in KeptOrLost(r)
<1>0. /\ TypeOK /\ Contiguous(r) /\ InboxInOrder(r) /\ stage[r] = "serving"
  BY ServedIs DEF IInv, ServedTracked
<1>1. spool[r].acked \in 0 .. MaxSeq /\ persisted[r] \in Nat
  <2>1. spool[r] \in SpoolType /\ persisted[r] \in 0 .. MaxSeq
    BY <1>0 DEF TypeOK, SpoolType
  <2> QED BY <2>1, SeqsAreNats DEF SpoolType
<1>2. m \in Seqs /\ m <= spool[r].acked /\ m \in Nat /\ spool[r].acked \in Nat
  BY <1>1, BoundsType DEF Seqs
<1>3. Covered(r, m)
  BY <1>2, NeedsNoTravel
<1>4. m <= Recorded(r) /\ Recorded(r) \in Nat
  <2>1. spool[r].acked <= persisted[r]
    BY <1>0 DEF Contiguous
  <2>2. persisted[r] <= Recorded(r) /\ Recorded(r) \in Nat
    BY <1>0, RecordedWasMade, SeqsAreNats
  <2> QED BY <1>1, <1>2, <2>1, <2>2
<1>5. ASSUME NEW i \in DOMAIN inbox[r], inbox[r][i] = Item(m) PROVE FALSE
  <2>1. Recorded(r) < m
    BY <1>0, <1>5 DEF InboxInOrder, Item
  <2> QED BY <1>2, <1>4, <2>1
<1> QED BY <1>3, <1>5 DEF Covered

\* No frame is lost: what the agent was told to forget of a served run is
\* recorded, and a run filed as finished has every frame it made, but for
\* frames that could not be spooled and runs brought back after their end.
THEOREM FramesKept == Spec => []FramesAreKept
<1>1. ASSUME IInv PROVE FramesAreKept
  <2>1. ASSUME NEW r \in Run \ revived
        PROVE  /\ r \in tracked => 1 .. spool[r].acked \subseteq KeptOrLost(r)
               /\ result[r] = "finished" => 1 .. seq[r] \subseteq KeptOrLost(r)
    <3>1. result[r] = "finished" => 1 .. seq[r] \subseteq KeptOrLost(r)
      BY <1>1, <2>1 DEF IInv, Finished
    <3>2. r \in tracked => 1 .. spool[r].acked \subseteq KeptOrLost(r)
      BY <1>1, <2>1, AcknowledgedIsKept
    <3> QED BY <3>1, <3>2
  <2> QED BY <2>1 DEF FramesAreKept
<1>2. IInv => FramesAreKept
  BY <1>1
<1> QED BY <1>2, InvariantHolds, PTL

=============================================================================
