--------------------------- MODULE EventLogProofs ---------------------------
(***************************************************************************)
(* Proofs about EventLog for all sets of aggregates, fibers and readers    *)
(* and all logs of other processes: the log of an aggregate stays well     *)
(* formed, no tail misses a commit, a tail delivers in sequence, an        *)
(* unclaimed log has a single replay owner, and live observers see an      *)
(* event once.                                                             *)
(***************************************************************************)
EXTENDS EventLog, SequenceTheorems, TLAPS

\* A replay has an event to go on with.
ReplaysPending ==
  \A f \in Fiber : pc[f] # "idle" => (op[f].kind = "replay" => op[f].ids # <<>>)

\* LogWellFormed row by row: what an append has to preserve.
Numbered ==
  /\ \A r, s \in events : r.id = s.id => r = s
  /\ \A r, s \in events : r.agg = s.agg /\ r.seq = s.seq => r = s
  /\ \A r \in events : r.seq <= latest[r.agg]
  /\ \A a \in Aggregate : \A n \in 0 .. latest[a] : \E r \in events : r.agg = a /\ r.seq = n

LogInv == TypeOK /\ ReplaysPending /\ Numbered

\* What a tail of a log that stays has received, has read and will read.
TailProgress ==
  \A t \in Reader : Follows[t] \notin Removable =>
    /\ last[t] <= latest[Follows[t]]
    /\ tpc[t] # "off" => last[t] <= cursor[t] /\ cursor[t] <= latest[Follows[t]]
    /\ tpc[t] = "read" => last[t] = cursor[t]
    /\ tpc[t] = "stream" =>
         batch[t] = {r \in RowsOf(Follows[t]) : last[t] < r.seq /\ r.seq <= cursor[t]}

IInv == LogInv /\ NoMissedCommit /\ TailProgress /\ OneReplayOwner
-----------------------------------------------------------------------------
\* The tables are empty at first.
LEMMA InitInvariant == Init => IInv
<1> SUFFICES ASSUME Init PROVE IInv
  OBVIOUS
<1>1. TypeOK
  BY DEF Init, TypeOK, Names
<1>2. ReplaysPending /\ Numbered
  BY DEF Init, ReplaysPending, Numbered
<1>3. NoMissedCommit /\ OneReplayOwner
  BY DEF Init, NoMissedCommit, OneReplayOwner
<1>4. TailProgress
  BY FollowsAssumption DEF Init, TailProgress
<1>5. QED
  BY <1>1, <1>2, <1>3, <1>4 DEF IInv, LogInv

-----------------------------------------------------------------------------
\* Asking for an operation keeps the types.
LEMMA AskTyped ==
  ASSUME LogInv, NEW f \in Fiber, NEW kind \in {"publish", "replay"}, NEW a \in Aggregate,
         NEW ids \in Seq(Id), NEW n \in Nat, NEW by \in Names,
         NEW strict \in BOOLEAN, NEW share \in BOOLEAN,
         kind = "replay" => ids # <<>>,
         Ask(f, kind, a, ids, n, by, strict, share)
  PROVE  TypeOK' /\ ReplaysPending'
<1> DEFINE o == [kind |-> kind, agg |-> a, ids |-> ids, at |-> n,
                 by |-> by, strict |-> strict, share |-> share]
<1>1. o \in Operation
  BY DEF Operation
<1>2. /\ pc' = [pc EXCEPT ![f] = "commit"]
      /\ op' = [op EXCEPT ![f] = o]
      /\ UNCHANGED <<log, told, tails, history>>
  BY DEF Ask
<1>3. o.kind = kind /\ o.ids = ids
  OBVIOUS
<1> HIDE DEF o
<1>4. op' \in [Fiber -> Operation \cup {<<>>}]
  BY <1>1, <1>2 DEF LogInv, TypeOK
<1>5. pc' \in [Fiber -> {"idle", "commit", "wake", "notify", "failed"}]
  BY <1>2 DEF LogInv, TypeOK
<1>6. \A g \in Fiber : pc'[g] # "idle" => op'[g] \in Operation
  BY <1>1, <1>2 DEF LogInv, TypeOK
<1>7. TypeOK'
  BY <1>2, <1>4, <1>5, <1>6 DEF LogInv, TypeOK, log, tails, history
<1>8. ReplaysPending'
  BY <1>2, <1>3 DEF LogInv, TypeOK, ReplaysPending
<1>9. QED
  BY <1>7, <1>8

\* The rest of several events is a non-empty sequence.
LEMMA RestOfSeveral ==
  ASSUME NEW s \in Seq(Id), Len(s) > 1
  PROVE  Tail(s) \in Seq(Id) /\ Tail(s) # <<>>
<1>1. s # <<>>
  BY EmptySeq
<1>2. Tail(s) \in Seq(Id) /\ Len(Tail(s)) = Len(s) - 1
  BY <1>1, HeadTailProperties
<1>3. Len(Tail(s)) # 0
  BY <1>2, LenProperties
<1>4. QED
  BY <1>2, <1>3, EmptySeq

\* An operation without its first event is an operation.
LEMMA RestOfOperation ==
  ASSUME NEW o \in Operation, Len(o.ids) > 1
  PROVE  /\ [o EXCEPT !.ids = Tail(@), !.at = @ + 1] \in Operation
         /\ [o EXCEPT !.ids = Tail(@), !.at = @ + 1].ids # <<>>
<1>1. o.ids \in Seq(Id) /\ o.at \in Nat
  BY DEF Operation
<1>2. Tail(o.ids) \in Seq(Id) /\ Tail(o.ids) # <<>>
  BY <1>1, RestOfSeveral
<1> DEFINE rest == Tail(o.ids)
<1> DEFINE after == o.at + 1
<1>3. rest \in Seq(Id) /\ rest # <<>> /\ after \in Nat
  BY <1>1, <1>2
<1> DEFINE p == [o EXCEPT !.ids = rest, !.at = after]
<1>4. [o EXCEPT !.ids = Tail(@), !.at = @ + 1] = p
  OBVIOUS
<1>5. p \in Operation /\ p.ids # <<>>
  <2> HIDE DEF rest, after
  <2>1. QED
    BY <1>3 DEF Operation
<1>6. QED
  BY <1>4, <1>5

\* Going on with the next replayed event keeps the types of the fibers.
LEMMA GoOnTyped ==
  ASSUME LogInv, NEW f \in Fiber, pc[f] # "idle", GoOn(f)
  PROVE  /\ pc' \in [Fiber -> {"idle", "commit", "wake", "notify", "failed"}]
         /\ op' \in [Fiber -> Operation \cup {<<>>}]
         /\ \A g \in Fiber : pc'[g] # "idle" => op'[g] \in Operation
         /\ told' \in [Fiber -> Seq(Id)]
         /\ ReplaysPending'
         /\ \A g \in Fiber : g # f => pc'[g] = pc[g] /\ op'[g] = op[g]
<1> USE DEF LogInv, TypeOK
<1>1. told' \in [Fiber -> Seq(Id)]
  BY DEF GoOn
<1>2. CASE op[f].kind = "replay" /\ Len(op[f].ids) > 1
  <2> DEFINE o == [op[f] EXCEPT !.ids = Tail(@), !.at = @ + 1]
  <2>1. op[f] \in Operation
    OBVIOUS
  <2>2. o \in Operation /\ o.ids # <<>>
    BY <1>2, <2>1, RestOfOperation
  <2>3. op' = [op EXCEPT ![f] = o] /\ pc' = [pc EXCEPT ![f] = "commit"]
    BY <1>2 DEF GoOn
  <2> HIDE DEF o
  <2>4. QED
    BY <1>1, <2>2, <2>3 DEF ReplaysPending
<1>3. CASE ~(op[f].kind = "replay" /\ Len(op[f].ids) > 1)
  <2>1. op' = [op EXCEPT ![f] = <<>>] /\ pc' = [pc EXCEPT ![f] = "idle"]
    BY <1>3 DEF GoOn
  <2>2. QED
    BY <1>1, <2>1 DEF ReplaysPending
<1>4. QED
  BY <1>2, <1>3

\* A replayed event is a row.
LEMMA ReplayedTyped ==
  ASSUME LogInv, NEW f \in Fiber, Replaying(f)
  PROVE  /\ op[f] \in Operation
         /\ op[f].ids[1] \in Id
         /\ Replayed(f) \in Row
         /\ Replayed(f) = [id |-> op[f].ids[1], agg |-> op[f].agg, seq |-> op[f].at]
         /\ NewOwner(f) \in Names
<1>1. op[f] \in Operation /\ op[f].ids # <<>>
  BY DEF LogInv, TypeOK, ReplaysPending, Replaying
<1>2. op[f].ids[1] \in Id
  BY <1>1 DEF Operation
<1>3. QED
  BY <1>1, <1>2 DEF Replayed, AtRow, Row, Operation, NewOwner, LogInv, TypeOK

\* What an append adds to the table.
LEMMA AppendedTyped ==
  ASSUME LogInv, NEW a \in Aggregate, NEW ids \in Seq(Id)
  PROVE  /\ Appended(a, ids) \subseteq Row
         /\ Len(ids) \in Nat
         /\ DOMAIN ids = 1 .. Len(ids)
         /\ \A k \in DOMAIN ids : ids[k] \in Id
         /\ latest[a] \in Nat \cup {-1}
<1>1. /\ Len(ids) \in Nat
      /\ DOMAIN ids = 1 .. Len(ids)
      /\ \A k \in DOMAIN ids : ids[k] \in Id
      /\ latest[a] \in Nat \cup {-1}
  BY DEF LogInv, TypeOK
<1>2. ASSUME NEW k \in DOMAIN ids
      PROVE  AtRow(ids[k], a, latest[a] + k) \in Row
  BY <1>1 DEF AtRow, Row
<1>3. QED
  BY <1>1, <1>2 DEF Appended

\* Moving a fiber that has an operation keeps its types.
LEMMA MoveTyped ==
  ASSUME LogInv, NEW f \in Fiber, pc[f] # "idle",
         NEW where \in {"wake", "notify", "failed"}, Move(f, where), op' = op
  PROVE  /\ pc' \in [Fiber -> {"idle", "commit", "wake", "notify", "failed"}]
         /\ op' \in [Fiber -> Operation \cup {<<>>}]
         /\ \A g \in Fiber : pc'[g] # "idle" => op'[g] \in Operation
         /\ ReplaysPending'
BY DEF LogInv, TypeOK, ReplaysPending, Move

\* A transaction that commits keeps the types.
LEMMA CommitTyped ==
  ASSUME LogInv, NEW f \in Fiber, Commit(f)
  PROVE  TypeOK' /\ ReplaysPending'
<1>1. CASE CommitLocal(f)
  <2>1. op[f] \in Operation /\ op[f].agg \in Aggregate /\ op[f].ids \in Seq(Id)
    BY <1>1 DEF CommitLocal, LogInv, TypeOK, Operation
  <2>2. /\ pc[f] # "idle"
        /\ events' = events \cup Appended(op[f].agg, op[f].ids)
        /\ latest' = [latest EXCEPT ![op[f].agg] = @ + Len(op[f].ids)]
        /\ told' = [told EXCEPT ![f] = op[f].ids]
        /\ Move(f, "wake")
        /\ UNCHANGED <<owner, op, tails, history>>
    BY <1>1 DEF CommitLocal
  <2>3. /\ Appended(op[f].agg, op[f].ids) \subseteq Row
        /\ Len(op[f].ids) \in Nat
    BY <2>1, AppendedTyped
  <2>4. latest' \in [Aggregate -> Nat \cup {-1}]
    <3>1. latest[op[f].agg] + Len(op[f].ids) \in Nat \cup {-1}
      BY <2>1, <2>3, AppendedTyped
    <3>2. latest \in [Aggregate -> Nat \cup {-1}]
      BY DEF LogInv, TypeOK
    <3>3. QED
      BY <2>1, <2>2, <3>1, <3>2
  <2>5. told' \in [Fiber -> Seq(Id)]
    BY <2>1, <2>2 DEF LogInv, TypeOK
  <2>6. events' \subseteq Row
    BY <2>2, <2>3 DEF LogInv, TypeOK
  <2>7. QED
    BY <2>2, <2>4, <2>5, <2>6, MoveTyped DEF LogInv, TypeOK, tails, history
<1>2. CASE ReplayAccepted(f)
  <2>1. Replaying(f) /\ pc[f] # "idle"
    BY <1>2 DEF ReplayAccepted, Replaying
  <2>2. /\ op[f].ids[1] \in Id /\ op[f].agg \in Aggregate /\ op[f].at \in Nat
        /\ Replayed(f) \in Row /\ NewOwner(f) \in Names
    BY <2>1, ReplayedTyped DEF Operation
  <2>3. /\ events' = events \cup {Replayed(f)}
        /\ latest' = [latest EXCEPT ![op[f].agg] = op[f].at]
        /\ owner' = [owner EXCEPT ![op[f].agg] = NewOwner(f)]
        /\ told' = [told EXCEPT ![f] = IF op[f].share THEN <<op[f].ids[1]>> ELSE <<>>]
        /\ sources' = [sources EXCEPT ![op[f].agg] = @ \cup (Owner \cap {op[f].by})]
        /\ Move(f, "wake")
        /\ UNCHANGED <<op, tails, notified, claimed>>
    BY <1>2 DEF ReplayAccepted
  <2>4. latest' \in [Aggregate -> Nat \cup {-1}]
    BY <2>2, <2>3 DEF LogInv, TypeOK
  <2>5. owner' \in [Aggregate -> Names]
    BY <2>2, <2>3 DEF LogInv, TypeOK
  <2>6. told' \in [Fiber -> Seq(Id)]
    BY <2>2, <2>3 DEF LogInv, TypeOK
  <2>7. sources' \in [Aggregate -> SUBSET Owner]
    BY <2>2, <2>3 DEF LogInv, TypeOK
  <2>8. events' \subseteq Row
    BY <2>2, <2>3 DEF LogInv, TypeOK
  <2>9. QED
    BY <2>1, <2>3, <2>4, <2>5, <2>6, <2>7, <2>8, MoveTyped DEF LogInv, TypeOK, tails
<1>3. QED
  BY <1>1, <1>2 DEF Commit

\* A transaction that stores no row keeps the types.
LEMMA RefusalTyped ==
  ASSUME LogInv, NEW f \in Fiber,
         LocalRefused(f) \/ ReplayStale(f) \/ ReplayFenced(f) \/ ReplayRefused(f)
  PROVE  TypeOK' /\ ReplaysPending'
<1>1. CASE LocalRefused(f) \/ ReplayRefused(f)
  <2>1. pc[f] # "idle" /\ Move(f, "failed") /\ UNCHANGED <<log, op, told, tails, history>>
    BY <1>1 DEF LocalRefused, ReplayRefused, Replaying
  <2>2. QED
    BY <2>1, MoveTyped DEF LogInv, TypeOK, log, tails, history
<1>2. CASE ReplayStale(f)
  <2>1. Replaying(f) /\ pc[f] # "idle"
    BY <1>2 DEF ReplayStale, Replaying
  <2>2. /\ owner' = [owner EXCEPT ![op[f].agg] = NewOwner(f)]
        /\ GoOn(f)
        /\ UNCHANGED <<latest, events, tails, history>>
    BY <1>2 DEF ReplayStale
  <2>3. owner' \in [Aggregate -> Names]
    BY <2>1, <2>2, ReplayedTyped DEF LogInv, TypeOK, Operation
  <2>4. QED
    BY <2>1, <2>2, <2>3, GoOnTyped DEF LogInv, TypeOK, tails, history
<1>3. CASE ReplayFenced(f)
  <2>1. pc[f] # "idle" /\ GoOn(f) /\ UNCHANGED <<log, tails, history>>
    BY <1>3 DEF ReplayFenced, Replaying
  <2>2. QED
    BY <2>1, GoOnTyped DEF LogInv, TypeOK, log, tails, history
<1>4. QED
  BY <1>1, <1>2, <1>3

\* What a fiber does after its transaction keeps the types.
LEMMA FinishTyped ==
  ASSUME LogInv, NEW f \in Fiber, Finish(f) \/ Fail(f) \/ Interrupted(f)
  PROVE  TypeOK' /\ ReplaysPending'
<1>1. CASE Wake(f)
  <2>1. /\ pc[f] # "idle" /\ Move(f, "notify")
        /\ dirty' = [t \in Reader |-> dirty[t] \/ (tpc[t] # "off" /\ Follows[t] = op[f].agg)]
        /\ UNCHANGED <<log, op, told, tpc, cursor, batch, last, history>>
    BY <1>1 DEF Wake
  <2>2. dirty' \in [Reader -> BOOLEAN]
    BY <2>1 DEF LogInv, TypeOK
  <2>3. QED
    BY <2>1, <2>2, MoveTyped DEF LogInv, TypeOK, log, history
<1>2. CASE Notify(f)
  <2>1. pc[f] # "idle" /\ UNCHANGED <<log, tails, sources, claimed>>
    BY <1>2 DEF Notify
  <2>2. CASE told[f] = <<>> /\ GoOn(f) /\ UNCHANGED notified
    BY <2>1, <2>2, GoOnTyped DEF LogInv, TypeOK, log, tails
  <2>3. CASE /\ told[f] # <<>>
             /\ notified' = IF op[f].agg \in Removable THEN notified ELSE notified \cup {Head(told[f])}
             /\ told' = [told EXCEPT ![f] = Tail(@)]
             /\ UNCHANGED <<pc, op>>
    <3>1. told[f] \in Seq(Id)
      BY DEF LogInv, TypeOK
    <3>2. Head(told[f]) \in Id /\ Tail(told[f]) \in Seq(Id)
      BY <2>3, <3>1, HeadTailProperties
    <3>3. told' \in [Fiber -> Seq(Id)] /\ notified' \subseteq Id
      BY <2>3, <3>2 DEF LogInv, TypeOK
    <3>4. QED
      BY <2>1, <2>3, <3>3 DEF LogInv, TypeOK, ReplaysPending, log, tails
  <2>4. QED
    BY <1>2, <2>2, <2>3 DEF Notify
<1>3. CASE Fail(f) \/ Interrupted(f)
  <2>1. /\ pc' = [pc EXCEPT ![f] = "idle"]
        /\ op' = [op EXCEPT ![f] = <<>>]
        /\ told' = [told EXCEPT ![f] = <<>>]
        /\ UNCHANGED <<log, tails, history>>
    BY <1>3 DEF Fail, Interrupted, Drop, Move
  <2>2. told' \in [Fiber -> Seq(Id)]
    BY <2>1 DEF LogInv, TypeOK
  <2>3. /\ pc' \in [Fiber -> {"idle", "commit", "wake", "notify", "failed"}]
        /\ op' \in [Fiber -> Operation \cup {<<>>}]
        /\ \A g \in Fiber : pc'[g] # "idle" => op'[g] \in Operation
    BY <2>1 DEF LogInv, TypeOK
  <2>4. ReplaysPending'
    BY <2>1 DEF LogInv, TypeOK, ReplaysPending
  <2>5. QED
    BY <2>1, <2>2, <2>3, <2>4 DEF LogInv, TypeOK, log, tails, history
<1>4. QED
  BY <1>1, <1>2, <1>3 DEF Finish

\* The rows a tail reads are rows of its aggregate behind its cursor.
LEMMA LaterRows ==
  ASSUME LogInv, NEW t \in Reader
  PROVE  /\ Later(t) \subseteq events
         /\ Later(t) \subseteq Row
         /\ \A r \in Later(t) : r.agg = Follows[t] /\ r.seq \in Nat /\ r.seq > cursor[t]
BY DEF Later, RowsOf, LogInv, TypeOK, Row

\* The steps of a tail, and a restart, keep the types.
LEMMA TailTyped ==
  ASSUME LogInv, NEW t \in Reader,
         \/ \E after \in {-1, last[t]} : TailOpen(t, after)
         \/ Tailing(t)
         \/ TailClose(t)
  PROVE  TypeOK' /\ UNCHANGED <<log, fibers, history>>
<1> USE DEF LogInv, TypeOK
<1>1. CASE \E after \in {-1, last[t]} : TailOpen(t, after)
  <2>1. PICK after \in {-1, last[t]} : TailOpen(t, after)
    BY <1>1
  <2>2. after \in Nat \cup {-1}
    OBVIOUS
  <2>3. QED
    BY <2>1, <2>2 DEF TailOpen, log, fibers, history
<1>2. CASE TailRead(t)
  <2>1. cursor' \in [Reader -> Nat \cup {-1}]
    <3>1. cursor' = cursor \/ \E r \in Later(t) : cursor' = [cursor EXCEPT ![t] = r.seq]
      BY <1>2 DEF TailRead
    <3>2. QED
      BY <3>1, LaterRows
  <2>2. batch' \in [Reader -> SUBSET Row]
    BY <1>2, LaterRows DEF TailRead
  <2>3. QED
    BY <1>2, <2>1, <2>2 DEF TailRead, log, fibers, history
<1>3. CASE TailEmit(t)
  <2>1. PICK r \in batch[t] : /\ last' = [last EXCEPT ![t] = r.seq]
                             /\ batch' = [batch EXCEPT ![t] = @ \ {r}]
    BY <1>3 DEF TailEmit
  <2>2. r \in Row /\ r.seq \in Nat
    BY DEF Row
  <2>3. last' \in [Reader -> Nat \cup {-1}] /\ batch' \in [Reader -> SUBSET Row]
    BY <2>1, <2>2
  <2>4. QED
    BY <1>3, <2>3 DEF TailEmit, log, fibers, history
<1>4. CASE TailWake(t)
  BY <1>4 DEF TailWake, log, fibers, history
<1>5. CASE TailClose(t)
  BY <1>5 DEF TailClose, log, fibers, history
<1>6. QED
  BY <1>1, <1>2, <1>3, <1>4, <1>5 DEF Tailing

\* Every step keeps the types.
LEMMA StepTyped == LogInv /\ [Next]_vars => TypeOK' /\ ReplaysPending'
<1> SUFFICES ASSUME LogInv, [Next]_vars PROVE TypeOK' /\ ReplaysPending'
  OBVIOUS
<1>1. ASSUME NEW f \in Fiber, NEW a \in Aggregate, NEW ids \in Batches, Publish(f, a, ids)
      PROVE  TypeOK' /\ ReplaysPending'
  <2>1. ids \in Seq(Id)
    <3>1. ids \in {<<i>> : i \in LocalId} \/ ids \in {<<i, j>> : i, j \in LocalId}
      BY DEF Batches
    <3>2. CASE ids \in {<<i>> : i \in LocalId}
      <4>1. PICK i \in LocalId : ids = <<i>>
        BY <3>2
      <4>2. i \in Id
        BY LocalIdAssumption
      <4>3. QED
        BY <4>1, <4>2
    <3>3. CASE ids \in {<<i, j>> : i, j \in LocalId}
      <4>1. PICK i \in LocalId, j \in LocalId : ids = <<i, j>>
        BY <3>3
      <4>2. i \in Id /\ j \in Id
        BY LocalIdAssumption
      <4>3. <<i, j>> \in Seq(Id)
        BY <4>2
      <4>4. QED
        BY <4>1, <4>3
    <3>4. QED
      BY <3>1, <3>2, <3>3
  <2>2. NoOwner \in Names /\ 0 \in Nat
    BY DEF Names
  <2>3. QED
    BY <1>1, <2>1, <2>2, AskTyped DEF Publish
<1>2. ASSUME NEW f \in Fiber, NEW by \in Names, NEW a \in Aggregate,
             NEW strict \in BOOLEAN, NEW share \in BOOLEAN,
             NEW i \in DOMAIN Remote[by][a], NEW j \in DOMAIN Remote[by][a],
             Replay(f, by, a, i, j, strict, share)
      PROVE  TypeOK' /\ ReplaysPending'
  <2>1. Remote[by][a] \in Seq(Id)
    BY RemoteAssumption DEF Names
  <2>2. i \in Int /\ j \in Int /\ 1 <= i /\ i <= j /\ j <= Len(Remote[by][a])
    BY <1>2, <2>1, LenProperties DEF Replay
  <2>3. SubSeq(Remote[by][a], i, j) \in Seq(Id) /\ SubSeq(Remote[by][a], i, j) # <<>>
    <3>1. SubSeq(Remote[by][a], i, j) \in Seq(Id)
      BY <2>1, <2>2, LenProperties, SubSeqProperties
    <3>2. Len(SubSeq(Remote[by][a], i, j)) = j - i + 1
      BY <2>1, <2>2, LenProperties, SubSeqProperties
    <3>3. QED
      BY <2>2, <3>1, <3>2, EmptySeq
  <2>4. i - 1 \in Nat
    BY <2>2
  <2>5. QED
    BY <1>2, <2>3, <2>4, AskTyped DEF Replay
<1>3. ASSUME NEW f \in Fiber, Commit(f) PROVE TypeOK' /\ ReplaysPending'
  BY <1>3, CommitTyped
<1>4. ASSUME NEW f \in Fiber,
             LocalRefused(f) \/ ReplayStale(f) \/ ReplayFenced(f) \/ ReplayRefused(f)
      PROVE  TypeOK' /\ ReplaysPending'
  BY <1>4, RefusalTyped
<1>5. ASSUME NEW f \in Fiber, Finish(f) \/ Fail(f) \/ Interrupted(f)
      PROVE  TypeOK' /\ ReplaysPending'
  BY <1>5, FinishTyped
<1>6. ASSUME NEW a \in Aggregate, NEW o \in Owner, Claim(a, o)
      PROVE  TypeOK' /\ ReplaysPending'
  <2>1. /\ owner' \in [Aggregate -> Names]
        /\ claimed' \in [Aggregate -> BOOLEAN]
    BY <1>6 DEF Claim, LogInv, TypeOK, Names
  <2>2. QED
    BY <1>6, <2>1 DEF Claim, LogInv, TypeOK, ReplaysPending, fibers, tails
<1>7. ASSUME NEW a \in Aggregate, Remove(a) PROVE TypeOK' /\ ReplaysPending'
  <2>1. /\ latest' \in [Aggregate -> Nat \cup {-1}]
        /\ owner' \in [Aggregate -> Names]
        /\ sources' \in [Aggregate -> SUBSET Owner]
        /\ claimed' \in [Aggregate -> BOOLEAN]
        /\ events' \subseteq Row
    BY <1>7 DEF Remove, LogInv, TypeOK, Names
  <2>2. QED
    BY <1>7, <2>1 DEF Remove, LogInv, TypeOK, ReplaysPending, fibers, tails
<1>8. ASSUME NEW t \in Reader,
             \/ \E after \in {-1, last[t]} : TailOpen(t, after)
             \/ Tailing(t)
             \/ TailClose(t)
      PROVE  TypeOK' /\ ReplaysPending'
  BY <1>8, TailTyped DEF LogInv, ReplaysPending, fibers
<1>9. CASE Restart
  <2>1. /\ pc' = [f \in Fiber |-> "idle"]
        /\ op' = [f \in Fiber |-> <<>>]
        /\ told' = [f \in Fiber |-> <<>>]
    BY <1>9 DEF Restart
  <2>2. told' \in [Fiber -> Seq(Id)] /\ op' \in [Fiber -> Operation \cup {<<>>}]
    BY <2>1
  <2>3. /\ tpc' \in [Reader -> {"off", "read", "stream"}]
        /\ dirty' \in [Reader -> BOOLEAN]
        /\ batch' \in [Reader -> SUBSET Row]
        /\ UNCHANGED <<log, cursor, last, history>>
    BY <1>9 DEF Restart
  <2>4. QED
    BY <2>1, <2>2, <2>3 DEF LogInv, TypeOK, ReplaysPending, log, history
<1>10. CASE UNCHANGED vars
  BY <1>10 DEF LogInv, TypeOK, ReplaysPending, vars, log, fibers, tails, history
<1>11. QED
  BY <1>1, <1>2, <1>3, <1>4, <1>5, <1>6, <1>7, <1>8, <1>9, <1>10 DEF Next

\* Rows come from commits and go with removals; nothing else touches them.
LEMMA RowsFrame ==
  ASSUME LogInv, [Next]_vars
  PROVE  \/ latest' = latest /\ events' = events
         \/ \E f \in Fiber : CommitLocal(f) \/ ReplayAccepted(f)
         \/ \E a \in Aggregate : Remove(a)
<1> DEFINE Kept == latest' = latest /\ events' = events
<1>1. ASSUME NEW f \in Fiber, NEW a \in Aggregate, NEW ids \in Batches, Publish(f, a, ids)
      PROVE  Kept
  BY <1>1 DEF Publish, Ask, log
<1>2. ASSUME NEW f \in Fiber, NEW by \in Names, NEW a \in Aggregate,
             NEW strict \in BOOLEAN, NEW share \in BOOLEAN,
             NEW i \in DOMAIN Remote[by][a], NEW j \in DOMAIN Remote[by][a],
             Replay(f, by, a, i, j, strict, share)
      PROVE  Kept
  BY <1>2 DEF Replay, Ask, log
<1>3. ASSUME NEW f \in Fiber,
             LocalRefused(f) \/ ReplayStale(f) \/ ReplayFenced(f) \/ ReplayRefused(f)
      PROVE  Kept
  BY <1>3 DEF LocalRefused, ReplayStale, ReplayFenced, ReplayRefused, log
<1>4. ASSUME NEW f \in Fiber, Finish(f) \/ Fail(f) \/ Interrupted(f)
      PROVE  Kept
  BY <1>4 DEF Finish, Wake, Notify, Fail, Interrupted, Drop, log
<1>5. ASSUME NEW a \in Aggregate, NEW o \in Owner, Claim(a, o)
      PROVE  Kept
  BY <1>5 DEF Claim
<1>6. ASSUME NEW t \in Reader,
             \/ \E after \in {-1, last[t]} : TailOpen(t, after)
             \/ Tailing(t)
             \/ TailClose(t)
      PROVE  Kept
  BY <1>6, TailTyped DEF log
<1>7. CASE Restart
  BY <1>7 DEF Restart, log
<1>8. CASE UNCHANGED vars
  BY <1>8 DEF vars, log
<1>9. QED
  BY <1>1, <1>2, <1>3, <1>4, <1>5, <1>6, <1>7, <1>8 DEF Next, Commit

\* What the two kinds of commits have in common: new IDs, at the sequences
\* behind the latest one.
LEMMA CommitAppends ==
  ASSUME LogInv, NEW f \in Fiber, CommitLocal(f) \/ ReplayAccepted(f)
  PROVE  LET a == op[f].agg
         IN
         /\ a \in Aggregate
         /\ events \subseteq events'
         /\ latest[a] \in Nat \cup {-1} /\ latest'[a] \in Nat \cup {-1}
         /\ latest[a] <= latest'[a]
         /\ \A b \in Aggregate : b # a => latest'[b] = latest[b]
         /\ \A r \in events' \ events :
              r.agg = a /\ latest[a] < r.seq /\ r.seq <= latest'[a] /\ ~Used(r.id)
         /\ \A r, s \in events' \ events : r.id = s.id \/ r.seq = s.seq => r = s
         /\ \A n \in latest[a] + 1 .. latest'[a] : \E r \in events' : r.agg = a /\ r.seq = n
         /\ pc'[f] = "wake" /\ op' = op /\ UNCHANGED tails
         /\ \A g \in Fiber : g # f => pc'[g] = pc[g]
<1> DEFINE a == op[f].agg
<1> DEFINE ids == op[f].ids
<1>1. CASE CommitLocal(f)
  <2>1. a \in Aggregate /\ ids \in Seq(Id)
    BY <1>1 DEF CommitLocal, LogInv, TypeOK, Operation
  <2>2. /\ events' = events \cup Appended(a, ids)
        /\ latest' = [latest EXCEPT ![a] = @ + Len(ids)]
        /\ Move(f, "wake")
        /\ UNCHANGED <<owner, op, tails, history>>
        /\ \A k \in DOMAIN ids : ~Used(ids[k]) /\ \A j \in DOMAIN ids : ids[j] = ids[k] => j = k
    BY <1>1 DEF CommitLocal
  <2>3. /\ Len(ids) \in Nat
        /\ DOMAIN ids = 1 .. Len(ids)
        /\ latest[a] \in Nat \cup {-1}
    BY <2>1, AppendedTyped
  <2> HIDE DEF a, ids
  <2>4. latest'[a] = latest[a] + Len(ids) /\ \A b \in Aggregate : b # a => latest'[b] = latest[b]
    BY <2>1, <2>2 DEF LogInv, TypeOK
  <2>5. latest[a] <= latest'[a] /\ latest'[a] \in Nat \cup {-1}
    BY <2>3, <2>4
  <2>6. ASSUME NEW r \in Appended(a, ids)
        PROVE  \E k \in DOMAIN ids :
                 r.id = ids[k] /\ r.agg = a /\ r.seq = latest[a] + k
                   /\ r = [id |-> ids[k], agg |-> a, seq |-> latest[a] + k]
    BY DEF Appended, AtRow
  <2>7. ASSUME NEW r \in events' \ events
        PROVE  r.agg = a /\ latest[a] < r.seq /\ r.seq <= latest'[a] /\ ~Used(r.id)
    BY <2>2, <2>3, <2>4, <2>6
  <2>8. ASSUME NEW r \in events' \ events, NEW s \in events' \ events, r.id = s.id \/ r.seq = s.seq
        PROVE  r = s
    <3>1. PICK k \in DOMAIN ids : r.id = ids[k] /\ r.seq = latest[a] + k
                                    /\ r = [id |-> ids[k], agg |-> a, seq |-> latest[a] + k]
      BY <2>2, <2>6
    <3>2. PICK j \in DOMAIN ids : s.id = ids[j] /\ s.seq = latest[a] + j
                                    /\ s = [id |-> ids[j], agg |-> a, seq |-> latest[a] + j]
      BY <2>2, <2>6
    <3>3. k = j
      BY <2>2, <2>3, <2>8, <3>1, <3>2
    <3>4. QED
      BY <3>1, <3>2, <3>3
  <2>9. ASSUME NEW n \in latest[a] + 1 .. latest'[a]
        PROVE  \E r \in events' : r.agg = a /\ r.seq = n
    <3>1. n - latest[a] \in DOMAIN ids
      BY <2>3, <2>4
    <3>2. AtRow(ids[n - latest[a]], a, latest[a] + (n - latest[a])) \in events'
      BY <2>2, <3>1 DEF Appended
    <3>3. latest[a] + (n - latest[a]) = n
      BY <2>3
    <3>4. QED
      BY <3>2, <3>3 DEF AtRow
  <2>10. pc'[f] = "wake" /\ \A g \in Fiber : g # f => pc'[g] = pc[g]
    BY <2>2 DEF Move, LogInv, TypeOK
  <2>11. op[f].agg = a
    BY DEF a
  <2>12. QED
    BY <2>1, <2>2, <2>3, <2>4, <2>5, <2>7, <2>8, <2>9, <2>10, <2>11
<1>2. CASE ReplayAccepted(f)
  <2>1. /\ Replaying(f)
        /\ Expected(f)
        /\ ~Used(op[f].ids[1])
        /\ events' = events \cup {Replayed(f)}
        /\ latest' = [latest EXCEPT ![a] = op[f].at]
        /\ Move(f, "wake")
        /\ UNCHANGED <<op, tails, notified, claimed>>
    BY <1>2 DEF ReplayAccepted
  <2>2. /\ a \in Aggregate /\ op[f].at \in Nat
        /\ Replayed(f).id = op[f].ids[1] /\ Replayed(f).agg = a /\ Replayed(f).seq = op[f].at
    BY <2>1, ReplayedTyped DEF Operation
  <2>3. latest[a] \in Nat \cup {-1} /\ op[f].at = latest[a] + 1
    BY <2>1, <2>2 DEF LogInv, TypeOK, Expected
  <2>4. latest'[a] = op[f].at /\ \A b \in Aggregate : b # a => latest'[b] = latest[b]
    BY <2>1, <2>2 DEF LogInv, TypeOK
  <2>5. pc'[f] = "wake" /\ \A g \in Fiber : g # f => pc'[g] = pc[g]
    BY <2>1 DEF Move, LogInv, TypeOK
  <2>6. \A n \in latest[a] + 1 .. latest'[a] : \E r \in events' : r.agg = a /\ r.seq = n
    BY <2>1, <2>2, <2>3, <2>4
  <2>7. QED
    BY <2>1, <2>2, <2>3, <2>4, <2>5, <2>6
<1>3. QED
  BY <1>1, <1>2

\* Every step keeps the numbering.
LEMMA StepNumbered == LogInv /\ [Next]_vars => Numbered'
<1> SUFFICES ASSUME LogInv, [Next]_vars PROVE Numbered'
  OBVIOUS
<1>1. CASE latest' = latest /\ events' = events
  BY <1>1 DEF LogInv, Numbered
<1>2. ASSUME NEW f \in Fiber, CommitLocal(f) \/ ReplayAccepted(f)
      PROVE  Numbered'
  <2> DEFINE a == op[f].agg
  <2>1. /\ a \in Aggregate
        /\ events \subseteq events'
        /\ latest[a] \in Nat \cup {-1} /\ latest'[a] \in Nat \cup {-1}
        /\ latest[a] <= latest'[a]
        /\ \A b \in Aggregate : b # a => latest'[b] = latest[b]
        /\ \A r \in events' \ events :
             r.agg = a /\ latest[a] < r.seq /\ r.seq <= latest'[a] /\ ~Used(r.id)
        /\ \A r, s \in events' \ events : r.id = s.id \/ r.seq = s.seq => r = s
        /\ \A n \in latest[a] + 1 .. latest'[a] : \E r \in events' : r.agg = a /\ r.seq = n
    BY <1>2, CommitAppends
  <2> HIDE DEF a
  <2>2. \A r \in events : r.agg \in Aggregate /\ r.seq \in Nat /\ r.seq <= latest[r.agg]
    BY DEF LogInv, TypeOK, Row, Numbered
  <2>3. \A r, s \in events' : r.id = s.id => r = s
    BY <2>1 DEF LogInv, Numbered, Used
  <2>4. \A r, s \in events' : r.agg = s.agg /\ r.seq = s.seq => r = s
    BY <2>1, <2>2 DEF LogInv, Numbered
  <2>5. \A r \in events' : r.seq <= latest'[r.agg]
    <3> SUFFICES ASSUME NEW r \in events' PROVE r.seq <= latest'[r.agg]
      OBVIOUS
    <3>1. CASE r \in events /\ r.agg = a
      BY <2>1, <2>2, <3>1
    <3>2. CASE r \in events /\ r.agg # a
      BY <2>1, <2>2, <3>2
    <3>3. QED
      BY <2>1, <3>1, <3>2
  <2>6. \A b \in Aggregate : \A n \in 0 .. latest'[b] : \E r \in events' : r.agg = b /\ r.seq = n
    <3> SUFFICES ASSUME NEW b \in Aggregate, NEW n \in 0 .. latest'[b]
                 PROVE  \E r \in events' : r.agg = b /\ r.seq = n
      OBVIOUS
    <3>1. CASE n \in 0 .. latest[b]
      BY <2>1, <3>1 DEF LogInv, Numbered
    <3>2. CASE n \notin 0 .. latest[b]
      <4>1. b = a
        BY <2>1, <3>2
      <4>2. n \in latest[a] + 1 .. latest'[a]
        BY <2>1, <3>2, <4>1
      <4>3. QED
        BY <2>1, <4>1, <4>2
    <3>3. QED
      BY <3>1, <3>2
  <2>7. QED
    BY <2>3, <2>4, <2>5, <2>6 DEF Numbered
<1>3. ASSUME NEW a \in Aggregate, Remove(a)
      PROVE  Numbered'
  <2>1. /\ latest' = [latest EXCEPT ![a] = -1]
        /\ events' = {r \in events : r.agg # a}
    BY <1>3 DEF Remove
  <2>2. \A b \in Aggregate : latest'[b] = IF b = a THEN -1 ELSE latest[b]
    BY <2>1 DEF LogInv, TypeOK
  <2>3. \A r \in events' : r \in events /\ r.agg # a /\ r.agg \in Aggregate
    BY <2>1 DEF LogInv, TypeOK, Row
  <2>4. \A r \in events' : r.seq <= latest'[r.agg]
    BY <2>2, <2>3 DEF LogInv, Numbered
  <2>5. \A b \in Aggregate : \A n \in 0 .. latest'[b] : \E r \in events' : r.agg = b /\ r.seq = n
    BY <2>1, <2>2 DEF LogInv, Numbered
  <2>6. QED
    BY <2>3, <2>4, <2>5 DEF LogInv, Numbered
<1>4. QED
  BY <1>1, <1>2, <1>3, RowsFrame

\* Row by row is the same as the property the runs check.
LEMMA NumberedIsWellFormed == LogInv => LogWellFormed
<1> SUFFICES ASSUME LogInv PROVE LogWellFormed
  OBVIOUS
<1>1. \A r, s \in events : r.id = s.id \/ (r.agg = s.agg /\ r.seq = s.seq) => r = s
  BY DEF LogInv, Numbered
<1>2. ASSUME NEW a \in Aggregate
      PROVE  {r.seq : r \in RowsOf(a)} = 0 .. latest[a]
  <2>1. ASSUME NEW r \in RowsOf(a) PROVE r.seq \in 0 .. latest[a]
    <3>1. r \in events /\ r.agg = a /\ r.seq \in Nat /\ r.seq <= latest[a]
      BY DEF RowsOf, LogInv, TypeOK, Row, Numbered
    <3>2. latest[a] \in Int
      BY DEF LogInv, TypeOK
    <3>3. QED
      BY <3>1, <3>2
  <2>2. ASSUME NEW n \in 0 .. latest[a] PROVE \E r \in RowsOf(a) : r.seq = n
    BY DEF RowsOf, LogInv, Numbered
  <2>3. QED
    BY <2>1, <2>2
<1>3. QED
  BY <1>1, <1>2 DEF LogWellFormed

\* The log part of the invariant is inductive by itself.
LEMMA StepLogInv == LogInv /\ [Next]_vars => LogInv'
BY StepTyped, StepNumbered DEF LogInv

-----------------------------------------------------------------------------
\* What a step of a fiber that does not commit leaves to the tails.
LEMMA FiberFrame ==
  ASSUME LogInv, [Next]_vars
  PROVE  \/ \E f \in Fiber : CommitLocal(f) \/ ReplayAccepted(f)
         \/ \E a \in Aggregate : Remove(a)
         \/ \E f \in Fiber : Wake(f)
         \/ Restart
         \/ \E t \in Reader : \/ \E after \in {-1, last[t]} : TailOpen(t, after)
                              \/ Tailing(t)
                              \/ TailClose(t)
         \/ /\ UNCHANGED <<latest, events, tails>>
            /\ \A f \in Fiber : pc[f] = "wake" => pc'[f] = "wake" /\ op'[f] = op[f]
<1> DEFINE Aside == /\ UNCHANGED <<latest, events, tails>>
                    /\ \A f \in Fiber : pc[f] = "wake" => pc'[f] = "wake" /\ op'[f] = op[f]
<1> USE DEF LogInv, TypeOK
<1>1. ASSUME NEW f \in Fiber, NEW a \in Aggregate, NEW ids \in Batches, Publish(f, a, ids)
      PROVE  Aside
  BY <1>1 DEF Publish, Ask, log
<1>2. ASSUME NEW f \in Fiber, NEW by \in Names, NEW a \in Aggregate,
             NEW strict \in BOOLEAN, NEW share \in BOOLEAN,
             NEW i \in DOMAIN Remote[by][a], NEW j \in DOMAIN Remote[by][a],
             Replay(f, by, a, i, j, strict, share)
      PROVE  Aside
  BY <1>2 DEF Replay, Ask, log
<1>3. ASSUME NEW f \in Fiber, LocalRefused(f) \/ ReplayRefused(f)
      PROVE  Aside
  BY <1>3 DEF LocalRefused, ReplayRefused, Replaying, Move, log
<1>4. ASSUME NEW f \in Fiber, ReplayStale(f) \/ ReplayFenced(f)
      PROVE  Aside
  <2>1. pc[f] = "commit" /\ GoOn(f) /\ UNCHANGED <<latest, events, tails>>
    BY <1>4 DEF ReplayStale, ReplayFenced, Replaying, log
  <2>2. QED
    BY <2>1, GoOnTyped
<1>5. ASSUME NEW f \in Fiber, Notify(f)
      PROVE  Aside
  <2>1. /\ pc[f] = "notify" /\ UNCHANGED <<latest, events, tails>>
        /\ GoOn(f) \/ UNCHANGED <<pc, op>>
    BY <1>5 DEF Notify, log
  <2>2. QED
    BY <2>1, GoOnTyped
<1>6. ASSUME NEW f \in Fiber, Fail(f) \/ Interrupted(f)
      PROVE  Aside
  BY <1>6 DEF Fail, Interrupted, Drop, Move, log
<1>7. ASSUME NEW a \in Aggregate, NEW o \in Owner, Claim(a, o)
      PROVE  Aside
  BY <1>7 DEF Claim, fibers
<1>8. CASE UNCHANGED vars
  BY <1>8 DEF vars, log, fibers
<1>9. QED
  BY <1>1, <1>2, <1>3, <1>4, <1>5, <1>6, <1>7, <1>8 DEF Next, Commit, Finish

\* A tail that has read everything is level with the log.
LEMMA ReadIsLevel ==
  ASSUME LogInv, NEW t \in Reader, TailRead(t)
  PROVE  /\ latest[Follows[t]] <= cursor'[t]
         /\ cursor'[t] \in Nat \cup {-1}
         /\ cursor[t] <= cursor'[t]
         /\ cursor'[t] = cursor[t] \/ cursor'[t] <= latest[Follows[t]]
         /\ \A u \in Reader : u # t => cursor'[u] = cursor[u]
<1> DEFINE a == Follows[t]
<1>1. /\ a \in Aggregate
      /\ latest[a] \in Nat \cup {-1}
      /\ cursor[t] \in Nat \cup {-1}
      /\ \A r \in events : r.agg \in Aggregate /\ r.seq \in Nat /\ r.seq <= latest[r.agg]
      /\ \A n \in 0 .. latest[a] : \E r \in events : r.agg = a /\ r.seq = n
  BY FollowsAssumption DEF LogInv, TypeOK, Numbered, Row
<1>2. Later(t) = {r \in events : r.agg = a /\ r.seq > cursor[t]}
  BY DEF Later, RowsOf
<1> HIDE DEF a
<1>3. CASE Later(t) = {} /\ UNCHANGED cursor
  <2>1. latest[a] <= cursor[t]
    <3> SUFFICES ASSUME latest[a] > cursor[t] PROVE FALSE
      BY <1>1
    <3>1. latest[a] \in 0 .. latest[a]
      BY <1>1
    <3>2. PICK r \in events : r.agg = a /\ r.seq = latest[a]
      BY <1>1, <3>1
    <3>3. QED
      BY <1>2, <1>3, <3>2
  <2>2. QED
    BY <1>1, <1>3, <2>1 DEF a
<1>4. ASSUME NEW r \in Later(t), \A s \in Later(t) : s.seq <= r.seq,
             cursor' = [cursor EXCEPT ![t] = r.seq]
      PROVE  /\ latest[a] <= cursor'[t]
             /\ cursor'[t] \in Nat
             /\ cursor[t] <= cursor'[t]
             /\ cursor'[t] <= latest[a]
             /\ \A u \in Reader : u # t => cursor'[u] = cursor[u]
  <2>1. cursor'[t] = r.seq /\ \A u \in Reader : u # t => cursor'[u] = cursor[u]
    BY <1>4 DEF LogInv, TypeOK
  <2>2. r \in events /\ r.agg = a /\ r.seq \in Nat /\ r.seq <= latest[a] /\ r.seq > cursor[t]
    BY <1>1, <1>2
  <2>3. latest[a] <= r.seq
    <3>1. latest[a] \in 0 .. latest[a]
      BY <1>1, <2>2
    <3>2. PICK s \in events : s.agg = a /\ s.seq = latest[a]
      BY <1>1, <3>1
    <3>3. s \in Later(t)
      BY <1>1, <1>2, <2>2, <3>2
    <3>4. QED
      BY <1>4, <3>2, <3>3
  <2>4. QED
    BY <1>1, <2>1, <2>2, <2>3
<1>5. QED
  BY <1>3, <1>4 DEF TailRead, a

\* No step makes a tail miss a commit: a commit leaves its fiber about to
\* signal, a signal reaches every open tail, and reading makes a tail level.
LEMMA StepNoMissedCommit == LogInv /\ NoMissedCommit /\ [Next]_vars => NoMissedCommit'
<1> SUFFICES ASSUME LogInv, NoMissedCommit, [Next]_vars,
                    NEW t \in Reader, tpc'[t] = "stream", cursor'[t] < latest'[Follows[t]]
             PROVE  dirty'[t] \/ \E f \in Fiber : pc'[f] = "wake" /\ op'[f].agg = Follows[t]
  BY DEF NoMissedCommit
<1> DEFINE a == Follows[t]
<1>0. a \in Aggregate /\ LogInv'
  BY FollowsAssumption, StepLogInv
<1>1. ASSUME NEW f \in Fiber, CommitLocal(f) \/ ReplayAccepted(f)
      PROVE  dirty'[t] \/ \E g \in Fiber : pc'[g] = "wake" /\ op'[g].agg = a
  <2>1. /\ \A b \in Aggregate : b # op[f].agg => latest'[b] = latest[b]
        /\ pc'[f] = "wake" /\ op' = op /\ UNCHANGED tails
        /\ \A g \in Fiber : g # f => pc'[g] = pc[g]
    BY <1>1, CommitAppends
  <2>2. CASE op[f].agg = a
    BY <2>1, <2>2
  <2>3. CASE op[f].agg # a
    <3>1. dirty[t] \/ \E g \in Fiber : pc[g] = "wake" /\ op[g].agg = a
      BY <1>0, <2>1, <2>3 DEF NoMissedCommit, tails
    <3>2. QED
      BY <2>1, <3>1 DEF tails
  <2>4. QED
    BY <2>2, <2>3
<1>2. ASSUME NEW b \in Aggregate, Remove(b)
      PROVE  dirty'[t] \/ \E g \in Fiber : pc'[g] = "wake" /\ op'[g].agg = a
  <2>1. latest'[a] = latest[a] \/ latest'[a] = -1
    BY <1>0, <1>2 DEF Remove, LogInv, TypeOK
  <2>2. cursor[t] \in Nat \cup {-1}
    BY DEF LogInv, TypeOK
  <2>3. cursor[t] < latest[a] /\ tpc[t] = "stream"
    BY <1>2, <2>1, <2>2 DEF Remove, tails
  <2>4. QED
    BY <1>2, <2>3 DEF NoMissedCommit, Remove, tails, fibers
<1>3. ASSUME NEW f \in Fiber, Wake(f)
      PROVE  dirty'[t] \/ \E g \in Fiber : pc'[g] = "wake" /\ op'[g].agg = a
  <2>1. dirty'[t] = (dirty[t] \/ (tpc[t] # "off" /\ a = op[f].agg))
    BY <1>3 DEF Wake
  <2>2. tpc[t] = "stream" /\ cursor[t] < latest[a]
    BY <1>3 DEF Wake, log
  <2>3. \A g \in Fiber : g # f => pc'[g] = pc[g] /\ op'[g] = op[g]
    BY <1>3 DEF Wake, Move, LogInv, TypeOK
  <2>4. dirty[t] \/ \E g \in Fiber : pc[g] = "wake" /\ op[g].agg = a
    BY <2>2 DEF NoMissedCommit
  <2>5. QED
    BY <2>1, <2>2, <2>3, <2>4
<1>4. ASSUME NEW u \in Reader,
             \/ \E after \in {-1, last[u]} : TailOpen(u, after)
             \/ Tailing(u)
             \/ TailClose(u)
      PROVE  dirty'[t] \/ \E g \in Fiber : pc'[g] = "wake" /\ op'[g].agg = a
  <2>1. UNCHANGED <<log, fibers>>
    BY <1>4, TailTyped
  <2>2. CASE u # t
    <3>1. tpc'[t] = tpc[t] /\ dirty'[t] = dirty[t] /\ cursor'[t] = cursor[t]
      BY <1>4, <2>2, ReadIsLevel DEF TailOpen, Tailing, TailRead, TailEmit, TailWake, TailClose, LogInv, TypeOK
    <3>2. QED
      BY <2>1, <3>1 DEF NoMissedCommit, log, fibers
  <2>3. CASE u = t
    <3>1. CASE TailRead(t)
      <4>1. latest[a] <= cursor'[t] /\ latest'[a] = latest[a]
        BY <2>1, <3>1, ReadIsLevel DEF log
      <4>2. cursor'[t] \in Int /\ latest[a] \in Int
        BY <1>0, <3>1, ReadIsLevel DEF LogInv, TypeOK
      <4>3. QED
        BY <4>1, <4>2
    <3>2. CASE TailEmit(t)
      BY <2>1, <3>2 DEF TailEmit, NoMissedCommit, log, fibers
    <3>3. CASE ~TailRead(t) /\ ~TailEmit(t)
      <4>1. tpc'[t] # "stream"
        BY <1>4, <2>3, <3>3 DEF TailOpen, Tailing, TailWake, TailClose, LogInv, TypeOK
      <4>2. QED
        BY <4>1
    <3>4. QED
      BY <3>1, <3>2, <3>3
  <2>4. QED
    BY <2>2, <2>3
<1>5. CASE Restart
  BY <1>5 DEF Restart
<1>6. CASE /\ UNCHANGED <<latest, events, tails>>
           /\ \A f \in Fiber : pc[f] = "wake" => pc'[f] = "wake" /\ op'[f] = op[f]
  BY <1>6 DEF NoMissedCommit, tails
<1>7. QED
  BY <1>1, <1>2, <1>3, <1>4, <1>5, <1>6, FiberFrame

\* No step breaks the single ownership of a log that is not claimed.
LEMMA StepOneReplayOwner == LogInv /\ OneReplayOwner /\ [Next]_vars => OneReplayOwner'
<1> SUFFICES ASSUME LogInv, OneReplayOwner, [Next]_vars PROVE OneReplayOwner'
  OBVIOUS
<1> DEFINE Kept == UNCHANGED <<owner, sources, claimed>>
<1>1. ASSUME NEW f \in Fiber, ReplayStale(f) \/ ReplayAccepted(f)
      PROVE  OneReplayOwner'
  <2> DEFINE a == op[f].agg
  <2>1. a \in Aggregate /\ op[f].by \in Names
    BY <1>1, ReplayedTyped DEF ReplayStale, ReplayAccepted, Operation
  <2>2. /\ owner' = [owner EXCEPT ![a] = NewOwner(f)]
        /\ claimed' = claimed
        /\ \/ sources' = sources
           \/ /\ ~OwnedByOther(f)
              /\ sources' = [sources EXCEPT ![a] = @ \cup (Owner \cap {op[f].by})]
    BY <1>1 DEF ReplayStale, ReplayAccepted, history
  <2>3. owner[a] = NoOwner /\ ~claimed[a] => sources[a] = {}
    BY <2>1, NoOwnerAssumption DEF OneReplayOwner, LogInv, TypeOK
  <2>4. owner'[a] = IF owner[a] = NoOwner THEN op[f].by ELSE owner[a]
    BY <2>1, <2>2 DEF NewOwner, LogInv, TypeOK
  <2>5. ~claimed[a] => \A o \in sources'[a] : owner'[a] = o
    <3>1. CASE sources' = sources
      BY <2>1, <2>3, <2>4, <3>1 DEF OneReplayOwner
    <3>2. CASE /\ ~OwnedByOther(f)
               /\ sources' = [sources EXCEPT ![a] = @ \cup (Owner \cap {op[f].by})]
      <4>1. sources'[a] = sources[a] \cup (Owner \cap {op[f].by})
        BY <2>1, <3>2 DEF LogInv, TypeOK
      <4>2. owner[a] \in {NoOwner, op[f].by}
        BY <3>2 DEF OwnedByOther
      <4>3. QED
        BY <2>1, <2>3, <2>4, <4>1, <4>2 DEF OneReplayOwner
    <3>3. QED
      BY <2>2, <3>1, <3>2
  <2>6. \A b \in Aggregate : b # a => owner'[b] = owner[b] /\ sources'[b] = sources[b]
    BY <2>1, <2>2 DEF LogInv, TypeOK
  <2>7. QED
    BY <2>2, <2>5, <2>6 DEF OneReplayOwner
<1>2. ASSUME NEW a \in Aggregate, NEW o \in Owner, Claim(a, o)
      PROVE  OneReplayOwner'
  BY <1>2 DEF Claim, OneReplayOwner, LogInv, TypeOK
<1>3. ASSUME NEW a \in Aggregate, Remove(a)
      PROVE  OneReplayOwner'
  BY <1>3 DEF Remove, OneReplayOwner, LogInv, TypeOK
<1>4. ASSUME NEW f \in Fiber, CommitLocal(f) \/ LocalRefused(f) \/ ReplayFenced(f) \/ ReplayRefused(f)
      PROVE  Kept
  BY <1>4 DEF CommitLocal, LocalRefused, ReplayFenced, ReplayRefused, log, history
<1>5. ASSUME NEW f \in Fiber, Finish(f) \/ Fail(f) \/ Interrupted(f)
      PROVE  Kept
  BY <1>5 DEF Finish, Wake, Notify, Fail, Interrupted, Drop, log, history
<1>6. ASSUME NEW t \in Reader,
             \/ \E after \in {-1, last[t]} : TailOpen(t, after)
             \/ Tailing(t)
             \/ TailClose(t)
      PROVE  Kept
  BY <1>6, TailTyped DEF log, history
<1>7. ASSUME NEW f \in Fiber, NEW a \in Aggregate, NEW ids \in Batches, Publish(f, a, ids)
      PROVE  Kept
  BY <1>7 DEF Publish, Ask, log, history
<1>8. ASSUME NEW f \in Fiber, NEW by \in Names, NEW a \in Aggregate,
             NEW strict \in BOOLEAN, NEW share \in BOOLEAN,
             NEW i \in DOMAIN Remote[by][a], NEW j \in DOMAIN Remote[by][a],
             Replay(f, by, a, i, j, strict, share)
      PROVE  Kept
  BY <1>8 DEF Replay, Ask, log, history
<1>9. CASE Restart
  BY <1>9 DEF Restart, log, history, OneReplayOwner
<1>10. CASE UNCHANGED vars
  BY <1>10 DEF vars, log, history, OneReplayOwner
<1>11. Kept => OneReplayOwner'
  BY DEF OneReplayOwner
<1>12. QED
  BY <1>1, <1>2, <1>3, <1>4, <1>5, <1>6, <1>7, <1>8, <1>9, <1>10, <1>11 DEF Next, Commit

-----------------------------------------------------------------------------
\* What a client receives next is the next event of the log.
LEMMA EmitIsNext ==
  ASSUME LogInv, TailProgress, NEW t \in Reader, Follows[t] \notin Removable, TailEmit(t)
  PROVE  /\ last'[t] = last[t] + 1
         /\ last'[t] <= cursor[t]
         /\ batch'[t] = {r \in RowsOf(Follows[t]) : last'[t] < r.seq /\ r.seq <= cursor[t]}
<1> DEFINE a == Follows[t]
<1>1. /\ a \in Aggregate
      /\ latest[a] \in Nat \cup {-1}
      /\ cursor[t] \in Nat \cup {-1}
      /\ last[t] \in Nat \cup {-1}
      /\ \A r \in events : r.seq \in Nat
      /\ \A n \in 0 .. latest[a] : \E r \in events : r.agg = a /\ r.seq = n
      /\ \A r, s \in events : r.agg = s.agg /\ r.seq = s.seq => r = s
  BY FollowsAssumption DEF LogInv, TypeOK, Numbered, Row
<1>2. /\ cursor[t] <= latest[a]
      /\ batch[t] = {r \in events : r.agg = a /\ last[t] < r.seq /\ r.seq <= cursor[t]}
  BY DEF TailEmit, TailProgress, RowsOf
<1>3. PICK r \in batch[t] : /\ \A s \in batch[t] : r.seq <= s.seq
                           /\ last' = [last EXCEPT ![t] = r.seq]
                           /\ batch' = [batch EXCEPT ![t] = @ \ {r}]
  BY DEF TailEmit
<1> HIDE DEF a
<1>4. last'[t] = r.seq /\ batch'[t] = batch[t] \ {r}
  BY <1>3 DEF LogInv, TypeOK
<1>5. r.seq = last[t] + 1
  <2>1. last[t] + 1 \in 0 .. latest[a]
    BY <1>1, <1>2
  <2>2. PICK s \in events : s.agg = a /\ s.seq = last[t] + 1
    BY <1>1, <2>1
  <2>3. s \in batch[t]
    BY <1>1, <1>2, <2>2
  <2>4. QED
    BY <1>1, <1>2, <1>3, <2>2, <2>3
<1>6. batch[t] \ {r} = {s \in events : s.agg = a /\ r.seq < s.seq /\ s.seq <= cursor[t]}
  BY <1>1, <1>2, <1>5
<1>7. QED
  BY <1>2, <1>4, <1>5, <1>6 DEF a, RowsOf

\* No step makes a tail lose its place.
LEMMA StepTailProgress == LogInv /\ TailProgress /\ [Next]_vars => TailProgress'
<1> SUFFICES ASSUME LogInv, TailProgress, [Next]_vars,
                    NEW t \in Reader, Follows[t] \notin Removable
             PROVE  /\ last'[t] <= latest'[Follows[t]]
                    /\ tpc'[t] # "off" => last'[t] <= cursor'[t] /\ cursor'[t] <= latest'[Follows[t]]
                    /\ tpc'[t] = "read" => last'[t] = cursor'[t]
                    /\ tpc'[t] = "stream" =>
                         batch'[t] = {r \in RowsOf(Follows[t])' : last'[t] < r.seq /\ r.seq <= cursor'[t]}
  BY DEF TailProgress
<1> DEFINE a == Follows[t]
<1> DEFINE Goal ==
      /\ last'[t] <= latest'[a]
      /\ tpc'[t] # "off" => last'[t] <= cursor'[t] /\ cursor'[t] <= latest'[a]
      /\ tpc'[t] = "read" => last'[t] = cursor'[t]
      /\ tpc'[t] = "stream" =>
           batch'[t] = {r \in RowsOf(a)' : last'[t] < r.seq /\ r.seq <= cursor'[t]}
<1>1. /\ a \in Aggregate /\ a \notin Removable
      /\ latest[a] \in Nat \cup {-1}
      /\ cursor[t] \in Nat \cup {-1}
      /\ last[t] \in Nat \cup {-1}
      /\ \A r \in events : r.agg \in Aggregate /\ r.seq \in Nat /\ r.seq <= latest[r.agg]
  BY FollowsAssumption DEF LogInv, TypeOK, Numbered, Row
<1>2. /\ last[t] <= latest[a]
      /\ tpc[t] # "off" => last[t] <= cursor[t] /\ cursor[t] <= latest[a]
      /\ tpc[t] = "read" => last[t] = cursor[t]
      /\ tpc[t] = "stream" =>
           batch[t] = {r \in RowsOf(a) : last[t] < r.seq /\ r.seq <= cursor[t]}
  BY DEF TailProgress
<1>3. CASE UNCHANGED <<latest, events, tails>>
  BY <1>2, <1>3 DEF tails, RowsOf
<1>4. ASSUME NEW f \in Fiber, CommitLocal(f) \/ ReplayAccepted(f)
      PROVE  Goal
  <2>1. /\ events \subseteq events'
        /\ latest'[a] \in Nat \cup {-1} /\ latest[a] <= latest'[a]
        /\ \A r \in events' \ events : r.agg = a => latest[a] < r.seq
        /\ UNCHANGED tails
    <3> DEFINE b == op[f].agg
    <3>1. /\ events \subseteq events'
          /\ latest[b] <= latest'[b]
          /\ latest'[b] \in Nat \cup {-1}
          /\ \A c \in Aggregate : c # b => latest'[c] = latest[c]
          /\ \A r \in events' \ events : r.agg = b /\ latest[b] < r.seq
          /\ UNCHANGED tails
      BY <1>4, CommitAppends
    <3>2. CASE a = b
      BY <1>1, <3>1, <3>2
    <3>3. CASE a # b
      BY <1>1, <3>1, <3>3
    <3>4. QED
      BY <3>2, <3>3
  <2>2. \A r \in events' \ events : r.seq \in Nat
    BY StepLogInv DEF LogInv, TypeOK, Row
  <2>3. tpc[t] # "off" =>
          {r \in RowsOf(a)' : last[t] < r.seq /\ r.seq <= cursor[t]}
            = {r \in RowsOf(a) : last[t] < r.seq /\ r.seq <= cursor[t]}
    BY <1>1, <1>2, <2>1, <2>2 DEF RowsOf
  <2>4. UNCHANGED <<tpc, cursor, batch, last>>
    BY <2>1 DEF tails
  <2>5. QED
    BY <1>1, <1>2, <2>1, <2>3, <2>4
<1>5. ASSUME NEW b \in Aggregate, Remove(b)
      PROVE  Goal
  <2>1. b # a
    BY <1>1, <1>5 DEF Remove
  <2>2. latest'[a] = latest[a] /\ RowsOf(a)' = RowsOf(a)
    BY <1>1, <1>5, <2>1 DEF Remove, RowsOf, LogInv, TypeOK
  <2>3. UNCHANGED <<tpc, cursor, batch, last>>
    BY <1>5 DEF Remove, tails
  <2>4. QED
    BY <1>2, <2>2, <2>3
<1>6. ASSUME NEW f \in Fiber, Wake(f)
      PROVE  Goal
  BY <1>2, <1>6 DEF Wake, log, RowsOf
<1>7. CASE Restart
  BY <1>2, <1>7 DEF Restart, log
<1>8. ASSUME NEW u \in Reader,
             \/ \E after \in {-1, last[u]} : TailOpen(u, after)
             \/ Tailing(u)
             \/ TailClose(u)
      PROVE  Goal
  <2>1. latest' = latest /\ events' = events
    BY <1>8, TailTyped DEF log
  <2>2. RowsOf(a)' = RowsOf(a)
    BY <2>1 DEF RowsOf
  <2>3. CASE u # t
    <3>1. tpc'[t] = tpc[t] /\ cursor'[t] = cursor[t] /\ batch'[t] = batch[t] /\ last'[t] = last[t]
      BY <1>8, <2>3, ReadIsLevel DEF TailOpen, Tailing, TailRead, TailEmit, TailWake, TailClose, LogInv, TypeOK
    <3>2. QED
      BY <1>2, <2>1, <2>2, <3>1
  <2>4. ASSUME NEW after \in {-1, last[t]}, TailOpen(t, after)
        PROVE  Goal
    <3>1. tpc'[t] = "read" /\ cursor'[t] = after /\ last'[t] = after
      BY <2>4 DEF TailOpen, LogInv, TypeOK
    <3>2. after <= latest[a]
      BY <1>1, <1>2
    <3>3. QED
      BY <1>1, <2>1, <3>1, <3>2
  <2>5. CASE TailRead(t)
    <3>1. /\ tpc[t] = "read" /\ tpc'[t] = "stream" /\ last'[t] = last[t]
          /\ batch'[t] = {r \in RowsOf(a) : r.seq > cursor[t]}
      BY <2>5 DEF TailRead, Later, LogInv, TypeOK
    <3>2. /\ latest[a] <= cursor'[t] /\ cursor[t] <= cursor'[t]
          /\ cursor'[t] \in Nat \cup {-1}
          /\ cursor'[t] = cursor[t] \/ cursor'[t] <= latest[a]
      BY <2>5, ReadIsLevel
    <3>3. cursor'[t] = latest[a]
      BY <1>1, <1>2, <3>1, <3>2
    <3>4. batch'[t] = {r \in RowsOf(a) : last'[t] < r.seq /\ r.seq <= cursor'[t]}
      BY <1>1, <1>2, <3>1, <3>3 DEF RowsOf
    <3>5. QED
      BY <1>1, <1>2, <2>1, <2>2, <3>1, <3>2, <3>3, <3>4
  <2>6. CASE TailEmit(t)
    <3>1. tpc[t] = "stream" /\ tpc' = tpc /\ cursor' = cursor
      BY <2>6 DEF TailEmit
    <3>2. /\ last'[t] = last[t] + 1
          /\ last'[t] <= cursor[t]
          /\ batch'[t] = {r \in RowsOf(a) : last'[t] < r.seq /\ r.seq <= cursor[t]}
      BY <1>1, <2>6, EmitIsNext
    <3>3. QED
      BY <1>1, <1>2, <2>1, <2>2, <3>1, <3>2
  <2>7. CASE TailWake(t)
    <3>1. /\ tpc[t] = "stream" /\ batch[t] = {} /\ tpc'[t] = "read"
          /\ cursor' = cursor /\ last' = last
      BY <2>7 DEF TailWake, LogInv, TypeOK
    <3>2. last[t] = cursor[t]
      <4> SUFFICES ASSUME last[t] < cursor[t] PROVE FALSE
        BY <1>1, <1>2, <3>1
      <4>1. cursor[t] \in 0 .. latest[a]
        BY <1>1, <1>2, <3>1
      <4>2. PICK r \in events : r.agg = a /\ r.seq = cursor[t]
        BY <1>1, <4>1 DEF LogInv, Numbered
      <4>3. r \in batch[t]
        BY <1>1, <1>2, <3>1, <4>2 DEF RowsOf
      <4>4. QED
        BY <3>1, <4>3
    <3>3. QED
      BY <1>2, <2>1, <3>1, <3>2
  <2>8. CASE TailClose(t)
    <3>1. tpc'[t] = "off" /\ last' = last
      BY <2>8 DEF TailClose, LogInv, TypeOK
    <3>2. QED
      BY <1>2, <2>1, <3>1
  <2>9. QED
    BY <1>8, <2>3, <2>4, <2>5, <2>6, <2>7, <2>8 DEF Tailing
<1>9. QED
  BY <1>3, <1>4, <1>5, <1>6, <1>7, <1>8, FiberFrame

-----------------------------------------------------------------------------
\* The invariant of the event log holds in every reachable state, for all
\* aggregates, fibers, readers and logs of other processes.
THEOREM EventLogInvariant == Spec => []IInv
<1>1. Init => IInv
  BY InitInvariant
<1>2. IInv /\ [Next]_vars => IInv'
  BY StepLogInv, StepNoMissedCommit, StepTailProgress, StepOneReplayOwner DEF IInv
<1>3. QED
  BY <1>1, <1>2, PTL DEF Spec

\* Every variable keeps its type.
THEOREM TypeCorrect == Spec => []TypeOK
<1>1. IInv => TypeOK
  BY DEF IInv, LogInv
<1>2. QED
  BY <1>1, EventLogInvariant, PTL

\* The log of an aggregate is numbered without gaps and no event is stored
\* twice, however fibers publish, replay, remove and fail.
THEOREM LogsAreWellFormed == Spec => []LogWellFormed
<1>1. IInv => LogWellFormed
  BY NumberedIsWellFormed DEF IInv
<1>2. QED
  BY <1>1, EventLogInvariant, PTL

\* A tail that is behind the log has been signalled or is about to be.
THEOREM NoCommitIsMissed == Spec => []NoMissedCommit
<1>1. IInv => NoMissedCommit
  BY DEF IInv
<1>2. QED
  BY <1>1, EventLogInvariant, PTL

\* A log that nobody claimed has taken events from one owner only.
THEOREM OneOwner == Spec => []OneReplayOwner
<1>1. IInv => OneReplayOwner
  BY DEF IInv
<1>2. QED
  BY <1>1, EventLogInvariant, PTL

\* A client receives the events of a log that stays one by one.
THEOREM TailsDeliverInOrder == Spec => TailInOrder
<1>1. IInv /\ [Next]_vars =>
        [\A t \in Reader :
           Follows[t] \notin Removable /\ tpc[t] = "stream" /\ last'[t] # last[t] =>
             last'[t] = last[t] + 1]_vars
  <2> SUFFICES ASSUME IInv, [Next]_vars, NEW t \in Reader,
                      Follows[t] \notin Removable, tpc[t] = "stream", last'[t] # last[t]
               PROVE  last'[t] = last[t] + 1
    OBVIOUS
  <2>1. LogInv /\ TailProgress
    BY DEF IInv
  <2>2. ASSUME NEW u \in Reader,
               \/ \E after \in {-1, last[u]} : TailOpen(u, after)
               \/ Tailing(u)
               \/ TailClose(u)
        PROVE  u = t /\ TailEmit(t)
    BY <2>1, <2>2 DEF TailOpen, Tailing, TailRead, TailEmit, TailWake, TailClose, LogInv, TypeOK
  <2>3. ASSUME NEW f \in Fiber, CommitLocal(f) \/ ReplayAccepted(f) \/ Wake(f)
        PROVE  FALSE
    <3>1. CASE CommitLocal(f) \/ ReplayAccepted(f)
      BY <2>1, <3>1, CommitAppends DEF tails
    <3>2. CASE Wake(f)
      BY <3>2 DEF Wake
    <3>3. QED
      BY <2>3, <3>1, <3>2
  <2>4. ASSUME NEW a \in Aggregate, Remove(a) PROVE FALSE
    BY <2>4 DEF Remove, tails
  <2>5. ~Restart /\ ~(UNCHANGED <<latest, events, tails>>)
    BY DEF Restart, tails
  <2>6. \E u \in Reader :
          \/ \E after \in {-1, last[u]} : TailOpen(u, after)
          \/ Tailing(u)
          \/ TailClose(u)
    BY <2>1, <2>3, <2>4, <2>5, FiberFrame
  <2>7. TailEmit(t)
    BY <2>2, <2>6
  <2>8. QED
    BY <2>1, <2>7, EmitIsNext
<1>2. QED
  BY <1>1, EventLogInvariant, PTL DEF Spec, TailInOrder

\* Nothing that is stored ever changes or goes, except with its aggregate.
THEOREM StoredEventsStay == Spec => LogIsAppendOnly
<1>1. IInv /\ [Next]_vars => [\A r \in events : r.agg \notin Removable => r \in events']_vars
  <2> SUFFICES ASSUME IInv, [Next]_vars, NEW r \in events, r.agg \notin Removable
               PROVE  r \in events'
    OBVIOUS
  <2>1. LogInv
    BY DEF IInv
  <2>2. ASSUME NEW f \in Fiber, CommitLocal(f) \/ ReplayAccepted(f) PROVE r \in events'
    BY <2>1, <2>2, CommitAppends
  <2>3. ASSUME NEW a \in Aggregate, Remove(a) PROVE r \in events'
    BY <2>3 DEF Remove
  <2>4. QED
    BY <2>1, <2>2, <2>3, RowsFrame
<1>2. QED
  BY <1>1, EventLogInvariant, PTL DEF Spec, LogIsAppendOnly

-----------------------------------------------------------------------------
\* The events that are stored in a log that stays.
Stored == {r.id : r \in {q \in events : q.agg \notin Removable}}

\* What has been committed and not yet announced is stored, is announced
\* nowhere else and has not been announced before.
ToldInv ==
  /\ \A f \in Fiber : pc[f] \notin {"wake", "notify"} => told[f] = <<>>
  /\ \A f \in Fiber : op[f].agg \notin Removable =>
       \A j \in DOMAIN told[f] :
         /\ told[f][j] \in Stored /\ told[f][j] \notin notified
         /\ \A k \in DOMAIN told[f] : told[f][j] = told[f][k] => j = k
         /\ \A g \in Fiber : g # f /\ op[g].agg \notin Removable =>
              \A k \in DOMAIN told[g] : told[f][j] # told[g][k]
  /\ \A i \in notified : i \in Stored

\* What is stored in a log that stays remains there.
LEMMA StoredStays ==
  ASSUME LogInv, [Next]_vars, NEW i, i \in Stored
  PROVE  i \in Stored'
<1>1. PICK r \in events : r.id = i /\ r.agg \notin Removable
  BY DEF Stored
<1>2. ASSUME NEW f \in Fiber, CommitLocal(f) \/ ReplayAccepted(f) PROVE r \in events'
  BY <1>2, CommitAppends
<1>3. ASSUME NEW a \in Aggregate, Remove(a) PROVE r \in events'
  BY <1>1, <1>3 DEF Remove
<1>4. r \in events'
  BY <1>2, <1>3, RowsFrame
<1>5. QED
  BY <1>1, <1>4 DEF Stored

\* Fibers that announce nothing, and drop what they had or keep it.
LEMMA ToldKept ==
  ASSUME LogInv, ToldInv, [Next]_vars, notified' = notified,
         \A f \in Fiber : told'[f] = <<>> \/ (told'[f] = told[f] /\ op'[f] = op[f]),
         \A f \in Fiber : pc'[f] \notin {"wake", "notify"} => told'[f] = <<>>
  PROVE  ToldInv'
<1>1. \A i : i \in Stored => i \in Stored'
  BY StoredStays
<1>2. DOMAIN <<>> = {}
  OBVIOUS
<1>3. ASSUME NEW f \in Fiber, op'[f].agg \notin Removable, NEW j \in DOMAIN told'[f]
      PROVE  /\ told'[f][j] \in Stored' /\ told'[f][j] \notin notified
             /\ \A k \in DOMAIN told'[f] : told'[f][j] = told'[f][k] => j = k
             /\ \A g \in Fiber : g # f /\ op'[g].agg \notin Removable =>
                  \A k \in DOMAIN told'[g] : told'[f][j] # told'[g][k]
  <2>1. told'[f] = told[f] /\ op'[f] = op[f]
    BY <1>2, <1>3
  <2>2. /\ told[f][j] \in Stored /\ told[f][j] \notin notified
        /\ \A k \in DOMAIN told[f] : told[f][j] = told[f][k] => j = k
        /\ \A g \in Fiber : g # f /\ op[g].agg \notin Removable =>
             \A k \in DOMAIN told[g] : told[f][j] # told[g][k]
    BY <1>3, <2>1 DEF ToldInv
  <2>3. told'[f][j] \in Stored'
    BY <1>1, <2>1, <2>2
  <2>4. ASSUME NEW g \in Fiber, g # f, op'[g].agg \notin Removable, NEW k \in DOMAIN told'[g]
        PROVE  told'[f][j] # told'[g][k]
    BY <1>2, <2>1, <2>2, <2>4
  <2>5. QED
    BY <2>1, <2>2, <2>3, <2>4
<1>4. \A i \in notified : i \in Stored'
  BY <1>1 DEF ToldInv
<1>5. QED
  BY <1>3, <1>4 DEF ToldInv

\* A commit hands its fiber events that are new to the log.
LEMMA CommitTold ==
  ASSUME LogInv, ToldInv, [Next]_vars, NEW f \in Fiber, CommitLocal(f) \/ ReplayAccepted(f)
  PROVE  ToldInv'
<1> DEFINE new == told'[f]
<1>1. /\ new \in Seq(Id)
      /\ \A j \in DOMAIN new : ~Used(new[j])
      /\ \A j, k \in DOMAIN new : new[j] = new[k] => j = k
      /\ \A j \in DOMAIN new : \E r \in events' : r.id = new[j] /\ r.agg = op[f].agg
      /\ \A g \in Fiber : g # f => told'[g] = told[g] /\ pc'[g] = pc[g]
      /\ op' = op /\ notified' = notified
      /\ pc'[f] = "wake"
  <2>1. CASE CommitLocal(f)
    <3>1. op[f].ids \in Seq(Id) /\ told \in [Fiber -> Seq(Id)]
      BY <2>1 DEF CommitLocal, LogInv, TypeOK, Operation
    <3>2. /\ told' = [told EXCEPT ![f] = op[f].ids]
          /\ events' = events \cup Appended(op[f].agg, op[f].ids)
          /\ \A j \in DOMAIN op[f].ids : ~Used(op[f].ids[j])
          /\ \A j, k \in DOMAIN op[f].ids : op[f].ids[j] = op[f].ids[k] => j = k
          /\ op' = op /\ notified' = notified
      BY <2>1 DEF CommitLocal, history
    <3>3. new = op[f].ids /\ \A g \in Fiber : g # f => told'[g] = told[g]
      BY <3>1, <3>2
    <3>4. ASSUME NEW j \in DOMAIN op[f].ids
          PROVE  \E r \in events' : r.id = op[f].ids[j] /\ r.agg = op[f].agg
      <4>1. AtRow(op[f].ids[j], op[f].agg, latest[op[f].agg] + j) \in events'
        BY <3>2 DEF Appended
      <4>2. QED
        BY <4>1 DEF AtRow
    <3>5. QED
      BY <2>1, <3>1, <3>2, <3>3, <3>4, CommitAppends
  <2>2. CASE ReplayAccepted(f)
    <3>1. /\ told' = [told EXCEPT ![f] = IF op[f].share THEN <<op[f].ids[1]>> ELSE <<>>]
          /\ events' = events \cup {Replayed(f)}
          /\ ~Used(op[f].ids[1])
          /\ op' = op /\ notified' = notified
          /\ Replaying(f)
      BY <2>2 DEF ReplayAccepted
    <3>2. /\ op[f].ids[1] \in Id
          /\ Replayed(f).id = op[f].ids[1] /\ Replayed(f).agg = op[f].agg
      BY <3>1, ReplayedTyped
    <3>3. /\ new = IF op[f].share THEN <<op[f].ids[1]>> ELSE <<>>
          /\ \A g \in Fiber : g # f => told'[g] = told[g]
      BY <3>1 DEF LogInv, TypeOK
    <3>4. CASE op[f].share
      <4>1. new = <<op[f].ids[1]>>
        BY <3>3, <3>4
      <4> HIDE DEF new
      <4>2. new \in Seq(Id) /\ DOMAIN new = {1} /\ new[1] = op[f].ids[1]
        BY <3>2, <4>1
      <4>3. QED
        BY <2>2, <3>1, <3>2, <3>3, <4>2, CommitAppends DEF new
    <3>5. CASE ~op[f].share
      <4>1. new = <<>>
        BY <3>3, <3>5
      <4> HIDE DEF new
      <4>2. new \in Seq(Id) /\ DOMAIN new = {}
        BY <4>1
      <4>3. QED
        BY <2>2, <3>1, <3>3, <4>2, CommitAppends DEF new
    <3>6. QED
      BY <3>4, <3>5
  <2>3. QED
    BY <2>1, <2>2
<1> HIDE DEF new
<1>2. \A i : i \in Stored => i \in Stored' /\ Used(i)
  BY StoredStays DEF Stored, Used
<1>3. \A j \in DOMAIN new : new[j] \notin Stored /\ new[j] \notin notified
  BY <1>1, <1>2 DEF ToldInv
<1>4. ASSUME NEW g \in Fiber, op'[g].agg \notin Removable, NEW j \in DOMAIN told'[g]
      PROVE  /\ told'[g][j] \in Stored' /\ told'[g][j] \notin notified
             /\ \A k \in DOMAIN told'[g] : told'[g][j] = told'[g][k] => j = k
             /\ \A h \in Fiber : h # g /\ op'[h].agg \notin Removable =>
                  \A k \in DOMAIN told'[h] : told'[g][j] # told'[h][k]
  <2>1. CASE g = f
    <3>1. told'[g] = new
      BY <2>1 DEF new
    <3>2. new[j] \in Stored'
      BY <1>1, <1>4, <2>1, <3>1 DEF Stored
    <3>3. ASSUME NEW h \in Fiber, h # g, op'[h].agg \notin Removable, NEW k \in DOMAIN told'[h]
          PROVE  new[j] # told'[h][k]
      <4>1. told'[h] = told[h] /\ op[h].agg \notin Removable
        BY <1>1, <2>1, <3>3
      <4>2. told[h][k] \in Stored
        BY <3>3, <4>1 DEF ToldInv
      <4>3. QED
        BY <1>3, <1>4, <3>1, <4>1, <4>2
    <3>4. QED
      BY <1>1, <1>3, <1>4, <3>1, <3>2, <3>3
  <2>2. CASE g # f
    <3>1. told'[g] = told[g] /\ op'[g] = op[g]
      BY <1>1, <2>2
    <3>2. /\ told[g][j] \in Stored /\ told[g][j] \notin notified
          /\ \A k \in DOMAIN told[g] : told[g][j] = told[g][k] => j = k
          /\ \A h \in Fiber : h # g /\ op[h].agg \notin Removable =>
               \A k \in DOMAIN told[h] : told[g][j] # told[h][k]
      BY <1>4, <3>1 DEF ToldInv
    <3>3. ASSUME NEW h \in Fiber, h # g, op'[h].agg \notin Removable, NEW k \in DOMAIN told'[h]
          PROVE  told'[g][j] # told'[h][k]
      <4>1. CASE h = f
        BY <1>3, <3>1, <3>2, <3>3, <4>1 DEF new
      <4>2. CASE h # f
        BY <1>1, <3>1, <3>2, <3>3, <4>2
      <4>3. QED
        BY <4>1, <4>2
    <3>4. QED
      BY <1>2, <3>1, <3>2, <3>3
  <2>3. QED
    BY <2>1, <2>2
<1>5. \A g \in Fiber : pc'[g] \notin {"wake", "notify"} => told'[g] = <<>>
  BY <1>1 DEF ToldInv
<1>6. QED
  BY <1>1, <1>2, <1>4, <1>5 DEF ToldInv

\* Announcing the first of the events leaves the others to be announced.
LEMMA NotifyTold ==
  ASSUME LogInv, ToldInv, [Next]_vars, NEW f \in Fiber, pc[f] = "notify", told[f] # <<>>,
         notified' = IF op[f].agg \in Removable THEN notified ELSE notified \cup {Head(told[f])},
         told' = [told EXCEPT ![f] = Tail(@)],
         UNCHANGED <<pc, op>>
  PROVE  ToldInv'
<1> DEFINE rest == Tail(told[f])
<1>1. /\ told \in [Fiber -> Seq(Id)]
      /\ 1 \in DOMAIN told[f] /\ Head(told[f]) = told[f][1]
      /\ \A k \in DOMAIN rest : k + 1 \in DOMAIN told[f] /\ rest[k] = told[f][k + 1] /\ k + 1 # 1 /\ k \in Nat
  <2>1. told[f] \in Seq(Id)
    BY DEF LogInv, TypeOK
  <2>2. Len(told[f]) \in Nat \ {0}
    BY <2>1, EmptySeq, LenProperties
  <2>3. QED
    BY <2>1, <2>2, HeadTailProperties, LenProperties DEF LogInv, TypeOK
<1>2. told'[f] = rest /\ \A g \in Fiber : g # f => told'[g] = told[g]
  BY <1>1
<1> HIDE DEF rest
<1>3. \A i : i \in Stored => i \in Stored'
  BY StoredStays
<1>4. ASSUME NEW g \in Fiber, op[g].agg \notin Removable, NEW j \in DOMAIN told'[g]
      PROVE  \E m \in DOMAIN told[g] :
               told'[g][j] = told[g][m] /\ (g = f => m = j + 1)
  BY <1>1, <1>2, <1>4
<1>5. ASSUME NEW g \in Fiber, op'[g].agg \notin Removable, NEW j \in DOMAIN told'[g]
      PROVE  /\ told'[g][j] \in Stored' /\ told'[g][j] \notin notified'
             /\ \A k \in DOMAIN told'[g] : told'[g][j] = told'[g][k] => j = k
             /\ \A h \in Fiber : h # g /\ op'[h].agg \notin Removable =>
                  \A k \in DOMAIN told'[h] : told'[g][j] # told'[h][k]
  <2>1. PICK m \in DOMAIN told[g] : told'[g][j] = told[g][m] /\ (g = f => m = j + 1)
    BY <1>4, <1>5
  <2>2. /\ told[g][m] \in Stored /\ told[g][m] \notin notified
        /\ \A k \in DOMAIN told[g] : told[g][m] = told[g][k] => m = k
        /\ \A h \in Fiber : h # g /\ op[h].agg \notin Removable =>
             \A k \in DOMAIN told[h] : told[g][m] # told[h][k]
    BY <1>5 DEF ToldInv
  <2>3. told'[g][j] \in Stored'
    BY <1>3, <2>1, <2>2
  <2>4. told'[g][j] \notin notified'
    <3>1. CASE g = f
      BY <1>1, <1>2, <1>5, <2>1, <2>2, <3>1
    <3>2. CASE g # f
      BY <1>1, <2>1, <2>2, <3>2
    <3>3. QED
      BY <3>1, <3>2
  <2>5. ASSUME NEW k \in DOMAIN told'[g], told'[g][j] = told'[g][k]
        PROVE  j = k
    <3>1. CASE g = f
      <4>1. j + 1 \in DOMAIN told[f] /\ k + 1 \in DOMAIN told[f] /\ j \in Nat /\ k \in Nat
        BY <1>1, <1>2, <1>5, <2>5, <3>1
      <4>2. told[f][j + 1] = told[f][k + 1]
        BY <1>1, <1>2, <1>5, <2>5, <3>1
      <4>3. j + 1 = k + 1
        BY <2>1, <2>2, <3>1, <4>1, <4>2
      <4>4. QED
        BY <4>1, <4>3
    <3>2. CASE g # f
      BY <1>2, <1>5, <2>5, <3>2 DEF ToldInv
    <3>3. QED
      BY <3>1, <3>2
  <2>6. ASSUME NEW h \in Fiber, h # g, op'[h].agg \notin Removable, NEW k \in DOMAIN told'[h]
        PROVE  told'[g][j] # told'[h][k]
    BY <1>4, <2>1, <2>2, <2>6
  <2>7. QED
    BY <2>3, <2>4, <2>5, <2>6
<1>6. \A i \in notified' : i \in Stored'
  <2>1. op[f].agg \notin Removable => Head(told[f]) \in Stored
    BY <1>1 DEF ToldInv
  <2>2. QED
    BY <1>3, <2>1 DEF ToldInv
<1>7. \A g \in Fiber : pc'[g] \notin {"wake", "notify"} => told'[g] = <<>>
  BY <1>2 DEF ToldInv
<1>8. QED
  BY <1>5, <1>6, <1>7 DEF ToldInv

\* Every step keeps what is still to be announced new.
LEMMA StepTold ==
  ASSUME LogInv, ToldInv, [Next]_vars
  PROVE  ToldInv'
<1> DEFINE Kept ==
      /\ notified' = notified
      /\ \A f \in Fiber : told'[f] = <<>> \/ (told'[f] = told[f] /\ op'[f] = op[f])
      /\ \A f \in Fiber : pc'[f] \notin {"wake", "notify"} => told'[f] = <<>>
<1>0. TypeOK /\ \A f \in Fiber : pc[f] \notin {"wake", "notify"} => told[f] = <<>>
  BY DEF LogInv, ToldInv
<1>1. ASSUME NEW f \in Fiber, NEW a \in Aggregate, NEW ids \in Batches, Publish(f, a, ids)
      PROVE  Kept
  BY <1>0, <1>1 DEF Publish, Ask, history, TypeOK
<1>2. ASSUME NEW f \in Fiber, NEW by \in Names, NEW a \in Aggregate,
             NEW strict \in BOOLEAN, NEW share \in BOOLEAN,
             NEW i \in DOMAIN Remote[by][a], NEW j \in DOMAIN Remote[by][a],
             Replay(f, by, a, i, j, strict, share)
      PROVE  Kept
  BY <1>0, <1>2 DEF Replay, Ask, history, TypeOK
<1>3. ASSUME NEW f \in Fiber, LocalRefused(f) \/ ReplayRefused(f) \/ Wake(f)
      PROVE  Kept
  BY <1>0, <1>3 DEF LocalRefused, ReplayRefused, Replaying, Wake, Move, history, TypeOK
<1>4. ASSUME NEW f \in Fiber, pc[f] # "idle", GoOn(f), notified' = notified
      PROVE  Kept
  <2>1. told'[f] = <<>> /\ \A g \in Fiber : g # f => told'[g] = told[g]
    BY <1>0, <1>4 DEF GoOn, TypeOK
  <2>2. \A g \in Fiber : g # f => pc'[g] = pc[g] /\ op'[g] = op[g]
    BY <1>4, GoOnTyped
  <2>3. QED
    BY <1>0, <1>4, <2>1, <2>2
<1>5. ASSUME NEW f \in Fiber, ReplayStale(f) \/ ReplayFenced(f)
      PROVE  Kept
  <2>1. pc[f] # "idle" /\ GoOn(f) /\ notified' = notified
    BY <1>5 DEF ReplayStale, ReplayFenced, Replaying, history
  <2>2. QED
    BY <1>4, <2>1
<1>6. ASSUME NEW f \in Fiber, Fail(f) \/ Interrupted(f)
      PROVE  Kept
  BY <1>0, <1>6 DEF Fail, Interrupted, Drop, Move, history, TypeOK
<1>7. ASSUME NEW f \in Fiber, Notify(f)
      PROVE  ToldInv'
  <2>1. CASE told[f] = <<>> /\ GoOn(f) /\ UNCHANGED notified
    <3>1. Kept
      BY <1>4, <1>7, <2>1 DEF Notify
    <3>2. QED
      BY <3>1, ToldKept
  <2>2. CASE told[f] # <<>> /\ ~GoOn(f)
    BY <1>7, <2>2, NotifyTold DEF Notify
  <2>3. CASE told[f] # <<>> /\ GoOn(f)
    BY <1>7, <2>3, NotifyTold DEF Notify
  <2>4. QED
    BY <1>7, <2>1, <2>2, <2>3 DEF Notify
<1>8. ASSUME NEW a \in Aggregate, (\E o \in Owner : Claim(a, o)) \/ Remove(a)
      PROVE  Kept
  BY <1>0, <1>8 DEF Claim, Remove, fibers
<1>9. ASSUME NEW t \in Reader,
             \/ \E after \in {-1, last[t]} : TailOpen(t, after)
             \/ Tailing(t)
             \/ TailClose(t)
      PROVE  Kept
  BY <1>0, <1>9, TailTyped DEF fibers, history
<1>10. ASSUME Restart PROVE Kept
  BY <1>10 DEF Restart, history
<1>11. ASSUME UNCHANGED vars PROVE Kept
  BY <1>0, <1>11 DEF vars, fibers, history
<1>12. ASSUME NEW f \in Fiber, Commit(f) PROVE ToldInv'
  BY <1>12, CommitTold DEF Commit
<1>13. Kept => ToldInv'
  BY ToldKept
<1> HIDE DEF Kept
<1>14. QED
  BY <1>1, <1>2, <1>3, <1>5, <1>6, <1>7, <1>8, <1>9, <1>10, <1>11, <1>12, <1>13 DEF Next, Finish

\* A live observer sees an event of a log that stays once, after it is stored
\* (`notify`, after the transaction).
THEOREM ObserversToldOnce == Spec => NotifiedOnce
<1>1. Init => ToldInv
  BY DEF Init, ToldInv
<1>2. LogInv /\ ToldInv /\ [Next]_vars => ToldInv'
  BY StepTold
<1>3. LogInv /\ ToldInv /\ [Next]_vars =>
        [\A f \in Fiber :
           /\ pc[f] = "notify" /\ told[f] # <<>>
           /\ pc'[f] = "notify" /\ told'[f] = Tail(told[f])
           /\ op[f].agg \notin Removable
           =>
           Head(told[f]) \notin notified /\ Used(Head(told[f]))]_vars
  <2> SUFFICES ASSUME LogInv, ToldInv, NEW f \in Fiber, told[f] # <<>>,
                      op[f].agg \notin Removable
               PROVE  Head(told[f]) \notin notified /\ Used(Head(told[f]))
    OBVIOUS
  <2>1. told[f] \in Seq(Id)
    BY DEF LogInv, TypeOK
  <2>2. Len(told[f]) \in Nat \ {0}
    BY <2>1, EmptySeq, LenProperties
  <2>3. 1 \in DOMAIN told[f] /\ Head(told[f]) = told[f][1]
    BY <2>1, <2>2, HeadTailProperties, LenProperties
  <2>4. QED
    BY <2>3 DEF ToldInv, Stored, Used
<1>4. IInv => LogInv
  BY DEF IInv
<1>5. QED
  BY <1>1, <1>2, <1>3, <1>4, EventLogInvariant, PTL DEF Spec, NotifiedOnce
=============================================================================
