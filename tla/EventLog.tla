------------------------------ MODULE EventLog ------------------------------
(***************************************************************************)
(* The durable event log (packages/core/src/event.ts and kilocode/event-   *)
(* batch.ts): the tables event_sequence and event, the operations that     *)
(* append to them (`publish`, `publishAll`, `replay`, `replayAll`), those  *)
(* that administer them (`claim`, `remove`), and the durable tails that    *)
(* replay and then follow the events of one aggregate.                     *)
(*                                                                         *)
(* An operation is run by a fiber: it commits one transaction, wakes the   *)
(* tails of the aggregate and notifies the live observers, and other       *)
(* fibers run in between.  Replayed events come from other processes,      *)
(* whose logs are given; they arrive in any order, repeatedly or never.    *)
(*                                                                         *)
(* An event ID stands for the ID, the type and the data of an event.       *)
(***************************************************************************)
EXTENDS Integers, Sequences

CONSTANTS
  Aggregate,   \* the sessions
  Id,          \* event IDs
  LocalId,     \* the IDs of events published in this process
  Owner,       \* the names under which other processes replay
  NoOwner,
  Remote,      \* Remote[o][a]: the log of a in the process that replays as o
  Removable,   \* the aggregates that may be removed
  Fiber,
  Reader,      \* the clients of durable tails
  Follows      \* Follows[t]: the aggregate that t follows

ASSUME NoOwnerAssumption   == NoOwner \notin Owner
ASSUME LocalIdAssumption   == LocalId \subseteq Id
ASSUME RemoteAssumption    == Remote \in [Owner \cup {NoOwner} -> [Aggregate -> Seq(Id)]]
ASSUME RemovableAssumption == Removable \subseteq Aggregate
ASSUME FollowsAssumption   == Follows \in [Reader -> Aggregate]

VARIABLES
  latest,    \* event_sequence.seq, -1 where there is no row
  owner,     \* event_sequence.owner_id
  events,    \* the rows of the table event
  pc,        \* where a fiber is
  op,        \* what it is asked to append
  told,      \* the committed events it has still to notify
  tpc,       \* where a tail is
  dirty,     \* the sliding signal of capacity 1
  cursor,    \* the variable `sequence` of a tail
  batch,     \* the rows it has read and not yet emitted
  last,      \* the last sequence its client has received
  notified,  \* history: the events of logs that stay that live observers have seen
  sources,   \* history: the owners that events of an aggregate came from
  claimed    \* history: the aggregate has been claimed

log     == <<latest, owner, events>>
fibers  == <<pc, op, told>>
tails   == <<tpc, dirty, cursor, batch, last>>
history == <<notified, sources, claimed>>
vars    == <<log, fibers, tails, history>>

Names == Owner \cup {NoOwner}

Row == [id : Id, agg : Aggregate, seq : Nat]

Operation ==
  [kind : {"publish", "replay"}, agg : Aggregate, ids : Seq(Id), at : Nat,
   by : Names, strict : BOOLEAN, share : BOOLEAN]

TypeOK ==
  /\ latest \in [Aggregate -> Nat \cup {-1}]
  /\ owner \in [Aggregate -> Names]
  /\ events \subseteq Row
  /\ pc \in [Fiber -> {"idle", "commit", "wake", "notify", "failed"}]
  /\ op \in [Fiber -> Operation \cup {<<>>}]
  /\ \A f \in Fiber : pc[f] # "idle" => op[f] \in Operation
  /\ told \in [Fiber -> Seq(Id)]
  /\ tpc \in [Reader -> {"off", "read", "stream"}]
  /\ dirty \in [Reader -> BOOLEAN]
  /\ cursor \in [Reader -> Nat \cup {-1}]
  /\ batch \in [Reader -> SUBSET Row]
  /\ last \in [Reader -> Nat \cup {-1}]
  /\ notified \subseteq Id
  /\ sources \in [Aggregate -> SUBSET Owner]
  /\ claimed \in [Aggregate -> BOOLEAN]

Init ==
  /\ latest = [a \in Aggregate |-> -1]
  /\ owner = [a \in Aggregate |-> NoOwner]
  /\ events = {}
  /\ pc = [f \in Fiber |-> "idle"]
  /\ op = [f \in Fiber |-> <<>>]
  /\ told = [f \in Fiber |-> <<>>]
  /\ tpc = [t \in Reader |-> "off"]
  /\ dirty = [t \in Reader |-> FALSE]
  /\ cursor = [t \in Reader |-> -1]
  /\ batch = [t \in Reader |-> {}]
  /\ last = [t \in Reader |-> -1]
  /\ notified = {}
  /\ sources = [a \in Aggregate |-> {}]
  /\ claimed = [a \in Aggregate |-> FALSE]

-----------------------------------------------------------------------------
RowsOf(a) == {r \in events : r.agg = a}

Used(i) == \E r \in events : r.id = i

AtRow(i, a, s) == [id |-> i, agg |-> a, seq |-> s]

Ask(f, kind, a, ids, at, by, strict, share) ==
  /\ pc[f] = "idle"
  /\ pc' = [pc EXCEPT ![f] = "commit"]
  /\ op' = [op EXCEPT ![f] = [kind |-> kind, agg |-> a, ids |-> ids, at |-> at,
                              by |-> by, strict |-> strict, share |-> share]]
  /\ UNCHANGED <<log, told, tails, history>>

\* `publish` of one event, `publishAll` of several.
Publish(f, a, ids) == Ask(f, "publish", a, ids, 0, NoOwner, FALSE, TRUE)

\* `replay` of one event, `replayAll` of several: events number i to j of the
\* log of `by`, which are contiguous and of one aggregate.
Replay(f, by, a, i, j, strict, share) ==
  /\ i <= j
  /\ Ask(f, "replay", a, SubSeq(Remote[by][a], i, j), i - 1, by, strict, share)

\* The fiber goes on with the next replayed event, or is done.
GoOn(f) ==
  /\ told' = [told EXCEPT ![f] = <<>>]
  /\ IF op[f].kind = "replay" /\ Len(op[f].ids) > 1
     THEN /\ op' = [op EXCEPT ![f].ids = Tail(@), ![f].at = @ + 1]
          /\ pc' = [pc EXCEPT ![f] = "commit"]
     ELSE /\ op' = [op EXCEPT ![f] = <<>>]
          /\ pc' = [pc EXCEPT ![f] = "idle"]

Move(f, where) == pc' = [pc EXCEPT ![f] = where]

\* Rows for the events `ids` behind the latest sequence.
Appended(a, ids) == {AtRow(ids[k], a, latest[a] + k) : k \in DOMAIN ids}

\* Mutant of CommitLocal: a local commit signals no tail.
CommitLocalSilent(f) ==
  LET a == op[f].agg
      ids == op[f].ids
  IN
  /\ pc[f] = "commit"
  /\ op[f].kind = "publish"
  /\ \A k \in DOMAIN ids : ~Used(ids[k]) /\ \A j \in DOMAIN ids : ids[j] = ids[k] => j = k
  /\ events' = events \cup Appended(a, ids)
  /\ latest' = [latest EXCEPT ![a] = @ + Len(ids)]
  /\ told' = [told EXCEPT ![f] = ids]
  /\ Move(f, "notify")
  /\ UNCHANGED <<owner, op, tails, history>>

\* The transaction of `publish` and `publishAll`: nobody asks for the owner.
CommitLocal(f) ==
  LET a == op[f].agg
      ids == op[f].ids
  IN
  /\ pc[f] = "commit"
  /\ op[f].kind = "publish"
  /\ \A k \in DOMAIN ids : ~Used(ids[k]) /\ \A j \in DOMAIN ids : ids[j] = ids[k] => j = k
  /\ events' = events \cup Appended(a, ids)
  /\ latest' = [latest EXCEPT ![a] = @ + Len(ids)]
  /\ told' = [told EXCEPT ![f] = ids]
  /\ Move(f, "wake")
  /\ UNCHANGED <<owner, op, tails, history>>

\* An event ID that exists fails the transaction.
LocalRefused(f) ==
  LET ids == op[f].ids
  IN
  /\ pc[f] = "commit"
  /\ op[f].kind = "publish"
  /\ \E k \in DOMAIN ids : Used(ids[k]) \/ \E j \in DOMAIN ids : ids[j] = ids[k] /\ j # k
  /\ Move(f, "failed")
  /\ UNCHANGED <<log, op, told, tails, history>>

-----------------------------------------------------------------------------
\* One transaction of `replay`.

Replaying(f) == pc[f] = "commit" /\ op[f].kind = "replay"

OwnedByOther(f) == owner[op[f].agg] \notin {NoOwner, op[f].by}

\* Mutant of NewOwner: only the insert stores the owner, the update does not.
NewOwnerOnInsert(f) == IF latest[op[f].agg] = -1 THEN op[f].by ELSE owner[op[f].agg]

\* `input.ownerID && row?.ownerID == null`
NewOwner(f) == IF owner[op[f].agg] = NoOwner THEN op[f].by ELSE owner[op[f].agg]

Replayed(f) == AtRow(op[f].ids[1], op[f].agg, op[f].at)

StrictMismatch(f) == op[f].strict /\ OwnedByOther(f)

Seen(f) == op[f].at <= latest[op[f].agg]

\* Mutant of Expected: any later sequence will do.
ExpectedLater(f) == op[f].at > latest[op[f].agg]

Expected(f) == op[f].at = latest[op[f].agg] + 1

\* Mutant of ReplayStale: what is stored is announced again.
ReplayStaleTells(f) ==
  /\ Replaying(f)
  /\ ~StrictMismatch(f)
  /\ Seen(f)
  /\ Replayed(f) \in events
  /\ owner' = [owner EXCEPT ![op[f].agg] = NewOwner(f)]
  /\ told' = [told EXCEPT ![f] = <<op[f].ids[1]>>]
  /\ Move(f, "notify")
  /\ UNCHANGED <<latest, events, op, tails, history>>

\* Mutant of ReplayStale: the replayed event replaces the stored one.
ReplayStaleReplaces(f) ==
  /\ Replaying(f)
  /\ ~StrictMismatch(f)
  /\ Seen(f)
  /\ events' = {r \in events : ~(r.agg = op[f].agg /\ r.seq = op[f].at)} \cup {Replayed(f)}
  /\ owner' = [owner EXCEPT ![op[f].agg] = NewOwner(f)]
  /\ GoOn(f)
  /\ UNCHANGED <<latest, tails, history>>

\* Already stored, exactly so: the log may get its owner, nobody is told.
ReplayStale(f) ==
  /\ Replaying(f)
  /\ ~StrictMismatch(f)
  /\ Seen(f)
  /\ Replayed(f) \in events
  /\ owner' = [owner EXCEPT ![op[f].agg] = NewOwner(f)]
  /\ GoOn(f)
  /\ UNCHANGED <<latest, events, tails, history>>

\* A later event of somebody who is not the owner is skipped.
ReplayFenced(f) ==
  /\ Replaying(f)
  /\ ~op[f].strict
  /\ ~Seen(f)
  /\ OwnedByOther(f)
  /\ GoOn(f)
  /\ UNCHANGED <<log, tails, history>>

\* The next event of the log.
ReplayAccepted(f) ==
  /\ Replaying(f)
  /\ ~OwnedByOther(f)
  /\ Expected(f)
  /\ ~Used(op[f].ids[1])
  /\ events' = events \cup {Replayed(f)}
  /\ latest' = [latest EXCEPT ![op[f].agg] = op[f].at]
  /\ owner' = [owner EXCEPT ![op[f].agg] = NewOwner(f)]
  /\ told' = [told EXCEPT ![f] = IF op[f].share THEN <<op[f].ids[1]>> ELSE <<>>]
  /\ sources' = [sources EXCEPT ![op[f].agg] = @ \cup (Owner \cap {op[f].by})]
  /\ Move(f, "wake")
  /\ UNCHANGED <<op, tails, notified, claimed>>

\* The defects: an owner mismatch, a divergence, a gap, an ID used elsewhere.
ReplayRefused(f) ==
  /\ Replaying(f)
  /\ \/ StrictMismatch(f)
     \/ Seen(f) /\ Replayed(f) \notin events
     \/ ~Seen(f) /\ ~OwnedByOther(f) /\ (~Expected(f) \/ Used(op[f].ids[1]))
  /\ Move(f, "failed")
  /\ UNCHANGED <<log, op, told, tails, history>>

-----------------------------------------------------------------------------
\* Mutant of Wake: the signal is toggled instead of set.
WakeToggles(f) ==
  /\ pc[f] = "wake"
  /\ dirty' = [t \in Reader |->
       IF tpc[t] # "off" /\ Follows[t] = op[f].agg THEN ~dirty[t] ELSE dirty[t]]
  /\ Move(f, "notify")
  /\ UNCHANGED <<log, op, told, tpc, cursor, batch, last, history>>

\* After the commit, still uninterruptible: every registered tail is signalled.
Wake(f) ==
  /\ pc[f] = "wake"
  /\ dirty' = [t \in Reader |-> dirty[t] \/ (tpc[t] # "off" /\ Follows[t] = op[f].agg)]
  /\ Move(f, "notify")
  /\ UNCHANGED <<log, op, told, tpc, cursor, batch, last, history>>

\* `notify`: listeners, typed and wildcard streams see one event.
Notify(f) ==
  /\ pc[f] = "notify"
  /\ \/ /\ told[f] # <<>>
        /\ notified' = IF op[f].agg \in Removable THEN notified ELSE notified \cup {Head(told[f])}
        /\ told' = [told EXCEPT ![f] = Tail(@)]
        /\ UNCHANGED <<pc, op>>
     \/ told[f] = <<>> /\ GoOn(f) /\ UNCHANGED notified
  /\ UNCHANGED <<log, tails, sources, claimed>>

Drop(f) ==
  /\ Move(f, "idle")
  /\ op' = [op EXCEPT ![f] = <<>>]
  /\ told' = [told EXCEPT ![f] = <<>>]
  /\ UNCHANGED <<log, tails, history>>

\* The caller learns of the defect; the rest of its events is not replayed.
Fail(f) == pc[f] = "failed" /\ Drop(f)

\* A fiber is interrupted before its transaction, or while it notifies.
Interrupted(f) == pc[f] \in {"commit", "notify"} /\ Drop(f)

\* `claim` updates the row, if there is one.
Claim(a, o) ==
  /\ latest[a] >= 0
  /\ owner' = [owner EXCEPT ![a] = o]
  /\ claimed' = [claimed EXCEPT ![a] = TRUE]
  /\ UNCHANGED <<latest, events, fibers, tails, notified, sources>>

Remove(a) ==
  /\ a \in Removable
  /\ latest' = [latest EXCEPT ![a] = -1]
  /\ owner' = [owner EXCEPT ![a] = NoOwner]
  /\ events' = {r \in events : r.agg # a}
  /\ sources' = [sources EXCEPT ![a] = {}]
  /\ claimed' = [claimed EXCEPT ![a] = FALSE]
  /\ UNCHANGED <<fibers, tails, notified>>

-----------------------------------------------------------------------------
\* `durable`: first the signal is registered, then the history is read; a
\* client starts from the beginning or from the last sequence it received.
TailOpen(t, after) ==
  /\ tpc[t] = "off"
  /\ tpc' = [tpc EXCEPT ![t] = "read"]
  /\ dirty' = [dirty EXCEPT ![t] = FALSE]
  /\ cursor' = [cursor EXCEPT ![t] = after]
  /\ last' = [last EXCEPT ![t] = after]
  /\ UNCHANGED <<log, fibers, batch, history>>

Later(t) == {r \in RowsOf(Follows[t]) : r.seq > cursor[t]}

\* Mutant of TailRead: the cursor stays where it was.
TailReadKeepsCursor(t) ==
  /\ tpc[t] = "read"
  /\ tpc' = [tpc EXCEPT ![t] = "stream"]
  /\ batch' = [batch EXCEPT ![t] = Later(t)]
  /\ UNCHANGED <<log, fibers, dirty, cursor, last, history>>

\* `readAfter`, and the cursor moves behind the last row.
TailRead(t) ==
  /\ tpc[t] = "read"
  /\ tpc' = [tpc EXCEPT ![t] = "stream"]
  /\ batch' = [batch EXCEPT ![t] = Later(t)]
  /\ \/ Later(t) = {} /\ UNCHANGED cursor
     \/ \E r \in Later(t) :
          /\ \A s \in Later(t) : s.seq <= r.seq
          /\ cursor' = [cursor EXCEPT ![t] = r.seq]
  /\ UNCHANGED <<log, fibers, dirty, last, history>>

\* The client receives one event.
TailEmit(t) ==
  /\ tpc[t] = "stream"
  /\ \E r \in batch[t] :
       /\ \A s \in batch[t] : r.seq <= s.seq
       /\ last' = [last EXCEPT ![t] = r.seq]
       /\ batch' = [batch EXCEPT ![t] = @ \ {r}]
  /\ UNCHANGED <<log, fibers, tpc, dirty, cursor, history>>

\* Everything read has been received: the tail takes the signal.
TailWake(t) ==
  /\ tpc[t] = "stream"
  /\ batch[t] = {}
  /\ dirty[t]
  /\ dirty' = [dirty EXCEPT ![t] = FALSE]
  /\ tpc' = [tpc EXCEPT ![t] = "read"]
  /\ UNCHANGED <<log, fibers, cursor, batch, last, history>>

TailClose(t) ==
  /\ tpc[t] # "off"
  /\ tpc' = [tpc EXCEPT ![t] = "off"]
  /\ dirty' = [dirty EXCEPT ![t] = FALSE]
  /\ batch' = [batch EXCEPT ![t] = {}]
  /\ UNCHANGED <<log, fibers, cursor, last, history>>

\* The process is restarted: the tables remain, and what clients received.
Restart ==
  /\ pc' = [f \in Fiber |-> "idle"]
  /\ op' = [f \in Fiber |-> <<>>]
  /\ told' = [f \in Fiber |-> <<>>]
  /\ tpc' = [t \in Reader |-> "off"]
  /\ dirty' = [t \in Reader |-> FALSE]
  /\ batch' = [t \in Reader |-> {}]
  /\ UNCHANGED <<log, cursor, last, history>>

Commit(f) == CommitLocal(f) \/ ReplayAccepted(f)

Finish(f) == Wake(f) \/ Notify(f)

Tailing(t) == TailRead(t) \/ TailEmit(t) \/ TailWake(t)

Batches == {<<i>> : i \in LocalId} \cup {<<i, j>> : i, j \in LocalId}

Next ==
  \/ \E f \in Fiber, a \in Aggregate, ids \in Batches : Publish(f, a, ids)
  \/ \E f \in Fiber, by \in Names, a \in Aggregate, strict, share \in BOOLEAN :
       \E i, j \in DOMAIN Remote[by][a] : Replay(f, by, a, i, j, strict, share)
  \/ \E f \in Fiber : Commit(f) \/ LocalRefused(f)
  \/ \E f \in Fiber : ReplayStale(f) \/ ReplayFenced(f) \/ ReplayRefused(f)
  \/ \E f \in Fiber : Finish(f) \/ Fail(f) \/ Interrupted(f)
  \/ \E a \in Aggregate, o \in Owner : Claim(a, o)
  \/ \E a \in Aggregate : Remove(a)
  \/ \E t \in Reader : \E after \in {-1, last[t]} : TailOpen(t, after)
  \/ \E t \in Reader : Tailing(t) \/ TailClose(t)
  \/ Restart

Spec == Init /\ [][Next]_vars

\* A fiber that has committed is not interrupted before it has woken the tails,
\* and an open tail reads when it is woken and is drained by its client.
Fairness ==
  /\ \A f \in Fiber : WF_vars(Wake(f))
  /\ \A t \in Reader : WF_vars(Tailing(t))

FairSpec == Spec /\ Fairness

-----------------------------------------------------------------------------
\* The log of an aggregate is numbered 0, 1, ... up to the stored sequence,
\* without gaps, and no event ID or sequence is used twice, whatever fibers
\* publish and replay together and whatever fails.
LogWellFormed ==
  /\ \A r, s \in events : r.id = s.id \/ (r.agg = s.agg /\ r.seq = s.seq) => r = s
  /\ \A a \in Aggregate : {r.seq : r \in RowsOf(a)} = 0 .. latest[a]

\* No commit is missed: where a tail is behind the log, it is about to read, has
\* been signalled, or a fiber that has committed is about to signal it.
NoMissedCommit ==
  \A t \in Reader :
    tpc[t] = "stream" /\ cursor[t] < latest[Follows[t]] =>
      dirty[t] \/ \E f \in Fiber : pc[f] = "wake" /\ op[f].agg = Follows[t]

\* Unless the log is removed, a client receives the events of its aggregate one
\* by one: none is skipped, repeated or out of order, across reconnections.
TailInOrder ==
  [][\A t \in Reader :
       Follows[t] \notin Removable /\ tpc[t] = "stream" /\ last'[t] # last[t] =>
         last'[t] = last[t] + 1]_vars

\* A live observer sees an event once, and not before it is stored: a replay of
\* what is stored is not announced again.
NotifiedOnce ==
  [][\A f \in Fiber :
       /\ pc[f] = "notify" /\ told[f] # <<>>
       /\ pc'[f] = "notify" /\ told'[f] = Tail(told[f])
       /\ op[f].agg \notin Removable
       =>
       Head(told[f]) \notin notified /\ Used(Head(told[f]))]_vars

\* Stored events are final: without a removal a row never changes or goes.
LogIsAppendOnly ==
  [][\A r \in events : r.agg \notin Removable => r \in events']_vars

\* Without a claim a log has one owner: whoever had an event accepted.
OneReplayOwner ==
  \A a \in Aggregate : ~claimed[a] => \A o \in sources[a] : owner[a] = o

\* A process that is no longer the owner is ignored: what it replays, unless it
\* asks for strictness, is not a defect that ends its synchronisation.
FencedReplayIgnored ==
  [][\A f \in Fiber : Replaying(f) /\ OwnedByOther(f) /\ ~op[f].strict => pc'[f] # "failed"]_vars

\* An open tail eventually receives every committed event, or is closed.
TailCatchesUp ==
  \A t \in Reader, i \in Id :
    tpc[t] # "off" /\ (\E r \in RowsOf(Follows[t]) : r.id = i)
      ~> tpc[t] = "off" \/ \E r \in RowsOf(Follows[t]) : r.id = i /\ r.seq <= last[t]
=============================================================================
