---------------------------- MODULE PromptQueue ----------------------------
(***************************************************************************)
(* The queue of prompts of one session in the V1 runtime                   *)
(* (packages/opencode/src/kilocode/session/prompt-queue.ts): every prompt  *)
(* holds a slot from `enqueue` until its work is over, and works in turn.  *)
(*                                                                         *)
(* The maps of the namespace are kept per session; a missing entry is 0,   *)
(* {} or NoMsg.  Every operator is one synchronous block of the code.      *)
(***************************************************************************)
EXTENDS Naturals, SequencesExt

CONSTANTS
  Msg,     \* prompts, by the ID of their user message
  NoMsg

ASSUME NoMsgAssumption == NoMsg \notin Msg

VARIABLES
  slot,         \* slot[p]: the slot p holds, Free where it holds none
  tail,         \* whose slot a new one is chained to
  arrivals,     \* the counter `seq`
  latest,       \* the arrival of the newest slot
  activeSince,  \* `latest` when the active slot took over
  version,      \* cancellations of the queue
  dropped,      \* waiting prompts the user has deleted
  waiting,      \* the list of waiting prompts clients see
  base          \* the prompt whose slot is active: the base of `targets`

queue == <<slot, tail, arrivals, latest, activeSince, version, dropped, waiting, base>>

Free == [seq |-> 0, version |-> 0, ahead |-> {}]

HasSlot(p) == slot[p] # Free

QueueTypeOK ==
  /\ slot \in [Msg -> [seq : Nat, version : Nat, ahead : SUBSET Msg]]
  /\ tail \in Msg \cup {NoMsg}
  /\ arrivals \in Nat /\ latest \in Nat /\ activeSince \in Nat /\ version \in Nat
  /\ dropped \subseteq Msg
  /\ waiting \in Seq(Msg)
  /\ base \in Msg \cup {NoMsg}

QueueInit ==
  /\ slot = [p \in Msg |-> Free]
  /\ tail = NoMsg /\ base = NoMsg
  /\ arrivals = 0 /\ latest = 0 /\ activeSince = 0 /\ version = 0
  /\ dropped = {}
  /\ waiting = <<>>

Waiting(p) == \E i \in DOMAIN waiting : waiting[i] = p

\* The promise `tail` settles when every slot it was chained to is released.
Chain == IF tail = NoMsg THEN {} ELSE {tail} \cup slot[tail].ahead

\* Mutant of Settled: one of the promises is enough.
SettledAny(p) == slot[p].ahead # {} => \E q \in slot[p].ahead : ~HasSlot(q)

Settled(p) == \A q \in slot[p].ahead : ~HasSlot(q)

IsCancelled(p) == slot[p].version # version \/ p \in dropped

\* Mutant of HasFollowup: one arrival is counted as the active slot's own.
HasFollowupLater == latest > activeSince + 1 /\ waiting # <<>>

\* A prompt has arrived since the active slot took over, and waits.
HasFollowup == latest > activeSince /\ waiting # <<>>

\* A prompt joins the list only where another slot is ahead of it.
Enqueue(p) ==
  /\ ~HasSlot(p)
  /\ arrivals' = arrivals + 1
  /\ latest' = arrivals + 1
  /\ slot' = [slot EXCEPT ![p] = [seq |-> arrivals + 1, version |-> version, ahead |-> Chain]]
  /\ tail' = p
  /\ waiting' = IF tail = NoMsg THEN waiting ELSE Append(waiting, p)
  /\ UNCHANGED <<activeSince, version, dropped, base>>

TakeOver(p) ==
  /\ HasSlot(p) /\ Settled(p) /\ ~IsCancelled(p)
  /\ activeSince' = IF latest = 0 THEN slot[p].seq ELSE latest
  /\ waiting' = IF waiting # <<>> /\ Head(waiting) = p THEN Tail(waiting) ELSE waiting
  /\ base' = p
  /\ UNCHANGED <<slot, tail, arrivals, latest, version, dropped>>

\* What `cancel` does to an idle session and the last slot to its own.
Forget ==
  /\ latest' = 0 /\ activeSince' = 0 /\ version' = 0
  /\ dropped' = {}
  /\ waiting' = <<>>
  /\ base' = NoMsg

\* Mutant of Release: the last slot leaves the version of the queue behind.
ReleaseKeepsVersion(p) ==
  /\ HasSlot(p)
  /\ slot' = [slot EXCEPT ![p] = Free]
  /\ base' = IF base = p THEN NoMsg ELSE base
  /\ tail' = IF tail = p THEN NoMsg ELSE tail
  /\ UNCHANGED <<arrivals, latest, activeSince, version, dropped, waiting>>

\* Both releases of a slot: its target's, where it took over, and its own.
Release(p) ==
  /\ HasSlot(p)
  /\ slot' = [slot EXCEPT ![p] = Free]
  /\ IF tail = p
       THEN tail' = NoMsg /\ Forget
       ELSE /\ base' = IF base = p THEN NoMsg ELSE base
            /\ UNCHANGED <<tail, latest, activeSince, version, dropped, waiting>>
  /\ UNCHANGED arrivals

Cancel ==
  /\ IF tail = NoMsg
       THEN Forget
       ELSE /\ waiting' = <<>>
            /\ version' = version + 1
            /\ dropped' = {}
            /\ UNCHANGED <<latest, activeSince, base>>
  /\ UNCHANGED <<slot, tail, arrivals>>

\* A prompt is in the list once.
Drop(p) ==
  /\ Waiting(p)
  /\ waiting' = RemoveAt(waiting, CHOOSE i \in DOMAIN waiting : waiting[i] = p)
  /\ dropped' = dropped \cup {p}
  /\ UNCHANGED <<slot, tail, arrivals, latest, activeSince, version, base>>
=============================================================================
