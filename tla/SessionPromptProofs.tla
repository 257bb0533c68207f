------------------------ MODULE SessionPromptProofs ------------------------
(***************************************************************************)
(* Theorems about SessionPrompt for any number of prompts and cancellers.  *)
(*                                                                         *)
(*   - The queue of prompts.  These suppose that no caller has left, since *)
(*     a slot that goes before its turn breaks the chain of the others.    *)
(*   - Types.                                                              *)
(*   - Loops and stops.  These suppose that at most one shell is started:  *)
(*     a second one that waits for the runner of the first may get it when *)
(*     it is not registered any more.                                      *)
(***************************************************************************)
EXTENDS SessionPrompt, SequenceTheorems, FiniteSetTheorems, TLAPS

(* What is left of the types once the runner and the tickets are taken off.*)
QueueTypes ==
  /\ QueueTypeOK
  /\ pc \in [Msg -> PromptStates]
  /\ left \subseteq Msg /\ deleted \subseteq Msg

Holding == {"queued", "active", "await", "leaving"}

(* Who holds a slot has been given an arrival.                             *)
Slots ==
  /\ \A p \in Msg : HasSlot(p) <=> pc[p] \in Holding
  /\ \A p \in Msg : HasSlot(p) <=> slot[p].seq # 0
  /\ \A p \in Msg : slot[p].seq <= arrivals
  /\ tail # NoMsg => HasSlot(tail)

(* What names a prompt has seen it queued: a prompt that has not been is   *)
(* neither listed nor deleted, and nobody is chained to it.                *)
Known(p) == pc[p] \notin {"new", "begun"}

Named ==
  /\ \A i \in DOMAIN waiting : Known(waiting[i])
  /\ \A p \in deleted : Known(p)
  /\ \A p \in Msg : \A q \in slot[p].ahead : Known(q)

(* Slots are chained in the order of their arrival, and the last one is    *)
(* the tail.                                                               *)
Chained ==
  /\ \A p, q \in Msg : HasSlot(p) /\ HasSlot(q) /\ slot[p].seq = slot[q].seq => p = q
  /\ \A p, q \in Msg : HasSlot(p) /\ HasSlot(q) /\ slot[q].seq < slot[p].seq => q \in slot[p].ahead
  /\ tail # NoMsg => \A q \in Msg : HasSlot(q) => slot[q].seq <= slot[tail].seq

(* A prompt whose turn it is has nobody ahead of it.                       *)
InTurn == \A p \in Msg : pc[p] \in {"active", "await", "leaving"} => Settled(p)

Forgotten ==
  latest = 0 /\ activeSince = 0 /\ version = 0 /\ dropped = {} /\ waiting = <<>> /\ base = NoMsg

(* The queue knows something as long as it has a tail.                     *)
Remembered ==
  /\ tail = NoMsg => Forgotten /\ \A p \in Msg : ~HasSlot(p)
  /\ base # NoMsg => HasSlot(base)

(* A deletion is remembered, or a cancellation since.                      *)
Deleted ==
  /\ \A p \in Msg : HasSlot(p) => slot[p].version <= version
  /\ \A p \in deleted : pc[p] = "queued" => IsCancelled(p)

Ordered == left = {} => Chained /\ InTurn /\ Remembered /\ Deleted

QueueInv == QueueTypes /\ Slots /\ Named /\ Ordered

-----------------------------------------------------------------------------
\* What a step does to the queue.

(* A prompt goes on without a change of the queue.                         *)
Moves(p) ==
  /\ UNCHANGED <<queue, history>>
  /\ \E s \in PromptStates :
       /\ pc' = [pc EXCEPT ![p] = s]
       /\ \/ pc[p] = "new" /\ s = "begun"
          \/ pc[p] = "begun" /\ s = "done"
          \/ pc[p] = "queued" /\ s = "leaving" /\ Settled(p)
          \/ pc[p] \in {"active", "await"} /\ s \in {"active", "await", "leaving"}

Gone(p) ==
  /\ pc[p] \in {"queued", "active", "await"}
  /\ Goto(p, "leaving")
  /\ left' = left \cup {p}
  /\ UNCHANGED <<queue, deleted>>

QueueStep ==
  \/ UNCHANGED <<queue, pc, history>>
  \/ \E p \in Msg :
       \/ Moves(p)
       \/ pc[p] = "begun" /\ Enqueue(p) /\ Goto(p, "queued") /\ UNCHANGED history
       \/ pc[p] = "queued" /\ TakeOver(p) /\ Goto(p, "active") /\ UNCHANGED history
       \/ pc[p] = "leaving" /\ Release(p) /\ Goto(p, "done") /\ UNCHANGED history
       \/ Gone(p)
       \/ Drop(p) /\ deleted' = deleted \cup {p} /\ UNCHANGED <<pc, left>>
  \/ Cancel /\ UNCHANGED <<pc, history>>

LEMMA NextQueue ==
  ASSUME QueueTypes, [Next]_vars
  PROVE  QueueStep
<1>1. CASE UNCHANGED vars
  BY <1>1 DEF vars, QueueStep
<1>2. ASSUME NEW p \in Msg, PromptStep(p)
      PROVE  QueueStep
  <2>1. CASE BeginHuman(p)
    <3>1. Moves(p)
      BY <2>1 DEF BeginHuman, Moves, Goto, PromptStates
    <3> QED
      BY <3>1 DEF QueueStep
  <2>2. CASE BeginSynthetic(p)
    <3>1. Moves(p)
      BY <2>2 DEF BeginSynthetic, Moves, Goto, PromptStates
    <3> QED
      BY <3>1 DEF QueueStep
  <2>3. CASE Queue(p)
    BY <2>3 DEF Queue, QueueStep
  <2>4. CASE Park(p)
    <3>1. Moves(p)
      BY <2>4 DEF Park, Moves, Goto, PromptStates
    <3> QED
      BY <3>1 DEF QueueStep
  <2>5. CASE Activate(p)
    BY <2>5 DEF Activate, QueueStep
  <2>6. CASE Skip(p)
    <3>1. Moves(p)
      BY <2>6 DEF Skip, Moves, Goto, PromptStates
    <3> QED
      BY <3>1 DEF QueueStep
  <2>7. CASE Decline(p)
    <3>1. Moves(p)
      BY <2>7 DEF Decline, Moves, Goto, PromptStates
    <3> QED
      BY <3>1 DEF QueueStep
  <2>8. CASE Ensure(p)
    <3>1. \E s \in {"active", "await", "leaving"} : Goto(p, s)
      BY <2>8 DEF Ensure
    <3>2. pc[p] = "active" /\ UNCHANGED <<queue, history>>
      BY <2>8 DEF Ensure
    <3>3. Moves(p)
      BY <3>1, <3>2 DEF Moves, Goto, PromptStates
    <3> QED
      BY <3>3 DEF QueueStep
  <2>9. CASE Answered(p)
    <3>1. Moves(p)
      BY <2>9 DEF Answered, Moves, Goto, PromptStates
    <3> QED
      BY <3>1 DEF QueueStep
  <2>10. CASE Leave(p)
    BY <2>10 DEF Leave, QueueStep
  <2> QED
    BY <1>2, <2>1, <2>2, <2>3, <2>4, <2>5, <2>6, <2>7, <2>8, <2>9, <2>10 DEF PromptStep
<1>3. ASSUME NEW p \in Msg, Abandon(p)
      PROVE  QueueStep
  <2>1. Gone(p)
    BY <1>3 DEF Abandon, Gone
  <2> QED
    BY <2>1 DEF QueueStep
<1>4. ASSUME NEW p \in Msg, Delete(p)
      PROVE  QueueStep
  BY <1>4 DEF Delete, QueueStep
<1>5. ASSUME NEW p \in Msg, LoopStep(p) \/ EndTurn(p) \/ HandOver(p)
      PROVE  QueueStep
  BY <1>5 DEF LoopStep, EndTurn, HandOver, others, QueueStep
<1>6. ASSUME NEW c \in Shell, StartShell(c) \/ ShellStep(c)
      PROVE  QueueStep
  BY <1>6 DEF StartShell, ShellStep, others, QueueStep
<1>7. ASSUME NEW k \in Canceller, Stop(k)
      PROVE  QueueStep
  BY <1>7 DEF Stop, QueueStep
<1>8. ASSUME NEW k \in Canceller, CancelStep(k)
      PROVE  QueueStep
  BY <1>8 DEF CancelStep, CancelQueue, CancelRunner, FinishCancel, StopEnd, others, QueueStep
<1> QED
  BY <1>1, <1>2, <1>3, <1>4, <1>5, <1>6, <1>7, <1>8 DEF Next

-----------------------------------------------------------------------------
\* The parts of the invariant, one kind of step after another.

LEMMA MovesKeep ==
  ASSUME QueueInv, NEW p \in Msg, Moves(p)
  PROVE  QueueInv'
<1>1. PICK s \in PromptStates :
        /\ pc' = [pc EXCEPT ![p] = s]
        /\ \/ pc[p] = "new" /\ s = "begun"
           \/ pc[p] = "begun" /\ s = "done"
           \/ pc[p] = "queued" /\ s = "leaving" /\ Settled(p)
           \/ pc[p] \in {"active", "await"} /\ s \in {"active", "await", "leaving"}
  BY DEF Moves
<1>2. UNCHANGED <<slot, tail, arrivals, latest, activeSince, version, dropped, waiting, base, left, deleted>>
  BY DEF Moves, queue, history
<1>3. pc \in [Msg -> PromptStates]
  BY DEF QueueInv, QueueTypes
<1>4. /\ \A q \in Msg : pc'[q] \in Holding <=> pc[q] \in Holding
      /\ \A q \in Msg : Known(q) => Known(q)'
      /\ \A q \in Msg : pc'[q] = "queued" => pc[q] = "queued"
      /\ \A q \in Msg : pc'[q] \in {"active", "await", "leaving"} =>
           pc[q] \in {"active", "await", "leaving"} \/ Settled(q)
  BY <1>1, <1>3 DEF Holding, Known
<1>5. QueueTypes'
  BY <1>1, <1>2, <1>3 DEF QueueInv, QueueTypes, QueueTypeOK
<1>6. Slots'
  BY <1>2, <1>4 DEF QueueInv, Slots, HasSlot
<1>7. Named'
  BY <1>2, <1>4 DEF QueueInv, QueueTypes, QueueTypeOK, Named
<1>8. Ordered'
  <2>1. SUFFICES ASSUME left = {} PROVE (Chained /\ InTurn /\ Remembered /\ Deleted)'
    BY <1>2 DEF Ordered
  <2>2. Chained /\ InTurn /\ Remembered /\ Deleted
    BY <2>1 DEF QueueInv, Ordered
  <2>3. Chained'
    BY <1>2, <2>2 DEF Chained, HasSlot
  <2>4. InTurn'
    BY <1>2, <1>4, <2>2 DEF InTurn, Settled, HasSlot
  <2>5. Remembered'
    BY <1>2, <2>2 DEF Remembered, Forgotten, HasSlot
  <2>6. Deleted'
    BY <1>2, <1>4, <2>2 DEF Deleted, IsCancelled, HasSlot, QueueInv, QueueTypes
  <2> QED
    BY <2>3, <2>4, <2>5, <2>6
<1> QED
  BY <1>5, <1>6, <1>7, <1>8 DEF QueueInv

(* A caller that leaves ends what is known of the order.                   *)
LEMMA GoneKeeps ==
  ASSUME QueueInv, NEW p \in Msg, Gone(p)
  PROVE  QueueInv'
<1>1. /\ pc' = [pc EXCEPT ![p] = "leaving"] /\ pc[p] \in {"queued", "active", "await"}
      /\ left' = left \cup {p}
      /\ UNCHANGED <<slot, tail, arrivals, latest, activeSince, version, dropped, waiting, base, deleted>>
  BY DEF Gone, Goto, queue
<1>2. pc \in [Msg -> PromptStates]
  BY DEF QueueInv, QueueTypes
<1>3. /\ \A q \in Msg : pc'[q] \in Holding <=> pc[q] \in Holding
      /\ \A q \in Msg : Known(q) => Known(q)'
  BY <1>1, <1>2 DEF Holding, Known
<1>4. QueueTypes'
  BY <1>1, <1>2 DEF QueueInv, QueueTypes, QueueTypeOK, PromptStates
<1>5. Slots'
  BY <1>1, <1>3 DEF QueueInv, Slots, HasSlot
<1>6. Named'
  BY <1>1, <1>3 DEF QueueInv, QueueTypes, QueueTypeOK, Named
<1>7. Ordered'
  BY <1>1 DEF Ordered
<1> QED
  BY <1>4, <1>5, <1>6, <1>7 DEF QueueInv

LEMMA EnqueueKeeps ==
  ASSUME QueueInv, NEW p \in Msg, pc[p] = "begun", Enqueue(p), Goto(p, "queued"), UNCHANGED history
  PROVE  QueueInv'
<1> DEFINE new == [seq |-> arrivals + 1, version |-> version, ahead |-> Chain]
<1> HIDE DEF new
<1>1. /\ arrivals' = arrivals + 1 /\ latest' = arrivals + 1 /\ tail' = p
      /\ slot' = [slot EXCEPT ![p] = new]
      /\ waiting' = IF tail = NoMsg THEN waiting ELSE Append(waiting, p)
      /\ pc' = [pc EXCEPT ![p] = "queued"]
      /\ UNCHANGED <<activeSince, version, dropped, base, left, deleted>>
      /\ ~HasSlot(p)
  BY DEF Enqueue, Goto, history, new
<1>2. QueueTypeOK /\ pc \in [Msg -> PromptStates] /\ deleted \subseteq Msg /\ left \subseteq Msg /\ Slots /\ Named
  BY DEF QueueInv, QueueTypes
<1>3. Chain \subseteq Msg /\ \A q \in Chain : Known(q)
  <2>1. tail # NoMsg => tail \in Msg /\ Known(tail)
    BY <1>2 DEF QueueTypeOK, Slots, Holding, Known
  <2>2. tail # NoMsg => slot[tail].ahead \subseteq Msg /\ \A q \in slot[tail].ahead : Known(q)
    BY <1>2, <2>1 DEF QueueTypeOK, Named
  <2> QED
    BY <2>1, <2>2 DEF Chain
<1>4. /\ new \in [seq : Nat, version : Nat, ahead : SUBSET Msg]
      /\ new.seq = arrivals + 1 /\ new.version = version /\ new.ahead = Chain
      /\ arrivals \in Nat /\ \A q \in Msg : slot[q].seq \in Nat
  BY <1>2, <1>3 DEF QueueTypeOK, new
<1>5. slot \in [Msg -> [seq : Nat, version : Nat, ahead : SUBSET Msg]]
  BY <1>2 DEF QueueTypeOK
<1>6. /\ slot'[p] = new
      /\ \A q \in Msg : q # p => slot'[q] = slot[q]
      /\ HasSlot(p)'
      /\ \A q \in Msg : q # p => (HasSlot(q)' <=> HasSlot(q))
  <2>1. new # Free
    BY <1>4 DEF Free
  <2> QED
    BY <1>1, <1>5, <2>1 DEF HasSlot
<1>7. /\ pc'[p] = "queued" /\ \A q \in Msg : q # p => pc'[q] = pc[q]
      /\ \A q \in Msg : Known(q) => Known(q)'
      /\ Known(p)' /\ ~Known(p)
  BY <1>1, <1>2 DEF Known
<1>8. QueueTypes'
  <2>1. waiting' \in Seq(Msg)
    BY <1>1, <1>2, AppendProperties DEF QueueTypeOK
  <2> QED
    BY <1>1, <1>2, <1>4, <2>1 DEF QueueTypes, QueueTypeOK, PromptStates
<1>9. Slots'
  BY <1>1, <1>2, <1>4, <1>6, <1>7 DEF Slots, Holding
<1>10. Named'
  <2>1. \A i \in DOMAIN waiting' : waiting'[i] = p \/ \E j \in DOMAIN waiting : waiting'[i] = waiting[j]
    <3>1. waiting \in Seq(Msg)
      BY <1>2 DEF QueueTypeOK
    <3>2. CASE tail = NoMsg
      BY <1>1, <3>2
    <3>3. CASE tail # NoMsg
      BY <1>1, <3>1, <3>3, AppendProperties, LenProperties
    <3> QED
      BY <3>2, <3>3
  <2>2. \A i \in DOMAIN waiting' : pc'[waiting'[i]] \notin {"new", "begun"}
    <3>1. waiting \in Seq(Msg) /\ \A j \in DOMAIN waiting : waiting[j] \in Msg /\ Known(waiting[j])
      <4>1. waiting \in Seq(Msg)
        BY <1>2 DEF QueueTypeOK
      <4> QED
        BY <1>2, <4>1, ElementOfSeq, LenProperties DEF Named
    <3> QED
      BY <1>7, <2>1, <3>1 DEF Known
  <2>3. \A q \in deleted' : Known(q)'
    BY <1>1, <1>2, <1>7 DEF Named
  <2>4. \A q \in Msg : \A r \in slot'[q].ahead : Known(r)'
    <3>1. \A r \in slot'[p].ahead : Known(r)'
      BY <1>3, <1>4, <1>6, <1>7
    <3>2. ASSUME NEW q \in Msg, q # p PROVE \A r \in slot'[q].ahead : Known(r)'
      BY <1>2, <1>5, <1>6, <1>7, <3>2 DEF Named
    <3> QED
      BY <3>1, <3>2
  <2> QED
    BY <2>2, <2>3, <2>4 DEF Named, Known
<1>11. Ordered'
  <2>1. SUFFICES ASSUME left = {} PROVE (Chained /\ InTurn /\ Remembered /\ Deleted)'
    BY <1>1 DEF Ordered
  <2>2. Chained /\ InTurn /\ Remembered /\ Deleted
    BY <2>1 DEF QueueInv, Ordered
  <2>3. \A q \in Msg : HasSlot(q) => q \in Chain
    <3>1. SUFFICES ASSUME NEW q \in Msg, HasSlot(q) PROVE q \in Chain
      OBVIOUS
    <3>2. tail # NoMsg /\ tail \in Msg /\ HasSlot(tail)
      BY <1>2, <2>2, <3>1 DEF Remembered, QueueTypeOK, Slots
    <3>3. slot[q].seq <= slot[tail].seq
      BY <2>2, <3>1, <3>2 DEF Chained
    <3>4. CASE slot[q].seq = slot[tail].seq
      BY <2>2, <3>1, <3>2, <3>4 DEF Chained, Chain
    <3>5. CASE slot[q].seq < slot[tail].seq
      BY <2>2, <3>1, <3>2, <3>5 DEF Chained, Chain
    <3> QED
      BY <1>4, <3>2, <3>3, <3>4, <3>5
  <2>4. Chained'
    <3>1. \A q \in Msg : q # p => slot'[q].seq < slot'[p].seq
      BY <1>2, <1>4, <1>6 DEF Slots
    <3>2. \A q, r \in Msg : HasSlot(q)' /\ HasSlot(r)' /\ slot'[q].seq = slot'[r].seq => q = r
      <4>1. SUFFICES ASSUME NEW q \in Msg, NEW r \in Msg, HasSlot(q)', HasSlot(r)', slot'[q].seq = slot'[r].seq
                     PROVE  q = r
        OBVIOUS
      <4>2. CASE q # p /\ r # p
        BY <1>6, <2>2, <4>1, <4>2 DEF Chained
      <4>3. CASE q = p \/ r = p
        BY <1>4, <1>6, <3>1, <4>1, <4>3
      <4> QED
        BY <4>2, <4>3
    <3>3. \A q, r \in Msg : HasSlot(q)' /\ HasSlot(r)' /\ slot'[r].seq < slot'[q].seq => r \in slot'[q].ahead
      <4>1. SUFFICES ASSUME NEW q \in Msg, NEW r \in Msg, HasSlot(q)', HasSlot(r)', slot'[r].seq < slot'[q].seq
                     PROVE  r \in slot'[q].ahead
        OBVIOUS
      <4>2. CASE q = p
        <5>1. r # p
          BY <1>4, <1>6, <4>1, <4>2
        <5> QED
          BY <1>4, <1>6, <2>3, <4>1, <4>2, <5>1
      <4>3. CASE q # p /\ r # p
        BY <1>6, <2>2, <4>1, <4>3 DEF Chained
      <4>4. CASE q # p /\ r = p
        BY <1>4, <1>6, <3>1, <4>1, <4>4
      <4> QED
        BY <4>2, <4>3, <4>4
    <3>4. \A q \in Msg : slot'[q].seq <= slot'[p].seq
      BY <1>4, <1>6, <3>1
    <3> QED
      BY <1>1, <3>2, <3>3, <3>4 DEF Chained
  <2>5. InTurn'
    <3>1. SUFFICES ASSUME NEW q \in Msg, pc'[q] \in {"active", "await", "leaving"} PROVE Settled(q)'
      BY DEF InTurn
    <3>2. q # p /\ pc[q] \in {"active", "await", "leaving"}
      BY <1>7, <3>1
    <3>3. \A r \in slot[q].ahead : r \in Msg /\ r # p /\ ~HasSlot(r)
      BY <1>2, <1>5, <1>7, <2>2, <3>2 DEF InTurn, Settled, Named
    <3> QED
      BY <1>6, <3>2, <3>3 DEF Settled
  <2>6. Remembered'
    <3>1. base # NoMsg => base \in Msg /\ slot'[base] # Free
      <4>1. base # NoMsg => base \in Msg /\ HasSlot(base)
        BY <1>2, <2>2 DEF Remembered, QueueTypeOK
      <4> QED
        BY <1>6, <4>1 DEF HasSlot
    <3>2. p # NoMsg
      BY NoMsgAssumption
    <3> QED
      BY <1>1, <3>1, <3>2 DEF Remembered, HasSlot
  <2>7. Deleted'
    <3>1. \A q \in Msg : HasSlot(q)' => slot'[q].version <= version'
      BY <1>1, <1>2, <1>4, <1>6, <2>2 DEF Deleted, QueueTypeOK
    <3>2. \A q \in deleted' : pc'[q] = "queued" => IsCancelled(q)'
      <4>1. SUFFICES ASSUME NEW q \in deleted, pc'[q] = "queued" PROVE IsCancelled(q)'
        BY <1>1
      <4>2. q \in Msg /\ q # p
        BY <1>2, <1>7 DEF Named
      <4> QED
        BY <1>1, <1>6, <1>7, <2>2, <4>1, <4>2 DEF Deleted, IsCancelled
    <3> QED
      BY <3>1, <3>2 DEF Deleted
  <2> QED
    BY <2>4, <2>5, <2>6, <2>7
<1> QED
  BY <1>8, <1>9, <1>10, <1>11 DEF QueueInv

LEMMA TakeOverKeeps ==
  ASSUME QueueInv, NEW p \in Msg, pc[p] = "queued", TakeOver(p), Goto(p, "active"), UNCHANGED history
  PROVE  QueueInv'
<1>1. /\ HasSlot(p) /\ Settled(p)
      /\ activeSince' = (IF latest = 0 THEN slot[p].seq ELSE latest)
      /\ waiting' = IF waiting # <<>> /\ Head(waiting) = p THEN Tail(waiting) ELSE waiting
      /\ base' = p
      /\ pc' = [pc EXCEPT ![p] = "active"]
      /\ UNCHANGED <<slot, tail, arrivals, latest, version, dropped, left, deleted>>
  BY DEF TakeOver, Goto, history
<1>2. QueueTypeOK /\ pc \in [Msg -> PromptStates] /\ deleted \subseteq Msg /\ left \subseteq Msg /\ Slots /\ Named
  BY DEF QueueInv, QueueTypes
<1>3. /\ \A q \in Msg : pc'[q] \in Holding <=> pc[q] \in Holding
      /\ \A q \in Msg : Known(q) => Known(q)'
      /\ \A q \in Msg : pc'[q] = "queued" => pc[q] = "queued"
      /\ \A q \in Msg : pc'[q] \in {"active", "await", "leaving"} =>
           pc[q] \in {"active", "await", "leaving"} \/ q = p
  BY <1>1, <1>2 DEF Holding, Known
<1>4. waiting' \in Seq(Msg) /\ \A i \in DOMAIN waiting' : \E j \in DOMAIN waiting : waiting'[i] = waiting[j]
  <2>1. waiting \in Seq(Msg)
    BY <1>2 DEF QueueTypeOK
  <2>2. CASE waiting # <<>> /\ Head(waiting) = p
    BY <1>1, <2>1, <2>2, HeadTailProperties, LenProperties
  <2>3. CASE ~(waiting # <<>> /\ Head(waiting) = p)
    BY <1>1, <2>1, <2>3
  <2> QED
    BY <2>2, <2>3
<1>5. QueueTypes'
  BY <1>1, <1>2, <1>4 DEF QueueTypes, QueueTypeOK, PromptStates
<1>6. Slots'
  BY <1>1, <1>2, <1>3 DEF Slots, HasSlot
<1>7. Named'
  <2>1. \A j \in DOMAIN waiting : waiting[j] \in Msg /\ Known(waiting[j])
    BY <1>2, ElementOfSeq, LenProperties DEF Named, QueueTypeOK
  <2>2. \A i \in DOMAIN waiting' : pc'[waiting'[i]] \notin {"new", "begun"}
    BY <1>3, <1>4, <2>1 DEF Known
  <2>3. \A q \in deleted' : Known(q)'
    BY <1>1, <1>2, <1>3 DEF Named
  <2>4. \A q \in Msg : \A r \in slot'[q].ahead : Known(r)'
    BY <1>1, <1>2, <1>3 DEF Named, QueueTypeOK
  <2> QED
    BY <2>2, <2>3, <2>4 DEF Named, Known
<1>8. Ordered'
  <2>1. SUFFICES ASSUME left = {} PROVE (Chained /\ InTurn /\ Remembered /\ Deleted)'
    BY <1>1 DEF Ordered
  <2>2. Chained /\ InTurn /\ Remembered /\ Deleted
    BY <2>1 DEF QueueInv, Ordered
  <2>3. Chained'
    BY <1>1, <2>2 DEF Chained, HasSlot
  <2>4. InTurn'
    BY <1>1, <1>3, <2>2 DEF InTurn, Settled, HasSlot
  <2>5. tail # NoMsg /\ HasSlot(p)'
    BY <1>1, <2>2 DEF Remembered, HasSlot
  <2>6. Remembered'
    BY <1>1, <2>5 DEF Remembered
  <2>7. Deleted'
    BY <1>1, <1>2, <1>3, <2>2 DEF Deleted, IsCancelled, HasSlot
  <2> QED
    BY <2>3, <2>4, <2>6, <2>7
<1> QED
  BY <1>5, <1>6, <1>7, <1>8 DEF QueueInv

(* Where nobody has left, who leaves has nobody ahead of it: where it is   *)
(* the tail as well, it is the last.                                       *)
LEMMA LastSlot ==
  ASSUME QueueInv, left = {}, NEW p \in Msg, pc[p] = "leaving", tail = p, NEW q \in Msg, HasSlot(q)
  PROVE  q = p
<1>1. QueueTypeOK /\ Slots /\ Chained /\ InTurn
  BY DEF QueueInv, QueueTypes, Ordered
<1>2. HasSlot(p) /\ tail # NoMsg /\ q \notin slot[p].ahead
  BY <1>1, NoMsgAssumption DEF Slots, Holding, InTurn, Settled
<1>3. slot[q].seq <= slot[p].seq /\ ~(slot[q].seq < slot[p].seq)
  BY <1>1, <1>2 DEF Chained
<1>4. slot[q].seq \in Nat /\ slot[p].seq \in Nat
  BY <1>1 DEF QueueTypeOK
<1>5. slot[q].seq = slot[p].seq
  BY <1>3, <1>4
<1> QED
  BY <1>1, <1>2, <1>5 DEF Chained

LEMMA ReleaseKeeps ==
  ASSUME QueueInv, NEW p \in Msg, pc[p] = "leaving", Release(p), Goto(p, "done"), UNCHANGED history
  PROVE  QueueInv'
<1>1. /\ slot' = [slot EXCEPT ![p] = Free]
      /\ pc' = [pc EXCEPT ![p] = "done"]
      /\ UNCHANGED <<arrivals, left, deleted>>
      /\ tail = p => tail' = NoMsg /\ Forgotten'
      /\ tail # p => /\ base' = IF base = p THEN NoMsg ELSE base
                     /\ UNCHANGED <<tail, latest, activeSince, version, dropped, waiting>>
  BY DEF Release, Forget, Forgotten, Goto, history
<1>2. QueueTypeOK /\ pc \in [Msg -> PromptStates] /\ deleted \subseteq Msg /\ left \subseteq Msg /\ Slots /\ Named
  BY DEF QueueInv, QueueTypes
<1>3. /\ Free \in [seq : Nat, version : Nat, ahead : SUBSET Msg]
      /\ Free.seq = 0 /\ Free.ahead = {}
  BY DEF Free
<1>4. /\ slot'[p] = Free /\ \A q \in Msg : q # p => slot'[q] = slot[q]
      /\ ~HasSlot(p)'
      /\ \A q \in Msg : q # p => (HasSlot(q)' <=> HasSlot(q))
  BY <1>1, <1>2 DEF QueueTypeOK, HasSlot
<1>5. /\ pc'[p] = "done" /\ \A q \in Msg : q # p => pc'[q] = pc[q]
      /\ \A q \in Msg : Known(q) => Known(q)'
  BY <1>1, <1>2 DEF Known
<1>6. QueueTypes'
  <2>1. slot' \in [Msg -> [seq : Nat, version : Nat, ahead : SUBSET Msg]]
    BY <1>1, <1>2, <1>3 DEF QueueTypeOK
  <2>2. CASE tail = p
    <3>1. <<>> \in Seq(Msg)
      BY EmptySeq
    <3> QED
      BY <1>1, <1>2, <2>1, <2>2, <3>1 DEF QueueTypes, QueueTypeOK, PromptStates, Forgotten
  <2>3. CASE tail # p
    BY <1>1, <1>2, <2>1, <2>3 DEF QueueTypes, QueueTypeOK, PromptStates
  <2> QED
    BY <2>2, <2>3
<1>7. Slots'
  <2>1. arrivals \in Nat
    BY <1>2 DEF QueueTypeOK
  <2>2. tail' # NoMsg => tail' \in Msg /\ tail' # p /\ HasSlot(tail')
    BY <1>1, <1>2 DEF Slots, QueueTypeOK
  <2>3. tail' # NoMsg => HasSlot(tail)'
    BY <1>4, <2>2 DEF HasSlot
  <2> QED
    BY <1>1, <1>2, <1>3, <1>4, <1>5, <2>1, <2>3 DEF Slots, Holding
<1>8. Named'
  <2>1. \A j \in DOMAIN waiting : waiting[j] \in Msg /\ Known(waiting[j])
    BY <1>2, ElementOfSeq, LenProperties DEF Named, QueueTypeOK
  <2>2. \A i \in DOMAIN waiting' : pc'[waiting'[i]] \notin {"new", "begun"}
    <3>1. waiting' = waiting \/ waiting' = <<>>
      BY <1>1 DEF Forgotten
    <3> QED
      BY <1>5, <2>1, <3>1 DEF Known
  <2>3. \A q \in deleted' : Known(q)'
    BY <1>1, <1>2, <1>5 DEF Named
  <2>4. \A q \in Msg : \A r \in slot'[q].ahead : Known(r)'
    BY <1>2, <1>3, <1>4, <1>5 DEF Named, QueueTypeOK
  <2> QED
    BY <2>2, <2>3, <2>4 DEF Named, Known
<1>9. Ordered'
  <2>1. SUFFICES ASSUME left = {} PROVE (Chained /\ InTurn /\ Remembered /\ Deleted)'
    BY <1>1 DEF Ordered
  <2>2. Chained /\ InTurn /\ Remembered /\ Deleted
    BY <2>1 DEF QueueInv, Ordered
  <2>3. tail = p => \A q \in Msg : ~HasSlot(q)'
    BY <1>4, <2>1, LastSlot
  <2>4. Chained'
    <3>1. CASE tail = p
      BY <1>1, <2>3, <3>1 DEF Chained
    <3>2. CASE tail # p
      <4>1. /\ \A q, r \in Msg : HasSlot(q)' /\ HasSlot(r)' /\ slot'[q].seq = slot'[r].seq => q = r
            /\ \A q, r \in Msg : HasSlot(q)' /\ HasSlot(r)' /\ slot'[r].seq < slot'[q].seq => r \in slot'[q].ahead
        BY <1>4, <2>2 DEF Chained
      <4>2. ASSUME tail # NoMsg, NEW q \in Msg, HasSlot(q)' PROVE slot'[q].seq <= slot'[tail].seq
        <5>1. tail \in Msg /\ q # p
          BY <1>2, <1>4, <4>2 DEF QueueTypeOK
        <5> QED
          BY <1>4, <2>2, <3>2, <4>2, <5>1 DEF Chained
      <4> QED
        BY <1>1, <3>2, <4>1, <4>2 DEF Chained
    <3> QED
      BY <3>1, <3>2
  <2>5. InTurn'
    <3>1. SUFFICES ASSUME NEW q \in Msg, pc'[q] \in {"active", "await", "leaving"} PROVE Settled(q)'
      BY DEF InTurn
    <3>2. q # p /\ Settled(q) /\ slot[q].ahead \subseteq Msg
      BY <1>2, <1>5, <2>2, <3>1 DEF InTurn, QueueTypeOK
    <3> QED
      BY <1>4, <3>2 DEF Settled
  <2>6. Remembered'
    <3>1. CASE tail = p
      BY <1>1, <2>3, <3>1 DEF Remembered, Forgotten
    <3>2. CASE tail # p
      <4>1. tail # NoMsg
        BY <1>2, <2>2 DEF Remembered, Slots, Holding
      <4>2. base' # NoMsg => base' \in Msg /\ base' # p /\ HasSlot(base')
        BY <1>1, <1>2, <2>2, <3>2 DEF Remembered, QueueTypeOK
      <4>3. base' # NoMsg => HasSlot(base)'
        BY <1>4, <4>2 DEF HasSlot
      <4> QED
        BY <1>1, <3>2, <4>1, <4>3 DEF Remembered
    <3> QED
      BY <3>1, <3>2
  <2>7. Deleted'
    <3>1. CASE tail = p
      <4>1. \A q \in Msg : pc'[q] # "queued"
        BY <1>7, <2>3, <3>1 DEF Slots, Holding
      <4> QED
        BY <1>1, <1>2, <2>3, <3>1, <4>1 DEF Deleted
    <3>2. CASE tail # p
      <4>1. \A q \in Msg : HasSlot(q)' => slot'[q].version <= version'
        BY <1>1, <1>4, <2>2, <3>2 DEF Deleted
      <4>2. \A q \in deleted' : pc'[q] = "queued" => IsCancelled(q)'
        BY <1>1, <1>2, <1>4, <1>5, <2>2, <3>2 DEF Deleted, IsCancelled
      <4> QED
        BY <4>1, <4>2 DEF Deleted
    <3> QED
      BY <3>1, <3>2
  <2> QED
    BY <2>4, <2>5, <2>6, <2>7
<1> QED
  BY <1>6, <1>7, <1>8, <1>9 DEF QueueInv

LEMMA RemoveAtElements ==
  ASSUME NEW S, NEW s \in Seq(S), NEW k \in DOMAIN s
  PROVE  /\ RemoveAt(s, k) \in Seq(S)
         /\ \A i \in DOMAIN RemoveAt(s, k) : \E j \in DOMAIN s : RemoveAt(s, k)[i] = s[j]
<1> DEFINE a == SubSeq(s, 1, k - 1)
           b == SubSeq(s, k + 1, Len(s))
<1>1. k \in 1..Len(s) /\ Len(s) \in Nat /\ DOMAIN s = 1..Len(s)
  BY LenProperties
<1>2. a \in Seq(S) /\ Len(a) = k - 1 /\ \A i \in 1..(k - 1) : a[i] = s[i]
  BY <1>1, SubSeqProperties
<1>3. b \in Seq(S) /\ Len(b) = Len(s) - k /\ \A i \in 1..(Len(s) - k) : b[i] = s[k + i]
  BY <1>1, SubSeqProperties
<1>4. RemoveAt(s, k) = a \o b
  BY DEF RemoveAt
<1> HIDE DEF a, b
<1>5. /\ a \o b \in Seq(S) /\ Len(a \o b) = Len(s) - 1
      /\ \A i \in 1..(Len(s) - 1) : (a \o b)[i] = IF i <= k - 1 THEN a[i] ELSE b[i - (k - 1)]
  <2>1. /\ a \o b \in Seq(S) /\ Len(a \o b) = Len(a) + Len(b)
        /\ \A i \in 1..(Len(a) + Len(b)) : (a \o b)[i] = IF i <= Len(a) THEN a[i] ELSE b[i - Len(a)]
    BY <1>2, <1>3, ConcatProperties
  <2>2. Len(a) + Len(b) = Len(s) - 1 /\ Len(a) = k - 1
    BY <1>1, <1>2, <1>3
  <2> QED
    BY <2>1, <2>2
<1>6. ASSUME NEW i \in 1..(Len(s) - 1) PROVE \E j \in DOMAIN s : (a \o b)[i] = s[j]
  <2>1. CASE i <= k - 1
    <3>1. i \in 1..(k - 1) /\ i \in DOMAIN s
      BY <1>1, <2>1
    <3> QED
      BY <1>2, <1>5, <2>1, <3>1
  <2>2. CASE ~(i <= k - 1)
    <3>1. i - (k - 1) \in 1..(Len(s) - k) /\ k + (i - (k - 1)) = i + 1 /\ i + 1 \in 1..Len(s)
      BY <1>1, <2>2
    <3> QED
      BY <1>1, <1>3, <1>5, <2>2, <3>1
  <2> QED
    BY <2>1, <2>2
<1> QED
  BY <1>4, <1>5, <1>6, LenProperties

LEMMA DropKeeps ==
  ASSUME QueueInv, NEW p \in Msg, Drop(p), deleted' = deleted \cup {p}, UNCHANGED <<pc, left>>
  PROVE  QueueInv'
<1>1. /\ Waiting(p)
      /\ waiting' = RemoveAt(waiting, CHOOSE i \in DOMAIN waiting : waiting[i] = p)
      /\ dropped' = dropped \cup {p}
      /\ UNCHANGED <<slot, tail, arrivals, latest, activeSince, version, base>>
  BY DEF Drop
<1>2. QueueTypeOK /\ pc \in [Msg -> PromptStates] /\ deleted \subseteq Msg /\ left \subseteq Msg /\ Slots /\ Named
  BY DEF QueueInv, QueueTypes
<1>3. waiting' \in Seq(Msg) /\ \A i \in DOMAIN waiting' : \E j \in DOMAIN waiting : waiting'[i] = waiting[j]
  <2>1. waiting \in Seq(Msg)
    BY <1>2 DEF QueueTypeOK
  <2>2. PICK k \in DOMAIN waiting : waiting' = RemoveAt(waiting, k)
    <3>1. (CHOOSE i \in DOMAIN waiting : waiting[i] = p) \in DOMAIN waiting
      BY <1>1 DEF Waiting
    <3> QED
      BY <1>1, <3>1
  <2> QED
    BY <2>1, <2>2, RemoveAtElements
<1>4. QueueTypes'
  BY <1>1, <1>2, <1>3 DEF QueueTypes, QueueTypeOK
<1>5. Slots'
  BY <1>1, <1>2 DEF Slots, HasSlot
<1>6. Named'
  <2>1. \A i \in DOMAIN waiting' : Known(waiting'[i])
    BY <1>2, <1>3 DEF Named
  <2>2. Known(p)
    BY <1>1, <1>2 DEF Waiting, Named
  <2> QED
    BY <1>1, <1>2, <2>1, <2>2 DEF Named, Known
<1>7. Ordered'
  <2>1. SUFFICES ASSUME left = {} PROVE (Chained /\ InTurn /\ Remembered /\ Deleted)'
    BY DEF Ordered
  <2>2. Chained /\ InTurn /\ Remembered /\ Deleted
    BY <2>1 DEF QueueInv, Ordered
  <2>3. Chained'
    BY <1>1, <2>2 DEF Chained, HasSlot
  <2>4. InTurn'
    BY <1>1, <2>2 DEF InTurn, Settled, HasSlot
  <2>5. tail # NoMsg
    <3>1. waiting # <<>>
      BY <1>1, EmptySeq DEF Waiting
    <3> QED
      BY <2>2, <3>1 DEF Remembered, Forgotten
  <2>6. Remembered'
    BY <1>1, <2>2, <2>5 DEF Remembered, HasSlot
  <2>7. Deleted'
    BY <1>1, <2>2 DEF Deleted, IsCancelled, HasSlot
  <2> QED
    BY <2>3, <2>4, <2>6, <2>7
<1> QED
  BY <1>4, <1>5, <1>6, <1>7 DEF QueueInv

LEMMA CancelKeeps ==
  ASSUME QueueInv, Cancel, UNCHANGED <<pc, history>>
  PROVE  QueueInv'
<1>1. /\ tail = NoMsg => Forgotten'
      /\ tail # NoMsg => /\ waiting' = <<>> /\ version' = version + 1 /\ dropped' = {}
                         /\ UNCHANGED <<latest, activeSince, base>>
      /\ UNCHANGED <<slot, tail, arrivals, pc, left, deleted>>
  BY DEF Cancel, Forget, Forgotten, history
<1>2. QueueTypeOK /\ pc \in [Msg -> PromptStates] /\ deleted \subseteq Msg /\ left \subseteq Msg /\ Slots /\ Named
  BY DEF QueueInv, QueueTypes
<1>3. waiting' = <<>> /\ dropped' = {}
  BY <1>1 DEF Forgotten
<1>4. QueueTypes'
  <2>1. <<>> \in Seq(Msg)
    BY EmptySeq
  <2> QED
    BY <1>1, <1>2, <1>3, <2>1 DEF QueueTypes, QueueTypeOK, Forgotten
<1>5. Slots'
  BY <1>1, <1>2 DEF Slots, HasSlot
<1>6. Named'
  BY <1>1, <1>2, <1>3 DEF Named, Known
<1>7. Ordered'
  <2>1. SUFFICES ASSUME left = {} PROVE (Chained /\ InTurn /\ Remembered /\ Deleted)'
    BY <1>1 DEF Ordered
  <2>2. Chained /\ InTurn /\ Remembered /\ Deleted
    BY <2>1 DEF QueueInv, Ordered
  <2>3. Chained'
    BY <1>1, <2>2 DEF Chained, HasSlot
  <2>4. InTurn'
    BY <1>1, <2>2 DEF InTurn, Settled, HasSlot
  <2>5. Remembered'
    BY <1>1, <2>2 DEF Remembered, Forgotten, HasSlot
  <2>6. Deleted'
    <3>1. CASE tail = NoMsg
      <4>1. \A q \in Msg : ~HasSlot(q) /\ pc[q] # "queued"
        BY <1>2, <2>2, <3>1 DEF Remembered, Slots, Holding
      <4> QED
        BY <1>1, <1>2, <4>1 DEF Deleted, HasSlot
    <3>2. CASE tail # NoMsg
      <4>1. version \in Nat /\ \A q \in Msg : slot[q].version \in Nat
        BY <1>2 DEF QueueTypeOK
      <4>2. \A q \in Msg : HasSlot(q) => slot[q].version < version'
        BY <1>1, <2>2, <3>2, <4>1 DEF Deleted
      <4>3. \A q \in Msg : HasSlot(q)' => slot'[q].version <= version'
        BY <1>1, <3>2, <4>1, <4>2 DEF HasSlot
      <4>4. \A q \in deleted' : pc'[q] = "queued" => IsCancelled(q)'
        <5>1. \A q \in deleted : pc[q] = "queued" => slot[q].version # version'
          BY <1>1, <1>2, <3>2, <4>1, <4>2 DEF Slots, Holding
        <5> QED
          BY <1>1, <5>1 DEF IsCancelled
      <4> QED
        BY <4>3, <4>4 DEF Deleted
    <3> QED
      BY <3>1, <3>2
  <2> QED
    BY <2>3, <2>4, <2>5, <2>6
<1> QED
  BY <1>4, <1>5, <1>6, <1>7 DEF QueueInv

-----------------------------------------------------------------------------

LEMMA QueueInvInit ==
  ASSUME Init
  PROVE  QueueInv
<1>1. QueueInit /\ pc = [p \in Msg |-> "new"] /\ left = {} /\ deleted = {}
  BY DEF Init
<1>2. Free \in [seq : Nat, version : Nat, ahead : SUBSET Msg] /\ Free.seq = 0 /\ Free.ahead = {}
  BY DEF Free
<1>3. \A p \in Msg : slot[p] = Free /\ ~HasSlot(p)
  BY <1>1 DEF QueueInit, HasSlot
<1>4. QueueTypes
  <2>1. <<>> \in Seq(Msg)
    BY EmptySeq
  <2> QED
    BY <1>1, <1>2, <2>1 DEF QueueTypes, QueueTypeOK, QueueInit, PromptStates
<1>5. Slots /\ Named
  <2>1. DOMAIN waiting = {}
    BY <1>1 DEF QueueInit
  <2> QED
    BY <1>1, <1>2, <1>3, <2>1 DEF Slots, Named, Holding, QueueInit
<1>6. Ordered
  BY <1>1, <1>3 DEF Ordered, Chained, InTurn, Remembered, Forgotten, Deleted, QueueInit
<1> QED
  BY <1>4, <1>5, <1>6 DEF QueueInv

LEMMA QueueInvStep ==
  ASSUME QueueInv, [Next]_vars
  PROVE  QueueInv'
<1>1. QueueStep
  BY NextQueue DEF QueueInv
<1>2. CASE UNCHANGED <<queue, pc, history>>
  BY <1>2 DEF QueueInv, QueueTypes, QueueTypeOK, Slots, HasSlot, Named, Known, Ordered, Chained,
              InTurn, Settled, Remembered, Forgotten, Deleted, IsCancelled, queue, history
<1>3. CASE \E p \in Msg : Moves(p)
  BY <1>3, MovesKeep
<1>4. CASE \E p \in Msg : pc[p] = "begun" /\ Enqueue(p) /\ Goto(p, "queued") /\ UNCHANGED history
  BY <1>4, EnqueueKeeps
<1>5. CASE \E p \in Msg : pc[p] = "queued" /\ TakeOver(p) /\ Goto(p, "active") /\ UNCHANGED history
  BY <1>5, TakeOverKeeps
<1>6. CASE \E p \in Msg : pc[p] = "leaving" /\ Release(p) /\ Goto(p, "done") /\ UNCHANGED history
  BY <1>6, ReleaseKeeps
<1>7. CASE \E p \in Msg : Gone(p)
  BY <1>7, GoneKeeps
<1>8. CASE \E p \in Msg : Drop(p) /\ deleted' = deleted \cup {p} /\ UNCHANGED <<pc, left>>
  BY <1>8, DropKeeps
<1>9. CASE Cancel /\ UNCHANGED <<pc, history>>
  BY <1>9, CancelKeeps
<1> QED
  BY <1>1, <1>2, <1>3, <1>4, <1>5, <1>6, <1>7, <1>8, <1>9 DEF QueueStep

LEMMA QueueInvariant == Spec => []QueueInv
BY QueueInvInit, QueueInvStep, PTL DEF Spec

(* Where no caller leaves, nothing of the queue is left when the last slot *)
(* has gone, through cancellations, deletions and prompts that were        *)
(* cancelled while they waited (`enqueue` and `cancel` in prompt-queue.ts).*)
THEOREM NothingKept == Spec => []QueueForgotten
<1>1. ASSUME QueueInv PROVE QueueForgotten
  <2>1. SUFFICES ASSUME left = {}, \A p \in Msg : ~HasSlot(p)
                 PROVE  Forgotten
    BY DEF QueueForgotten, Forgotten
  <2>2. tail = NoMsg
    BY <1>1, <2>1 DEF QueueInv, QueueTypes, QueueTypeOK, Slots
  <2> QED
    BY <1>1, <2>1, <2>2 DEF QueueInv, Ordered, Remembered
<1> QED
  BY <1>1, QueueInvariant, PTL

(* Where no caller leaves, a prompt takes over only as the first of those  *)
(* that hold a slot, and never after it was deleted, however many prompts, *)
(* cancellations and deletions there are (the chain of `tails` and         *)
(* `isCancelled` in prompt-queue.ts).                                      *)
THEOREM OrderOfArrival == Spec => QueueOrder
<1> DEFINE InOrder(p) == /\ \A q \in Msg : HasSlot(q) => slot[p].seq <= slot[q].seq
                         /\ p \notin deleted
           Kept == left = {} => \A p \in Msg : Activate(p) => InOrder(p)
<1>1. ASSUME QueueInv PROVE Kept
  <2>1. SUFFICES ASSUME left = {}, NEW p \in Msg, Activate(p) PROVE InOrder(p)
    OBVIOUS
  <2>2. Chained /\ Deleted /\ QueueTypeOK
    BY <1>1, <2>1 DEF QueueInv, QueueTypes, Ordered
  <2>3. HasSlot(p) /\ Settled(p) /\ ~IsCancelled(p) /\ pc[p] = "queued"
    BY <2>1 DEF Activate, TakeOver
  <2>4. ASSUME NEW q \in Msg, HasSlot(q) PROVE slot[p].seq <= slot[q].seq
    <3>1. ~(slot[q].seq < slot[p].seq)
      BY <2>2, <2>3, <2>4 DEF Chained, Settled
    <3>2. slot[q].seq \in Nat /\ slot[p].seq \in Nat
      BY <2>2 DEF QueueTypeOK
    <3> QED
      BY <3>1, <3>2
  <2>5. p \notin deleted
    BY <2>2, <2>3 DEF Deleted
  <2> QED
    BY <2>4, <2>5
<1>2. QueueInv => [Kept]_vars
  BY <1>1
<1> QED
  BY <1>2, QueueInvariant, PTL DEF QueueOrder

-----------------------------------------------------------------------------
\* Types.

(* As many cancellations are under way as the control record says, so that *)
(* its count is never negative.                                            *)
UnderWay == {k \in Canceller : kpc[k] \notin {"new", "over"}}

Counted == control.stopping = Cardinality(UnderWay)

LEMMA RunnerOfType ==
  ASSUME RunStateTypeOK, NEW c \in Caller
  PROVE  RunnerOf(c) \in Runner
BY DEF RunStateTypeOK, RunnerOf, Runner

LEMMA EnsureTypes ==
  ASSUME RunStateTypeOK, NEW p \in Loop, NEW valid \in BOOLEAN,
         WaitForRunner(p) \/ Refuse(p, valid) \/ Join(p, valid) \/ Start(p, valid) \/ Pend(p, valid)
  PROVE  RunStateTypeOK'
<1>1. p \in Caller /\ RunnerOf(p) \in Runner
  BY RunnerOfType DEF Caller
<1>2. Register(p) => registered' \in Runner \cup {Nobody}
  BY <1>1 DEF Register, RunStateTypeOK
<1>3. CASE WaitForRunner(p)
  BY <1>1, <1>3 DEF WaitForRunner, RunStateTypeOK, registry
<1>4. CASE Refuse(p, valid)
  BY <1>1, <1>2, <1>4 DEF Refuse, RunStateTypeOK
<1>5. CASE Join(p, valid)
  <2> DEFINE r == RunnerOf(p)
  <2>1. loop[r] \in Loop
    BY <1>1, <1>5 DEF Join, RunStateTypeOK
  <2> HIDE DEF r
  <2>2. /\ joined' = [joined EXCEPT ![p] = loop[r]] /\ at' = [at EXCEPT ![p] = Nobody]
        /\ UNCHANGED <<loop, shell, holder, work, status, victims, kpc>> /\ Register(p)
    BY <1>5 DEF Join, r
  <2> QED
    BY <1>1, <1>2, <2>1, <2>2 DEF RunStateTypeOK
<1>6. ASSUME NEW where \in {"starting", "pending"}, Begin(p, valid, where) PROVE RunStateTypeOK'
  <2> DEFINE r == RunnerOf(p)
  <2> HIDE DEF r
  <2>1. /\ loop' = [loop EXCEPT ![r] = p] /\ work' = [work EXCEPT ![p] = where]
        /\ joined' = [joined EXCEPT ![p] = p] /\ at' = [at EXCEPT ![p] = r]
        /\ UNCHANGED <<shell, holder, status, victims, kpc>> /\ Register(p)
    BY <1>6 DEF Begin, r
  <2>2. r \in Runner
    BY <1>1 DEF r
  <2> QED
    BY <1>1, <1>2, <2>1, <2>2 DEF RunStateTypeOK, WorkStates
<1> QED
  BY <1>3, <1>4, <1>5, <1>6 DEF Start, Pend

LEMMA LoopTypes ==
  ASSUME RunStateTypeOK, NEW p \in Loop, PublishBusy(p) \/ SetIdle(p) \/ FinishLoop(p)
  PROVE  RunStateTypeOK'
<1>1. p \in Caller
  BY DEF Caller
<1>2. CASE PublishBusy(p) \/ SetIdle(p)
  BY <1>1, <1>2 DEF PublishBusy, SetIdle, registry, RunStateTypeOK, WorkStates
<1>3. CASE FinishLoop(p)
  BY <1>1, <1>3 DEF FinishLoop, Finish, RunStateTypeOK, WorkStates
<1> QED
  BY <1>2, <1>3

LEMMA ShellTypes ==
  ASSUME RunStateTypeOK, NEW c \in Shell,
         WaitForRunner(c) \/ Reject(c) \/ Take(c) \/ Fork(c) \/ Ready(c) \/ FinishShell(c) \/ HandToLoop(c) \/ SetIdle(c)
  PROVE  RunStateTypeOK'
<1>1. c \in Caller /\ RunnerOf(c) \in Runner
  BY RunnerOfType DEF Caller
<1>2. CASE WaitForRunner(c)
  BY <1>1, <1>2 DEF WaitForRunner, RunStateTypeOK, registry
<1>3. CASE Reject(c)
  BY <1>1, <1>3 DEF Reject, RunStateTypeOK, registry, WorkStates
<1>4. CASE Take(c)
  <2> DEFINE r == RunnerOf(c)
  <2>1. Register(c) => registered' \in Runner \cup {Nobody}
    BY <1>1 DEF Register, RunStateTypeOK
  <2> HIDE DEF r
  <2>2. /\ holder' = [holder EXCEPT ![r] = c] /\ at' = [at EXCEPT ![c] = r] /\ Register(c)
        /\ UNCHANGED <<loop, shell, joined, work, status, victims, kpc>>
    BY <1>4 DEF Take, r
  <2>3. r \in Runner
    BY <1>1 DEF r
  <2> QED
    BY <1>1, <2>1, <2>2, <2>3 DEF RunStateTypeOK
<1>5. CASE Fork(c)
  <2> DEFINE r == at[c]
  <2> HIDE DEF r
  <2>1. /\ holder' = [holder EXCEPT ![r] = Nobody] /\ shell' = [shell EXCEPT ![r] = c]
        /\ work' = [work EXCEPT ![c] = "starting"] /\ status' = "busy"
        /\ UNCHANGED <<registered, loop, at, joined, victims, kpc>>
    BY <1>5 DEF Fork, r
  <2> QED
    BY <1>1, <2>1 DEF RunStateTypeOK, WorkStates
<1>6. CASE Ready(c)
  <2>1. PICK s \in WorkStates : work' = [work EXCEPT ![c] = s]
    BY <1>6 DEF Ready, WorkStates
  <2> QED
    BY <1>1, <1>6, <2>1 DEF Ready, RunStateTypeOK, registry
<1>7. CASE FinishShell(c)
  BY <1>1, <1>7 DEF FinishShell, Finish, RunStateTypeOK, WorkStates
<1>8. CASE HandToLoop(c)
  <2> DEFINE r == at[c]
  <2> HIDE DEF r
  <2>1. /\ shell' = [shell EXCEPT ![r] = Nobody]
        /\ work' = [work EXCEPT ![c] = "over", ![loop[r]] = "starting"]
        /\ UNCHANGED <<registered, loop, holder, at, joined, status, victims, kpc>>
    BY <1>8 DEF HandToLoop, r
  <2>2. work' \in [Caller -> WorkStates]
    BY <2>1 DEF RunStateTypeOK, WorkStates
  <2> QED
    BY <1>1, <2>1, <2>2 DEF RunStateTypeOK
<1>9. CASE SetIdle(c)
  BY <1>1, <1>9 DEF SetIdle, registry, RunStateTypeOK, WorkStates
<1> QED
  BY <1>2, <1>3, <1>4, <1>5, <1>6, <1>7, <1>8, <1>9

LEMMA CancelTypes ==
  ASSUME RunStateTypeOK, NEW k \in Canceller,
         CancelWaits(k) \/ CancelNone(k) \/ CancelIdle(k) \/ CancelActive(k) \/ Stopped(k) \/ SetStopped(k)
  PROVE  /\ RunStateTypeOK'
         /\ UnderWay' = UnderWay
<1>1. CASE CancelWaits(k)
  BY <1>1 DEF CancelWaits, WaitForRunner, RunStateTypeOK, registry, UnderWay
<1>2. CASE CancelNone(k) \/ CancelIdle(k)
  BY <1>2 DEF CancelNone, CancelIdle, RunStateTypeOK, registry, works, UnderWay
<1>3. CASE CancelActive(k)
  <2> DEFINE r == Target(k)
             found == {loop[r], shell[r]} \ {Nobody}
  <2>1. found \subseteq Caller
    <3>1. r \in Runner
      BY <1>3 DEF CancelActive, Target, RunStateTypeOK
    <3> QED
      BY <3>1 DEF RunStateTypeOK, Caller
  <2>2. \A c \in Caller : Off(c) \in WorkStates
    BY DEF Off, WorkStates
  <2> HIDE DEF r, found
  <2>3. /\ loop' = [loop EXCEPT ![r] = Nobody] /\ shell' = [shell EXCEPT ![r] = Nobody]
        /\ work' = [c \in Caller |-> IF c \in found THEN Off(c) ELSE work[c]]
        /\ victims' = [victims EXCEPT ![k] = found]
        /\ kpc[k] = "runner" /\ kpc' = [kpc EXCEPT ![k] = "stopping"]
        /\ UNCHANGED <<registered, holder, at, joined, status>>
    BY <1>3 DEF CancelActive, r, found
  <2>4. work' \in [Caller -> WorkStates]
    BY <2>2, <2>3 DEF RunStateTypeOK
  <2>5. UnderWay' = UnderWay
    BY <2>3 DEF UnderWay, RunStateTypeOK
  <2> QED
    BY <2>1, <2>3, <2>4, <2>5 DEF RunStateTypeOK
<1>4. CASE Stopped(k)
  <2>1. /\ work' = [c \in Caller |-> IF c \in victims[k] THEN "over" ELSE work[c]]
        /\ victims' = [victims EXCEPT ![k] = {}] /\ kpc[k] = "stopping"
        /\ registered' \in {registered, Nobody}
        /\ \E s \in {"status", "end"} : kpc' = [kpc EXCEPT ![k] = s]
        /\ UNCHANGED <<loop, shell, holder, at, joined, status>>
    BY <1>4 DEF Stopped
  <2>2. work' \in [Caller -> WorkStates]
    BY <2>1 DEF RunStateTypeOK, WorkStates
  <2>3. UnderWay' = UnderWay
    BY <2>1 DEF UnderWay, RunStateTypeOK
  <2> QED
    BY <2>1, <2>2, <2>3 DEF RunStateTypeOK
<1>5. CASE SetStopped(k)
  BY <1>5 DEF SetStopped, RunStateTypeOK, registry, works, UnderWay
<1> QED
  BY <1>1, <1>2, <1>3, <1>4, <1>5

RunInv ==
  /\ RunStateTypeOK
  /\ control \in [version : Nat, paused : BOOLEAN, stopping : Nat]
  /\ ticket \in [Msg -> Ticket]
  /\ left \subseteq Leavers
  /\ Counted

LEMMA RunInvInit ==
  ASSUME Init
  PROVE  RunInv
<1>1. RunStateTypeOK
  BY DEF Init, RunStateInit, RunStateTypeOK, WorkStates
<1>2. UnderWay = {}
  BY DEF Init, RunStateInit, UnderWay
<1>3. Counted
  BY <1>2, FS_EmptySet DEF Init, Counted
<1> QED
  BY <1>1, <1>3 DEF Init, RunInv, Ticket

(* The record and the count stay as they are, and so do the types of a     *)
(* runner's step.                                                          *)
LEMMA RunOnly ==
  ASSUME RunInv, RunStateTypeOK', kpc' = kpc \/ UnderWay' = UnderWay, UNCHANGED <<control, ticket>>,
         left' \subseteq Leavers
  PROVE  RunInv'
<1>1. UnderWay' = UnderWay
  BY DEF UnderWay
<1> QED
  BY <1>1 DEF RunInv, Counted

LEMMA RunInvStep ==
  ASSUME RunInv, [Next]_vars
  PROVE  RunInv'
<1> USE PromptsAreLoops DEF RunInv
<1>1. CASE UNCHANGED vars
  BY <1>1 DEF vars, history, runState, registry, works, RunStateTypeOK, Counted, UnderWay
<1>2. ASSUME NEW p \in Msg, PromptStep(p) \/ Abandon(p) \/ Delete(p)
      PROVE  RunInv'
  <2>1. ASSUME UNCHANGED runState PROVE RunStateTypeOK' /\ UnderWay' = UnderWay
    BY <2>1 DEF runState, registry, works, RunStateTypeOK, UnderWay
  <2>2. CASE BeginHuman(p) \/ BeginSynthetic(p)
    <3>1. RunStateTypeOK' /\ UnderWay' = UnderWay /\ UNCHANGED history
      BY <2>1, <2>2 DEF BeginHuman, BeginSynthetic
    <3>2. control' \in [version : Nat, paused : BOOLEAN, stopping : Nat] /\ control'.stopping = control.stopping
      BY <2>2 DEF BeginHuman, BeginSynthetic
    <3>3. ticket' \in [Msg -> Ticket]
      <4>1. control.version \in Nat /\ control.paused \in BOOLEAN
        OBVIOUS
      <4>2. PICK paused \in BOOLEAN :
              ticket' = [ticket EXCEPT ![p] = [version |-> control.version, paused |-> paused]]
        BY <2>2, <4>1 DEF BeginHuman, BeginSynthetic
      <4>3. [version |-> control.version, paused |-> paused] \in Ticket
        BY <4>1 DEF Ticket
      <4> QED
        BY <4>2, <4>3
    <3> QED
      BY <3>1, <3>2, <3>3 DEF Counted, history
  <2>3. CASE Queue(p) \/ Park(p) \/ Activate(p) \/ Skip(p) \/ Decline(p) \/ Answered(p) \/ Leave(p) \/ Delete(p)
    <3>1. UNCHANGED <<runState, control, ticket, left>>
      BY <2>3 DEF Queue, Park, Activate, Skip, Decline, Answered, Leave, Delete, history
    <3> QED
      BY <2>1, <3>1, RunOnly
  <2>4. CASE Ensure(p)
    <3>1. Running(p) \in BOOLEAN
      BY DEF Running, Current, Ticket
    <3>2. RunStateTypeOK' /\ UNCHANGED <<control, ticket, left>>
      BY <2>4, <3>1, EnsureTypes DEF Ensure, history
    <3>3. UNCHANGED kpc
      BY <2>4 DEF Ensure, WaitForRunner, Refuse, Join, Start, Pend, Begin
    <3> QED
      BY <3>2, <3>3, RunOnly
  <2>5. CASE Abandon(p)
    <3>1. RunStateTypeOK'
      BY <2>5 DEF Abandon, registry, RunStateTypeOK
    <3>2. UNCHANGED <<control, ticket, kpc>> /\ left' \subseteq Leavers
      BY <2>5 DEF Abandon
    <3> QED
      BY <3>1, <3>2, RunOnly
  <2> QED
    BY <1>2, <2>2, <2>3, <2>4, <2>5 DEF PromptStep
<1>3. ASSUME NEW p \in Msg, LoopStep(p) \/ EndTurn(p) \/ HandOver(p)
      PROVE  RunInv'
  <2>1. PublishBusy(p) \/ SetIdle(p) \/ FinishLoop(p)
    BY <1>3 DEF LoopStep, EndTurn, HandOver
  <2>2. RunStateTypeOK'
    BY <2>1, LoopTypes
  <2>3. UNCHANGED kpc
    BY <2>1 DEF PublishBusy, SetIdle, FinishLoop, Finish
  <2>4. UNCHANGED <<control, ticket, left>>
    BY <1>3 DEF LoopStep, EndTurn, HandOver, others, history
  <2> QED
    BY <2>2, <2>3, <2>4, RunOnly
<1>4. ASSUME NEW c \in Shell, StartShell(c) \/ ShellStep(c)
      PROVE  RunInv'
  <2>1. WaitForRunner(c) \/ Reject(c) \/ Take(c) \/ Fork(c) \/ Ready(c) \/ FinishShell(c) \/ HandToLoop(c) \/ SetIdle(c)
    BY <1>4 DEF StartShell, ShellStep
  <2>2. RunStateTypeOK'
    BY <2>1, ShellTypes
  <2>3. UNCHANGED kpc
    BY <2>1 DEF WaitForRunner, Reject, Take, Fork, Ready, FinishShell, Finish, HandToLoop, SetIdle
  <2>4. UNCHANGED <<control, ticket, left>>
    BY <1>4 DEF StartShell, ShellStep, others, history
  <2> QED
    BY <2>2, <2>3, <2>4, RunOnly
<1>5. ASSUME NEW k \in Canceller, Stop(k) \/ CancelStep(k)
      PROVE  RunInv'
  <2>1. IsFiniteSet(UnderWay)
    BY FiniteCancellers, FS_Subset DEF UnderWay
  <2>2. CASE Stop(k)
    <3>1. UnderWay' = UnderWay \cup {k} /\ k \notin UnderWay
      BY <2>2 DEF Stop, UnderWay, RunStateTypeOK
    <3>2. Cardinality(UnderWay') = Cardinality(UnderWay) + 1
      BY <2>1, <3>1, FS_AddElement
    <3>3. /\ control' = [version |-> control.version + 1, paused |-> TRUE, stopping |-> control.stopping + 1]
          /\ kpc' = [kpc EXCEPT ![k] = "stopped"]
          /\ UNCHANGED <<registry, works, status, victims, ticket, history>>
      BY <2>2 DEF Stop
    <3>4. RunStateTypeOK'
      BY <3>3 DEF registry, works, RunStateTypeOK
    <3> QED
      BY <3>2, <3>3, <3>4 DEF Counted, history
  <2>3. CASE StopEnd(k)
    <3>1. UnderWay' = UnderWay \ {k} /\ k \in UnderWay
      BY <2>3 DEF StopEnd, UnderWay, RunStateTypeOK
    <3>2. Cardinality(UnderWay') = Cardinality(UnderWay) - 1
      BY <2>1, <3>1, FS_RemoveElement
    <3>3. Cardinality(UnderWay') \in Nat
      BY <2>1, <3>1, FS_Subset, FS_CardinalityType
    <3>4. /\ control' = [control EXCEPT !.stopping = @ - 1]
          /\ kpc' = [kpc EXCEPT ![k] = "over"]
          /\ UNCHANGED <<registry, works, status, victims, ticket, history>>
      BY <2>3 DEF StopEnd
    <3>5. RunStateTypeOK'
      BY <3>4 DEF registry, works, RunStateTypeOK
    <3> QED
      BY <3>2, <3>3, <3>4, <3>5 DEF Counted, history
  <2>4. CASE CancelQueue(k)
    <3>1. RunStateTypeOK' /\ UnderWay' = UnderWay
      BY <2>4 DEF CancelQueue, RunStateTypeOK, UnderWay, registry, works
    <3> QED
      BY <2>4, <3>1, RunOnly DEF CancelQueue, history
  <2>5. CASE CancelRunner(k) \/ FinishCancel(k)
    <3>1. RunStateTypeOK' /\ UnderWay' = UnderWay
      BY <2>5, CancelTypes DEF CancelRunner, FinishCancel
    <3> QED
      BY <2>5, <3>1, RunOnly DEF CancelRunner, FinishCancel, others, history
  <2> QED
    BY <1>5, <2>2, <2>3, <2>4, <2>5 DEF CancelStep
<1> QED
  BY <1>1, <1>2, <1>3, <1>4, <1>5 DEF Next

(* Every variable keeps its type; the number of cancellations under way is *)
(* never negative.                                                         *)
THEOREM TypeCorrect == Spec => []TypeOK
<1>1. RunInv /\ QueueInv => TypeOK
  BY DEF RunInv, QueueInv, QueueTypes, TypeOK
<1>2. Spec => []RunInv
  BY RunInvInit, RunInvStep, PTL DEF Spec
<1> QED
  BY <1>1, <1>2, QueueInvariant, PTL

-----------------------------------------------------------------------------
\* With at most one shell: one loop or shell, and stops that are final.

OneShell == \A c, d \in Shell : c = d

(* Where a shell is: it publishes that the session is busy, under the      *)
(* semaphore; it is live; or it has been taken off and is being stopped.   *)
Publishing(s) == work[s] = "none" /\ at[s] # Nobody
TakenOff(s) == work[s] \in {"doomed", "stopping"}
Engaged(s) == Publishing(s) \/ Live(s) \/ TakenOff(s)

(* A loop or a canceller that waits for a runner.                          *)
AtDoor(x) == at[x] # Nobody /\ IF x \in Canceller THEN kpc[x] = "runner" ELSE work[x] = "none"

(* A prompt brings its work when it asks for a loop, a canceller looks the *)
(* runner up when it gets there, and what it takes off was on one runner.  *)
Brought ==
  /\ \A p \in Loop : pc[p] \in {"new", "begun", "queued", "active"} => work[p] = "none"
  /\ \A k \in Canceller : kpc[k] \in {"new", "stopped"} => at[k] = Nobody
  /\ \A k \in Canceller : \A c \in victims[k] : work[c] # "none"
  /\ \A k \in Canceller : \A c, d \in victims[k] : at[c] = at[d]

(* Only a runner the shell has come to is waited for.                      *)
Doors == \A x \in Loop \cup Canceller : AtDoor(x) => \E s \in Shell : Engaged(s) /\ at[x] = at[s]

(* A shell holds, or is on, the registered runner until it is taken off.   *)
ShellRunner ==
  /\ \A r \in Runner : holder[r] # Nobody => Publishing(holder[r]) /\ at[holder[r]] = r
  /\ \A r \in Runner : shell[r] # Nobody => Live(shell[r]) /\ at[shell[r]] = r
  /\ \A s \in Shell : Publishing(s) => holder[at[s]] = s /\ registered = at[s] /\ \A r \in Runner : loop[r] = Nobody
  /\ \A s \in Shell : Live(s) => at[s] # Nobody /\ registered = at[s] /\ shell[at[s]] = s
  /\ \A s \in Shell : TakenOff(s) =>
       at[s] # Nobody /\ \E k \in Canceller : kpc[k] = "stopping" /\ s \in victims[k]

(* Only the registered runner has a loop, live or behind its shell.        *)
OneRunner ==
  /\ \A r \in Runner : loop[r] # Nobody =>
       /\ r = registered /\ at[loop[r]] = r
       /\ work[loop[r]] \in IF shell[r] = Nobody THEN {"starting", "running"} ELSE {"pending"}
  /\ \A p \in Loop : Live(p) => registered # Nobody /\ loop[registered] = p

(* While a cancellation is under way the session is paused, and while one  *)
(* waits for what it has interrupted no runner has a loop, so that its end *)
(* takes nothing of a newer loop away.                                     *)
Halted ==
  /\ control.stopping > 0 => control.paused
  /\ (\E k \in Canceller : kpc[k] = "stopping") => \A r \in Runner : loop[r] = Nobody

(* Until the shell is taken off, what a canceller waits for was on the     *)
(* runner that is still registered: it does not deregister the shell's.    *)
Anchored ==
  \A s \in Shell : work[s] = "none" \/ Live(s) =>
    /\ \A k \in Canceller : kpc[k] = "stopping" =>
         registered # Nobody /\ victims[k] # {} /\ \A c \in victims[k] : at[c] = registered
    /\ \A k, l \in Canceller : kpc[k] = "stopping" /\ kpc[l] = "stopping" => k = l

(* The loop of a runner is a current one, or a canceller is on its way.    *)
Caught ==
  \A r \in Runner : loop[r] # Nobody =>
    \/ Current(loop[r]) /\ ~control.paused
    \/ \E k \in Canceller : kpc[k] \in {"stopped", "runner"}

LoopInv ==
  Brought /\ Doors /\ ShellRunner /\ OneRunner /\ Halted /\ Anchored /\ Caught

LEMMA Kinds ==
  /\ Runner = Caller /\ Nobody \notin Runner /\ Nobody \notin Canceller
  /\ Loop \subseteq Caller /\ Shell \subseteq Caller
  /\ \A p \in Loop : p \notin Shell /\ p \notin Canceller /\ p # Nobody
  /\ \A s \in Shell : s \notin Loop /\ s \notin Canceller /\ s # Nobody
  /\ \A c \in Caller : c \in Loop \/ c \in Shell
BY NobodyAssumption, CancellersAssumption, LoopsAreNoShells DEF Runner, Caller

(* What a canceller waits for, or the shell being stopped, leaves no runner*)
(* with a work.                                                            *)
LEMMA AllIdle ==
  ASSUME OneShell, RunStateTypeOK, LoopInv, NEW s \in Shell, TakenOff(s)
  PROVE  /\ \A r \in Runner : loop[r] = Nobody /\ shell[r] = Nobody /\ holder[r] = Nobody
         /\ \E k \in Canceller : kpc[k] = "stopping"
<1>1. \A r \in Runner : loop[r] = Nobody
  BY DEF LoopInv, ShellRunner, Halted
<1>2. ASSUME NEW r \in Runner, shell[r] # Nobody PROVE FALSE
  <2>1. shell[r] \in Shell /\ Live(shell[r])
    BY <1>2 DEF LoopInv, ShellRunner, RunStateTypeOK
  <2> QED
    BY <2>1 DEF OneShell, Live, TakenOff
<1>3. ASSUME NEW r \in Runner, holder[r] # Nobody PROVE FALSE
  <2>1. holder[r] \in Shell /\ Publishing(holder[r])
    BY <1>3 DEF LoopInv, ShellRunner, RunStateTypeOK
  <2> QED
    BY <2>1 DEF OneShell, Publishing, TakenOff
<1>4. \E k \in Canceller : kpc[k] = "stopping"
  BY DEF LoopInv, ShellRunner
<1> QED
  BY <1>1, <1>2, <1>3, <1>4

(* Who waits, waits for the registered runner while any has a work.        *)
LEMMA DoorIsRegistered ==
  ASSUME OneShell, RunStateTypeOK, LoopInv, NEW x \in Loop \cup Canceller, AtDoor(x)
  PROVE  \/ at[x] = registered
         \/ /\ \A r \in Runner : loop[r] = Nobody /\ shell[r] = Nobody /\ holder[r] = Nobody
            /\ \E k \in Canceller : kpc[k] = "stopping"
<1>1. PICK s \in Shell : Engaged(s) /\ at[x] = at[s]
  BY DEF LoopInv, Doors
<1>2. CASE TakenOff(s)
  BY <1>2, AllIdle
<1>3. CASE Publishing(s) \/ Live(s)
  BY <1>1, <1>3 DEF LoopInv, ShellRunner
<1> QED
  BY <1>1, <1>2, <1>3 DEF Engaged

(* Who may enter a runner finds nobody else waiting for it, unless it has  *)
(* waited itself.                                                          *)
LEMMA NobodyAtDoor ==
  ASSUME NEW r, NEW c, Enters(c, r), ~Waits(c, r), NEW x \in Loop \cup Canceller, at[x] = r, r # Nobody
  PROVE  ~AtDoor(x)
<1>1. x \in Caller \cup Canceller /\ holder[r] = Nobody /\ ~Waits(x, r) /\ holder[r] # x
  BY Kinds DEF Enters
<1> QED
  BY <1>1 DEF Waits, AtDoor

(* A step that is not about what runners have.                             *)
LEMMA SameTables ==
  ASSUME RunStateTypeOK, LoopInv,
         UNCHANGED <<registered, loop, shell, holder, victims, kpc, control, ticket>>,
         \A c \in Caller : work'[c] = work[c] \/ (work[c] \notin {"none", "pending"} /\ work'[c] \notin {"none", "pending"}),
         \A c \in Caller : work'[c] \in {"starting", "running"} <=> Live(c),
         \A s \in Shell : work'[s] \in {"doomed", "stopping"} <=> TakenOff(s),
         \A c \in Caller : work[c] # "none" => at'[c] = at[c],
         \A s \in Shell : at'[s] = at[s],
         \A x \in Loop \cup Canceller : \/ at'[x] \in {at[x], Nobody}
                                        \/ \E s \in Shell : Engaged(s) /\ at'[x] = at[s],
         \A k \in Canceller : kpc[k] \in {"new", "stopped"} => at'[k] = at[k],
         \A p \in Loop : pc'[p] \in {"new", "begun", "queued", "active"} =>
                         pc[p] \in {"new", "begun", "queued", "active"}
  PROVE  LoopInv'
<1> USE Kinds
<1>1. \A c \in Caller : (work'[c] = "none" <=> work[c] = "none") /\ (work'[c] = "pending" <=> work[c] = "pending")
  OBVIOUS
<1>2. \A c \in Caller : Live(c)' <=> Live(c)
  BY DEF Live
<1>3. \A s \in Shell : /\ Publishing(s)' <=> Publishing(s)
                       /\ TakenOff(s)' <=> TakenOff(s)
                       /\ Engaged(s)' <=> Engaged(s)
  BY <1>1, <1>2 DEF Publishing, TakenOff, Engaged
<1>4. \A k \in Canceller : victims[k] \subseteq Caller
  BY DEF RunStateTypeOK
<1>5. Brought'
  BY <1>1, <1>4 DEF LoopInv, Brought
<1>6. Doors'
  BY <1>1, <1>3 DEF LoopInv, Doors, AtDoor
<1>7. ShellRunner'
  BY <1>2, <1>3 DEF LoopInv, ShellRunner, RunStateTypeOK
<1>8. OneRunner'
  <2>1. ASSUME NEW r \in Runner, loop[r] # Nobody
        PROVE  /\ r = registered /\ at'[loop[r]] = r
               /\ work'[loop[r]] \in IF shell[r] = Nobody THEN {"starting", "running"} ELSE {"pending"}
    <3>1. loop[r] \in Caller
      BY <2>1 DEF RunStateTypeOK
    <3>2. work[loop[r]] # "none"
      BY <2>1 DEF LoopInv, OneRunner
    <3> QED
      BY <1>1, <2>1, <3>1, <3>2 DEF LoopInv, OneRunner, Live
  <2> QED
    BY <1>2, <2>1 DEF LoopInv, OneRunner
<1>9. Halted'
  BY DEF LoopInv, Halted
<1>10. Anchored'
  <2> SUFFICES ASSUME NEW s \in Shell, work[s] = "none" \/ Live(s)
               PROVE  /\ \A k \in Canceller : kpc[k] = "stopping" =>
                           registered # Nobody /\ victims[k] # {} /\ \A c \in victims[k] : at'[c] = registered
                      /\ \A k, l \in Canceller : kpc[k] = "stopping" /\ kpc[l] = "stopping" => k = l
    BY <1>1, <1>2 DEF Anchored
  <2>1. \A k \in Canceller : \A c \in victims[k] : at'[c] = at[c]
    BY <1>4 DEF LoopInv, Brought
  <2> QED
    BY <2>1 DEF LoopInv, Anchored
<1>11. Caught'
  BY DEF LoopInv, Caught, Current
<1> QED
  BY <1>5, <1>6, <1>7, <1>8, <1>9, <1>10, <1>11 DEF LoopInv

LEMMA BeginKeeps ==
  ASSUME RunInv, QueueTypes, LoopInv, NEW p \in Msg, BeginHuman(p) \/ BeginSynthetic(p)
  PROVE  LoopInv'
<1> USE PromptsAreLoops, Kinds
<1>1. /\ pc[p] = "new" /\ pc' = [pc EXCEPT ![p] = "begun"]
      /\ UNCHANGED <<registered, loop, shell, holder, at, work, victims, kpc>>
  BY DEF BeginHuman, BeginSynthetic, Goto, runState, registry, works
<1>2. /\ control'.version = control.version /\ control'.stopping = control.stopping
      /\ control'.paused = control.paused \/ (control.stopping = 0 /\ ~control'.paused)
  BY DEF BeginHuman, BeginSynthetic, RunInv
<1>3. \A q \in Msg : q # p => ticket'[q] = ticket[q]
  BY DEF BeginHuman, BeginSynthetic, RunInv
<1>4. Brought'
  BY <1>1 DEF LoopInv, Brought, QueueTypes
<1>5. Doors' /\ ShellRunner' /\ OneRunner' /\ Anchored'
  BY <1>1 DEF LoopInv, Doors, ShellRunner, OneRunner, Anchored, Engaged, Publishing, TakenOff, AtDoor, Live
<1>6. Halted'
  BY <1>1, <1>2 DEF LoopInv, Halted
<1>7. Caught'
  <2>1. ASSUME NEW r \in Runner, loop[r] # Nobody, Current(loop[r]) /\ ~control.paused
        PROVE  Current(loop[r])' /\ ~control'.paused
    <3>1. loop[r] \in Loop
      BY <2>1 DEF RunInv, RunStateTypeOK
    <3>2. loop[r] # p
      BY <1>1, <2>1 DEF LoopInv, OneRunner, Brought
    <3> QED
      BY <1>1, <1>2, <1>3, <2>1, <3>1, <3>2 DEF Current
  <2> QED
    BY <1>1, <2>1 DEF LoopInv, Caught
<1> QED
  BY <1>4, <1>5, <1>6, <1>7 DEF LoopInv

(* A canceller or a loop that finds the semaphore taken waits for a runner *)
(* the shell has come to.                                                  *)
LEMMA WaitsForShell ==
  ASSUME OneShell, RunStateTypeOK, LoopInv, NEW x \in Caller \cup Canceller, WaitForRunner(x)
  PROVE  /\ x \notin Shell
         /\ \E s \in Shell : Engaged(s) /\ registered = at[s]
<1> USE Kinds
<1>1. /\ at[x] = Nobody /\ registered \in Runner /\ registered # Nobody /\ ~Enters(x, registered)
  BY DEF WaitForRunner, RunStateTypeOK
<1>2. \E s \in Shell : Engaged(s) /\ registered = at[s]
  <2>1. CASE holder[registered] # Nobody
    BY <1>1, <2>1 DEF LoopInv, ShellRunner, RunStateTypeOK, Engaged
  <2>2. CASE holder[registered] = Nobody
    <3>1. PICK d \in Caller \cup Canceller : Waits(d, registered)
      BY <1>1, <2>2 DEF Enters
    <3>2. CASE d \in Shell
      BY <1>1, <3>1, <3>2 DEF Waits, Engaged, Publishing
    <3>3. CASE d \in Loop \cup Canceller
      <4>1. AtDoor(d) /\ at[d] = registered
        BY <1>1, <3>1 DEF Waits, AtDoor
      <4> QED
        BY <3>3, <4>1 DEF LoopInv, Doors
    <3> QED
      BY <3>2, <3>3
  <2> QED
    BY <2>1, <2>2
<1>3. x \notin Shell
  BY <1>1, <1>2 DEF OneShell
<1> QED
  BY <1>2, <1>3

(* A ticket that is current and not paused: nobody is being stopped.       *)
LEMMA RunningAlone ==
  ASSUME RunInv, LoopInv, NEW p \in Msg, Running(p)
  PROVE  /\ \A k \in Canceller : kpc[k] # "stopping"
         /\ \A s \in Shell : ~TakenOff(s)
<1>1. control.stopping = 0
  BY DEF Running, LoopInv, Halted, RunInv
<1>2. UnderWay = {}
  <2>1. IsFiniteSet(UnderWay)
    BY FiniteCancellers, FS_Subset DEF UnderWay
  <2> QED
    BY <1>1, <2>1, FS_EmptySet DEF RunInv, Counted
<1>3. \A k \in Canceller : kpc[k] # "stopping"
  BY <1>2 DEF UnderWay
<1> QED
  BY <1>3 DEF LoopInv, ShellRunner

(* A prompt brings its loop: at once to a runner that is idle, or behind   *)
(* the shell of the registered one.                                        *)
LEMMA BeginLoop ==
  ASSUME OneShell, RunInv, QueueTypes, LoopInv, NEW p \in Msg, pc[p] = "active", Running(p),
         UNCHANGED <<control, ticket>>, pc' = [pc EXCEPT ![p] = "await"],
         Start(p, TRUE) \/ Pend(p, TRUE)
  PROVE  LoopInv'
<1> USE PromptsAreLoops, Kinds
<1> DEFINE r == RunnerOf(p)
<1>1. PICK where \in {"starting", "pending"} :
        /\ loop' = [loop EXCEPT ![r] = p] /\ work' = [work EXCEPT ![p] = where]
        /\ at' = [at EXCEPT ![p] = r]
        /\ where = "starting" <=> shell[r] = Nobody
        /\ UNCHANGED <<shell, holder, victims, kpc>>
        /\ Enters(p, r) /\ loop[r] = Nobody /\ Register(p)
  BY DEF Start, Pend, Begin
<1>2. /\ RunStateTypeOK /\ Brought /\ Doors /\ ShellRunner /\ OneRunner /\ Halted /\ Anchored /\ Caught
      /\ work[p] = "none" /\ p \in Loop /\ p \in Caller
  BY DEF RunInv, LoopInv, Brought
<1>3. /\ \A k \in Canceller : kpc[k] # "stopping"
      /\ \A s \in Shell : ~TakenOff(s)
  BY RunningAlone
<1>4. r \in Runner
  BY <1>2, RunnerOfType
<1>5. registered' = r /\ (registered # Nobody => r = registered)
  <2>1. CASE at[p] = Nobody
    BY <1>1, <2>1 DEF Register, RunnerOf
  <2>2. CASE at[p] # Nobody
    <3>1. AtDoor(p)
      BY <1>2, <2>2 DEF AtDoor
    <3>2. at[p] = registered
      BY <1>2, <1>3, <3>1, DoorIsRegistered
    <3> QED
      BY <1>1, <2>2, <3>2 DEF Register, RunnerOf
  <2> QED
    BY <2>1, <2>2
<1> HIDE DEF r
<1>6. \A q \in Runner : loop[q] = Nobody
  BY <1>1, <1>2, <1>4, <1>5 DEF OneRunner
<1>7. \A q \in Loop : ~Live(q)
  BY <1>2, <1>6 DEF OneRunner, RunStateTypeOK
<1>8. \A s \in Shell : ~Publishing(s)
  BY <1>1, <1>2, <1>4, <1>5 DEF ShellRunner, Enters, Publishing, RunStateTypeOK
<1>9. /\ work'[p] = where /\ \A c \in Caller : c # p => work'[c] = work[c]
      /\ at'[p] = r /\ \A x \in Caller \cup Canceller : x # p => at'[x] = at[x]
      /\ loop'[r] = p /\ \A q \in Runner : q # r => loop'[q] = Nobody
      /\ pc'[p] = "await" /\ \A q \in Loop : q # p => pc'[q] = pc[q]
  BY <1>1, <1>2, <1>4, <1>6 DEF RunStateTypeOK, QueueTypes
<1>10. \A s \in Shell : /\ work'[s] = work[s] /\ at'[s] = at[s]
                        /\ Live(s)' <=> Live(s)
                        /\ Publishing(s)' <=> Publishing(s)
                        /\ TakenOff(s)' <=> TakenOff(s)
                        /\ Engaged(s)' <=> Engaged(s)
  BY <1>9 DEF Live, Publishing, TakenOff, Engaged
<1>11. Brought'
  <2>1. \A k \in Canceller : \A c \in victims[k] : c \in Caller /\ work'[c] # "none" /\ at'[c] = at[c]
    BY <1>2, <1>9 DEF Brought, RunStateTypeOK
  <2> QED
    BY <1>1, <1>2, <1>9, <2>1 DEF Brought
<1>12. Doors'
  BY <1>1, <1>2, <1>9, <1>10 DEF Doors, AtDoor
<1>13. ShellRunner'
  <2>1. \A q \in Runner : holder[q] = Nobody
    BY <1>2, <1>8 DEF ShellRunner, RunStateTypeOK
  <2>2. \A s \in Shell : Live(s) => registered' = registered
    BY <1>2, <1>5 DEF ShellRunner
  <2> QED
    BY <1>1, <1>2, <1>3, <1>8, <1>10, <2>1, <2>2 DEF ShellRunner, RunStateTypeOK
<1>14. OneRunner'
  <2>1. \A q \in Loop : Live(q)' => q = p
    BY <1>7, <1>9 DEF Live
  <2>2. ASSUME NEW q \in Runner, loop'[q] # Nobody
        PROVE  /\ q = registered' /\ at'[loop'[q]] = q
               /\ work'[loop'[q]] \in IF shell'[q] = Nobody THEN {"starting", "running"} ELSE {"pending"}
    <3>1. q = r /\ loop'[q] = p
      BY <1>9, <2>2
    <3> QED
      BY <1>1, <1>5, <1>9, <3>1
  <2>3. registered' # Nobody /\ loop'[registered'] = p
    BY <1>4, <1>5, <1>9
  <2> QED
    BY <2>1, <2>2, <2>3 DEF OneRunner
<1>15. Halted' /\ Anchored'
  BY <1>1, <1>2, <1>3 DEF Halted, Anchored
<1>16. Caught'
  BY <1>9, <1>2 DEF Caught, Running, Current
<1> QED
  BY <1>11, <1>12, <1>13, <1>14, <1>15, <1>16 DEF LoopInv

LEMMA EnsureKeeps ==
  ASSUME OneShell, RunInv, QueueTypes, LoopInv, NEW p \in Msg, Ensure(p)
  PROVE  LoopInv'
<1> USE PromptsAreLoops, Kinds
<1>1. /\ RunStateTypeOK /\ Brought /\ OneRunner
      /\ pc[p] = "active" /\ work[p] = "none" /\ p \in Loop /\ p \in Caller
      /\ UNCHANGED <<queue, control, ticket, history>>
  BY DEF RunInv, LoopInv, Ensure, Brought
<1>2. Running(p) \in BOOLEAN
  BY DEF Running, Current, RunInv, Ticket
<1>3. ASSUME pc' = pc \/ pc' = [pc EXCEPT ![p] = "leaving"] \/ pc' = [pc EXCEPT ![p] = "await"]
      PROVE  \A q \in Loop : pc'[q] \in {"new", "begun", "queued", "active"} =>
                             pc[q] \in {"new", "begun", "queued", "active"}
  BY <1>3 DEF QueueTypes
<1>4. CASE WaitForRunner(p) /\ Goto(p, "active")
  <2>1. /\ UNCHANGED <<registered, loop, shell, holder, work, victims, kpc>>
        /\ at' = [at EXCEPT ![p] = registered] /\ pc' = pc
    BY <1>1, <1>4 DEF WaitForRunner, registry, Goto, QueueTypes
  <2>2. PICK s \in Shell : Engaged(s) /\ registered = at[s]
    BY <1>1, <1>4, WaitsForShell
  <2>3. /\ at'[p] = at[s] /\ \A x \in Caller \cup Canceller : x # p => at'[x] = at[x]
    BY <1>1, <2>1, <2>2 DEF RunStateTypeOK
  <2> QED
    BY <1>1, <1>3, <2>1, <2>2, <2>3, SameTables DEF Live, TakenOff
<1>5. CASE Refuse(p, Running(p)) /\ Goto(p, "leaving")
  <2>1. /\ UNCHANGED <<loop, shell, holder, work, victims, kpc>> /\ Register(p)
        /\ at' = [at EXCEPT ![p] = Nobody] /\ pc' = [pc EXCEPT ![p] = "leaving"]
    BY <1>5 DEF Refuse, Goto
  <2>2. \A x \in Caller \cup Canceller : at'[x] = IF x = p THEN Nobody ELSE at[x]
    BY <1>1, <2>1 DEF RunStateTypeOK
  <2>3. CASE registered' = registered
    BY <1>1, <1>3, <2>1, <2>2, <2>3, SameTables DEF Live, TakenOff
  <2>4. CASE registered' # registered
    <3>1. registered = Nobody /\ at[p] = Nobody
      BY <2>1, <2>4 DEF Register, RunnerOf
    <3>2. at' = at
      BY <1>1, <2>1, <3>1 DEF RunStateTypeOK
    <3>3. \A r \in Runner : loop[r] = Nobody
      BY <1>1, <3>1 DEF OneRunner
    <3>4. Brought' /\ Doors' /\ Halted' /\ Caught'
      BY <1>1, <1>3, <2>1, <3>2, <3>3 DEF LoopInv, Brought, Doors, AtDoor, Engaged, Publishing, TakenOff, Live,
                                          Halted, Caught
    <3>5. ShellRunner' /\ OneRunner'
      BY <2>1, <3>1, <3>2, <3>3 DEF LoopInv, ShellRunner, OneRunner, Publishing, TakenOff, Live
    <3>6. Anchored'
      BY <2>1, <3>1, <3>2 DEF LoopInv, ShellRunner, Anchored, Live
    <3> QED
      BY <3>4, <3>5, <3>6 DEF LoopInv
  <2> QED
    BY <2>3, <2>4
<1>6. CASE Join(p, Running(p)) /\ Goto(p, "await")
  <2>1. /\ UNCHANGED <<loop, shell, holder, work, victims, kpc>> /\ Register(p)
        /\ at' = [at EXCEPT ![p] = Nobody] /\ pc' = [pc EXCEPT ![p] = "await"]
        /\ loop[RunnerOf(p)] # Nobody
    BY <1>6 DEF Join, Goto
  <2>2. \A x \in Caller \cup Canceller : at'[x] = IF x = p THEN Nobody ELSE at[x]
    BY <1>1, <2>1 DEF RunStateTypeOK
  <2>3. registered' = registered
    BY <1>1, <2>1, RunnerOfType DEF Register, OneRunner
  <2> QED
    BY <1>1, <1>3, <2>1, <2>2, <2>3, SameTables DEF Live, TakenOff
<1>7. CASE (Start(p, Running(p)) \/ Pend(p, Running(p))) /\ Goto(p, "await")
  <2>1. Running(p)
    BY <1>7 DEF Start, Pend, Begin
  <2>2. Running(p) = TRUE
    BY <1>2, <2>1
  <2>3. Start(p, TRUE) \/ Pend(p, TRUE)
    BY <1>7, <2>1 DEF Start, Pend, Begin
  <2>4. pc' = [pc EXCEPT ![p] = "await"] /\ UNCHANGED <<control, ticket>>
    BY <1>1, <1>7 DEF Goto
  <2> QED
    BY <1>1, <2>1, <2>3, <2>4, BeginLoop
<1> QED
  BY <1>4, <1>5, <1>6, <1>7 DEF Ensure

(* The steps of the prompts that are about neither tickets nor runners.    *)
LEMMA OthersKeep ==
  ASSUME RunInv, QueueTypes, LoopInv, NEW p \in Msg,
         \/ Queue(p) \/ Park(p) \/ Activate(p) \/ Skip(p) \/ Decline(p)
         \/ Answered(p) \/ Leave(p) \/ Abandon(p) \/ Delete(p)
  PROVE  LoopInv'
<1> USE PromptsAreLoops, Kinds
<1>1. RunStateTypeOK /\ p \in Loop
  BY DEF RunInv
<1>2. UNCHANGED <<registered, loop, shell, holder, victims, control, ticket, kpc, work>>
  BY DEF Queue, Park, Activate, Skip, Decline, Answered, Leave, Abandon, Delete, runState, registry, works
<1>3. at' = at \/ (pc[p] = "active" /\ at' = [at EXCEPT ![p] = Nobody])
  BY DEF Queue, Park, Activate, Skip, Decline, Answered, Leave, Abandon, Delete, runState, works
<1>4. /\ \A x \in Caller \cup Canceller : x # p => at'[x] = at[x]
      /\ at'[p] = at[p] \/ (at'[p] = Nobody /\ work[p] = "none")
  BY <1>1, <1>3 DEF RunStateTypeOK, LoopInv, Brought
<1>5. \A q \in Loop : pc'[q] \in {"new", "begun", "queued", "active"} =>
                      pc[q] \in {"new", "begun", "queued", "active"}
  <2>1. pc' = pc \/ \E s \in PromptStates : pc' = [pc EXCEPT ![p] = s] /\ pc[p] # "done"
    BY DEF Queue, Park, Activate, Skip, Decline, Answered, Leave, Abandon, Delete, Goto, PromptStates
  <2>2. pc[p] \in {"await", "leaving"} => pc'[p] \notin {"new", "begun", "queued", "active"}
    BY DEF Queue, Park, Activate, Skip, Decline, Answered, Leave, Abandon, Delete, Goto, QueueTypes
  <2> QED
    BY <2>1, <2>2 DEF QueueTypes, PromptStates
<1> QED
  BY <1>1, <1>2, <1>4, <1>5, SameTables DEF Live, TakenOff

LEMMA LoopKeeps ==
  ASSUME OneShell, RunInv, LoopInv, NEW p \in Msg, LoopStep(p) \/ EndTurn(p) \/ HandOver(p)
  PROVE  LoopInv'
<1> USE PromptsAreLoops, Kinds
<1>1. RunStateTypeOK /\ p \in Caller /\ p \in Loop /\ UNCHANGED <<control, ticket, pc>>
  BY DEF RunInv, LoopStep, EndTurn, HandOver, others
<1>2. CASE PublishBusy(p) \/ SetIdle(p)
  <2>1. /\ UNCHANGED <<registered, loop, shell, holder, at, victims, kpc>>
        /\ \/ work[p] = "starting" /\ work' = [work EXCEPT ![p] = "running"]
           \/ work[p] = "idling" /\ work' = [work EXCEPT ![p] = "over"]
    BY <1>2 DEF PublishBusy, SetIdle, registry
  <2>2. \A c \in Caller : /\ work'[c] \in {"starting", "running"} <=> Live(c)
                          /\ work'[c] = work[c] \/
                             (work[c] \notin {"none", "pending"} /\ work'[c] \notin {"none", "pending"})
                          /\ c # p => work'[c] = work[c]
    BY <1>1, <2>1 DEF Live, RunStateTypeOK
  <2> QED
    BY <1>1, <2>1, <2>2, SameTables DEF TakenOff
<1>3. CASE FinishLoop(p)
  <2> DEFINE r == at[p]
  <2>1. /\ work[p] = "running" /\ work' = [work EXCEPT ![p] = "idling"]
        /\ loop' = [loop EXCEPT ![r] = Nobody] /\ shell' = [shell EXCEPT ![r] = Nobody]
        /\ registered' = Nobody /\ Enters(p, r)
        /\ UNCHANGED <<holder, at, victims, kpc>>
    BY <1>3 DEF FinishLoop, Finish
  <2>2. /\ registered \in Runner /\ loop[registered] = p /\ r = registered /\ registered # Nobody
        /\ shell[registered] = Nobody
    BY <1>1, <2>1 DEF LoopInv, OneRunner, RunStateTypeOK, Live
  <2> HIDE DEF r
  <2>3. \A k \in Canceller : kpc[k] # "stopping"
    BY <2>2 DEF LoopInv, Halted
  <2>4. \A s \in Shell : ~Engaged(s)
    BY <2>2, <2>3 DEF LoopInv, ShellRunner, Engaged
  <2>5. \A q \in Runner : loop'[q] = Nobody /\ holder[q] = Nobody /\ shell[q] = Nobody /\ shell'[q] = Nobody
    BY <1>1, <2>1, <2>2, <2>4 DEF LoopInv, OneRunner, ShellRunner, RunStateTypeOK, Engaged
  <2>6. /\ work'[p] = "idling" /\ \A c \in Caller : c # p => work'[c] = work[c]
    BY <1>1, <2>1 DEF RunStateTypeOK
  <2>7. \A q \in Loop : ~Live(q)'
    <3>1. \A q \in Loop : q # p => ~Live(q)
      BY <2>2 DEF LoopInv, OneRunner
    <3> QED
      BY <2>6, <3>1 DEF Live
  <2>8. \A s \in Shell : ~Engaged(s)'
    BY <2>1, <2>4, <2>6 DEF Engaged, Publishing, Live, TakenOff
  <2>9. Brought'
    BY <1>1, <2>1, <2>6 DEF LoopInv, Brought, RunStateTypeOK
  <2>10. Doors'
    BY <2>1, <2>4, <2>6 DEF LoopInv, Doors, AtDoor
  <2>11. ShellRunner'
    BY <2>1, <2>5, <2>8 DEF ShellRunner, Engaged
  <2>12. OneRunner' /\ Caught'
    BY <2>5, <2>7 DEF OneRunner, Caught
  <2>13. Halted' /\ Anchored'
    BY <1>1, <2>1, <2>3 DEF LoopInv, Halted, Anchored
  <2> QED
    BY <2>9, <2>10, <2>11, <2>12, <2>13 DEF LoopInv
<1> QED
  BY <1>2, <1>3 DEF LoopStep, EndTurn, HandOver

(* The shell comes to a runner that is idle: to the registered one, or to  *)
(* its own.                                                                *)
LEMMA TakeKeeps ==
  ASSUME OneShell, RunInv, LoopInv, NEW c \in Shell, Take(c), UNCHANGED others
  PROVE  LoopInv'
<1> USE Kinds
<1> DEFINE r == RunnerOf(c)
<1>1. /\ holder' = [holder EXCEPT ![r] = c] /\ at' = [at EXCEPT ![c] = r]
      /\ Enters(c, r) /\ Idle(r) /\ work[c] = "none" /\ Register(c)
      /\ UNCHANGED <<loop, shell, work, victims, kpc>>
  BY DEF Take
<1>2. RunStateTypeOK /\ c \in Caller /\ r \in Runner /\ UNCHANGED <<control, ticket, pc>>
  BY RunnerOfType DEF RunInv, others
<1>3. at[c] = Nobody
  <2>1. at[c] # Nobody => Publishing(c) /\ r = at[c]
    BY <1>1 DEF Publishing, RunnerOf
  <2> HIDE DEF r
  <2> QED
    BY <1>1, <2>1 DEF LoopInv, ShellRunner, Enters
<1>4. registered' = r /\ (registered # Nobody => r = registered)
  BY <1>1, <1>3 DEF Register, RunnerOf
<1> HIDE DEF r
<1>5. \A s \in Shell : s = c
  BY DEF OneShell
<1>6. ~Engaged(c)
  BY <1>1, <1>3 DEF Engaged, Publishing, Live, TakenOff
<1>7. \A q \in Runner : loop[q] = Nobody /\ shell[q] = Nobody /\ holder[q] = Nobody
  <2>1. \A q \in Runner : loop[q] = Nobody
    BY <1>1, <1>2, <1>4 DEF LoopInv, OneRunner, Idle
  <2> QED
    BY <1>2, <1>5, <1>6, <2>1 DEF LoopInv, ShellRunner, RunStateTypeOK, Engaged
<1>8. /\ at'[c] = r /\ \A x \in Caller \cup Canceller : x # c => at'[x] = at[x]
      /\ holder'[r] = c /\ \A q \in Runner : q # r => holder'[q] = Nobody
  BY <1>1, <1>2, <1>7 DEF RunStateTypeOK
<1>9. Brought'
  <2>1. \A k \in Canceller : \A d \in victims[k] : d \in Caller /\ d # c
    BY <1>1, <1>2 DEF LoopInv, Brought, RunStateTypeOK
  <2> QED
    BY <1>1, <1>2, <1>8, <2>1 DEF LoopInv, Brought
<1>10. Doors'
  <2>1. \A x \in Loop \cup Canceller : ~AtDoor(x)
    BY <1>5, <1>6 DEF LoopInv, Doors
  <2> QED
    BY <1>1, <1>8, <2>1 DEF Doors, AtDoor
<1>11. ShellRunner'
  BY <1>1, <1>2, <1>4, <1>5, <1>7, <1>8 DEF ShellRunner, Publishing, Live, TakenOff
<1>12. OneRunner'
  BY <1>1, <1>2, <1>7 DEF LoopInv, OneRunner, Live, RunStateTypeOK
<1>13. Halted' /\ Caught'
  BY <1>1, <1>2, <1>7 DEF LoopInv, Halted, Caught
<1>14. Anchored'
  <2>1. \A k \in Canceller : \A d \in victims[k] : d \in Caller /\ d # c
    BY <1>1, <1>2 DEF LoopInv, Brought, RunStateTypeOK
  <2>2. \A k \in Canceller : kpc[k] = "stopping" =>
          registered' # Nobody /\ victims[k] # {} /\ \A d \in victims[k] : at'[d] = registered'
    BY <1>1, <1>2, <1>4, <1>8, <2>1 DEF LoopInv, Anchored
  <2> QED
    BY <1>1, <2>2 DEF LoopInv, Anchored
<1> QED
  BY <1>9, <1>10, <1>11, <1>12, <1>13, <1>14 DEF LoopInv

(* The shell is on its runner; who waits goes on waiting for that one.     *)
LEMMA ForkKeeps ==
  ASSUME OneShell, RunInv, LoopInv, NEW c \in Shell, Fork(c), UNCHANGED others
  PROVE  LoopInv'
<1> USE Kinds
<1> DEFINE r == at[c]
<1>1. /\ r # Nobody /\ holder[r] = c
      /\ holder' = [holder EXCEPT ![r] = Nobody] /\ shell' = [shell EXCEPT ![r] = c]
      /\ work' = [work EXCEPT ![c] = "starting"]
      /\ UNCHANGED <<registered, loop, at, victims, kpc>>
  BY DEF Fork
<1>2. RunStateTypeOK /\ c \in Caller /\ r \in Runner /\ UNCHANGED <<control, ticket, pc>>
  BY <1>1 DEF RunInv, others, RunStateTypeOK
<1>3. at[c] = r
  OBVIOUS
<1> HIDE DEF r
<1>4. Publishing(c) /\ registered = r /\ \A q \in Runner : loop[q] = Nobody
  BY <1>1, <1>2, <1>3 DEF LoopInv, ShellRunner
<1>5. \A s \in Shell : s = c
  BY DEF OneShell
<1>6. work[c] = "none" /\ work'[c] = "starting" /\ \A d \in Caller : d # c => work'[d] = work[d]
  BY <1>1, <1>2, <1>4 DEF RunStateTypeOK, Publishing
<1>7. /\ shell'[r] = c /\ \A q \in Runner : q # r => shell'[q] = Nobody
      /\ \A q \in Runner : holder'[q] = Nobody
  BY <1>1, <1>2, <1>3, <1>4, <1>5, <1>6 DEF RunStateTypeOK, LoopInv, ShellRunner, Live, Publishing
<1>8. Engaged(c) /\ Engaged(c)' /\ Live(c)'
  BY <1>4, <1>6 DEF Engaged, Live
<1>9. Brought'
  BY <1>1, <1>2, <1>6 DEF LoopInv, Brought, RunStateTypeOK
<1>10. Doors'
  <2>1. \A x \in Loop \cup Canceller : AtDoor(x)' => AtDoor(x)
    BY <1>1, <1>6 DEF AtDoor
  <2> QED
    BY <1>1, <1>5, <1>8, <2>1 DEF LoopInv, Doors
<1>11. ShellRunner'
  BY <1>1, <1>3, <1>4, <1>5, <1>6, <1>7, <1>8 DEF ShellRunner, Publishing, TakenOff
<1>12. OneRunner'
  BY <1>1, <1>4, <1>6 DEF LoopInv, OneRunner, Live
<1>13. Halted' /\ Caught' /\ Anchored'
  BY <1>1, <1>2, <1>4, <1>5, <1>6 DEF LoopInv, Halted, Caught, Anchored
<1> QED
  BY <1>9, <1>10, <1>11, <1>12, <1>13 DEF LoopInv

(* The shell's command is over.  Nobody waits for its runner any more, and *)
(* nobody at all: a loop behind it starts, else the entry of the table goes.*)
LEMMA ShellEnds ==
  ASSUME OneShell, RunInv, LoopInv, NEW c \in Shell, FinishShell(c) \/ HandToLoop(c), UNCHANGED others
  PROVE  LoopInv'
<1> USE Kinds
<1> DEFINE r == at[c]
           p == loop[r]
<1>1. /\ work[c] = "running" /\ Enters(c, r) /\ shell[r] = c
      /\ shell' = [shell EXCEPT ![r] = Nobody]
      /\ UNCHANGED <<holder, at, victims, kpc>>
      /\ \/ /\ p = Nobody /\ registered' = Nobody /\ loop' = [loop EXCEPT ![r] = Nobody]
            /\ work' = [work EXCEPT ![c] = "idling"]
         \/ /\ p # Nobody /\ UNCHANGED <<registered, loop>>
            /\ work' = [work EXCEPT ![c] = "over", ![p] = "starting"]
  BY DEF FinishShell, Finish, HandToLoop
<1>2. Live(c)
  BY <1>1 DEF Live
<1>3. RunStateTypeOK /\ c \in Caller /\ UNCHANGED <<control, ticket, pc>>
  BY DEF RunInv, others
<1>4. at[c] = r /\ loop[r] = p
  OBVIOUS
<1> HIDE DEF r, p
<1>5. registered = r /\ r # Nobody /\ r \in Runner
  BY <1>2, <1>3, <1>4 DEF LoopInv, ShellRunner, RunStateTypeOK
<1>6. \A s \in Shell : s = c
  BY DEF OneShell
<1>7. \A q \in Runner : q # r => loop[q] = Nobody /\ shell[q] = Nobody
  BY <1>3, <1>4, <1>5, <1>6 DEF LoopInv, OneRunner, ShellRunner, RunStateTypeOK
<1>8. /\ \A q \in Runner : shell'[q] = Nobody /\ holder'[q] = Nobody
      /\ \A q \in Runner : loop'[q] = loop[q]
  BY <1>1, <1>2, <1>3, <1>4, <1>5, <1>6, <1>7 DEF RunStateTypeOK, LoopInv, ShellRunner, Publishing, Live
<1>9. p # Nobody => p \in Loop /\ work[p] = "pending" /\ at[p] = r
  BY <1>1, <1>3, <1>4, <1>5 DEF LoopInv, OneRunner, RunStateTypeOK
<1>10. /\ work'[c] \in {"idling", "over"}
       /\ \A d \in Caller : d # c => work'[d] = IF d = p THEN "starting" ELSE work[d]
  BY <1>1, <1>3, <1>9 DEF RunStateTypeOK
<1>11. ~Engaged(c)' /\ work'[c] # "none"
  BY <1>10 DEF Engaged, Publishing, Live, TakenOff
<1>12. Brought'
  BY <1>1, <1>3, <1>9, <1>10 DEF LoopInv, Brought, RunStateTypeOK
<1>13. Doors'
  <2>1. ~Waits(c, r)
    BY <1>1 DEF Waits
  <2>2. \A x \in Loop \cup Canceller : at[x] = r => ~AtDoor(x)
    BY <1>1, <1>5, <2>1, NobodyAtDoor
  <2>3. \A x \in Loop \cup Canceller : ~AtDoor(x)
    BY <1>4, <1>6, <2>2 DEF LoopInv, Doors
  <2> QED
    BY <1>1, <1>9, <1>10, <2>3 DEF Doors, AtDoor
<1>14. ShellRunner'
  BY <1>6, <1>8, <1>11 DEF ShellRunner, Engaged
<1>15. \A q \in Loop : Live(q)' => q = p
  <2>1. \A q \in Loop : ~Live(q)
    BY <1>1, <1>4, <1>5 DEF LoopInv, OneRunner, Live
  <2> QED
    BY <1>10, <2>1 DEF Live
<1>16. OneRunner'
  BY <1>1, <1>4, <1>5, <1>7, <1>8, <1>9, <1>10, <1>15 DEF OneRunner
<1>17. Halted' /\ Caught' /\ Anchored'
  BY <1>1, <1>3, <1>6, <1>8, <1>11 DEF LoopInv, Halted, Caught, Anchored, Current, Engaged
<1> QED
  BY <1>12, <1>13, <1>14, <1>16, <1>17 DEF LoopInv

LEMMA ShellKeeps ==
  ASSUME OneShell, RunInv, LoopInv, NEW c \in Shell, StartShell(c) \/ ShellStep(c)
  PROVE  LoopInv'
<1> USE Kinds
<1>1. RunStateTypeOK /\ c \in Caller /\ UNCHANGED others /\ UNCHANGED <<control, ticket, pc>>
  BY DEF RunInv, StartShell, ShellStep, others
<1>2. \A s \in Shell : s = c
  BY DEF OneShell
<1>3. ~WaitForRunner(c)
  BY <1>1, WaitsForShell
<1>4. CASE Reject(c)
  <2>1. /\ work[c] = "none" /\ work' = [work EXCEPT ![c] = "over"] /\ Enters(c, RunnerOf(c))
        /\ UNCHANGED <<registered, loop, shell, holder, at, victims, kpc>>
    BY <1>4 DEF Reject, registry
  <2>2. work'[c] = "over" /\ \A d \in Caller : d # c => work'[d] = work[d]
    BY <1>1, <2>1 DEF RunStateTypeOK
  <2>3. ~Engaged(c) /\ ~Engaged(c)'
    <3>1. ~Publishing(c)
      BY <2>1 DEF LoopInv, ShellRunner, Publishing, Enters, RunnerOf
    <3> QED
      BY <2>1, <2>2, <3>1 DEF Engaged, Publishing, Live, TakenOff
  <2>4. Brought' /\ Doors' /\ Halted' /\ Caught' /\ Anchored'
    BY <1>1, <1>2, <2>1, <2>2, <2>3 DEF LoopInv, Brought, Doors, AtDoor, Halted, Caught, Current, Anchored, Live,
                                        RunStateTypeOK
  <2>5. ShellRunner'
    BY <1>1, <1>2, <2>1, <2>3 DEF LoopInv, ShellRunner, RunStateTypeOK, Engaged
  <2>6. OneRunner'
    BY <1>1, <2>1, <2>2 DEF LoopInv, OneRunner, Live, RunStateTypeOK
  <2> QED
    BY <2>4, <2>5, <2>6 DEF LoopInv
<1>5. CASE Ready(c) \/ SetIdle(c)
  <2>1. /\ UNCHANGED <<registered, loop, shell, holder, at, victims, kpc>>
        /\ \/ work[c] = "starting" /\ work' = [work EXCEPT ![c] = "running"]
           \/ work[c] = "doomed" /\ work' = [work EXCEPT ![c] = "stopping"]
           \/ work[c] = "idling" /\ work' = [work EXCEPT ![c] = "over"]
    BY <1>1, <1>5 DEF Ready, SetIdle, registry, RunStateTypeOK
  <2>2. /\ \/ work[c] = "starting" /\ work'[c] = "running"
           \/ work[c] = "doomed" /\ work'[c] = "stopping"
           \/ work[c] = "idling" /\ work'[c] = "over"
        /\ \A d \in Caller : d # c => work'[d] = work[d]
    BY <1>1, <2>1 DEF RunStateTypeOK
  <2>3. \A d \in Caller : /\ work'[d] \in {"starting", "running"} <=> Live(d)
                          /\ work'[d] \in {"doomed", "stopping"} <=> TakenOff(d)
                          /\ work'[d] = work[d] \/
                             (work[d] \notin {"none", "pending"} /\ work'[d] \notin {"none", "pending"})
    BY <2>2 DEF Live, TakenOff
  <2> QED
    BY <1>1, <2>1, <2>3, SameTables
<1> QED
  BY <1>1, <1>3, <1>4, <1>5, TakeKeeps, ForkKeeps, ShellEnds DEF StartShell, ShellStep

(* The tickets of a cancellation, at its start and its end.                *)
LEMMA StopKeeps ==
  ASSUME RunInv, LoopInv, NEW k \in Canceller, Stop(k) \/ CancelQueue(k) \/ StopEnd(k)
  PROVE  LoopInv'
<1> USE Kinds
<1>1. /\ UNCHANGED <<registered, loop, shell, holder, at, work, victims, ticket, pc>>
      /\ \/ kpc[k] = "new" /\ kpc' = [kpc EXCEPT ![k] = "stopped"]
         \/ kpc[k] = "stopped" /\ kpc' = [kpc EXCEPT ![k] = "runner"]
         \/ kpc[k] = "end" /\ kpc' = [kpc EXCEPT ![k] = "over"]
  BY DEF Stop, CancelQueue, StopEnd, registry, works
<1>2. /\ \A l \in Canceller : l # k => kpc'[l] = kpc[l]
      /\ kpc[k] \in {"new", "stopped", "end"} /\ kpc'[k] \in {"stopped", "runner", "over"}
      /\ kpc'[k] = "runner" => kpc[k] = "stopped"
      /\ kpc'[k] = "stopped" => kpc[k] = "new"
  BY <1>1 DEF RunInv, RunStateTypeOK
<1>3. Brought'
  BY <1>1, <1>2 DEF LoopInv, Brought
<1>4. Doors'
  <2>1. \A x \in Loop \cup Canceller : AtDoor(x)' => AtDoor(x)
    BY <1>1, <1>2 DEF LoopInv, Brought, AtDoor
  <2> QED
    BY <1>1, <2>1 DEF LoopInv, Doors, Engaged, Publishing, Live, TakenOff
<1>5. \A l \in Canceller : kpc'[l] = "stopping" <=> kpc[l] = "stopping"
  BY <1>2
<1>6. ShellRunner' /\ OneRunner' /\ Anchored'
  BY <1>1, <1>5 DEF LoopInv, ShellRunner, OneRunner, Anchored, Publishing, Live, TakenOff
<1>7. Halted'
  <2>1. control'.stopping > 0 => control'.paused
    BY DEF RunInv, LoopInv, Halted, Stop, CancelQueue, StopEnd
  <2> QED
    BY <1>1, <1>5, <2>1 DEF LoopInv, Halted
<1>8. Caught'
  <2>1. CASE Stop(k) \/ CancelQueue(k)
    <3>1. kpc'[k] \in {"stopped", "runner"}
      BY <2>1 DEF Stop, CancelQueue, RunInv, RunStateTypeOK
    <3> QED
      BY <3>1 DEF Caught
  <2>2. CASE StopEnd(k)
    <3>1. control'.version = control.version /\ control'.paused = control.paused
      BY <2>2 DEF StopEnd, RunInv
    <3>2. \A l \in Canceller : kpc[l] \in {"stopped", "runner"} => kpc'[l] = kpc[l]
      BY <2>2 DEF StopEnd, RunInv, RunStateTypeOK
    <3> QED
      BY <1>1, <3>1, <3>2 DEF LoopInv, Caught, Current
  <2> QED
    BY <2>1, <2>2
<1> QED
  BY <1>3, <1>4, <1>6, <1>7, <1>8 DEF LoopInv

(* A canceller that finds nothing to interrupt, or is through with it.     *)
LEMMA CancelPasses ==
  ASSUME OneShell, RunInv, LoopInv, NEW k \in Canceller,
         CancelNone(k) \/ CancelIdle(k) \/ SetStopped(k), UNCHANGED others
  PROVE  LoopInv'
<1> USE Kinds
<1>1. /\ UNCHANGED <<registered, loop, shell, holder, at, work, victims, control, ticket, pc>>
      /\ kpc[k] \in {"runner", "status"}
      /\ \E s \in {"status", "end"} : kpc' = [kpc EXCEPT ![k] = s]
  BY DEF CancelNone, CancelIdle, SetStopped, registry, works, others
<1>2. RunStateTypeOK
  BY DEF RunInv
<1>3. /\ \A l \in Canceller : l # k => kpc'[l] = kpc[l]
      /\ kpc'[k] \in {"status", "end"}
  BY <1>1, <1>2 DEF RunStateTypeOK
<1>4. \A l \in Canceller : kpc'[l] = "stopping" <=> kpc[l] = "stopping"
  BY <1>1, <1>3
<1>5. Brought' /\ Halted'
  BY <1>1, <1>3, <1>4 DEF LoopInv, Brought, Halted
<1>6. Doors'
  <2>1. \A x \in Loop \cup Canceller : AtDoor(x)' => AtDoor(x)
    BY <1>1, <1>3 DEF AtDoor
  <2> QED
    BY <1>1, <2>1 DEF LoopInv, Doors, Engaged, Publishing, Live, TakenOff
<1>7. ShellRunner' /\ OneRunner' /\ Anchored'
  BY <1>1, <1>4 DEF LoopInv, ShellRunner, OneRunner, Anchored, Publishing, Live, TakenOff
<1>8. Caught'
  <2>1. CASE SetStopped(k)
    BY <1>1, <1>3, <2>1 DEF SetStopped, LoopInv, Caught, Current
  <2>2. CASE CancelNone(k) \/ CancelIdle(k)
    <3>1. \A r \in Runner : loop[r] = Nobody
      <4>1. CASE at[k] = Nobody
        BY <2>2, <4>1 DEF CancelNone, CancelIdle, Target, Idle, LoopInv, OneRunner
      <4>2. CASE at[k] # Nobody
        <5>1. AtDoor(k)
          BY <2>2, <4>2 DEF CancelNone, CancelIdle, AtDoor
        <5>2. CASE at[k] = registered
          BY <2>2, <4>2, <5>2 DEF CancelNone, CancelIdle, Target, Idle, LoopInv, OneRunner
        <5> QED
          BY <1>2, <5>1, <5>2, DoorIsRegistered
      <4> QED
        BY <4>1, <4>2
    <3> QED
      BY <1>1, <3>1 DEF Caught
  <2> QED
    BY <2>1, <2>2
<1> QED
  BY <1>5, <1>6, <1>7, <1>8 DEF LoopInv

(* A canceller takes the works of the registered runner off it.            *)
LEMMA CancelTakesOff ==
  ASSUME OneShell, RunInv, LoopInv, NEW k \in Canceller, CancelActive(k), UNCHANGED others
  PROVE  LoopInv'
<1> USE Kinds
<1> DEFINE r == Target(k)
           found == {loop[r], shell[r]} \ {Nobody}
<1>1. /\ kpc[k] = "runner" /\ r # Nobody /\ Enters(k, r) /\ found # {}
      /\ loop' = [loop EXCEPT ![r] = Nobody] /\ shell' = [shell EXCEPT ![r] = Nobody]
      /\ work' = [c \in Caller |-> IF c \in found THEN Off(c) ELSE work[c]]
      /\ victims' = [victims EXCEPT ![k] = found]
      /\ kpc' = [kpc EXCEPT ![k] = "stopping"]
      /\ UNCHANGED <<registered, holder, at>>
  BY DEF CancelActive
<1>2. RunStateTypeOK /\ UNCHANGED <<control, ticket, pc>>
  BY DEF RunInv, others
<1>3. r \in Runner
  BY <1>1, <1>2 DEF Target, RunStateTypeOK
<1>4. /\ loop[r] \in Loop \cup {Nobody} /\ shell[r] \in Shell \cup {Nobody}
      /\ loop[r] # Nobody \/ shell[r] # Nobody
  BY <1>1, <1>2, <1>3 DEF RunStateTypeOK
<1>5. r = registered
  <2>1. CASE at[k] = Nobody
    BY <2>1 DEF Target
  <2>2. CASE at[k] # Nobody
    <3>1. AtDoor(k) /\ r = at[k]
      BY <1>1, <2>2 DEF AtDoor, Target
    <3> HIDE DEF r, found
    <3> QED
      BY <1>2, <1>3, <1>4, <3>1, DoorIsRegistered
  <2> QED
    BY <2>1, <2>2
<1>6. \A c \in Caller : c \in found <=> c \in {loop[r], shell[r]}
  OBVIOUS
<1>7. found \subseteq Caller
  BY <1>4
<1> HIDE DEF r, found
<1>8. \A s \in Shell : ~TakenOff(s)
  BY <1>2, <1>3, <1>4, AllIdle
<1>9. \A s \in Shell : ~Publishing(s)
  BY <1>1, <1>3, <1>5 DEF LoopInv, ShellRunner, Enters, Publishing
<1>10. \A q \in Runner : loop'[q] = Nobody /\ shell'[q] = Nobody /\ holder[q] = Nobody
  <2>1. \A q \in Runner : q # r => loop[q] = Nobody
    BY <1>2, <1>5 DEF LoopInv, OneRunner
  <2>2. \A q \in Runner : q # r => shell[q] = Nobody
    BY <1>2, <1>5 DEF LoopInv, ShellRunner, RunStateTypeOK
  <2>3. \A q \in Runner : holder[q] = Nobody
    BY <1>2, <1>9 DEF LoopInv, ShellRunner, RunStateTypeOK
  <2> QED
    BY <1>1, <1>2, <2>1, <2>2, <2>3 DEF RunStateTypeOK
<1>11. \A c \in Caller : work'[c] = IF c \in found THEN Off(c) ELSE work[c]
  BY <1>1
<1>12. /\ \A c \in found : work[c] # "none" /\ Off(c) \notin {"none", "starting", "running"} /\ at[c] = r
       /\ \A s \in Shell : s \in found => Off(s) \in {"doomed", "stopping"}
  <2>1. loop[r] # Nobody => at[loop[r]] = r /\ work[loop[r]] \in {"starting", "running", "pending"}
    BY <1>3 DEF LoopInv, OneRunner
  <2>2. shell[r] # Nobody => at[shell[r]] = r /\ work[shell[r]] \in {"starting", "running"}
    BY <1>3 DEF LoopInv, ShellRunner, Live
  <2>3. \A c \in found : c # Nobody /\ (c = loop[r] \/ c = shell[r])
    BY <1>6, <1>7
  <2>4. \A s \in Shell : s \in found => s = shell[r] /\ work[s] \in {"starting", "running"}
    BY <1>4, <2>2, <2>3
  <2> QED
    BY <1>4, <1>7, <2>1, <2>2, <2>3, <2>4 DEF Off
<1>13. \A s \in Shell : Live(s) => s \in found
  BY <1>5, <1>6 DEF LoopInv, ShellRunner
<1>14. \A c \in Caller : ~Live(c)'
  <2>1. \A p \in Loop : Live(p) => p \in found
    BY <1>5, <1>6 DEF LoopInv, OneRunner
  <2> QED
    BY <1>11, <1>12, <1>13, <2>1 DEF Live
<1>15. /\ kpc'[k] = "stopping" /\ \A l \in Canceller : l # k => kpc'[l] = kpc[l]
       /\ victims'[k] = found /\ \A l \in Canceller : l # k => victims'[l] = victims[l]
  BY <1>1, <1>2 DEF RunStateTypeOK
<1>16. \A c \in Caller : work'[c] = "none" <=> work[c] = "none"
  BY <1>11, <1>12
<1>17. Brought'
  BY <1>1, <1>2, <1>7, <1>12, <1>15, <1>16 DEF LoopInv, Brought, RunStateTypeOK
<1>18. Doors'
  <2>1. \A x \in Loop \cup Canceller : AtDoor(x)' => AtDoor(x)
    BY <1>1, <1>15, <1>16 DEF AtDoor
  <2>2. \A s \in Shell : Engaged(s) => Engaged(s)'
    BY <1>8, <1>9, <1>11, <1>12, <1>13 DEF Engaged, TakenOff
  <2> QED
    BY <1>1, <2>1, <2>2 DEF LoopInv, Doors
<1>19. ShellRunner'
  <2>1. \A s \in Shell : ~Publishing(s)'
    BY <1>1, <1>9, <1>16 DEF Publishing
  <2>2. \A s \in Shell : TakenOff(s)' => s \in found
    BY <1>8, <1>11 DEF TakenOff
  <2>3. \A s \in Shell : TakenOff(s)' => at[s] # Nobody /\ kpc'[k] = "stopping" /\ s \in victims'[k]
    BY <1>1, <1>12, <1>15, <2>2
  <2> QED
    BY <1>1, <1>10, <1>14, <2>1, <2>3 DEF ShellRunner
<1>20. OneRunner' /\ Caught'
  BY <1>10, <1>14 DEF OneRunner, Caught
<1>21. Halted'
  BY <1>2, <1>10 DEF LoopInv, Halted
<1>22. Anchored'
  <2> SUFFICES ASSUME NEW s \in Shell, work'[s] = "none"
               PROVE  /\ \A l \in Canceller : kpc'[l] = "stopping" =>
                           registered' # Nobody /\ victims'[l] # {} /\ \A c \in victims'[l] : at'[c] = registered'
                      /\ \A l, m \in Canceller : kpc'[l] = "stopping" /\ kpc'[m] = "stopping" => l = m
    BY <1>14 DEF Anchored
  <2>1. work[s] = "none"
    BY <1>16
  <2>2. shell[r] = Nobody
    BY <1>3, <1>4, <2>1 DEF LoopInv, ShellRunner, OneShell, Live
  <2>3. \A l \in Canceller : kpc[l] # "stopping"
    BY <1>3, <1>4, <2>2 DEF LoopInv, Halted
  <2> QED
    BY <1>1, <1>5, <1>12, <1>15, <2>3
<1> QED
  BY <1>17, <1>18, <1>19, <1>20, <1>21, <1>22 DEF LoopInv

(* What a canceller has taken off is over.  The runner it deregisters is   *)
(* not the shell's: one the shell publishes for cannot be entered, one it  *)
(* is on is not idle, and of one it was taken off nobody waits.            *)
LEMMA StoppedKeeps ==
  ASSUME OneShell, RunInv, LoopInv, NEW k \in Canceller, Stopped(k), UNCHANGED others
  PROVE  LoopInv'
<1> USE Kinds
<1> DEFINE r == at[CHOOSE c \in victims[k] : TRUE]
<1>1. /\ kpc[k] = "stopping" /\ Enters(k, r)
      /\ \A c \in victims[k] : work[c] \in {"stopping", "pending"}
      /\ work' = [c \in Caller |-> IF c \in victims[k] THEN "over" ELSE work[c]]
      /\ victims' = [victims EXCEPT ![k] = {}]
      /\ \/ Idle(r) /\ registered' = Nobody /\ kpc' = [kpc EXCEPT ![k] = "status"]
         \/ ~Idle(r) /\ registered' = registered /\ kpc' = [kpc EXCEPT ![k] = "end"]
      /\ UNCHANGED <<loop, shell, holder, at>>
  BY DEF Stopped
<1>2. RunStateTypeOK /\ victims[k] \subseteq Caller /\ UNCHANGED <<control, ticket, pc>>
  BY DEF RunInv, RunStateTypeOK, others
<1>3. \A c \in victims[k] : at[c] = r
  BY DEF LoopInv, Brought
<1> HIDE DEF r
<1>4. /\ kpc'[k] \in {"status", "end"} /\ \A l \in Canceller : l # k => kpc'[l] = kpc[l]
      /\ victims'[k] = {} /\ \A l \in Canceller : l # k => victims'[l] = victims[l]
  BY <1>1, <1>2 DEF RunStateTypeOK
<1>5. \A c \in Caller : work'[c] = IF c \in victims[k] THEN "over" ELSE work[c]
  BY <1>1
<1>6. \A q \in Runner : loop[q] = Nobody
  BY <1>1 DEF LoopInv, Halted
<1>7. \A p \in Loop : ~Live(p)
  BY <1>2, <1>6 DEF LoopInv, OneRunner, RunStateTypeOK
<1>8. \A c \in Caller : /\ work'[c] = "none" <=> work[c] = "none"
                        /\ Live(c)' <=> Live(c)
                        /\ TakenOff(c)' => TakenOff(c) /\ c \notin victims[k]
  BY <1>1, <1>5 DEF LoopInv, Brought, Live, TakenOff
<1>9. \A s \in Shell : (work[s] = "none" \/ Live(s)) => r = registered /\ registered # Nobody
  BY <1>1, <1>3 DEF LoopInv, Anchored
<1>10. \A s \in Shell : ~Publishing(s)
  BY <1>1, <1>9 DEF LoopInv, ShellRunner, Enters, Publishing
<1>11. \A s \in Shell : Live(s) => registered' = registered
  BY <1>1, <1>9 DEF LoopInv, ShellRunner, Idle
<1>12. Brought'
  BY <1>1, <1>2, <1>4, <1>8 DEF LoopInv, Brought, RunStateTypeOK
<1>13. Doors'
  <2> SUFFICES ASSUME NEW x \in Loop \cup Canceller, AtDoor(x)'
               PROVE  \E s \in Shell : Engaged(s)' /\ at[x] = at[s]
    BY <1>1 DEF Doors
  <2>1. AtDoor(x)
    BY <1>1, <1>4, <1>8 DEF AtDoor
  <2>2. PICK s \in Shell : Engaged(s) /\ at[x] = at[s]
    BY <2>1 DEF LoopInv, Doors
  <2>3. CASE Live(s)
    BY <1>8, <2>2, <2>3 DEF Engaged
  <2>4. CASE TakenOff(s) /\ s \notin victims[k]
    BY <1>5, <2>2, <2>4 DEF Engaged, TakenOff
  <2>5. CASE TakenOff(s) /\ s \in victims[k]
    <3>1. at[x] = r /\ r # Nobody
      BY <1>3, <2>1, <2>2, <2>5 DEF AtDoor
    <3>2. ~Waits(k, r)
      BY <1>1 DEF Waits
    <3> QED
      BY <1>1, <2>1, <3>1, <3>2, NobodyAtDoor
  <2> QED
    BY <1>10, <2>2, <2>3, <2>4, <2>5 DEF Engaged
<1>14. ShellRunner'
  <2>1. \A q \in Runner : holder[q] = Nobody
    BY <1>2, <1>10 DEF LoopInv, ShellRunner, RunStateTypeOK
  <2>2. \A q \in Runner : shell[q] # Nobody => shell[q] \in Shell /\ Live(shell[q])'
    BY <1>1, <1>2, <1>8 DEF LoopInv, ShellRunner, RunStateTypeOK
  <2>3. \A s \in Shell : ~Publishing(s)'
    BY <1>1, <1>8, <1>10 DEF Publishing
  <2>4. \A s \in Shell : TakenOff(s)' =>
          at[s] # Nobody /\ \E l \in Canceller : kpc'[l] = "stopping" /\ s \in victims'[l]
    BY <1>4, <1>8 DEF LoopInv, ShellRunner
  <2> QED
    BY <1>1, <1>8, <1>11, <2>1, <2>2, <2>3, <2>4 DEF LoopInv, ShellRunner
<1>15. OneRunner' /\ Caught' /\ Halted'
  BY <1>1, <1>2, <1>6, <1>7, <1>8 DEF LoopInv, OneRunner, Caught, Halted
<1>16. Anchored'
  BY <1>1, <1>4, <1>8 DEF LoopInv, Anchored
<1> QED
  BY <1>12, <1>13, <1>14, <1>15, <1>16 DEF LoopInv

LEMMA CancelKeepsLoops ==
  ASSUME OneShell, RunInv, LoopInv, NEW k \in Canceller, CancelRunner(k) \/ FinishCancel(k)
  PROVE  LoopInv'
<1> USE Kinds
<1>1. RunStateTypeOK /\ UNCHANGED others /\ UNCHANGED <<control, ticket, pc>>
  BY DEF RunInv, CancelRunner, FinishCancel, others
<1>2. CASE CancelWaits(k)
  <2>1. /\ UNCHANGED <<registered, loop, shell, holder, work, victims, kpc>> /\ kpc[k] = "runner"
        /\ at' = [at EXCEPT ![k] = registered] /\ WaitForRunner(k)
    BY <1>2 DEF CancelWaits, WaitForRunner, registry
  <2>2. PICK s \in Shell : Engaged(s) /\ registered = at[s]
    BY <1>1, <2>1, WaitsForShell
  <2>3. /\ at'[k] = at[s] /\ \A x \in Caller \cup Canceller : x # k => at'[x] = at[x]
    BY <1>1, <2>1, <2>2 DEF RunStateTypeOK
  <2>4. \A c \in Caller : c # k
    OBVIOUS
  <2> QED
    BY <1>1, <2>1, <2>2, <2>3, <2>4, SameTables DEF Live, TakenOff
<1> QED
  BY <1>1, <1>2, CancelPasses, CancelTakesOff, StoppedKeeps DEF CancelRunner, FinishCancel

LEMMA LoopInvInit ==
  ASSUME Init
  PROVE  LoopInv
BY Kinds DEF Init, RunStateInit, LoopInv, Brought, Doors, ShellRunner, OneRunner, Halted, Anchored, Caught,
             AtDoor, Publishing, TakenOff, Live

LEMMA LoopInvStep ==
  ASSUME OneShell, RunInv, QueueTypes, LoopInv, [Next]_vars
  PROVE  LoopInv'
<1>1. CASE UNCHANGED vars
  BY <1>1 DEF vars, runState, registry, works, LoopInv, Brought, Doors, ShellRunner, OneRunner, Halted, Anchored,
              Caught, Current, AtDoor, Engaged, Publishing, TakenOff, Live
<1>2. ASSUME NEW p \in Msg, PromptStep(p) \/ Abandon(p) \/ Delete(p)
      PROVE  LoopInv'
  BY <1>2, BeginKeeps, EnsureKeeps, OthersKeep DEF PromptStep
<1>3. ASSUME NEW k \in Canceller, Stop(k) \/ CancelStep(k)
      PROVE  LoopInv'
  BY <1>3, StopKeeps, CancelKeepsLoops DEF CancelStep
<1> QED
  BY <1>1, <1>2, <1>3, LoopKeeps, ShellKeeps DEF Next

LEMMA LoopInvariant ==
  ASSUME OneShell
  PROVE  Spec => [](RunInv /\ LoopInv)
<1>1. Init => RunInv /\ QueueInv /\ LoopInv
  BY RunInvInit, QueueInvInit, LoopInvInit
<1>2. RunInv /\ QueueInv /\ LoopInv /\ [Next]_vars => (RunInv /\ QueueInv /\ LoopInv)'
  BY RunInvStep, QueueInvStep, LoopInvStep DEF QueueInv
<1> QED
  BY <1>1, <1>2, PTL DEF Spec

(* While at most one shell is started, at most one loop or shell that      *)
(* nobody has stopped is at work, for any number of prompts and            *)
(* cancellations, of callers that wait for the runner and that leave.      *)
THEOREM OneTurn ==
  ASSUME OneShell
  PROVE  Spec => []OneTurnAtATime
<1>1. RunInv /\ LoopInv => OneTurnAtATime
  <2> SUFFICES ASSUME RunInv, LoopInv, NEW c \in Caller, NEW d \in Caller, Live(c), Live(d)
               PROVE  c = d
    BY DEF OneTurnAtATime
  <2> USE Kinds
  <2>1. CASE c \in Loop /\ d \in Loop
    BY <2>1 DEF LoopInv, OneRunner
  <2>2. CASE c \in Shell /\ d \in Shell
    BY <2>2 DEF OneShell
  <2>3. ASSUME NEW p \in Loop, NEW s \in Shell, Live(p), Live(s) PROVE FALSE
    <3>1. registered \in Runner /\ loop[registered] = p /\ shell[registered] = s
      BY <2>3 DEF LoopInv, OneRunner, ShellRunner, RunInv, RunStateTypeOK
    <3> QED
      BY <2>3, <3>1 DEF LoopInv, OneRunner, Live
  <2> QED
    BY <2>1, <2>2, <2>3
<1> QED
  BY <1>1, LoopInvariant, PTL

(* While at most one shell is started, a cancellation is final: once none  *)
(* is under way, no loop works for a prompt from before the last one, not  *)
(* even one that was pending behind the shell.                             *)
THEOREM StopsAreFinal ==
  ASSUME OneShell
  PROVE  Spec => []StopIsFinal
<1>1. RunInv /\ LoopInv => StopIsFinal
  <2> SUFFICES ASSUME RunInv, LoopInv, control.stopping = 0, NEW p \in Msg, Live(p)
               PROVE  Current(p) /\ ~control.paused
    BY DEF StopIsFinal
  <2>1. IsFiniteSet(UnderWay)
    BY FiniteCancellers, FS_Subset DEF UnderWay
  <2>2. UnderWay = {}
    BY <2>1, FS_EmptySet DEF RunInv, Counted
  <2>3. registered \in Runner /\ registered # Nobody /\ loop[registered] = p
    BY PromptsAreLoops DEF LoopInv, OneRunner, RunInv, RunStateTypeOK
  <2> QED
    BY Kinds, <2>2, <2>3, PromptsAreLoops DEF LoopInv, Caught, UnderWay
<1> QED
  BY <1>1, LoopInvariant, PTL
=============================================================================
