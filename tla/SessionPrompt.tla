--------------------------- MODULE SessionPrompt ---------------------------
(***************************************************************************)
(* One session of the V1 runtime (packages/opencode): `prompt`, `loop`,    *)
(* `shell` and `cancel` of session/prompt.ts over the queue of prompts and *)
(* the runner, with the control tickets of kilocode/session/control.ts.    *)
(*                                                                         *)
(*   - a prompt takes a ticket, stores its message, holds a slot of the    *)
(*     queue and in its turn asks the runner for a loop;                   *)
(*   - a shell goes to the runner directly;                                *)
(*   - a canceller invalidates the tickets and the queue, interrupts what  *)
(*     runs and lets new prompts of the user in only when it is through.   *)
(*                                                                         *)
(* A loop that runs ends when it has answered, or hands over to a prompt   *)
(* that arrived after it took over.                                        *)
(***************************************************************************)
EXTENDS PromptQueue, SessionRunState

CONSTANTS
  Synthetic,  \* prompts the program sends: the result of a background task
  Leavers     \* prompts whose caller may be interrupted, as when HTTP clients leave

ASSUME PromptsAreLoops == Msg = Loop /\ NoMsg = Nobody
ASSUME SyntheticAssumption == Synthetic \subseteq Msg
ASSUME LeaversAssumption == Leavers \subseteq Msg
\* A process is asked to cancel finitely often.
ASSUME FiniteCancellers == IsFiniteSet(Canceller)

VARIABLES
  control,  \* the session's entry in the control state
  ticket,   \* ticket[p]: the version of p's ticket and whether it was paused then
  pc,       \* where each prompt is
  left,     \* history: the prompts whose caller was interrupted
  deleted   \* history: the prompts that were deleted while they waited

history == <<left, deleted>>
vars == <<queue, runState, control, ticket, pc, history>>

Ticket == [version : Nat, paused : BOOLEAN]

PromptStates ==
  {"new", "begun", "queued", "active", "await", "leaving", "done"}

TypeOK ==
  /\ QueueTypeOK
  /\ RunStateTypeOK
  /\ control \in [version : Nat, paused : BOOLEAN, stopping : Nat]
  /\ ticket \in [Msg -> Ticket]
  /\ pc \in [Msg -> PromptStates]
  /\ left \subseteq Leavers
  /\ deleted \subseteq Msg

Init ==
  /\ QueueInit
  /\ RunStateInit
  /\ control = [version |-> 0, paused |-> FALSE, stopping |-> 0]
  /\ ticket = [p \in Msg |-> [version |-> 0, paused |-> FALSE]]
  /\ pc = [p \in Msg |-> "new"]
  /\ left = {}
  /\ deleted = {}

Current(p) == ticket[p].version = control.version

Running(p) == Current(p) /\ ~ticket[p].paused /\ ~control.paused

Goto(p, where) == pc' = [pc EXCEPT ![p] = where]

-----------------------------------------------------------------------------
\* `prompt`.

\* A prompt of the user waits until no cancellation is under way and ends the
\* pause; the program's own prompts do neither.
BeginHuman(p) ==
  /\ pc[p] = "new" /\ p \notin Synthetic
  /\ control.stopping = 0
  /\ control' = [control EXCEPT !.paused = FALSE]
  /\ ticket' = [ticket EXCEPT ![p] = [version |-> control.version, paused |-> FALSE]]
  /\ Goto(p, "begun")
  /\ UNCHANGED <<queue, runState, history>>

BeginSynthetic(p) ==
  /\ pc[p] = "new" /\ p \in Synthetic
  /\ ticket' = [ticket EXCEPT ![p] = [version |-> control.version, paused |-> control.paused]]
  /\ Goto(p, "begun")
  /\ UNCHANGED <<queue, runState, control, history>>

\* The message is stored, and queued if the prompt is to run.
Queue(p) ==
  /\ pc[p] = "begun" /\ Running(p)
  /\ Enqueue(p)
  /\ Goto(p, "queued")
  /\ UNCHANGED <<runState, control, ticket, history>>

\* A prompt that was stopped is not stored, or at most stored.
Park(p) ==
  /\ pc[p] = "begun" /\ ~Running(p)
  /\ Goto(p, "done")
  /\ UNCHANGED <<queue, runState, control, ticket, history>>

Activate(p) ==
  /\ pc[p] = "queued"
  /\ TakeOver(p)
  /\ Goto(p, "active")
  /\ UNCHANGED <<runState, control, ticket, history>>

Skip(p) ==
  /\ pc[p] = "queued" /\ Settled(p) /\ IsCancelled(p)
  /\ Goto(p, "leaving")
  /\ UNCHANGED <<queue, runState, control, ticket, history>>

\* `loop` looks at the ticket before it opens the turn.
Decline(p) ==
  /\ pc[p] = "active" /\ ~Running(p) /\ at[p] = Nobody
  /\ Goto(p, "leaving")
  /\ UNCHANGED <<queue, runState, control, ticket, history>>

\* Mutant of Ensure: the ticket is not asked again under the semaphore.
EnsureUnchecked(p) ==
  /\ pc[p] = "active"
  /\ \/ WaitForRunner(p) /\ Goto(p, "active")
     \/ Join(p, TRUE) /\ Goto(p, "await")
     \/ Start(p, TRUE) /\ Goto(p, "await")
     \/ Pend(p, TRUE) /\ Goto(p, "await")
  /\ UNCHANGED <<queue, control, ticket, history>>

Ensure(p) ==
  /\ pc[p] = "active"
  /\ \/ WaitForRunner(p) /\ Goto(p, "active")
     \/ Refuse(p, Running(p)) /\ Goto(p, "leaving")
     \/ Join(p, Running(p)) /\ Goto(p, "await")
     \/ Start(p, Running(p)) /\ Goto(p, "await")
     \/ Pend(p, Running(p)) /\ Goto(p, "await")
  /\ UNCHANGED <<queue, control, ticket, history>>

Answered(p) ==
  /\ pc[p] = "await" /\ work[joined[p]] = "over"
  /\ Goto(p, "leaving")
  /\ UNCHANGED <<queue, runState, control, ticket, history>>

Leave(p) ==
  /\ pc[p] = "leaving"
  /\ Release(p)
  /\ Goto(p, "done")
  /\ UNCHANGED <<runState, control, ticket, history>>

\* The caller is interrupted; the loop it awaits goes on.
Abandon(p) ==
  /\ p \in Leavers /\ pc[p] \in {"queued", "active", "await"}
  /\ Goto(p, "leaving")
  /\ left' = left \cup {p}
  /\ at' = IF pc[p] = "active" THEN [at EXCEPT ![p] = Nobody] ELSE at
  /\ UNCHANGED <<queue, registry, joined, work, status, victims, kpc, control, ticket, deleted>>

\* The user deletes a prompt that waits.
Delete(p) ==
  /\ Drop(p)
  /\ deleted' = deleted \cup {p}
  /\ UNCHANGED <<runState, control, ticket, pc, left>>

-----------------------------------------------------------------------------
\* The turns, the shells and `cancel`.

others == <<queue, control, ticket, pc, history>>

LoopStep(p) == (PublishBusy(p) \/ SetIdle(p)) /\ UNCHANGED others

\* The loop has answered.
EndTurn(p) == FinishLoop(p) /\ UNCHANGED others

\* Between two steps of the model the loop looks for a follow-up.
HandOver(p) == HasFollowup /\ FinishLoop(p) /\ UNCHANGED others

StartShell(c) ==
  /\ work[c] = "none"
  /\ WaitForRunner(c) \/ Reject(c) \/ Take(c)
  /\ UNCHANGED others

ShellStep(c) ==
  /\ Fork(c) \/ Ready(c) \/ FinishShell(c) \/ HandToLoop(c) \/ SetIdle(c)
  /\ UNCHANGED others

Stop(k) ==
  /\ kpc[k] = "new"
  /\ control' = [version |-> control.version + 1, paused |-> TRUE, stopping |-> control.stopping + 1]
  /\ kpc' = [kpc EXCEPT ![k] = "stopped"]
  /\ UNCHANGED <<queue, registry, works, status, victims, ticket, pc, history>>

\* The queue is cancelled.  The prompts whose message is being stored are only
\* interrupted, and park: their tickets are not current any more.
CancelQueue(k) ==
  /\ kpc[k] = "stopped"
  /\ Cancel
  /\ kpc' = [kpc EXCEPT ![k] = "runner"]
  /\ UNCHANGED <<registry, works, status, victims, control, ticket, pc, history>>

CancelRunner(k) ==
  /\ CancelWaits(k) \/ CancelNone(k) \/ CancelIdle(k) \/ CancelActive(k)
  /\ UNCHANGED others

FinishCancel(k) == (Stopped(k) \/ SetStopped(k)) /\ UNCHANGED others

StopEnd(k) ==
  /\ kpc[k] = "end"
  /\ control' = [control EXCEPT !.stopping = @ - 1]
  /\ kpc' = [kpc EXCEPT ![k] = "over"]
  /\ UNCHANGED <<queue, registry, works, status, victims, ticket, pc, history>>

PromptStep(p) ==
  \/ BeginHuman(p) \/ BeginSynthetic(p) \/ Queue(p) \/ Park(p)
  \/ Activate(p) \/ Skip(p) \/ Decline(p) \/ Ensure(p) \/ Answered(p) \/ Leave(p)

CancelStep(k) == CancelQueue(k) \/ CancelRunner(k) \/ FinishCancel(k) \/ StopEnd(k)

Next ==
  \/ \E p \in Msg : PromptStep(p) \/ Abandon(p) \/ Delete(p)
  \/ \E p \in Msg : LoopStep(p) \/ EndTurn(p) \/ HandOver(p)
  \/ \E c \in Shell : StartShell(c) \/ ShellStep(c)
  \/ \E k \in Canceller : Stop(k) \/ CancelStep(k)

Spec == Init /\ [][Next]_vars

(* Fairness.  Steps of the program happen: timers, storage and promises of *)
(* one process.  Callers need not call, leave, delete or stop anything, and*)
(* a loop need not find its answer, but it gets to the end of a step, where*)
(* it looks for follow-ups.  A shell's command is taken to exit.           *)
Fairness ==
  /\ \A p \in Msg : WF_vars(PromptStep(p) /\ pc[p] # "new") /\ WF_vars(LoopStep(p)) /\ WF_vars(HandOver(p))
  /\ \A c \in Shell : WF_vars(ShellStep(c))
  /\ \A k \in Canceller : WF_vars(CancelStep(k))

LiveSpec == Spec /\ Fairness

-----------------------------------------------------------------------------
\* At most one loop or shell that nobody has stopped works on the session, in
\* spite of cancellations whose works take their time to end.
OneTurnAtATime == \A c, d \in Caller : Live(c) /\ Live(d) => c = d

\* When no cancellation is under way, no loop works for a prompt from before the
\* last one, however far the prompt had come when it was cancelled.
StopIsFinal ==
  control.stopping = 0 =>
    \A p \in Msg : Live(p) => Current(p) /\ ~control.paused

\* Prompts take over in the order they arrived, each when those before it have
\* gone; a prompt that was deleted while it waited never does.
QueueOrder ==
  [][left = {} =>
       \A p \in Msg : Activate(p) =>
         /\ \A q \in Msg : HasSlot(q) => slot[p].seq <= slot[q].seq
         /\ p \notin deleted]_vars

\* A session whose prompts are all through keeps nothing of the queue: the next
\* prompt is not mistaken for a follow-up, a cancelled or a deleted one.
QueueForgotten ==
  left = {} /\ (\A p \in Msg : ~HasSlot(p)) =>
    latest = 0 /\ activeSince = 0 /\ version = 0 /\ dropped = {} /\ waiting = <<>> /\ base = NoMsg

\* A prompt that arrives during a turn and is first in line takes over though
\* that turn may never find its own answer, unless it is deleted or cancelled.
\* (A prompt waits at most once, so that none waits forever if now and again
\* none does.)
Preempts(p) == base # NoMsg /\ Waiting(p) /\ Head(waiting) = p /\ slot[p].seq > activeSince

FollowupPreempts == []<>(left # {} \/ ~\E p \in Msg : Preempts(p))

\* Where turns end, every prompt that has begun gets to its end, and so does
\* every cancellation.
Settles ==
  (\A p \in Msg : []<>(work[p] # "running")) =>
    <>[](/\ \A p \in Msg : pc[p] \in {"new", "done"}
         /\ \A k \in Canceller : kpc[k] \in {"new", "over"})
=============================================================================
