-------------------------- MODULE SessionExecution --------------------------
(***************************************************************************)
(* Prompts, the run coordinator and the runner of one session together:    *)
(*                                                                         *)
(*   - clients call `prompt` (session.ts), `resume`, `interrupt` and       *)
(*     `revert.*`, at any time and with the same message ID as often as    *)
(*     they like;                                                          *)
(*   - the coordinator is SingleFlight, which RunCoordinator implements;   *)
(*   - the drain is `run` and `runTurn` of session/runner/llm.ts;          *)
(*   - the inbox is SessionInbox, and all that a crash leaves.             *)
(*                                                                         *)
(* Each action is one database operation or one synchronous block: between *)
(* two of them any other fiber may run, and the process may crash.         *)
(***************************************************************************)
EXTENDS SessionInbox

CONSTANTS
  Client,      \* the fibers that call `prompt`
  Session,     \* the session
  Resumes,     \* bound: the values of the option `resume` that clients use
  MaxRevert    \* bound: how many reverts are committed, none is staged after

ASSUME ResumesAssumption == Resumes \subseteq BOOLEAN
ASSUME MaxRevertAssumption == MaxRevert \in Nat

VARIABLES
  phase, again,  \* the coordinator
  force,         \* the drain that is scheduled or runs was asked for by `resume`
  stopped,       \* the owner fiber has been interrupted
  dpc,           \* where the drain is
  promotion,     \* the `promotion` of the next provider turn
  cutoff,        \* the latest sequence when the turn began
  rows,          \* the selected rows that are still to be published
  cpc,           \* where each client is
  call,          \* the arguments of its `prompt`
  boundary,      \* the staged boundary that a `revert.commit` has read
  reverts,       \* the number of committed reverts
  woken,         \* history: prompts that woke the session and wait
  checked,       \* history: the latest sequence when steers were last looked for,
                 \* 0 once a turn has ended
  answered       \* history: a turn has ended since a queued input was promoted

coordinator == <<phase, again, force, stopped>>
drain       == <<dpc, promotion, cutoff, rows>>
clients     == <<cpc, call>>
history     == <<checked, answered>>
vars == <<durable, coordinator, drain, clients, boundary, reverts, woken, history>>

Flight == INSTANCE SingleFlight WITH Key <- {Session}

\* The delivery stands for everything `equivalent` compares.
Call == [id : Msg, delivery : Delivery, resume : BOOLEAN]

NoCall == [id |-> NoMsg, delivery |-> "steer", resume |-> FALSE]

TypeOK ==
  /\ InboxTypeOK
  /\ Flight!TypeOK
  /\ force \in BOOLEAN
  /\ stopped \in BOOLEAN
  /\ dpc \in {"off", "steer?", "queue?", "turn", "select queued", "publish queued",
              "select steers", "publish steers", "provider", "more?", "idle?", "done"}
  /\ promotion \in Delivery \cup {"none"}
  /\ cutoff \in Nat
  /\ rows \subseteq Row
  /\ cpc \in [Client -> {"idle", "find", "admit", "refind", "wake", "conflict"}]
  /\ call \in [Client -> Call \cup {NoCall}]
  /\ boundary \in Msg \cup {NoMsg}
  /\ reverts \in 0 .. MaxRevert
  /\ woken \subseteq Msg
  /\ checked \in Nat
  /\ answered \in BOOLEAN

Init ==
  /\ InboxInit
  /\ Flight!Init
  /\ force = FALSE
  /\ stopped = FALSE
  /\ dpc = "off"
  /\ promotion = "none"
  /\ cutoff = 0
  /\ rows = {}
  /\ cpc = [c \in Client |-> "idle"]
  /\ call = [c \in Client |-> NoCall]
  /\ boundary = NoMsg
  /\ reverts = 0
  /\ woken = {}
  /\ checked = 0
  /\ answered = TRUE

-----------------------------------------------------------------------------
\* `prompt` (session.ts) and `admit` (session/input.ts).  A call is not
\* interruptible; it ends by being answered or with the process.

Prompt(c, m, d, resume) ==
  /\ cpc[c] = "idle"
  /\ cpc' = [cpc EXCEPT ![c] = "find"]
  /\ call' = [call EXCEPT ![c] = [id |-> m, delivery |-> d, resume |-> resume]]
  /\ UNCHANGED <<durable, coordinator, drain, boundary, reverts, woken, history>>

Goto(c, where) ==
  /\ cpc' = [cpc EXCEPT ![c] = where]
  /\ call' = IF where = "idle" THEN [call EXCEPT ![c] = NoCall] ELSE call

\* The stored row is compared with what the caller expects.
Compare(c, stored) ==
  Goto(c, IF stored # call[c].delivery THEN "conflict"
          ELSE IF call[c].resume THEN "wake" ELSE "idle")

\* The first `find`: a stored row answers the call without an event.
Find(c) ==
  /\ cpc[c] = "find"
  /\ \/ Stored(call[c].id) /\ Compare(c, delivery[call[c].id])
     \/ ~Stored(call[c].id) /\ Goto(c, "admit")
  /\ UNCHANGED <<durable, coordinator, drain, boundary, reverts, woken, history>>

\* The event is published, or its projector finds that somebody else was first.
PromptAdmitted(c) ==
  /\ cpc[c] = "admit"
  /\ \/ Admit(call[c].id, call[c].delivery) /\ Compare(c, call[c].delivery)
     \/ ~Admissible(call[c].id) /\ Goto(c, "refind") /\ UNCHANGED durable
  /\ UNCHANGED <<coordinator, drain, boundary, reverts, woken, history>>

\* Mutant of Refind: a defect is always a conflict.
RefindNever(c) ==
  /\ cpc[c] = "refind"
  /\ Goto(c, "conflict")
  /\ UNCHANGED <<durable, coordinator, drain, boundary, reverts, woken, history>>

\* The `find` after a defect: the row of whoever was first, or a conflict.
Refind(c) ==
  /\ cpc[c] = "refind"
  /\ \/ Stored(call[c].id) /\ Compare(c, delivery[call[c].id])
     \/ ~Stored(call[c].id) /\ Goto(c, "conflict")
  /\ UNCHANGED <<durable, coordinator, drain, boundary, reverts, woken, history>>

Launch(asked) == Flight!Launch(Session) /\ force' = asked

\* `execution.wake`, and the call is answered.
Wake(c) ==
  /\ cpc[c] = "wake"
  /\ Launch(FALSE) \/ (Flight!Coalesce(Session) /\ UNCHANGED force)
  /\ woken' = woken \cup {m \in {call[c].id} : Stored(m) /\ promoted[m] = 0}
  /\ Goto(c, "idle")
  /\ UNCHANGED <<durable, stopped, drain, boundary, reverts, history>>

\* The call fails with PromptConflictError.
Conflict(c) ==
  /\ cpc[c] = "conflict"
  /\ Goto(c, "idle")
  /\ UNCHANGED <<durable, coordinator, drain, boundary, reverts, woken, history>>

-----------------------------------------------------------------------------
\* The other calls.  A `resume` of an active session only waits for it.

Resume ==
  /\ Launch(TRUE)
  /\ UNCHANGED <<durable, stopped, drain, clients, boundary, reverts, woken, history>>

Interrupt ==
  /\ Flight!Cancel(Session)
  /\ stopped' = TRUE
  /\ woken' = {}
  /\ UNCHANGED <<durable, force, drain, clients, boundary, reverts, history>>

RevertStage(m) ==
  /\ reverts < MaxRevert
  /\ StageRevert(m)
  /\ UNCHANGED <<coordinator, drain, clients, boundary, reverts, woken, history>>

RevertClear ==
  /\ ClearRevert
  /\ UNCHANGED <<coordinator, drain, clients, boundary, reverts, woken, history>>

\* `revert.commit` reads the session,
RevertRead ==
  /\ boundary = NoMsg
  /\ staged # NoMsg
  /\ boundary' = staged
  /\ UNCHANGED <<durable, coordinator, drain, clients, reverts, woken, history>>

\* and publishes the boundary it read; whether a drain is active is not asked.
RevertCommit ==
  /\ boundary # NoMsg
  /\ reverts < MaxRevert
  /\ \/ /\ CommitRevert(boundary)
        /\ reverts' = reverts + 1
        /\ woken' = woken \ Dropped(boundary)
     \/ /\ transcript[boundary] = 0
        /\ UNCHANGED <<durable, reverts, woken>>
  /\ boundary' = NoMsg
  /\ UNCHANGED <<coordinator, drain, clients, history>>

-----------------------------------------------------------------------------
\* The drain: `run`, and of `runTurnAttempt` what concerns the inbox.

DrainBegin ==
  /\ Flight!Begin(Session)
  /\ dpc' = "steer?"
  /\ UNCHANGED <<durable, force, stopped, promotion, cutoff, rows, clients>>
  /\ UNCHANGED <<boundary, reverts, woken, history>>

Step(where, delivered) ==
  /\ dpc' = where
  /\ promotion' = delivered
  /\ UNCHANGED <<cutoff, rows, coordinator, clients, boundary, reverts, woken>>

\* Mutant of RunSteer: queued inputs are looked for first.
RunSteerLast ==
  /\ dpc = "steer?"
  /\ IF HasPending("steer") /\ ~HasPending("queue") THEN Step("turn", "steer") ELSE Step("queue?", "none")
  /\ checked' = seq
  /\ UNCHANGED <<durable, answered>>

\* `hasSteer`
RunSteer ==
  /\ dpc = "steer?"
  /\ IF HasPending("steer") THEN Step("turn", "steer") ELSE Step("queue?", "none")
  /\ checked' = seq
  /\ UNCHANGED <<durable, answered>>

\* `hasQueue`, and the early return of a drain nobody forces.
RunQueue ==
  /\ dpc = "queue?"
  /\ IF HasPending("queue") THEN Step("turn", "queue")
     ELSE Step(IF force THEN "turn" ELSE "done", "none")
  /\ UNCHANGED <<durable, history>>

\* A turn without a promotion goes to the provider; the others read the latest
\* sequence.
TurnCutoff ==
  /\ dpc = "turn"
  /\ \/ promotion = "none" /\ Step("provider", "none")
     \/ /\ promotion # "none"
        /\ dpc' = IF promotion = "queue" THEN "select queued" ELSE "select steers"
        /\ promotion' = "none"
        /\ cutoff' = seq
        /\ UNCHANGED <<rows, coordinator, clients, boundary, reverts, woken>>
  /\ UNCHANGED <<durable, history>>

Select(found, publish, otherwise) ==
  /\ rows' = found
  /\ dpc' = IF found = {} THEN otherwise ELSE publish
  /\ UNCHANGED <<durable, coordinator, promotion, clients>>
  /\ UNCHANGED <<boundary, reverts, woken, history>>

SelectQueued ==
  /\ dpc = "select queued"
  /\ Select(NextQueued, "publish queued", "select steers")
  /\ UNCHANGED cutoff

\* The cutoff is not used again.
SelectSteers ==
  /\ dpc = "select steers"
  /\ Select(PendingSteers(cutoff), "publish steers", "provider")
  /\ cutoff' = 0

\* One event of `publish`.
PublishNext ==
  /\ dpc \in {"publish queued", "publish steers"}
  /\ \E r \in rows :
       /\ IsFirst(r, rows)
       /\ Consume(r) \/ Reinsert(r) \/ AlreadyPromoted(r)
       /\ rows' = rows \ {r}
       /\ woken' = woken \ {r.id}
       /\ answered' = (answered /\ r.delivery = "steer")
  /\ dpc' = IF rows' # {} THEN dpc
            ELSE IF dpc = "publish queued" THEN "select steers" ELSE "provider"
  /\ UNCHANGED <<coordinator, promotion, cutoff, clients, boundary, reverts, checked>>

\* Compaction rebuilds the request: the attempt is repeated without a promotion.
TurnRetry ==
  /\ dpc = "provider"
  /\ Step("turn", "none")
  /\ UNCHANGED <<durable, history>>

\* The provider turn and its tools are over.
TurnEnd(needsContinuation) ==
  /\ dpc = "provider"
  /\ Step(IF needsContinuation THEN "turn" ELSE "more?", "steer")
  /\ answered' = (answered \/ ~needsContinuation)
  /\ checked' = 0
  /\ UNCHANGED durable

\* A steer that arrived keeps the drain going,
MoreSteers ==
  /\ dpc = "more?"
  /\ Step(IF HasPending("steer") THEN "turn" ELSE "idle?", "steer")
  /\ checked' = seq
  /\ UNCHANGED <<durable, answered>>

\* Mutant of MoreQueued: the drain ends after one activity.
MoreQueuedNever ==
  /\ dpc = "idle?"
  /\ Step("done", "none")
  /\ UNCHANGED <<durable, history>>

\* and only then a queued input.
MoreQueued ==
  /\ dpc = "idle?"
  /\ IF HasPending("queue") THEN Step("turn", "queue") ELSE Step("done", "none")
  /\ UNCHANGED <<durable, history>>

\* The owner fiber settles; `drain` and its locals are gone.
Leave ==
  /\ Flight!End(Session)
  /\ force' = FALSE
  /\ stopped' = FALSE
  /\ dpc' = "off"
  /\ promotion' = "none"
  /\ cutoff' = 0
  /\ rows' = {}
  /\ checked' = 0
  /\ answered' = TRUE
  /\ UNCHANGED <<durable, clients, boundary, reverts>>

DrainEnd == dpc = "done" /\ Leave /\ UNCHANGED woken

\* Without a follow-up, the prompts of an execution that failed or was stopped
\* wait for the next wake.
Aborted == Leave /\ woken' = IF again[Session] THEN woken ELSE {}

\* The provider, a tool, the database or the location fence ends the drain.
DrainFail == dpc # "off" /\ Aborted

DrainStopped == stopped /\ Aborted

\* A pending row that no longer matches the selected one is a defect.
PublishDies ==
  /\ dpc \in {"publish queued", "publish steers"}
  /\ \E r \in rows : IsFirst(r, rows) /\ Stored(r.id) /\ promoted[r.id] = 0 /\ ~Matches(r)
  /\ Aborted

\* The process dies and is started again: what is not durable is gone.
Crash ==
  /\ phase' = [k \in {Session} |-> "idle"]
  /\ again' = [k \in {Session} |-> FALSE]
  /\ force' = FALSE
  /\ stopped' = FALSE
  /\ dpc' = "off"
  /\ promotion' = "none"
  /\ cutoff' = 0
  /\ rows' = {}
  /\ cpc' = [c \in Client |-> "idle"]
  /\ call' = [c \in Client |-> NoCall]
  /\ boundary' = NoMsg
  /\ woken' = {}
  /\ checked' = 0
  /\ answered' = TRUE
  /\ UNCHANGED <<durable, reverts>>

Admission(c) == Find(c) \/ PromptAdmitted(c) \/ Refind(c) \/ Wake(c) \/ Conflict(c)

Drain ==
  \/ DrainBegin
  \/ RunSteer
  \/ RunQueue
  \/ TurnCutoff
  \/ SelectQueued
  \/ SelectSteers
  \/ PublishNext
  \/ PublishDies
  \/ MoreSteers
  \/ MoreQueued
  \/ DrainEnd

Next ==
  \/ \E c \in Client, m \in Msg, d \in Delivery, resume \in Resumes : Prompt(c, m, d, resume)
  \/ \E c \in Client : Admission(c)
  \/ Resume
  \/ Interrupt
  \/ \E m \in Msg : RevertStage(m)
  \/ RevertClear
  \/ RevertRead
  \/ RevertCommit
  \/ Drain
  \/ TurnRetry
  \/ \E needsContinuation \in BOOLEAN : TurnEnd(needsContinuation)
  \/ DrainFail
  \/ DrainStopped
  \/ Crash

Spec == Init /\ [][Next]_vars

\* Runnable fibers run, an interrupted drain ends, and a model that is asked
\* again and again eventually answers without a tool call or a compaction.
Fairness ==
  /\ \A c \in Client : WF_vars(Admission(c))
  /\ WF_vars(Drain)
  /\ WF_vars(DrainStopped)
  /\ SF_vars(TurnEnd(FALSE))

FairSpec == Spec /\ Fairness

-----------------------------------------------------------------------------
\* A user message is in the transcript exactly where its input was promoted:
\* the inbox row and the message are written, and reverted, together.
TranscriptMatchesInbox ==
  \A m \in Msg : transcript[m] = promoted[m] /\ (promoted[m] # 0 => Stored(m))

\* Inputs of one delivery become visible in the order in which they were
\* admitted; none overtakes an earlier one that still waits.
AdmissionOrderKept ==
  \A m, n \in Msg :
    Stored(m) /\ delivery[m] = delivery[n] /\ admitted[m] < admitted[n] /\ promoted[n] # 0 =>
      promoted[m] # 0 /\ promoted[m] < promoted[n]

\* Sending a prompt again is not a conflict: a call fails only if what is stored
\* under its ID differs from what it says.
ExactRetryAccepted ==
  \A c \in Client : cpc[c] = "conflict" =>
    Stored(call[c].id) /\ delivery[call[c].id] # call[c].delivery

\* A user message is written only by consuming a pending input.
PromotionConsumesPending ==
  [][\A m \in Msg : transcript[m] = 0 /\ transcript'[m] # 0 =>
       Stored(m) /\ promoted[m] = 0]_vars

\* A queued input is opened when it is its turn: since the one before it the
\* model has answered without asking for another turn, and no steer is left that
\* had been admitted when the drain last looked for steers.
QueueOpensInTurn ==
  [][\A m \in Msg : delivery[m] = "queue" /\ promoted[m] = 0 /\ promoted'[m] # 0 =>
       /\ answered
       /\ \A n \in Msg : Pending(n, "steer") => admitted[n] > checked]_vars

\* As long as drains do not fail for ever, a prompt that woke the session is
\* promoted, or its execution was interrupted, failed, was reverted or died.
PromptServed ==
  <>[][~DrainFail]_vars => \A m \in Msg : m \in woken ~> m \notin woken
=============================================================================
