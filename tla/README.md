# Verification of the session runtimes

This directory holds TLA+ specifications of how sessions run in this repository,
the configurations that check them with TLC, and proofs that the TLA+ proof
system checks. Paths below are relative to the repository root; `core/`
abbreviates `packages/core/src/` and `opencode/` abbreviates
`packages/opencode/src/`.

A session is an agent loop. Clients send prompts; one loop per session asks a
model provider for a turn, executes the tools the model calls, and repeats until
nothing is pending. Two runtimes do this side by side. The V2 runtime is in
`core/`: its durable state changes only by publishing an event, which is one
SQLite transaction with all its projectors; the database survives a restart,
everything else is lost with the process. The V1 runtime, which the command line
and the editors use, is in `opencode/`: its queue, its runner and its background
tasks live in the process only; the registry of its background jobs is in `core/`.

All of it runs on one JavaScript thread as cooperative Effect fibers: between
two suspension points a fiber runs alone. What goes wrong goes wrong at
suspension points, which is where the actions of the modules are cut.

Contents: [parts of the system](#parts-of-the-system),
[modules](#modules-and-how-they-correspond-to-the-code),
[runs](#runs), [bounds](#bounds), [fairness](#fairness), [proofs](#proofs),
[disagreements](#disagreements-between-code-and-documentation),
[limits](#what-is-abstracted-and-what-is-not-modelled), [plan](#plan).

## Parts of the system

| part | state it keeps | operations | talks to |
| --- | --- | --- | --- |
| event log, `core/event.ts`, `core/kilocode/event-batch.ts` | tables `event_sequence`, `event`; the signals of durable tails; live observers | publish, publishAll, replay, replayAll, claim, remove, durable, subscribe | projectors, inside its transaction; tails and observers after it |
| prompt inbox, `core/session/input.ts` | table `session_input` | admit, promoteSteers, promoteNextQueued, hasPending | publishes PromptAdmitted and Prompted |
| projector, `core/session/projector.ts`, `message-updater.ts` | tables `session`, `session_message` | one projection per event | called by the event log |
| session service, `core/session.ts`, `session/revert.ts` | none | prompt, resume, interrupt, revert stage, clear, commit | inbox, execution, events |
| run coordinator, `core/session/run-coordinator.ts` | map from session to its active entry: owner fiber, pending wake, stopping flag, deferred | run, wake, interrupt | starts the drain, is called by the session service |
| runner, `core/session/runner/llm.ts` | locals of the drain and of a turn | run, runTurn, runTurnAttempt | inbox, context epoch, provider, tools, publisher |
| publisher, `core/session/runner/publish-llm-event.ts` | what is known of each tool call of a turn | publish, failAssistant, failUnsettledTools | event log; called by the runner and by tool fibers |
| tools, `core/tool/registry.ts`, `core/tool-output-store.ts` | managed output files | settle, bound | files, processes, permissions |
| permission and question requests, `core/permission.ts`, `core/question.ts` | process-local map of pending requests, saved rules | ask, assert, reply | tools wait, clients reply |
| keyed mutex, `core/effect/keyed-mutex.ts` | one semaphore per key in use | withLock | file mutation |
| file mutation, `core/file-mutation.ts`, `core/tool/edit.ts`, `write.ts`, `apply-patch.ts` | the files | conditional writes, creations, removals | permission requests, keyed mutex |
| V1 prompt queue, `opencode/kilocode/session/prompt-queue.ts` | seven maps: slots, tails, versions, arrivals, the list of waiting prompts | enqueue, cancel, drop, hasFollowup | prompts, the loop between two steps |
| V1 runner and run state, `opencode/effect/runner.ts`, `opencode/session/run-state.ts` | the state of each runner, the table of runners, the status | ensureRunning, startShell, cancel, assertNotBusy | prompts and shells |
| V1 prompts and control, `opencode/session/prompt.ts`, `opencode/kilocode/session/control.ts` | the tickets of a session | prompt, loop, shell, cancel | queue, runner |
| background jobs, `core/background-job.ts` | process-local registry of jobs | start, extend, wait, promote, cancel | task tool |
| task tool and draining, `opencode/tool/task.ts`, `opencode/kilocode/tool/task.ts`, `opencode/kilocode/session/drain.ts` | what holds each session of a tree | execute, notify, promote, cancelTree, wait | jobs, prompts of the child and the parent |
| context epoch and history, `core/session/context-epoch.ts`, `history.ts`, `compaction.ts` | table `session_context_epoch` | initialize, prepare, reset, entriesForRunner | the runner before each turn |
| moving a session, `core/control-plane/move-session.ts` | the session's Location | moveSession | git, the drain's fence |

What is hard in each, and what makes it correct:

- **Event log.** Several fibers append to one aggregate, replays arrive late,
  twice or from a process that diverged, ownership changes between two of them,
  signals are coalesced. Correct: numbering without gaps, stored events are
  final, an event is announced once, one owner without a claim, a tail misses
  and repeats nothing.
- **Prompts and drain.** Two calls race with one message ID; a prompt arrives
  while the drain decides to end; a turn is repeated; a revert falls between two
  steps of a promotion; the process dies anywhere. Correct: an exact retry
  is accepted, a prompt that woke the session is promoted, order of admission
  and the rules of steer and queue are kept, inbox and transcript agree.
- **Run coordinator.** A run, wake or interrupt arrives at each moment of an
  execution's end. Correct: no overlap, no lost wake, no waiter left behind, an
  interrupt is final until somebody asks again.
- **Turn and tools.** The stream, the tool fibers, the interrupt and a
  declined permission end a turn in any order, and each of them may settle a
  call. Correct: each call is settled once and before the next request, no
  execution outlives its turn, a stop leaves nothing open.
- **V1 prompts.** Prompts, shells and cancellations of one session meet at a
  queue, a table of runners and a control record that are updated one after the
  other, while the loop of a stopped turn cleans up. Correct: one turn at a
  time, prompts in the order of their arrival, a follow-up gets its turn
  although the one before finds no end, a stop is final, nothing stays behind.
- **Background tasks.** A job ends, is updated, promoted, cancelled and started
  again while its runs are settled late; the outcome has two ways to the parent;
  a child answers while its own children still run; a stop of a tree meets jobs
  that are just starting. Correct: a job counts its runs, the last words win, the
  parent is told once, a run waits for the tree below it, nobody waits for
  himself.
- **Requests and files.** Replies cross each other and calls that are stopped,
  over a map that changes below their loops; files are read before the lock is
  taken and may be half written. Correct: a call goes on only when somebody
  allowed it, a rejection reaches its whole session, an update loses no change
  of another.

`PROJECT.json` lists these hazards line by line, with the property that covers
each, and every other part of the repository with the reason why it is left out.

## Modules and how they correspond to the code

**SingleFlight** is what the run coordinator promises: for each key at most one
execution, requests that overlap it are coalesced into one follow-up, stopping
forgets the follow-up. It has no entries, fibers or waiters.

**RunCoordinator** is `run-coordinator.ts`. An entry of the map is an element of
`Entry`, and its fields `owner`, `pendingWake`, `stopping` are functions on
entries (`done` is the set of callers that wait for it); `keyOf` is what the
closures of the entry know; `forced` is the parameter of `start`. `Run`,
`RunAgain`, `Wake` and `InterruptMark` are the synchronous blocks of `run`,
`wake` and `interrupt`; `InterruptSignal` is the delivery of `Fiber.interrupt`,
before which the scheduler may run anybody; `DrainStart`, `DrainEnd` and
`DrainStopped` are the owner fiber, whose observer `Settle` restarts, replaces or
removes the entry and then hands out the exit. `Abandon` interrupts a caller,
`Close` closes the scope of the fiber set. `ImplementsSingleFlight` is the
refinement: an entry in the map is an execution, `pendingWake` the follow-up.

**SessionInbox** holds the durable tables of one session and the events that
change them, each an operator that is one transaction: `Admit`
(PromptAdmitted), `Consume`, `Reinsert` and `AlreadyPromoted` (the outcomes of
Prompted), `StageRevert`, `ClearRevert`, `CommitRevert`. `Reinsert` is the
branch of `projectPrompted` that inserts a row when it finds none.

**SessionExecution** composes SessionInbox with SingleFlight and the drain.
Clients run `prompt` in the steps of the code: `Find`, `PromptAdmitted`,
`Refind` after a defect, then `Wake` or `Conflict`. The drain is `run` and the
part of `runTurnAttempt` that concerns the inbox: `RunSteer` and `RunQueue`
decide whether there is anything to do, `TurnCutoff` reads the latest sequence,
`SelectQueued` and `SelectSteers` read the rows, `PublishNext` publishes one of
them, `PublishDies` is the conflict that is not tolerated, `TurnRetry` repeats
the attempt after compaction, `TurnEnd` ends the turn, `MoreSteers` and
`MoreQueued` are the two loops. `RevertRead` and `RevertCommit` are apart because
`revert.commit` reads the session first. `Crash` loses all that is not durable.

**EventLog** is `event.ts` with `event-batch.ts`. `latest`, `owner` and `events`
are the two tables. A fiber carries out one operation: it commits
(`CommitLocal`, `LocalRefused`, and for replays `ReplayAccepted`, `ReplayStale`,
`ReplayFenced`, `ReplayRefused`, which are the branches of
`commitDurableEvent` in their order), signals the tails (`Wake`), and notifies
observers event by event (`Notify`). `Fail` and `Interrupted` end the fiber
between these steps. A tail registers its signal (`TailOpen`), reads
(`TailRead`), emits (`TailEmit`), waits for the signal (`TailWake`) and may be
closed and reopened from the last sequence its client received. `Remote[o][a]`
is the log of aggregate `a` in the process that replays as `o`; `Claim`, `Remove`
and `Restart` are the administration.

**TurnSettlement** is one turn after another of `runTurnAttempt`, with the
publisher, the tool fibers and the projection of tool and step states. `pc`
follows the runner from the stream through the wait for tools to the end of the
turn's scope; `tools` and `publisher` are the publisher's map and flags; `fiber`
is the state of each local call's fiber: it runs the operation, bounds its
output, queues at the publisher's semaphore and publishes. The provider sends
any sequence of tool inputs, calls, hosted calls, hosted results, finishes and
errors and may end its stream in each way at any time. `DrainStart` and
`RecoverNext` are `failInterruptedTools`.

**PromptQueue** is `prompt-queue.ts`: every prompt has a slot that remembers which
slots it was chained to, the version of the queue and its arrival. `Enqueue`,
`TakeOver`, `Release`, `Cancel` and `Drop` are its synchronous blocks. The last
slot to leave forgets the session.

**SessionRunState** is the runner with the table around it. `loop[r]` and
`shell[r]` are the state of runner `r`, `work[c]` the fiber a caller brought,
`holder[r]` the semaphore where it is held over a suspension (`startShell`
publishes that the session is busy). `Refuse`, `Join`, `Start` and `Pend` are the
branches of `ensureRunning`, `Reject` and `Take` those of `startShell`,
`HandToLoop` the shell's end with a loop pending, `CancelNone`, `CancelIdle`
and `CancelActive` the branches of `cancel`, and `Stopped` its end with
`idleIfCurrent`.

**SessionPrompt** composes both with the control tickets. A prompt goes through
`BeginHuman` or `BeginSynthetic` (the ticket), `Queue` or `Park`, `Activate` or
`Skip`, `Ensure` (the loop is asked for, with the ticket checked again under the
runner's semaphore), `Answered` and `Leave`. Its caller may leave (`Abandon`), its
user may delete it (`Delete`). A loop that runs ends by `EndTurn`, or by `HandOver`
when a prompt arrived after its own. A canceller goes through `Stop`,
`CancelQueue`, `CancelRunner`, `FinishCancel` and `StopEnd`.

**BackgroundJob** is the registry. `jobs[j]` is the incarnation the map holds, and
an incarnation, the `Active` object with its token, is named by the run that
started it; `run[c]` is what a caller brought, chained to the run before it.
`StartNew`, `StartKnown`, `Extend`, `Promote`, `Cancel` and `Settle` are the
operations; `Settle` ignores runs of an incarnation that is not current or has
ended.

**BackgroundTasks** composes the registry with the task tool over a tree of
sessions. `Update`, `StartBackground`, `FindNothing` and `StartForeground` are
the ways of a call into the registry, `Return`, `GoBackground` and `Abort` its
ways out. `Notify` is `notify`, which delivers once per call; `Deliver` is the
prompt to the parent. `Held` and `Drained` are `drain.ts`. A `Stopper` is a client
that cancels, a run whose scope was closed or a foreground call that was
interrupted: `StopJobs` lists and cancels the jobs of each session, `StopTurn`
stops its turn when they are closed.

**KeyedMutex** is `keyed-mutex.ts`: `Enter` finds or makes the lock of a key and
counts a user, `Acquire` is the semaphore, `Leave` is the end of a holder or of a
waiter that was interrupted, and drops the entry with the last user. Locks are
objects of their own, so that a key might have two.

**PermissionRequests** is `assert` and `reply` of `permission.ts`: `Evaluate`,
`Register`, `Wake`, and a reply that suspends at each publication: `Lookup`,
`Refuse` (once per request of the session), `Remember`, `Grant`, `ReadRules`,
`Recheck` (once per pending request). The loops run over the live map: `Later`
is what the iterator still comes to.

**FileEdits** composes both with `edit`, `write` and `apply_patch`. After its
permission a call reads its sources (`Read`), and makes one change after the
other: `Queue`, `Lockup`, `Look` (the conditional write's comparison),
`Truncate`, `Write`. A file holds a set of changes, and is torn between the last
two.

The modules whose names end in **Proofs** hold the theorems about the module they
are named for; those that begin with **MC** instantiate one for TLC.

## Runs

| run | configuration | shows |
| --- | --- | --- |
| `coordinator` | `MCRunCoordinator.cfg` | OneDrainPerKey, WakeRemembered, InterruptIsFinal, SuccessMeansCaughtUp, that waiters are answered, and that RunCoordinator implements SingleFlight, fairness included |
| `session_prompts` | `MCSessionExecution.cfg` | ExactRetryAccepted and AdmissionOrderKept with two clients and no revert |
| `session_revert` | `MCSessionExecutionRevert.cfg` | TranscriptMatchesInbox, QueueOpensInTurn and the liveness property PromptServed, with a revert at any moment |
| `session_resurrect` | `MCSessionExecutionResurrect.cfg` | violation of PromotionConsumesPending (1 below) |
| `eventlog_replay` | `MCEventLog.cfg` | LogWellFormed, OneReplayOwner, NotifiedOnce, LogIsAppendOnly under publications, replays, claims and the removal of another session |
| `eventlog_tail` | `MCEventLogTail.cfg` | NoMissedCommit, TailInOrder, TailCatchesUp for a tail that is opened, closed and reconnected |
| `settlement_safety` | `MCTurnSettlement.cfg` | RequestHasResults, NoExecutionOutlivesTurn, OneSettlementPerCall, StopSettlesTools |
| `settlement_liveness` | `MCTurnSettlementLive.cfg` | TurnCompletes, under every failure |
| `session_prompt` | `MCSessionPrompt.cfg` | OneTurnAtATime, StopIsFinal, QueueOrder, QueueForgotten, FollowupPreempts and the liveness property Settles |
| `session_prompt_shells` | `MCSessionPromptShells.cfg` | violation of OneTurnAtATime with two shells (2 below) |
| `background_tasks` | `MCBackgroundTasks.cfg` | JobCountsRuns, LatestAnswer, ToldOnce, DrainCoversJobs, CompletesDrained and NothingStuck for two calls of one child and one of its child |
| `file_edits` | `MCFileEdits.cfg` | RejectReachesSession, OnlyAuthorised, MutualExclusion, UpdatesPreserve and NothingStuck |

Each property of a passing run has a mutant: an operator that differs from a
definition of the module as a plausible bug would. Put in the place of that
definition it makes TLC find the property violated.

What the less obvious properties mean:

- *WakeRemembered*: as long as no drain has started since a wake, the active
  entry still holds it, whatever exits, interrupts and successions happened.
- *WaitersReleased* has a hypothesis: wakes stop coming. One entry drains for
  as long as they come, and those who joined it wait for that long.
- *PromptServed*: a prompt that woke the session is promoted in the end, unless a
  revert removes it or its execution is interrupted, fails or dies. A prompt
  sent with `resume: false` waits for the next wake; that is what the code does,
  and `specs/v2/session.md` defers recovery.
- *QueueOpensInTurn*: when a queued input is opened, the model has answered since
  the one before it, and every steer that is pending was admitted after the drain
  last looked for steers. A steer that arrives between that look and the opening
  joins the new activity's turn.
- *OneReplayOwner*: without a claim, all names from which an aggregate took
  events are one name, and it is the stored owner.
- *NoMissedCommit*: a tail that is behind and not about to read has its signal
  set, or the fiber that committed it is about to set it. This is the argument
  for registering the signal before the history is read.
- *RequestHasResults*: when a request is built, no call is in state `running`.
- *OneTurnAtATime* speaks of work that nobody has stopped: the clean-up of a
  stopped loop may last into the next turn, and that is the hazard.
- *FollowupPreempts* does not suppose that turns end. A prompt waits at most once,
  so that "infinitely often nobody waits at the front" says that nobody waits for
  ever.
- *QueueOrder*, *QueueForgotten* and *FollowupPreempts* suppose that no caller has
  left (`left = {}`): see 11 and 12 below for what its leaving does.
- *ToldOnce* is about calls whose start made the job; the others are 9 below.
- *DrainCoversJobs* and *CompletesDrained*: a session without any hold below it has
  no job below it, and a job is completed when what its child started is over and
  has been delivered to the child.
- *RejectReachesSession*: once a rejection's loop is over, none of the requests of
  its session that were there at its start is still open, although the loop
  suspends at each and the map changes.
- *UpdatesPreserve*: what is written under the lock contains every change the file
  held at that moment, and was not derived from a torn file, although sources are
  read without the lock.
- *NothingStuck*, in both modules: steps run out there, every call being made once
  (`StepsRunOut`), so that "something can move by itself or all is over" is
  termination without an assumption of fairness beyond that of the scheduler. In
  FileEdits it is said of each call: it has ended, has not begun, has a listed
  request that a user can answer, can go on, or queues for a lock whose holder can.
  What can go on is stated by the guards of the actions (`CanMove`, `Moves`), and
  `GuardsEnable`, a conjunct of NothingStuck, says that the guards enable them.

## Bounds

- RunCoordinator: one session, two entries (the successor exists while its
  predecessor settles), two callers. A second session shares nothing with the
  first but the pool of entries; the theorems hold for any number of each.
- SessionExecution: two message IDs, since order, races and the alternation of
  steer and queue each relate two prompts; two clients in `session_prompts` for
  the race of two admissions with one ID. `MaxRevert` bounds the committed
  reverts (0 in `session_prompts`, 1 in `session_revert`); sequences are
  finite because each ID is admitted and promoted once between two reverts.
  `Resumes = {TRUE}` in `session_revert` leaves out prompts that do not wake the
  session; `session_prompts` has them.
- EventLog: two fibers; a session whose two homes share the first event while
  this process publishes another second event than the old home; and one ID of a
  session that may be removed. A replay of several events, a publication in
  between, a diverged replay and the replay of what is already stored all occur.
  The tail runs with two events and two fibers, which suffices for a signal that
  stands for two commits.
- TurnSettlement: three calls for safety, two for liveness. They may be parallel
  calls of one turn or calls of successive turns. `Failures` and `LastStep` name
  which faults a run admits: `settlement_safety` admits a managed output that
  cannot be stored; `settlement_liveness` also publications that fail and turns
  without tools. `settlement_safety` leaves the latter two out because
  RequestHasResults fails there (7 and 8 below).
- SessionPrompt: three prompts, one of which the program sends and one whose
  caller may leave, a shell and a canceller: two prompts wait behind one that
  runs, a loop is pending behind the shell, and the cancellation falls anywhere.
  Two shells are what the second violation needs. Each caller calls once, so
  there is no bound on counters.
- BackgroundTasks: a tree of three sessions, two calls for the child (either of
  which may start, extend or restart the job) and one of the child for its own;
  each call is made once. One client that stops the whole tree or its top. The
  constants `Foreground`, `Background`, `Promotable` and `Outcome` say which mode
  and which outcome a call has, so that every pair that matters occurs.
- FileEdits: two calls of one session that change one file (one of them updates,
  deletes and creates it in turn), a call of another session under another
  permission, two replies of any kind to any request, and the end of the Location.
  Locks are reused, and three suffice for three callers.

Sets of interchangeable callers, entries, clients, messages, calls, fibers and
readers are symmetric in the runs without liveness.

## Fairness

The Effect scheduler resumes every runnable fiber, which is weak fairness of the
steps that need nobody else: `Wake(f)` and the tails' steps in EventLog, the
clients' and the drain's steps in SessionExecution, `RunAgain`,
`InterruptSignal`, `Return` and `DrainStart` in RunCoordinator, the runner's and
the fibers' own steps in TurnSettlement, the steps of prompts that have begun, of
loops, shells and cancellations in SessionPrompt. A publication's commit and
signal are one uninterruptible region, hence `Wake(f)` is fair although a fiber
may be interrupted elsewhere. Nobody has to call anything: prompts, interrupts,
reverts, deletions, crashes and failures are not fair.

The assumptions that go further, each of which is needed:

- RunCoordinator assumes that every drain ends (`DrainEnd` or `DrainStopped`):
  the coordinator cannot answer those who wait for a drain that does not.
- SessionExecution assumes strong fairness of `TurnEnd(FALSE)`: a model that is
  asked again and again eventually answers without a tool call. Otherwise a
  queued prompt waits for ever, as the code has no bound on turns unless the
  agent sets one. PromptServed also supposes that drains do not fail for ever.
- TurnCompletes has the hypothesis `Responsive`: the stream ends and tools return.
- SessionPrompt assumes that a loop gets to the end of a step, where it looks for
  a follow-up (`HandOver`), and that a shell's command exits. It does not assume
  that a loop finds its answer; Settles has that as its hypothesis.
- BackgroundTasks and FileEdits need none: see NothingStuck above.

## Proofs

Theorems hold for every value of the constants, under the assumptions the modules
make of them and the hypotheses a theorem states itself. The assumptions are about
types, finite sets and names that differ; besides, the tree of sessions is well founded
(`FiniteTree`), a run has an outcome, there are locks enough to make one when a
fiber wants one (`EnoughLocks`), and a call is not both of `ensureRunning` and of
`startShell` (`LoopsAreNoShells`).

`RunCoordinatorProofs` proves, for every set of keys, entries and callers, that
TypeOK, OneDrainPerKey, NobodyStranded and WakeRemembered are invariants. None is
inductive alone. The inductive invariant `IInv` adds that the map and the owner
fibers agree (`MapOwnsFibers`: an active entry is live and belongs to its key,
and a live entry is the active one of its key), that callers refer to an entry
exactly while they wait (`CallersWait`), and that each signal has a cause
(`SignalsHaveCause`: an interrupted fiber is stopping or the scope is closed).
The last is what WakeRemembered rests on: a drain that is scheduled and not
stopping will start. The critical step is `Settle`, where a live entry is
replaced in the map by one that is new to everybody.

Two action properties follow. SuccessMeansCaughtUp is WakeRemembered at the moment a
drain ends. InterruptIsFinal needs that a key which was stopped, and which nobody has
asked for since, holds no wake (`QuietInv`). `Implements` proves the refinement of
SingleFlight without its fairness: each step changes the abstract state of one key as
a step of the executor does, or of none.

`EventLogProofs` proves, for all sets of aggregates, fibers, readers and owners
and all logs of other processes, that TypeOK, LogWellFormed, NoMissedCommit and
OneReplayOwner are invariants and that TailInOrder and LogIsAppendOnly hold of
every step. `Numbered` is LogWellFormed stated row by row, which an append
preserves by comparing the new rows with `latest`; `ReplaysPending` says that a
fiber in a replay has an event left; `TailProgress` says that what a tail has
read and not emitted is exactly the part of the log between the last sequence
its client received and its cursor, from which TailInOrder follows because the
numbering has no gaps. NotifiedOnce rests on `ToldInv`: what a fiber has committed
and not yet announced is stored, unknown to observers and in no other fiber's hands.

`SessionExecutionProofs` proves TypeOK and, for any number of prompts, clients and
reverts, TranscriptMatchesInbox and QueueOpensInTurn. `InboxInv` is proved once
per transaction of the inbox: what is promoted has its message and was admitted
before, and no two rows share a sequence. `TurnInv` is about what a drain
remembers between its steps: it has answered when it is about to open a queued
input (`Answers`), the row it has chosen is alone (`Chosen`), and a steer
that is pending there is younger than its last look (`Looked`). With
`MaxRevert = 0` it proves AdmissionOrderKept and ExactRetryAccepted too: a
selection is stored as it was read and is closed under what was admitted earlier
(`Rows`), and a row that a client has seen is there when it looks again. The
hypothesis is needed: a promotion that was selected before a revert brings the row
back after later ones (1 below), and a retry after a revert finds none.

`TurnSettlementProofs` proves TypeOK and, without hypotheses,
NoExecutionOutlivesTurn: `Base` ties the publisher's sets to the fibers and says
that none exists outside the states of the turn. With
no turn that is an agent's last step (`LastStep \subseteq {FALSE}`) it proves
OneSettlementPerCall: `Stream` and `Settled` tie, for each call, what the
publisher knows, where its fiber is, what the projection says and how often it
was settled. With no failing publication either, it proves RequestHasResults and
StopSettlesTools: `Accounted` adds that each projected running call is one the
publisher has not settled, and `Waiting` and `Ending` that none of those is left
on the ways to the end of the turn. 7 and 8 below say what happens without these
hypotheses.

`BackgroundTasksProofs` proves TypeOK, JobCountsRuns, LatestAnswer, DrainCoversJobs,
ToldOnce and CompletesDrained for every tree of sessions and every finite set of
calls. For the first three the invariant adds that a running
incarnation is the one in the map and has runs only of its own (`Belongs`), that a
call that has not started has brought no run, and that LatestAnswer holds already
of the runs that have been settled, whatever their order. For the next two,
`OwnerInv` says that the call that started a running job answers for it: it waits for
it or stops it, until the job is in the background, where its delivery waits. For
CompletesDrained, `Rests` says that everything below a session is idle once a run has
answered and while none is running; a prompt below would be of a job whose caller is
itself below and busy (`PromptDrain`). `Above` is a recursive function on a tree whose
shape these proofs do not assume; that it unfolds is proved from the least set closed
under parents (`Line`).

`NeverStuck` is the theorem about deadlock. `WaitInv` says of each that waits what it
waits for: a call for its job's incarnation or its stop, a run for its predecessor and
what is below its child, a stop for the incarnations, turns and calls it has listed.
All of that lies at least as deep in the tree as who waits (`FiniteTree`: jobs are
finitely many, and a parent comes before its children), so that the deepest waits for
its like at most. Among runs of one incarnation the wait is for the one before. Among
stops of one depth there is no circle (`Acyclic`): a stop waits for runs that were
running when it listed them, and a run that stops its child runs no more. So of the
stops under way one waits for nothing (`NoStopWaits`), and where no stop is under way
the deepest job that runs has nothing below it to wait for (`NothingLives`).
`StepsRunOut` gives each call, delivery, run, incarnation and stop a stage; no step
lowers one, and every step raises one or takes turns out of the finite set of those
under way.

`KeyedMutexProofs` proves MutualExclusion and that every entry of the map is in
use. Exclusion is not inductive: whoever is under a lock must find it in the map
(`Filed`), one lock belongs to one key (`FiledOnce`), and the entry must not go
before its last user, which holds because the count is the number of users
(`Counted`). That fibers are finitely many is used there. `HoldersInside` says that a
lock is held by somebody who is at it, and `LockForNewcomer` that a key has a lock in
the map or one is free to be made, because whoever comes is not at one: it rests on
`EnoughLocks`, since the code makes a semaphore whenever it wants one.

`FileEditsProofs` proves OnlyAuthorised, RejectReachesSession, MutualExclusion (now
of the tools, which take and leave locks in steps of their own) and UpdatesPreserve,
for any calls, replies, files and rules. A rejection's loop over a map that changes
is covered by an invariant on what it has still to visit: each request that was
there at its start and is still open lies, by its position, ahead of the loop's
present one. For updates, what a call has compared under the lock stays true of the
file until it writes (`TornUnderLock`, `Placed`), because only the holder changes it.
`ToolsUseTheMutex` is the composition: every behaviour of the tools is one of
`MutexSpec`, so that the theorems of the mutex are theorems about files. `NeverStuck`
combines the two: who queues has a lock with a holder, who is inside and therefore
moves; whoever asks has a verdict or is listed; and a loop of replies has a position
to go on from. `StepsRunOut` gives calls and replies stages that are bounded, never
fall, and of which each step raises one.

`SessionPromptProofs` proves TypeOK; QueueOrder and QueueForgotten for any number
of prompts, deletions and cancellations; and, while at most one shell is started
(`OneShell`), OneTurnAtATime and StopIsFinal for any number of prompts, of callers
that wait, leave and are refused, and of cancellations that overlap. The two
properties of the queue suppose themselves that no caller has left. Under that
hypothesis `QueueInv` says that the slots are chained in the order of their arrival
and end at `tail` (`Chained`), that whoever is past its turn has nobody ahead of it
(`InTurn`), that the queue knows nothing without a tail (`Remembered`) and that a
deletion is remembered or followed by a cancellation (`Deleted`). 11 and 12 below are
what breaks the chain otherwise. For the count of cancellations to stay natural it
must be the number of those under way (`Counted`).

For the runner the invariant is `LoopInv`. Only the registered runner has a loop,
live or pending behind its shell (`OneRunner`). The shell holds the semaphore of the
registered runner while it publishes, then is on it, and stays on it until a
canceller takes it off (`ShellRunner`); whoever waits, waits for the runner the shell
has come to (`Doors`), so that nobody is left with a runner that is not registered any
more once the shell is through. The end of a cancellation, which removes the
session's entry whichever runner it names, takes nothing away: no runner has a loop
while one awaits what it interrupted (`Halted`), and until the shell itself is taken off,
what is being interrupted was on the runner that is still registered, which is
locked or not idle when the shell is there (`Anchored`). A loop in the table is current
unless a cancellation is on its way to it (`Caught`). The hypothesis is needed: 2 below
is what a second shell does to Doors and ShellRunner. `LoopsAreNoShells`, that a call is
not both of `ensureRunning` and of `startShell`, is assumed.

Model-checked only: liveness, with the fairness of SingleFlight, and
GuardsEnable, which the two NeverStuck suppose (fairness and ENABLED are beyond the
prover); it is the first conjunct of NothingStuck in the runs.

## Disagreements between code and documentation

1. `session_resurrect`. A Prompted event for a row that a revert has removed
   inserts it again, with its message (`input.ts:155`); `CONTEXT.md:101` says that
   promotion consumes the pending entry.
2. `session_prompt_shells`. A runner that has become idle takes the session's entry
   out of the table without a look at whose it is (`effect/runner.ts:69`,
   `run-state.ts:65`). While a cancelled loop cleans up, one shell runs on the
   idle runner and ends, the next registers a new runner, and the end of the clean-up
   removes that one: the next prompt's loop runs beside the shell, against
   `packages/opencode/test/session/prompt.test.ts:2227`, "loop waits while shell
   runs and starts after shell exits".

### Further disagreements

These have a configuration that TLC finds violated, but for the last two, and no run
of their own.

3. `MCRunCoordinatorResume.cfg`, ResumeSurvivesStop. A `run` that finds its session
   stopping waits for the stopped drain and is answered with its interrupt
   (`run-coordinator.ts:71`). The test `session-run-coordinator.test.ts:285` is
   named for the opposite; its resume is registered only after the cleanup.
4. `MCEventLogFence.cfg`, FencedReplayIgnored. A former owner's replay is compared
   with the stored event before ownership is looked at (`event.ts:272`, `:301`), so
   a diverged history is a defect, where
   `packages/opencode/src/control-plane/workspace.ts:587` expects it to be ignored.
5. `MCTurnSettlementSuccess.cfg`, SuccessIsRecorded. An interrupt while a successful
   operation's output is bounded records the call as failed (`llm.ts:252`), against
   `CONTEXT.md:195`.
6. `MCTurnSettlementSiblings.cfg`, SettlementsAwaited. One tool that dies ends the
   wait for the others (`llm.ts:142`), against `specs/v2/session.md:50` and the
   checklist in `llm.ts:73`.
7. `MCTurnSettlementLastStep.cfg`, RequestHasResults. In a turn without tools
   the first local call fails every call seen so far (`llm.ts:246`); one
   whose input was still arriving is then projected as running again and skipped
   as settled, and the next request of the drain shows it without a result.
8. `MCTurnSettlementPublication.cfg`, RequestHasResults; also
   `MCTurnSettlementRetention.cfg`, RetentionFailureHarmless, and
   `MCTurnSettlementStep.cfg`, FailedStepStaysFailed. A call is marked settled
   before the event that settles it is committed (`publish-llm-event.ts:346`). A
   managed output that cannot be written (`tool-output-store.ts:134`) fails a
   successful call, against `CONTEXT.md:194`. A stream that fails after its
   step-finish event has its step failed (`llm.ts:294`) and then ended (`:318`),
   which overwrites the failure.
9. `MCBackgroundTasksParallel.cfg`, CallsPrompt. Two parallel calls that resume one child both
   find no running job; the second then finds the first one's, waits for it, and
   its own prompt is dropped (`task.ts:409`), where `task.txt:13` recommends to
   launch several at once and `task.ts:61` promises that the task continues.
10. `MCBackgroundTasksStop.cfg`, StopCatches. The jobs to cancel are listed before the turns
   that start jobs are stopped (`run-state.ts:140`), so that a job that starts in
   between survives the stop of its tree, against the test `task.test.ts:1375`,
   "cancelling a parent run recursively cancels descendant background tasks".
11. When the caller of a prompt that waits in the middle of the queue leaves, its
   entry stays in the list of waiting prompts, only the head of which is taken off
   (`prompt-queue.ts:255`); those behind it then run while they are listed,
   against the comment at `prompt-queue.ts:32`.
12. When the caller of the last slot leaves, all that is known of the session's
   queue is forgotten, deletions included, although slots before it still wait: a
   prompt that was deleted may run.

## What is abstracted, and what is not modelled

In the V2 runtime:

- A transaction is one action. The SQLite layer serialises statements and
  transactions by a semaphore (`core/database/sqlite.bun.ts:121`).
- An event ID stands for the ID, type and data of an event; a delivery stands for
  everything `equivalent` compares; two admissions have different creation times.
- RevertStage and RevertClear are atomic: the files they restore are left out.
  Only `revert.commit` is split, since what it read may be stale.
- SessionExecution numbers the events of the inbox only; others would widen the
  gaps between sequences that nothing compares.
- Text, reasoning, usage and the content of requests are left out of
  TurnSettlement; compaction is an outcome of a turn; a database failure is
  modelled at the publication of a tool's result only.
- Taking the publisher's semaphore, marking and committing are one action: the
  holder of the semaphore is the only fiber that acts on the publisher.
- A stream that ends cleanly inside a tool's input leaves the call pending. No
  source says what that means, so RequestHasResults speaks of running calls.
- The rules an agent has are constant; one tool call asks once; saved rules are
  only added (`PermissionSaved.remove` is left out), as is `ask`, which registers a
  request and does not wait. Questions are the same registry without rules and
  loops. Two facts of the code are kept as they are: two replies that both find the
  request are both published, and the later rejection still cascades
  (`permission.ts:225`); a rule that is saved between an evaluation and the
  registration leaves that request waiting (`permission.ts:200`).
- A file's content is the set of changes it holds. Programs that change files
  without the locks are left out, and so is `FileMutation.write`, which no tool
  uses. A patch deletes unconditionally (`apply-patch.ts:193`), in the model too.

In the V1 runtime:

- SessionPrompt: waiters of a semaphore are served before newcomers; what
  `Stopped` does between the end of an interrupted fiber and `idleIfCurrent` has no
  suspension and is one action; the program's own prompts neither wait for a
  cancellation nor end a pause. What a loop does in a step, commands, goals,
  the markers of superseded turns, `loop` as a request of its own, the scope and
  owner of targets, the finalizer of an instance and the tree of sessions are
  left out.
- BackgroundTasks: the tree of sessions is linked from the start; parts of `execute`
  and `notify` without a suspension are one action; a run's prompt is accepted at
  once; the hold of a prompt and of a delivery is the turn they start; the
  recursive batches of `cancelBackgroundJobs` are covered by each descendant's
  own stop. The timeout of `wait`, costs, models and the disposal of an instance are
  left out.

Not modelled at all: bounded subscribers and paged reads of the event log, the
remaining calls of `session.ts`, context epochs and moves, the V1 processor of a
turn. Context epochs need the content of system prompts and the discovery of a
Location's instructions to say anything of interest, and a move is git plumbing
around one event; both are the next candidates. The remaining packages are user
interfaces, wire formats, adapters, generated clients and remote services, for which
`PROJECT.json` gives the reason one by one: they hold most of the repository's
lines and little of its concurrency.

## Plan

Done, in this order: RunCoordinator with its abstraction SingleFlight and its
proofs; SessionInbox and SessionExecution; EventLog with its proofs;
TurnSettlement; PromptQueue, SessionRunState and SessionPrompt; BackgroundJob and
BackgroundTasks; KeyedMutex, PermissionRequests and FileEdits; the proofs about
KeyedMutex and FileEdits, BackgroundTasks, TurnSettlement, SessionExecution and
SessionPrompt; freedom from deadlock and termination for FileEdits and
BackgroundTasks.

Left:

1. ContextEpoch with moves: the baseline sequence against history, compaction,
   revert and a change of Location between two statements.
2. The V1 processor of a turn, against the same properties as TurnSettlement.
