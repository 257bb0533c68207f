---------------------------- MODULE TurnSettlement ----------------------------
(***************************************************************************)
(* Provider turns and the tools they call (session/runner/llm.ts and       *)
(* publish-llm-event.ts): the runner consumes the provider's stream, a     *)
(* fiber per local tool call executes it, and both publish durable events  *)
(* through one publisher whose calls a semaphore serialises.               *)
(*                                                                         *)
(* An action is one committed event or one synchronous block.  The drain   *)
(* that repeats turns is SessionExecution; here it is only whether another *)
(* turn follows.  A call stands for the pair of its assistant message and  *)
(* its provider-local ID.  Text, reasoning and the fragments of a tool's   *)
(* input change no tool: only that they start the assistant step is kept.  *)
(***************************************************************************)
EXTENDS Naturals, FiniteSets

CONSTANTS
  Call,        \* the tool calls
  NoCall,
  Failures,    \* what may fail: "storage" for the managed output of a tool,
               \* "publication" for the event that settles it
  LastStep     \* whether a turn may be the last that an agent is allowed, in
               \* which tools are disabled

ASSUME CallAssumption == NoCall \notin Call
ASSUME FailuresAssumption == Failures \subseteq {"storage", "publication"}
ASSUME LastStepAssumption == LastStep \subseteq BOOLEAN

VARIABLES
  part,        \* the projected status of each tool call
  step,        \* the projected status of the current assistant message
  pc,          \* where the runner is
  then,        \* where it goes when a loop of publications is over
  failing,     \* the calls that the loop has yet to fail
  event,       \* the stream event that is being published, and its call
  publisher,   \* the locals of the publisher
  tools,       \* its map: the calls it has seen, and what it knows of them
  turn,        \* the locals of `runTurnAttempt`
  fiber,       \* the fiber of each local call
  fault,       \* what the fiber set failed with first
  interrupted, \* the owner fiber has been interrupted
  settlements, \* history: how many events settled each call
  succeeded,   \* history: the operations that succeeded
  unretained   \* history: those whose output could not be stored

durable == <<part, step, settlements>>
control == <<pc, then, failing, event>>
history == <<succeeded, unretained>>
vars == <<durable, control, publisher, tools, turn, fiber, fault, interrupted, history>>

Status == {"none", "pending", "running", "completed", "error"}

NoEvent == [type |-> "none", call |-> NoCall]

FreshPublisher == [started |-> FALSE, active |-> FALSE, failed |-> FALSE,
                   providerFailed |-> FALSE, finished |-> FALSE]

NoTools == [seen |-> {}, called |-> {}, hosted |-> {}, settled |-> {}]

FreshTurn == [recover |-> TRUE, lastStep |-> FALSE, overflow |-> FALSE, continue |-> FALSE,
              stream |-> "open", settled |-> "open"]

TypeOK ==
  /\ part \in [Call -> Status]
  /\ step \in {"none", "started", "ended", "failed"}
  /\ pc \in {"off", "recover", "prepare", "stream", "event", "fork", "ended", "clear", "await",
             "fail tools", "fail step", "llm failure", "fail turn", "settle step", "leftovers", "close"}
  /\ then \in {"none", "stream", "await", "clear", "llm failure", "fail turn", "settle step", "close"}
  /\ failing \subseteq Call
  /\ event \in [type : {"none", "input", "call", "hosted call"}, call : Call \cup {NoCall}]
  /\ publisher \in [started : BOOLEAN, active : BOOLEAN, failed : BOOLEAN,
                    providerFailed : BOOLEAN, finished : BOOLEAN]
  /\ tools \in [seen : SUBSET Call, called : SUBSET Call, hosted : SUBSET Call, settled : SUBSET Call]
  /\ turn \in [recover : BOOLEAN, lastStep : BOOLEAN, overflow : BOOLEAN, continue : BOOLEAN,
               stream : {"open", "success", "llm error", "defect", "interrupt"},
               settled : {"open", "success", "failed", "declined", "interrupt"}]
  /\ fiber \in [Call -> {"none", "run", "bound", "publish success", "publish error", "gone"}]
  /\ fault \in {"none", "failed", "declined"}
  /\ interrupted \in BOOLEAN
  /\ settlements \in [Call -> Nat]
  /\ succeeded \subseteq Call
  /\ unretained \subseteq Call

Init ==
  /\ part = [c \in Call |-> "none"]
  /\ step = "none"
  /\ settlements = [c \in Call |-> 0]
  /\ pc = "off"
  /\ then = "none"
  /\ failing = {}
  /\ event = NoEvent
  /\ publisher = FreshPublisher
  /\ tools = NoTools
  /\ turn = FreshTurn
  /\ fiber = [c \in Call |-> "none"]
  /\ fault = "none"
  /\ interrupted = FALSE
  /\ succeeded = {}
  /\ unretained = {}

-----------------------------------------------------------------------------
\* Projections, and what several steps share.

Open(c) == part[c] \in {"pending", "running"}

\* Tool.Success and Tool.Failed: the projector ignores one that finds the call
\* in another state.
Settle(c, status) ==
  /\ part' = [part EXCEPT ![c] = IF @ = "running" \/ (@ = "pending" /\ status = "error") THEN status ELSE @]
  /\ settlements' = [settlements EXCEPT ![c] = @ + 1]

Unsettled == tools.seen \ tools.settled

\* `failUnsettledTools`, and where the runner goes after it.
FailTools(calls, where) ==
  /\ failing' = calls
  /\ pc' = IF calls = {} THEN where ELSE "fail tools"
  /\ then' = IF calls = {} THEN "none" ELSE where

\* `failAssistant`, once.
FailStep(where) ==
  /\ pc' = IF publisher.failed THEN where ELSE "fail step"
  /\ then' = IF publisher.failed THEN "none" ELSE where
  /\ UNCHANGED failing

Goto(where) == pc' = where /\ then' = "none" /\ UNCHANGED failing

\* Mutant of Locked: the runner keeps the semaphore while it awaits the tools.
LockedWhileAwaiting == pc \in {"event", "fail tools", "fail step", "await"}

\* The publisher's semaphore is held by the runner.
Locked == pc \in {"event", "fail tools", "fail step"}

Active(c) == fiber[c] \in {"run", "bound", "publish success", "publish error"}

\* Only the first failure of a fiber set counts.
Fail(kind) == fault' = IF fault = "none" THEN kind ELSE fault

-----------------------------------------------------------------------------
\* The drain around the turns.

\* `failInterruptedTools` reads the context when a drain begins.
DrainStart ==
  /\ pc = "off"
  /\ pc' = "recover"
  /\ failing' = {c \in Call : Open(c)}
  /\ UNCHANGED <<durable, then, event, publisher, tools, turn, fiber, fault, interrupted, history>>

RecoverNext ==
  /\ pc = "recover"
  /\ ~interrupted
  /\ \/ \E c \in failing : Settle(c, "error") /\ failing' = failing \ {c} /\ UNCHANGED <<pc, step>>
     \/ failing = {} /\ pc' = "prepare" /\ UNCHANGED <<failing, durable>>
  /\ UNCHANGED <<then, event, publisher, tools, turn, fiber, fault, interrupted, history>>

\* The request is built from the projected history and the provider is asked.
\* On an agent's last step it is offered no tools.
TurnBegin(lastStep) ==
  /\ pc = "prepare"
  /\ ~interrupted
  /\ Goto("stream")
  /\ step' = "none"
  /\ publisher' = FreshPublisher
  /\ turn' = [turn EXCEPT !.lastStep = lastStep]
  /\ UNCHANGED <<part, settlements, event, tools, fiber, fault, interrupted, history>>

\* The locals of the turn are gone,
Reset ==
  /\ then' = "none"
  /\ failing' = {}
  /\ event' = NoEvent
  /\ publisher' = FreshPublisher
  /\ tools' = NoTools
  /\ turn' = FreshTurn
  /\ fault' = "none"

\* and with them the fibers that have ended.
Forget == fiber' = [c \in Call |-> IF Active(c) THEN fiber[c] ELSE "none"]

\* The drain ends before a request: an error of a collaborator, or an interrupt.
DrainStop ==
  /\ \/ pc = "prepare"
     \/ pc = "recover" /\ interrupted
  /\ pc' = "off"
  /\ Reset
  /\ Forget
  /\ interrupted' = FALSE
  /\ UNCHANGED <<durable, history>>

\* Somebody interrupts the owner fiber.  It notices where it can be interrupted.
Interrupt ==
  /\ pc # "off"
  /\ ~interrupted
  /\ interrupted' = TRUE
  /\ UNCHANGED <<durable, control, publisher, tools, turn, fiber, fault, history>>

\* The process dies; what is not durable is gone.
Crash ==
  /\ pc # "off"
  /\ pc' = "off"
  /\ Reset
  /\ fiber' = [c \in Call |-> "none"]
  /\ interrupted' = FALSE
  /\ UNCHANGED <<durable, history>>

-----------------------------------------------------------------------------
\* The provider's stream.  After a provider error, and after an overflow that is
\* held back, events are ignored.

Listening == pc = "stream" /\ ~interrupted /\ ~turn.overflow /\ ~publisher.providerFailed

New(c) == c \notin tools.seen /\ part[c] = "none"

\* `startAssistant`, before whatever needs the assistant message.
StepStarted ==
  /\ ~publisher.started
  /\ \/ pc = "event" /\ ~interrupted
     \/ pc = "fail step" /\ (then = "stream" => ~interrupted)
     \/ pc = "settle step" /\ publisher.finished /\ ~publisher.providerFailed
     \/ Listening
  /\ step' = "started"
  /\ publisher' = [publisher EXCEPT !.started = TRUE, !.active = TRUE]
  /\ UNCHANGED <<part, settlements, control, tools, turn, fiber, fault, interrupted, history>>

\* A tool's input begins, or a call arrives, whose input may not have been seen.
ToolEvent(type, c) ==
  /\ Listening
  /\ New(c) \/ (type # "input" /\ c \in tools.seen \ tools.called)
  /\ event' = [type |-> type, call |-> c]
  /\ Goto("event")
  /\ UNCHANGED <<durable, publisher, tools, turn, fiber, fault, interrupted, history>>

InputStarted ==
  /\ pc = "event"
  /\ ~interrupted
  /\ publisher.started
  /\ event.call \notin tools.seen
  /\ tools' = [tools EXCEPT !.seen = @ \cup {event.call}]
  /\ part' = [part EXCEPT ![event.call] = "pending"]
  /\ IF event.type = "input" THEN Goto("stream") /\ event' = NoEvent ELSE UNCHANGED control
  /\ UNCHANGED <<step, settlements, publisher, turn, fiber, fault, interrupted, history>>

Called ==
  /\ pc = "event"
  /\ ~interrupted
  /\ event.type # "input"
  /\ event.call \in tools.seen
  /\ tools' = [tools EXCEPT !.called = @ \cup {event.call},
                            !.hosted = IF event.type = "hosted call" THEN @ \cup {event.call} ELSE @]
  /\ part' = [part EXCEPT ![event.call] = "running"]
  /\ IF event.type = "call" THEN Goto("fork") /\ UNCHANGED event ELSE Goto("stream") /\ event' = NoEvent
  /\ UNCHANGED <<step, settlements, publisher, turn, fiber, fault, interrupted, history>>

\* A recorded local call starts at once; without tools it is failed, and with it
\* everything else that is unsettled.
Fork ==
  /\ pc = "fork"
  /\ ~interrupted
  /\ event' = NoEvent
  /\ \/ /\ turn.lastStep
        /\ FailTools(Unsettled, "stream")
        /\ UNCHANGED <<turn, fiber>>
     \/ /\ ~turn.lastStep
        /\ turn' = [turn EXCEPT !.continue = TRUE]
        /\ fiber' = [fiber EXCEPT ![event.call] = "run"]
        /\ Goto("stream")
  /\ UNCHANGED <<durable, publisher, tools, fault, interrupted, history>>

\* The provider reports on a call it executes itself.  One that is settled
\* already is ignored if it is an error and otherwise a defect (StreamEnd).
HostedResult(c, status) ==
  /\ Listening
  /\ c \in tools.called \cap tools.hosted
  /\ c \notin tools.settled
  /\ tools' = [tools EXCEPT !.settled = @ \cup {c}]
  /\ Settle(c, status)
  /\ UNCHANGED <<step, control, publisher, turn, fiber, fault, interrupted, history>>

StepFinish ==
  /\ Listening
  /\ ~publisher.finished
  /\ publisher' = [publisher EXCEPT !.active = FALSE, !.finished = TRUE]
  /\ UNCHANGED <<durable, control, tools, turn, fiber, fault, interrupted, history>>

ProviderError ==
  /\ Listening
  /\ publisher' = [publisher EXCEPT !.providerFailed = TRUE]
  /\ FailStep("stream")
  /\ UNCHANGED <<durable, event, tools, turn, fiber, fault, interrupted, history>>

\* A context overflow before any output is held back.
Overflow ==
  /\ Listening
  /\ ~publisher.started
  /\ turn' = [turn EXCEPT !.overflow = TRUE]
  /\ UNCHANGED <<durable, control, publisher, tools, fiber, fault, interrupted, history>>

\* The stream ends: at its end, with an LLMError, or with a defect of the
\* publisher, which rejects what is out of order.
StreamEnd(exit) ==
  /\ ~interrupted
  /\ pc = "stream" \/ (pc = "event" /\ exit = "defect")
  /\ turn' = [turn EXCEPT !.stream = exit]
  /\ Goto("ended")
  /\ event' = NoEvent
  /\ UNCHANGED <<durable, publisher, tools, fiber, fault, interrupted, history>>

StreamInterrupted ==
  /\ interrupted
  /\ pc \in {"stream", "event", "fork"} \/ then = "stream"
  /\ turn' = [turn EXCEPT !.stream = "interrupt"]
  /\ pc' = "ended"
  /\ then' = "none"
  /\ failing' = {}
  /\ event' = NoEvent
  /\ UNCHANGED <<durable, publisher, tools, fiber, fault, interrupted, history>>

-----------------------------------------------------------------------------
\* The fibers of the local calls.  An operation can be interrupted, and so can
\* the bounding of its output; the publication of its result cannot.

Operation(c, outcome) ==
  /\ fiber[c] = "run"
  /\ fiber' = [fiber EXCEPT ![c] = outcome]
  /\ UNCHANGED <<durable, control, publisher, tools, turn, interrupted, unretained>>

OperationSucceeds(c) == Operation(c, "bound") /\ succeeded' = succeeded \cup {c} /\ UNCHANGED fault

\* A failure the model is told of.
OperationFails(c) == Operation(c, "publish error") /\ UNCHANGED <<fault, succeeded>>

\* A defect, or the user declines a permission or a question.
OperationDies(c, kind) == Operation(c, "gone") /\ Fail(kind) /\ UNCHANGED succeeded

Bound(c) ==
  /\ fiber[c] = "bound"
  /\ fiber' = [fiber EXCEPT ![c] = "publish success"]
  /\ UNCHANGED <<durable, control, publisher, tools, turn, fault, interrupted, history>>

BoundFails(c) ==
  /\ "storage" \in Failures
  /\ fiber[c] = "bound"
  /\ fiber' = [fiber EXCEPT ![c] = "gone"]
  /\ Fail("failed")
  /\ unretained' = unretained \cup {c}
  /\ UNCHANGED <<durable, control, publisher, tools, turn, interrupted, succeeded>>

\* Mutant of PublishResult: a result is published whether or not the call is
\* settled.
PublishResultAgain(c) ==
  /\ fiber[c] \in {"publish success", "publish error"}
  /\ ~Locked
  /\ fiber' = [fiber EXCEPT ![c] = "gone"]
  /\ tools' = [tools EXCEPT !.settled = @ \cup {c}]
  /\ Settle(c, IF fiber[c] = "publish success" THEN "completed" ELSE "error")
  /\ UNCHANGED <<step, fault, control, publisher, turn, interrupted, history>>

\* The result of a call that is settled already is ignored if it is an error and
\* otherwise a defect.
PublishResult(c) ==
  /\ fiber[c] \in {"publish success", "publish error"}
  /\ ~Locked
  /\ fiber' = [fiber EXCEPT ![c] = "gone"]
  /\ tools' = [tools EXCEPT !.settled = @ \cup {c}]
  /\ \/ /\ c \notin tools.settled
        /\ Settle(c, IF fiber[c] = "publish success" THEN "completed" ELSE "error")
        /\ UNCHANGED <<step, fault>>
     \/ /\ c \in tools.settled
        /\ IF fiber[c] = "publish success" THEN Fail("failed") ELSE UNCHANGED fault
        /\ UNCHANGED durable
  /\ UNCHANGED <<control, publisher, turn, interrupted, history>>

\* The publisher marks the call settled before the event is committed.
PublishFails(c) ==
  /\ "publication" \in Failures
  /\ fiber[c] \in {"publish success", "publish error"}
  /\ ~Locked
  /\ c \notin tools.settled
  /\ fiber' = [fiber EXCEPT ![c] = "gone"]
  /\ tools' = [tools EXCEPT !.settled = @ \cup {c}]
  /\ Fail("failed")
  /\ UNCHANGED <<durable, control, publisher, turn, interrupted, history>>

\* `FiberSet.clear`, and the end of the scope of the turn, interrupt every fiber
\* and wait for it.
FiberInterrupted(c) ==
  /\ pc \in {"clear", "close"}
  /\ fiber[c] \in {"run", "bound"}
  /\ fiber' = [fiber EXCEPT ![c] = "gone"]
  /\ UNCHANGED <<durable, control, publisher, tools, turn, fault, interrupted, history>>

-----------------------------------------------------------------------------
\* After the stream.  From here on the runner is interrupted only where it waits
\* for a compaction or for the tools.

FailNext ==
  /\ pc = "fail tools"
  /\ then = "stream" => ~interrupted
  /\ \E c \in failing :
       /\ Settle(c, "error")
       /\ tools' = [tools EXCEPT !.settled = @ \cup {c}]
       /\ failing' = failing \ {c}
  /\ IF failing' = {} THEN pc' = then /\ then' = "none" ELSE UNCHANGED <<pc, then>>
  /\ UNCHANGED <<step, event, publisher, turn, fiber, fault, interrupted, history>>

StepFailed ==
  /\ pc = "fail step"
  /\ then = "stream" => ~interrupted
  /\ publisher.started
  /\ step' = "failed"
  /\ publisher' = [publisher EXCEPT !.active = FALSE, !.failed = TRUE]
  /\ Goto(then)
  /\ UNCHANGED <<part, settlements, event, tools, turn, fiber, fault, interrupted, history>>

\* Compaction may recover a first overflow: the request is built once more.
Recoverable == turn.recover /\ ~publisher.started /\ (turn.overflow \/ turn.stream = "llm error")

Recovered ==
  /\ pc = "ended"
  /\ Recoverable
  /\ ~interrupted
  /\ Goto("prepare")
  /\ turn' = [FreshTurn EXCEPT !.recover = FALSE]
  /\ UNCHANGED <<durable, event, publisher, tools, fiber, fault, interrupted, history>>

RecoveryInterrupted ==
  /\ pc = "ended"
  /\ Recoverable
  /\ interrupted
  /\ Goto("close")
  /\ turn' = [turn EXCEPT !.settled = "interrupt"]
  /\ UNCHANGED <<durable, event, publisher, tools, fiber, fault, interrupted, history>>

\* Nothing was recovered: the overflow that was held back is published, or the
\* failure of the stream.
StreamSettle ==
  /\ pc = "ended"
  /\ IF turn.overflow
     THEN /\ publisher' = [publisher EXCEPT !.providerFailed = TRUE]
          /\ FailStep(IF turn.stream = "interrupt" THEN "clear" ELSE "await")
     ELSE /\ UNCHANGED publisher
          /\ IF turn.stream = "llm error" /\ ~publisher.providerFailed
             THEN FailTools(Unsettled \cap tools.hosted, "llm failure")
             ELSE Goto(IF turn.stream = "interrupt" THEN "clear" ELSE "await")
  /\ UNCHANGED <<durable, event, tools, turn, fiber, fault, interrupted, history>>

LlmFailure ==
  /\ pc = "llm failure"
  /\ FailStep("await")
  /\ UNCHANGED <<durable, event, publisher, tools, turn, fiber, fault, interrupted, history>>

\* `awaitToolFibers`: until the set is empty, or until its first failure.
Await ==
  /\ pc = "await"
  /\ \/ /\ ~interrupted
        /\ fault = "none"
        /\ \A c \in Call : ~Active(c)
        /\ turn' = [turn EXCEPT !.settled = "success"]
        /\ Goto("settle step")
     \/ /\ ~interrupted
        /\ fault = "failed"
        /\ turn' = [turn EXCEPT !.settled = "failed"]
        /\ FailTools(Unsettled, "settle step")
     \/ /\ ~interrupted
        /\ fault = "declined"
        /\ turn' = [turn EXCEPT !.settled = "declined"]
        /\ Goto("clear")
     \/ /\ interrupted
        /\ turn' = [turn EXCEPT !.settled = "interrupt"]
        /\ Goto("clear")
  /\ UNCHANGED <<durable, event, publisher, tools, fiber, fault, interrupted, history>>

\* Mutant of Cleared: local calls are left to their fibers.
ClearedHosted ==
  /\ pc = "clear"
  /\ \A c \in Call : ~Active(c)
  /\ IF turn.settled = "open" THEN Goto("await")
     ELSE FailTools(Unsettled \cap tools.hosted, IF turn.settled = "declined" THEN "close" ELSE "fail turn")
  /\ UNCHANGED <<durable, event, publisher, tools, turn, fiber, fault, interrupted, history>>

\* After an interrupted stream the tools are awaited, after the rest what they
\* left unsettled is failed.
Cleared ==
  /\ pc = "clear"
  /\ \A c \in Call : ~Active(c)
  /\ IF turn.settled = "open" THEN Goto("await")
     ELSE FailTools(Unsettled, IF turn.settled = "declined" THEN "close" ELSE "fail turn")
  /\ UNCHANGED <<durable, event, publisher, tools, turn, fiber, fault, interrupted, history>>

FailTurn ==
  /\ pc = "fail turn"
  /\ IF publisher.active THEN FailStep("settle step") ELSE Goto("settle step")
  /\ UNCHANGED <<durable, event, publisher, tools, turn, fiber, fault, interrupted, history>>

StepEnded ==
  /\ pc = "settle step"
  /\ IF publisher.finished /\ ~publisher.providerFailed
     THEN publisher.started /\ step' = "ended"
     ELSE UNCHANGED step
  /\ Goto("leftovers")
  /\ UNCHANGED <<part, settlements, event, publisher, tools, turn, fiber, fault, interrupted, history>>

\* Mutant of Leftovers: only a provider error leaves something to fail.
LeftoversOfError ==
  /\ pc = "leftovers"
  /\ IF publisher.providerFailed THEN FailTools(Unsettled, "close") ELSE Goto("close")
  /\ UNCHANGED <<durable, event, publisher, tools, turn, fiber, fault, interrupted, history>>

Leftovers ==
  /\ pc = "leftovers"
  /\ IF publisher.providerFailed THEN FailTools(Unsettled, "close")
     ELSE IF turn.stream = "success" THEN FailTools(Unsettled \cap tools.hosted, "close")
     ELSE Goto("close")
  /\ UNCHANGED <<durable, event, publisher, tools, turn, fiber, fault, interrupted, history>>

\* Mutant of Close: the scope does not wait for its fibers.
CloseAtOnce ==
  /\ pc = "close"
  /\ pc' = IF turn.stream = "success" /\ turn.settled \in {"success", "failed"} THEN "prepare" ELSE "off"
  /\ interrupted' = (interrupted /\ pc' # "off")
  /\ Reset
  /\ Forget
  /\ UNCHANGED <<durable, history>>

\* The scope of the turn ends.  An error or an interrupt ends the drain; without a
\* continuation the turn is followed by one for another prompt, or by none.
Close ==
  /\ pc = "close"
  /\ \A c \in Call : ~Active(c)
  /\ \/ /\ turn.stream # "success" \/ turn.settled \in {"interrupt", "declined"}
        /\ pc' = "off"
        /\ interrupted' = FALSE
     \/ /\ turn.stream = "success" /\ turn.settled \in {"success", "failed"}
        /\ \/ pc' = "prepare" /\ UNCHANGED interrupted
           \/ /\ publisher.providerFailed \/ ~turn.continue
              /\ pc' = "off"
              /\ interrupted' = FALSE
  /\ Reset
  /\ Forget
  /\ UNCHANGED <<durable, history>>

-----------------------------------------------------------------------------
\* What the runner does by itself,
Runner ==
  \/ RecoverNext
  \/ \E lastStep \in LastStep : TurnBegin(lastStep)
  \/ DrainStop
  \/ (pc # "stream" /\ StepStarted)
  \/ InputStarted
  \/ Called
  \/ Fork
  \/ StreamInterrupted
  \/ FailNext
  \/ StepFailed
  \/ Recovered
  \/ RecoveryInterrupted
  \/ StreamSettle
  \/ LlmFailure
  \/ Await
  \/ Cleared
  \/ FailTurn
  \/ StepEnded
  \/ Leftovers
  \/ Close

\* what the provider does,
Provider ==
  \/ StepStarted
  \/ \E type \in {"input", "call", "hosted call"}, c \in Call : ToolEvent(type, c)
  \/ \E c \in Call, status \in {"completed", "error"} : HostedResult(c, status)
  \/ StepFinish
  \/ ProviderError
  \/ Overflow
  \/ \E exit \in {"success", "llm error", "defect"} : StreamEnd(exit)

\* and what the fiber of a call does: the tool in it, and the rest.
Tool(c) ==
  \/ OperationSucceeds(c)
  \/ OperationFails(c)
  \/ \E kind \in {"failed", "declined"} : OperationDies(c, kind)

Settlement(c) ==
  \/ Bound(c)
  \/ BoundFails(c)
  \/ PublishResult(c)
  \/ PublishFails(c)
  \/ FiberInterrupted(c)

Next ==
  \/ DrainStart
  \/ Runner
  \/ Provider
  \/ \E c \in Call : Tool(c) \/ Settlement(c)
  \/ Interrupt
  \/ Crash

Spec == Init /\ [][Next]_vars

\* Runnable fibers run and an interrupted tool stops.
Fairness == WF_vars(Runner) /\ \A c \in Call : WF_vars(Settlement(c))

FairSpec == Spec /\ Fairness

\* A provider closes its stream in the end, and a tool returns.
Responsive == WF_vars(StreamEnd("success")) /\ \A c \in Call : WF_vars(Tool(c))

-----------------------------------------------------------------------------
\* A request never shows the model a call that has been recorded without its
\* result: every turn settles its calls before the next one, and a drain settles
\* what a crash left behind.
RequestHasResults == pc = "prepare" => \A c \in Call : part[c] # "running"

\* A tool runs only inside the turn that called it, and never while the session
\* is idle or another request is built.
NoExecutionOutlivesTurn == pc \in {"off", "recover", "prepare"} => \A c \in Call : ~Active(c)

\* One event settles a call, whoever gets there first: its fiber, the provider,
\* the runner that stops waiting or the drain that follows a crash.
OneSettlementPerCall == \A c \in Call : settlements[c] <= 1

\* A drain that is interrupted or declined leaves no call of its turn open.
StopSettlesTools ==
  pc = "close" /\ turn.settled \in {"interrupt", "declined"} => \A c \in tools.seen : ~Open(c)

\* A turn comes to its end if the provider and the tools do.
TurnCompletes == Responsive => (pc = "stream" ~> pc \in {"off", "prepare"})

\* A local operation that succeeded is not recorded as failed, except by the
\* drain that finds it open after a crash.
SuccessIsRecorded == \A c \in tools.seen \cap succeeded : part[c] # "error"

\* A result whose full text could not be retained is still a success.
RetentionFailureHarmless == \A c \in tools.seen \cap unretained : part[c] # "error"

\* No tool is recorded as failed while it is still being executed.
SettlementsAwaited == \A c \in Call : fiber[c] = "run" => part[c] # "error"

\* An assistant step that failed has ended.
FailedStepStaysFailed == [][step = "failed" => step' \in {"failed", "none"}]_vars
=============================================================================
